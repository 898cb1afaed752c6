-------------------------------- MODULE Ops --------------------------------
(***************************************************************************)
(* The service: the supervisor (ops/boot.ts, restart.ts, edge.ts) and the  *)
(* children it keeps alive, of which MIRA's process (ops/main.ts) is seen  *)
(* from inside: how it starts, its ingester (data/ingester.ts), its        *)
(* journal, the orders it leaves on the chain, and how it stops.           *)
(*                                                                         *)
(* Time is not modelled: a timer may fire at any moment after it is set,   *)
(* and the backoff of a failing poll, which sets its delay, is left out.   *)
(* Any child may die at any moment, and the platform may kill everything   *)
(* once it has asked the service to stop.  A spawn that fails without an   *)
(* exit is left out.  An order is "sending" from the price that causes it  *)
(* to its landing; VenueOrders says more of cancelAll, TxQueue of sending. *)
(***************************************************************************)
EXTENDS Journal

CONSTANTS
  Others,       \* the children besides MIRA
  Critical,     \* the children whose loss takes the service down
  GiveUpAfter,  \* crashes after which a child is not started again
  Symbols,      \* underlyings polled, as the sequence the ingester walks
  Instants,     \* timestamps a source may report
  MaxExits,     \* bound: how many children die
  MaxRecords,   \* bound: records appended to the journal of one life
  MaxOrders     \* bound: orders sent, over all lives

Orders == 1 .. MaxOrders

VARIABLES
  boot,      \* "up", then "edge", "grace", "exited", or "killed"
  proc,      \* child -> "live", "waiting" for its restart, or "gone"
  crashes,   \* child -> crashes counted against it
  exits,     \* deaths so far
  viewer,    \* does a page hold a WebSocket through the edge?
  life,      \* MIRA: "booting", "trading"; then its shutdown: "draining",
             \* "listing", "sweeping", "closed"
  running,   \* the ingester's flag
  loop,      \* its poll: "off", "armed", "reading"
  at,        \* the symbol being read
  seen,      \* symbol -> timestamp of its last tick
  journal,   \* see Journal
  place,     \* order -> "none", "sending", "landed" and still on the chain, "gone"
  mine,      \* orders this MIRA sent that were not acknowledged yet
  tracked,   \* orders of this MIRA on its records, venueOrderIds
  todo,      \* what its sweep still has to cancel
  owed,      \* history: tracked when it was told to stop
  missed     \* history: orders whose cancel in the sweep failed

super == <<boot, proc, crashes, exits>>
feed == <<running, loop, at, seen>>
chain == <<place, mine, tracked, todo, owed, missed>>
memory == <<mine, tracked, todo>>
opsVars == <<super, viewer, life, feed, journal, chain>>

Children == Others \cup {"mira"}

Idle ==
  /\ running = FALSE /\ loop = "off" /\ at = 1
  /\ seen = [s \in Range(Symbols) |-> 0]

OpsInit ==
  /\ boot = "up" /\ exits = 0
  /\ proc = [c \in Children |-> "live"] /\ crashes = [c \in Children |-> 0]
  /\ viewer = FALSE /\ life = "booting"
  /\ Idle
  /\ journal = EmptyJournal
  /\ place = [o \in Orders |-> "none"]
  /\ mine = {} /\ tracked = {} /\ todo = {} /\ owed = {} /\ missed = {}

Trading == proc["mira"] = "live" /\ life # "booting"

-----------------------------------------------------------------------------
(* The ingester of the running agent. *)

\* The end of main.ts: markets listed at start name the symbols; with none of
\* them the ingester is never started.
Started ==
  /\ proc["mira"] = "live" /\ life = "booting"
  /\ life' = "trading"
  /\ \E listed \in BOOLEAN :
       /\ running' = listed
       /\ loop' = IF listed THEN "armed" ELSE "off"
  /\ UNCHANGED <<super, viewer, at, seen, journal, chain>>

\* The timer of schedule() fires: a poll begins, at the first symbol.
PollBegin ==
  /\ Trading /\ loop = "armed"
  /\ loop' = "reading" /\ at' = 1
  /\ UNCHANGED <<super, viewer, life, running, seen, journal, chain>>

\* The symbol is dealt with: the next one, or the end of the poll, which schedules
\* the next poll unless the ingester was stopped.
Proceed ==
  /\ UNCHANGED running
  /\ IF at < Len(Symbols)
     THEN at' = at + 1 /\ UNCHANGED loop
     ELSE loop' = (IF running THEN "armed" ELSE "off") /\ UNCHANGED at

Unsent == {o \in Orders : place[o] = "none"}

\* A price newer than the last is published, which may make the engine send an
\* order, and then journalled; any other is dropped.
Answered ==
  /\ Trading /\ loop = "reading"
  /\ \E ts \in Instants :
       LET s == Symbols[at] IN
       IF ts > seen[s]
       THEN /\ journal.seq < MaxRecords
            /\ seen' = [seen EXCEPT ![s] = ts]
            /\ \/ UNCHANGED <<place, mine>>
               \/ \E o \in Unsent :
                    /\ place' = [place EXCEPT ![o] = "sending"]
                    /\ mine' = mine \cup {o}
            /\ journal' \in Appended(journal)
       ELSE UNCHANGED <<seen, journal, place, mine>>
  /\ Proceed
  /\ UNCHANGED <<super, viewer, life, tracked, todo, owed, missed>>

\* A read that fails is reported, and the next symbol is read.
Unanswered ==
  /\ Trading /\ loop = "reading"
  /\ Proceed
  /\ UNCHANGED <<super, viewer, life, seen, journal, chain>>

JournalTimer ==
  /\ Trading /\ journal.armed
  /\ journal' \in TimerFired(journal)
  /\ UNCHANGED <<super, viewer, life, feed, chain>>

\* An order lands, also one whose process has died since.
OrderLands(o) ==
  /\ place[o] = "sending"
  /\ place' = [place EXCEPT ![o] = "landed"]
  /\ UNCHANGED <<super, viewer, life, feed, journal, mine, tracked, todo, owed, missed>>

\* It is filled, expires, or a cancel that was given up lands after all.
OrderGone(o) ==
  /\ place[o] = "landed"
  /\ place' = [place EXCEPT ![o] = "gone"]
  /\ UNCHANGED <<super, viewer, life, feed, journal, mine, tracked, todo, owed, missed>>

\* The receipt of an order, with its id, reaches the process that sent it.  One
\* that timed out, or came without an id, never does.
Acknowledged(o) ==
  /\ Trading /\ o \in mine /\ place[o] \in {"landed", "gone"}
  /\ mine' = mine \ {o}
  /\ tracked' = tracked \cup {o}
  /\ UNCHANGED <<super, viewer, life, feed, journal, place, todo, owed, missed>>

-----------------------------------------------------------------------------
(* MIRA's shutdown, await by await; ticks and orders in flight go on. *)

\* Mutant of Targets: cancelAll is asked for another agent's orders.
NoTargets == {}

\* The orders on MIRA's own records, whatever the indexer knows.
Targets == tracked

\* server.stop() has returned, which it does only without viewers; cancelAll.
SweepBegin ==
  /\ Trading /\ life = "draining" /\ ~viewer
  /\ life' = "listing"
  /\ todo' = Targets
  /\ UNCHANGED <<super, viewer, feed, journal, place, mine, tracked, owed, missed>>

\* The indexer adds some of what has been on the chain, whoever sent it: it lags,
\* and where it fails it lists nothing.
SweepList ==
  /\ Trading /\ life = "listing"
  /\ life' = "sweeping"
  /\ \E listed \in SUBSET {o \in Orders : place[o] \in {"landed", "gone"}} :
       todo' = todo \cup listed
  /\ UNCHANGED <<super, viewer, feed, journal, place, mine, tracked, owed, missed>>

\* One order of the sweep is cancelled, or its cancel fails and it is left.
SweepCancel(o) ==
  /\ Trading /\ life = "sweeping" /\ o \in todo
  /\ todo' = todo \ {o}
  /\ \/ /\ place[o] = "landed"
        /\ place' = [place EXCEPT ![o] = "gone"]
        /\ tracked' = tracked \ {o}
        /\ UNCHANGED missed
     \/ /\ missed' = missed \cup {o}
        /\ UNCHANGED <<place, tracked>>
  /\ UNCHANGED <<super, viewer, life, feed, journal, mine, owed>>

CloseJournal ==
  /\ Trading /\ life = "sweeping" /\ todo = {}
  /\ life' = "closed"
  /\ journal' \in Closed(journal)
  /\ UNCHANGED <<super, viewer, feed, chain>>

\* What a dead process leaves: nothing of its memory.
Forgotten ==
  /\ running' = FALSE /\ loop' = "off" /\ at' = 1
  /\ seen' = [s \in Range(Symbols) |-> 0]
  /\ mine' = {} /\ tracked' = {} /\ todo' = {}

\* What a death may find unwritten: the buffer, or the buffer with the record of
\* the price being taken.
Unwritten ==
  {journal} \cup (IF Trading /\ loop = "reading" /\ ~journal.closed /\ journal.seq < MaxRecords
                 THEN {Buffered(journal)} ELSE {})

\* MIRA dies, perhaps while it writes.
Crashed == Forgotten /\ \E j \in Unwritten : journal' \in Died(j)

-----------------------------------------------------------------------------
(* The supervisor. *)

Live == {c \in Children : proc[c] = "live"}

\* Mutant of GaveUp: the service stays up without it.
GaveUpQuietly(c) == UNCHANGED boot

\* shutdown() begins when a critical child is given up.
GaveUp(c) == boot' = IF c \in Critical THEN "edge" ELSE boot

\* on('exit'): counted, and restarted by a timer until it is given up; while
\* the service stops it is only struck off.
Exited(c) ==
  LET n == crashes[c] + 1 IN
  IF boot # "up" THEN proc' = [proc EXCEPT ![c] = "gone"] /\ UNCHANGED <<crashes, boot>>
  ELSE /\ crashes' = [crashes EXCEPT ![c] = n]
       /\ IF n >= GiveUpAfter
          THEN proc' = [proc EXCEPT ![c] = "gone"] /\ GaveUp(c)
          ELSE proc' = [proc EXCEPT ![c] = "waiting"] /\ UNCHANGED boot

\* A child dies by itself.
Die(c) ==
  /\ proc[c] = "live" /\ exits < MaxExits
  /\ exits' = exits + 1
  /\ Exited(c)
  /\ IF c = "mira"
     THEN Crashed /\ viewer' = FALSE
     ELSE UNCHANGED <<viewer, feed, journal, memory>>
  /\ UNCHANGED <<life, place, owed, missed>>

\* A child is started, MIRA with a journal of its own.
StartChild(c) ==
  /\ proc' = [proc EXCEPT ![c] = "live"]
  /\ IF c = "mira"
     THEN life' = "booting" /\ journal' = EmptyJournal
     ELSE UNCHANGED <<life, journal>>

\* The restart timer: start() returns at once when the service is stopping.
Restart(c) ==
  /\ proc[c] = "waiting"
  /\ IF boot = "up" THEN StartChild(c)
     ELSE proc' = [proc EXCEPT ![c] = "gone"] /\ UNCHANGED <<life, journal>>
  /\ UNCHANGED <<boot, crashes, exits, viewer, feed, chain>>

\* The interval that forgives crashes.
Forgive ==
  /\ boot \in {"up", "edge", "grace"} /\ \E c \in Children : crashes[c] > 0
  /\ crashes' = [c \in Children |-> 0]
  /\ UNCHANGED <<boot, proc, exits, viewer, life, feed, journal, chain>>

\* A page connects through the edge, or leaves.
Connect ==
  /\ ~viewer /\ boot = "up" /\ Trading /\ life = "trading"
  /\ viewer' = TRUE
  /\ UNCHANGED <<super, life, feed, journal, chain>>

Leave ==
  /\ viewer
  /\ viewer' = FALSE
  /\ UNCHANGED <<super, life, feed, journal, chain>>

\* SIGTERM to the service.
Signal ==
  /\ boot = "up" /\ boot' = "edge"
  /\ UNCHANGED <<proc, crashes, exits, viewer, life, feed, journal, chain>>

\* edge.stop() has returned: it closes the idle connections and waits for the
\* upgraded ones.  Children get SIGTERM; MIRA's handler stops the ingester at
\* once, a MIRA still starting has no handler yet and dies.
EdgeStopped ==
  /\ boot = "edge" /\ ~viewer
  /\ boot' = "grace"
  /\ IF proc["mira"] = "live" /\ life = "trading"
     THEN /\ life' = "draining" /\ running' = FALSE
          /\ loop' = IF loop = "armed" THEN "off" ELSE loop
          /\ owed' = tracked
          /\ UNCHANGED proc
     ELSE /\ proc' = [proc EXCEPT !["mira"] = IF @ = "live" THEN "gone" ELSE @]
          /\ UNCHANGED <<life, running, loop, owed>>
  /\ UNCHANGED <<crashes, exits, viewer, at, seen, journal, place, memory, missed>>

\* A child ends as asked: MIRA with process.exit, after closing its journal.
Ended(c) ==
  /\ boot = "grace" /\ proc[c] = "live"
  /\ c = "mira" => life = "closed"
  /\ proc' = [proc EXCEPT ![c] = "gone"]
  /\ IF c = "mira" THEN Forgotten ELSE UNCHANGED <<feed, memory>>
  /\ UNCHANGED <<boot, crashes, exits, viewer, life, journal, place, owed, missed>>

\* The end of the wait: all are gone, or what is left gets SIGKILL.
Exit ==
  /\ boot = "grace"
  /\ boot' = IF Live = {} THEN "exited" ELSE "killed"
  /\ proc' = [c \in Children |-> "gone"]
  /\ IF "mira" \in Live THEN Crashed ELSE Forgotten /\ UNCHANGED journal
  /\ UNCHANGED <<crashes, exits, viewer, life, place, owed, missed>>

\* The platform's patience ends before the service does.
PlatformKill ==
  /\ boot \in {"edge", "grace"}
  /\ boot' = "killed"
  /\ proc' = [c \in Children |-> "gone"] /\ viewer' = FALSE
  /\ IF "mira" \in Live THEN Crashed ELSE Forgotten /\ UNCHANGED journal
  /\ UNCHANGED <<crashes, exits, life, place, owed, missed>>

-----------------------------------------------------------------------------
OpsNext ==
  \/ Started \/ PollBegin \/ Answered \/ Unanswered \/ JournalTimer
  \/ \E o \in Orders : OrderLands(o) \/ OrderGone(o) \/ Acknowledged(o) \/ SweepCancel(o)
  \/ SweepBegin \/ SweepList \/ CloseJournal
  \/ \E c \in Children : Die(c) \/ Restart(c) \/ Ended(c)
  \/ Forgive \/ Connect \/ Leave \/ Signal \/ EdgeStopped \/ Exit \/ PlatformKill

\* Timers fire, a start is completed, and a read ends one way or the other.
OpsSpec ==
  /\ OpsInit /\ [][OpsNext]_opsVars
  /\ WF_opsVars(Started) /\ WF_opsVars(PollBegin) /\ WF_opsVars(Answered \/ Unanswered)
  /\ \A c \in Children : WF_opsVars(Restart(c))

-----------------------------------------------------------------------------
\* A record is never written twice or out of order.  A replay warns only when a
\* write has failed or the process died in one, yields a beginning of the run as
\* long as no write has failed, and until a death file and buffer hold all there
\* was to hold: batches, their timer, close(), late records and crashes between
\* them lose nothing else (Journal.append, writeNow, close, replayFile).
JournalFaithful ==
  LET r == Replayed(journal.file)
      accepted == journal.file \o journal.buf
  IN  /\ \A i, k \in DOMAIN r.yielded : i < k => r.yielded[i] < r.yielded[k]
      /\ r.warned => journal.failures > 0 \/ (journal.died /\ journal.torn)
      /\ journal.failures = 0 =>
           /\ \A i \in DOMAIN r.yielded : r.yielded[i] = i
           /\ ~journal.died => accepted = [i \in 1 .. Len(accepted) |-> i]
           /\ ~journal.died /\ ~journal.closed => Len(accepted) = journal.seq
      /\ journal.closed => journal.buf = <<>>

\* A service that stopped without killing anything leaves no order on the chain
\* that MIRA had on its records when it was told to stop, unless the cancel of
\* that order failed, and provided MIRA lived through its shutdown.  An order of a
\* MIRA that crashed, or one not acknowledged by then, may stay: only the indexer
\* knows of it (boot.ts and main.ts shutdown, cancelAll).
OrderlyStopSweeps ==
  boot = "exited" /\ life = "closed" =>
    \A o \in owed : place[o] = "landed" => o \in missed

\* A stop is final.  Once the service is stopping no child comes back, though its
\* restart was due; once MIRA was told to stop no poll begins, though one was
\* under way, so that no price and no order comes of a later one (boot.ts start,
\* Ingester.stop and schedule).
ToldToStop == life \notin {"booting", "trading"}

StopIsFinal ==
  [][/\ boot # "up" => \A c \in Children : proc'[c] = "live" => proc[c] = "live"
     /\ ToldToStop => (loop' = "reading" => loop = "reading")]_opsVars

\* While the service is up its prices are read again and again, whatever dies
\* and however often a read fails: a child comes back, or the service goes down
\* (boot.ts, Ingester.schedule).  A living agent that found no market is excepted.
PricesKeepComing ==
  []<>(\/ boot # "up" \/ loop = "reading"
       \/ proc["mira"] = "live" /\ life = "trading" /\ ~running)
=============================================================================
