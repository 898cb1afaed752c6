-------------------------------- MODULE Feed --------------------------------
(***************************************************************************)
(* The arena feed, from the bus of the agent's process to a browser page:  *)
(* EventBus (data/bus.ts) with its subscribers Store (data/store.ts),      *)
(* Persona (core/persona.ts) and Broadcaster (api/ws.ts), the socket, and  *)
(* the page's client and store (web/lib/ws.ts, web/lib/store.ts).          *)
(*                                                                         *)
(* publish() is synchronous, so an event reaches every subscriber, and the *)
(* wire of every viewer, in one step; an event a subscriber publishes in   *)
(* turn goes out before the one it reacts to.  The socket may fail at any  *)
(* time and takes frames in flight with it, the agent may be restarted     *)
(* with nothing remembered, and the page reconnects until it is left.      *)
(*                                                                         *)
(* An event is known by its number.  The topics modelled are those the     *)
(* program publishes and both stores fold; nothing publishes 'fill',       *)
(* 'position', 'pnl' or 'health'.  Persona has no generator here, so its   *)
(* cache is never filled and every quip is a template.                     *)
(*                                                                         *)
(* A list of valuations is a function, with a key that gives its order:    *)
(* Store's Map keeps the order of first arrival, the page has the newest   *)
(* first, and a higher key is nearer to its front.                         *)
(***************************************************************************)
EXTENDS Integers, FiniteSets, SequencesExt

CONSTANTS
  FeedMarkets,
  ValCap,       \* valuations the page keeps when one arrives
  QuipCap,      \* quips kept, by the server and by the page
  MaxEvents,    \* bound: how many events are published
  MaxSockets,   \* bound: how many sockets the page opens
  MaxCrashes    \* bound: how often the agent is restarted

ASSUME FeedAssumption == QuipCap \in Nat /\ ValCap \in Nat /\ IsFiniteSet(FeedMarkets)

VARIABLES
  server,       \* what Store holds: [vals, round, board, quips], and, as history,
                \* cleared: the last event about a round was a settlement
  scoring,      \* rounds that were closed and not settled yet
  published,    \* events published so far
  clients,      \* Broadcaster's clients: the sockets subscribed to the bus
  wire,         \* frames on their way to the page
  socket,       \* number of the page's socket
  phase,        \* of that socket: "none", "connecting", "open", "broken"
  page,         \* what the page holds: the same, with hydrated and connected
  timer,        \* is a reconnection armed?
  stopped,
  crashes

feedVars == <<server, scoring, published, clients, wire, socket, phase, page, timer, stopped, crashes>>

NoRound == [id |-> 0, status |-> "none"]
Unvalued == [n |-> 0, key |-> 0]
Nothing ==
  [vals |-> [m \in FeedMarkets |-> Unvalued], round |-> NoRound, board |-> 0, quips |-> <<>>,
   cleared |-> FALSE]
Blank == [data |-> Nothing, hydrated |-> FALSE, connected |-> FALSE]

FeedInit ==
  /\ server = Nothing /\ scoring = {} /\ published = 0 /\ clients = {} /\ wire = <<>>
  /\ socket = 1 /\ phase = "connecting"
  /\ page = Blank /\ timer = FALSE /\ stopped = FALSE /\ crashes = 0

-----------------------------------------------------------------------------
(* The events, each with what Store makes of it.  Persona answers the       *)
(* opening and the settling of a round, and a kill, with a quip.            *)

Newest(list, x) == SubSeq(<<x>> \o list, 1, IF Len(list) < QuipCap THEN Len(list) + 1 ELSE QuipCap)

Valued(vals) == {m \in FeedMarkets : vals[m].n # 0}

\* Map.set: a market keeps its place.
Put(vals, e) ==
  [vals EXCEPT ![e.market] =
     [n |-> e.n, key |-> IF vals[e.market].n = 0 THEN -e.n ELSE vals[e.market].key]]

\* Store.subscribe: the handler of each topic.
Stored(s, e) ==
  CASE e.t = "valuation"  -> [s EXCEPT !.vals = Put(@, e)]
    [] e.t = "round"      -> [s EXCEPT !.round = [id |-> e.id, status |-> e.status], !.cleared = FALSE]
    [] e.t = "settlement" -> [s EXCEPT !.board = e.n, !.cleared = TRUE]
    [] e.t = "quip"       -> [s EXCEPT !.quips = Newest(@, e.n)]
    [] OTHER              -> s

\* The page's list: the newest in front, the end cut off.
Ahead(vals, m) == {x \in Valued(vals) : vals[x].key > vals[m].key}
Cut(vals) ==
  [m \in FeedMarkets |-> IF Cardinality(Ahead(vals, m)) < ValCap THEN vals[m] ELSE Unvalued]
Fronted(vals, e) == Cut([vals EXCEPT ![e.market] = [n |-> e.n, key |-> e.n]])

\* foldEvent: what the page makes of it.  A settlement also takes the round
\* off the page, whichever round that is, where Store keeps it.
Folded(v, e) ==
  CASE e.t = "valuation"  -> [v EXCEPT !.vals = Fronted(@, e)]
    [] e.t = "settlement" -> [Stored(v, e) EXCEPT !.round = NoRound]
    [] OTHER              -> Stored(v, e)

Round(id, status, n) == [t |-> "round", id |-> id, status |-> status, n |-> n]
Quip(n) == [t |-> "quip", n |-> n]
RoundId == server.round.id
RoundStatus == server.round.status

\* settle: the round itself is published only while it is the current one, for the
\* next may have opened while its outcomes were read; and Persona has a word on
\* the payouts, if there are any.
Settling(r, n) ==
  {(IF r = RoundId THEN <<Quip(2 * n), Round(r, "SETTLED", n)>> ELSE <<>>)
     \o paid \o <<[t |-> "settlement", id |-> r, n |-> n]>> :
     paid \in {<<>>, <<Quip(2 * n + 1)>>}}

\* What one call of the program publishes, in the order the viewers get it.
Batches(n) ==
  {<<[t |-> "valuation", market |-> m, n |-> n]>> : m \in FeedMarkets}
  \cup {<<Quip(2 * n), [t |-> "kill", n |-> n]>>}
  \cup (IF RoundStatus # "OPEN" THEN {<<Quip(2 * n), Round(n, "OPEN", n)>>}
        ELSE {<<Round(RoundId, "SCORING", n)>>})
  \cup UNION {Settling(r, n) : r \in scoring}

\* The round driver and the console close a round, read its outcomes, and settle it.
Closing(batch) == {e.id : e \in {x \in Range(batch) : x.t = "round" /\ x.status = "SCORING"}}
Settled(batch) == {e.id : e \in {x \in Range(batch) : x.t = "settlement"}}

Event(e) == [t |-> "ev", d |-> e]
Frames(batch) == [i \in DOMAIN batch |-> Event(batch[i])]

\* onAny, for the page's own socket; a frame for a socket that is gone is lost.
Sent(batch) == IF socket \in clients /\ phase = "open" THEN wire \o Frames(batch) ELSE wire

Publish(batch) ==
  /\ published < MaxEvents
  /\ published' = published + 1
  /\ server' = FoldLeft(Stored, server, batch)
  /\ scoring' = (scoring \cup Closing(batch)) \ Settled(batch)
  /\ wire' = Sent(batch)
  /\ UNCHANGED <<clients, socket, phase, page, timer, stopped, crashes>>

-----------------------------------------------------------------------------
(* The connection, seen from the server. *)

\* Mutant of Greeting: the snapshot is the one taken for an earlier viewer.
GreetingStale == <<[t |-> "open"], [t |-> "snapshot", d |-> Nothing]>>

\* connect(): subscribed first, then hello and the snapshot, in one step.
Greeting == <<[t |-> "open"], [t |-> "snapshot", d |-> server]>>

Accept ==
  /\ phase = "connecting"
  /\ phase' = "open"
  /\ clients' = clients \cup {socket}
  /\ wire' = Greeting
  /\ UNCHANGED <<server, scoring, published, socket, page, timer, stopped, crashes>>

\* Mutant of Disconnect: only the socket connected last is unsubscribed.
DisconnectLast(s) ==
  /\ s \in clients /\ ~(s = socket /\ phase = "open") /\ s = socket
  /\ clients' = clients \ {s}
  /\ UNCHANGED <<server, scoring, published, wire, socket, phase, page, timer, stopped, crashes>>

\* The server hears that a socket is gone, sooner or later.
Disconnect(s) ==
  /\ s \in clients /\ ~(s = socket /\ phase = "open")
  /\ clients' = clients \ {s}
  /\ UNCHANGED <<server, scoring, published, wire, socket, phase, page, timer, stopped, crashes>>

\* The agent dies and is started again with an empty store.
Crash ==
  /\ crashes < MaxCrashes /\ socket < MaxSockets
  /\ crashes' = crashes + 1
  /\ server' = Nothing /\ scoring' = {} /\ clients' = {}
  /\ phase' = IF phase = "none" THEN "none" ELSE "broken"
  /\ UNCHANGED <<published, wire, socket, page, timer, stopped>>

\* The network fails: what had not arrived yet is lost from some point on.
Break ==
  /\ phase \in {"connecting", "open"} /\ socket < MaxSockets
  /\ phase' = "broken"
  /\ \E k \in 0..Len(wire) : wire' = SubSeq(wire, 1, k)
  /\ UNCHANGED <<server, scoring, published, clients, socket, page, timer, stopped, crashes>>

-----------------------------------------------------------------------------
(* The page. *)

\* apply() of a snapshot: nothing the page had is kept.
Hydrated(d) == d

Applied(p, f) ==
  CASE f.t = "open"     -> [p EXCEPT !.connected = TRUE]
    [] f.t = "snapshot" -> [data |-> Hydrated(f.d), hydrated |-> TRUE, connected |-> TRUE]
    [] f.t = "ev"       -> IF p.hydrated THEN [p EXCEPT !.data = Folded(@, f.d)] ELSE p

Receive ==
  /\ wire # <<>>
  /\ page' = Applied(page, Head(wire))
  /\ wire' = Tail(wire)
  /\ UNCHANGED <<server, scoring, published, clients, socket, phase, timer, stopped, crashes>>

\* Mutant of Closed: a connection that never opened arms no reconnection.
ClosedOnceOpen ==
  /\ phase = "broken" /\ wire = <<>>
  /\ phase' = "none"
  /\ page' = [page EXCEPT !.connected = FALSE]
  /\ timer' = (~stopped /\ page.connected)
  /\ UNCHANGED <<server, scoring, published, clients, wire, socket, stopped, crashes>>

\* onclose, after the last frame that arrived: the data stays, marked stale.
Closed ==
  /\ phase = "broken" /\ wire = <<>>
  /\ phase' = "none"
  /\ page' = [page EXCEPT !.connected = FALSE]
  /\ timer' = ~stopped
  /\ UNCHANGED <<server, scoring, published, clients, wire, socket, stopped, crashes>>

Reconnect ==
  /\ timer /\ socket < MaxSockets
  /\ timer' = FALSE
  /\ socket' = socket + 1 /\ phase' = "connecting"
  /\ UNCHANGED <<server, scoring, published, clients, wire, page, stopped, crashes>>

\* The page is left: the timer goes and the socket closes.
Stop ==
  /\ ~stopped
  /\ stopped' = TRUE /\ timer' = FALSE
  /\ phase' = IF phase = "none" THEN "none" ELSE "broken"
  /\ UNCHANGED <<server, scoring, published, clients, wire, socket, page, crashes>>

-----------------------------------------------------------------------------
FeedNext ==
  \/ \E batch \in Batches(published + 1) : Publish(batch)
  \/ Accept \/ Crash \/ Break
  \/ \E s \in clients : Disconnect(s)
  \/ Receive \/ Closed \/ Reconnect \/ Stop

\* Frames arrive, a server that is up accepts, sockets report their end at
\* both ends, and the reconnection timer fires.
FeedSpec ==
  /\ FeedInit /\ [][FeedNext]_feedVars
  /\ WF_feedVars(Accept) /\ WF_feedVars(Receive) /\ WF_feedVars(Closed) /\ WF_feedVars(Reconnect)
  /\ \A s \in 1..MaxSockets : WF_feedVars(s \in clients /\ Disconnect(s))

-----------------------------------------------------------------------------
\* The page shows what the server holds, but for two things.  The last event about
\* a round was a settlement: then it may show no round, also not one that is open.
\* The server values more markets than the page keeps: then some may be missing.
Same(v, s) ==
  /\ v.board = s.board /\ v.quips = s.quips
  /\ v.round = s.round \/ (s.cleared /\ v.round = NoRound)
  /\ \A m \in Valued(v.vals) : v.vals[m].n = s.vals[m].n
  /\ Valued(v.vals) # Valued(s.vals) => Cardinality(Valued(s.vals)) > ValCap

\* Snapshot, then stream, with no gap and nothing twice: on a connection that
\* lives, the page as it will be once the frames in flight have arrived is what
\* the server holds now, but for what foldEvent drops (Broadcaster.connect,
\* foldEvent, Store, HuntService.settle while the next round is open).
ViewFollows ==
  phase = "open" => Same(FoldLeft(Applied, page, wire).data, server)

\* When the network and the agent come to rest, so does the page, on the
\* server's view: no way of losing a socket leaves it unconnected for good
\* (web/lib/ws.ts: onclose, schedule, connect).
PageRecovers ==
  <>[](stopped \/ (page.connected /\ page.hydrated /\ Same(page.data, server)))

\* A viewer that is gone is unsubscribed from the bus in the end, so sockets
\* do not pile up on the trading path (Broadcaster.disconnect).
DeadViewersLeave ==
  \A s \in 1..MaxSockets - 1 :
    (s \in clients /\ s < socket) ~> (s \notin clients)
=============================================================================
