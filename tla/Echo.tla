-------------------------------- MODULE Echo --------------------------------
(***************************************************************************)
(* ECHO, the market maker (packages/core/src/echo.ts), in its own process  *)
(* (packages/ops/src/echoMain.ts): the requote cycle with every await in   *)
(* it, the fills that are polled beside it, and the shutdown, which does   *)
(* not wait for a cycle under way.                                         *)
(*                                                                         *)
(* The pool fills and expires quotes on its own.  A cancel may fail for a  *)
(* passing reason and is answered like any other; a placement that timed   *)
(* out is answered REJECTED and may land all the same.  Prices matter only *)
(* through a side that finds no room to rest; the requote cadence, through *)
(* a tick that comes before the last cycle is old enough.                  *)
(***************************************************************************)
EXTENDS Integers, FiniteSets, SequencesExt

CONSTANTS
  Markets,
  Half,         \* maxInventory / 2
  Size,         \* quoteSize
  MaxNet,       \* the guard's cap on one market
  MaxQuotes,    \* bound: how many quotes are submitted
  MaxRounds     \* bound: how many cycles begin

ASSUME EchoAssumption == Half \in Nat /\ Size \in Nat \ {0} /\ MaxNet \in Nat

VARIABLES
  quotes,       \* what rests in the pool: [id, market, side, round]
  limbo,        \* quotes given up that may still land
  unreported,   \* [Markets -> contracts] filled and not yet polled
  net,          \* [Markets -> contracts], as ECHO and its guard count them
  openIds,      \* [Markets -> the quotes to cancel before the next ones]
  minted,
  cycle,        \* the cycle under way, with the requote it is in
  submitted,    \* number of quotes submitted so far
  stage,        \* "up", then the two sweeps of the shutdown, then "exited"
  todo,         \* the orders the sweep under way has still to cancel
  lost,         \* history: quotes whose cancel or whose receipt went wrong
  late          \* history: the round under way when the shutdown began

echoVars == <<quotes, limbo, unreported, net, openIds, minted, cycle, submitted,
          stage, todo, lost, late>>
venueSide == <<quotes, limbo, unreported>>
shutdown == <<stage, todo, late>>

Signed(side) == IF side = "YES" THEN Size ELSE -Size
Abs(n) == IF n < 0 THEN -n ELSE n

Idle(round) == [pc |-> "idle", round |-> round, markets |-> <<>>, ids |-> <<>>, sides |-> <<>>]
InCycle == cycle.pc # "idle"
Alive == stage # "exited"
Market == Head(cycle.markets)
Side == Head(cycle.sides)

EchoInit ==
  /\ quotes = {} /\ limbo = {} /\ unreported = [m \in Markets |-> 0]
  /\ net = [m \in Markets |-> 0] /\ openIds = [m \in Markets |-> <<>>]
  /\ minted = {} /\ cycle = Idle(0) /\ submitted = 0
  /\ stage = "up" /\ todo = {} /\ lost = {} /\ late = 0

-----------------------------------------------------------------------------
(* The pool, and the timer that polls it. *)

QuoteFills(q) ==
  /\ q \in quotes
  /\ quotes' = quotes \ {q}
  /\ unreported' = [unreported EXCEPT ![q.market] = @ + Signed(q.side)]
  /\ UNCHANGED <<limbo, net, openIds, minted, cycle, submitted, shutdown, lost>>

QuoteExpires(q) ==
  /\ q \in quotes
  /\ quotes' = quotes \ {q}
  /\ UNCHANGED <<limbo, unreported, net, openIds, minted, cycle, submitted, shutdown, lost>>

QuoteLandsLate(q) ==
  /\ q \in limbo
  /\ limbo' = limbo \ {q} /\ quotes' = quotes \cup {q}
  /\ UNCHANGED <<unreported, net, openIds, minted, cycle, submitted, shutdown, lost>>

\* pollMakerFills: ECHO subscribes to the venue's fills in start(), and the
\* process hands it each of them once more, so each is counted twice.
Poll ==
  /\ stage = "up" /\ \E m \in Markets : unreported[m] # 0
  /\ net' = [m \in Markets |-> net[m] + 2 * unreported[m]]
  /\ unreported' = [m \in Markets |-> 0]
  /\ UNCHANGED <<quotes, limbo, openIds, minted, cycle, submitted, shutdown, lost>>

-----------------------------------------------------------------------------
(* The quote loop: a tick that finds a cycle under way does nothing. *)

\* Mutant of Tick: the timer is left armed by the shutdown.
TickAlways ==
  /\ Alive /\ ~InCycle /\ cycle.round < MaxRounds
  /\ cycle' = [Idle(cycle.round + 1) EXCEPT !.pc = "markets"]
  /\ UNCHANGED <<venueSide, net, openIds, minted, submitted, shutdown, lost>>

Tick ==
  /\ stage = "up" /\ ~InCycle /\ cycle.round < MaxRounds      \* bound
  /\ cycle' = [Idle(cycle.round + 1) EXCEPT !.pc = "markets"]
  /\ UNCHANGED <<venueSide, net, openIds, minted, submitted, shutdown, lost>>

\* Go on with the next market of the cycle, or end it.
NextMarket(ms) ==
  IF ms = <<>> THEN Idle(cycle.round)
  ELSE [cycle EXCEPT !.pc = "cancel", !.markets = ms, !.ids = openIds[Head(ms)], !.sides = <<>>]

NextSide(sides) ==
  IF sides = <<>> THEN NextMarket(Tail(cycle.markets))
  ELSE [cycle EXCEPT !.pc = "side", !.sides = sides]

\* getMarkets answers and the cycle is due: the markets that trade and have a
\* fair value are requoted one after the other.
MarketsAnswer(ms) ==
  /\ Alive /\ cycle.pc = "markets"
  /\ cycle' = NextMarket(ms)
  /\ UNCHANGED <<venueSide, net, openIds, minted, submitted, shutdown, lost>>

\* Mutant of CycleFailed: the flag is cleared on success only.
CycleFailedStuck ==
  /\ Alive /\ cycle.pc = "markets"
  /\ cycle' = [cycle EXCEPT !.pc = "failed"]
  /\ UNCHANGED <<venueSide, net, openIds, minted, submitted, shutdown, lost>>

\* getMarkets failed, or the cadence has not elapsed since the last cycle.
CycleFailed ==
  /\ Alive /\ cycle.pc = "markets"
  /\ cycle' = Idle(cycle.round)
  /\ UNCHANGED <<venueSide, net, openIds, minted, submitted, shutdown, lost>>

\* cancelFor, one id per step.  Whatever the answer, the id is not kept.
CancelOne(landed) ==
  LET id == Head(cycle.ids) IN
  /\ Alive /\ cycle.pc = "cancel" /\ cycle.ids # <<>>
  /\ cycle' = [cycle EXCEPT !.ids = Tail(@)]
  /\ IF landed THEN /\ quotes' = {q \in quotes : q.id # id} /\ UNCHANGED lost
               ELSE /\ lost' = lost \cup {id} /\ UNCHANGED quotes
  /\ UNCHANGED <<limbo, unreported, net, openIds, minted, submitted, shutdown>>

CancelDone ==
  /\ Alive /\ cycle.pc = "cancel" /\ cycle.ids = <<>>
  /\ openIds' = [openIds EXCEPT ![Market] = <<>>]
  /\ cycle' = [cycle EXCEPT !.pc = "book"]
  /\ UNCHANGED <<venueSide, net, minted, submitted, shutdown, lost>>

\* The book is read, or not; the inventory of this moment picks the sides.
SidesFor(m) ==
  IF net[m] > Half THEN <<"NO">> ELSE IF net[m] < -Half THEN <<"YES">> ELSE <<"YES", "NO">>

BookRead ==
  /\ Alive /\ cycle.pc = "book"
  /\ cycle' = NextSide(SidesFor(Market))
  /\ UNCHANGED <<venueSide, net, openIds, minted, submitted, shutdown, lost>>

\* clampToBook finds no price to rest at, or the order is refused for its
\* rate or its cooldown, by the pool, or by the queue.
SideSkipped ==
  /\ Alive /\ cycle.pc \in {"side", "check", "placing"}
  /\ cycle' = NextSide(Tail(cycle.sides))
  /\ UNCHANGED <<venueSide, net, openIds, minted, submitted, shutdown, lost>>

SidePriced ==
  /\ Alive /\ cycle.pc = "side"
  /\ cycle' = [cycle EXCEPT !.pc = IF Market \in minted THEN "check" ELSE "mint"]
  /\ UNCHANGED <<venueSide, net, openIds, minted, submitted, shutdown, lost>>

MintAnswer(ok) ==
  /\ Alive /\ cycle.pc = "mint"
  /\ minted' = IF ok THEN minted \cup {Market} ELSE minted
  /\ cycle' = [cycle EXCEPT !.pc = "check"]
  /\ UNCHANGED <<venueSide, net, openIds, submitted, shutdown, lost>>

OverCap(m, delta) == Abs(net[m] + delta) >= Abs(net[m]) /\ Abs(net[m] + delta) > MaxNet

Submit ==
  /\ Alive /\ cycle.pc = "check" /\ submitted < MaxQuotes
  /\ ~OverCap(Market, Signed(Side))
  /\ submitted' = submitted + 1
  /\ cycle' = [cycle EXCEPT !.pc = "placing"]
  /\ UNCHANGED <<venueSide, net, openIds, minted, shutdown, lost>>

Quote == [id |-> submitted, market |-> Market, side |-> Side, round |-> cycle.round]

\* Mutant of Remembered: the ids of the last side replace those before it.
RememberedLast(ids, id) == <<id>>

Remembered(ids, id) == Append(ids, id)

\* ECHO remembers every order that was accepted.  The venue does not know the one
\* whose receipt had no id: a cancel of it need not reach the pool.
PlaceAccepted ==
  /\ Alive /\ cycle.pc = "placing"
  /\ quotes' = quotes \cup {Quote}
  /\ openIds' = [openIds EXCEPT ![Market] = Remembered(@, Quote.id)]
  /\ \E named \in BOOLEAN : lost' = IF named THEN lost ELSE lost \cup {Quote.id}
  /\ cycle' = NextSide(Tail(cycle.sides))
  /\ UNCHANGED <<limbo, unreported, net, minted, submitted, shutdown>>

PlaceGivenUp ==
  /\ Alive /\ cycle.pc = "placing"
  /\ limbo' = limbo \cup {Quote} /\ lost' = lost \cup {Quote.id}
  /\ cycle' = NextSide(Tail(cycle.sides))
  /\ UNCHANGED <<quotes, unreported, net, openIds, minted, submitted, shutdown>>

-----------------------------------------------------------------------------
(* Shutdown: the timers stop, two sweeps run one after the other, and the    *)
(* process exits.  A cycle under way runs on between their awaits.           *)

Signal ==
  /\ stage = "up"
  /\ stage' = "echo.list"
  /\ late' = IF InCycle THEN cycle.round ELSE 0
  /\ UNCHANGED <<venueSide, net, openIds, minted, cycle, submitted, todo, lost>>

\* cancelAll of the venue: the orders it holds receipts of, and those of the
\* others the indexer lists.
ShutdownList(listed) ==
  /\ stage \in {"echo.list", "venue.list"}
  /\ stage' = IF stage = "echo.list" THEN "echo.cancel" ELSE "venue.cancel"
  /\ todo' = {q \in quotes : q.id \notin lost \/ q \in listed}
  /\ UNCHANGED <<venueSide, net, openIds, minted, cycle, submitted, late, lost>>

ShutdownCancel(q, landed) ==
  /\ q \in todo
  /\ todo' = todo \ {q}
  /\ IF landed THEN /\ quotes' = quotes \ {q} /\ UNCHANGED lost
               ELSE /\ lost' = lost \cup {q.id} /\ UNCHANGED quotes
  /\ UNCHANGED <<limbo, unreported, net, openIds, minted, cycle, submitted, stage, late>>

EchoSwept ==
  /\ stage = "echo.cancel" /\ todo = {}
  /\ stage' = "venue.list"
  /\ openIds' = [m \in Markets |-> <<>>]
  /\ UNCHANGED <<venueSide, net, minted, cycle, submitted, todo, late, lost>>

\* process.exit: a placement on the wire may still land.
Exit ==
  /\ stage = "venue.cancel" /\ todo = {}
  /\ stage' = "exited"
  /\ limbo' = IF cycle.pc = "placing" THEN limbo \cup {Quote} ELSE limbo
  /\ UNCHANGED <<quotes, unreported, net, openIds, minted, cycle, submitted, todo, late, lost>>

-----------------------------------------------------------------------------
Orderings == {ms \in UNION {[1..n -> Markets] : n \in 0..Cardinality(Markets)} :
                \A i, j \in DOMAIN ms : ms[i] = ms[j] => i = j}

Pool == \/ \E q \in quotes : QuoteFills(q) \/ QuoteExpires(q)
        \/ \E q \in limbo : QuoteLandsLate(q)

Step == \/ \E ms \in Orderings : MarketsAnswer(ms)
        \/ CycleFailed
        \/ \E landed \in BOOLEAN : CancelOne(landed)
        \/ CancelDone \/ BookRead \/ SidePriced \/ SideSkipped
        \/ \E ok \in BOOLEAN : MintAnswer(ok)
        \/ Submit \/ PlaceAccepted \/ PlaceGivenUp

Shutdown == \/ Signal \/ EchoSwept \/ Exit
            \/ \E listed \in SUBSET quotes : ShutdownList(listed)
            \/ \E q \in todo, landed \in BOOLEAN : ShutdownCancel(q, landed)

EchoNext == Pool \/ Poll \/ Tick \/ Step \/ Shutdown

\* The venue answers every call of a cycle: reads throw or return, writes are
\* under the queue's timer.
EchoSpec == EchoInit /\ [][EchoNext]_echoVars /\ WF_echoVars(Step)

-----------------------------------------------------------------------------
\* Quotes never stack: while a quote of a market rests, an older one rests
\* beside it only if its cancel failed or its receipt went wrong
\* (cancelFor, openIds).
StackedOnlyIfLost ==
  \A q, r \in quotes :
    q.market = r.market /\ q.round < r.round => q.id \in lost

\* After the process has exited what still rests was lost in the same way, or
\* belongs to the one cycle that was under way when the signal came, which
\* nothing waits for (echoMain's shutdown).
StoppedLeavesOnlyLate ==
  stage = "exited" => \A q \in quotes : q.id \in lost \/ q.round = late

\* A cycle comes to its end whatever fails in it, so the flag that keeps
\* cycles apart never stops the quoting for good (echoMain's `cycling`).
CycleReturns == InCycle ~> (~InCycle \/ ~Alive)
=============================================================================
