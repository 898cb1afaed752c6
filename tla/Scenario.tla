------------------------------ MODULE Scenario ------------------------------
(***************************************************************************)
(* Scripted market scenarios (scenarios.ts) driving the simulated venue    *)
(* while orders are placed and matched on it.  start() arms one timer per  *)
(* step of the script on the venue's clock and supersedes whatever ran     *)
(* before by clearing its timers.  What the superseded script already did  *)
(* to the venue (spread, depth, fair price, spot) stays done.              *)
(*                                                                         *)
(* Step values are in thousandths.  The volatility target reaches the      *)
(* venue as spread and fair price; the price walk of ScenarioSpotDriver    *)
(* matters here only through the side of the strike it leaves the spot on. *)
(* freezeQuote dates the quotes and changes nothing a trade depends on;    *)
(* the venue has no hook for dropNextTx and clashNonce.                    *)
(***************************************************************************)
EXTENDS SimVenue

CONSTANTS
  Scripts,          \* the scenarios the director triggers here
  MaxRuns           \* bound: how many times one is started

VARIABLES
  running,          \* the scenario started last, or "none" once cancelled
  runs,             \* scenarios started so far: the length of `history`
  volTarget

scenarioVars == <<running, runs, volTarget>>
simVars == <<clockVars, venueVars, scenarioVars>>

step(at, op, value) == [at |-> at, op |-> op, value |-> value]

SCENARIOS ==
  [VOL_SPIKE   |-> <<step(0, "setVol", 400), step(2000, "setVol", 3000),
                     step(20000, "setVol", 2400), step(40000, "setVol", 900),
                     step(60000, "setVol", 400)>>,
   NEWS_SHOCK  |-> <<step(0, "setVol", 500), step(5000, "jumpSpot", 1035),
                     step(5001, "setVol", 2000), step(25000, "setVol", 700)>>,
   FLAT_DRIFT  |-> <<step(0, "setVol", 20), step(0, "setSpread", 4),
                     step(30000, "setVol", 15)>>,
   STALE_QUOTE |-> <<step(0, "setVol", 600), step(1000, "freezeQuote", 30000)>>,
   THIN_BOOK   |-> <<step(0, "setVol", 600), step(1000, "setDepth", 1),
                     step(15000, "setDepth", 0), step(25000, "setDepth", 50)>>,
   DROPPED_TX  |-> <<step(0, "setVol", 800), step(2000, "dropNextTx", 1)>>,
   NONCE_CLASH |-> <<step(0, "setVol", 800), step(2000, "clashNonce", 1)>>]

ASSUME ScenarioAssumption == Scripts \subseteq DOMAIN SCENARIOS

SimInit == ClockInit /\ VenueInit /\ running = "none" /\ runs = 0 /\ volTarget = 400

IsScripted(job) == "op" \in DOMAIN job

\* Mutant of Cleared: cancel() forgets the runner and leaves its timers armed.
ClearedNothing == timers

\* What is left of the timers when the runner clears its own.
Spared(ts, x) == IF IsScripted(x.job) THEN ts ELSE Append(ts, x)
Cleared == FoldLeft(Spared, <<>>, timers)

\* start: the timers of the script, in its order, after the cancellation.
Scripted(s) == Timer(s.at, [op |-> s.op, value |-> s.value, run |-> runs + 1])

StartScript(name) ==
  /\ Still /\ runs < MaxRuns
  /\ timers' = Cleared \o [k \in DOMAIN SCENARIOS[name] |-> Scripted(SCENARIOS[name][k])]
  /\ running' = name
  /\ runs' = runs + 1
  /\ UNCHANGED <<now, target, venueVars, volTarget>>

Stop ==
  /\ Still /\ running # "none"
  /\ timers' = Cleared
  /\ running' = "none"
  /\ UNCHANGED <<now, target, venueVars, runs, volTarget>>

(***************************************************************************)
(* apply.  A step of volatility or of spot also moves the fair price of    *)
(* the markets the scenario acts on.                                       *)
(***************************************************************************)
Clamped(p) == Larger(30000, Smaller(970000, p))
FairAfter(op, value, vol) ==
  Clamped(500000 + (IF op = "jumpSpot" THEN (value - 1000) * 6000 ELSE 0) + 8 * vol)

Apply(op, value) ==
  /\ volTarget' = IF op = "setVol" THEN value ELSE volTarget
  /\ spread' = CASE op = "setVol"    -> Larger(2000, value * 30)
                 [] op = "setSpread" -> value * 1000
                 [] OTHER            -> spread
  /\ depthOverride' = IF op = "setDepth" THEN value ELSE depthOverride
  /\ spot' = IF op = "jumpSpot" THEN IF value >= 1000 THEN "above" ELSE "below" ELSE spot
  /\ fair' = IF op \in {"setVol", "jumpSpot"} THEN FairAfter(op, value, volTarget') ELSE fair

FireStep(i) ==
  /\ ~Still /\ Due(i) /\ IsScripted(timers[i].job)
  /\ now' = timers[i].due
  /\ timers' = Without(i)
  /\ Apply(timers[i].job.op, timers[i].job.value)
  /\ UNCHANGED <<target, latency, outcome, acks, book, hold, cash, claimed, running, runs>>

\* ScenarioSpotDriver.tick: the walk takes the spot to either side of the strike.
SpotTick ==
  /\ Still
  /\ spot' \in {"below", "above"} \ {spot}
  /\ UNCHANGED <<clockVars, latency, fair, spread, depthOverride, outcome, acks, book,
                 hold, cash, claimed, scenarioVars>>

SimNext ==
  \/ VenueCall /\ UNCHANGED scenarioVars
  \/ \E t \in Stops : AdvanceTo(t) /\ UNCHANGED <<venueVars, scenarioVars>>
  \/ AdvanceEnd /\ UNCHANGED <<venueVars, scenarioVars>>
  \/ \E i \in DOMAIN timers : FireOrder(i) /\ UNCHANGED scenarioVars
  \/ \E i \in DOMAIN timers : FireStep(i)
  \/ \E name \in Scripts : StartScript(name)
  \/ Stop
  \/ SpotTick

SimSpec == SimInit /\ [][SimNext]_simVars

(***************************************************************************)
(* Properties.                                                             *)
(***************************************************************************)
\* The four ledgers of a trade agree after any sequence of trades, mints and
\* netting until the market is claimed: the net position is what the tokens
\* say, and collateral spent is exactly the cost of the position, the pairs
\* and the profit booked so far (emitFill, mintPair).
BooksBalance ==
  ~claimed =>
    /\ hold.net = hold.yes - hold.no
    /\ Plus(Plus(Whole(cash + hold.no * Payout), Times(hold.basis, hold.net)),
            Times(hold.realized, -1)) = Whole(InitialCash)

\* Two resting orders of the agent that are both alive never cross: what
\* could have traded did before the rest was put in the book (match, consume).
UncrossedBook ==
  \A j, k \in DOMAIN book :
    Rests(book[j], "bid", now) /\ Rests(book[k], "ask", now) => book[j].price < book[k].price

\* Every step still armed belongs to the scenario started last and none is
\* armed once it is cancelled: two scripts never write to the venue in turns
\* (ScenarioRunner.start, cancel).
SupersededSilent ==
  \A i \in DOMAIN timers : IsScripted(timers[i].job) =>
    running # "none" /\ timers[i].job.run = runs
=============================================================================
