------------------------------- MODULE Engine -------------------------------
(***************************************************************************)
(* The trading engine (packages/core/src/engine.ts) as main.ts wires it: a   *)
(* price tick starts onTick and nothing waits for the one before, so ticks   *)
(* run at the same time and meet at their awaits; fills are reported by the  *)
(* answer to an order and, apart from it, by a poll of the chain; an         *)
(* operator kills and releases.                                             *)
(*                                                                          *)
(* The sizer and the price are left open: an order is any signed size up to  *)
(* MaxSize.  A tick makes at most one order per market, which identifies it. *)
(***************************************************************************)
EXTENDS RiskGuard, SignalEngine, FiniteSets

CONSTANTS
  Ticks,       \* price ticks; each comes once (bounds them)
  Held,        \* positions the account may hold when the engine starts
  MaxSize,     \* bound of the model: contracts in an order
  MaxTime      \* bound of the model: the clock

ASSUME EngineAssumption == /\ Held \subseteq -MaxNet .. MaxNet
                           /\ MaxSize \in Nat \ {0}
                           /\ MaxTime \in Nat

VARIABLES
  now,         \* the clock
  tick,        \* [Ticks -> Tick]
  order,       \* [Ticks \X Markets -> Order]
  chainNet,    \* [Markets -> contracts], on the chain
  fills,       \* matches on the chain
  polled       \* matches a poll has reported

(* History, for stating properties only. *)
VARIABLES
  entered,     \* [Markets -> entries since the latch last opened]
  told,        \* matches reported, by an answer or by a poll
  blind,       \* markets once ordered in without knowing the position
  checked,     \* the latest time a rate check was made for
  outOfOrder   \* a rate check was made for an earlier time than one before

engineVars  == <<now, tick, order, chainNet, fills, polled>>
historyVars == <<entered, told, blind, checked, outOfOrder>>
vars == <<guardVars, signalVars, engineVars, historyVars>>

(* A tick lists the markets, then takes them one by one: a quote is awaited, *)
(* and so is the placing of the order it may lead to.                       *)
Tick == [pc : {"idle", "listing", "quoting", "placing"},
         at : Nat,                     \* tsMs
         todo : SUBSET Markets,        \* markets still to evaluate
         on : Markets \cup {"none"}]   \* the market whose order is placed

(* An order is decided, and waits for the venue's reads and the queue; it is *)
(* signed; it lands and rests until it is matched or expires.               *)
Order == [stage : {"none", "placing", "signed", "resting", "over"},
          side : {-1, 1},              \* NO or YES
          left : Nat,                  \* contracts not matched yet
          taken : Nat]                 \* contracts matched as it landed

(* Taken as the order landed, or from the book later. *)
Match == [tick : Ticks, market : Markets, left : Nat, qty : Int, ts : Nat, maker : BOOLEAN]

Live(o) == order[o].stage \in {"placing", "signed", "resting"}

TypeOK == /\ GuardTypeOK
          /\ SignalTypeOK
          /\ now \in Nat
          /\ tick \in [Ticks -> Tick]
          /\ order \in [Ticks \X Markets -> Order]
          /\ chainNet \in [Markets -> Int]
          /\ fills \in SUBSET Match
          /\ polled \in SUBSET fills
          /\ entered \in [Markets -> Nat]
          /\ told \in SUBSET fills
          /\ blind \in SUBSET Markets
          /\ checked \in Nat
          /\ outOfOrder \in BOOLEAN

Init == /\ GuardInit
        /\ SignalInit
        /\ now = 0
        /\ tick = [t \in Ticks |-> [pc |-> "idle", at |-> 0, todo |-> {}, on |-> "none"]]
        /\ order = [o \in Ticks \X Markets |->
                      [stage |-> "none", side |-> 1, left |-> 0, taken |-> 0]]
        /\ chainNet \in [Markets -> Held]
        /\ fills = {}
        /\ polled = {}
        /\ entered = [m \in Markets |-> 0]
        /\ told = {}
        /\ blind = {}
        /\ checked = 0
        /\ outOfOrder = FALSE

-----------------------------------------------------------------------------
(* A tick arrives, stamped by this process's clock. *)
Arrive(t) == /\ tick[t].pc = "idle"
             /\ tick' = [tick EXCEPT ![t] = [pc |-> "listing", at |-> now, todo |-> {}, on |-> "none"]]
             /\ UNCHANGED <<guardVars, signalVars, now, order, chainNet, fills, polled, historyVars>>

(* A tick goes on, with the time it came with. *)
Proceed(t, pc, todo, on) ==
  tick' = [tick EXCEPT ![t] = [pc |-> pc, at |-> @.at, todo |-> todo, on |-> on]]

(* The markets of its asset are known, from the cache or the venue. *)
List(t) == /\ tick[t].pc = "listing"
           /\ \E ms \in SUBSET Markets :
                Proceed(t, "quoting", ms, "none")
           /\ UNCHANGED <<guardVars, signalVars, now, order, chainNet, fills, polled, historyVars>>

MoveOn(t, m) == Proceed(t, "quoting", tick[t].todo \ {m}, "none")

(* No quote: the market is passed over. *)
NoQuote(t, m) == /\ MoveOn(t, m)
                 /\ UNCHANGED <<guardVars, signalVars, now, order, chainNet, fills, polled, historyVars>>

CountEntry(m, action) ==
  entered' = [entered EXCEPT ![m] = CASE action = "ENTER" -> @ + 1
                                      [] action \in {"SKIP", "STAND_DOWN"} -> 0
                                      [] action = "HOLD" -> @]

(* check() has counted the placements of the minute before ts. *)
NoteCheck(ts) == /\ checked' = IF ts > checked THEN ts ELSE checked
                 /\ outOfOrder' = (outOfOrder \/ ts < checked)

(* A valuation that makes no order: no entry, nothing to size, or denied. *)
NoOrder(t, m) ==
  /\ \E edge \in Edge :
       LET action == Signal(m, edge, tick[t].at)
       IN /\ Latch(m, action)
          /\ CountEntry(m, action)
          /\ \/ UNCHANGED <<guardVars, checked, outOfOrder>>
             \/ /\ action = "ENTER"
                /\ \E delta \in (-MaxSize .. MaxSize) \ {0} : Deny(m, delta, tick[t].at)
                /\ IF Halted \/ CoolingDown(m, tick[t].at)
                   THEN UNCHANGED <<checked, outOfOrder>> ELSE NoteCheck(tick[t].at)
  /\ MoveOn(t, m)
  /\ UNCHANGED <<now, order, chainNet, fills, polled, told, blind>>

(* The position is known when the guard has the chain's and no order is out. *)
Known(m) == /\ net[m] = chainNet[m]
            /\ \A t \in Ticks : ~Live(<<t, m>>)

(* An entry that passes the gate becomes an order, in the same step.  Its    *)
(* time is the tick's, however long ago that was.                           *)
Place(t, m) ==
  /\ Signal(m, "high", tick[t].at) = "ENTER"
  /\ Latch(m, "ENTER")
  /\ CountEntry(m, "ENTER")
  /\ \E size \in 1 .. MaxSize, side \in {-1, 1} :
       /\ Permit(m, side * size, tick[t].at)
       /\ order' = [order EXCEPT ![<<t, m>>] =
                      [stage |-> "placing", side |-> side, left |-> size, taken |-> 0]]
  /\ NoteCheck(tick[t].at)
  /\ blind' = IF Known(m) THEN blind ELSE blind \cup {m}
  /\ Proceed(t, "placing", tick[t].todo \ {m}, m)
  /\ UNCHANGED <<now, chainNet, fills, polled, told>>

(* evaluateMarket(), from the quote's arrival to its next await. *)
Evaluate(t, m) == /\ tick[t].pc = "quoting"
                  /\ m \in tick[t].todo
                  /\ NoQuote(t, m) \/ NoOrder(t, m) \/ Place(t, m)

-----------------------------------------------------------------------------
(* What an awaited order comes to, for the tick that awaits it.  None of it  *)
(* is the guard's business: its say was over when the order was decided.    *)
SetStage(o, stage) == order' = [order EXCEPT ![o].stage = stage]

Resume(t) == Proceed(t, "quoting", tick[t].todo, "none")

(* placeOrder() rejects the order before it is signed, or the queue does. *)
Refuse(t, m) == /\ tick[t].on = m
                /\ order[<<t, m>>].stage = "placing"
                /\ SetStage(<<t, m>>, "over")
                /\ Resume(t)
                /\ UNCHANGED <<guardVars, signalVars, now, chainNet, fills, polled, historyVars>>

(* The order's turn comes in the queue and it is signed. *)
Sign(t, m) == /\ order[<<t, m>>].stage = "placing"
              /\ SetStage(<<t, m>>, "signed")
              /\ UNCHANGED <<guardVars, signalVars, now, tick, chainNet, fills, polled, historyVars>>

(* The venue's onFill: the engine's handler tells the guard and the signals. *)
OnFill(m, qty, ts) == /\ GuardFill(m, qty, ts)
                      /\ NoteFill(m, ts)
                      /\ UNCHANGED <<entered, blind, checked, outOfOrder>>

(* The receipt: what the order took as it landed is reported, as of now. *)
Answer(t, m) == /\ tick[t].on = m
                /\ order[<<t, m>>].stage \in {"resting", "over"}
                /\ IF order[<<t, m>>].taken > 0
                   THEN OnFill(m, order[<<t, m>>].side * order[<<t, m>>].taken, now)
                   ELSE UNCHANGED <<guardVars, signalVars, entered, blind, checked, outOfOrder>>
                /\ told' = told \cup {f \in fills : f.tick = t /\ f.market = m /\ ~f.maker}
                /\ Resume(t)
                /\ UNCHANGED <<now, order, chainNet, fills, polled>>

(* The queue gives the write up, or its receipt is not understood.  It may   *)
(* land all the same, and only a poll will tell of it.                      *)
GiveUp(t, m) == /\ tick[t].on = m
                /\ order[<<t, m>>].stage # "placing"
                /\ Resume(t)
                /\ UNCHANGED <<guardVars, signalVars, now, order, chainNet, fills, polled, historyVars>>

(* pollMakerFills(): a match no poll has shown yet, with the chain's time.   *)
(* The answer to an order carries no match id, so what it has reported is    *)
(* reported again here.  A poll that shows several is several polls that     *)
(* show one each.                                                           *)
Poll(f) == /\ f \notin polled
           /\ OnFill(f.market, f.qty, f.ts)
           /\ polled' = polled \cup {f}
           /\ told' = told \cup {f}
           /\ UNCHANGED <<now, tick, order, chainNet, fills>>

(* The operator's switch. *)
Switch(on) == /\ on # killSwitch
              /\ SetKill(on)
              /\ UNCHANGED <<signalVars, engineVars, historyVars>>

-----------------------------------------------------------------------------
(* The chain, and the clock. *)
MatchOnChain(t, m, qty, taken, maker) ==
  LET o == order[<<t, m>>]
  IN /\ order' = [order EXCEPT ![<<t, m>>] =
                     [stage |-> IF qty = o.left THEN "over" ELSE "resting",
                      side |-> o.side, left |-> o.left - qty, taken |-> taken]]
     /\ chainNet' = [chainNet EXCEPT ![m] = @ + o.side * qty]
     /\ fills' = IF qty = 0 THEN fills
                 ELSE fills \cup {[tick |-> t, market |-> m, left |-> o.left,
                                   qty |-> o.side * qty, ts |-> now, maker |-> maker]}
     /\ UNCHANGED <<guardVars, signalVars, now, tick, polled, historyVars>>

(* A signed order is mined: it takes what the book has, and the rest stays. *)
Land(t, m) == /\ order[<<t, m>>].stage = "signed"
              /\ \E qty \in 0 .. order[<<t, m>>].left :
                   MatchOnChain(t, m, qty, qty, FALSE)

(* Someone takes a resting order. *)
Taken(t, m) == /\ order[<<t, m>>].stage = "resting"
               /\ \E qty \in 1 .. order[<<t, m>>].left :
                    MatchOnChain(t, m, qty, order[<<t, m>>].taken, TRUE)

(* Every order carries an expiry: a signed one that is not mined by then     *)
(* never counts, a resting one is off the book.                             *)
Expire(t, m) == /\ order[<<t, m>>].stage \in {"signed", "resting"}
                /\ SetStage(<<t, m>>, "over")
                /\ UNCHANGED <<guardVars, signalVars, now, tick, chainNet, fills, polled, historyVars>>

Pass == /\ now < MaxTime
        /\ now' = now + 1
        /\ UNCHANGED <<guardVars, signalVars, tick, order, chainNet, fills, polled, historyVars>>

Next == \/ Pass
        \/ \E on \in BOOLEAN : Switch(on)
        \/ \E f \in fills : Poll(f)
        \/ \E t \in Ticks : Arrive(t) \/ List(t)
        \/ \E t \in Ticks, m \in Markets :
             \/ Evaluate(t, m) \/ Sign(t, m) \/ Refuse(t, m) \/ Answer(t, m) \/ GiveUp(t, m)
             \/ Land(t, m) \/ Taken(t, m) \/ Expire(t, m)

(* The queue's timeouts end every wait for a signature, and the expiry every *)
(* order that was signed.                                                   *)
Fairness == \A t \in Ticks, m \in Markets :
              WF_vars(Sign(t, m) \/ Refuse(t, m)) /\ WF_vars(Expire(t, m))

Spec == Init /\ [][Next]_vars /\ Fairness

-----------------------------------------------------------------------------
(* One crossing of the entry threshold is one entry, however many ticks see  *)
(* it and whatever fills arrive between them (signal.ts:6-20).              *)
OneEntryPerCrossing == \A m \in Markets : entered[m] <= 1

(* The position cap holds on the chain itself for a market in which every    *)
(* order was decided with the position known and no other order out: no      *)
(* partial match, late landing or second report of a fill breaks it          *)
(* (risk.ts:150-169).                                                       *)
CapHeldWhenKnown == \A m \in Markets \ blind : Abs(chainNet[m]) <= MaxNet

(* As long as the rate is checked in the order of time, no more orders are   *)
(* stamped within any minute than the limit, although ticks overlap and      *)
(* prune each other's placements (risk.ts:136-141, 204-210).                *)
Stamped(from, to) == {o \in Ticks \X Markets :
                        order[o].stage # "none" /\ tick[o[1]].at \in from .. to}

RateHeld == ~outOfOrder =>
  \A t \in Ticks : Cardinality(Stamped(tick[t].at - Window + 1, tick[t].at)) <= MaxOrders

(* What the switch promises (risk.ts:5-9): nothing is decided while it is    *)
(* on, and everything decided before ends.                                  *)
SeenStage(stage) == CASE stage = "none" -> "none"
                      [] stage = "placing" -> "decided"
                      [] stage \in {"signed", "resting"} -> "signed"
                      [] stage = "over" -> "over"

HaltStage == [o \in Ticks \X Markets |-> SeenStage(order[o].stage)]

Halt == INSTANCE HaltSwitch WITH Orders <- Ticks \X Markets, halted <- killSwitch,
                                 stage <- HaltStage

ImplementsHaltSwitch == Halt!HSpec

(* "signs nothing after the switch" (tests/integration/gwt.test.ts:145). *)
(* The code does not keep this: see the README.                             *)
NothingSignedAfterKill ==
  [][killSwitch => \A o \in Ticks \X Markets :
       order'[o].stage = "signed" => order[o].stage = "signed"]_vars

(* A market that was just filled is given a pause (signal.ts:79-84): no      *)
(* order is decided within the cooldown of a match the engine was told of.  *)
(* The code does not keep this: see the README.                             *)
CooldownHeld ==
  [][\A t \in Ticks, m \in Markets :
       order'[<<t, m>>].stage # order[<<t, m>>].stage /\ order'[<<t, m>>].stage = "placing"
         => \A f \in told : f.market = m => now - f.ts >= Cooldown]_vars
=============================================================================
