---------------------------- MODULE EngineProofs ----------------------------
(***************************************************************************)
(* Proofs about Engine, for any sets of ticks and markets and any limits.    *)
(*                                                                          *)
(* The invariant has four parts.  TypeOK bounds the remembered placements.   *)
(* EntryInv says the latch counts entries.  CapInv is what makes the cap     *)
(* inductive: in a market never ordered in blindly at most one order is out, *)
(* and the position stays within the cap if all that is left of it is        *)
(* matched; a step that lands, matches or ends the order only moves between  *)
(* those extremes.  FreshInv says a market still to be evaluated has no      *)
(* order of that tick, so that deciding one is a first decision.             *)
(*                                                                          *)
(* The rate has an invariant of its own on top of these, RateInv: while the   *)
(* checks come in the order of their times, the guard still remembers every  *)
(* order the next check must count, so no minute comes to hold too many.    *)
(*                                                                          *)
(* Last, the sizer: whatever the quote, the belief and the limits, an order   *)
(* made of the guard's own position passes the guard's caps; and an intent   *)
(* offered to a spectator spends no more than it was given.                 *)
(***************************************************************************)
EXTENDS MCEngine, FoldTheorems, TLAPS

(* Every nonempty set of naturals has a least element. *)
LEMMA LeastNat ==
  ASSUME NEW S \in SUBSET Nat, S # {}
  PROVE  \E n \in S : \A k \in S : n <= k
<1> DEFINE R == OpToRel(<, Nat)
<1>1. IsWellFoundedOn(R, Nat)
  BY NatLessThanWellFounded
<1>2. \A x, y \in Nat : x < y => <<x, y>> \in R
  BY DEF OpToRel
<1> HIDE DEF R
<1>3. PICK x \in S : \A y \in S : ~(<<y, x>> \in R)
  BY <1>1, WFMin
<1>4. \A y \in S : x <= y
  <2> SUFFICES ASSUME NEW y \in S PROVE x <= y
    OBVIOUS
  <2>1. x \in Nat /\ y \in Nat
    OBVIOUS
  <2>2. ~(y < x)
    BY <1>2, <1>3, <2>1
  <2> QED BY <2>1, <2>2
<1> QED BY <1>4

LEMMA PrunedType ==
  ASSUME placements \in Seq(Nat), NEW ts \in Nat
  PROVE  Pruned(ts) \in Seq(Nat) /\ Len(Pruned(ts)) <= Len(placements)
<1> DEFINE I == {i \in 1 .. Len(placements) : placements[i] > ts - Window}
           first == IF I # {} THEN Min(I) ELSE 0
<1>1. first \in 0 .. Len(placements)
  <2>1. CASE I = {}
    BY <2>1
  <2>2. CASE I # {}
    <3>0. I \in SUBSET Nat
      OBVIOUS
    <3>1. \E n \in I : \A k \in I : n <= k
      BY <2>2, <3>0, LeastNat
    <3> HIDE DEF I
    <3>2. Min(I) \in I
      BY <3>1 DEF Min
    <3> USE DEF I
    <3> QED BY <2>2, <3>2
  <2> QED BY <2>1, <2>2
<1>2. Pruned(ts) = IF first = 0 THEN <<>> ELSE SubSeq(placements, first, Len(placements))
  BY DEF Pruned, SelectInSeq
<1> HIDE DEF first
<1> QED BY <1>1, <1>2, SMTT(30)

-----------------------------------------------------------------------------
(* Only the gate touches the placements. *)
LEMMA DenyType ==
  ASSUME GuardTypeOK, NEW m \in Markets, NEW delta \in Int, NEW ts \in Nat, Deny(m, delta, ts)
  PROVE  GuardTypeOK'
<1>1. placements' = placements \/ placements' = Pruned(ts)
  BY DEF Deny
<1>2. Pruned(ts) \in Seq(Nat) /\ Len(Pruned(ts)) <= Len(placements)
  BY PrunedType DEF GuardTypeOK
<1>3. Len(placements) \in Nat /\ Len(placements) <= MaxOrders /\ placements \in Seq(Nat)
  BY DEF GuardTypeOK
<1>4. placements' \in Seq(Nat) /\ Len(placements') <= MaxOrders
  <2>1. CASE placements' = placements
    BY <1>3, <2>1
  <2>2. CASE placements' = Pruned(ts)
    <3>1. Len(Pruned(ts)) \in Nat
      BY <1>2
    <3> QED BY <1>2, <1>3, <2>2, <3>1, RiskConfigAssumption
  <2> QED BY <1>1, <2>1, <2>2
<1> QED BY <1>4 DEF Deny, GuardTypeOK

LEMMA PermitType ==
  ASSUME GuardTypeOK, NEW m \in Markets, NEW delta \in Int, NEW ts \in Nat, Permit(m, delta, ts)
  PROVE  GuardTypeOK'
<1>1. Pruned(ts) \in Seq(Nat)
  BY PrunedType DEF GuardTypeOK
<1>2. Len(Pruned(ts)) < MaxOrders
  BY <1>1, RiskConfigAssumption DEF Permit, Denied, TooMany
<1>3. placements' \in Seq(Nat) /\ Len(placements') <= MaxOrders
  BY <1>1, <1>2, RiskConfigAssumption DEF Permit
<1> QED BY <1>3 DEF Permit, GuardTypeOK

LEMMA FillType ==
  ASSUME GuardTypeOK, SignalTypeOK, NEW m \in Markets, NEW qty \in Int, NEW ts \in Nat,
         OnFill(m, qty, ts)
  PROVE  GuardTypeOK' /\ SignalTypeOK' /\ UNCHANGED <<entered, blind, checked, outOfOrder>>
BY RiskConfigAssumption DEF OnFill, GuardFill, NoteFill, GuardTypeOK, SignalTypeOK

LEMMA SignalAction ==
  ASSUME NEW m \in Markets, NEW edge \in Edge, NEW ts \in Nat, SignalTypeOK
  PROVE  /\ Signal(m, edge, ts) \in Action
         /\ Signal(m, edge, ts) = "ENTER" => ~engaged[m]
BY DEF Signal, Edge, Action, SignalTypeOK

(* The latch is closed exactly while one entry has been counted. *)
EntryInv == \A m \in Markets : entered[m] = IF engaged[m] THEN 1 ELSE 0

LEMMA LatchStep ==
  ASSUME SignalTypeOK, entered \in [Markets -> Nat], EntryInv,
         NEW m \in Markets, NEW action \in Action, action = "ENTER" => ~engaged[m],
         Latch(m, action), CountEntry(m, action)
  PROVE  SignalTypeOK' /\ entered' \in [Markets -> Nat] /\ EntryInv'
<1>1. CASE action = "ENTER"
  BY <1>1 DEF Latch, CountEntry, SignalTypeOK, EntryInv
<1>2. CASE action \in {"SKIP", "STAND_DOWN"}
  BY <1>2 DEF Latch, CountEntry, SignalTypeOK, EntryInv
<1>3. CASE action = "HOLD"
  BY <1>3 DEF Latch, CountEntry, SignalTypeOK, EntryInv
<1> QED BY <1>1, <1>2, <1>3 DEF Action

-----------------------------------------------------------------------------
(* Types and entries. *)
LEMMA ProceedType ==
  ASSUME tick \in [Ticks -> Tick], NEW t \in Ticks, NEW pc \in {"listing", "quoting", "placing"},
         NEW todo \in SUBSET Markets, NEW on \in Markets \cup {"none"}, Proceed(t, pc, todo, on)
  PROVE  tick' \in [Ticks -> Tick]
<1>1. [pc |-> pc, at |-> tick[t].at, todo |-> todo, on |-> on] \in Tick
  BY DEF Tick
<1> QED BY <1>1 DEF Proceed

LEMMA ResumeType ==
  ASSUME tick \in [Ticks -> Tick], NEW t \in Ticks, Resume(t)
  PROVE  tick' \in [Ticks -> Tick]
<1>1. tick[t].todo \in SUBSET Markets
  BY DEF Tick
<1> QED BY <1>1, ProceedType DEF Resume

LEMMA StageType ==
  ASSUME order \in [Ticks \X Markets -> Order], NEW t \in Ticks, NEW m \in Markets,
         NEW stage \in {"signed", "over"}, SetStage(<<t, m>>, stage)
  PROVE  order' \in [Ticks \X Markets -> Order]
BY DEF SetStage, Order

LEMMA PlaceType ==
  ASSUME TypeOK, EntryInv, NEW t \in Ticks, NEW m \in Markets, Place(t, m)
  PROVE  TypeOK' /\ EntryInv'
<1>1. PICK size \in 1 .. MaxSize, side \in {-1, 1} :
        /\ Permit(m, side * size, tick[t].at)
        /\ order' = [order EXCEPT ![<<t, m>>] =
                       [stage |-> "placing", side |-> side, left |-> size, taken |-> 0]]
  BY DEF Place
<1>2. tick[t].at \in Nat /\ side * size \in Int /\ size \in Nat
  BY EngineAssumption DEF TypeOK, Tick
<1>3. GuardTypeOK'
  BY <1>1, <1>2, PermitType DEF TypeOK
<1>4. SignalTypeOK' /\ entered' \in [Markets -> Nat] /\ EntryInv'
  <2>1. "high" \in Edge /\ "ENTER" \in Action
    BY DEF Edge, Action
  <2>2. ~engaged[m]
    BY <1>2, <2>1, SignalAction DEF Place, TypeOK
  <2> QED BY <2>1, <2>2, LatchStep DEF Place, TypeOK
<1>5. order' \in [Ticks \X Markets -> Order]
  BY <1>1, <1>2 DEF TypeOK, Order
<1>6. tick' \in [Ticks -> Tick]
  BY ProceedType DEF Place, Tick, TypeOK
<1>7. blind' \in SUBSET Markets /\ checked' \in Nat /\ outOfOrder' \in BOOLEAN
  BY <1>2 DEF Place, NoteCheck, TypeOK
<1> QED BY <1>3, <1>4, <1>5, <1>6, <1>7 DEF Place, TypeOK

LEMMA NoOrderType ==
  ASSUME TypeOK, EntryInv, NEW t \in Ticks, NEW m \in Markets, NoOrder(t, m)
  PROVE  TypeOK' /\ EntryInv'
<1>1. PICK edge \in Edge :
        LET action == Signal(m, edge, tick[t].at)
        IN /\ Latch(m, action)
           /\ CountEntry(m, action)
           /\ \/ UNCHANGED <<guardVars, checked, outOfOrder>>
              \/ /\ action = "ENTER"
                 /\ \E delta \in (-MaxSize .. MaxSize) \ {0} : Deny(m, delta, tick[t].at)
                 /\ IF Halted \/ CoolingDown(m, tick[t].at)
                    THEN UNCHANGED <<checked, outOfOrder>> ELSE NoteCheck(tick[t].at)
  BY DEF NoOrder
<1>2. tick[t].at \in Nat
  BY DEF TypeOK, Tick
<1>3. SignalTypeOK' /\ entered' \in [Markets -> Nat] /\ EntryInv'
  <2> DEFINE action == Signal(m, edge, tick[t].at)
  <2>1. action \in Action /\ (action = "ENTER" => ~engaged[m])
    BY <1>2, SignalAction DEF TypeOK
  <2>2. Latch(m, action) /\ CountEntry(m, action)
    BY <1>1
  <2> HIDE DEF action
  <2> QED BY <2>1, <2>2, LatchStep DEF TypeOK
<1>4. GuardTypeOK' /\ checked' \in Nat /\ outOfOrder' \in BOOLEAN
  <2>1. CASE UNCHANGED <<guardVars, checked, outOfOrder>>
    BY <2>1 DEF guardVars, GuardTypeOK, TypeOK
  <2>2. CASE /\ \E delta \in (-MaxSize .. MaxSize) \ {0} : Deny(m, delta, tick[t].at)
             /\ IF Halted \/ CoolingDown(m, tick[t].at)
                THEN UNCHANGED <<checked, outOfOrder>> ELSE NoteCheck(tick[t].at)
    <3>1. PICK delta \in Int : Deny(m, delta, tick[t].at)
      BY <2>2, EngineAssumption
    <3>2. GuardTypeOK'
      BY <1>2, <3>1, DenyType DEF TypeOK
    <3> QED BY <1>2, <2>2, <3>2 DEF NoteCheck, TypeOK
  <2> QED BY <1>1, <2>1, <2>2
<1>5. tick' \in [Ticks -> Tick]
  BY ProceedType DEF NoOrder, MoveOn, TypeOK, Tick
<1> QED BY <1>3, <1>4, <1>5 DEF NoOrder, TypeOK

LEMMA MatchType ==
  ASSUME TypeOK, EntryInv, NEW t \in Ticks, NEW m \in Markets, NEW maker \in BOOLEAN,
         NEW qty \in 0 .. order[<<t, m>>].left, NEW taken \in Nat,
         MatchOnChain(t, m, qty, taken, maker)
  PROVE  TypeOK' /\ EntryInv'
<1> DEFINE o == order[<<t, m>>]
<1>1. o \in Order /\ o.left \in Nat /\ o.side \in {-1, 1} /\ qty \in Nat /\ qty <= o.left
  BY DEF TypeOK, Order
<1>2. o.side * qty \in Int
  BY <1>1
<1>3. order' \in [Ticks \X Markets -> Order]
  <2>1. [stage |-> IF qty = o.left THEN "over" ELSE "resting", side |-> o.side,
         left |-> o.left - qty, taken |-> taken] \in Order
    BY <1>1 DEF Order
  <2> QED BY <2>1 DEF MatchOnChain, TypeOK
<1>4. chainNet' \in [Markets -> Int]
  <2>1. chainNet' = [chainNet EXCEPT ![m] = @ + o.side * qty]
    BY DEF MatchOnChain
  <2> QED BY <1>2, <2>1 DEF TypeOK
<1>5. fills \in SUBSET fills' /\ fills' \in SUBSET Match
  <2>1. [tick |-> t, market |-> m, left |-> o.left, qty |-> o.side * qty, ts |-> now,
         maker |-> maker] \in Match
    BY <1>1, <1>2 DEF TypeOK, Match
  <2> QED BY <2>1 DEF MatchOnChain, TypeOK
<1> QED
  BY <1>3, <1>4, <1>5 DEF MatchOnChain, TypeOK, EntryInv, guardVars, signalVars, historyVars,
                          GuardTypeOK, SignalTypeOK

LEMMA FillStep ==
  ASSUME TypeOK, EntryInv, NEW m \in Markets, NEW qty \in Int, NEW ts \in Nat,
         OnFill(m, qty, ts), UNCHANGED <<now, order, chainNet, fills>>,
         tick' \in [Ticks -> Tick], polled' \in SUBSET fills, told' \in SUBSET fills
  PROVE  TypeOK' /\ EntryInv'
<1>1. GuardTypeOK' /\ SignalTypeOK' /\ UNCHANGED <<entered, blind, checked, outOfOrder>>
  BY FillType DEF TypeOK
<1>2. UNCHANGED engaged
  BY DEF OnFill, NoteFill
<1> QED BY <1>1, <1>2 DEF TypeOK, EntryInv

LEMMA TypeStep ==
  ASSUME TypeOK, EntryInv, [Next]_vars
  PROVE  TypeOK' /\ EntryInv'
<1> USE DEF guardVars, signalVars, historyVars
<1>1. ASSUME Pass PROVE TypeOK' /\ EntryInv'
  BY <1>1 DEF Pass, TypeOK, EntryInv, GuardTypeOK, SignalTypeOK
<1>2. ASSUME NEW on \in BOOLEAN, Switch(on) PROVE TypeOK' /\ EntryInv'
  BY <1>2 DEF Switch, SetKill, engineVars, TypeOK, EntryInv, GuardTypeOK, SignalTypeOK
<1>3. ASSUME NEW f \in fills, Poll(f) PROVE TypeOK' /\ EntryInv'
  <2>1. f.market \in Markets /\ f.qty \in Int /\ f.ts \in Nat
    BY DEF TypeOK, Match
  <2>2. tick' \in [Ticks -> Tick] /\ polled' \in SUBSET fills /\ told' \in SUBSET fills
    BY <1>3 DEF Poll, TypeOK
  <2> QED BY <1>3, <2>1, <2>2, FillStep DEF Poll
<1>4. ASSUME NEW t \in Ticks, Arrive(t) PROVE TypeOK' /\ EntryInv'
  <2>1. tick' \in [Ticks -> Tick]
    <3>1. [pc |-> "listing", at |-> now, todo |-> {}, on |-> "none"] \in Tick
      BY DEF TypeOK, Tick
    <3> QED BY <1>4, <3>1 DEF Arrive, TypeOK
  <2> QED BY <1>4, <2>1 DEF Arrive, TypeOK, EntryInv, GuardTypeOK, SignalTypeOK
<1>5. ASSUME NEW t \in Ticks, List(t) PROVE TypeOK' /\ EntryInv'
  <2>1. tick' \in [Ticks -> Tick]
    BY <1>5, ProceedType DEF List, TypeOK
  <2> QED BY <1>5, <2>1 DEF List, TypeOK, EntryInv, GuardTypeOK, SignalTypeOK
<1>6. ASSUME NEW t \in Ticks, NEW m \in Markets, Evaluate(t, m) PROVE TypeOK' /\ EntryInv'
  <2>1. CASE NoQuote(t, m)
    <3>1. tick' \in [Ticks -> Tick]
      BY <2>1, ProceedType DEF NoQuote, MoveOn, TypeOK, Tick
    <3> QED BY <2>1, <3>1 DEF NoQuote, TypeOK, EntryInv, GuardTypeOK, SignalTypeOK
  <2> QED BY <1>6, <2>1, NoOrderType, PlaceType DEF Evaluate
<1>7. ASSUME NEW t \in Ticks, NEW m \in Markets, Sign(t, m) PROVE TypeOK' /\ EntryInv'
  <2>1. order' \in [Ticks \X Markets -> Order]
    BY <1>7, StageType DEF Sign, TypeOK
  <2> QED BY <1>7, <2>1 DEF Sign, TypeOK, EntryInv, GuardTypeOK, SignalTypeOK
<1>8. ASSUME NEW t \in Ticks, NEW m \in Markets, Refuse(t, m) PROVE TypeOK' /\ EntryInv'
  <2>1. order' \in [Ticks \X Markets -> Order]
    BY <1>8, StageType DEF Refuse, TypeOK
  <2>2. tick' \in [Ticks -> Tick]
    BY <1>8, ResumeType DEF Refuse, TypeOK
  <2> QED BY <1>8, <2>1, <2>2 DEF Refuse, TypeOK, EntryInv, GuardTypeOK, SignalTypeOK
<1>9. ASSUME NEW t \in Ticks, NEW m \in Markets, Answer(t, m) PROVE TypeOK' /\ EntryInv'
  <2>1. tick' \in [Ticks -> Tick] /\ told' \in SUBSET fills /\ polled' \in SUBSET fills
    BY <1>9, ResumeType DEF Answer, TypeOK
  <2>2. CASE order[<<t, m>>].taken > 0
    <3>1. order[<<t, m>>].side \in Int /\ order[<<t, m>>].taken \in Int /\ now \in Nat
      BY DEF TypeOK, Order
    <3>2. order[<<t, m>>].side * order[<<t, m>>].taken \in Int
      BY <3>1
    <3> QED BY <1>9, <2>1, <2>2, <3>1, <3>2, FillStep DEF Answer
  <2>3. CASE ~(order[<<t, m>>].taken > 0)
    BY <1>9, <2>1, <2>3 DEF Answer, TypeOK, EntryInv, GuardTypeOK, SignalTypeOK
  <2> QED BY <2>2, <2>3
<1>10. ASSUME NEW t \in Ticks, NEW m \in Markets, GiveUp(t, m) PROVE TypeOK' /\ EntryInv'
  <2>1. tick' \in [Ticks -> Tick]
    BY <1>10, ResumeType DEF GiveUp, TypeOK
  <2> QED BY <1>10, <2>1 DEF GiveUp, TypeOK, EntryInv, GuardTypeOK, SignalTypeOK
<1>11. ASSUME NEW t \in Ticks, NEW m \in Markets, Land(t, m) PROVE TypeOK' /\ EntryInv'
  <2>1. PICK qty \in 0 .. order[<<t, m>>].left : MatchOnChain(t, m, qty, qty, FALSE)
    BY <1>11 DEF Land
  <2>2. qty \in Nat
    BY DEF TypeOK, Order
  <2> QED BY <2>1, <2>2, MatchType
<1>12. ASSUME NEW t \in Ticks, NEW m \in Markets, Taken(t, m) PROVE TypeOK' /\ EntryInv'
  <2>1. PICK qty \in 1 .. order[<<t, m>>].left :
          MatchOnChain(t, m, qty, order[<<t, m>>].taken, TRUE)
    BY <1>12 DEF Taken
  <2>2. qty \in 0 .. order[<<t, m>>].left /\ order[<<t, m>>].taken \in Nat
    BY DEF TypeOK, Order
  <2> QED BY <2>1, <2>2, MatchType
<1>13. ASSUME NEW t \in Ticks, NEW m \in Markets, Expire(t, m) PROVE TypeOK' /\ EntryInv'
  <2>1. order' \in [Ticks \X Markets -> Order]
    BY <1>13, StageType DEF Expire, TypeOK
  <2> QED BY <1>13, <2>1 DEF Expire, TypeOK, EntryInv, GuardTypeOK, SignalTypeOK
<1>14. CASE UNCHANGED vars
  BY <1>14 DEF vars, engineVars, TypeOK, EntryInv, GuardTypeOK, SignalTypeOK
<1> QED
  BY <1>1, <1>2, <1>3, <1>4, <1>5, <1>6, <1>7, <1>8, <1>9, <1>10, <1>11, <1>12, <1>13, <1>14
  DEF Next

-----------------------------------------------------------------------------
(* A market whose orders were all decided with the position known has at     *)
(* most one order out, and stays within the cap if that is matched in full.  *)
Exposure(t, m) == chainNet[m] + order[<<t, m>>].side * order[<<t, m>>].left

CapInv == \A m \in Markets \ blind :
            /\ Abs(chainNet[m]) <= MaxNet
            /\ \A t \in Ticks : Live(<<t, m>>) => Abs(Exposure(t, m)) <= MaxNet
            /\ \A s, t \in Ticks : Live(<<s, m>>) /\ Live(<<t, m>>) => s = t

(* An order that ends or is signed adds no exposure. *)
LEMMA StageCap ==
  ASSUME TypeOK, CapInv, NEW t \in Ticks, NEW m \in Markets, NEW stage \in {"signed", "over"},
         Live(<<t, m>>), SetStage(<<t, m>>, stage), UNCHANGED <<chainNet, blind>>
  PROVE  CapInv'
<1>1. \A s \in Ticks, x \in Markets : /\ order'[<<s, x>>].side = order[<<s, x>>].side
                                      /\ order'[<<s, x>>].left = order[<<s, x>>].left
                                      /\ Live(<<s, x>>)' => Live(<<s, x>>)
  BY DEF SetStage, TypeOK, Order, Live
<1> QED BY <1>1 DEF CapInv, Exposure

(* A match moves contracts from the order to the position. *)
LEMMA MatchCap ==
  ASSUME TypeOK, CapInv, NEW t \in Ticks, NEW m \in Markets, NEW maker, NEW taken \in Nat,
         NEW qty \in 0 .. order[<<t, m>>].left, Live(<<t, m>>),
         MatchOnChain(t, m, qty, taken, maker)
  PROVE  CapInv'
<1> DEFINE o == order[<<t, m>>]
<1>1. o.left \in Nat /\ o.side \in {-1, 1} /\ qty \in Nat /\ qty <= o.left
  BY DEF TypeOK, Order
<1>2. /\ chainNet' = [chainNet EXCEPT ![m] = @ + o.side * qty]
      /\ order'[<<t, m>>].side = o.side
      /\ order'[<<t, m>>].left = o.left - qty
      /\ \A s \in Ticks, x \in Markets : <<s, x>> # <<t, m>> => order'[<<s, x>>] = order[<<s, x>>]
      /\ UNCHANGED blind
  <2>1. [stage |-> IF qty = o.left THEN "over" ELSE "resting", side |-> o.side,
         left |-> o.left - qty, taken |-> taken] = order'[<<t, m>>]
    BY DEF MatchOnChain, TypeOK
  <2> QED BY <2>1 DEF MatchOnChain, TypeOK, historyVars
<1>3. \A s \in Ticks, x \in Markets : Live(<<s, x>>)' => Live(<<s, x>>)
  <2>1. \A s \in Ticks, x \in Markets : <<s, x>> = <<t, m>> => Live(<<s, x>>)
    OBVIOUS
  <2>2. \A s \in Ticks, x \in Markets :
          <<s, x>> # <<t, m>> => (Live(<<s, x>>)' <=> Live(<<s, x>>))
    BY <1>2 DEF Live
  <2> QED BY <2>1, <2>2
<1>4. SUFFICES ASSUME NEW x \in Markets \ blind
               PROVE  /\ Abs(chainNet'[x]) <= MaxNet
                      /\ \A s \in Ticks : Live(<<s, x>>)' => Abs(Exposure(s, x)') <= MaxNet
  BY <1>2, <1>3 DEF CapInv
<1>5. CASE x # m
  <2>1. chainNet'[x] = chainNet[x]
    BY <1>2, <1>5 DEF TypeOK
  <2>2. \A s \in Ticks : order'[<<s, x>>] = order[<<s, x>>]
    BY <1>2, <1>5
  <2> QED BY <1>3, <2>1, <2>2 DEF CapInv, Exposure
<1>6. CASE x = m
  <2>1. /\ chainNet[m] \in Int /\ Abs(chainNet[m]) <= MaxNet
        /\ Abs(chainNet[m] + o.side * o.left) <= MaxNet
    BY <1>6 DEF CapInv, Exposure, TypeOK
  <2>2. chainNet'[m] = chainNet[m] + o.side * qty
    BY <1>2 DEF TypeOK
  <2> DEFINE c == chainNet[m]
             e == o.side * o.left
             d == o.side * qty
  <2>3. /\ c \in Int /\ e \in Int /\ d \in Int
        /\ (0 <= d /\ d <= e) \/ (e <= d /\ d <= 0)
        /\ o.side * (o.left - qty) = e - d
    <3>1. CASE o.side = 1
      BY <1>1, <2>1, <3>1
    <3>2. CASE o.side = -1
      BY <1>1, <2>1, <3>2
    <3> QED BY <1>1, <3>1, <3>2
  <2>4. Abs(c + d) <= MaxNet /\ (c + d) + (e - d) = c + e
    <3> HIDE DEF d, e, c
    <3> QED BY <2>1, <2>3, RiskConfigAssumption DEF Abs, c, e
  <2>5. \A s \in Ticks : Live(<<s, m>>)' => s = t
    BY <1>3, <1>6 DEF CapInv
  <2>6. Exposure(t, m)' = c + e
    BY <1>2, <2>2, <2>3, <2>4 DEF Exposure
  <2> QED BY <1>6, <2>1, <2>2, <2>4, <2>5, <2>6
<1> QED BY <1>5, <1>6

(* A new order: the gate read the position it will add to. *)
LEMMA PlaceCap ==
  ASSUME TypeOK, CapInv, NEW t \in Ticks, NEW m \in Markets, Place(t, m)
  PROVE  CapInv'
<1>1. PICK size \in 1 .. MaxSize, side \in {-1, 1} :
        /\ Permit(m, side * size, tick[t].at)
        /\ order' = [order EXCEPT ![<<t, m>>] =
                       [stage |-> "placing", side |-> side, left |-> size, taken |-> 0]]
  BY DEF Place
<1>2. /\ order'[<<t, m>>] = [stage |-> "placing", side |-> side, left |-> size, taken |-> 0]
      /\ \A s \in Ticks, x \in Markets : <<s, x>> # <<t, m>> => order'[<<s, x>>] = order[<<s, x>>]
      /\ UNCHANGED chainNet
  BY <1>1 DEF Place, TypeOK
<1>3. SUFFICES ASSUME NEW x \in Markets \ blind'
               PROVE  /\ Abs(chainNet[x]) <= MaxNet
                      /\ \A s \in Ticks : Live(<<s, x>>)' => Abs(Exposure(s, x)') <= MaxNet
                      /\ \A r, s \in Ticks : Live(<<r, x>>)' /\ Live(<<s, x>>)' => r = s
  BY <1>2 DEF CapInv
<1>4. x \in Markets \ blind /\ (x = m => Known(m))
  BY DEF Place
<1>5. CASE x # m
  <2>1. \A s \in Ticks : order'[<<s, x>>] = order[<<s, x>>]
    BY <1>2, <1>5
  <2>2. \A s \in Ticks : Live(<<s, x>>)' <=> Live(<<s, x>>)
    BY <2>1 DEF Live
  <2> QED BY <1>2, <1>4, <2>1, <2>2 DEF CapInv, Exposure
<1>6. CASE x = m
  <2>1. net[m] = chainNet[m] /\ \A s \in Ticks : ~Live(<<s, m>>)
    BY <1>4, <1>6 DEF Known
  <2>2. chainNet[m] \in Int /\ net \in [Markets -> Int] /\ Abs(chainNet[m]) <= MaxNet
    BY <1>4, <1>6 DEF CapInv, TypeOK, GuardTypeOK
  <2>3. Abs(net[m] + side * size) <= MaxNet
    <3>1. ~OverCaps(m, side * size)
      BY <1>1 DEF Permit, Denied
    <3>2. side * size \in Int
      BY EngineAssumption
    <3>3. CASE Reducing(m, side * size)
      BY <2>1, <2>2, <3>2, <3>3, RiskConfigAssumption DEF Reducing, Abs
    <3>4. CASE ~Reducing(m, side * size)
      BY <2>2, <3>1, <3>2, <3>4, RiskConfigAssumption DEF OverCaps, Abs
    <3> QED BY <3>3, <3>4
  <2>4. \A s \in Ticks : Live(<<s, m>>)' => s = t
    <3>1. \A s \in Ticks : s # t => order'[<<s, m>>] = order[<<s, m>>]
      BY <1>2
    <3> QED BY <2>1, <3>1 DEF Live
  <2>5. Exposure(t, m)' = net[m] + side * size
    BY <1>2, <2>1 DEF Exposure
  <2> QED BY <1>6, <2>2, <2>3, <2>4, <2>5
<1> QED BY <1>5, <1>6

LEMMA CapStep ==
  ASSUME TypeOK, CapInv, [Next]_vars
  PROVE  CapInv'
<1>1. ASSUME UNCHANGED <<order, chainNet, blind>> PROVE CapInv'
  BY <1>1 DEF CapInv, Exposure, Live
<1>2. ASSUME NEW on \in BOOLEAN, Switch(on) PROVE CapInv'
  BY <1>1, <1>2 DEF Switch, engineVars, historyVars
<1>3. ASSUME NEW f \in fills, Poll(f) PROVE CapInv'
  BY <1>1, <1>3 DEF Poll, OnFill
<1>4. ASSUME NEW t \in Ticks, Arrive(t) \/ List(t) PROVE CapInv'
  BY <1>1, <1>4 DEF Arrive, List, historyVars
<1>5. ASSUME NEW t \in Ticks, NEW m \in Markets, Evaluate(t, m) PROVE CapInv'
  <2>1. CASE NoQuote(t, m)
    BY <1>1, <2>1 DEF NoQuote, historyVars
  <2>2. CASE NoOrder(t, m)
    BY <1>1, <2>2 DEF NoOrder
  <2> QED BY <1>5, <2>1, <2>2, PlaceCap DEF Evaluate
<1>6. ASSUME NEW t \in Ticks, NEW m \in Markets, Sign(t, m) \/ Refuse(t, m) \/ Expire(t, m)
      PROVE  CapInv'
  <2>1. PICK stage \in {"signed", "over"} : SetStage(<<t, m>>, stage)
    BY <1>6 DEF Sign, Refuse, Expire
  <2>2. Live(<<t, m>>) /\ UNCHANGED <<chainNet, blind>>
    BY <1>6 DEF Sign, Refuse, Expire, Live, historyVars
  <2> QED BY <2>1, <2>2, StageCap
<1>7. ASSUME NEW t \in Ticks, NEW m \in Markets, Answer(t, m) PROVE CapInv'
  BY <1>1, <1>7 DEF Answer, OnFill
<1>8. ASSUME NEW t \in Ticks, NEW m \in Markets, GiveUp(t, m) PROVE CapInv'
  BY <1>1, <1>8 DEF GiveUp, historyVars
<1>9. ASSUME NEW t \in Ticks, NEW m \in Markets, Land(t, m) PROVE CapInv'
  <2>1. PICK qty \in 0 .. order[<<t, m>>].left : MatchOnChain(t, m, qty, qty, FALSE)
    BY <1>9 DEF Land
  <2>2. qty \in Nat /\ Live(<<t, m>>)
    BY <1>9 DEF Land, Live, TypeOK, Order
  <2> QED BY <2>1, <2>2, MatchCap
<1>10. ASSUME NEW t \in Ticks, NEW m \in Markets, Taken(t, m) PROVE CapInv'
  <2>1. PICK qty \in 1 .. order[<<t, m>>].left :
          MatchOnChain(t, m, qty, order[<<t, m>>].taken, TRUE)
    BY <1>10 DEF Taken
  <2>2. /\ qty \in 0 .. order[<<t, m>>].left
        /\ order[<<t, m>>].taken \in Nat
        /\ Live(<<t, m>>)
    BY <1>10 DEF Taken, Live, TypeOK, Order
  <2> QED BY <2>1, <2>2, MatchCap
<1>11. ASSUME Pass PROVE CapInv'
  BY <1>1, <1>11 DEF Pass, historyVars
<1>12. CASE UNCHANGED vars
  BY <1>1, <1>12 DEF vars, engineVars, historyVars
<1> QED
  BY <1>2, <1>3, <1>4, <1>5, <1>6, <1>7, <1>8, <1>9, <1>10, <1>11, <1>12 DEF Next

-----------------------------------------------------------------------------
(* A tick makes at most one order for a market: one not yet evaluated has    *)
(* none.                                                                    *)
FreshInv == \A t \in Ticks, m \in Markets :
              tick[t].pc \in {"idle", "listing"} \/ m \in tick[t].todo
                => order[<<t, m>>].stage = "none"

(* Steps of a tick under way, for which a market is never added. *)
LEMMA FreshProceed ==
  ASSUME TypeOK, FreshInv, NEW t \in Ticks, NEW pc \in {"quoting", "placing"},
         NEW todo \in SUBSET tick[t].todo, NEW on, Proceed(t, pc, todo, on),
         \A s \in Ticks, m \in Markets :
           \/ order'[<<s, m>>].stage = order[<<s, m>>].stage
           \/ order[<<s, m>>].stage # "none"
           \/ s = t /\ m \notin todo
  PROVE  FreshInv'
<1>1. tick'[t].pc = pc /\ tick'[t].todo = todo
  BY DEF Proceed, TypeOK
<1>2. \A s \in Ticks : s # t => tick'[s] = tick[s]
  BY DEF Proceed, TypeOK
<1> SUFFICES ASSUME NEW s \in Ticks, NEW m \in Markets,
                    tick'[s].pc \in {"idle", "listing"} \/ m \in tick'[s].todo
             PROVE  order'[<<s, m>>].stage = "none"
  BY DEF FreshInv
<1>3. CASE s = t
  <2>1. m \in todo
    BY <1>1, <1>3
  <2> QED BY <1>3, <2>1 DEF FreshInv
<1>4. CASE s # t
  BY <1>2, <1>4 DEF FreshInv
<1> QED BY <1>3, <1>4

(* Steps of an order already made. *)
LEMMA FreshOrder ==
  ASSUME FreshInv, UNCHANGED tick,
         \A s \in Ticks, m \in Markets :
           order'[<<s, m>>].stage = order[<<s, m>>].stage \/ order[<<s, m>>].stage # "none"
  PROVE  FreshInv'
BY DEF FreshInv

LEMMA StageElsewhere ==
  ASSUME TypeOK, NEW t \in Ticks, NEW m \in Markets, NEW stage, SetStage(<<t, m>>, stage)
  PROVE  /\ order'[<<t, m>>].stage = stage
         /\ \A o \in Ticks \X Markets : o # <<t, m>> => order'[o].stage = order[o].stage
BY DEF SetStage, TypeOK, Order

LEMMA MatchElsewhere ==
  ASSUME TypeOK, NEW t \in Ticks, NEW m \in Markets, NEW qty, NEW taken, NEW maker,
         MatchOnChain(t, m, qty, taken, maker)
  PROVE  /\ order'[<<t, m>>].stage \in {"resting", "over"}
         /\ \A o \in Ticks \X Markets : o # <<t, m>> => order'[o].stage = order[o].stage
<1> DEFINE new == [stage |-> IF qty = order[<<t, m>>].left THEN "over" ELSE "resting",
                   side |-> order[<<t, m>>].side, left |-> order[<<t, m>>].left - qty,
                   taken |-> taken]
<1>1. order' = [order EXCEPT ![<<t, m>>] = new]
  BY DEF MatchOnChain
<1>2. new.stage \in {"resting", "over"}
  OBVIOUS
<1> HIDE DEF new
<1> QED BY <1>1, <1>2 DEF TypeOK

LEMMA FreshStep ==
  ASSUME TypeOK, FreshInv, [Next]_vars
  PROVE  FreshInv'
<1>1. ASSUME NEW t \in Ticks, Arrive(t) \/ List(t) PROVE FreshInv'
  <2>1. tick[t].pc \in {"idle", "listing"} /\ order' = order
    BY <1>1 DEF Arrive, List
  <2>2. \A s \in Ticks : s # t => tick'[s] = tick[s]
    BY <1>1 DEF Arrive, List, Proceed, TypeOK
  <2> QED BY <2>1, <2>2 DEF FreshInv
<1>2. ASSUME NEW t \in Ticks, NEW m \in Markets, Evaluate(t, m) PROVE FreshInv'
  <2>1. CASE NoQuote(t, m) \/ NoOrder(t, m)
    BY <2>1, FreshProceed DEF NoQuote, NoOrder, MoveOn
  <2>2. CASE Place(t, m)
    <3>1. \A o \in Ticks \X Markets : o # <<t, m>> => order'[o] = order[o]
      BY <2>2 DEF Place, TypeOK
    <3>2. \A s \in Ticks, x \in Markets :
            order'[<<s, x>>].stage = order[<<s, x>>].stage \/ (s = t /\ x \notin tick[t].todo \ {m})
      BY <3>1
    <3>3. Proceed(t, "placing", tick[t].todo \ {m}, m)
      BY <2>2 DEF Place
    <3> QED BY <3>2, <3>3, FreshProceed
  <2> QED BY <1>2, <2>1, <2>2 DEF Evaluate
<1>3. ASSUME NEW t \in Ticks, NEW m \in Markets, Answer(t, m) \/ GiveUp(t, m) PROVE FreshInv'
  BY <1>3, FreshProceed DEF Answer, GiveUp, Resume
<1>4. ASSUME NEW t \in Ticks, NEW m \in Markets, Refuse(t, m) PROVE FreshInv'
  <2>1. \A s \in Ticks, x \in Markets :
          order'[<<s, x>>].stage = order[<<s, x>>].stage \/ order[<<s, x>>].stage # "none"
    BY <1>4, StageElsewhere DEF Refuse
  <2> QED BY <1>4, <2>1, FreshProceed DEF Refuse, Resume
<1>5. ASSUME NEW t \in Ticks, NEW m \in Markets, Sign(t, m) \/ Expire(t, m) PROVE FreshInv'
  <2>1. \A s \in Ticks, x \in Markets :
          order'[<<s, x>>].stage = order[<<s, x>>].stage \/ order[<<s, x>>].stage # "none"
    BY <1>5, StageElsewhere DEF Sign, Expire
  <2> QED BY <1>5, <2>1, FreshOrder DEF Sign, Expire
<1>6. ASSUME NEW t \in Ticks, NEW m \in Markets, Land(t, m) \/ Taken(t, m) PROVE FreshInv'
  <2>1. PICK qty, taken, maker : MatchOnChain(t, m, qty, taken, maker)
    BY <1>6 DEF Land, Taken
  <2>2. order[<<t, m>>].stage # "none"
    BY <1>6 DEF Land, Taken
  <2>3. \A s \in Ticks, x \in Markets :
          order'[<<s, x>>].stage = order[<<s, x>>].stage \/ order[<<s, x>>].stage # "none"
    BY <2>1, <2>2, MatchElsewhere
  <2> QED BY <2>1, <2>3, FreshOrder DEF MatchOnChain
<1>7. CASE UNCHANGED <<tick, order>>
  BY <1>7 DEF FreshInv
<1> QED
  BY <1>1, <1>2, <1>3, <1>4, <1>5, <1>6, <1>7
  DEF Next, Pass, Switch, Poll, vars, engineVars

-----------------------------------------------------------------------------
(* The rate.  A prune drops the placements up to the first that is inside    *)
(* the window; what it leaves is described by how many it drops.            *)
Prune(s, ts) == LET first == SelectInSeq(s, LAMBDA p : p > ts - Window)
                IN IF first = 0 THEN <<>> ELSE SubSeq(s, first, Len(s))

Drops(s, ts, k) == /\ k \in 0 .. Len(s)
                   /\ \A i \in 1 .. k : s[i] <= ts - Window
                   /\ k < Len(s) => s[k + 1] > ts - Window

LEMMA PruneDrops ==
  ASSUME NEW s \in Seq(Nat), NEW ts \in Nat
  PROVE  \E k \in 0 .. Len(s) : Drops(s, ts, k) /\ Prune(s, ts) = SubSeq(s, k + 1, Len(s))
<1> DEFINE I == {i \in 1 .. Len(s) : s[i] > ts - Window}
           first == IF I # {} THEN Min(I) ELSE 0
<1>0. /\ Len(s) \in Nat /\ \A i \in 1 .. Len(s) : s[i] \in Nat
      /\ ts - Window \in Int
  BY RiskConfigAssumption
<1>1. Prune(s, ts) = IF first = 0 THEN <<>> ELSE SubSeq(s, first, Len(s))
  BY DEF Prune, SelectInSeq
<1>2. CASE I = {}
  <2>1. first = 0
    BY <1>2
  <2>2. Drops(s, ts, Len(s))
    BY <1>0, <1>2 DEF Drops
  <2>3. SubSeq(s, Len(s) + 1, Len(s)) = <<>>
    BY <1>0
  <2>4. Prune(s, ts) = <<>>
    BY <1>1, <2>1
  <2>5. Len(s) \in 0 .. Len(s)
    BY <1>0
  <2> QED BY <2>2, <2>3, <2>4, <2>5
<1>3. CASE I # {}
  <2>1. I \in SUBSET Nat
    OBVIOUS
  <2>2. \E n \in I : \A k \in I : n <= k
    BY <1>3, <2>1, LeastNat
  <2> HIDE DEF I
  <2>3. Min(I) \in I /\ \A k \in I : Min(I) <= k
    BY <2>2 DEF Min
  <2>4. first = Min(I)
    BY <1>3
  <2> HIDE DEF first
  <2> USE DEF I
  <2>5. first \in 1 .. Len(s) /\ s[first] > ts - Window
    BY <2>3, <2>4
  <2>6. \A i \in 1 .. Len(s) : i < first => s[i] <= ts - Window
    BY <1>0, <2>3, <2>4, <2>5
  <2>7. Drops(s, ts, first - 1)
    BY <1>0, <2>5, <2>6 DEF Drops
  <2>8. first - 1 \in 0 .. Len(s) /\ (first - 1) + 1 = first /\ first # 0
    BY <1>0, <2>5
  <2> QED BY <1>1, <2>7, <2>8
<1> QED BY <1>2, <1>3

LEMMA DropsOnce ==
  ASSUME NEW s \in Seq(Nat), NEW ts \in Nat, NEW k, NEW j, Drops(s, ts, k), Drops(s, ts, j)
  PROVE  k = j
<1>1. k \in 0 .. Len(s) /\ j \in 0 .. Len(s) /\ Len(s) \in Nat
  BY DEF Drops
<1>2. ts - Window \in Int /\ \A i \in 1 .. Len(s) : s[i] \in Nat
  BY RiskConfigAssumption
<1>3. ~(k < j)
  BY <1>1, <1>2 DEF Drops
<1>4. ~(j < k)
  BY <1>1, <1>2 DEF Drops
<1> QED BY <1>1, <1>3, <1>4

LEMMA PruneLen ==
  ASSUME NEW s \in Seq(Nat), NEW ts \in Nat, NEW k, Drops(s, ts, k)
  PROVE  /\ Prune(s, ts) = SubSeq(s, k + 1, Len(s))
         /\ Prune(s, ts) \in Seq(Nat)
         /\ Len(Prune(s, ts)) = Len(s) - k
<1>1. Prune(s, ts) = SubSeq(s, k + 1, Len(s)) /\ k \in 0 .. Len(s)
  BY PruneDrops, DropsOnce
<1>2. SubSeq(s, k + 1, Len(s)) \in Seq(Nat) /\ Len(SubSeq(s, k + 1, Len(s))) = Len(s) - k
  BY <1>1
<1> QED BY <1>1, <1>2

(* What a later prune leaves does not depend on an earlier one. *)
LEMMA PruneTwice ==
  ASSUME NEW s \in Seq(Nat), NEW ts \in Nat, NEW tt \in Nat, ts <= tt
  PROVE  Len(Prune(Prune(s, ts), tt)) = Len(Prune(s, tt))
<1> DEFINE q == Prune(s, ts)
<1>1. PICK k : Drops(s, ts, k)
  BY PruneDrops
<1>2. q = SubSeq(s, k + 1, Len(s)) /\ q \in Seq(Nat) /\ Len(q) = Len(s) - k
  BY <1>1, PruneLen
<1>3. k \in 0 .. Len(s) /\ Len(s) \in Nat /\ ts - Window <= tt - Window
      /\ ts - Window \in Int /\ tt - Window \in Int /\ \A x \in 1 .. Len(s) : s[x] \in Nat
  BY <1>1, RiskConfigAssumption DEF Drops
<1>4. \A x \in 1 .. Len(q) : q[x] = s[k + x]
  BY <1>2, <1>3
<1> HIDE DEF q
<1>5. PICK i : Drops(q, tt, i)
  BY <1>2, PruneDrops
<1>6. i \in 0 .. Len(q) /\ k + i \in 0 .. Len(s)
  BY <1>2, <1>3, <1>5 DEF Drops
<1>7. \A x \in 1 .. k + i : s[x] <= tt - Window
  <2> SUFFICES ASSUME NEW x \in 1 .. k + i PROVE s[x] <= tt - Window
    OBVIOUS
  <2>1. CASE x <= k
    <3>1. s[x] <= ts - Window
      BY <1>1, <1>3, <1>6, <2>1 DEF Drops
    <3>2. s[x] \in Nat
      BY <1>3, <1>6
    <3> QED BY <1>3, <3>1, <3>2
  <2>2. CASE x > k
    <3>1. x - k \in 1 .. i /\ k + (x - k) = x /\ x - k \in 1 .. Len(q)
      BY <1>3, <1>6, <2>2
    <3> QED BY <1>4, <1>5, <3>1 DEF Drops
  <2> QED BY <1>3, <1>6, <2>1, <2>2
<1>8. k + i < Len(s) => s[k + i + 1] > tt - Window
  <2> SUFFICES ASSUME k + i < Len(s) PROVE s[k + i + 1] > tt - Window
    OBVIOUS
  <2>1. i < Len(q) /\ i + 1 \in 1 .. Len(q) /\ k + (i + 1) = k + i + 1
    BY <1>2, <1>3, <1>6, SMTT(30)
  <2> QED BY <1>4, <1>5, <2>1 DEF Drops
<1>9. Drops(s, tt, k + i)
  BY <1>6, <1>7, <1>8 DEF Drops
<1>10. Len(Prune(s, tt)) = Len(s) - (k + i) /\ Len(Prune(q, tt)) = Len(q) - i
  BY <1>2, <1>5, <1>9, PruneLen, ZenonT(30)
<1>11. i \in Int /\ k \in Int /\ Len(s) \in Int /\ Len(q) = Len(s) - k
  BY <1>2, <1>3, <1>6
<1>12. Len(Prune(q, tt)) = Len(Prune(s, tt))
  BY <1>10, <1>11
<1> QED BY <1>12 DEF q

(* A placement inside the window survives the prune. *)
LEMMA PruneAppend ==
  ASSUME NEW q \in Seq(Nat), NEW ts \in Nat, NEW tt \in Nat, ts > tt - Window
  PROVE  Len(Prune(Append(q, ts), tt)) = Len(Prune(q, tt)) + 1
<1> DEFINE a == Append(q, ts)
<1>1. /\ a \in Seq(Nat) /\ Len(a) = Len(q) + 1 /\ Len(q) \in Nat
      /\ \A x \in 1 .. Len(q) : a[x] = q[x]
      /\ a[Len(q) + 1] = ts
  OBVIOUS
<1>2. PICK j : Drops(q, tt, j)
  BY PruneDrops
<1> HIDE DEF a
<1>3. /\ j \in 0 .. Len(q)
      /\ \A x \in 1 .. j : q[x] <= tt - Window
      /\ j < Len(q) => q[j + 1] > tt - Window
  BY <1>2 DEF Drops
<1>4. Drops(a, tt, j)
  <2>1. j \in 0 .. Len(a)
    BY <1>1, <1>3
  <2>3. \A x \in 1 .. j : a[x] <= tt - Window
    <3>1. \A x \in 1 .. j : x \in 1 .. Len(q)
      BY <1>1, <1>3
    <3> QED BY <1>1, <1>3, <3>1
  <2>2. a[j + 1] > tt - Window
    <3>1. CASE j < Len(q)
      <4>1. j + 1 \in 1 .. Len(q)
        BY <1>1, <1>3, <3>1
      <4> QED BY <1>1, <1>3, <3>1, <4>1
    <3>2. CASE j = Len(q)
      BY <1>1, <3>2
    <3> QED BY <1>1, <1>3, <3>1, <3>2
  <2> QED BY <2>1, <2>2, <2>3 DEF Drops
<1>5. Len(Prune(a, tt)) = Len(a) - j /\ Len(Prune(q, tt)) = Len(q) - j
  BY <1>1, <1>2, <1>4, PruneLen
<1> QED BY <1>1, <1>3, <1>5 DEF a

(* The orders placed so far, and those of them a check for ts must count. *)
Placed == {o \in Ticks \X Markets : order[o].stage # "none"}

Recent(ts) == {o \in Placed : tick[o[1]].at > ts - Window}

(* Ticks with an order keep their time.  While the checks come in order, no  *)
(* order is later than the last check; whatever is checked next counts every *)
(* order it must; and no minute, whenever it ends, has too many.            *)
RateInv == /\ IsFiniteSet(Placed)
           /\ \A o \in Placed : tick[o[1]].pc # "idle"
           /\ ~outOfOrder =>
                /\ \A o \in Placed : tick[o[1]].at <= checked
                /\ \A ts \in Nat : ts >= checked => Cardinality(Recent(ts)) <= Len(Pruned(ts))
                /\ \A n \in Nat : Cardinality(Stamped(n - Window + 1, n)) <= MaxOrders

LEMMA PrunedIsPrune ==
  ASSUME NEW ts
  PROVE  Pruned(ts) = Prune(placements, ts) /\ Pruned(ts)' = Prune(placements', ts)
<1>1. Pruned(ts) = Prune(placements, ts)
  BY DEF Pruned, Prune
<1>2. Pruned(ts)' = Prune(placements', ts)
  BY DEF Pruned, Prune, SelectInSeq
<1> QED BY <1>1, <1>2

(* A check that is not out of order is the latest. *)
LEMMA InOrder ==
  ASSUME TypeOK, NEW ts \in Nat, NoteCheck(ts), ~outOfOrder'
  PROVE  ~outOfOrder /\ checked \in Nat /\ checked <= ts /\ checked' = ts
<1>1. checked \in Nat /\ outOfOrder \in BOOLEAN
  BY DEF TypeOK
<1>2. ~outOfOrder /\ ~(ts < checked)
  BY Zenon DEF NoteCheck
<1>3. checked' = IF ts > checked THEN ts ELSE checked
  BY DEF NoteCheck
<1> QED BY <1>1, <1>2, <1>3

LEMMA SmallerSet ==
  ASSUME NEW S, NEW T, IsFiniteSet(T), S \subseteq T
  PROVE  IsFiniteSet(S) /\ Cardinality(S) \in Nat /\ Cardinality(T) \in Nat
         /\ Cardinality(S) <= Cardinality(T)
  BY FS_Subset, FS_CardinalityType

(* A step that places nothing and checks nothing. *)
LEMMA RateSame ==
  ASSUME RateInv, Placed' = Placed,
         \A o \in Placed : tick'[o[1]].at = tick[o[1]].at /\ tick'[o[1]].pc # "idle",
         UNCHANGED <<placements, checked, outOfOrder>>
  PROVE  RateInv'
<1>1. \A ts : Recent(ts)' = Recent(ts)
  BY DEF Recent
<1>2. \A a, b : Stamped(a, b) = {o \in Placed : tick[o[1]].at \in a .. b}
  BY DEF Stamped, Placed
<1>3. \A a, b : Stamped(a, b)' = {o \in Placed' : tick'[o[1]].at \in a .. b}
  BY DEF Stamped, Placed
<1>4. \A a, b : Stamped(a, b)' = Stamped(a, b)
  BY <1>2, <1>3
<1>5. \A ts : Pruned(ts)' = Pruned(ts)
  BY PrunedIsPrune
<1> QED BY <1>1, <1>4, <1>5 DEF RateInv

(* A check that places nothing leaves later checks what they would have seen. *)
LEMMA RateCheck ==
  ASSUME TypeOK, RateInv, NEW ts \in Nat, Placed' = Placed,
         \A o \in Placed : tick'[o[1]].at = tick[o[1]].at /\ tick'[o[1]].pc # "idle",
         placements' = Pruned(ts), NoteCheck(ts)
  PROVE  RateInv'
<1>1. \A tt : Recent(tt)' = Recent(tt)
  BY DEF Recent
<1>2. \A a, b : Stamped(a, b) = {o \in Placed : tick[o[1]].at \in a .. b}
  BY DEF Stamped, Placed
<1>3. \A a, b : Stamped(a, b)' = {o \in Placed' : tick'[o[1]].at \in a .. b}
  BY DEF Stamped, Placed
<1>4. \A a, b : Stamped(a, b)' = Stamped(a, b)
  BY <1>2, <1>3
<1>5. ASSUME ~outOfOrder'
      PROVE  ~outOfOrder /\ checked \in Nat /\ checked <= ts /\ checked' = ts
  BY <1>5, InOrder
<1>6. ASSUME NEW tt \in Nat, ts <= tt PROVE Len(Pruned(tt)') = Len(Pruned(tt))
  <2>1. Pruned(tt)' = Prune(Prune(placements, ts), tt)
    BY PrunedIsPrune
  <2>2. placements \in Seq(Nat)
    BY DEF TypeOK, GuardTypeOK
  <2> QED BY <1>6, <2>1, <2>2, PruneTwice, PrunedIsPrune
<1>7. \A o \in Placed : tick[o[1]].at \in Nat
  BY DEF Placed, TypeOK, Tick
<1>8. ASSUME ~outOfOrder' PROVE \A o \in Placed : tick'[o[1]].at <= checked'
  <2>1. \A o \in Placed : tick[o[1]].at <= checked
    BY <1>5, <1>8 DEF RateInv
  <2> QED BY <1>5, <1>7, <1>8, <2>1
<1>9. ASSUME ~outOfOrder', NEW tt \in Nat, tt >= checked'
      PROVE  Cardinality(Recent(tt))' <= Len(Pruned(tt)')
  <2>1. checked \in Nat /\ ts <= tt /\ tt >= checked /\ ~outOfOrder
    BY <1>5, <1>9 DEF TypeOK
  <2>2. Cardinality(Recent(tt)) <= Len(Pruned(tt))
    BY <2>1 DEF RateInv
  <2> QED BY <1>1, <1>6, <2>1, <2>2
<1>10. ASSUME ~outOfOrder', NEW n \in Nat
       PROVE  Cardinality(Stamped(n - Window + 1, n))' <= MaxOrders
  BY <1>4, <1>5, <1>10 DEF RateInv
<1> QED BY <1>8, <1>9, <1>10 DEF RateInv

(* A placement is counted by its own check and by every later one. *)
LEMMA RatePlace ==
  ASSUME TypeOK, RateInv, NEW t \in Ticks, NEW m \in Markets, NEW ts \in Nat, ts = tick[t].at,
         Place(t, m)
  PROVE  RateInv'
<1> DEFINE o == <<t, m>>
<1>1. PICK size \in 1 .. MaxSize, side \in {-1, 1} :
        /\ Permit(m, side * size, ts)
        /\ order' = [order EXCEPT ![o] =
                       [stage |-> "placing", side |-> side, left |-> size, taken |-> 0]]
  BY DEF Place
<1>2. Placed' = Placed \cup {o}
  BY <1>1 DEF Placed, TypeOK
<1>3. ts \in Nat /\ placements \in Seq(Nat) /\ checked \in Nat
  BY DEF TypeOK, Tick, GuardTypeOK
<1>4. \A s \in Ticks : tick'[s].at = tick[s].at /\ (s = t \/ tick'[s].pc = tick[s].pc)
  BY DEF Place, Proceed, TypeOK
<1>5. tick'[t].pc = "placing"
  BY DEF Place, Proceed, TypeOK
<1>6. \A p \in Placed : p[1] \in Ticks /\ tick[p[1]].at \in Nat
  BY DEF Placed, TypeOK, Tick
<1>7. /\ IsFiniteSet(Placed')
      /\ \A p \in Placed' : tick'[p[1]].pc # "idle"
  <2>1. IsFiniteSet(Placed')
    BY <1>2, FS_AddElement DEF RateInv
  <2> QED BY <1>2, <1>4, <1>5, <1>6, <2>1 DEF RateInv
<1>8. placements' = Append(Prune(placements, ts), ts) /\ Len(Prune(placements, ts)) < MaxOrders
  <2>1. Prune(placements, ts) \in Seq(Nat)
    BY <1>3, PruneDrops, PruneLen
  <2>2. Len(Prune(placements, ts)) \in Nat
    BY <2>1
  <2> QED BY <1>1, <2>2, PrunedIsPrune, RiskConfigAssumption DEF Permit, Denied, TooMany
<1> SUFFICES ASSUME ~outOfOrder'
             PROVE  /\ \A p \in Placed' : tick'[p[1]].at <= checked'
                    /\ \A tt \in Nat : tt >= checked' =>
                         Cardinality(Recent(tt)') <= Len(Pruned(tt)')
                    /\ \A n \in Nat : Cardinality(Stamped(n - Window + 1, n)') <= MaxOrders
  BY <1>7 DEF RateInv
<1>9. ~outOfOrder /\ checked <= ts /\ checked' = ts
  BY <1>3, InOrder DEF Place
<1>10. \A p \in Placed' : tick'[p[1]].at <= ts
  BY <1>2, <1>3, <1>4, <1>6, <1>9, SMTT(30) DEF RateInv
<1>11. \A tt : Recent(tt)' \subseteq Recent(tt) \cup {o}
  BY <1>2, <1>4, <1>6 DEF Recent
<1>12. ASSUME NEW tt \in Nat
       PROVE  /\ IsFiniteSet(Recent(tt)) /\ Cardinality(Recent(tt)) \in Nat
              /\ IsFiniteSet(Recent(tt)') /\ Cardinality(Recent(tt)') \in Nat
              /\ Cardinality(Recent(tt)') <= Cardinality(Recent(tt)) + 1
  <2>1. IsFiniteSet(Recent(tt)) /\ Cardinality(Recent(tt)) \in Nat
    BY SmallerSet DEF RateInv, Recent
  <2>2. /\ IsFiniteSet(Recent(tt) \cup {o})
        /\ Cardinality(Recent(tt) \cup {o}) \in Nat
        /\ Cardinality(Recent(tt) \cup {o}) <= Cardinality(Recent(tt)) + 1
    <3>1. /\ IsFiniteSet(Recent(tt) \cup {o})
          /\ \/ Cardinality(Recent(tt) \cup {o}) = Cardinality(Recent(tt))
             \/ Cardinality(Recent(tt) \cup {o}) = Cardinality(Recent(tt)) + 1
      BY <2>1, FS_AddElement
    <3> QED BY <2>1, <3>1
  <2>3. /\ IsFiniteSet(Recent(tt)') /\ Cardinality(Recent(tt)') \in Nat
        /\ Cardinality(Recent(tt)') <= Cardinality(Recent(tt) \cup {o})
    BY <1>11, <2>2, SmallerSet
  <2> QED BY <2>1, <2>2, <2>3
<1>13. ASSUME NEW tt \in Nat, tt >= ts PROVE Cardinality(Recent(tt)') <= Len(Pruned(tt)')
  <2>1. Cardinality(Recent(tt)) <= Len(Prune(placements, tt))
    BY <1>3, <1>9, <1>13, PrunedIsPrune DEF RateInv
  <2>2. Pruned(tt)' = Prune(Append(Prune(placements, ts), ts), tt)
    BY <1>8, PrunedIsPrune
  <2>3. Prune(placements, ts) \in Seq(Nat) /\ Append(Prune(placements, ts), ts) \in Seq(Nat)
    <3>1. Prune(placements, ts) \in Seq(Nat)
      BY <1>3, PruneDrops, PruneLen
    <3> QED BY <1>3, <3>1
  <2>4. CASE ts > tt - Window
    <3>1. Len(Pruned(tt)') = Len(Prune(Prune(placements, ts), tt)) + 1
      BY <1>3, <2>2, <2>3, <2>4, PruneAppend
    <3>2. Len(Prune(Prune(placements, ts), tt)) = Len(Prune(placements, tt))
      BY <1>3, <1>13, PruneTwice
    <3>3. Len(Prune(placements, tt)) \in Nat
      <4>1. Prune(placements, tt) \in Seq(Nat)
        BY <1>3, PruneDrops, PruneLen
      <4> QED BY <4>1
    <3>4. /\ Cardinality(Recent(tt)) \in Nat /\ Cardinality(Recent(tt)') \in Nat
          /\ Cardinality(Recent(tt)') <= Cardinality(Recent(tt)) + 1
      BY <1>12
    <3>5. Len(Pruned(tt)') = Len(Prune(placements, tt)) + 1
      BY <3>1, <3>2
    <3> QED BY <2>1, <3>3, <3>4, <3>5
  <2>5. CASE ~(ts > tt - Window)
    <3>1. Recent(tt)' = {}
      <4> SUFFICES ASSUME NEW p \in Placed', tick'[p[1]].at > tt - Window PROVE FALSE
        BY DEF Recent
      <4>1. tick'[p[1]].at \in Nat /\ tick'[p[1]].at <= ts
        BY <1>2, <1>3, <1>4, <1>6, <1>10
      <4>2. tt - Window \in Int
        BY RiskConfigAssumption
      <4> QED BY <1>3, <2>5, <4>1, <4>2
    <3>2. Cardinality(Recent(tt)') = 0
      BY <3>1, FS_EmptySet
    <3>3. Len(Pruned(tt)') \in Nat
      <4>1. Prune(Append(Prune(placements, ts), ts), tt) \in Seq(Nat)
        BY <2>3, PruneDrops, PruneLen
      <4> QED BY <2>2, <4>1
    <3> QED BY <3>2, <3>3
  <2> QED BY <2>4, <2>5
<1>14. ASSUME NEW n \in Nat PROVE Cardinality(Stamped(n - Window + 1, n)') <= MaxOrders
  <2>0. \A a, b : /\ Stamped(a, b) = {p \in Placed : tick[p[1]].at \in a .. b}
                  /\ Stamped(a, b)' = {p \in Placed' : tick'[p[1]].at \in a .. b}
    BY DEF Stamped, Placed
  <2>1. CASE n < ts
    <3>1. Stamped(n - Window + 1, n)' = Stamped(n - Window + 1, n)
      <4>1. tick'[o[1]].at \notin n - Window + 1 .. n
        BY <1>3, <1>4, <2>1
      <4> QED BY <1>2, <1>4, <1>6, <2>0, <4>1
    <3> QED BY <1>9, <3>1 DEF RateInv
  <2>2. CASE ~(n < ts)
    <3>1. Stamped(n - Window + 1, n)' \subseteq Recent(ts)'
      <4> SUFFICES ASSUME NEW p \in Placed', tick'[p[1]].at \in n - Window + 1 .. n
                   PROVE  tick'[p[1]].at > ts - Window
        BY <2>0 DEF Recent
      <4>1. Window \in Nat
        BY RiskConfigAssumption
      <4> QED BY <1>3, <2>2, <4>1, SMTT(30)
    <3>2. Cardinality(Stamped(n - Window + 1, n)') <= Cardinality(Recent(ts)')
          /\ Cardinality(Stamped(n - Window + 1, n)') \in Nat
      BY <1>3, <1>12, <3>1, SmallerSet
    <3>3. Cardinality(Recent(ts)') <= MaxOrders
      <4>1. Cardinality(Recent(ts)) <= Len(Prune(placements, ts))
        BY <1>3, <1>9, PrunedIsPrune DEF RateInv
      <4>2. Len(Prune(placements, ts)) \in Nat
        <5>1. Prune(placements, ts) \in Seq(Nat)
          BY <1>3, PruneDrops, PruneLen
        <5> QED BY <5>1
      <4>3. /\ Cardinality(Recent(ts)) \in Nat /\ Cardinality(Recent(ts)') \in Nat
            /\ Cardinality(Recent(ts)') <= Cardinality(Recent(ts)) + 1
        BY <1>12
      <4>4. Len(Prune(placements, ts)) < MaxOrders /\ MaxOrders \in Nat
        BY <1>8, RiskConfigAssumption
      <4> QED BY <4>1, <4>2, <4>3, <4>4
    <3>4. Cardinality(Recent(ts)') \in Nat /\ MaxOrders \in Nat
      BY <1>12, RiskConfigAssumption
    <3> QED BY <3>2, <3>3, <3>4
  <2> QED BY <2>1, <2>2
<1> QED BY <1>9, <1>10, <1>13, <1>14

(* Steps that set the stage of an order that is out, or leave all orders.    *)
LEMMA PlacedSame ==
  ASSUME \A o \in Ticks \X Markets : order'[o].stage = order[o].stage
                                    \/ (order[o].stage # "none" /\ order'[o].stage # "none")
  PROVE  Placed' = Placed
BY DEF Placed

LEMMA RateProceed ==
  ASSUME TypeOK, RateInv, NEW t \in Ticks, NEW pc, pc # "idle", NEW todo, NEW on,
         Proceed(t, pc, todo, on)
  PROVE  \A o \in Placed : tick'[o[1]].at = tick[o[1]].at /\ tick'[o[1]].pc # "idle"
<1>1. \A s \in Ticks : tick'[s].at = tick[s].at /\ (tick'[s].pc = tick[s].pc \/ tick'[s].pc = pc)
  BY DEF Proceed, TypeOK
<1>2. \A o \in Placed : o[1] \in Ticks /\ tick[o[1]].pc # "idle"
  BY DEF RateInv, Placed
<1> QED BY <1>1, <1>2

LEMMA RateNoOrder ==
  ASSUME TypeOK, RateInv, NEW t \in Ticks, NEW m \in Markets, NoOrder(t, m)
  PROVE  RateInv'
<1>1. \A o \in Placed : tick'[o[1]].at = tick[o[1]].at /\ tick'[o[1]].pc # "idle"
  BY RateProceed DEF NoOrder, MoveOn
<1>2. Placed' = Placed
  BY DEF NoOrder, Placed
<1>3. \/ UNCHANGED <<placements, checked, outOfOrder>>
      \/ \E delta : /\ Deny(m, delta, tick[t].at)
                    /\ IF Halted \/ CoolingDown(m, tick[t].at)
                       THEN UNCHANGED <<checked, outOfOrder>> ELSE NoteCheck(tick[t].at)
  BY DEF NoOrder, guardVars
<1>4. CASE UNCHANGED <<placements, checked, outOfOrder>>
  BY <1>1, <1>2, <1>4, RateSame
<1>5. ASSUME NEW delta, Deny(m, delta, tick[t].at),
             ~(Halted \/ CoolingDown(m, tick[t].at)), NoteCheck(tick[t].at)
      PROVE  RateInv'
  <2>1. placements' = Pruned(tick[t].at)
    BY <1>5 DEF Deny
  <2>2. tick[t].at \in Nat
    BY DEF TypeOK, Tick
  <2> QED BY <1>1, <1>2, <1>5, <2>1, <2>2, RateCheck
<1>6. ASSUME NEW delta, Deny(m, delta, tick[t].at),
             Halted \/ CoolingDown(m, tick[t].at), UNCHANGED <<checked, outOfOrder>>
      PROVE  UNCHANGED <<placements, checked, outOfOrder>>
  BY <1>6 DEF Deny
<1> QED BY <1>3, <1>4, <1>5, <1>6

LEMMA RateStep ==
  ASSUME TypeOK, RateInv, [Next]_vars
  PROVE  RateInv'
<1> DEFINE Kept == \A o \in Placed : tick'[o[1]].at = tick[o[1]].at /\ tick'[o[1]].pc # "idle"
<1>0. ASSUME UNCHANGED tick PROVE Kept
  BY <1>0 DEF RateInv
<1>1. ASSUME NEW t \in Ticks, Arrive(t) PROVE RateInv'
  <2>1. \A s \in Ticks : s # t => tick'[s] = tick[s]
    BY <1>1 DEF Arrive, TypeOK
  <2>2. \A o \in Placed : o[1] \in Ticks /\ o[1] # t /\ tick[o[1]].pc # "idle"
    BY <1>1 DEF Arrive, RateInv, Placed
  <2>3. Kept
    BY <2>1, <2>2
  <2>4. Placed' = Placed
    BY <1>1 DEF Arrive, Placed
  <2> QED BY <1>1, <2>3, <2>4, RateSame DEF Arrive, guardVars, historyVars
<1>2. ASSUME NEW t \in Ticks, List(t) PROVE RateInv'
  <2>1. Kept /\ Placed' = Placed
    BY <1>2, RateProceed DEF List, Placed
  <2> QED BY <1>2, <2>1, RateSame DEF List, guardVars, historyVars
<1>3. ASSUME NEW t \in Ticks, NEW m \in Markets, Evaluate(t, m) PROVE RateInv'
  <2>1. CASE NoQuote(t, m)
    <3>1. Kept /\ Placed' = Placed
      BY <2>1, RateProceed DEF NoQuote, MoveOn, Placed
    <3> QED BY <2>1, <3>1, RateSame DEF NoQuote, guardVars, historyVars
  <2>2. CASE Place(t, m)
    <3>1. tick[t].at \in Nat
      BY DEF TypeOK, Tick
    <3> QED BY <2>2, <3>1, RatePlace
  <2> QED BY <1>3, <2>1, <2>2, RateNoOrder DEF Evaluate
<1>4. ASSUME NEW t \in Ticks, NEW m \in Markets, Sign(t, m) \/ Expire(t, m) \/ Refuse(t, m)
      PROVE  RateInv'
  <2>1. Kept
    BY <1>0, <1>4, RateProceed DEF Sign, Expire, Refuse, Resume
  <2>2. Placed' = Placed
    <3>1. order[<<t, m>>].stage # "none" /\ \E stage \in {"signed", "over"} : SetStage(<<t, m>>, stage)
      BY <1>4 DEF Sign, Expire, Refuse
    <3>2. /\ order'[<<t, m>>].stage # "none"
          /\ \A o \in Ticks \X Markets : o # <<t, m>> => order'[o].stage = order[o].stage
      BY <3>1, StageElsewhere
    <3>3. \A o \in Ticks \X Markets : order'[o].stage = order[o].stage
                                     \/ (order[o].stage # "none" /\ order'[o].stage # "none")
      BY <3>1, <3>2
    <3> QED BY <3>3, PlacedSame
  <2> QED BY <1>4, <2>1, <2>2, RateSame DEF Sign, Expire, Refuse, guardVars, historyVars
<1>5. ASSUME NEW t \in Ticks, NEW m \in Markets, Answer(t, m) \/ GiveUp(t, m) PROVE RateInv'
  <2>1. Kept /\ Placed' = Placed
    BY <1>5, RateProceed DEF Answer, GiveUp, Resume, Placed
  <2>2. UNCHANGED <<placements, checked, outOfOrder>>
    BY <1>5 DEF Answer, GiveUp, OnFill, GuardFill, guardVars, historyVars
  <2> QED BY <2>1, <2>2, RateSame
<1>6. ASSUME NEW t \in Ticks, NEW m \in Markets, Land(t, m) \/ Taken(t, m) PROVE RateInv'
  <2>1. PICK qty, taken, maker : MatchOnChain(t, m, qty, taken, maker)
    BY <1>6 DEF Land, Taken
  <2>2. order[<<t, m>>].stage # "none"
    BY <1>6 DEF Land, Taken
  <2>3. Placed' = Placed
    <3>1. order'[<<t, m>>].stage # "none"
          /\ \A o \in Ticks \X Markets : o # <<t, m>> => order'[o].stage = order[o].stage
      BY <2>1, MatchElsewhere
    <3>2. \A o \in Ticks \X Markets : order'[o].stage = order[o].stage
                                     \/ (order[o].stage # "none" /\ order'[o].stage # "none")
      BY <2>2, <3>1
    <3> QED BY <3>2, PlacedSame
  <2>4. UNCHANGED <<tick, placements, checked, outOfOrder>>
    BY <2>1 DEF MatchOnChain, guardVars, historyVars
  <2> QED BY <1>0, <2>3, <2>4, RateSame
<1>7. CASE UNCHANGED <<tick, order, placements, checked, outOfOrder>>
  <2>1. Kept /\ Placed' = Placed
    BY <1>0, <1>7 DEF Placed
  <2> QED BY <1>7, <2>1, RateSame
<1>8. ASSUME NEW f \in fills, Poll(f) PROVE RateInv'
  <2>1. UNCHANGED <<tick, order, placements, checked, outOfOrder>>
    BY <1>8 DEF Poll, OnFill, GuardFill
  <2> QED BY <1>7, <2>1
<1>9. ASSUME NEW on \in BOOLEAN, Switch(on) PROVE RateInv'
  <2>1. UNCHANGED <<tick, order, placements, checked, outOfOrder>>
    BY <1>9 DEF Switch, SetKill, engineVars, historyVars
  <2> QED BY <1>7, <2>1
<1>10. CASE Pass \/ UNCHANGED vars
  <2>1. UNCHANGED <<tick, order, placements, checked, outOfOrder>>
    BY <1>10 DEF Pass, vars, engineVars, guardVars, historyVars
  <2> QED BY <1>7, <2>1
<1> QED
  BY <1>1, <1>2, <1>3, <1>4, <1>5, <1>6, <1>8, <1>9, <1>10 DEF Next

-----------------------------------------------------------------------------
IInv == TypeOK /\ EntryInv /\ CapInv /\ FreshInv

LEMMA InitIInv == Init => IInv
<1> SUFFICES ASSUME Init PROVE IInv
  OBVIOUS
<1>1. GuardTypeOK /\ SignalTypeOK
  <2>1. NoFill \in Int /\ 0 <= MaxOrders
    BY RiskConfigAssumption DEF NoFill
  <2>2. placements = <<>> /\ <<>> \in Seq(Nat) /\ Len(<<>>) = 0
    BY DEF Init, GuardInit
  <2>3. /\ net = [m \in Markets |-> 0]
        /\ lastFill = [m \in Markets |-> NoFill]
    BY DEF Init, GuardInit
  <2>4. net \in [Markets -> Int] /\ lastFill \in [Markets -> Int]
    BY <2>1, <2>3
  <2>5. Len(placements) <= MaxOrders
    BY <2>1, <2>2
  <2>6. GuardTypeOK
    BY <2>2, <2>4, <2>5, Zenon DEF Init, GuardInit, GuardTypeOK
  <2>7. SignalTypeOK
    BY DEF Init, SignalInit, SignalTypeOK
  <2> QED BY <2>6, <2>7
<1>2. chainNet \in [Markets -> Int] /\ \A m \in Markets : Abs(chainNet[m]) <= MaxNet
  <2>1. \A m \in Markets : chainNet[m] \in -MaxNet .. MaxNet
    BY EngineAssumption DEF Init
  <2>2. \A m \in Markets : Abs(chainNet[m]) <= MaxNet
    <3> SUFFICES ASSUME NEW m \in Markets PROVE Abs(chainNet[m]) <= MaxNet
      OBVIOUS
    <3>1. chainNet[m] \in Int /\ -MaxNet <= chainNet[m] /\ chainNet[m] <= MaxNet
      BY <2>1, RiskConfigAssumption
    <3> QED BY <3>1, RiskConfigAssumption DEF Abs
  <2> QED BY <2>1, <2>2, EngineAssumption DEF Init
<1>3. TypeOK
  BY <1>1, <1>2 DEF Init, TypeOK, Tick, Order
<1>4. EntryInv
  BY DEF Init, SignalInit, EntryInv
<1>5. CapInv
  BY <1>2 DEF Init, CapInv, Live
<1>6. FreshInv
  BY DEF Init, FreshInv
<1> QED BY <1>3, <1>4, <1>5, <1>6 DEF IInv

LEMMA StepIInv == IInv /\ [Next]_vars => IInv'
BY TypeStep, CapStep, FreshStep DEF IInv

(* The invariant the others follow from: types, the latch counts entries, and *)
(* exposure in markets ordered in with the position known.                  *)
THEOREM Inductive == Spec => []IInv
BY InitIInv, StepIInv, PTL DEF Spec

-----------------------------------------------------------------------------
(* Refinement: every step of the engine is a step of HaltSwitch or leaves    *)
(* its state alone.                                                         *)
LEMMA HaltMove ==
  ASSUME TypeOK, NEW o \in Ticks \X Markets, NEW a,
         SeenStage(order'[o].stage) = a,
         \A p \in Ticks \X Markets : p # o => order'[p].stage = order[p].stage
  PROVE  HaltStage' = [HaltStage EXCEPT ![o] = a]
BY DEF HaltStage

LEMMA HaltSame ==
  ASSUME \A p \in Ticks \X Markets : SeenStage(order'[p].stage) = SeenStage(order[p].stage)
  PROVE  HaltStage' = HaltStage
BY DEF HaltStage

LEMMA HaltSimulation == IInv /\ [Next]_vars => [Halt!Next]_(Halt!hvars)
<1> SUFFICES ASSUME TypeOK, FreshInv, [Next]_vars PROVE [Halt!Next]_(Halt!hvars)
  BY DEF IInv
<1> USE DEF Halt!hvars, Halt!Next, Halt!Advance
<1>1. ASSUME NEW t \in Ticks, NEW m \in Markets, m \in tick[t].todo, Place(t, m)
      PROVE  Halt!Decide(<<t, m>>)
  <2>1. HaltStage[<<t, m>>] = "none"
    BY <1>1 DEF FreshInv, HaltStage, SeenStage
  <2>2. PICK size \in 1 .. MaxSize, side \in {-1, 1} :
          /\ Permit(m, side * size, tick[t].at)
          /\ order' = [order EXCEPT ![<<t, m>>] =
                         [stage |-> "placing", side |-> side, left |-> size, taken |-> 0]]
    BY <1>1 DEF Place
  <2>3. /\ order'[<<t, m>>].stage = "placing"
        /\ \A p \in Ticks \X Markets : p # <<t, m>> => order'[p].stage = order[p].stage
    BY <2>2 DEF TypeOK
  <2>4. HaltStage' = [HaltStage EXCEPT ![<<t, m>>] = "decided"]
    BY <2>3, HaltMove DEF SeenStage
  <2>5. ~killSwitch /\ killSwitch' = killSwitch
    BY <2>2 DEF Permit, Denied, Halted
  <2> QED BY <2>1, <2>4, <2>5 DEF Halt!Decide
<1>2. ASSUME NEW t \in Ticks, NEW m \in Markets, Sign(t, m) PROVE Halt!Sign(<<t, m>>)
  <2>1. HaltStage[<<t, m>>] = "decided"
    BY <1>2 DEF Sign, HaltStage, SeenStage
  <2>2. HaltStage' = [HaltStage EXCEPT ![<<t, m>>] = "signed"]
    BY <1>2, StageElsewhere, HaltMove DEF Sign, SeenStage
  <2> QED BY <1>2, <2>1, <2>2 DEF Sign, guardVars, Halt!Sign
<1>3. ASSUME NEW t \in Ticks, NEW m \in Markets, Refuse(t, m) \/ Expire(t, m)
      PROVE  Halt!End(<<t, m>>)
  <2>1. HaltStage[<<t, m>>] \in {"decided", "signed"}
    BY <1>3 DEF Refuse, Expire, HaltStage, SeenStage
  <2>2. HaltStage' = [HaltStage EXCEPT ![<<t, m>>] = "over"]
    BY <1>3, StageElsewhere, HaltMove DEF Refuse, Expire, SeenStage
  <2> QED BY <1>3, <2>1, <2>2 DEF Refuse, Expire, guardVars, Halt!End
<1>4. ASSUME NEW t \in Ticks, NEW m \in Markets, Land(t, m) \/ Taken(t, m)
      PROVE  Halt!End(<<t, m>>) \/ UNCHANGED Halt!hvars
  <2>1. PICK qty, taken, maker : MatchOnChain(t, m, qty, taken, maker)
    BY <1>4 DEF Land, Taken
  <2>2. HaltStage[<<t, m>>] = "signed" /\ SeenStage(order[<<t, m>>].stage) = "signed"
    BY <1>4 DEF Land, Taken, HaltStage, SeenStage
  <2>3. /\ order'[<<t, m>>].stage \in {"resting", "over"}
        /\ \A p \in Ticks \X Markets : p # <<t, m>> => order'[p].stage = order[p].stage
    BY <2>1, MatchElsewhere
  <2>4. UNCHANGED killSwitch
    BY <2>1 DEF MatchOnChain, guardVars
  <2>5. CASE order'[<<t, m>>].stage = "resting"
    <3>1. SeenStage(order'[<<t, m>>].stage) = "signed"
      BY <2>5 DEF SeenStage
    <3>2. HaltStage' = HaltStage
      BY <2>2, <2>3, <3>1, HaltSame
    <3> QED BY <2>4, <3>2
  <2>6. CASE order'[<<t, m>>].stage = "over"
    <3>1. HaltStage' = [HaltStage EXCEPT ![<<t, m>>] = "over"]
      BY <2>3, <2>6, HaltMove DEF SeenStage
    <3> QED BY <2>2, <2>4, <3>1 DEF Halt!End
  <2> QED BY <2>3, <2>5, <2>6
<1>5. ASSUME NEW on \in BOOLEAN, Switch(on) PROVE Halt!Switch
  BY <1>5 DEF Switch, SetKill, engineVars, HaltStage, Halt!Switch
<1>6. CASE UNCHANGED <<killSwitch, order>>
  BY <1>6 DEF HaltStage
<1>7. ASSUME NEW t \in Ticks, NEW m \in Markets, NoQuote(t, m) \/ NoOrder(t, m)
      PROVE  UNCHANGED <<killSwitch, order>>
  BY <1>7 DEF NoQuote, NoOrder, Deny, guardVars
<1>8. ASSUME NEW t \in Ticks, NEW m \in Markets, Answer(t, m)
      PROVE  UNCHANGED <<killSwitch, order>>
  BY <1>8 DEF Answer, OnFill, GuardFill, guardVars
<1>9. ASSUME NEW f \in fills, Poll(f) PROVE UNCHANGED <<killSwitch, order>>
  BY <1>9 DEF Poll, OnFill, GuardFill
<1>10. CASE Pass \/ \E t \in Ticks : Arrive(t) \/ List(t)
  BY <1>6, <1>10 DEF Pass, Arrive, List, guardVars
<1>11. ASSUME NEW t \in Ticks, NEW m \in Markets, GiveUp(t, m)
       PROVE  UNCHANGED <<killSwitch, order>>
  BY <1>11 DEF GiveUp, guardVars
<1>12. CASE UNCHANGED vars
  BY <1>6, <1>12 DEF vars, guardVars, engineVars
<1> QED
  BY <1>1, <1>2, <1>3, <1>4, <1>5, <1>6, <1>7, <1>8, <1>9, <1>10, <1>11, <1>12
  DEF Next, Evaluate

(* The engine keeps its types; no more than the limit of placements is ever  *)
(* remembered as recent (risk.ts:136-141).                                  *)
THEOREM TypeCorrect == Spec => []TypeOK
<1>1. IInv => TypeOK
  BY DEF IInv
<1> QED BY <1>1, Inductive, PTL

(* One crossing of the entry threshold is one entry, for any number of ticks *)
(* and fills (signal.ts:6-20).                                              *)
THEOREM OneEntry == Spec => []OneEntryPerCrossing
<1>1. IInv => OneEntryPerCrossing
  <2> SUFFICES ASSUME EntryInv, NEW m \in Markets PROVE entered[m] <= 1
    BY DEF IInv, OneEntryPerCrossing
  <2>1. entered[m] = 1 \/ entered[m] = 0
    BY DEF EntryInv
  <2> QED BY <2>1
<1> QED BY <1>1, Inductive, PTL

(* The position cap holds on the chain in every market whose orders were     *)
(* decided with the position known and no other order out (risk.ts:150-169). *)
THEOREM CapHolds == Spec => []CapHeldWhenKnown
<1>1. IInv => CapHeldWhenKnown
  BY DEF IInv, CapInv, CapHeldWhenKnown
<1> QED BY <1>1, Inductive, PTL

(* While checks come in the order of time no minute has more orders stamped  *)
(* in it than the limit, for any overlap of ticks (risk.ts:136-141).        *)
THEOREM RateHolds == Spec => []RateHeld
<1>1. Init => RateInv
  <2> SUFFICES ASSUME Init PROVE RateInv
    OBVIOUS
  <2>1. Placed = {}
    BY DEF Init, Placed
  <2>2. \A a, b : Stamped(a, b) = {}
    BY <2>1 DEF Stamped, Placed
  <2>3. \A ts : Recent(ts) = {}
    BY <2>1 DEF Recent
  <2>4. \A ts \in Nat : Len(Pruned(ts)) \in Nat
    <3>1. GuardTypeOK
      BY InitIInv DEF IInv, TypeOK
    <3> QED BY <3>1, PrunedType DEF GuardTypeOK
  <2>5. MaxOrders \in Nat /\ IsFiniteSet({}) /\ Cardinality({}) = 0
    BY FS_EmptySet, RiskConfigAssumption
  <2>6. \A ts \in Nat : Cardinality(Recent(ts)) <= Len(Pruned(ts))
    <3> TAKE ts \in Nat
    <3>1. Recent(ts) = {} /\ Len(Pruned(ts)) \in Nat
      BY <2>3, <2>4
    <3>2. Cardinality(Recent(ts)) = 0
      BY <2>5, <3>1
    <3> QED BY <3>1, <3>2
  <2>7. \A n \in Nat : Cardinality(Stamped(n - Window + 1, n)) <= MaxOrders
    <3> TAKE n \in Nat
    <3>1. Stamped(n - Window + 1, n) = {}
      BY <2>2
    <3>2. Cardinality(Stamped(n - Window + 1, n)) = 0
      BY <2>5, <3>1
    <3> QED BY <2>5, <3>2
  <2> QED BY <2>1, <2>5, <2>6, <2>7 DEF RateInv
<1>2. IInv /\ RateInv => RateHeld
  BY DEF IInv, TypeOK, Tick, RateInv, RateHeld
<1>3. IInv /\ RateInv /\ [Next]_vars => RateInv'
  BY RateStep DEF IInv
<1> QED BY <1>1, <1>2, <1>3, Inductive, PTL DEF Spec

(* The engine is a HaltSwitch: with the switch on, nothing is decided, and   *)
(* an order decided before is signed at most once and ends at most once      *)
(* (risk.ts:5-9, 70-81).                                                    *)
THEOREM RefinesHaltSwitch == Spec => Halt!HSafe
<1>1. Init => Halt!Init
  BY DEF Init, GuardInit, Halt!Init, HaltStage, SeenStage
<1> QED BY <1>1, HaltSimulation, Inductive, PTL DEF Spec, Halt!HSafe

-----------------------------------------------------------------------------
(* From a quote to an order. *)

(* The least of the five limits of the sizer is one of them and below all. *)
LEMMA LeastOfFive ==
  ASSUME NEW a \in Int, NEW b \in Int, NEW c \in Int, NEW d \in Int, NEW e \in Int
  PROVE  LET least == Least({a, b, c, d, e})
         IN /\ least \in {a, b, c, d, e}
            /\ least <= a /\ least <= b /\ least <= c /\ least <= d /\ least <= e
<1> DEFINE S == {a, b, c, d, e}
<1>1. \E x \in S : \A y \in S : x <= y
  <2>1. PICK u \in {a, b} : u <= a /\ u <= b
    OBVIOUS
  <2>2. PICK v \in {u, c} : v <= u /\ v <= c
    BY <2>1
  <2>3. PICK w \in {v, d} : w <= v /\ w <= d
    BY <2>1, <2>2
  <2>4. PICK z \in {w, e} : z <= w /\ z <= e
    BY <2>1, <2>2, <2>3
  <2>5. z \in S /\ z <= a /\ z <= b /\ z <= c /\ z <= d /\ z <= e
    BY <2>1, <2>2, <2>3, <2>4
  <2> QED BY <2>5
<1> QED BY <1>1 DEF Least

LEMMA LeastOfTwo ==
  ASSUME NEW a \in Int, NEW b \in Int
  PROVE  /\ Least({a, b}) \in {a, b}
         /\ Least({a, b}) <= a /\ Least({a, b}) <= b
<1>1. \E x \in {a, b} : \A y \in {a, b} : x <= y
  OBVIOUS
<1> QED BY <1>1 DEF Least

(* A quotient rounded down, times its divisor, is not above the dividend. *)
LEMMA DivTimes ==
  ASSUME NEW n \in Nat, NEW d \in Nat \ {0}
  PROVE  n \div d \in Nat /\ (n \div d) * d <= n
BY SMTT(30)

(* Rounding down to a grid stays on the grid; what is left is a step at least. *)
LEMMA FloorToGrid ==
  ASSUME NEW n \in Nat, NEW step \in Nat \ {0}
  PROVE  /\ FloorTo(n, step) \in Nat
         /\ FloorTo(n, step) <= n
         /\ FloorTo(n, step) % step = 0
         /\ FloorTo(n, step) > 0 => FloorTo(n, step) >= step
<1> DEFINE lots == n \div step
<1>1. lots \in Nat /\ lots * step <= n
  BY DivTimes
<1>2. \A k \in Nat : k * step \in Nat /\ (k > 0 => k * step >= step) /\ (k * step) % step = 0
  <2> TAKE k \in Nat
  <2>1. k * step \in Nat /\ (k > 0 => k * step >= step)
    BY SMTT(30)
  <2>2. (k * step) % step = 0
    BY SMTT(30)
  <2> QED BY <2>1, <2>2
<1> HIDE DEF lots
<1> QED BY <1>1, <1>2 DEF FloorTo, lots

LEMMA TimesMonotone ==
  ASSUME NEW a \in Nat, NEW b \in Nat, NEW c \in Nat, a <= b
  PROVE  a * c <= b * c /\ c * a <= c * b
BY SMTT(30)

LEMMA PriceType ==
  ASSUME NEW q \in Quote, NEW b \in Belief, NEW side \in Side
  PROVE  Price(q, side) \in 0 .. Unit /\ Chance(b, side) \in 0 .. Unit /\ Depth(q, side) \in Nat
BY DecisionAssumption DEF Price, Chance, Depth, Quote, Belief, Side

(* Kelly's stake is a number of contracts wherever the sizer asks for it. *)
LEMMA KellyStakeType ==
  ASSUME NEW p \in 0 .. Unit, NEW price \in 1 .. Unit - 1, p > price,
         NEW r \in Risk, NEW bankroll \in Nat
  PROVE  KellyStake(p, price, r, bankroll) \in Nat
<1>1. r.kelly \in Nat /\ r.per \in Nat \ {0} /\ Unit \in Nat \ {0}
  BY DecisionAssumption DEF Risk
<1>2. (p - price) * r.kelly \in Nat
  BY <1>1, SMTT(30)
<1>3. (p - price) * r.kelly * bankroll \in Nat
  BY <1>2, SMTT(30)
<1>4. (Unit - price) * r.per \in Nat \ {0}
  BY <1>1, SMTT(30)
<1>5. (Unit - price) * r.per * price \in Nat \ {0}
  BY <1>4, SMTT(30)
<1> QED BY <1>3, <1>5, DivTimes DEF KellyStake

(* An order that is sized at all is a round number of lots, and within each  *)
(* of the limits.                                                           *)
LEMMA SizeWithinLimits ==
  ASSUME NEW mk \in MarketView, NEW q \in Quote, NEW b \in Belief, NEW r \in Risk, NEW side \in Side,
         NEW held \in Int, NEW gross \in Nat, NEW bankroll \in Nat,
         NEW size, size = SizeOrder(mk, q, b, r, side, held, gross, bankroll), size > 0
  PROVE  /\ Price(q, side) \in 1 .. Unit - 1
         /\ size \in Nat /\ size >= mk.lot /\ size % mk.lot = 0
         /\ size * Price(q, side) <= r.notional
         /\ size <= NetRoom(r, side, held)
         /\ size <= AtLeastZero(r.gross - gross)
         /\ size <= Depth(q, side)
<1> DEFINE price == Price(q, side)
           p == Chance(b, side)
           k == KellyStake(p, price, r, bankroll)
           c == r.notional \div price
           n == NetRoom(r, side, held)
           g == AtLeastZero(r.gross - gross)
           d == Depth(q, side)
           least == Least({k, c, n, g, d})
<1>1. price \in 0 .. Unit /\ p \in 0 .. Unit /\ d \in Nat /\ mk.lot \in Nat \ {0} /\ Unit \in Nat
  BY PriceType, DecisionAssumption DEF MarketView
<1>2. /\ p > price /\ bankroll > 0 /\ 0 < price /\ price < Unit
      /\ size = FloorTo(least, mk.lot)
  BY DEF SizeOrder
<1>3. price \in 1 .. Unit - 1
  BY <1>1, <1>2
<1>4. k \in Nat
  BY <1>1, <1>2, <1>3, KellyStakeType
<1>5. c \in Nat /\ c * price <= r.notional
  BY <1>3, DivTimes DEF Risk
<1>6. n \in Nat /\ g \in Nat
  BY DEF Risk, NetRoom, AtLeastZero, Contracts
<1> HIDE DEF price, p, k, c, n, g, d
<1>7. least \in Nat /\ least <= c /\ least <= n /\ least <= g /\ least <= d
  <2>1. k \in Int /\ c \in Int /\ n \in Int /\ g \in Int /\ d \in Int
    BY <1>1, <1>4, <1>5, <1>6
  <2>2. /\ least \in {k, c, n, g, d}
        /\ least <= k /\ least <= c /\ least <= n /\ least <= g /\ least <= d
    BY <2>1, LeastOfFive, Zenon
  <2> HIDE DEF least
  <2> QED BY <2>2, <1>1, <1>4, <1>5, <1>6
<1> HIDE DEF least
<1>8. size \in Nat /\ size <= least /\ size % mk.lot = 0 /\ size >= mk.lot
  BY <1>1, <1>2, <1>7, FloorToGrid
<1>9. size * price <= r.notional
  <2>1. size <= c
    BY <1>5, <1>7, <1>8
  <2>2. size * price <= c * price
    BY <2>1, <1>3, <1>5, <1>8, TimesMonotone
  <2>3. size * price \in Int /\ c * price \in Int /\ r.notional \in Int
    BY <1>3, <1>5, <1>8 DEF Risk
  <2> QED BY <2>2, <2>3, <1>5
<1> QED BY <1>3, <1>5, <1>6, <1>7, <1>8, <1>9, <1>1 DEF price, n, g, d

-----------------------------------------------------------------------------
(* Whatever the quote, the belief and the limits, an order the engine        *)
(* decides on passes every rule of the guard about size, as long as the      *)
(* sizer and the guard see the same positions: the guard's caps never deny   *)
(* an entry, and never cost one its latch (core/sizer.ts:8-11,               *)
(* core/risk.ts:140-170).                                                    *)
THEOREM SizedPassesGuard ==
  ASSUME NEW mk \in MarketView, NEW q \in Quote, NEW b \in Belief, NEW r \in Risk,
         NEW held \in Int, NEW others \in Nat, NEW bankroll \in Nat, NEW ts \in Nat,
         NEW o \in Decisions(mk, q, b, r, held, others + Magnitude(held), bankroll, ts)
  PROVE  SizeAllowed(o, r, held, others)
<1> DEFINE gross == others + Magnitude(held)
<1>1. gross \in Nat
  BY DEF Magnitude
<1>2. PICK side \in Side :
        /\ SizeOrder(mk, q, b, r, side, held, gross, bankroll) > 0
        /\ o = BuildOrder(mk, q, r, side, SizeOrder(mk, q, b, r, side, held, gross, bankroll), ts)
  BY DEF Decisions, Sides
<1> HIDE DEF gross
<1>3. /\ o.side = side /\ o.limit = FloorTo(Price(q, side), Grid)
      /\ o.size = SizeOrder(mk, q, b, r, side, held, gross, bankroll)
  BY <1>2 DEF BuildOrder
<1>4. /\ Price(q, side) \in 1 .. Unit - 1
      /\ o.size \in Nat /\ o.size > 0
      /\ o.size * Price(q, side) <= r.notional
      /\ o.size <= NetRoom(r, side, held)
      /\ o.size <= AtLeastZero(r.gross - gross)
  BY <1>1, <1>2, <1>3, SizeWithinLimits
<1>5. o.size * o.limit <= r.notional
  <2>1. o.limit \in Nat /\ o.limit <= Price(q, side)
    BY <1>3, <1>4, FloorToGrid, DecisionAssumption
  <2>2. o.size * o.limit <= o.size * Price(q, side)
    BY <1>4, <2>1, TimesMonotone
  <2>3. o.size * o.limit \in Int /\ o.size * Price(q, side) \in Int /\ r.notional \in Int
    BY <1>4, <2>1 DEF Risk
  <2> QED BY <1>4, <2>2, <2>3
<1>6. LET after == held + Contracts(side, o.size)
      IN \/ Magnitude(after) < Magnitude(held)
         \/ Magnitude(after) <= r.net /\ others + Magnitude(after) <= r.gross
  <2>1. r.net \in Nat /\ r.gross \in Nat
    BY DEF Risk
  <2>2. CASE side = "YES"
    BY <2>1, <2>2, <1>4 DEF NetRoom, AtLeastZero, Contracts, Magnitude, gross
  <2>3. CASE side = "NO"
    BY <2>1, <2>3, <1>4 DEF NetRoom, AtLeastZero, Contracts, Magnitude, gross
  <2> QED BY <2>2, <2>3 DEF Side
<1> QED BY <1>3, <1>5, <1>6 DEF SizeAllowed

LEMMA DecidedSize ==
  ASSUME NEW mk \in MarketView, NEW q \in Quote, NEW b \in Belief, NEW r \in Risk,
         NEW held \in Int, NEW gross \in Nat, NEW bankroll \in Nat, NEW ts \in Nat,
         NEW o \in Decisions(mk, q, b, r, held, gross, bankroll, ts)
  PROVE  o.side \in Side /\ o.size \in Nat
<1>1. PICK side \in Side :
        /\ SizeOrder(mk, q, b, r, side, held, gross, bankroll) > 0
        /\ o = BuildOrder(mk, q, r, side, SizeOrder(mk, q, b, r, side, held, gross, bankroll), ts)
  BY DEF Decisions, Sides
<1>2. /\ o.side = side
      /\ o.size = SizeOrder(mk, q, b, r, side, held, gross, bankroll)
  BY <1>1 DEF BuildOrder
<1> QED BY <1>1, <1>2, SizeWithinLimits

(* A decided order is on both grids, the book has all it asks for, and it    *)
(* lives, but not past its market (core/sizer.ts:13-14, core/engine.ts:44). *)
THEOREM DecidedIsTradable ==
  ASSUME NEW mk \in MarketView, NEW q \in Quote, NEW b \in Belief, NEW r \in Risk,
         NEW held \in Int, NEW gross \in Nat, NEW bankroll \in Nat, NEW ts \in Nat,
         NEW o \in Decisions(mk, q, b, r, held, gross, bankroll, ts)
  PROVE  Tradable(o, mk, q, ts)
<1>1. PICK side \in Side :
        /\ Priced(mk, q, b, r, ts)
        /\ SizeOrder(mk, q, b, r, side, held, gross, bankroll) > 0
        /\ o = BuildOrder(mk, q, r, side, SizeOrder(mk, q, b, r, side, held, gross, bankroll), ts)
  BY DEF Decisions, Sides
<1>2. /\ o.side = side /\ o.limit = FloorTo(Price(q, side), Grid)
      /\ o.size = SizeOrder(mk, q, b, r, side, held, gross, bankroll)
      /\ o.expires = Least({mk.expiry, ts + r.ttl})
  BY <1>1 DEF BuildOrder
<1>3. /\ Price(q, side) \in 1 .. Unit - 1
      /\ o.size >= mk.lot /\ o.size % mk.lot = 0 /\ o.size <= Depth(q, side)
  BY <1>1, <1>2, SizeWithinLimits
<1>4. o.limit % Grid = 0 /\ o.limit <= Price(q, side)
  BY <1>2, <1>3, FloorToGrid, DecisionAssumption
<1>5. ts < o.expires /\ o.expires <= mk.expiry
  <2>1. mk.expiry \in Nat /\ mk.expiry > ts /\ r.ttl \in Nat \ {0}
    BY <1>1 DEF Priced, MarketView, Risk
  <2>2. /\ o.expires \in {mk.expiry, ts + r.ttl}
        /\ o.expires <= mk.expiry
    <3>1. mk.expiry \in Int /\ ts + r.ttl \in Int
      BY <2>1
    <3> QED BY <1>2, <3>1, LeastOfTwo, Zenon
  <2> QED BY <2>1, <2>2
<1> QED BY <1>2, <1>3, <1>4, <1>5 DEF Tradable

(* A spectator who signs the offer spends no more than the share of the      *)
(* balance it was made for, and the book has all of it (api/mirror.ts:129). *)
THEOREM OfferIsAffordable ==
  ASSUME NEW mk \in MarketView, NEW q \in Quote, NEW side \in Side, NEW at \in Nat,
         NEW offer \in Offer, NEW balance \in Nat, NEW ts \in Nat,
         NEW i \in Intents(mk, q, [side |-> side, ts |-> at], offer, balance, ts)
  PROVE  Affordable(i, mk, q, offer, balance)
<1> DEFINE f == [side |-> side, ts |-> at]
           price == Price(q, side)
           whole == balance * offer.share
           budget == Budget(offer, balance)
           bought == FloorTo(budget \div price, mk.lot)
           there == FloorTo(Depth(q, side), mk.lot)
<1>1. /\ Mirrorable(mk, q, f, offer, balance, ts)
      /\ i = [side |-> side, size |-> MirrorSize(mk, q, f, offer, balance),
              limit |-> price, expires |-> ts + offer.ttl]
  BY DEF Intents
<1>2. i.side = side /\ i.size = Least({bought, there}) /\ i.limit = price
  BY <1>1 DEF MirrorSize
<1>3. price \in Nat \ {0} /\ Depth(q, side) \in Nat /\ mk.lot \in Nat \ {0}
  <2>1. 0 < price
    BY <1>1 DEF Mirrorable
  <2> QED BY <2>1, PriceType, DecisionAssumption DEF Quote, Price, Depth, MarketView, Side
<1>4. whole \in Nat /\ budget \in Nat /\ budget * offer.of <= whole
  <2>1. whole \in Nat /\ offer.of \in Nat \ {0}
    BY SMTT(30) DEF Offer
  <2> QED BY <2>1, DivTimes DEF Budget
<1> HIDE DEF price, budget, whole
<1>5. (budget \div price) \in Nat /\ (budget \div price) * price <= budget
  BY <1>3, <1>4, DivTimes
<1>6. /\ bought \in Nat /\ bought <= budget \div price /\ bought % mk.lot = 0
      /\ there \in Nat /\ there <= Depth(q, side) /\ there % mk.lot = 0
  BY <1>3, <1>5, FloorToGrid
<1> HIDE DEF bought, there
<1>7. /\ i.size \in Nat /\ i.size <= budget \div price
      /\ i.size <= Depth(q, side) /\ i.size % mk.lot = 0
  <2>1. bought \in Int /\ there \in Int
    BY <1>6
  <2>2. i.size \in {bought, there} /\ i.size <= bought /\ i.size <= there
    BY <1>2, <2>1, LeastOfTwo, Zenon
  <2> QED BY <2>2, <1>3, <1>5, <1>6
<1>8. i.size * price <= budget
  <2>1. i.size * price <= (budget \div price) * price
    BY <1>3, <1>5, <1>7, TimesMonotone
  <2>2. i.size * price \in Int /\ (budget \div price) * price \in Int
    BY <1>3, <1>5, <1>7
  <2> QED BY <2>1, <2>2, <1>4, <1>5
<1>9. i.size * price * offer.of <= whole
  <2>1. offer.of \in Nat /\ i.size * price \in Nat
    BY <1>3, <1>7, SMTT(30) DEF Offer
  <2>2. i.size * price * offer.of <= budget * offer.of
    BY <2>1, <1>4, <1>8, TimesMonotone
  <2>3. i.size * price * offer.of \in Int /\ budget * offer.of \in Int
    BY <2>1, <1>4
  <2> QED BY <2>2, <2>3, <1>4
<1> QED BY <1>2, <1>7, <1>9 DEF Affordable, whole, price

(* What the others hold counts the same before the order and after it. *)
LEMMA GrossSplits ==
  ASSUME NEW f \in [Markets -> Int], NEW m \in Markets, IsFiniteSet(Markets)
  PROVE  LET others == SumFunctionOnSet([x \in Markets |-> Abs(f[x])], Markets \ {m})
         IN  /\ others \in Nat
             /\ \A n \in Int : SumFunction([x \in Markets |-> Abs([f EXCEPT ![m] = n][x])])
                                = others + Abs(n)
             /\ SumFunction([x \in Markets |-> Abs(f[x])]) = others + Abs(f[m])
<1> DEFINE D == Markets \ {m}
           g == [x \in Markets |-> Abs(f[x])]
           others == SumFunctionOnSet(g, D)
<1>1. IsFiniteSet(D) /\ m \notin D /\ D \cup {m} = Markets
  BY FS_RemoveElement
<1>2. \A x \in D : g[x] \in Nat
  BY DEF Abs
<1>3. others \in Nat
  BY <1>1, <1>2, SumNat
<1>4. ASSUME NEW h, h \in [Markets -> Nat], \A x \in D : h[x] = g[x]
      PROVE  SumFunction(h) = others + h[m]
  <2>1. \A x \in D : g[x] \in Int
    BY DEF Abs
  <2>2. h[m] \in Int /\ DOMAIN h = Markets
    BY <1>4
  <2> HIDE DEF g, D
  <2>3. SumFunctionOnSet(h, D \cup {m}) = SumFunctionOnSet(g, D) + h[m]
    BY <1>1, <1>4, <2>1, <2>2, SumAdd
  <2> QED BY <1>1, <2>2, <2>3 DEF SumFunction, SumFunctionOnSet, D
<1>5. ASSUME NEW n \in Int
      PROVE  SumFunction([x \in Markets |-> Abs([f EXCEPT ![m] = n][x])]) = others + Abs(n)
  <2> DEFINE h == [x \in Markets |-> Abs([f EXCEPT ![m] = n][x])]
  <2>1. h \in [Markets -> Nat] /\ h[m] = Abs(n) /\ \A x \in D : h[x] = g[x]
    BY DEF Abs
  <2> HIDE DEF h, g
  <2>2. SumFunction(h) = others + h[m]
    BY <1>4, <2>1
  <2> QED BY <2>1, <2>2 DEF h
<1>6. SumFunction(g) = others + Abs(f[m])
  <2>1. g \in [Markets -> Nat] /\ g[m] = Abs(f[m])
    BY DEF Abs
  <2> HIDE DEF g
  <2> QED BY <1>4, <2>1
<1> QED BY <1>3, <1>5, <1>6

(* In every position the guard comes to, an order the sizer makes of it       *)
(* passes the guard's caps (core/sizer.ts:92-101, core/risk.ts:150-169).     *)
THEOREM SizerAgrees == Spec => []SizerAgreesWithGuard
<1>1. TypeOK => SizerAgreesWithGuard
  <2> SUFFICES ASSUME TypeOK, NEW m \in Markets, NEW mk \in MarketViews, NEW q \in Quotes,
                      NEW b \in Beliefs, NEW r \in Risks, NEW money \in Bankrolls,
                      NEW o \in Decisions(mk, q, b, r, net[m], Gross, money, now)
               PROVE  ~OverCaps(m, Contracts(o.side, o.size))
    BY DEF SizerAgreesWithGuard
  <2>1. /\ mk \in MarketView /\ q \in Quote /\ b \in Belief /\ r \in Risk /\ money \in Nat
        /\ r.net = MaxNet /\ r.gross = MaxGross /\ IsFiniteSet(Markets)
    BY SizingAssumption
  <2>2. net \in [Markets -> Int] /\ net[m] \in Int /\ now \in Nat
    BY DEF TypeOK, GuardTypeOK
  <2> DEFINE held == net[m]
             change == Contracts(o.side, o.size)
  <2>3. PICK others \in Nat :
          /\ Gross = others + Abs(held)
          /\ \A n \in Int : SumFunction([x \in Markets |-> Abs([net EXCEPT ![m] = n][x])])
                             = others + Abs(n)
    BY <2>1, <2>2, GrossSplits DEF Gross
  <2>4. Gross = others + Magnitude(held)
    BY <2>3 DEF Abs, Magnitude
  <2>5. SizeAllowed(o, r, held, others)
    BY <2>1, <2>2, <2>4, SizedPassesGuard
  <2>6. change \in Int
    <3>1. Gross \in Nat
      BY <2>2, <2>4 DEF Magnitude
    <3>2. o.size \in Nat
      BY <2>1, <2>2, <3>1, DecidedSize
    <3> QED BY <3>2 DEF Contracts
  <2>7. held + change \in Int
    BY <2>2, <2>6
  <2>8. SumFunction([x \in Markets |-> Abs([net EXCEPT ![m] = held + change][x])])
          = others + Abs(held + change)
    BY <2>3, <2>7
  <2>9. /\ [net EXCEPT ![m] = @ + change] = [net EXCEPT ![m] = held + change]
        /\ [net EXCEPT ![m] = held + change][m] = held + change
    BY <2>2
  <2>10. \/ Abs(held + change) < Abs(held)
         \/ Abs(held + change) <= MaxNet /\ others + Abs(held + change) <= MaxGross
    BY <2>1, <2>5 DEF SizeAllowed, Abs, Magnitude
  <2>11. Abs(held + change) \in Nat /\ MaxNet \in Nat /\ MaxGross \in Nat
    BY <2>7, RiskConfigAssumption DEF Abs
  <2> HIDE DEF held, change
  <2> QED BY <2>8, <2>9, <2>10, <2>11 DEF OverCaps, Reducing, held, change
<1> QED BY <1>1, TypeCorrect, PTL
=============================================================================
