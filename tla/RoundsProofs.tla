---------------------------- MODULE RoundsProofs ----------------------------
(***************************************************************************)
(* Proofs about Rounds for any markets, PnLs, clicks and number of rounds.   *)
(*                                                                          *)
(* The argument: a round enters `reads` only once it is no longer OPEN, and  *)
(* ids only grow, so a round with a settlement is never the OPEN one; that   *)
(* freezes its forecasts and keeps its settlement (RoundInv).               *)
(*                                                                          *)
(* The pot: what was paid is kept as a sum over the settlements, and a step   *)
(* adds one settlement at most, paid whole or carried whole (PotStep).       *)
(***************************************************************************)
EXTENDS Rounds, Feed, FoldTheorems, TLAPS

(* Rounds are numbered by `index`; the one on display is settled exactly when *)
(* it says so, and one that waits for outcomes has left OPEN.               *)
RoundInv == /\ status = "NONE" <=> index = 0
            /\ \A r \in DOMAIN settled : r <= index
            /\ \A f \in forecasts : f.roundId <= index
            /\ \A c \in reads : /\ c.roundId \in 1 .. index
                                /\ c.roundId = index => status \in {"SCORING", "SETTLED"}
                                /\ Considered(c) = ForRound(c.roundId)

IInv == TypeOK /\ RoundInv /\ DisplayMatchesSettlement /\ NoForecastLeftOut

-----------------------------------------------------------------------------
(* What one settlement does to HuntService's state. *)
LEMMA SettleTypes ==
  ASSUME HuntTypeOK, NEW r \in Nat, NEW fs \in SUBSET Forecast,
         NEW outcomes \in SUBSET Markets, Settle(r, fs, outcomes)
  PROVE  HuntTypeOK'
<1> DEFINE new == [miraPnlUsd |-> miraPnlUsd, potUsd |-> Earned(miraPnlUsd) + rollover,
                   forecasts |-> fs, outcomes |-> outcomes, scored |-> Scored(fs, outcomes)]
<1>1. CASE r \in DOMAIN settled
  <2>1. journal' = Append(journal, r)
    BY <1>1 DEF Settle
  <2>2. journal \in Seq(Nat)
    BY DEF HuntTypeOK
  <2>3. journal' \in Seq(Nat)
    BY <2>1, <2>2
  <2> QED BY <1>1, <2>3 DEF Settle, HuntTypeOK
<1>2. CASE r \notin DOMAIN settled
  <2>1. new.potUsd \in Nat
    BY DEF HuntTypeOK, Earned
  <2>2. new \in Settlement
    BY <2>1 DEF HuntTypeOK, Settlement, Scored
  <2>3. /\ PayOrCarry(new.potUsd, new.scored # {})
        /\ settled' = [x \in DOMAIN settled \cup {r} |-> IF x = r THEN new ELSE settled[x]]
        /\ MarkSettled(r)
        /\ UNCHANGED <<index, marketIds, miraPnlUsd>>
        /\ journal' = journal \o <<r, r>>
    BY <1>2 DEF Settle, SettleNew
  <2>4. rollover' \in Nat /\ totalPaid' \in Nat
    BY <2>1, <2>3 DEF PayOrCarry, HuntTypeOK
  <2>5. settled' \in [DOMAIN settled' -> Settlement] /\ DOMAIN settled' \in SUBSET Nat
    BY <2>2, <2>3 DEF HuntTypeOK
  <2>6. status' \in Status
    BY <2>3 DEF MarkSettled, HuntTypeOK, Status
  <2>7. journal' \in Seq(Nat)
    <3>1. journal' = journal \o <<r, r>>
      BY <2>3
    <3>2. journal \in Seq(Nat)
      BY DEF HuntTypeOK
    <3> QED BY <3>1, <3>2
  <2> QED BY <2>3, <2>4, <2>5, <2>6, <2>7 DEF HuntTypeOK
<1> QED BY <1>1, <1>2

LEMMA SettleKeeps ==
  ASSUME NEW r, NEW fs, NEW outcomes, Settle(r, fs, outcomes)
  PROVE  /\ DOMAIN settled' = DOMAIN settled \cup {r}
         /\ \A x \in DOMAIN settled : settled'[x] = settled[x]
         /\ r \notin DOMAIN settled => settled'[r].forecasts = fs
         /\ index' = index
         /\ status' = IF r \notin DOMAIN settled /\ index = r THEN "SETTLED" ELSE status
<1>1. CASE r \in DOMAIN settled
  BY <1>1 DEF Settle
<1>2. CASE r \notin DOMAIN settled
  <2> DEFINE new == [miraPnlUsd |-> miraPnlUsd, potUsd |-> Earned(miraPnlUsd) + rollover,
                     forecasts |-> fs, outcomes |-> outcomes, scored |-> Scored(fs, outcomes)]
  <2>1. /\ settled' = [x \in DOMAIN settled \cup {r} |-> IF x = r THEN new ELSE settled[x]]
        /\ status' = IF index = r THEN "SETTLED" ELSE status
        /\ index' = index
    BY <1>2 DEF Settle, SettleNew, MarkSettled
  <2>2. new.forecasts = fs
    OBVIOUS
  <2> HIDE DEF new
  <2> QED BY <1>2, <2>1, <2>2
<1> QED BY <1>1, <1>2

(* Every action keeps the types. *)
LEMMA TypeStep == TypeOK /\ [Next]_vars => TypeOK'
<1> SUFFICES ASSUME TypeOK, [Next]_vars PROVE TypeOK'
  OBVIOUS
<1> USE RoundsAssumption DEF TypeOK
<1>1. CASE TickOpen
  <2>1. PICK ms \in SUBSET (Markets \ resolved) \ {{}} : Open(ms)
    BY <1>1 DEF TickOpen
  <2>2. HuntTypeOK'
    BY <2>1 DEF Open, HuntTypeOK, Status
  <2> QED BY <1>1, <2>2 DEF TickOpen
<1>2. CASE TickDue
  BY <1>2 DEF TickDue, Close, HuntTypeOK, Status, Read
<1>3. CASE Expire
  BY <1>3 DEF Expire, huntVars, HuntTypeOK
<1>4. ASSUME NEW c \in reads, Answer(c) PROVE TypeOK'
  <2>1. PICK outcomes \in SUBSET resolved : Settle(c.roundId, Considered(c), outcomes)
    BY <1>4 DEF Answer
  <2>2. c.roundId \in Nat /\ Considered(c) \in SUBSET Forecast /\ outcomes \in SUBSET Markets
    BY DEF Read, ForRound, Considered
  <2>3. HuntTypeOK'
    BY <2>1, <2>2, SettleTypes
  <2> QED BY <1>4, <2>3 DEF Answer
<1>5. ASSUME NEW k \in Clicks, ForceClose(k) PROVE TypeOK'
  BY <1>5 DEF ForceClose, Close, huntVars, HuntTypeOK, Status, Read, ForRound
<1>6. ASSUME NEW m \in Markets, TakeForecast(m) PROVE TypeOK'
  BY <1>6 DEF TakeForecast, huntVars, HuntTypeOK, Forecast
<1>7. ASSUME NEW m \in Markets, Resolve(m) PROVE TypeOK'
  BY <1>7 DEF Resolve, huntVars, HuntTypeOK
<1>8. ASSUME NEW pnl \in Pnls, Trade(pnl) PROVE TypeOK'
  BY <1>8 DEF Trade, huntVars, HuntTypeOK
<1>9. CASE UNCHANGED vars
  BY <1>9 DEF vars, huntVars, HuntTypeOK
<1> QED
  BY <1>1, <1>2, <1>3, <1>4, <1>5, <1>6, <1>7, <1>8, <1>9 DEF Next

-----------------------------------------------------------------------------
(* The two steps that touch settlements or forecasts; the others leave both  *)
(* properties to the bookkeeping of rounds.                                 *)
Parts == RoundInv /\ DisplayMatchesSettlement /\ NoForecastLeftOut

LEMMA AnswerParts ==
  ASSUME TypeOK, Parts, NEW c \in reads, Answer(c)
  PROVE  Parts'
<1> DEFINE r == c.roundId
<1>1. PICK outcomes \in SUBSET resolved : Settle(r, ForRound(r), outcomes)
  BY DEF Answer, Parts, RoundInv
<1>2. /\ DOMAIN settled' = DOMAIN settled \cup {r}
      /\ \A x \in DOMAIN settled : settled'[x] = settled[x]
      /\ r \notin DOMAIN settled => settled'[r].forecasts = ForRound(r)
      /\ index' = index
      /\ status' = IF r \notin DOMAIN settled /\ index = r THEN "SETTLED" ELSE status
  BY <1>1, SettleKeeps
<1>3. /\ r \in 1 .. index /\ index \in Nat /\ r \in Nat
      /\ r = index => status \in {"SCORING", "SETTLED"}
  BY DEF Parts, RoundInv, TypeOK, HuntTypeOK, Read
<1>4. reads' \subseteq reads /\ forecasts' = forecasts
  BY DEF Answer
<1>5. RoundInv'
  BY <1>2, <1>3, <1>4 DEF Parts, RoundInv, Considered, ForRound
<1>6. DisplayMatchesSettlement'
  BY <1>2, <1>3 DEF Parts, DisplayMatchesSettlement
<1>7. NoForecastLeftOut'
  BY <1>2, <1>4 DEF Parts, NoForecastLeftOut, ForRound
<1> QED BY <1>5, <1>6, <1>7 DEF Parts

LEMMA TakeForecastParts ==
  ASSUME TypeOK, Parts, NEW m \in Markets, TakeForecast(m)
  PROVE  Parts'
<1>1. /\ status = "OPEN" /\ status' = status /\ index' = index /\ settled' = settled
      /\ reads' = reads
      /\ forecasts' = forecasts \cup {[marketId |-> m, roundId |-> index]}
  BY DEF TakeForecast, huntVars
<1>2. index \in Nat /\ index \notin DOMAIN settled
  BY <1>1 DEF Parts, DisplayMatchesSettlement, TypeOK, HuntTypeOK
<1>3. \A x \in Nat : x # index => ForRound(x)' = ForRound(x)
  BY <1>1 DEF ForRound
<1>4. \A x \in DOMAIN settled : ForRound(x)' = ForRound(x)
  BY <1>1, <1>2, <1>3 DEF TypeOK, HuntTypeOK
<1>6. \A c \in reads : c.roundId \in Nat /\ c.roundId # index
  BY <1>1 DEF Parts, RoundInv, TypeOK, Read
<1>7. \A c \in reads : Considered(c)' = ForRound(c.roundId)'
  BY <1>1, <1>3, <1>6 DEF Parts, RoundInv, Considered
<1>8. RoundInv'
  BY <1>1, <1>2, <1>7 DEF Parts, RoundInv
<1>5. NoForecastLeftOut'
  BY <1>1, <1>4 DEF Parts, NoForecastLeftOut
<1> QED BY <1>1, <1>5, <1>8 DEF Parts, DisplayMatchesSettlement

LEMMA PartsStep ==
  ASSUME TypeOK, Parts, [Next]_vars
  PROVE  Parts'
<1> USE DEF Parts, RoundInv, DisplayMatchesSettlement, NoForecastLeftOut, ForRound, Considered
<1>t. /\ index \in Nat /\ DOMAIN settled \subseteq Nat
      /\ \A c \in reads : c.roundId \in Nat
      /\ \A f \in forecasts : f.roundId \in Nat
  BY DEF TypeOK, HuntTypeOK, Read, Forecast
<1>1. CASE TickOpen
  <2>1. /\ index' = index + 1 /\ status' = "OPEN" /\ settled' = settled
        /\ reads' = reads /\ forecasts' = forecasts
    BY <1>1 DEF TickOpen, Open
  <2>2. index + 1 \notin DOMAIN settled
    BY <1>t
  <2> QED BY <1>t, <2>1, <2>2
<1>2. CASE TickDue
  BY <1>t, <1>2 DEF TickDue, Close
<1>3. ASSUME NEW k \in Clicks, ForceClose(k) PROVE Parts'
  <2>1. index' = index /\ settled' = settled /\ forecasts' = forecasts
    BY <1>3 DEF ForceClose, Close, huntVars
  <2>2. \/ status = "OPEN" /\ status' = "SCORING"
        \/ status \in {"SCORING", "SETTLED"} /\ status' = status
    BY <1>3 DEF ForceClose, Close, huntVars, TypeOK, HuntTypeOK, Status
  <2>3. reads' = reads \cup {[by |-> k, roundId |-> index, miraPnlUsd |-> miraPnlUsd,
                                    forecasts |-> ForRound(index)]}
    BY <1>3 DEF ForceClose
  <2>4. index \in 1 .. index
    BY <1>t, <2>2
  <2> QED BY <1>t, <2>1, <2>2, <2>3, <2>4
<1>4. CASE UNCHANGED <<index, status, settled, reads, forecasts>>
  BY <1>4
<1> QED
  BY <1>1, <1>2, <1>3, <1>4, AnswerParts, TakeForecastParts
  DEF Next, Expire, Resolve, Trade, vars, huntVars

LEMMA InitIInv == Init => IInv
<1> SUFFICES ASSUME Init PROVE IInv
  OBVIOUS
<1>1. DOMAIN settled = {} /\ settled \in [DOMAIN settled -> Settlement]
  BY DEF Init, HuntInit
<1>2. journal \in Seq(Nat) /\ status \in Status
  BY DEF Init, HuntInit, Status
<1>3. TypeOK
  <2>1. /\ index \in Nat /\ marketIds \in SUBSET Markets /\ miraPnlUsd \in Int
        /\ rollover \in Nat /\ totalPaid \in Nat
    BY DEF Init, HuntInit
  <2>2. DOMAIN settled \in SUBSET Nat
    BY <1>1
  <2>3. HuntTypeOK
    BY <1>1, <1>2, <2>1, <2>2, Zenon DEF HuntTypeOK
  <2>4. /\ reads \subseteq Read /\ clicked \subseteq Clicks
        /\ forecasts \subseteq Forecast /\ resolved \subseteq Markets
    BY DEF Init
  <2>5. due \in BOOLEAN
    BY Zenon DEF Init
  <2>6. curve \in Int
    BY DEF Init
  <2> QED BY <2>3, <2>4, <2>5, <2>6 DEF TypeOK
<1>4. Parts
  BY <1>1 DEF Init, HuntInit, Parts, RoundInv, DisplayMatchesSettlement, NoForecastLeftOut
<1> QED BY <1>3, <1>4 DEF IInv, Parts

THEOREM Inductive == Spec => []IInv
<1>1. IInv /\ [Next]_vars => IInv'
  BY TypeStep, PartsStep DEF IInv, Parts
<1> QED BY <1>1, InitIInv, PTL DEF Spec

(* Every variable keeps its type, however many rounds are played. *)
THEOREM TypeCorrect == Spec => []TypeOK
  BY Inductive, PTL DEF IInv

(* The displayed status agrees with the settlements (hunt.ts:214-219). *)
THEOREM DisplayCorrect == Spec => []DisplayMatchesSettlement
  BY Inductive, PTL DEF IInv

(* Settlements consider every accepted forecast (server.ts:93-104). *)
THEOREM ForecastsFrozen == Spec => []NoForecastLeftOut
  BY Inductive, PTL DEF IInv

-----------------------------------------------------------------------------
(* The pot: a first settlement adds its earnings to the sum and to what has  *)
(* been paid or rolls forward; nothing else touches either.                 *)
Earnings(s) == [r \in DOMAIN s |-> Earned(s[r].miraPnlUsd)]

LEMMA EarnedNat == ASSUME NEW pnl \in Int PROVE Earned(pnl) \in Nat
  BY DEF Earned

(* Ids are at most index: there are finitely many settlements. *)
LEMMA FinitelySettled ==
  ASSUME TypeOK, RoundInv
  PROVE  IsFiniteSet(DOMAIN settled)
<1>1. DOMAIN settled \subseteq 0 .. index /\ index \in Nat
  BY DEF TypeOK, HuntTypeOK, RoundInv
<1>2. IsFiniteSet(0 .. index)
  BY <1>1, FS_Interval
<1> QED BY <1>1, <1>2, FS_Subset

LEMMA PotStep ==
  ASSUME IInv, PotConserved, [Next]_vars
  PROVE  PotConserved'
<1> USE DEF PotConserved, SumFunction
<1> DEFINE D == DOMAIN settled
           f == Earnings(settled)
<1>1. ASSUME NEW c \in reads, Answer(c) PROVE PotConserved'
  <2> DEFINE r == c.roundId
             g == Earnings(settled')
             pot == Earned(miraPnlUsd) + rollover
  <2>1. PICK outcomes \in SUBSET resolved : Settle(r, Considered(c), outcomes)
    BY <1>1 DEF Answer
  <2>2. CASE r \in D
    BY <2>1, <2>2 DEF Settle
  <2>3. CASE r \notin D
    <3>1. /\ DOMAIN settled' = D \cup {r}
          /\ \A x \in D : settled'[x] = settled[x]
          /\ settled'[r].miraPnlUsd = miraPnlUsd
      <4> DEFINE new == [miraPnlUsd |-> miraPnlUsd, potUsd |-> pot,
                         forecasts |-> Considered(c), outcomes |-> outcomes,
                         scored |-> Scored(Considered(c), outcomes)]
      <4>1. settled' = [x \in D \cup {r} |-> IF x = r THEN new ELSE settled[x]]
        BY <2>1, <2>3 DEF Settle, SettleNew
      <4>2. new.miraPnlUsd = miraPnlUsd
        OBVIOUS
      <4> HIDE DEF new
      <4> QED BY <2>3, <4>1, <4>2
    <3>2. /\ miraPnlUsd \in Int /\ rollover \in Nat /\ totalPaid \in Nat
          /\ \A x \in D : settled[x].miraPnlUsd \in Int
      BY DEF IInv, TypeOK, HuntTypeOK, Settlement
    <3>3. \A x \in D : f[x] \in Int /\ g[x] = f[x]
      BY <3>1, <3>2, EarnedNat DEF Earnings
    <3>4. g[r] = Earned(miraPnlUsd) /\ g[r] \in Nat
      BY <3>1, <3>2, EarnedNat DEF Earnings
    <3>5. IsFiniteSet(D)
      BY FinitelySettled DEF IInv
    <3>6. DOMAIN f = D /\ DOMAIN g = D \cup {r}
      BY <3>1 DEF Earnings
    <3> HIDE DEF f, g, D
    <3>7. SumFunctionOnSet(g, D \cup {r}) = SumFunctionOnSet(f, D) + g[r]
      <4> HIDE DEF r
      <4>1. /\ \A x \in D : f[x] \in Int
            /\ \A x \in D : g[x] = f[x]
            /\ g[r] \in Int
        BY <3>3, <3>4
      <4> QED BY <2>3, <3>5, <4>1, SumAdd, SMTT(30)
    <3>8. totalPaid' + rollover' = totalPaid + rollover + Earned(miraPnlUsd)
      <4>1. \E anyone \in BOOLEAN : PayOrCarry(pot, anyone)
        BY <2>1, <2>3 DEF Settle, SettleNew, D
      <4>2. \/ totalPaid' = totalPaid + pot /\ rollover' = 0
            \/ totalPaid' = totalPaid /\ rollover' = pot
        BY <4>1 DEF PayOrCarry
      <4> QED BY <3>2, <3>4, <4>2
    <3>9. SumFunctionOnSet(f, D) = totalPaid + rollover
      BY <3>6 DEF f, Earnings
    <3>10. SumFunctionOnSet(g, D \cup {r}) = totalPaid' + rollover'
      BY <3>2, <3>4, <3>7, <3>8, <3>9
    <3> QED BY <3>6, <3>10 DEF g, Earnings
  <2> QED BY <2>2, <2>3
<1>2. CASE UNCHANGED <<settled, rollover, totalPaid>>
  BY <1>2
<1> QED
  BY <1>1, <1>2
  DEF Next, TickOpen, Open, TickDue, Close, ForceClose, TakeForecast, Expire, Resolve, Trade,
      vars, huntVars

(* No dollar is paid twice or lost, over any number of rounds (hunt.ts:20-28). *)
THEOREM PotAlwaysConserved == Spec => []PotConserved
<1>1. Init => PotConserved
  <2> SUFFICES ASSUME Init PROVE PotConserved
    OBVIOUS
  <2> DEFINE f == Earnings(settled)
  <2>1. DOMAIN settled = {} /\ totalPaid + rollover = 0
    BY DEF Init, HuntInit
  <2>2. DOMAIN f = {}
    BY <2>1 DEF Earnings
  <2>3. SumFunctionOnSet(f, {}) = 0
    BY SumEmpty
  <2> QED BY <2>1, <2>2, <2>3 DEF PotConserved, SumFunction, Earnings
<1> QED BY <1>1, PotStep, Inductive, PTL DEF Spec

-----------------------------------------------------------------------------
(* Refinement: a first settlement is a step of the ledger, all else a stutter. *)
LEMMA LedgerStep == TypeOK /\ [Next]_vars => [Ledger!LNext]_(Ledger!lvars)
<1> SUFFICES ASSUME TypeOK, [Next]_vars PROVE [Ledger!LNext]_(Ledger!lvars)
  OBVIOUS
<1> USE DEF Ledger!lvars
<1>1. ASSUME NEW c \in reads, Answer(c) PROVE [Ledger!LNext]_(Ledger!lvars)
  <2> DEFINE r == c.roundId
             pot == Earned(miraPnlUsd) + rollover
  <2>1. PICK outcomes \in SUBSET resolved : Settle(r, Considered(c), outcomes)
    BY <1>1 DEF Answer
  <2>2. CASE r \in DOMAIN settled
    BY <2>1, <2>2 DEF Settle
  <2>3. CASE r \notin DOMAIN settled
    <3>1. Ledger!SettleOne
      BY <2>1, <2>3, SettleKeeps DEF Ledger!SettleOne
    <3>2. \E anyone \in BOOLEAN : PayOrCarry(pot, anyone)
      BY <2>1, <2>3 DEF Settle, SettleNew
    <3>3. pot \in Nat /\ pot >= rollover /\ totalPaid \in Nat /\ rollover \in Nat
      BY DEF TypeOK, HuntTypeOK, Earned
    <3>4. \/ rollover' = 0 /\ totalPaid' = totalPaid + pot
          \/ rollover' = pot /\ totalPaid' = totalPaid
      BY <3>2 DEF PayOrCarry
    <3> QED BY <3>1, <3>3, <3>4 DEF Ledger!LNext, Ledger!Carry, Ledger!Pay
  <2> QED BY <2>2, <2>3
<1>2. CASE UNCHANGED <<settled, rollover, totalPaid>>
  BY <1>2
<1> QED
  BY <1>1, <1>2
  DEF Next, TickOpen, Open, TickDue, Close, ForceClose, TakeForecast, Expire, Resolve, Trade,
      vars, huntVars

(* Settled once, pot paid or carried whole (settle, hunt.ts:148-222). *)
THEOREM RefinesPotLedger == Spec => ImplementsPotLedger
<1>1. Init => Ledger!LInit
  BY DEF Init, HuntInit, Ledger!LInit
<1> QED
  BY <1>1, LedgerStep, TypeCorrect, PTL DEF Spec, ImplementsPotLedger, Ledger!LSpec

-----------------------------------------------------------------------------
(* The web feed, from the bus to the page.                                  *)

(* What a store and a page may hold, the events, and the frames.             *)
RoundViews == [id : Nat, status : {"none", "OPEN", "SCORING", "SETTLED"}]
Lists == [FeedMarkets -> [n : Nat, key : Int]]
Views ==
  [vals : Lists, round : RoundViews, board : Nat, quips : Seq(Nat), cleared : BOOLEAN]
Pages == [data : Views, hydrated : BOOLEAN, connected : BOOLEAN]

Valuations == [t : {"valuation"}, market : FeedMarkets, n : Nat \ {0}]
RoundEvents == [t : {"round"}, id : Nat, status : {"OPEN", "SCORING", "SETTLED"}, n : Nat]
Settlements == [t : {"settlement"}, id : Nat, n : Nat]
Numbered == [t : {"quip", "kill"}, n : Nat]
Events == Valuations \cup RoundEvents \cup Settlements \cup Numbered

WireFrames == [t : {"open"}] \cup [t : {"snapshot"}, d : Views] \cup [t : {"ev"}, d : Events]

View(vals, round, board, quips, cleared) ==
  [vals |-> vals, round |-> round, board |-> board, quips |-> quips, cleared |-> cleared]

(* A view and its parts. *)
LEMMA ViewFields ==
  ASSUME NEW vals, NEW r, NEW b, NEW q, NEW c
  PROVE  /\ View(vals, r, b, q, c).vals = vals /\ View(vals, r, b, q, c).round = r
         /\ View(vals, r, b, q, c).board = b /\ View(vals, r, b, q, c).quips = q
         /\ View(vals, r, b, q, c).cleared = c
BY DEF View

LEMMA ViewTypes ==
  /\ \A vals \in Lists, round \in RoundViews, board \in Nat, quips \in Seq(Nat), cleared \in BOOLEAN :
       View(vals, round, board, quips, cleared) \in Views
  /\ \A s \in Views : /\ s.vals \in Lists /\ s.round \in RoundViews
                      /\ s.board \in Nat /\ s.quips \in Seq(Nat) /\ s.cleared \in BOOLEAN
BY DEF View, Views

(* The kept quips stay a list of numbers. *)
LEMMA NewestType ==
  ASSUME NEW list \in Seq(Nat), NEW x \in Nat
  PROVE  Newest(list, x) \in Seq(Nat)
<1> DEFINE m == IF Len(list) < QuipCap THEN Len(list) + 1 ELSE QuipCap
           s == <<x>> \o list
<1>1. s \in Seq(Nat) /\ Len(s) = Len(list) + 1 /\ Len(list) \in Nat
  OBVIOUS
<1>2. m \in Nat /\ m <= Len(s)
  BY <1>1, FeedAssumption
<1> HIDE DEF m, s
<1>3. SubSeq(s, 1, m) \in Seq(Nat)
  <2>1. \A i \in 1 .. m : s[i] \in Nat
    BY <1>1, <1>2
  <2> QED BY <1>1, <1>2, <2>1
<1> QED BY <1>3 DEF Newest, m, s

(* The kinds of events. *)
LEMMA EventKinds ==
  ASSUME NEW e \in Events
  PROVE  \/ e.t = "valuation" /\ e.market \in FeedMarkets /\ e.n \in Nat \ {0}
         \/ e.t = "round" /\ e.id \in Nat /\ e.status \in {"OPEN", "SCORING", "SETTLED"}
         \/ e.t = "settlement" /\ e.n \in Nat
         \/ e.t \in {"quip", "kill"} /\ e.n \in Nat
BY DEF Events, Valuations, RoundEvents, Settlements, Numbered

(* Both lists of valuations keep their type, and what they say of each market. *)
LEMMA PutIs ==
  ASSUME NEW vals \in Lists, NEW e, e.market \in FeedMarkets, e.n \in Nat
  PROVE  /\ Put(vals, e) \in Lists
         /\ \A m \in FeedMarkets : Put(vals, e)[m].n = IF m = e.market THEN e.n ELSE vals[m].n
<1>1. -e.n \in Int /\ vals[e.market].key \in Int
  BY DEF Lists
<1> QED BY <1>1 DEF Put, Lists

LEMMA FrontedIs ==
  ASSUME NEW vals \in Lists, NEW e, e.market \in FeedMarkets, e.n \in Nat
  PROVE  /\ Fronted(vals, e) \in Lists
         /\ \A m \in FeedMarkets : Fronted(vals, e)[m].n # 0 =>
              Fronted(vals, e)[m].n = IF m = e.market THEN e.n ELSE vals[m].n
<1> DEFINE w == [vals EXCEPT ![e.market] = [n |-> e.n, key |-> e.n]]
<1>1. w \in Lists /\ \A m \in FeedMarkets : w[m].n = IF m = e.market THEN e.n ELSE vals[m].n
  BY DEF Lists
<1>2. Unvalued \in [n : Nat, key : Int] /\ Unvalued.n = 0
  BY DEF Unvalued
<1>3. Fronted(vals, e) = Cut(w)
  BY DEF Fronted
<1> HIDE DEF w
<1>4. \A m \in FeedMarkets : Cut(w)[m] = w[m] \/ Cut(w)[m] = Unvalued
  BY DEF Cut
<1>5. Cut(w) \in Lists
  BY <1>1, <1>2 DEF Cut, Lists
<1> QED BY <1>1, <1>2, <1>3, <1>4, <1>5

(* What the store makes of each kind. *)
LEMMA StoredIs ==
  ASSUME NEW s \in Views, NEW e \in Events
  PROVE  /\ e.t = "valuation" =>
              Stored(s, e) = View(Put(s.vals, e), s.round, s.board, s.quips, s.cleared)
         /\ e.t = "round" =>
              Stored(s, e) = View(s.vals, [id |-> e.id, status |-> e.status], s.board, s.quips, FALSE)
         /\ e.t = "settlement" => Stored(s, e) = View(s.vals, s.round, e.n, s.quips, TRUE)
         /\ e.t = "quip" => Stored(s, e) = View(s.vals, s.round, s.board, Newest(s.quips, e.n), s.cleared)
         /\ e.t = "kill" => Stored(s, e) = s
<1>1. CASE e.t = "valuation"
  BY <1>1 DEF Stored, Views, View
<1>2. CASE e.t = "round"
  BY <1>2 DEF Stored, Views, View
<1>3. CASE e.t = "settlement"
  BY <1>3 DEF Stored, Views, View
<1>4. CASE e.t = "quip"
  BY <1>4 DEF Stored, Views, View
<1>5. CASE e.t = "kill"
  BY <1>5 DEF Stored
<1> QED BY <1>1, <1>2, <1>3, <1>4, <1>5, EventKinds

(* A store keeps its type. *)
LEMMA StoredType ==
  ASSUME NEW s \in Views, NEW e \in Events
  PROVE  Stored(s, e) \in Views
<1>0. /\ s.vals \in Lists /\ s.round \in RoundViews
      /\ s.board \in Nat /\ s.quips \in Seq(Nat) /\ s.cleared \in BOOLEAN
  BY ViewTypes
<1>1. CASE e.t = "valuation"
  <2>1. Put(s.vals, e) \in Lists
    BY <1>0, <1>1, EventKinds, PutIs
  <2>2. Stored(s, e) = View(Put(s.vals, e), s.round, s.board, s.quips, s.cleared)
    BY <1>1, StoredIs
  <2> QED BY <1>0, <2>1, <2>2 DEF View, Views
<1>2. CASE e.t = "round"
  <2>1. [id |-> e.id, status |-> e.status] \in RoundViews
    BY <1>2, EventKinds DEF RoundViews
  <2>2. Stored(s, e) = View(s.vals, [id |-> e.id, status |-> e.status], s.board, s.quips, FALSE)
    BY <1>2, StoredIs
  <2> QED BY <1>0, <2>1, <2>2 DEF View, Views
<1>3. CASE e.t = "settlement"
  <2>1. e.n \in Nat
    BY <1>3, EventKinds
  <2>2. Stored(s, e) = View(s.vals, s.round, e.n, s.quips, TRUE)
    BY <1>3, StoredIs
  <2> QED BY <1>0, <2>1, <2>2 DEF View, Views
<1>4. CASE e.t = "quip"
  <2>1. Newest(s.quips, e.n) \in Seq(Nat)
    BY <1>0, <1>4, EventKinds, NewestType
  <2>2. Stored(s, e) = View(s.vals, s.round, s.board, Newest(s.quips, e.n), s.cleared)
    BY <1>4, StoredIs
  <2> QED BY <1>0, <2>1, <2>2 DEF View, Views
<1>5. CASE e.t = "kill"
  BY <1>5, StoredIs
<1> QED BY <1>1, <1>2, <1>3, <1>4, <1>5, EventKinds

(* What the page makes of each kind. *)
LEMMA FoldedIs ==
  ASSUME NEW v \in Views, NEW e \in Events
  PROVE  /\ e.t \notin {"valuation", "settlement"} => Folded(v, e) = Stored(v, e)
         /\ e.t = "valuation" =>
              Folded(v, e) = View(Fronted(v.vals, e), v.round, v.board, v.quips, v.cleared)
         /\ e.t = "settlement" => Folded(v, e) = View(v.vals, NoRound, e.n, v.quips, TRUE)
         /\ Folded(v, e) \in Views
<1>0. /\ v.vals \in Lists /\ v.round \in RoundViews
      /\ v.board \in Nat /\ v.quips \in Seq(Nat) /\ v.cleared \in BOOLEAN /\ TRUE \in BOOLEAN
  BY ViewTypes
<1>1. CASE e.t \notin {"valuation", "settlement"}
  BY <1>1, StoredType DEF Folded
<1>2. CASE e.t = "valuation"
  <2>1. Folded(v, e) = View(Fronted(v.vals, e), v.round, v.board, v.quips, v.cleared)
    BY <1>2 DEF Folded, Views, View
  <2>2. Fronted(v.vals, e) \in Lists
    BY <1>0, <1>2, EventKinds, FrontedIs
  <2>3. Folded(v, e) \in Views
    BY <1>0, <2>1, <2>2 DEF View, Views
  <2> QED BY <1>2, <2>1, <2>3
<1>3. CASE e.t = "settlement"
  <2>1. Stored(v, e) = View(v.vals, v.round, e.n, v.quips, TRUE)
    BY <1>3, StoredIs
  <2>2. Folded(v, e) = View(v.vals, NoRound, e.n, v.quips, TRUE)
    <3> DEFINE u == Stored(v, e)
    <3>1. Folded(v, e) = [u EXCEPT !.round = NoRound] /\ u \in Views
      BY <1>3, StoredType DEF Folded
    <3>0. u = View(v.vals, v.round, e.n, v.quips, TRUE)
      BY <2>1
    <3> HIDE DEF u
    <3>2. u.vals = v.vals /\ u.board = e.n /\ u.quips = v.quips /\ u.cleared = TRUE
      BY <3>0 DEF View
    <3>3. [u EXCEPT !.round = NoRound] = View(u.vals, NoRound, u.board, u.quips, u.cleared)
      BY <3>1 DEF Views, View
    <3> QED BY <3>1, <3>2, <3>3
  <2>3. NoRound \in RoundViews
    BY DEF NoRound, RoundViews
  <2>4. e.n \in Nat
    BY <1>3, EventKinds
  <2>5. Folded(v, e) \in Views
    BY <1>0, <2>2, <2>3, <2>4 DEF View, Views
  <2> QED BY <1>3, <2>2, <2>5
<1> QED BY <1>1, <1>2, <1>3

(* Of the markets the store values the page misses some only when they are more than   *)
(* it keeps.                                                                          *)
Told(v, s) ==
  /\ \A m \in Valued(v) : v[m].n = s[m].n
  /\ Valued(v) # Valued(s) => Cardinality(Valued(s)) > ValCap

(* A valuation that comes in front, and what it cuts off the end. *)
LEMMA ToldStep ==
  ASSUME NEW v \in Lists, NEW s \in Lists, Told(v, s),
         NEW e, e.market \in FeedMarkets, e.n \in Nat \ {0}
  PROVE  Told(Fronted(v, e), Put(s, e))
<1> DEFINE f == Fronted(v, e)
           p == Put(s, e)
           w == [v EXCEPT ![e.market] = [n |-> e.n, key |-> e.n]]
<1>1. /\ f \in Lists /\ p \in Lists
      /\ \A m \in FeedMarkets : f[m].n # 0 => f[m].n = IF m = e.market THEN e.n ELSE v[m].n
      /\ \A m \in FeedMarkets : p[m].n = IF m = e.market THEN e.n ELSE s[m].n
  BY FrontedIs, PutIs
<1>2. \A m \in FeedMarkets : w[m].n = IF m = e.market THEN e.n ELSE v[m].n
  BY DEF Lists
<1>3. \A m \in FeedMarkets : f[m] = IF Cardinality(Ahead(w, m)) < ValCap THEN w[m] ELSE Unvalued
  BY DEF Fronted, Cut
<1> HIDE DEF f, p, w
<1>4. \A m \in Valued(f) : f[m].n = p[m].n
  BY <1>1 DEF Valued, Told
<1>5. IsFiniteSet(Valued(p)) /\ Valued(s) \subseteq Valued(p) /\ Valued(f) \subseteq Valued(w)
  <2>1. Valued(p) \in SUBSET FeedMarkets
    BY DEF Valued
  <2>2. IsFiniteSet(Valued(p))
    BY <2>1, FeedAssumption, FS_Subset
  <2>3. Valued(s) \subseteq Valued(p)
    BY <1>1 DEF Valued
  <2>4. Valued(f) \subseteq Valued(w)
    BY <1>1, <1>2 DEF Valued
  <2> QED BY <2>2, <2>3, <2>4
<1>6. Cardinality(Valued(p)) \in Nat
  BY <1>5, FS_CardinalityType
<1>7. ASSUME Valued(v) # Valued(s) PROVE Cardinality(Valued(p)) > ValCap
  <2>1. Cardinality(Valued(s)) > ValCap
    BY <1>7 DEF Told
  <2>2. Cardinality(Valued(s)) <= Cardinality(Valued(p)) /\ Cardinality(Valued(s)) \in Nat
    BY <1>5, FS_Subset, FS_CardinalityType
  <2> QED BY <1>6, <2>1, <2>2, FeedAssumption
<1>8. ASSUME Valued(v) = Valued(s), Valued(f) # Valued(p) PROVE Cardinality(Valued(p)) > ValCap
  <2>1. Valued(w) = Valued(p)
    BY <1>1, <1>2, <1>8 DEF Valued
  <2>2. PICK x \in Valued(w) : x \notin Valued(f)
    BY <1>5, <1>8, <2>1
  <2>3. x \in FeedMarkets /\ w[x].n # 0 /\ f[x].n = 0
    BY <2>2 DEF Valued
  <2>4. ~(Cardinality(Ahead(w, x)) < ValCap)
    BY <1>3, <2>3
  <2>5. Ahead(w, x) \cup {x} \in SUBSET Valued(p) /\ Ahead(w, x) \in SUBSET Valued(p)
    BY <2>1, <2>2 DEF Ahead
  <2>6. x \notin Ahead(w, x)
    <3>1. w[x].key \in Int
      <4>1. w \in Lists
        BY DEF w, Lists
      <4> QED BY <2>3, <4>1 DEF Lists
    <3> QED BY <3>1 DEF Ahead
  <2>7. IsFiniteSet(Ahead(w, x)) /\ Cardinality(Ahead(w, x)) \in Nat
    BY <1>5, <2>5, FS_Subset, FS_CardinalityType
  <2>8. Cardinality(Ahead(w, x) \cup {x}) = Cardinality(Ahead(w, x)) + 1
    BY <2>6, <2>7, FS_AddElement
  <2>9. Cardinality(Ahead(w, x) \cup {x}) <= Cardinality(Valued(p))
    BY <1>5, <2>5, FS_Subset
  <2> QED BY <1>6, <2>4, <2>7, <2>8, <2>9, FeedAssumption
<1>9. Told(f, p)
  BY <1>4, <1>7, <1>8 DEF Told
<1> QED BY <1>9 DEF f, p

(* Same, by its parts. *)
LEMMA SameParts ==
  ASSUME NEW v, NEW s
  PROVE  Same(v, s) <=> /\ v.board = s.board /\ v.quips = s.quips /\ Told(v.vals, s.vals)
                        /\ v.round = s.round \/ (s.cleared /\ v.round = NoRound)
BY DEF Same, Told

LEMMA SameViews ==
  ASSUME NEW v, NEW r, NEW b, NEW q, NEW c, NEW sv, NEW sr, NEW sc,
         Told(v, sv), r = sr \/ (sc /\ r = NoRound)
  PROVE  Same(View(v, r, b, q, c), View(sv, sr, b, q, sc))
<1> DEFINE x == View(v, r, b, q, c)
           y == View(sv, sr, b, q, sc)
<1>1. x.vals = v /\ x.round = r /\ x.board = b /\ x.quips = q
  BY ViewFields
<1>2. y.vals = sv /\ y.round = sr /\ y.board = b /\ y.quips = q /\ y.cleared = sc
  BY ViewFields
<1> HIDE DEF x, y
<1>3. Same(x, y)
  BY <1>1, <1>2, SameParts
<1> QED BY <1>3 DEF x, y

(* The same event keeps a page and a store alike. *)
LEMMA StepAlike ==
  ASSUME NEW v \in Views, NEW s \in Views, NEW e \in Events, Same(v, s)
  PROVE  Same(Folded(v, e), Stored(s, e))
<1>0. /\ v.vals \in Lists /\ s.vals \in Lists
      /\ v.board = s.board /\ v.quips = s.quips /\ Told(v.vals, s.vals)
      /\ v.round = s.round \/ (s.cleared /\ v.round = NoRound)
  BY ViewTypes, SameParts
<1>1. CASE e.t = "valuation"
  <2>1. /\ Folded(v, e) = View(Fronted(v.vals, e), v.round, v.board, v.quips, v.cleared)
        /\ Stored(s, e) = View(Put(s.vals, e), s.round, s.board, s.quips, s.cleared)
    BY <1>1, StoredIs, FoldedIs
  <2>2. Told(Fronted(v.vals, e), Put(s.vals, e))
    BY <1>0, <1>1, EventKinds, ToldStep
  <2> QED BY <1>0, <2>1, <2>2, SameViews
<1>2. CASE e.t = "round"
  <2> DEFINE r == [id |-> e.id, status |-> e.status]
  <2>1. /\ Folded(v, e) = View(v.vals, r, v.board, v.quips, FALSE)
        /\ Stored(s, e) = View(s.vals, r, s.board, s.quips, FALSE)
    <3>1. Folded(v, e) = Stored(v, e)
      BY <1>2, FoldedIs
    <3>2. Stored(v, e) = View(v.vals, r, v.board, v.quips, FALSE)
      BY <1>2, StoredIs
    <3>3. Stored(s, e) = View(s.vals, r, s.board, s.quips, FALSE)
      BY <1>2, StoredIs
    <3> QED BY <3>1, <3>2, <3>3
  <2> HIDE DEF r
  <2> QED BY <1>0, <2>1, SameViews
<1>3. CASE e.t = "settlement"
  <2>1. /\ Folded(v, e) = View(v.vals, NoRound, e.n, v.quips, TRUE)
        /\ Stored(s, e) = View(s.vals, s.round, e.n, s.quips, TRUE)
    BY <1>3, StoredIs, FoldedIs
  <2> QED BY <1>0, <2>1, SameViews
<1>4. CASE e.t = "quip"
  <2>1. /\ Folded(v, e) = View(v.vals, v.round, v.board, Newest(v.quips, e.n), v.cleared)
        /\ Stored(s, e) = View(s.vals, s.round, s.board, Newest(s.quips, e.n), s.cleared)
    BY <1>4, StoredIs, FoldedIs
  <2> QED BY <1>0, <2>1, SameViews
<1>5. CASE e.t = "kill"
  BY <1>5, StoredIs, FoldedIs
<1> QED BY <1>1, <1>2, <1>3, <1>4, <1>5, EventKinds

-----------------------------------------------------------------------------
(* Both sides as folds: a store of events, a page of frames.                  *)
Storing == [p \in Views \X Events |-> Stored(p[1], p[2])]
Applying == [p \in Pages \X WireFrames |-> Applied(p[1], p[2])]

(* Store is the fold of a step that keeps its type. *)
LEMMA StoringTypes ==
  /\ \A s \in Views, e \in Events : Storing[<<s, e>>] = Stored(s, e)
  /\ Storing \in [Views \X Events -> Views]
<1>1. \A s \in Views, e \in Events : Storing[<<s, e>>] = Stored(s, e)
  BY DEF Storing
<1>2. Storing \in [Views \X Events -> Views]
  BY StoredType DEF Storing
<1> QED BY <1>1, <1>2

(* The kinds of frames. *)
LEMMA FrameKinds ==
  ASSUME NEW f \in WireFrames
  PROVE  \/ f.t = "open"
         \/ f.t = "snapshot" /\ f.d \in Views
         \/ f.t = "ev" /\ f.d \in Events
BY DEF WireFrames

(* A page keeps its type. *)
LEMMA AppliedType ==
  ASSUME NEW p \in Pages, NEW f \in WireFrames
  PROVE  Applied(p, f) \in Pages
<1>0. p.data \in Views /\ p.hydrated \in BOOLEAN /\ p.connected \in BOOLEAN
  BY DEF Pages
<1>1. CASE f.t = "open"
  BY <1>0, <1>1 DEF Applied, Pages
<1>2. CASE f.t = "snapshot"
  <2>1. f.d \in Views
    BY <1>2, FrameKinds
  <2> QED BY <1>2, <2>1 DEF Applied, Pages, Hydrated
<1>3. CASE f.t = "ev"
  <2>1. Folded(p.data, f.d) \in Views
    BY <1>0, <1>3, FrameKinds, FoldedIs
  <2> QED BY <1>0, <1>3, <2>1 DEF Applied, Pages
<1> QED BY <1>1, <1>2, <1>3, FrameKinds

(* And so is what the page makes of the frames. *)
LEMMA ApplyingTypes ==
  /\ \A p \in Pages, f \in WireFrames : Applying[<<p, f>>] = Applied(p, f)
  /\ Applying \in [Pages \X WireFrames -> Pages]
<1>1. \A p \in Pages, f \in WireFrames : Applying[<<p, f>>] = Applied(p, f)
  BY DEF Applying
<1>2. Applying \in [Pages \X WireFrames -> Pages]
  BY AppliedType DEF Applying
<1> QED BY <1>1, <1>2

StoredFold(base, seq) == CHOOSE iter : iter = [s \in SUBSET DOMAIN seq |->
  IF s = {} THEN base ELSE LET x == Max(s) IN Stored(iter[s \ {x}], seq[x])]

(* FoldLeft of Store's step, as a folding. *)
LEMMA StoredIsFold ==
  ASSUME NEW base \in Views, NEW seq \in Seq(Events)
  PROVE  FoldLeft(Stored, base, seq) = Folding(Storing, base, seq)
<1> DEFINE n == Len(seq)
           g == StoredFold(base, seq)
           Step(h, s) == IF s = {} THEN base ELSE Stored(h[s \ {Max(s)}], seq[Max(s)])
<1>1. FoldLeft(Stored, base, seq) = g[DOMAIN seq]
  BY DEF FoldLeft, MapThenFoldSet, StoredFold
<1>2. n \in Nat /\ DOMAIN seq = 1 .. n /\ \A k \in 1 .. n : seq[k] \in Events
  OBVIOUS
<1> HIDE DEF g, Step
<1>3. IsStep(Storing, Views, Events) /\ Storing \in [Views \X Events -> Views]
  BY StoringTypes DEF IsStep
<1>4. PICK f : IsFold(f, Views, Storing, base, seq)
  BY <1>3, FoldsExist
<1>5. /\ f \in [SUBSET (1 .. n) -> Views]
      /\ \A s \in SUBSET (1 .. n) : f[s] = FoldStep(f, Storing, base, seq, s)
  BY <1>4 DEF IsFold
<1>6. \A s \in SUBSET (1 .. n) : f[s] = Step(f, s)
  <2> SUFFICES ASSUME NEW s \in SUBSET (1 .. n) PROVE f[s] = Step(f, s)
    OBVIOUS
  <2>1. CASE s = {}
    BY <1>5, <2>1 DEF FoldStep, Step
  <2>2. CASE s # {}
    <3>1. Max(s) \in s
      BY <1>2, <2>2, MaxOfRange
    <3>2. f[s \ {Max(s)}] \in Views /\ seq[Max(s)] \in Events
      BY <1>2, <1>5, <3>1
    <3> QED BY <1>5, <2>2, <3>2, StoringTypes DEF FoldStep, Step
  <2> QED BY <2>1, <2>2
<1>7. f = [s \in SUBSET DOMAIN seq |-> Step(f, s)]
  BY <1>2, <1>5, <1>6
<1>8. g = [s \in SUBSET DOMAIN seq |-> Step(g, s)]
  BY <1>7 DEF StoredFold, g, Step
<1> HIDE DEF n
<1>9. g[{}] = base
  BY <1>8 DEF Step
<1>10. \A k \in 0 .. n - 1 : g[1 .. k] \in Views => g[1 .. k + 1] = Storing[<<g[1 .. k], seq[k + 1]>>]
  <2> SUFFICES ASSUME NEW k \in 0 .. n - 1, g[1 .. k] \in Views
               PROVE  g[1 .. k + 1] = Storing[<<g[1 .. k], seq[k + 1]>>]
    OBVIOUS
  <2>1. Max(1 .. k + 1) = k + 1 /\ (1 .. k + 1) \ {k + 1} = 1 .. k
    BY <1>2, MaxOfInterval
  <2>2. k + 1 \in 1 .. k + 1 /\ k + 1 \in 1 .. n /\ 1 .. k + 1 \in SUBSET (1 .. n)
    BY <1>2
  <2>3. 1 .. k + 1 \in SUBSET DOMAIN seq /\ 1 .. k + 1 # {} /\ seq[k + 1] \in Events
    BY <1>2, <2>2
  <2>4. g[1 .. k + 1] = Step(g, 1 .. k + 1)
    BY <1>8, <2>3
  <2>5. g[1 .. k + 1] = Stored(g[1 .. k], seq[k + 1])
    BY <2>1, <2>3, <2>4 DEF Step
  <2> QED BY <2>3, <2>5, StoringTypes
<1>11. TakesInOrder(g, Views, Storing, base, seq)
  BY <1>9, <1>10 DEF TakesInOrder, n
<1>12. AtEnd(g, seq) = Folding(Storing, base, seq)
  BY <1>3, <1>11, FoldReached
<1> QED BY <1>1, <1>2, <1>12 DEF AtEnd, n

AppliedFold(base, seq) == CHOOSE iter : iter = [s \in SUBSET DOMAIN seq |->
  IF s = {} THEN base ELSE LET x == Max(s) IN Applied(iter[s \ {x}], seq[x])]

(* FoldLeft of the page's step, as a folding. *)
LEMMA AppliedIsFold ==
  ASSUME NEW base \in Pages, NEW seq \in Seq(WireFrames)
  PROVE  FoldLeft(Applied, base, seq) = Folding(Applying, base, seq)
<1> DEFINE n == Len(seq)
           g == AppliedFold(base, seq)
           Step(h, s) == IF s = {} THEN base ELSE Applied(h[s \ {Max(s)}], seq[Max(s)])
<1>1. FoldLeft(Applied, base, seq) = g[DOMAIN seq]
  BY DEF FoldLeft, MapThenFoldSet, AppliedFold
<1>2. n \in Nat /\ DOMAIN seq = 1 .. n /\ \A k \in 1 .. n : seq[k] \in WireFrames
  OBVIOUS
<1> HIDE DEF g, Step
<1>3. IsStep(Applying, Pages, WireFrames) /\ Applying \in [Pages \X WireFrames -> Pages]
  BY ApplyingTypes DEF IsStep
<1>4. PICK f : IsFold(f, Pages, Applying, base, seq)
  BY <1>3, FoldsExist
<1>5. /\ f \in [SUBSET (1 .. n) -> Pages]
      /\ \A s \in SUBSET (1 .. n) : f[s] = FoldStep(f, Applying, base, seq, s)
  BY <1>4 DEF IsFold
<1>6. \A s \in SUBSET (1 .. n) : f[s] = Step(f, s)
  <2> SUFFICES ASSUME NEW s \in SUBSET (1 .. n) PROVE f[s] = Step(f, s)
    OBVIOUS
  <2>1. CASE s = {}
    BY <1>5, <2>1 DEF FoldStep, Step
  <2>2. CASE s # {}
    <3>1. Max(s) \in s
      BY <1>2, <2>2, MaxOfRange
    <3>2. f[s \ {Max(s)}] \in Pages /\ seq[Max(s)] \in WireFrames
      BY <1>2, <1>5, <3>1
    <3> QED BY <1>5, <2>2, <3>2, ApplyingTypes DEF FoldStep, Step
  <2> QED BY <2>1, <2>2
<1>7. f = [s \in SUBSET DOMAIN seq |-> Step(f, s)]
  BY <1>2, <1>5, <1>6
<1>8. g = [s \in SUBSET DOMAIN seq |-> Step(g, s)]
  BY <1>7 DEF AppliedFold, g, Step
<1> HIDE DEF n
<1>9. g[{}] = base
  BY <1>8 DEF Step
<1>10. \A k \in 0 .. n - 1 : g[1 .. k] \in Pages => g[1 .. k + 1] = Applying[<<g[1 .. k], seq[k + 1]>>]
  <2> SUFFICES ASSUME NEW k \in 0 .. n - 1, g[1 .. k] \in Pages
               PROVE  g[1 .. k + 1] = Applying[<<g[1 .. k], seq[k + 1]>>]
    OBVIOUS
  <2>1. Max(1 .. k + 1) = k + 1 /\ (1 .. k + 1) \ {k + 1} = 1 .. k
    BY <1>2, MaxOfInterval
  <2>2. k + 1 \in 1 .. k + 1 /\ k + 1 \in 1 .. n /\ 1 .. k + 1 \in SUBSET (1 .. n)
    BY <1>2
  <2>3. 1 .. k + 1 \in SUBSET DOMAIN seq /\ 1 .. k + 1 # {} /\ seq[k + 1] \in WireFrames
    BY <1>2, <2>2
  <2>4. g[1 .. k + 1] = Step(g, 1 .. k + 1)
    BY <1>8, <2>3
  <2>5. g[1 .. k + 1] = Applied(g[1 .. k], seq[k + 1])
    BY <2>1, <2>3, <2>4 DEF Step
  <2> QED BY <2>3, <2>5, ApplyingTypes
<1>11. TakesInOrder(g, Pages, Applying, base, seq)
  BY <1>9, <1>10 DEF TakesInOrder, n
<1>12. AtEnd(g, seq) = Folding(Applying, base, seq)
  BY <1>3, <1>11, FoldReached
<1> QED BY <1>1, <1>2, <1>12 DEF AtEnd, n

-----------------------------------------------------------------------------
(* The page is hydrated and shows what the store holds. *)
Alike(v, s) == v.hydrated /\ Same(v.data, s)

(* What the page will be once the frames in flight have arrived. *)
Shown == Folding(Applying, page, wire)

FeedTypeOK ==
  /\ server \in Views
  /\ page \in Pages
  /\ wire \in Seq(WireFrames)
  /\ published \in Nat
  /\ scoring \in SUBSET Nat

StreamInv == phase = "open" => socket \in clients /\ Alike(Shown, server)

FeedIInv == FeedTypeOK /\ StreamInv

(* The frame of an event. *)
LEMMA EventFrame ==
  ASSUME NEW e \in Events
  PROVE  Event(e) \in WireFrames /\ Event(e).t = "ev" /\ Event(e).d = e
BY DEF Event, WireFrames

(* An event the store takes and the page receives keeps them alike. *)
LEMMA OneAlike ==
  ASSUME NEW v \in Pages, NEW s \in Views, NEW e \in Events, Alike(v, s)
  PROVE  /\ Applying[<<v, Event(e)>>] \in Pages
         /\ Storing[<<s, e>>] \in Views
         /\ Alike(Applying[<<v, Event(e)>>], Storing[<<s, e>>])
<1> DEFINE w == Applied(v, Event(e))
<1>1. Applying[<<v, Event(e)>>] = w /\ w \in Pages
  BY EventFrame, ApplyingTypes, AppliedType
<1>2. Storing[<<s, e>>] = Stored(s, e) /\ Stored(s, e) \in Views
  BY StoringTypes, StoredType
<1>3. v.data \in Views /\ v.hydrated
  BY DEF Alike, Pages
<1>4. Same(Folded(v.data, e), Stored(s, e))
  BY <1>3, StepAlike DEF Alike
<1>5. w.hydrated /\ w.data = Folded(v.data, e)
  BY <1>3, EventFrame DEF Applied, Pages
<1> HIDE DEF w
<1> QED BY <1>1, <1>2, <1>4, <1>5 DEF Alike

(* Events the store takes and the page receives and that keep them alike. *)
KeepsAlike(batch) ==
  /\ batch \in Seq(Events) /\ Frames(batch) \in Seq(WireFrames)
  /\ \A v \in Pages, s \in Views : Alike(v, s) =>
       Alike(Folding(Applying, v, Frames(batch)), Folding(Storing, s, batch))

(* No event, one event, two, and one batch after another keep them alike. *)
LEMMA NoneKeeps == KeepsAlike(<<>>)
<1>1. IsStep(Applying, Pages, WireFrames) /\ IsStep(Storing, Views, Events)
  BY ApplyingTypes, StoringTypes DEF IsStep
<1>2. Frames(<<>>) = <<>> /\ <<>> \in Seq(Events) /\ <<>> \in Seq(WireFrames)
  BY DEF Frames
<1>3. ASSUME NEW v \in Pages, NEW s \in Views
      PROVE  Folding(Applying, v, <<>>) = v /\ Folding(Storing, s, <<>>) = s
  BY <1>1, FoldingEmpty
<1> QED BY <1>2, <1>3 DEF KeepsAlike

LEMMA OneKeeps ==
  ASSUME NEW a \in Events
  PROVE  KeepsAlike(<<a>>)
<1>1. IsStep(Applying, Pages, WireFrames) /\ IsStep(Storing, Views, Events)
  BY ApplyingTypes, StoringTypes DEF IsStep
<1>2. Frames(<<a>>) = <<Event(a)>> /\ Event(a) \in WireFrames
  BY EventFrame DEF Frames
<1>3. <<a>> \in Seq(Events) /\ <<Event(a)>> \in Seq(WireFrames)
  BY <1>2
<1>4. ASSUME NEW v \in Pages, NEW s \in Views, Alike(v, s)
      PROVE  Alike(Folding(Applying, v, <<Event(a)>>), Folding(Storing, s, <<a>>))
  <2>1. /\ Folding(Applying, v, <<Event(a)>>) = Applying[<<v, Event(a)>>]
        /\ Folding(Storing, s, <<a>>) = Storing[<<s, a>>]
    BY <1>1, <1>2, FoldingOne
  <2> QED BY <1>4, <2>1, OneAlike
<1> QED BY <1>2, <1>3, <1>4 DEF KeepsAlike

LEMMA TwoKeep ==
  ASSUME NEW a \in Events, NEW b \in Events
  PROVE  KeepsAlike(<<a, b>>)
<1>1. IsStep(Applying, Pages, WireFrames) /\ IsStep(Storing, Views, Events)
  BY ApplyingTypes, StoringTypes DEF IsStep
<1>2. /\ Frames(<<a, b>>) = <<Event(a), Event(b)>>
      /\ Event(a) \in WireFrames /\ Event(b) \in WireFrames
  BY EventFrame DEF Frames
<1>3. <<a, b>> \in Seq(Events) /\ <<Event(a), Event(b)>> \in Seq(WireFrames)
  BY <1>2
<1>4. ASSUME NEW v \in Pages, NEW s \in Views, Alike(v, s)
      PROVE  Alike(Folding(Applying, v, <<Event(a), Event(b)>>), Folding(Storing, s, <<a, b>>))
  <2> DEFINE w == Applying[<<v, Event(a)>>]
             u == Storing[<<s, a>>]
  <2>1. /\ Folding(Applying, v, <<Event(a), Event(b)>>) = Applying[<<w, Event(b)>>]
        /\ Folding(Storing, s, <<a, b>>) = Storing[<<u, b>>]
    BY <1>1, <1>2, FoldingTwo
  <2>2. w \in Pages /\ u \in Views /\ Alike(w, u)
    BY <1>4, OneAlike
  <2> HIDE DEF w, u
  <2>3. Alike(Applying[<<w, Event(b)>>], Storing[<<u, b>>])
    BY <2>2, OneAlike
  <2> QED BY <2>1, <2>3
<1> QED BY <1>2, <1>3, <1>4 DEF KeepsAlike

LEMMA BothKeep ==
  ASSUME NEW a, NEW b, KeepsAlike(a), KeepsAlike(b)
  PROVE  KeepsAlike(a \o b)
<1>1. IsStep(Applying, Pages, WireFrames) /\ IsStep(Storing, Views, Events)
      /\ Applying \in [Pages \X WireFrames -> Pages] /\ Storing \in [Views \X Events -> Views]
  BY ApplyingTypes, StoringTypes DEF IsStep
<1>2. /\ a \in Seq(Events) /\ Frames(a) \in Seq(WireFrames)
      /\ b \in Seq(Events) /\ Frames(b) \in Seq(WireFrames)
  BY DEF KeepsAlike
<1>3. Frames(a \o b) = Frames(a) \o Frames(b)
  <2> DEFINE c == a \o b
             d == Frames(a) \o Frames(b)
  <2>1. /\ c \in Seq(Events) /\ Len(c) = Len(a) + Len(b)
        /\ \A i \in 1 .. Len(c) : c[i] = IF i <= Len(a) THEN a[i] ELSE b[i - Len(a)]
    BY <1>2
  <2>2. Len(Frames(a)) = Len(a) /\ Len(Frames(b)) = Len(b)
    BY <1>2 DEF Frames
  <2>3. /\ d \in Seq(WireFrames) /\ Len(d) = Len(a) + Len(b)
        /\ \A i \in 1 .. Len(d) :
             d[i] = IF i <= Len(a) THEN Frames(a)[i] ELSE Frames(b)[i - Len(a)]
    <3> DEFINE fa == Frames(a)
               fb == Frames(b)
    <3>1. /\ fa \in Seq(WireFrames) /\ fb \in Seq(WireFrames)
          /\ Len(fa) = Len(a) /\ Len(fb) = Len(b)
      BY <1>2, <2>2
    <3> HIDE DEF fa, fb
    <3>2. /\ fa \o fb \in Seq(WireFrames) /\ Len(fa \o fb) = Len(a) + Len(b)
          /\ \A i \in 1 .. Len(fa \o fb) :
               (fa \o fb)[i] = IF i <= Len(a) THEN fa[i] ELSE fb[i - Len(a)]
      BY <3>1
    <3> QED BY <3>2 DEF fa, fb
  <2>4. Len(a) \in Nat /\ Len(b) \in Nat /\ DOMAIN a = 1 .. Len(a) /\ DOMAIN b = 1 .. Len(b)
    BY <1>2
  <2> HIDE DEF c, d
  <2>5. /\ DOMAIN c = 1 .. Len(a) + Len(b) /\ DOMAIN d = 1 .. Len(a) + Len(b)
        /\ d = [i \in DOMAIN d |-> d[i]]
    BY <2>1, <2>3
  <2>6. \A i \in 1 .. Len(a) + Len(b) : d[i] = Event(c[i])
    <3> SUFFICES ASSUME NEW i \in 1 .. Len(a) + Len(b) PROVE d[i] = Event(c[i])
      OBVIOUS
    <3>1. CASE i <= Len(a)
      <4>1. i \in DOMAIN a
        BY <2>4, <3>1
      <4> QED BY <2>1, <2>3, <3>1, <4>1 DEF Frames
    <3>2. CASE ~(i <= Len(a))
      <4>1. i - Len(a) \in DOMAIN b
        BY <2>4, <3>2
      <4> QED BY <2>1, <2>3, <3>2, <4>1 DEF Frames
    <3> QED BY <3>1, <3>2
  <2>7. Frames(c) = d
    BY <2>5, <2>6 DEF Frames
  <2> QED BY <2>7 DEF c, d
<1>4. a \o b \in Seq(Events) /\ Frames(a) \o Frames(b) \in Seq(WireFrames)
  BY <1>2
<1>5. ASSUME NEW v \in Pages, NEW s \in Views, Alike(v, s)
      PROVE  Alike(Folding(Applying, v, Frames(a) \o Frames(b)), Folding(Storing, s, a \o b))
  <2> DEFINE w == Folding(Applying, v, Frames(a))
             u == Folding(Storing, s, a)
  <2>1. w \in Pages /\ u \in Views
    BY <1>1, <1>2, FoldingType
  <2>2. Alike(w, u)
    BY <1>5 DEF KeepsAlike
  <2>3. /\ Folding(Applying, v, Frames(a) \o Frames(b)) = Folding(Applying, w, Frames(b))
        /\ Folding(Storing, s, a \o b) = Folding(Storing, u, b)
    BY <1>1, <1>2, FoldingConcat
  <2> HIDE DEF w, u
  <2> QED BY <2>1, <2>2, <2>3 DEF KeepsAlike
<1> QED BY <1>3, <1>4, <1>5 DEF KeepsAlike

(* And so does each batch the program publishes. *)
LEMMA BatchAlike ==
  ASSUME server \in Views, scoring \in SUBSET Nat, NEW n \in Nat \ {0}, NEW batch \in Batches(n)
  PROVE  KeepsAlike(batch)
<1> DEFINE killed == [t |-> "kill", n |-> n]
           settlementOf(id) == [t |-> "settlement", id |-> id, n |-> n]
           valuation(m) == [t |-> "valuation", market |-> m, n |-> n]
<1>0. RoundId \in Nat /\ 2 * n \in Nat /\ 2 * n + 1 \in Nat /\ n \in Nat
  BY DEF RoundId, Views, RoundViews
<1>1. \A k \in Nat : Quip(k) \in Events
  BY DEF Quip, Events, Numbered
<1>2. \A m \in FeedMarkets : valuation(m) \in Events
  BY DEF Events, Valuations
<1>3. killed \in Events /\ \A id \in Nat : settlementOf(id) \in Events
  BY <1>0 DEF Events, Numbered, Settlements
<1>4. \A id \in Nat, st \in {"OPEN", "SCORING", "SETTLED"} : Round(id, st, n) \in Events
  BY <1>0 DEF Round, Events, RoundEvents
<1> HIDE DEF killed, settlementOf, valuation
<1>b. \A x, y \in Events : KeepsAlike(<<x, y>>)
  BY TwoKeep
<1>5. ASSUME NEW m \in FeedMarkets, batch = <<valuation(m)>> PROVE KeepsAlike(batch)
  BY <1>2, <1>5, OneKeeps
<1>6. CASE batch = <<Quip(2 * n), killed>>
  BY <1>0, <1>1, <1>3, <1>6, <1>b
<1>7. CASE batch = <<Quip(2 * n), Round(n, "OPEN", n)>>
  BY <1>0, <1>1, <1>4, <1>7, <1>b
<1>8. CASE batch = <<Round(RoundId, "SCORING", n)>>
  BY <1>0, <1>4, <1>8, OneKeeps
<1>9. ASSUME NEW id \in scoring, batch \in Settling(id, n) PROVE KeepsAlike(batch)
  <2> DEFINE first == IF id = RoundId THEN <<Quip(2 * n), Round(id, "SETTLED", n)>> ELSE <<>>
  <2>1. PICK paid \in {<<>>, <<Quip(2 * n + 1)>>} : batch = first \o paid \o <<settlementOf(id)>>
    BY <1>9 DEF Settling, settlementOf
  <2>2. id \in Nat
    OBVIOUS
  <2>3. KeepsAlike(first)
    <3>1. Round(id, "SETTLED", n) \in Events /\ Quip(2 * n) \in Events
      BY <1>0, <1>1, <1>4, <2>2
    <3> QED BY <1>b, <3>1, NoneKeeps
  <2>4. KeepsAlike(paid)
    BY <1>0, <1>1, <2>1, NoneKeeps, OneKeeps
  <2>5. KeepsAlike(<<settlementOf(id)>>)
    BY <1>3, <2>2, OneKeeps
  <2> HIDE DEF first
  <2>6. KeepsAlike(first \o paid)
    BY <2>3, <2>4, BothKeep
  <2> QED BY <2>1, <2>5, <2>6, BothKeep
<1>10. \/ \E m \in FeedMarkets : batch = <<valuation(m)>>
       \/ batch = <<Quip(2 * n), killed>>
       \/ batch = <<Quip(2 * n), Round(n, "OPEN", n)>>
       \/ batch = <<Round(RoundId, "SCORING", n)>>
       \/ \E id \in scoring : batch \in Settling(id, n)
  BY DEF Batches, killed, valuation
<1> QED BY <1>5, <1>6, <1>7, <1>8, <1>9, <1>10

(* The rounds awaiting their settlement are numbers. *)
LEMMA ScoringType ==
  ASSUME NEW batch \in Seq(Events)
  PROVE  Closing(batch) \in SUBSET Nat
<1>1. \A x \in Range(batch) : x \in Events
  BY DEF Range
<1>2. \A x \in Events : x.t = "round" => x.id \in Nat
  BY EventKinds
<1> QED BY <1>1, <1>2 DEF Closing

-----------------------------------------------------------------------------
(* An empty store and a blank page. *)
LEMMA NothingTypes == Nothing \in Views /\ Blank \in Pages
<1>1. NoRound \in RoundViews
  BY DEF NoRound, RoundViews
<1>2. [m \in FeedMarkets |-> Unvalued] \in Lists /\ <<>> \in Seq(Nat) /\ 0 \in Nat
      /\ FALSE \in BOOLEAN
  BY DEF Unvalued, Lists
<1>3. Nothing \in Views
  BY <1>1, <1>2 DEF Nothing, Views
<1> QED BY <1>3 DEF Blank, Pages

LEMMA FeedIInvInit == FeedInit => FeedIInv
<1> SUFFICES ASSUME FeedInit PROVE FeedIInv
  OBVIOUS
<1>1. <<>> \in Seq(WireFrames)
  OBVIOUS
<1> QED BY <1>1, NothingTypes DEF FeedInit, FeedIInv, FeedTypeOK, StreamInv

(* A batch goes to the store and onto the wire. *)
LEMMA PublishStep ==
  ASSUME FeedIInv, NEW batch \in Batches(published + 1), Publish(batch)
  PROVE  FeedIInv'
<1>1. server \in Views /\ page \in Pages /\ wire \in Seq(WireFrames) /\ published + 1 \in Nat \ {0}
      /\ scoring \in SUBSET Nat
  BY DEF FeedIInv, FeedTypeOK
<1>2. /\ published' = published + 1 /\ server' = FoldLeft(Stored, server, batch)
      /\ scoring' = (scoring \cup Closing(batch)) \ Settled(batch)
      /\ wire' = Sent(batch) /\ UNCHANGED <<clients, socket, phase, page>>
  BY DEF Publish
<1>3. IsStep(Applying, Pages, WireFrames) /\ Applying \in [Pages \X WireFrames -> Pages]
      /\ Storing \in [Views \X Events -> Views]
  BY ApplyingTypes, StoringTypes DEF IsStep
<1>4. Shown \in Pages
  BY <1>1, <1>3, FoldingType DEF Shown
<1>5. KeepsAlike(batch) /\ batch \in Seq(Events) /\ Frames(batch) \in Seq(WireFrames)
  <2>1. KeepsAlike(batch)
    BY <1>1, BatchAlike
  <2> QED BY <2>1 DEF KeepsAlike
<1>a. scoring' \in SUBSET Nat
  BY <1>1, <1>2, <1>5, ScoringType
<1>6. server' = Folding(Storing, server, batch)
  BY <1>1, <1>2, <1>5, StoredIsFold
<1>7. server' \in Views
  BY <1>1, <1>3, <1>5, <1>6, FoldingType
<1>8. wire' \in Seq(WireFrames)
  BY <1>1, <1>2, <1>5 DEF Sent
<1>9. StreamInv'
  <2> SUFFICES ASSUME phase = "open" PROVE socket \in clients /\ Alike(Shown', server')
    BY <1>2 DEF StreamInv
  <2>1. socket \in clients /\ Alike(Shown, server)
    BY DEF FeedIInv, StreamInv
  <2>2. wire' = wire \o Frames(batch)
    BY <1>2, <2>1 DEF Sent
  <2>3. Shown' = Folding(Applying, page, wire \o Frames(batch))
    BY <1>2, <2>2 DEF Shown
  <2>4. Folding(Applying, page, wire \o Frames(batch)) = Folding(Applying, Shown, Frames(batch))
    BY <1>1, <1>3, <1>5, FoldingConcat DEF Shown
  <2>5. Alike(Folding(Applying, Shown, Frames(batch)), Folding(Storing, server, batch))
    BY <1>1, <1>4, <1>5, <2>1 DEF KeepsAlike
  <2> QED BY <1>6, <2>1, <2>3, <2>4, <2>5
<1> QED BY <1>1, <1>2, <1>7, <1>8, <1>9, <1>a DEF FeedIInv, FeedTypeOK

(* The greeting makes a page of the snapshot. *)
LEMMA AcceptStep == ASSUME FeedIInv, Accept PROVE FeedIInv'
<1> DEFINE a == [t |-> "open"]
           b == [t |-> "snapshot", d |-> server]
<1>1. server \in Views /\ page \in Pages /\ scoring \in SUBSET Nat
  BY DEF FeedIInv, FeedTypeOK
<1>2. a \in WireFrames /\ b \in WireFrames /\ a.t = "open" /\ b.t = "snapshot" /\ b.d = server
  BY <1>1 DEF WireFrames
<1>3. /\ clients' = clients \cup {socket} /\ wire' = <<a, b>>
      /\ UNCHANGED <<server, scoring, published, socket, page>>
  BY DEF Accept, Greeting
<1> HIDE DEF a, b
<1>4. IsStep(Applying, Pages, WireFrames)
  BY ApplyingTypes DEF IsStep
<1> DEFINE p == Applying[<<page, a>>]
           q == Applying[<<p, b>>]
<1>5. p \in Pages
  BY <1>1, <1>2, ApplyingTypes, AppliedType
<1>6. Folding(Applying, page, <<a, b>>) = q
  BY <1>1, <1>2, <1>4, FoldingTwo
<1> HIDE DEF p
<1>7. q = Applied(p, b)
  BY <1>2, <1>5, ApplyingTypes
<1>8. q.data = server /\ q.hydrated
  BY <1>2, <1>7 DEF Applied, Hydrated
<1> HIDE DEF q
<1>9. Alike(q, server)
  BY <1>8 DEF Alike, Same
<1>10. Shown' = q
  BY <1>3, <1>6 DEF Shown
<1>11. wire' \in Seq(WireFrames)
  BY <1>2, <1>3
<1> QED BY <1>1, <1>3, <1>9, <1>10, <1>11 DEF FeedIInv, FeedTypeOK, StreamInv

(* A frame that arrives changes nothing of what will be shown. *)
LEMMA ReceiveStep == ASSUME FeedIInv, Receive PROVE FeedIInv'
<1>1. server \in Views /\ page \in Pages /\ wire \in Seq(WireFrames) /\ wire # <<>>
  BY DEF FeedIInv, FeedTypeOK, Receive
<1>2. page' = Applied(page, Head(wire)) /\ wire' = Tail(wire)
      /\ UNCHANGED <<server, scoring, published, clients, socket, phase>>
  BY DEF Receive
<1>3. Head(wire) \in WireFrames /\ Tail(wire) \in Seq(WireFrames)
  BY <1>1
<1>4. page' \in Pages /\ page' = Applying[<<page, Head(wire)>>]
  BY <1>1, <1>2, <1>3, AppliedType, ApplyingTypes
<1>5. IsStep(Applying, Pages, WireFrames)
  BY ApplyingTypes DEF IsStep
<1>6. Folding(Applying, page, wire) = Folding(Applying, Applying[<<page, Head(wire)>>], Tail(wire))
  BY <1>1, <1>5, FoldingTail
<1>7. Shown' = Shown
  BY <1>2, <1>4, <1>6 DEF Shown
<1> QED BY <1>1, <1>2, <1>3, <1>4, <1>7 DEF FeedIInv, FeedTypeOK, StreamInv

LEMMA FeedIInvNext == FeedIInv /\ [FeedNext]_feedVars => FeedIInv'
<1> SUFFICES ASSUME FeedIInv, [FeedNext]_feedVars PROVE FeedIInv'
  OBVIOUS
<1> USE DEF FeedIInv, FeedTypeOK, StreamInv
<1>1. CASE \E batch \in Batches(published + 1) : Publish(batch)
  BY <1>1, PublishStep
<1>2. CASE Accept
  BY <1>2, AcceptStep
<1>3. CASE Crash
  BY <1>3, NothingTypes DEF Crash
<1>4. CASE Break
  <2>1. PICK k \in 0 .. Len(wire) : wire' = SubSeq(wire, 1, k)
    BY <1>4 DEF Break
  <2>2. wire' \in Seq(WireFrames)
    BY <2>1
  <2> QED BY <1>4, <2>2 DEF Break
<1>5. ASSUME NEW s \in clients, Disconnect(s) PROVE FeedIInv'
  <2>1. Shown' = Shown
    BY <1>5 DEF Disconnect, Shown
  <2> QED BY <1>5, <2>1 DEF Disconnect
<1>6. CASE Receive
  BY <1>6, ReceiveStep
<1>7. CASE Closed
  <2>1. page' \in Pages
    BY <1>7 DEF Closed, Pages
  <2> QED BY <1>7, <2>1 DEF Closed
<1>8. CASE Reconnect
  BY <1>8 DEF Reconnect
<1>9. CASE Stop
  BY <1>9 DEF Stop
<1>10. CASE UNCHANGED feedVars
  BY <1>10 DEF feedVars, Shown
<1> QED BY <1>1, <1>2, <1>3, <1>4, <1>5, <1>6, <1>7, <1>8, <1>9, <1>10 DEF FeedNext

(* FeedIInv is an inductive invariant of the feed. *)
THEOREM FeedInductive == FeedSpec => []FeedIInv
BY FeedIInvInit, FeedIInvNext, PTL DEF FeedSpec

(* On a connection that lives the page will show, once the frames in flight have      *)
(* arrived, what the server holds now, also when a round is settled after the next    *)
(* one opened: all but the round such a settlement takes off the page and the          *)
(* valuations beyond the page's cap (Broadcaster.connect, foldEvent).                 *)
THEOREM ViewAlwaysFollows == FeedSpec => []ViewFollows
<1>1. FeedIInv => ViewFollows
  <2> SUFFICES ASSUME FeedIInv, phase = "open"
               PROVE  Same(FoldLeft(Applied, page, wire).data, server)
    BY DEF ViewFollows
  <2>1. page \in Pages /\ wire \in Seq(WireFrames) /\ Alike(Shown, server)
    BY DEF FeedIInv, FeedTypeOK, StreamInv
  <2>2. FoldLeft(Applied, page, wire) = Shown
    BY <2>1, AppliedIsFold DEF Shown
  <2> QED BY <2>1, <2>2 DEF Alike
<1> QED BY <1>1, FeedInductive, PTL
=============================================================================
