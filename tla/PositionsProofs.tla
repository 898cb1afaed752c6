-------------------------- MODULE PositionsProofs --------------------------
(***************************************************************************)
(* Theorems about Positions, for any number of markets, of passes under way  *)
(* at once, of matches and of failures; and about Scenario, for any orders,  *)
(* latencies, depth and noise of the venue's levels, and scripts started and *)
(* stopped at any instants.                                                *)
(***************************************************************************)
EXTENDS Positions, Scenario, FoldTheorems, TLAPS

(* Balances are not newer than the chain, and what a pass holds is no older  *)
(* than what is known, as long as no other pass has ended since it began.    *)
DateInv ==
  /\ \A m \in Markets : asOf[m] <= matches[m]
  /\ \A p \in Passes, m \in Markets :
       pass[p].dates[m] # NotRead =>
         /\ pass[p].dates[m] \in Nat
         /\ pass[p].dates[m] <= matches[m]
         /\ p \notin overtaken => asOf[m] <= pass[p].dates[m]
  /\ \A p \in Passes : pass[p].pc \in {"idle", "listing"} => pass[p].dates = Idle.dates

IInv == TypeOK /\ DateInv

(* A pass goes on with what it holds changed. *)
LEMMA GoOnMoves ==
  ASSUME TypeOK, NEW p \in Passes, NEW to \in Pass, GoOn(p, to)
  PROVE  /\ pass' \in [Passes -> Pass]
         /\ pass'[p] = to
         /\ \A q \in Passes \ {p} : pass'[q] = pass[q]
BY DEF TypeOK, GoOn

LEMMA IdleType == Idle \in Pass
BY DEF Idle, Pass, NotRead

LEMMA InitIInv == Init => IInv
<1> SUFFICES ASSUME Init PROVE IInv
  OBVIOUS
<1>1. chain \in [Markets -> Int]
  BY PositionsAssumption DEF Init
<1>2. pass \in [Passes -> Pass]
  BY IdleType DEF Init
<1>3. TypeOK
  BY <1>1, <1>2 DEF Init, TypeOK
<1>4. DateInv
  BY DEF Init, DateInv, Idle, NotRead
<1> QED BY <1>3, <1>4 DEF IInv

-----------------------------------------------------------------------------
LEMMA StartStep ==
  ASSUME IInv, NEW p \in Passes, Start(p)
  PROVE  IInv'
<1> DEFINE to == [pass[p] EXCEPT !.pc = "listing"]
<1>1. to \in Pass /\ to.dates = pass[p].dates /\ to.pc = "listing"
  BY DEF IInv, TypeOK, Pass
<1>2. GoOn(p, to)
  BY DEF Start
<1> HIDE DEF to
<1>3. /\ pass' \in [Passes -> Pass]
      /\ pass'[p] = to
      /\ \A q \in Passes \ {p} : pass'[q] = pass[q]
  BY <1>1, <1>2, GoOnMoves DEF IInv
<1>4. TypeOK'
  BY <1>3 DEF IInv, TypeOK, Start
<1>5. DateInv'
  <2>1. pass[p].dates = Idle.dates
    BY DEF IInv, DateInv, Start
  <2>2. \A m \in Markets : pass[p].dates[m] = NotRead
    BY <2>1 DEF Idle
  <2> QED BY <1>1, <1>3, <2>1, <2>2 DEF IInv, DateInv, Start, Idle
<1> QED BY <1>4, <1>5 DEF IInv

(* Steps that read no balance and end no pass. *)
LEMMA QuietStep ==
  ASSUME IInv, NEW p \in Passes, NEW to \in Pass, GoOn(p, to),
         to.dates = pass[p].dates,
         to.pc = "idle" \/ to.pc = "listing" => pass[p].pc = to.pc,
         UNCHANGED historyVars
  PROVE  DateInv'
<1>1. /\ pass'[p] = to
      /\ \A q \in Passes \ {p} : pass'[q] = pass[q]
  BY GoOnMoves DEF IInv
<1> QED BY <1>1 DEF IInv, DateInv, historyVars, Idle

LEMMA ListStep ==
  ASSUME IInv, NEW p \in Passes, List(p)
  PROVE  IInv'
<1> DEFINE listing == [pass[p] EXCEPT !.pc = "reading", !.todo = listed]
           missing == [pass[p] EXCEPT !.pc = "reading", !.missed = Markets]
<1>1. listing \in Pass /\ listing.dates = pass[p].dates /\ listing.pc = "reading"
  BY DEF IInv, TypeOK, Pass
<1>2. missing \in Pass /\ missing.dates = pass[p].dates /\ missing.pc = "reading"
  BY DEF IInv, TypeOK, Pass
<1>3. PICK to \in {listing, missing} : GoOn(p, to)
  BY DEF List
<1>4. failures' \in Nat
  BY DEF IInv, TypeOK, List, Fail
<1> HIDE DEF listing, missing
<1>5. to \in Pass /\ to.dates = pass[p].dates /\ to.pc = "reading"
  BY <1>1, <1>2, <1>3
<1>6. pass' \in [Passes -> Pass]
  BY <1>3, <1>5, GoOnMoves DEF IInv
<1>7. TypeOK'
  BY <1>4, <1>6 DEF IInv, TypeOK, List, historyVars
<1>8. DateInv'
  BY <1>3, <1>5, QuietStep DEF List, historyVars
<1> QED BY <1>7, <1>8 DEF IInv

LEMMA ReadBalanceStep ==
  ASSUME IInv, NEW p \in Passes, NEW m \in Markets, ReadBalance(p, m)
  PROVE  IInv'
<1> DEFINE read == [pass[p] EXCEPT !.todo = @ \ {m}, !.dates = [@ EXCEPT ![m] = matches[m]]]
           With(mark) == [read EXCEPT !.out = @ \cup {[market |-> m, net |-> chain[m], avg |-> mark]}]
<1>1. /\ read \in Pass
      /\ read.dates = [pass[p].dates EXCEPT ![m] = matches[m]]
      /\ read.pc = pass[p].pc
  <2>1. pass[p] \in Pass /\ matches[m] \in Nat
    BY DEF IInv, TypeOK
  <2>2. [pass[p].dates EXCEPT ![m] = matches[m]] \in [Markets -> Int]
    BY <2>1 DEF Pass
  <2> QED BY <2>1, <2>2 DEF Pass
<1>2. ASSUME NEW mark \in Mark
      PROVE  /\ With(mark) \in Pass
             /\ With(mark).dates = read.dates
             /\ With(mark).pc = pass[p].pc
  <2>1. [market |-> m, net |-> chain[m], avg |-> mark] \in Position
    BY DEF IInv, TypeOK, Position, Mark
  <2> HIDE DEF read
  <2> QED BY <1>1, <2>1 DEF Pass
<1>3. PICK to \in {read} \cup {With(mark) : mark \in Mark} : GoOn(p, to)
  BY DEF ReadBalance
<1>4. /\ to \in Pass
      /\ to.dates = [pass[p].dates EXCEPT ![m] = matches[m]]
      /\ to.pc = pass[p].pc
  <2> HIDE DEF read, With
  <2> QED BY <1>1, <1>2, <1>3
<1>5. UNCHANGED <<chain, listed, known, engineNet, reports, failures, historyVars>>
  BY DEF ReadBalance
<1> HIDE DEF read, With
<1>6. /\ pass' \in [Passes -> Pass]
      /\ pass'[p] = to
      /\ \A q \in Passes \ {p} : pass'[q] = pass[q]
  BY <1>3, <1>4, GoOnMoves DEF IInv
<1>7. TypeOK'
  BY <1>5, <1>6 DEF IInv, TypeOK, historyVars
<1>8. DateInv'
  <2>1. pass[p].pc = "reading"
    BY DEF ReadBalance
  <2>2. pass[p].dates \in [Markets -> Int] /\ matches[m] \in Nat /\ asOf[m] <= matches[m]
    BY DEF IInv, TypeOK, Pass, DateInv
  <2>3. \A x \in Markets : pass'[p].dates[x] = IF x = m THEN matches[m] ELSE pass[p].dates[x]
    BY <1>4, <1>6, <2>2
  <2> QED BY <1>4, <1>5, <1>6, <2>1, <2>2, <2>3 DEF IInv, DateInv, historyVars
<1> QED BY <1>7, <1>8 DEF IInv

LEMMA SkipBalanceStep ==
  ASSUME IInv, NEW p \in Passes, NEW m \in Markets, SkipBalance(p, m)
  PROVE  IInv'
<1> DEFINE to == [pass[p] EXCEPT !.todo = @ \ {m}, !.missed = @ \cup {m}]
<1>1. to \in Pass /\ to.dates = pass[p].dates /\ to.pc = pass[p].pc
  BY DEF IInv, TypeOK, Pass
<1>2. GoOn(p, to)
  BY DEF SkipBalance
<1>3. failures' \in Nat
  BY DEF IInv, TypeOK, SkipBalance, Fail
<1> HIDE DEF to
<1>4. pass' \in [Passes -> Pass]
  BY <1>1, <1>2, GoOnMoves DEF IInv
<1>5. TypeOK'
  BY <1>3, <1>4 DEF IInv, TypeOK, SkipBalance, historyVars
<1>6. DateInv'
  BY <1>1, <1>2, QuietStep DEF SkipBalance
<1> QED BY <1>5, <1>6 DEF IInv

-----------------------------------------------------------------------------
(* The two lists a pass is compared by, and the copies it leaves. *)
LEMMA CorrectTypes ==
  ASSUME TypeOK, NEW adopted \in SUBSET Position, NEW dropped, Correct(adopted, dropped)
  PROVE  known' \in SUBSET Position /\ engineNet' \in [Markets -> Int]
<1>1. known' \in SUBSET Position
  BY DEF TypeOK, Correct
<1>2. ASSUME NEW m \in Markets, Of(m, adopted) # {}
      PROVE  (CHOOSE c \in adopted : c.market = m).net \in Int
  <2>1. (CHOOSE c \in adopted : c.market = m) \in adopted
    BY <1>2 DEF Of
  <2> QED BY <2>1 DEF Position
<1>3. \A m \in Markets : engineNet[m] \in Int
  BY DEF TypeOK
<1>4. engineNet' \in [Markets -> Int]
  BY <1>2, <1>3 DEF Correct
<1> QED BY <1>1, <1>4

LEMMA ReconcileStep ==
  ASSUME IInv, NEW p \in Passes, Reconcile(p)
  PROVE  IInv'
<1>1. /\ pass' \in [Passes -> Pass]
      /\ pass'[p] = Idle
      /\ \A q \in Passes \ {p} : pass'[q] = pass[q]
  BY IdleType, GoOnMoves DEF IInv, Reconcile, EndPass
<1>2. /\ asOf' = [m \in Markets |-> IF pass[p].dates[m] = NotRead THEN asOf[m]
                                    ELSE pass[p].dates[m]]
      /\ overtaken' = overtaken \cup {q \in Passes \ {p} : pass[q].pc # "idle"}
      /\ UNCHANGED <<chain, listed, reports, failures, matches>>
  BY DEF Reconcile
<1>3. known' \in SUBSET Position /\ engineNet' \in [Markets -> Int]
  <2>1. pass[p].out \in SUBSET Position
    BY DEF IInv, TypeOK, Pass
  <2>2. Drifted(pass[p].out) \in SUBSET Position
    BY <2>1 DEF Drifted
  <2> QED BY <2>2, CorrectTypes DEF IInv, Reconcile
<1>4. \A m \in Markets : asOf'[m] \in Nat /\ asOf'[m] <= matches[m]
  BY <1>2 DEF IInv, DateInv, TypeOK
<1>5. TypeOK'
  BY <1>1, <1>2, <1>3, <1>4 DEF IInv, TypeOK
<1>6. DateInv'
  <2>1. \A q \in Passes : pass'[q].pc \in {"idle", "listing"} => pass'[q].dates = Idle.dates
    BY <1>1 DEF IInv, DateInv
  <2>2. ASSUME NEW q \in Passes, NEW m \in Markets, pass'[q].dates[m] # NotRead
        PROVE  /\ q # p
               /\ pass'[q].dates[m] = pass[q].dates[m]
               /\ q \in overtaken'
    <3>1. q # p
      BY <1>1, <2>2 DEF Idle
    <3>2. pass'[q] = pass[q]
      BY <1>1, <3>1
    <3>3. pass[q].pc # "idle"
      BY <2>2, <3>2 DEF IInv, DateInv, Idle
    <3> QED BY <1>2, <3>1, <3>2, <3>3
  <2>3. \A q \in Passes, m \in Markets : pass'[q].dates[m] # NotRead =>
          pass'[q].dates[m] \in Nat /\ pass'[q].dates[m] <= matches[m]
    BY <2>2 DEF IInv, DateInv
  <2> QED BY <1>2, <1>4, <2>1, <2>2, <2>3 DEF DateInv, Idle
<1> QED BY <1>5, <1>6 DEF IInv

-----------------------------------------------------------------------------
LEMMA OnFillStep ==
  ASSUME IInv, NEW r \in reports, OnFill(r)
  PROVE  IInv'
<1>1. r.market \in Markets /\ r.qty \in Int
  BY DEF IInv, TypeOK, Report
<1>2. engineNet' \in [Markets -> Int]
  BY <1>1 DEF IInv, TypeOK, OnFill
<1>3. TypeOK'
  BY <1>2 DEF IInv, TypeOK, OnFill, historyVars
<1>4. DateInv'
  BY DEF IInv, DateInv, OnFill, historyVars, Idle
<1> QED BY <1>3, <1>4 DEF IInv

LEMMA MatchStep ==
  ASSUME IInv, NEW m \in Markets, NEW qty \in Sizes,
         NEW by \in SUBSET {"receipt", "poll"}, Match(m, qty, by)
  PROVE  IInv'
<1>1. qty \in Int
  BY PositionsAssumption
<1>2. chain' \in [Markets -> Int] /\ matches' \in [Markets -> Nat]
  BY <1>1 DEF IInv, TypeOK, Match
<1>3. matches[m] \in Nat
  BY DEF IInv, TypeOK
<1>4. reports' \in SUBSET Report
  BY <1>1, <1>3 DEF IInv, TypeOK, Match, Report
<1>5. TypeOK'
  BY <1>2, <1>4 DEF IInv, TypeOK, Match
<1>6. \A x \in Markets : matches[x] \in Nat /\ matches'[x] \in Nat /\ matches[x] <= matches'[x]
  BY DEF IInv, TypeOK, Match
<1>7. UNCHANGED <<pass, asOf, overtaken>>
  BY DEF Match
<1>8. \A x \in Markets : asOf[x] \in Nat
  BY DEF IInv, TypeOK
<1>9. DateInv'
  <2>1. \A x \in Markets : asOf'[x] <= matches'[x]
    BY <1>6, <1>7, <1>8 DEF IInv, DateInv
  <2>2. \A p \in Passes, x \in Markets : pass[p].dates[x] # NotRead =>
          pass[p].dates[x] \in Nat /\ pass[p].dates[x] <= matches'[x]
    BY <1>6 DEF IInv, DateInv
  <2> QED BY <1>7, <2>1, <2>2 DEF IInv, DateInv, Idle
<1> QED BY <1>5, <1>9 DEF IInv

LEMMA UnlistStep ==
  ASSUME IInv, NEW m \in listed, Unlist(m)
  PROVE  IInv'
<1>1. TypeOK'
  BY DEF IInv, TypeOK, Unlist, historyVars
<1>2. DateInv'
  BY DEF IInv, DateInv, Unlist, historyVars, Idle
<1> QED BY <1>1, <1>2 DEF IInv

LEMMA StepIInv == IInv /\ [Next]_vars => IInv'
<1> SUFFICES ASSUME IInv, [Next]_vars PROVE IInv'
  OBVIOUS
<1>1. ASSUME NEW p \in Passes, PassStep(p) PROVE IInv'
  BY <1>1, StartStep, ListStep, ReadBalanceStep, ReconcileStep DEF PassStep
<1>2. ASSUME NEW p \in Passes, NEW m \in Markets, SkipBalance(p, m) PROVE IInv'
  BY <1>2, SkipBalanceStep
<1>3. ASSUME NEW r \in reports, OnFill(r) PROVE IInv'
  BY <1>3, OnFillStep
<1>4. ASSUME NEW m \in Markets, NEW qty \in Sizes,
             Match(m, qty, {"receipt", "poll"}) \/ Match(m, qty, {"poll"})
      PROVE  IInv'
  BY <1>4, MatchStep
<1>5. ASSUME NEW m \in listed, Unlist(m) PROVE IInv'
  BY <1>5, UnlistStep
<1>6. CASE UNCHANGED vars
  BY <1>6 DEF IInv, TypeOK, DateInv, vars, historyVars, Idle
<1> QED BY <1>1, <1>2, <1>3, <1>4, <1>5, <1>6 DEF Next

-----------------------------------------------------------------------------
(* The type invariant with the dates of what is known and being read. *)
THEOREM Inductive == Spec => []IInv
BY InitIInv, StepIInv, PTL DEF Spec

(* Every variable keeps its type, for any number of passes under way. *)
THEOREM TypeCorrect == Spec => []TypeOK
BY Inductive, PTL DEF IInv

(* Only an overtaken pass takes what is known back to an older balance       *)
(* (reconciler.ts:79-151, 160-164).                                         *)
LEMMA NeverOlderStep ==
  ASSUME IInv, Next, NEW m \in Markets, asOf'[m] < asOf[m]
  PROVE  \E p \in overtaken : pass[p].pc = "reading" /\ pass'[p].pc = "idle"
<1>1. asOf' # asOf
  BY DEF IInv, TypeOK
<1>2. PICK p \in Passes : Reconcile(p)
  BY <1>1 DEF Next, PassStep, Start, List, ReadBalance, SkipBalance, OnFill, Match, Unlist, historyVars
<1>3. pass'[p] = Idle /\ pass[p].pc = "reading"
  BY <1>2, IdleType, GoOnMoves DEF IInv, Reconcile, EndPass
<1>4. pass[p].dates[m] # NotRead /\ asOf'[m] = pass[p].dates[m]
  BY <1>2 DEF Reconcile, IInv, TypeOK
<1>5. p \in overtaken
  BY <1>4 DEF IInv, TypeOK, DateInv
<1> QED BY <1>3, <1>5 DEF Idle

(* What is known never goes back to an older balance but by an overtaken     *)
(* pass (reconciler.ts:160-164).                                            *)
THEOREM KnownNeverOlder == Spec => NeverOlder
<1>1. IInv /\ [Next]_vars =>
        [\A m \in Markets : asOf'[m] < asOf[m]
           => \E p \in overtaken : pass[p].pc = "reading" /\ pass'[p].pc = "idle"]_vars
  BY NeverOlderStep
<1> QED BY <1>1, Inductive, PTL DEF Spec, NeverOlder

-----------------------------------------------------------------------------
(* ts is a sequence, of whatever timers.                                     *)
Sequence(ts) == \E S : ts \in Seq(S)

(* The timers of ts that are not of a script. *)
Others(ts) == {x \in {ts[i] : i \in DOMAIN ts} : ~IsScripted(x.job)}

(* The inductive invariant: it is the sequence that makes the timers of one   *)
(* script replace those of another and not mix with them.                   *)
ScenarioInv == Sequence(timers) /\ SupersededSilent

LEMMA OwnElements ==
  ASSUME NEW ts, Sequence(ts)
  PROVE  ts \in Seq({ts[i] : i \in DOMAIN ts})
<1>1. PICK S : ts \in Seq(S)
  BY DEF Sequence
<1>2. Len(ts) \in Nat /\ DOMAIN ts = 1 .. Len(ts) /\ ts = [i \in 1 .. Len(ts) |-> ts[i]]
  BY <1>1
<1> DEFINE R == {ts[i] : i \in DOMAIN ts}
<1>3. \A i \in 1 .. Len(ts) : ts[i] \in R
  BY <1>2
<1> HIDE DEF R
<1>4. ts \in Seq(R)
  BY <1>2, <1>3
<1> QED BY <1>4 DEF R

(* Spared as a function of pairs. *)
Sparing(T, E) == [p \in Seq(T) \X E |-> Spared(p[1], p[2])]

SparedFold(seq) == CHOOSE iter : iter = [s \in SUBSET DOMAIN seq |->
  IF s = {} THEN <<>> ELSE LET x == Max(s) IN Spared(iter[s \ {x}], seq[x])]

LEMMA SparingTypes ==
  ASSUME NEW E, NEW T, T = {x \in E : ~IsScripted(x.job)}
  PROVE  /\ Sparing(T, E) \in [Seq(T) \X E -> Seq(T)]
         /\ IsStep(Sparing(T, E), Seq(T), E)
         /\ \A ts \in Seq(T), x \in E : Sparing(T, E)[<<ts, x>>] = Spared(ts, x)
<1>1. \A ts \in Seq(T), x \in E : Spared(ts, x) \in Seq(T)
  BY DEF Spared
<1>2. \A p \in Seq(T) \X E : p[1] \in Seq(T) /\ p[2] \in E
  OBVIOUS
<1>3. Sparing(T, E) \in [Seq(T) \X E -> Seq(T)]
  BY <1>1, <1>2 DEF Sparing
<1>4. \A ts \in Seq(T), x \in E : Sparing(T, E)[<<ts, x>>] = Spared(ts, x)
  BY DEF Sparing
<1> QED BY <1>3, <1>4 DEF IsStep

(* What cancel() leaves is in order, and nothing of a script is left. *)
LEMMA ClearedOthers ==
  ASSUME Sequence(timers)
  PROVE  Cleared \in Seq(Others(timers))
<1> DEFINE E == {timers[i] : i \in DOMAIN timers}
           T == Others(timers)
           A == Seq(T)
           F == Sparing(T, E)
           n == Len(timers)
           g == SparedFold(timers)
           Step(h, s) == IF s = {} THEN <<>> ELSE Spared(h[s \ {Max(s)}], timers[Max(s)])
<1>0. timers \in Seq(E)
  BY OwnElements
<1>1. Cleared = g[DOMAIN timers]
  BY DEF Cleared, FoldLeft, MapThenFoldSet, SparedFold
<1>2. n \in Nat /\ DOMAIN timers = 1 .. n /\ \A k \in 1 .. n : timers[k] \in E
  BY <1>0
<1>3. T = {x \in E : ~IsScripted(x.job)} /\ <<>> \in A
  BY DEF Others
<1> HIDE DEF g, Step, E, T
<1>4. /\ F \in [A \X E -> A] /\ IsStep(F, A, E)
      /\ \A ts \in A, x \in E : F[<<ts, x>>] = Spared(ts, x)
  BY <1>3, SparingTypes
<1> HIDE DEF F, A
<1>5. PICK f : IsFold(f, A, F, <<>>, timers)
  BY <1>0, <1>3, <1>4, FoldsExist
<1>6. /\ f \in [SUBSET (1 .. n) -> A]
      /\ \A s \in SUBSET (1 .. n) : f[s] = FoldStep(f, F, <<>>, timers, s)
  BY <1>5 DEF IsFold
<1>7. \A s \in SUBSET (1 .. n) : f[s] = Step(f, s)
  <2> SUFFICES ASSUME NEW s \in SUBSET (1 .. n) PROVE f[s] = Step(f, s)
    OBVIOUS
  <2>1. CASE s = {}
    BY <1>6, <2>1 DEF FoldStep, Step
  <2>2. CASE s # {}
    <3>1. Max(s) \in s
      BY <1>2, <2>2, MaxOfRange
    <3>2. f[s \ {Max(s)}] \in A /\ timers[Max(s)] \in E
      BY <1>2, <1>6, <3>1
    <3> QED BY <1>4, <1>6, <2>2, <3>2 DEF FoldStep, Step
  <2> QED BY <2>1, <2>2
<1>8. f = [s \in SUBSET DOMAIN timers |-> Step(f, s)]
  BY <1>2, <1>6, <1>7
<1>9. g = [s \in SUBSET DOMAIN timers |-> Step(g, s)]
  BY <1>8 DEF SparedFold, g, Step
<1>10. \A k \in 0 .. n - 1 : g[1 .. k] \in A => g[1 .. k + 1] = F[<<g[1 .. k], timers[k + 1]>>]
  <2> SUFFICES ASSUME NEW k \in 0 .. n - 1, g[1 .. k] \in A
               PROVE  g[1 .. k + 1] = F[<<g[1 .. k], timers[k + 1]>>]
    OBVIOUS
  <2>1. Max(1 .. k + 1) = k + 1 /\ (1 .. k + 1) \ {k + 1} = 1 .. k
    BY <1>2, MaxOfInterval
  <2>2. k + 1 \in 1 .. k + 1 /\ k + 1 \in 1 .. n /\ 1 .. k + 1 \in SUBSET (1 .. n)
    BY <1>2
  <2>3. 1 .. k + 1 \in SUBSET DOMAIN timers /\ 1 .. k + 1 # {} /\ timers[k + 1] \in E
    BY <1>2, <2>2
  <2>4. g[1 .. k + 1] = Step(g, 1 .. k + 1)
    BY <1>9, <2>3
  <2>5. g[1 .. k + 1] = Spared(g[1 .. k], timers[k + 1])
    BY <2>1, <2>3, <2>4 DEF Step
  <2> QED BY <1>4, <2>3, <2>5
<1> HIDE DEF n
<1>11. TakesInOrder(g, A, F, <<>>, timers)
  <2>1. g[{}] = <<>>
    BY <1>9 DEF Step
  <2> QED BY <1>10, <2>1 DEF TakesInOrder, n
<1>12. AtEnd(g, timers) = Folding(F, <<>>, timers)
  BY <1>0, <1>3, <1>4, <1>11, FoldReached
<1>13. Folding(F, <<>>, timers) \in A
  BY <1>0, <1>3, <1>4, FoldingType
<1> QED BY <1>1, <1>2, <1>12, <1>13 DEF AtEnd, n, A, T

(* A script is a sequence of steps. *)
LEMMA ScriptsAreSequences ==
  ASSUME NEW name \in DOMAIN SCENARIOS
  PROVE  /\ \E k \in Nat : DOMAIN SCENARIOS[name] = 1 .. k
         /\ name # "none"
<1>1. name \in {"VOL_SPIKE", "NEWS_SHOCK", "FLAT_DRIFT", "STALE_QUOTE", "THIN_BOOK",
               "DROPPED_TX", "NONCE_CLASH"}
  BY DEF SCENARIOS
<1>2. \A a, b, c, d, e : /\ DOMAIN <<a, b>> = 1 .. 2 /\ DOMAIN <<a, b, c>> = 1 .. 3
                        /\ DOMAIN <<a, b, c, d>> = 1 .. 4 /\ DOMAIN <<a, b, c, d, e>> = 1 .. 5
  OBVIOUS
<1>3. \E k \in {2, 3, 4, 5} : DOMAIN SCENARIOS[name] = 1 .. k
  <2>1. CASE name = "VOL_SPIKE"
    BY <1>2, <2>1 DEF SCENARIOS
  <2>2. CASE name = "FLAT_DRIFT"
    BY <1>2, <2>2 DEF SCENARIOS
  <2>3. CASE name \in {"NEWS_SHOCK", "THIN_BOOK"}
    BY <1>2, <2>3 DEF SCENARIOS
  <2>4. CASE name \in {"STALE_QUOTE", "DROPPED_TX", "NONCE_CLASH"}
    BY <1>2, <2>4 DEF SCENARIOS
  <2> QED BY <1>1, <2>1, <2>2, <2>3, <2>4
<1> QED BY <1>1, <1>3

-----------------------------------------------------------------------------
LEMMA ScenarioStart == SimInit => ScenarioInv
<1> SUFFICES ASSUME SimInit PROVE ScenarioInv
  OBVIOUS
<1>1. timers = <<>>
  BY DEF SimInit, ClockInit
<1>2. timers \in Seq({}) /\ DOMAIN timers = {}
  BY <1>1
<1> QED BY <1>2 DEF ScenarioInv, Sequence, SupersededSilent

(* A script armed behind the timers that are none of a script's. *)
LEMMA StartKeeps ==
  ASSUME ScenarioInv, NEW name \in Scripts, StartScript(name)
  PROVE  ScenarioInv'
<1> DEFINE O == Others(timers)
           script == [k \in DOMAIN SCENARIOS[name] |-> Scripted(SCENARIOS[name][k])]
           S == {script[k] : k \in DOMAIN script}
<1>1. PICK n \in Nat : DOMAIN SCENARIOS[name] = 1 .. n
  BY ScenarioAssumption, ScriptsAreSequences
<1>2. /\ script \in Seq(S) /\ Len(script) = n /\ DOMAIN script = 1 .. n
      /\ \A k \in 1 .. n : script[k] = Scripted(SCENARIOS[name][k])
  BY <1>1
<1>3. \A x \in S : x.job.run = runs + 1
  <2>1. \A s : Scripted(s).job.run = runs + 1
    BY DEF Scripted, Timer
  <2> HIDE DEF script
  <2> QED BY <1>2, <2>1
<1>4. \A x \in O : ~IsScripted(x.job)
  BY DEF Others
<1>5. Cleared \in Seq(O)
  BY ClearedOthers DEF ScenarioInv
<1>6. timers' = Cleared \o script /\ runs' = runs + 1 /\ running' = name /\ name # "none"
  BY ScenarioAssumption, ScriptsAreSequences DEF StartScript
<1> HIDE DEF O, script, S
<1>7. timers' \in Seq(O \cup S)
  BY <1>2, <1>5, <1>6
<1>8. \A i \in DOMAIN timers' : timers'[i] \in O \cup S
  BY <1>7
<1>9. Sequence(timers')
  BY <1>7 DEF Sequence
<1>10. SupersededSilent'
  BY <1>3, <1>4, <1>6, <1>8 DEF SupersededSilent, IsScripted
<1> QED BY <1>9, <1>10 DEF ScenarioInv, Sequence

LEMMA StopKeeps ==
  ASSUME ScenarioInv, Stop
  PROVE  ScenarioInv'
<1>1. Cleared \in Seq(Others(timers)) /\ timers' = Cleared
  BY ClearedOthers DEF ScenarioInv, Stop
<1>2. \A i \in DOMAIN timers' : timers'[i] \in Others(timers)
  BY <1>1
<1>3. \A i \in DOMAIN timers' : ~IsScripted(timers'[i].job)
  BY <1>2 DEF Others
<1> QED BY <1>1, <1>3 DEF ScenarioInv, Sequence, SupersededSilent, IsScripted

(* A timer that fires is taken out, and the others stay in order. *)
LEMMA WithoutKeeps ==
  ASSUME ScenarioInv, NEW i \in DOMAIN timers, timers' = Without(i), UNCHANGED <<running, runs>>
  PROVE  ScenarioInv'
<1> DEFINE E == {timers[k] : k \in DOMAIN timers}
           n == Len(timers)
<1>1. timers \in Seq(E)
  BY OwnElements DEF ScenarioInv
<1>2. n \in Nat /\ DOMAIN timers = 1 .. n /\ i \in 1 .. n
  BY <1>1
<1>3. \A k \in 1 .. n - 1 : (IF k < i THEN k ELSE k + 1) \in DOMAIN timers
  BY <1>2
<1>4. timers' = [k \in 1 .. n - 1 |-> timers[IF k < i THEN k ELSE k + 1]]
  BY DEF Without
<1>5. \A k \in 1 .. n - 1 : timers'[k] \in E
  BY <1>3, <1>4
<1> HIDE DEF E, n
<1>6. timers' \in Seq(E) /\ DOMAIN timers' = 1 .. n - 1
  BY <1>2, <1>4, <1>5
<1>7. \A k \in DOMAIN timers' : \E j \in DOMAIN timers : timers'[k] = timers[j]
  BY <1>3, <1>4, <1>6
<1> QED BY <1>6, <1>7 DEF ScenarioInv, Sequence, SupersededSilent, IsScripted

(* An order that is queued is no step of a script. *)
LEMMA QueuedKeeps ==
  ASSUME ScenarioInv, NEW q, PlaceQueued(q), UNCHANGED scenarioVars
  PROVE  ScenarioInv'
<1> DEFINE x == Timer(latency, Order(q))
<1>1. PICK S : timers \in Seq(S)
  BY DEF ScenarioInv, Sequence
<1>2. timers' = Append(timers, x)
  BY DEF PlaceQueued, Armed
<1>3. ~IsScripted(x.job)
  <2>1. x.job = Order(q)
    BY DEF Timer
  <2>2. DOMAIN Order(q) = {"id", "kind", "type", "size", "limit", "expires"}
    BY DEF Order
  <2> QED BY <2>1, <2>2 DEF IsScripted
<1> HIDE DEF x
<1>4. timers' \in Seq(S \cup {x})
  BY <1>1, <1>2
<1>5. \A i \in DOMAIN timers' : timers'[i] = x \/ \E j \in DOMAIN timers : timers'[i] = timers[j]
  BY <1>1, <1>2
<1>6. running' = running /\ runs' = runs
  BY DEF scenarioVars
<1> QED BY <1>3, <1>4, <1>5, <1>6 DEF ScenarioInv, Sequence, SupersededSilent, IsScripted

LEMMA RestKeeps ==
  ASSUME ScenarioInv, UNCHANGED <<timers, running, runs>>
  PROVE  ScenarioInv'
BY DEF ScenarioInv, Sequence, SupersededSilent, IsScripted

LEMMA ScenarioStep == ScenarioInv /\ [SimNext]_simVars => ScenarioInv'
<1> SUFFICES ASSUME ScenarioInv, [SimNext]_simVars PROVE ScenarioInv'
  OBVIOUS
<1>1. CASE VenueCall /\ UNCHANGED scenarioVars
  <2>1. ASSUME NEW q \in Requests, PlaceQueued(q) PROVE ScenarioInv'
    BY <1>1, <2>1, QueuedKeeps
  <2>2. ASSUME NEW q \in Requests, PlaceRejected(q) \/ PlaceInline(q) PROVE UNCHANGED timers
    BY <2>2 DEF PlaceRejected, PlaceInline, clockVars
  <2>3. ASSUME NEW id \in DOMAIN acks, Cancel(id) PROVE UNCHANGED timers
    BY <2>3 DEF Cancel, clockVars
  <2>4. ASSUME NEW n \in Mints, Mint(n) PROVE UNCHANGED timers
    BY <2>4 DEF Mint, clockVars
  <2>5. ASSUME CancelAll \/ Look \/ Claim PROVE UNCHANGED timers
    BY <2>5 DEF CancelAll, Look, Claim, clockVars
  <2>6. ScenarioInv' \/ UNCHANGED timers
    BY <1>1, <2>1, <2>2, <2>3, <2>4, <2>5 DEF VenueCall
  <2> QED BY <1>1, <2>6, RestKeeps DEF scenarioVars
<1>2. ASSUME NEW t \in Stops, AdvanceTo(t) /\ UNCHANGED <<venueVars, scenarioVars>> PROVE ScenarioInv'
  BY <1>2, RestKeeps DEF AdvanceTo, scenarioVars
<1>3. CASE AdvanceEnd /\ UNCHANGED <<venueVars, scenarioVars>>
  BY <1>3, RestKeeps DEF AdvanceEnd, scenarioVars
<1>4. ASSUME NEW i \in DOMAIN timers, FireOrder(i) /\ UNCHANGED scenarioVars PROVE ScenarioInv'
  BY <1>4, WithoutKeeps DEF FireOrder, scenarioVars
<1>5. ASSUME NEW i \in DOMAIN timers, FireStep(i) PROVE ScenarioInv'
  BY <1>5, WithoutKeeps DEF FireStep
<1>6. ASSUME NEW name \in Scripts, StartScript(name) PROVE ScenarioInv'
  BY <1>6, StartKeeps
<1>7. CASE Stop
  BY <1>7, StopKeeps
<1>8. CASE SpotTick
  BY <1>8, RestKeeps DEF SpotTick, clockVars, scenarioVars
<1>9. CASE UNCHANGED simVars
  BY <1>9, RestKeeps DEF simVars, clockVars, scenarioVars
<1> QED BY <1>1, <1>2, <1>3, <1>4, <1>5, <1>6, <1>7, <1>8, <1>9 DEF SimNext

(* No step of a script outlives the next start or a cancel, whatever orders   *)
(* wait on the same clock (ScenarioRunner.start, cancel).                    *)
THEOREM SupersededAlwaysSilent == SimSpec => []SupersededSilent
<1>1. ScenarioInv => SupersededSilent
  BY DEF ScenarioInv
<1> QED BY <1>1, ScenarioStart, ScenarioStep, PTL DEF SimSpec

(* The exact averages.  Every operator on them reduces what it returns, so   *)
(* what is known of a fraction is a quotient it equals: Is(a, n, d).         *)
Fractions == Int \X (Nat \ {0})

(* a is n / d, whatever it is reduced to. *)
Is(a, n, d) == a \in Fractions /\ d \in Nat \ {0} /\ n \in Int /\ a[1] * d = n * a[2]

LEMMA ReducedIs ==
  ASSUME NEW n \in Int, NEW d \in Nat \ {0}
  PROVE  /\ Is(Reduced(n, d), n, d)
         /\ \A k \in Int : n = k * d => Reduced(n, d) = Whole(k)
<1> DEFINE Common(k) == n % k = 0 /\ d % k = 0
           S == {k \in 1 .. d : Common(k)}
           Greatest(g) == Common(g) /\ \A j \in (g + 1) .. d : n % j # 0 \/ d % j # 0
           g == CHOOSE k \in 1 .. d : Greatest(k)
<1>1. S \in SUBSET (1 .. d) /\ 1 \in S
  <2>1. n % 1 = 0 /\ d % 1 = 0 /\ 1 \in 1 .. d
    OBVIOUS
  <2> QED BY <2>1
<1>2. \E k \in 1 .. d : Greatest(k)
  <2> DEFINE m == Max(S)
  <2>1. m \in S /\ \A y \in S : m >= y
    BY <1>1, MaxOfRange
  <2> HIDE DEF m
  <2>2. m \in 1 .. d /\ Common(m)
    BY <2>1
  <2>3. \A j \in (m + 1) .. d : j \notin S
    <3> HIDE DEF S
    <3>1. \A j \in (m + 1) .. d : j > m
      BY <2>2
    <3> QED BY <2>1, <2>2, <3>1
  <2>4. \A j \in (m + 1) .. d : j \in 1 .. d
    BY <2>2
  <2>5. \A j \in (m + 1) .. d : n % j # 0 \/ d % j # 0
    BY <2>3, <2>4
  <2> QED BY <2>2, <2>5
<1>3. g \in 1 .. d /\ Greatest(g)
  BY <1>2
<1>4. Reduced(n, d) = <<n \div g, d \div g>>
  BY DEF Reduced
<1> HIDE DEF g
<1> DEFINE a == n \div g
           b == d \div g
<1>5. a \in Int /\ b \in Int /\ n = g * a /\ d = g * b
  BY <1>3
<1> HIDE DEF a, b
<1>6. b > 0
  BY <1>3, <1>5
<1>7. a * d = n * b
  BY <1>3, <1>5, <1>6
<1>8. Reduced(n, d) = <<a, b>>
  BY <1>4 DEF a, b
<1>9. Is(Reduced(n, d), n, d)
  BY <1>5, <1>6, <1>7, <1>8 DEF Is, Fractions
<1>10. ASSUME NEW k \in Int, n = k * d PROVE Reduced(n, d) = Whole(k)
  <2>1. n % d = 0 /\ d % d = 0 /\ n \div d = k /\ d \div d = 1
    BY <1>10
  <2>2. g = d
    BY <1>3, <2>1
  <2> QED BY <1>4, <2>1, <2>2 DEF Whole
<1> QED BY <1>9, <1>10

LEMMA OverIs ==
  ASSUME NEW n \in Int, NEW d \in Int, d # 0
  PROVE  /\ d > 0 => Is(Over(n, d), n, d)
         /\ d < 0 => Is(Over(n, d), -n, -d)
         /\ Over(n, d) \in Fractions
         /\ \A k \in Int : n = k * d => Over(n, d) = Whole(k)
<1>1. CASE d > 0
  BY <1>1, ReducedIs DEF Over, Is
<1>2. CASE d < 0
  <2>1. -d \in Nat \ {0} /\ -n \in Int
    BY <1>2
  <2>2. \A k \in Int : n = k * d => -n = k * (-d)
    OBVIOUS
  <2>3. Over(n, d) = Reduced(-n, -d)
    BY <1>2 DEF Over
  <2> QED BY <1>2, <2>1, <2>2, <2>3, ReducedIs DEF Is
<1> QED BY <1>1, <1>2

LEMMA Cancelled ==
  ASSUME NEW x \in Int, NEW y \in Int, NEW c \in Int, c # 0, x * c = y * c
  PROVE  x = y
OBVIOUS

(* What a[1] / a[2] equals is not changed by the reduction. *)
LEMMA IsTransfers ==
  ASSUME NEW a, NEW N \in Int, NEW D \in Nat \ {0}, Is(a, N, D),
         NEW n \in Int, NEW d \in Nat \ {0}, N * d = n * D
  PROVE  Is(a, n, d)
<1> DEFINE p == a[1]
           q == a[2]
<1>1. p \in Int /\ q \in Nat \ {0} /\ p * D = N * q /\ a \in Fractions
  BY DEF Is, Fractions
<1> HIDE DEF p, q
<1>2. (p * d) * D = (n * q) * D
  <2>1. (p * d) * D = (p * D) * d
    BY <1>1
  <2>2. (N * q) * d = (N * d) * q
    BY <1>1
  <2>3. (n * D) * q = (n * q) * D
    BY <1>1
  <2> QED BY <1>1, <2>1, <2>2, <2>3
<1>3. p * d \in Int /\ n * q \in Int /\ D # 0
  BY <1>1
<1> DEFINE x == p * d
           y == n * q
<1> HIDE DEF x, y
<1>4. x = y
  BY <1>2, <1>3, Cancelled DEF x, y
<1> QED BY <1>1, <1>4 DEF Is, x, y, p, q

LEMMA WholeIs ==
  ASSUME NEW k \in Int, NEW d \in Nat \ {0}
  PROVE  Is(Whole(k), k * d, d)
BY DEF Is, Whole, Fractions

LEMMA PlusIs ==
  ASSUME NEW a, NEW b, NEW n, NEW m, NEW d, Is(a, n, d), Is(b, m, d)
  PROVE  Is(Plus(a, b), n + m, d)
<1> DEFINE p == a[1]
           q == a[2]
           r == b[1]
           s == b[2]
           N == p * s + r * q
           D == q * s
<1>1. /\ p \in Int /\ q \in Nat \ {0} /\ p * d = n * q
      /\ r \in Int /\ s \in Nat \ {0} /\ r * d = m * s
      /\ d \in Nat \ {0} /\ n \in Int /\ m \in Int
  BY DEF Is, Fractions
<1>2. Plus(a, b) = Over(N, D)
  BY DEF Plus
<1> HIDE DEF p, q, r, s
<1>3. N \in Int /\ D \in Nat \ {0}
  BY <1>1
<1>4. N * d = (n + m) * D
  <2>1. (p * s + r * q) * d = (p * d) * s + (r * d) * q
    BY <1>1
  <2>2. (n * q) * s + (m * s) * q = (n + m) * (q * s)
    BY <1>1
  <2> QED BY <1>1, <2>1, <2>2
<1> HIDE DEF N, D
<1>5. Is(Over(N, D), N, D)
  BY <1>3, OverIs
<1>6. n + m \in Int
  BY <1>1
<1>7. Is(Over(N, D), n + m, d)
  BY <1>1, <1>3, <1>4, <1>5, <1>6, IsTransfers
<1> QED BY <1>2, <1>7

LEMMA TimesIs ==
  ASSUME NEW a, NEW n, NEW d, Is(a, n, d), NEW k \in Int
  PROVE  Is(Times(a, k), n * k, d)
<1> DEFINE p == a[1]
           q == a[2]
           N == p * k
<1>1. p \in Int /\ q \in Nat \ {0} /\ p * d = n * q /\ d \in Nat \ {0} /\ n \in Int
  BY DEF Is, Fractions
<1>2. Times(a, k) = Over(N, q)
  BY DEF Times
<1> HIDE DEF p, q
<1>3. N \in Int
  BY <1>1
<1>4. N * d = (n * k) * q
  <2>1. (p * k) * d = (p * d) * k
    BY <1>1
  <2>2. (n * q) * k = (n * k) * q
    BY <1>1
  <2> QED BY <1>1, <2>1, <2>2
<1> HIDE DEF N
<1>5. Is(Over(N, q), N, q)
  BY <1>1, <1>3, OverIs
<1>6. n * k \in Int
  BY <1>1
<1>7. Is(Over(N, q), n * k, d)
  BY <1>1, <1>3, <1>4, <1>5, <1>6, IsTransfers
<1> QED BY <1>2, <1>7

LEMMA ScaleIs ==
  ASSUME NEW a, NEW n, NEW d, Is(a, n, d), NEW k \in Nat \ {0}
  PROVE  Is(a, n * k, d * k)
<1> DEFINE p == a[1]
           q == a[2]
<1>1. /\ p \in Int /\ q \in Nat \ {0} /\ p * d = n * q /\ d \in Nat \ {0} /\ n \in Int
      /\ a \in Fractions
  BY DEF Is, Fractions
<1> HIDE DEF p, q
<1>2. p * (d * k) = (n * k) * q
  <2>1. p * (d * k) = (p * d) * k
    BY <1>1
  <2>2. (n * q) * k = (n * k) * q
    BY <1>1
  <2> QED BY <1>1, <2>1, <2>2
<1>3. d * k \in Nat \ {0} /\ n * k \in Int
  BY <1>1
<1> QED BY <1>1, <1>2, <1>3 DEF Is, p, q

(* A sum that is a whole number is written as one. *)
LEMMA PlusWhole ==
  ASSUME NEW a, NEW b, NEW n, NEW m, NEW d, Is(a, n, d), Is(b, m, d), NEW k \in Int, n + m = k * d
  PROVE  Plus(a, b) = Whole(k)
<1> DEFINE p == a[1]
           q == a[2]
           r == b[1]
           s == b[2]
           N == p * s + r * q
           D == q * s
<1>1. /\ p \in Int /\ q \in Nat \ {0} /\ p * d = n * q
      /\ r \in Int /\ s \in Nat \ {0} /\ r * d = m * s
      /\ d \in Nat \ {0} /\ n \in Int /\ m \in Int
  BY DEF Is, Fractions
<1>2. Plus(a, b) = Over(N, D)
  BY DEF Plus
<1> HIDE DEF p, q, r, s
<1>3. N \in Int /\ D \in Nat \ {0}
  BY <1>1
<1>4. N * d = (k * D) * d
  <2>1. (p * s + r * q) * d = (p * d) * s + (r * d) * q
    BY <1>1
  <2>2. (n * q) * s + (m * s) * q = (n + m) * (q * s)
    BY <1>1
  <2>3. (k * d) * (q * s) = (k * (q * s)) * d
    BY <1>1
  <2> QED BY <1>1, <2>1, <2>2, <2>3
<1> HIDE DEF N, D
<1>5. k * D \in Int
  BY <1>3
<1> DEFINE y == k * D
<1> HIDE DEF y
<1>6. N = y
  BY <1>1, <1>3, <1>4, <1>5, Cancelled DEF y
<1>7. N = k * D
  BY <1>6 DEF y
<1> QED BY <1>2, <1>3, <1>7, OverIs

-----------------------------------------------------------------------------
(* The holding and what a trade does to it.                                  *)
Holdings == [yes : Int, no : Int, net : Int, basis : Fractions, realized : Fractions]

LEMMA FractionTypes ==
  /\ \A k \in Int : Whole(k) \in Fractions
  /\ \A a \in Fractions, k \in Int : Times(a, k) \in Fractions
  /\ \A a, b \in Fractions : Plus(a, b) \in Fractions
<1>1. \A k \in Int : Whole(k) \in Fractions
  BY DEF Whole, Fractions
<1>2. ASSUME NEW a \in Fractions, NEW k \in Int PROVE Times(a, k) \in Fractions
  <2>1. a[1] * k \in Int /\ a[2] \in Int /\ a[2] # 0
    BY DEF Fractions
  <2> QED BY <2>1, OverIs DEF Times
<1>3. ASSUME NEW a \in Fractions, NEW b \in Fractions PROVE Plus(a, b) \in Fractions
  <2>1. a[1] \in Int /\ b[1] \in Int /\ a[2] \in Nat \ {0} /\ b[2] \in Nat \ {0}
    BY DEF Fractions
  <2>2. a[1] * b[2] + b[1] * a[2] \in Int /\ a[2] * b[2] \in Int /\ a[2] * b[2] # 0
    BY <2>1
  <2> QED BY <2>2, OverIs DEF Plus
<1> QED BY <1>1, <1>2, <1>3

(* The parts of Netted. *)
Extends(h, delta) == h.net = 0 \/ Sign(delta) = Sign(h.net)
Weighted(h, delta, price) == Plus(Times(h.basis, h.net), Whole(price * delta))
Averaged(h, delta, price) ==
  Over(Weighted(h, delta, price)[1], Weighted(h, delta, price)[2] * (h.net + delta))
Closing(h, delta) == Smaller(Abs(delta), Abs(h.net))
Gain(h, delta, price) ==
  Times(Plus(Whole(price), Times(h.basis, -1)), Sign(h.net) * Closing(h, delta))
BasisLeft(h, delta, price) ==
  IF Abs(delta) > Closing(h, delta) THEN Whole(price)
  ELSE IF h.net + delta = 0 THEN Whole(0) ELSE h.basis

LEMMA NettedIs ==
  ASSUME NEW h \in Holdings, NEW delta \in Int, NEW price \in Int
  PROVE  /\ Extends(h, delta) =>
              Netted(h, delta, price) = [yes |-> h.yes, no |-> h.no, net |-> h.net + delta,
                                         basis |-> Averaged(h, delta, price), realized |-> h.realized]
         /\ ~Extends(h, delta) =>
              Netted(h, delta, price) = [yes |-> h.yes, no |-> h.no, net |-> h.net + delta,
                                         basis |-> BasisLeft(h, delta, price),
                                         realized |-> Plus(h.realized, Gain(h, delta, price))]
<1>1. CASE Extends(h, delta)
  <2>1. Netted(h, delta, price) = [h EXCEPT !.net = h.net + delta, !.basis = Averaged(h, delta, price)]
    BY <1>1 DEF Netted, Extends, Averaged, Weighted
  <2> QED BY <1>1, <2>1 DEF Holdings
<1>2. CASE ~Extends(h, delta)
  <2>1. Netted(h, delta, price) = [h EXCEPT !.net = h.net + delta,
             !.realized = Plus(h.realized, Gain(h, delta, price)),
             !.basis = BasisLeft(h, delta, price)]
    BY <1>2 DEF Netted, Extends, BasisLeft, Gain, Closing
  <2> QED BY <1>2, <2>1 DEF Holdings
<1> QED BY <1>1, <1>2

LEMMA ExtendsNonzero ==
  ASSUME NEW h \in Holdings, NEW delta \in Int, delta # 0, Extends(h, delta)
  PROVE  h.net + delta # 0
BY DEF Extends, Sign, Holdings

LEMMA NettedType ==
  ASSUME NEW h \in Holdings, NEW delta \in Int, delta # 0, NEW price \in Int
  PROVE  Netted(h, delta, price) \in Holdings
<1>1. h.basis \in Fractions /\ h.realized \in Fractions /\ h.net \in Int /\ h.yes \in Int /\ h.no \in Int
  BY DEF Holdings
<1>2. h.net + delta \in Int /\ price * delta \in Int
  BY <1>1
<1>3. CASE Extends(h, delta)
  <2>1. Weighted(h, delta, price) \in Fractions
    BY <1>1, <1>2, FractionTypes DEF Weighted
  <2> DEFINE w == Weighted(h, delta, price)
             net == h.net + delta
  <2>2. w[1] \in Int /\ w[2] \in Nat \ {0} /\ net \in Int /\ net # 0
    BY <1>2, <1>3, <2>1, ExtendsNonzero DEF Fractions
  <2>3. Averaged(h, delta, price) = Over(w[1], w[2] * net)
    BY DEF Averaged
  <2> HIDE DEF w, net
  <2>4. w[2] * net \in Int /\ w[2] * net # 0
    BY <2>2
  <2>5. Averaged(h, delta, price) \in Fractions
    BY <2>2, <2>3, <2>4, OverIs
  <2> QED BY <1>1, <1>2, <1>3, <2>5, NettedIs DEF Holdings
<1>4. CASE ~Extends(h, delta)
  <2>1. Closing(h, delta) \in Int /\ Sign(h.net) \in Int
    BY <1>1 DEF Closing, Smaller, Abs, Sign
  <2>2. Sign(h.net) * Closing(h, delta) \in Int
    BY <2>1
  <2>3. Gain(h, delta, price) \in Fractions
    BY <1>1, <2>2, FractionTypes DEF Gain
  <2>4. BasisLeft(h, delta, price) \in Fractions
    BY <1>1, FractionTypes DEF BasisLeft
  <2>5. Plus(h.realized, Gain(h, delta, price)) \in Fractions
    BY <1>1, <2>3, FractionTypes
  <2> QED BY <1>1, <1>2, <1>4, <2>4, <2>5, NettedIs DEF Holdings
<1> QED BY <1>3, <1>4

(* The balance of a net position, with the average n / d and the profit m / d, *)
(* against the money and the NO tokens, `worth`: over one denominator, so that *)
(* every case is a sum.                                                     *)
Balance(d, n, m, net, worth) == worth * d + n * net - m = InitialCash * d
Valued(basis, realized, net, worth) ==
  \E d \in Nat \ {0} : \E n, m \in Int :
    Is(basis, n, d) /\ Is(realized, m, d) /\ Balance(d, n, m, net, worth)

LEMMA ExtendedValued ==
  ASSUME InitialCash \in Int, NEW h \in Holdings, NEW delta \in Int, delta # 0, NEW price \in Int,
         NEW worth \in Int, Valued(h.basis, h.realized, h.net, worth), Extends(h, delta)
  PROVE  Valued(Averaged(h, delta, price), h.realized, h.net + delta, worth - price * delta)
<1>1. PICK d \in Nat \ {0}, n \in Int, m \in Int :
        Is(h.basis, n, d) /\ Is(h.realized, m, d) /\ Balance(d, n, m, h.net, worth)
  BY DEF Valued
<1> DEFINE net == h.net
           new == net + delta
           w == Weighted(h, delta, price)
           top == n * net + (price * delta) * d
           size == Abs(new)
           c == IF new > 0 THEN top ELSE -top
<1>2. net \in Int /\ new \in Int /\ new # 0 /\ size \in Nat \ {0} /\ price * delta \in Int
  BY ExtendsNonzero DEF Holdings, Abs
<1>3. Is(w, top, d)
  <2>1. Is(Times(h.basis, net), n * net, d) /\ Is(Whole(price * delta), (price * delta) * d, d)
    BY <1>1, <1>2, TimesIs, WholeIs
  <2> QED BY <2>1, PlusIs DEF Weighted
<1>4. Averaged(h, delta, price) = Over(w[1], w[2] * new)
  BY DEF Averaged
<1> HIDE DEF net, new, w, size
<1>5. top \in Int /\ c \in Int
  BY <1>1, <1>2
<1>6. c * new = top * size
  <2>1. new > 0 => size = new /\ c = top
    BY <1>2 DEF size, Abs
  <2>2. new < 0 => size = -new /\ c = -top
    BY <1>2 DEF size, Abs
  <2> HIDE DEF top, c
  <2>3. (-top) * new = top * (-new)
    BY <1>2, <1>5
  <2> QED BY <1>2, <1>5, <2>1, <2>2, <2>3
<1>7. Is(Averaged(h, delta, price), c, d * size)
  <2> DEFINE p == w[1]
             q == w[2]
  <2>1. p \in Int /\ q \in Nat \ {0} /\ p * d = top * q
    BY <1>3 DEF Is, Fractions
  <2> HIDE DEF p, q, top
  <2>2. d * size \in Nat \ {0}
    BY <1>1, <1>2
  <2>3. CASE new > 0
    <3>1. size = new /\ c = top /\ q * new \in Nat \ {0}
      BY <1>2, <2>1, <2>3 DEF size, Abs
    <3>2. Is(Over(p, q * new), p, q * new)
      BY <2>1, <3>1, OverIs
    <3>3. p * (d * size) = c * (q * new)
      <4>1. p * (d * new) = (p * d) * new /\ top * (q * new) = (top * q) * new
        BY <1>1, <1>2, <1>5, <2>1
      <4> QED BY <2>1, <3>1, <4>1
    <3> QED BY <1>4, <1>5, <2>1, <2>2, <3>1, <3>2, <3>3, IsTransfers DEF p, q
  <2>4. CASE new < 0
    <3>1. size = -new /\ c = -top /\ q * new \in Int /\ q * new < 0 /\ -(q * new) \in Nat \ {0}
      BY <1>2, <2>1, <2>4 DEF size, Abs
    <3>2. Is(Over(p, q * new), -p, -(q * new))
      BY <2>1, <3>1, OverIs
    <3>3. (-p) * (d * size) = c * (-(q * new))
      <4>1. (-p) * (d * (-new)) = (p * d) * new /\ (-top) * (-(q * new)) = (top * q) * new
        BY <1>1, <1>2, <1>5, <2>1
      <4> QED BY <2>1, <3>1, <4>1
    <3>4. -p \in Int
      BY <2>1
    <3> QED BY <1>4, <1>5, <2>2, <3>1, <3>2, <3>3, <3>4, IsTransfers DEF p, q
  <2> QED BY <1>2, <2>3, <2>4
<1>8. Is(h.realized, m * size, d * size)
  BY <1>1, <1>2, ScaleIs
<1>9. Balance(d * size, c, m * size, new, worth - price * delta)
  <2> DEFINE x == price * delta
  <2>0. x \in Int
    BY <1>2
  <2>1. worth * d + n * net - m = InitialCash * d
    BY <1>1 DEF Balance, net
  <2>2. (worth - x) * d + top - m = InitialCash * d
    <3>1. (worth - x) * d = worth * d - x * d
      BY <1>1, <2>0
    <3>2. top = n * net + x * d
      OBVIOUS
    <3>3. x * d \in Int /\ n * net \in Int /\ worth * d \in Int
      BY <1>1, <1>2, <2>0
    <3> HIDE DEF x, top
    <3> QED BY <1>1, <2>1, <3>1, <3>2, <3>3
  <2> HIDE DEF x, top, c
  <2>3. ((worth - x) * d + top - m) * size = (worth - x) * (d * size) + c * new - m * size
    <3>1. ((worth - x) * d) * size = (worth - x) * (d * size)
      BY <1>1, <1>2, <2>0
    <3>2. ((worth - x) * d + top - m) * size = ((worth - x) * d) * size + top * size - m * size
      <4>1. (worth - x) * d \in Int
        BY <1>1, <2>0
      <4> DEFINE y == (worth - x) * d
      <4> HIDE DEF y
      <4>2. (y + top - m) * size = y * size + top * size - m * size
        BY <1>1, <1>2, <1>5, <4>1 DEF y
      <4> QED BY <4>2 DEF y
    <3> QED BY <1>6, <3>1, <3>2
  <2>4. (InitialCash * d) * size = InitialCash * (d * size)
    BY <1>1, <1>2
  <2>5. Balance(d * size, c, m * size, new, worth - x)
    BY <2>2, <2>3, <2>4 DEF Balance
  <2> QED BY <2>5 DEF x
<1>10. d * size \in Nat \ {0} /\ m * size \in Int
  BY <1>1, <1>2
<1> HIDE DEF c
<1> QED BY <1>5, <1>7, <1>8, <1>9, <1>10 DEF Valued, net, new

LEMMA NettedAway ==
  ASSUME InitialCash \in Int, NEW h \in Holdings, NEW delta \in Int, delta # 0, NEW price \in Int,
         NEW worth \in Int, Valued(h.basis, h.realized, h.net, worth), ~Extends(h, delta)
  PROVE  Valued(BasisLeft(h, delta, price), Plus(h.realized, Gain(h, delta, price)),
                h.net + delta, worth - price * delta)
<1>1. PICK d \in Nat \ {0}, n \in Int, m \in Int :
        Is(h.basis, n, d) /\ Is(h.realized, m, d) /\ Balance(d, n, m, h.net, worth)
  BY DEF Valued
<1> DEFINE net == h.net
           k == Sign(net) * Closing(h, delta)
           f == price * d + n * (-1)
<1>2. net \in Int /\ net # 0
  BY DEF Holdings, Extends
<1>3. /\ Closing(h, delta) \in Nat
      /\ Abs(delta) > Closing(h, delta) => k = net
      /\ ~(Abs(delta) > Closing(h, delta)) => k = -delta
  BY <1>2 DEF Extends, Sign, Closing, Smaller, Abs
<1>4. k \in Int
  BY <1>2, <1>3 DEF Sign
<1>5. Is(Gain(h, delta, price), f * k, d)
  <2>1. Is(Whole(price), price * d, d) /\ Is(Times(h.basis, -1), n * (-1), d)
    BY <1>1, WholeIs, TimesIs
  <2>2. Is(Plus(Whole(price), Times(h.basis, -1)), f, d)
    BY <2>1, PlusIs
  <2> QED BY <1>4, <2>2, TimesIs DEF Gain
<1> HIDE DEF net, k
<1>6. f \in Int /\ f * k \in Int
  BY <1>1, <1>4
<1>7. Is(Plus(h.realized, Gain(h, delta, price)), m + f * k, d) /\ m + f * k \in Int
  BY <1>1, <1>5, <1>6, PlusIs
<1>8. worth * d + n * net - m = InitialCash * d
  BY <1>1 DEF Balance, net
<1>9. f * k = (price * k) * d - n * k
  BY <1>1, <1>4
<1>10. (worth - price * delta) * d = worth * d - (price * delta) * d
  BY <1>1
<1> DEFINE a == worth * d
           b == n * net
           e == (price * delta) * d
           g == InitialCash * d
<1>11. a \in Int /\ b \in Int /\ e \in Int /\ g \in Int /\ m \in Int /\ d \in Nat \ {0}
  BY <1>1, <1>2
<1>12. CASE Abs(delta) > Closing(h, delta)
  <2>1. k = net
    BY <1>3, <1>12 DEF net
  <2>2. Is(BasisLeft(h, delta, price), price * d, d) /\ price * d \in Int
    BY <1>1, <1>12, WholeIs DEF BasisLeft
  <2>3. (price * d) * (net + delta) = (price * k) * d + e
    BY <1>1, <1>2, <2>1
  <2>4. f * k = (price * k) * d - b
    BY <1>9, <2>1
  <2> DEFINE q == (price * k) * d
  <2>5. q \in Int
    BY <1>1, <1>4
  <2>6. (price * d) * (net + delta) = q + e /\ f * k = q - b /\ a + b - m = g
        /\ (worth - price * delta) * d = a - e
    BY <1>8, <1>10, <2>3, <2>4
  <2> DEFINE x == (worth - price * delta) * d
             y == (price * d) * (net + delta)
             z == f * k
  <2> HIDE DEF a, b, e, g, q, f, x, y, z
  <2>7. x + y - (m + z) = g
    <3>1. y = q + e /\ z = q - b /\ a + b - m = g /\ x = a - e
      BY <2>6 DEF x, y, z
    <3> QED BY <1>11, <2>5, <3>1
  <2>8. Balance(d, price * d, m + f * k, net + delta, worth - price * delta)
    BY <2>7 DEF Balance, g, x, y, z
  <2> QED BY <1>1, <1>7, <2>2, <2>8 DEF Valued, net
<1>13. CASE ~(Abs(delta) > Closing(h, delta))
  <2>1. k = -delta
    BY <1>3, <1>13
  <2> DEFINE j == IF net + delta = 0 THEN 0 ELSE n
  <2>2. Is(BasisLeft(h, delta, price), j, d) /\ j \in Int
    <3>1. Is(Whole(0), 0 * d, d) /\ 0 * d = 0
      BY <1>1, WholeIs
    <3> QED BY <1>1, <1>13, <3>1 DEF BasisLeft, net
  <2>3. j * (net + delta) = b + n * delta
    <3>1. n * (net + delta) = b + n * delta
      BY <1>1, <1>2
    <3>2. net + delta = 0 => n * (net + delta) = 0 /\ j * (net + delta) = 0
      BY <1>1, <2>2
    <3>3. net + delta # 0 => j = n
      OBVIOUS
    <3> HIDE DEF j
    <3> QED BY <3>1, <3>2, <3>3
  <2>4. f * k = n * delta - e
    <3>1. (price * (-delta)) * d = -e /\ n * (-delta) = -(n * delta)
      BY <1>1
    <3>2. n * delta \in Int
      BY <1>1
    <3> HIDE DEF e
    <3> QED BY <1>9, <1>11, <2>1, <3>1, <3>2
  <2> DEFINE q == n * delta
  <2>5. q \in Int
    BY <1>1
  <2>6. j * (net + delta) = b + q /\ f * k = q - e /\ a + b - m = g
        /\ (worth - price * delta) * d = a - e
    BY <1>8, <1>10, <2>3, <2>4
  <2> DEFINE x == (worth - price * delta) * d
             y == j * (net + delta)
             z == f * k
  <2> HIDE DEF a, b, e, g, q, f, j, x, y, z
  <2>7. x + y - (m + z) = g
    <3>1. y = b + q /\ z = q - e /\ a + b - m = g /\ x = a - e
      BY <2>6 DEF x, y, z
    <3> QED BY <1>11, <2>5, <3>1
  <2>8. Balance(d, j, m + f * k, net + delta, worth - price * delta)
    BY <2>7 DEF Balance, g, x, y, z
  <2> QED BY <1>1, <1>7, <2>2, <2>8 DEF Valued, net
<1> QED BY <1>12, <1>13

-----------------------------------------------------------------------------
(* InOrder lists a set: every member, and the earlier at the earlier place.    *)
LEMMA InOrderSorts ==
  ASSUME NEW S, IsFiniteSet(S), NEW R, IsOrderOf(R, S), NEW at, at = InOrder(S, R)
  PROVE  /\ Cardinality(S) \in Nat /\ DOMAIN at = 1 .. Cardinality(S)
         /\ \A k \in DOMAIN at : at[k] \in S
         /\ \A i \in S : \E k \in DOMAIN at : at[k] = i
         /\ \A j, k \in DOMAIN at : <<at[j], at[k]>> \in R => j < k
<1> DEFINE n == Cardinality(S)
           Ranked(i, k) == Cardinality(Earlier(S, R, i)) = k - 1
<1>1. /\ n \in Nat /\ DOMAIN at = 1 .. n
      /\ \A k \in 1 .. n : at[k] = CHOOSE i \in S : Ranked(i, k)
  <2>1. n \in Nat
    BY FS_CardinalityType
  <2>2. at = [k \in 1 .. n |-> CHOOSE i \in S : Ranked(i, k)]
    BY Zenon DEF InOrder, Earlier
  <2> HIDE DEF n, Ranked
  <2> QED BY <2>1, <2>2
<1>2. \A k \in 1 .. n : at[k] \in S /\ Cardinality(Earlier(S, R, at[k])) = k - 1
  <2> SUFFICES ASSUME NEW k \in 1 .. n PROVE at[k] \in S /\ Ranked(at[k], k)
    OBVIOUS
  <2>1. k - 1 \in 0 .. n - 1
    BY <1>1
  <2>2. \E i \in S : Ranked(i, k)
    BY <2>1, RanksReached
  <2> QED BY <1>1, <2>2
<1> HIDE DEF n
<1>3. ASSUME NEW i \in S PROVE \E k \in 1 .. n : at[k] = i
  <2> DEFINE r == Cardinality(Earlier(S, R, i))
  <2>1. r \in 0 .. n - 1
    BY RanksIncrease DEF n
  <2>2. r + 1 \in 1 .. n /\ (r + 1) - 1 = r
    BY <1>1, <2>1
  <2>3. at[r + 1] \in S /\ Cardinality(Earlier(S, R, at[r + 1])) = r
    BY <1>2, <2>2
  <2> HIDE DEF r
  <2>4. \A x, y \in S : <<x, y>> \in R => Cardinality(Earlier(S, R, x)) < Cardinality(Earlier(S, R, y))
    BY RanksIncrease
  <2>5. Cardinality(Earlier(S, R, i)) = r /\ ~(r < r)
    BY <2>1 DEF r
  <2>6. at[r + 1] = i
    BY <2>3, <2>4, <2>5 DEF IsOrderOf
  <2> QED BY <2>2, <2>6
<1>4. ASSUME NEW j \in 1 .. n, NEW k \in 1 .. n, <<at[j], at[k]>> \in R PROVE j < k
  <2>1. Cardinality(Earlier(S, R, at[j])) < Cardinality(Earlier(S, R, at[k]))
    BY <1>2, <1>4, RanksIncrease
  <2> QED BY <1>1, <1>2, <2>1
<1> QED BY <1>1, <1>2, <1>3, <1>4 DEF n

(* Choosing places of a sequence gives a sequence of what is there.           *)
TakenFrom(c, s, places) == \A i \in DOMAIN c : \E k \in places : c[i] = s[k]

LEMMA ChosenIs ==
  ASSUME NEW n \in Nat, NEW s, NEW places \in SUBSET (1 .. n), NEW T, \A k \in places : s[k] \in T
  PROVE  Chosen(s, places) \in Seq(T) /\ TakenFrom(Chosen(s, places), s, places)
<1> DEFINE R == {p \in places \X places : p[1] < p[2]}
           at == InOrder(places, R)
<1>1. IsFiniteSet(places)
  <2>1. IsFiniteSet(1 .. n)
    BY FS_Interval
  <2> QED BY <2>1, FS_Subset
<1>2. IsOrderOf(R, places)
  <2>1. \A x, y \in places : <<x, y>> \in R <=> x < y
    OBVIOUS
  <2>2. places \subseteq Int
    OBVIOUS
  <2> HIDE DEF R
  <2> QED BY <2>1, <2>2 DEF IsOrderOf
<1> HIDE DEF R
<1>3. /\ Cardinality(places) \in Nat /\ DOMAIN at = 1 .. Cardinality(places)
      /\ \A k \in DOMAIN at : at[k] \in places
  BY <1>1, <1>2, InOrderSorts
<1>4. Chosen(s, places) = [k \in DOMAIN at |-> s[at[k]]]
  BY DEF Chosen, R
<1> DEFINE m == Cardinality(places)
           c == Chosen(s, places)
<1>5. c = [k \in 1 .. m |-> s[at[k]]]
  BY <1>3, <1>4
<1>6. m \in Nat /\ \A k \in 1 .. m : at[k] \in places /\ s[at[k]] \in T
  BY <1>3
<1> HIDE DEF at, m, c
<1>7. c \in Seq(T)
  BY <1>5, <1>6
<1>8. \A i \in DOMAIN c : \E k \in places : c[i] = s[k]
  BY <1>5, <1>6
<1> QED BY <1>7, <1>8 DEF c, TakenFrom

-----------------------------------------------------------------------------
(* The venue: what rests in the book, what is asked of it, what it offers.    *)
Entries == [id : Nat, side : Sides, price : Int, remaining : Nat, expires : Int]
Orders == [id : Nat, kind : Kinds, type : OrderTypes, size : Nat \ {0}, limit : Int, expires : Int]
Offers == [price : Int, size : Nat]

Answers == {"REJECTED", "QUEUED", "ACCEPTED"}

VenueType ==
  /\ latency \in Nat /\ fair \in Int /\ spread \in Int /\ depthOverride \in Int
  /\ acks \in Seq(Answers) /\ book \in Seq(Entries) /\ hold \in Holdings /\ cash \in Int

LEMMA SyntheticType ==
  ASSUME VenueType, NEW side \in Sides, NEW k \in -Levels .. -1
  PROVE  SyntheticPrice(side, k + Levels) \in Int /\ SyntheticSize(k + Levels) \in Nat
<1> DEFINE i == k + Levels
<1>1. i \in 0 .. Levels - 1 /\ Levels \in Nat
  BY VenueAssumption
<1> HIDE DEF i
<1>2. Noise[side][i] \in Int
  BY <1>1, VenueAssumption
<1>3. fair \in Int /\ spread \in Int /\ DepthNow \in Int /\ i \in Nat
  BY <1>1, VenueAssumption DEF VenueType, DepthNow
<1>4. SyntheticPrice(side, i) \in Int
  <2>1. spread \div 2 + i * spread \in Int
    BY <1>3
  <2>2. (Noise[side][i] * spread) \div 1000 \in Int
    BY <1>2, <1>3
  <2> DEFINE a == spread \div 2 + i * spread
             b == (Noise[side][i] * spread) \div 1000
  <2> HIDE DEF a, b
  <2>3. (fair + b + IF side = "bid" THEN -a ELSE a) \div 1000 \in Int
    BY <1>3, <2>1, <2>2 DEF a, b
  <2> QED BY <2>3 DEF SyntheticPrice, TickRaw, a, b
<1>5. SyntheticSize(i) \in Nat
  <2>1. (2 * DepthNow + i + 1) \div (2 * (i + 1)) \in Int
    BY <1>3
  <2> QED BY <2>1 DEF SyntheticSize, Larger
<1> QED BY <1>4, <1>5 DEF i

LEMMA EntryType ==
  ASSUME NEW r \in Entries
  PROVE  r.id \in Nat /\ r.side \in Sides /\ r.price \in Int /\ r.remaining \in Nat /\ r.expires \in Int
BY DEF Entries

LEMMA LevelType ==
  ASSUME VenueType, NEW side \in Sides, NEW t, NEW k \in LevelKeys(side, t)
  PROVE  /\ k \in Int /\ Level(side, k) \in Offers
         /\ k >= 0 => k \in DOMAIN book /\ Rests(book[k], side, t)
                      /\ Level(side, k).price = book[k].price /\ Level(side, k).size = book[k].remaining
<1>1. CASE k \in SyntheticKeys(side)
  <2>1. k \in -Levels .. -1 /\ Levels \in Nat
    BY <1>1, VenueAssumption DEF SyntheticKeys
  <2>2. k < 0 /\ k \in Int
    BY <2>1
  <2>3. Level(side, k) = [price |-> SyntheticPrice(side, k + Levels), size |-> SyntheticSize(k + Levels)]
    BY <2>2 DEF Level
  <2>4. SyntheticPrice(side, k + Levels) \in Int /\ SyntheticSize(k + Levels) \in Nat
    BY <2>1, SyntheticType
  <2>5. Level(side, k) \in Offers
    BY <2>3, <2>4 DEF Offers
  <2> QED BY <2>2, <2>5
<1>2. CASE k \in DOMAIN book /\ Rests(book[k], side, t)
  <2>1. book \in Seq(Entries)
    BY DEF VenueType
  <2>2. k \in Nat /\ k # 0 /\ book[k] \in Entries
    BY <1>2, <2>1
  <2>3. Level(side, k) = [price |-> book[k].price, size |-> book[k].remaining]
    BY <2>2 DEF Level
  <2>4. Level(side, k) \in Offers
    BY <2>2, <2>3, EntryType DEF Offers
  <2> QED BY <1>2, <2>2, <2>3, <2>4
<1> QED BY <1>1, <1>2 DEF LevelKeys

(* The order the levels are walked in. *)
Ordering(side, t) ==
  {p \in LevelKeys(side, t) \X LevelKeys(side, t) : Better(side, p[1], p[2])}

(* Better is a strict total order of the levels, so the walk has one order.    *)
LEMMA LevelsOrdered ==
  ASSUME VenueType, NEW side \in Sides, NEW t
  PROVE  IsFiniteSet(LevelKeys(side, t)) /\ IsOrderOf(Ordering(side, t), LevelKeys(side, t))
<1> DEFINE K == LevelKeys(side, t)
           P(k) == Level(side, k).price
<1>1. IsFiniteSet(K)
  <2>1. IsFiniteSet(-Levels .. -1) /\ IsFiniteSet(1 .. Len(book)) /\ DOMAIN book = 1 .. Len(book)
    <3>1. -Levels \in Int /\ -1 \in Int /\ Len(book) \in Int /\ 1 \in Int /\ DOMAIN book = 1 .. Len(book)
      BY VenueAssumption DEF VenueType
    <3> QED BY <3>1, FS_Interval
  <2>2. IsFiniteSet(SyntheticKeys(side)) /\ IsFiniteSet({k \in DOMAIN book : Rests(book[k], side, t)})
    BY <2>1, FS_Subset DEF SyntheticKeys
  <2> QED BY <2>2, FS_Union DEF LevelKeys
<1>2. \A k \in K : k \in Int /\ P(k) \in Int
  <2> TAKE k \in K
  <2>1. k \in Int /\ Level(side, k) \in Offers
    BY LevelType
  <2> QED BY <2>1 DEF Offers
<1>3. \A j, k \in K : <<j, k>> \in Ordering(side, t) <=> Better(side, j, k)
  BY DEF Ordering
<1>4. \A j, k \in K : Better(side, j, k) <=>
        \/ P(j) = P(k) /\ j < k
        \/ side = "bid" /\ P(j) > P(k)
        \/ side # "bid" /\ P(j) < P(k)
  <2> SUFFICES ASSUME NEW j \in K, NEW k \in K
               PROVE  Better(side, j, k) <=> \/ P(j) = P(k) /\ j < k
                                             \/ side = "bid" /\ P(j) > P(k)
                                             \/ side # "bid" /\ P(j) < P(k)
    OBVIOUS
  <2> DEFINE a == P(j)
             b == P(k)
  <2>1. a \in Int /\ b \in Int
    BY <1>2
  <2>2. Better(side, j, k) <=> IF a = b THEN j < k ELSE (a > b) = (side = "bid")
    BY DEF Better
  <2> HIDE DEF a, b
  <2>3. CASE side = "bid"
    <3>1. ((a > b) = (side = "bid")) <=> a > b
      BY <2>1, <2>3
    <3>2. Better(side, j, k) <=> IF a = b THEN j < k ELSE a > b
      BY <2>2, <3>1
    <3>3. Better(side, j, k) <=> (a = b /\ j < k) \/ a > b
      BY <2>1, <3>2
    <3> QED BY <2>3, <3>3 DEF a, b
  <2>4. CASE side # "bid"
    <3>1. ((a > b) = (side = "bid")) <=> ~(a > b)
      BY <2>1, <2>4
    <3>2. Better(side, j, k) <=> IF a = b THEN j < k ELSE ~(a > b)
      BY <2>2, <3>1
    <3>3. Better(side, j, k) <=> (a = b /\ j < k) \/ a < b
      BY <2>1, <3>2
    <3> QED BY <2>4, <3>3 DEF a, b
  <2> QED BY <2>3, <2>4
<1> DEFINE R == Ordering(side, t)
<1> HIDE DEF K, P, R
<1>5. IsOrderOf(R, K)
  <2>1. \A j, k \in K : <<j, k>> \in R <=>
          \/ P(j) = P(k) /\ j < k
          \/ side = "bid" /\ P(j) > P(k)
          \/ side # "bid" /\ P(j) < P(k)
    BY <1>3, <1>4 DEF R
  <2> QED BY <1>2, <2>1 DEF IsOrderOf
<1> QED BY <1>1, <1>5 DEF K, R

(* The levels: every one that rests is among them, and of two at one price    *)
(* the one that rested first comes first.                                   *)
LEMMA LevelsAre ==
  ASSUME VenueType, NEW side \in Sides, NEW t, NEW at, at = LevelOrder(side, t)
  PROVE  /\ LevelsFor(side, t) \in Seq(Offers)
         /\ Len(LevelsFor(side, t)) \in Nat
         /\ DOMAIN at = 1 .. Len(LevelsFor(side, t))
         /\ \A k \in DOMAIN at : LevelsFor(side, t)[k] = Level(side, at[k]) /\ at[k] \in LevelKeys(side, t)
         /\ \A i \in LevelKeys(side, t) : \E k \in DOMAIN at : at[k] = i
         /\ \A j, k \in DOMAIN at : Better(side, at[j], at[k]) => j < k
<1> DEFINE K == LevelKeys(side, t)
           n == Cardinality(K)
<1>1. at = InOrder(K, Ordering(side, t))
  BY DEF LevelOrder, Ordering
<1>2. IsFiniteSet(K) /\ IsOrderOf(Ordering(side, t), K)
  BY LevelsOrdered
<1> HIDE DEF K
<1>3. /\ n \in Nat /\ DOMAIN at = 1 .. n
      /\ \A k \in DOMAIN at : at[k] \in K
      /\ \A i \in K : \E k \in DOMAIN at : at[k] = i
      /\ \A j, k \in DOMAIN at : <<at[j], at[k]>> \in Ordering(side, t) => j < k
  BY <1>1, <1>2, InOrderSorts
<1>4. LevelsFor(side, t) = [k \in DOMAIN at |-> Level(side, at[k])]
  BY DEF LevelsFor
<1>5. \A k \in DOMAIN at : Level(side, at[k]) \in Offers
  BY <1>3, LevelType DEF K
<1>6. LevelsFor(side, t) \in Seq(Offers) /\ Len(LevelsFor(side, t)) = n
  BY <1>3, <1>4, <1>5
<1>7. \A j, k \in DOMAIN at : Better(side, at[j], at[k]) => <<at[j], at[k]>> \in Ordering(side, t)
  BY <1>3 DEF Ordering, K
<1> QED BY <1>3, <1>4, <1>6, <1>7 DEF K

-----------------------------------------------------------------------------
(* What a trade takes off the resting orders.                                *)
Shrunk(a, b) == a.id = b.id /\ a.side = b.side /\ a.price = b.price /\ a.expires = b.expires
                /\ a.remaining <= b.remaining

(* The oldest of the orders that rest at this price. *)
Oldest(rest, side, price, t, k) ==
  /\ Rests(rest[k], side, t) /\ rest[k].price = price
  /\ \A j \in DOMAIN rest : j < k => ~(Rests(rest[j], side, t) /\ rest[j].price = price)

(* The one of them a trade of that size reaches first.                        *)
EmptiesOldest(rest, side, price, size, t, c, k) ==
  Oldest(rest, side, price, t, k) /\ rest[k].remaining <= size => c[k].remaining = 0

LEMMA ConsumeIs ==
  ASSUME NEW n \in Nat, NEW rest \in [1 .. n -> Entries], NEW side, NEW price \in Int,
         NEW size \in Nat, NEW t, NEW c, c = Consume(rest, side, price, size, t)
  PROVE  /\ c \in [1 .. n -> Entries]
         /\ \A k \in 1 .. n : Shrunk(c[k], rest[k])
         /\ \A k \in 1 .. n : EmptiesOldest(rest, side, price, size, t, c, k)
<1> DEFINE here == {k \in DOMAIN rest : Rests(rest[k], side, t) /\ rest[k].price = price}
           left == [j \in DOMAIN rest |-> rest[j].remaining]
           before(k) == {j \in here : j < k}
           ahead(k) == SumFunctionOnSet(left, before(k))
           taken(k) == IF k \in here THEN Larger(0, Smaller(rest[k].remaining, size - ahead(k))) ELSE 0
<1>1. c = [k \in DOMAIN rest |-> [rest[k] EXCEPT !.remaining = rest[k].remaining - taken(k)]]
  BY DEF Consume
<1>2. DOMAIN rest = 1 .. n /\ \A k \in 1 .. n : rest[k] \in Entries /\ rest[k].remaining \in Nat
                                              /\ left[k] = rest[k].remaining
  BY EntryType
<1>3. \A k \in 1 .. n : ahead(k) \in Nat
  <2> SUFFICES ASSUME NEW k \in 1 .. n PROVE ahead(k) \in Nat
    OBVIOUS
  <2>1. before(k) \subseteq 1 .. n
    BY <1>2
  <2>2. IsFiniteSet(before(k)) /\ \A j \in before(k) : left[j] \in Nat
    <3>1. IsFiniteSet(1 .. n)
      BY FS_Interval
    <3> QED BY <1>2, <2>1, <3>1, FS_Subset
  <2> HIDE DEF before, left
  <2> QED BY <2>2, SumNat
<1>4. \A k \in 1 .. n : before(k) = {} => ahead(k) = 0
  BY SumEmpty
<1>5. \A k \in 1 .. n : k \in here <=> Rests(rest[k], side, t) /\ rest[k].price = price
  BY <1>2
<1>6. \A k \in 1 .. n : before(k) = {} <=>
        \A j \in 1 .. n : j < k => ~(Rests(rest[j], side, t) /\ rest[j].price = price)
  BY <1>2
<1> HIDE DEF here, left, before, ahead
<1>7. \A k \in 1 .. n : /\ taken(k) \in 0 .. rest[k].remaining
                        /\ k \in here /\ ahead(k) = 0 /\ rest[k].remaining <= size
                             => taken(k) = rest[k].remaining
  BY <1>2, <1>3 DEF Larger, Smaller
<1> HIDE DEF taken
<1>8. \A k \in 1 .. n :
        /\ c[k] = [id |-> rest[k].id, side |-> rest[k].side, price |-> rest[k].price,
                   remaining |-> rest[k].remaining - taken(k), expires |-> rest[k].expires]
        /\ rest[k].remaining - taken(k) \in Nat /\ rest[k].remaining - taken(k) <= rest[k].remaining
  <2> SUFFICES ASSUME NEW k \in 1 .. n
               PROVE  /\ c[k] = [id |-> rest[k].id, side |-> rest[k].side, price |-> rest[k].price,
                           remaining |-> rest[k].remaining - taken(k), expires |-> rest[k].expires]
                      /\ rest[k].remaining - taken(k) \in Nat
                      /\ rest[k].remaining - taken(k) <= rest[k].remaining
    OBVIOUS
  <2>1. c[k] = [rest[k] EXCEPT !.remaining = rest[k].remaining - taken(k)]
    BY <1>1, <1>2
  <2> DEFINE r == rest[k]
             q == rest[k].remaining - taken(k)
  <2>2. r \in Entries /\ taken(k) \in 0 .. r.remaining /\ r.remaining \in Nat
    BY <1>2, <1>7
  <2>3. q \in Nat /\ q <= r.remaining
    BY <2>2
  <2>4. c[k] = [r EXCEPT !.remaining = q]
    BY <2>1
  <2> HIDE DEF q, r
  <2>5. c[k] = [id |-> r.id, side |-> r.side, price |-> r.price, remaining |-> q, expires |-> r.expires]
    BY <2>2, <2>4 DEF Entries
  <2> QED BY <2>3, <2>5 DEF q, r
<1>9. ASSUME NEW k \in 1 .. n 
     PROVE  /\ c[k] \in Entries /\ Shrunk(c[k], rest[k])
            /\ c[k].remaining = rest[k].remaining - taken(k)
  <2> DEFINE r == rest[k]
             q == rest[k].remaining - taken(k)
  <2>1. r \in Entries
    BY <1>2
  <2>2. c[k] = [id |-> r.id, side |-> r.side, price |-> r.price, remaining |-> q, expires |-> r.expires]
        /\ q \in Nat /\ q <= r.remaining
    BY <1>8
  <2> HIDE DEF q, r
  <2>3. r.id \in Nat /\ r.side \in Sides /\ r.price \in Int /\ r.expires \in Int
    BY <2>1, EntryType
  <2>4. c[k] \in Entries
    BY <2>2, <2>3 DEF Entries
  <2>5. Shrunk(c[k], r)
    BY <2>2 DEF Shrunk
  <2>6. c[k].remaining = q
    BY <2>2
  <2> QED BY <2>4, <2>5, <2>6 DEF r, q
<1>10. c \in [1 .. n -> Entries]
  BY <1>1, <1>2, <1>9
<1>11. ASSUME NEW k \in 1 .. n, k \in here, rest[k].remaining <= size, before(k) = {}
       PROVE  c[k].remaining = 0
  <2>1. taken(k) = rest[k].remaining /\ rest[k].remaining \in Nat
    BY <1>2, <1>4, <1>7, <1>11
  <2>2. c[k].remaining = rest[k].remaining - taken(k)
    BY <1>9
  <2> QED BY <2>1, <2>2
<1>12. ASSUME NEW k \in 1 .. n, Oldest(rest, side, price, t, k), rest[k].remaining <= size
       PROVE  c[k].remaining = 0
  <2>1. k \in here /\ before(k) = {}
    BY <1>2, <1>5, <1>6, <1>12 DEF Oldest
  <2> QED BY <1>11, <1>12, <2>1
<1> QED BY <1>9, <1>10, <1>12 DEF EmptiesOldest

-----------------------------------------------------------------------------
(* What the walk goes through.                                               *)
Walked == [left : Nat, book : [DOMAIN book -> Entries], hold : Holdings, cash : Int]

Begun(o) == [left |-> o.size, book |-> book, hold |-> hold, cash |-> cash]

Trading(o, t) == [p \in Walked \X Offers |-> Trade(o, t, p[1], p[2])]

HeldAfter(h, kind, n, price) == Netted(Tokens(h, kind, n), Delta(kind, n), price)

LEMMA WalkedType ==
  ASSUME NEW w \in Walked
  PROVE  w.left \in Nat /\ w.book \in [DOMAIN book -> Entries] /\ w.hold \in Holdings /\ w.cash \in Int
BY DEF Walked

LEMMA OrderType ==
  ASSUME NEW o \in Orders
  PROVE  /\ o.id \in Nat /\ o.kind \in Kinds /\ o.type \in OrderTypes /\ o.size \in Nat \ {0}
         /\ o.limit \in Int /\ o.expires \in Int
BY DEF Orders

LEMMA OfferType == ASSUME NEW l \in Offers PROVE l.price \in Int /\ l.size \in Nat
BY DEF Offers

LEMMA SideType == /\ \A kind : SideOf(kind) \in Sides
                  /\ \A side \in Sides : Opposite(side) \in Sides /\ Opposite(side) # side
BY DEF SideOf, Opposite, Sides

LEMMA TokensType ==
  ASSUME NEW h \in Holdings, NEW kind \in Kinds, NEW n \in Nat
  PROVE  /\ Tokens(h, kind, n) \in Holdings
         /\ Tokens(h, kind, n).basis = h.basis /\ Tokens(h, kind, n).realized = h.realized
         /\ Tokens(h, kind, n).net = h.net
         /\ Tokens(h, kind, n).yes - Tokens(h, kind, n).no = h.yes - h.no + Delta(kind, n)
<1>1. h = [yes |-> h.yes, no |-> h.no, net |-> h.net, basis |-> h.basis, realized |-> h.realized]
      /\ h.yes \in Int /\ h.no \in Int /\ h.net \in Int /\ h.basis \in Fractions /\ h.realized \in Fractions
  BY DEF Holdings
<1>2. CASE kind = "BUY_YES"
  <2>1. Tokens(h, kind, n) = [yes |-> h.yes + n, no |-> h.no, net |-> h.net, basis |-> h.basis,
                              realized |-> h.realized] /\ Delta(kind, n) = n
    BY <1>1, <1>2 DEF Tokens, Delta, SideOf
  <2> QED BY <1>1, <2>1 DEF Holdings
<1>3. CASE kind = "BUY_NO"
  <2>1. Tokens(h, kind, n) = [yes |-> h.yes, no |-> h.no + n, net |-> h.net, basis |-> h.basis,
                              realized |-> h.realized] /\ Delta(kind, n) = -n
    BY <1>1, <1>3 DEF Tokens, Delta, SideOf
  <2> QED BY <1>1, <2>1 DEF Holdings
<1>4. CASE kind = "SELL_YES"
  <2>1. Tokens(h, kind, n) = [yes |-> h.yes - n, no |-> h.no, net |-> h.net, basis |-> h.basis,
                              realized |-> h.realized] /\ Delta(kind, n) = -n
    BY <1>1, <1>4 DEF Tokens, Delta, SideOf
  <2> QED BY <1>1, <2>1 DEF Holdings
<1>5. CASE kind = "SELL_NO"
  <2>1. Tokens(h, kind, n) = [yes |-> h.yes, no |-> h.no - n, net |-> h.net, basis |-> h.basis,
                              realized |-> h.realized] /\ Delta(kind, n) = n
    BY <1>1, <1>5 DEF Tokens, Delta, SideOf
  <2> QED BY <1>1, <2>1 DEF Holdings
<1> QED BY <1>2, <1>3, <1>4, <1>5 DEF Kinds

LEMMA DeltaType ==
  ASSUME NEW kind \in Kinds, NEW n \in Nat
  PROVE  Delta(kind, n) \in Int /\ (n # 0 => Delta(kind, n) # 0)
BY DEF Delta

LEMMA ProceedsType ==
  ASSUME NEW kind \in Kinds, NEW n \in Nat, NEW price \in Int
  PROVE  Proceeds(kind, n, price) \in Int
<1>1. n * price \in Int /\ n * (1000 - price) \in Int /\ -(n * price) \in Int /\ -(n * (1000 - price)) \in Int
  OBVIOUS
<1> QED BY <1>1 DEF Kinds, Proceeds, Payout

LEMMA HeldType ==
  ASSUME NEW h \in Holdings, NEW kind \in Kinds, NEW n \in Nat \ {0}, NEW price \in Int
  PROVE  HeldAfter(h, kind, n, price) \in Holdings
<1>1. n \in Nat /\ n # 0
  OBVIOUS
<1>2. Tokens(h, kind, n) \in Holdings
  BY <1>1, TokensType
<1>3. Delta(kind, n) \in Int /\ Delta(kind, n) # 0
  BY <1>1, DeltaType
<1> QED BY <1>2, <1>3, NettedType DEF HeldAfter

(* One level of the walk.                                                    *)
LEMMA TradeIs ==
  ASSUME VenueType, NEW o \in Orders, NEW t, NEW w \in Walked, NEW l \in Offers,
         NEW n, n = Smaller(w.left, l.size), NEW v, v = Trade(o, t, w, l)
  PROVE  /\ v \in Walked /\ n \in Nat /\ n <= w.left /\ n <= l.size
         /\ n = 0 \/ ~Crosses(SideOf(o.kind), l.price, o.limit) => v = w
         /\ ~(n = 0 \/ ~Crosses(SideOf(o.kind), l.price, o.limit)) =>
              /\ v.left = w.left - n
              /\ v.book = Consume(w.book, Opposite(SideOf(o.kind)), l.price, n, t)
              /\ v.hold = HeldAfter(w.hold, o.kind, n, l.price)
              /\ v.cash = w.cash + Proceeds(o.kind, n, l.price)
<1>1. n \in Nat /\ n <= w.left /\ n <= l.size
  BY WalkedType, OfferType DEF Smaller
<1>2. CASE n = 0 \/ ~Crosses(SideOf(o.kind), l.price, o.limit)
  <2>1. v = w
    BY <1>2 DEF Trade
  <2> QED BY <1>1, <1>2, <2>1
<1>3. CASE ~(n = 0 \/ ~Crosses(SideOf(o.kind), l.price, o.limit))
  <2> DEFINE c == Consume(w.book, Opposite(SideOf(o.kind)), l.price, n, t)
             h == HeldAfter(w.hold, o.kind, n, l.price)
             m == w.cash + Proceeds(o.kind, n, l.price)
  <2>1. v = [left |-> w.left - n, book |-> c, hold |-> h, cash |-> m]
    BY <1>3 DEF Trade, HeldAfter
  <2>2. o.kind \in Kinds /\ l.price \in Int /\ w.left \in Nat /\ w.hold \in Holdings /\ w.cash \in Int
        /\ w.book \in [DOMAIN book -> Entries]
    BY WalkedType, OfferType, OrderType
  <2>3. DOMAIN book = 1 .. Len(book) /\ Len(book) \in Nat
    BY DEF VenueType
  <2>4. c \in [DOMAIN book -> Entries]
    BY <1>1, <2>2, <2>3, ConsumeIs
  <2>5. h \in Holdings
    BY <1>1, <1>3, <2>2, HeldType
  <2>6. m \in Int
    <3>1. Proceeds(o.kind, n, l.price) \in Int
      BY <1>1, <2>2, ProceedsType
    <3> QED BY <2>2, <3>1
  <2>7. w.left - n \in Nat
    BY <1>1, <2>2
  <2> HIDE DEF c, h, m
  <2>8. v \in Walked
    BY <2>1, <2>4, <2>5, <2>6, <2>7 DEF Walked
  <2>9. v.left = w.left - n /\ v.book = c /\ v.hold = h /\ v.cash = m
    BY <2>1
  <2> QED BY <1>1, <1>3, <2>8, <2>9 DEF c, h, m
<1> QED BY <1>2, <1>3

WalkFold(o, t, seq) == CHOOSE iter : iter = [s \in SUBSET DOMAIN seq |->
  IF s = {} THEN Begun(o) ELSE LET x == Max(s) IN Trade(o, t, iter[s \ {x}], seq[x])]

(* The walk is the fold of its trades over the levels ...                     *)
LEMMA WalkIsFold ==
  ASSUME VenueType, NEW o \in Orders, NEW t, NEW seq, seq = LevelsFor(Opposite(SideOf(o.kind)), t)
  PROVE  /\ IsStep(Trading(o, t), Walked, Offers) /\ Begun(o) \in Walked /\ seq \in Seq(Offers)
         /\ \A w \in Walked, l \in Offers : Trading(o, t)[<<w, l>>] = Trade(o, t, w, l)
         /\ Walk(o, t) = Folding(Trading(o, t), Begun(o), seq)
<1> DEFINE A == Walked
           E == Offers
           F == Trading(o, t)
           base == Begun(o)
           n == Len(seq)
           g == WalkFold(o, t, seq)
           Step(h, s) == IF s = {} THEN base ELSE Trade(o, t, h[s \ {Max(s)}], seq[Max(s)])
<1>0. seq \in Seq(E)
  BY LevelsAre, SideType
<1>1. Walk(o, t) = g[DOMAIN seq]
  BY DEF Walk, FoldLeft, MapThenFoldSet, WalkFold, Begun
<1>2. n \in Nat /\ DOMAIN seq = 1 .. n /\ \A k \in 1 .. n : seq[k] \in E
  BY <1>0
<1>3. base \in A
  <2>1. book \in [DOMAIN book -> Entries] /\ hold \in Holdings /\ cash \in Int
    BY DEF VenueType
  <2> QED BY <2>1, OrderType DEF Begun, Walked
<1>4. /\ F \in [A \X E -> A] /\ IsStep(F, A, E)
      /\ \A w \in A, l \in E : F[<<w, l>>] = Trade(o, t, w, l)
  <2>1. \A w \in A, l \in E : Trade(o, t, w, l) \in A
    BY TradeIs
  <2>2. \A p \in A \X E : p[1] \in A /\ p[2] \in E
    OBVIOUS
  <2> HIDE DEF A, E
  <2>3. Trading(o, t) = [p \in A \X E |-> Trade(o, t, p[1], p[2])]
    BY DEF Trading, A, E
  <2>4. F \in [A \X E -> A]
    BY <2>1, <2>2, <2>3
  <2>5. \A w \in A, l \in E : F[<<w, l>>] = Trade(o, t, w, l)
    BY <2>3
  <2> QED BY <2>4, <2>5 DEF IsStep
<1> HIDE DEF g, Step, A, E, F, base
<1>5. PICK f : IsFold(f, A, F, base, seq)
  BY <1>0, <1>3, <1>4, FoldsExist
<1>6. /\ f \in [SUBSET (1 .. n) -> A]
      /\ \A s \in SUBSET (1 .. n) : f[s] = FoldStep(f, F, base, seq, s)
  BY <1>5 DEF IsFold
<1>7. \A s \in SUBSET (1 .. n) : f[s] = Step(f, s)
  <2> SUFFICES ASSUME NEW s \in SUBSET (1 .. n) PROVE f[s] = Step(f, s)
    OBVIOUS
  <2>1. CASE s = {}
    BY <1>6, <2>1 DEF FoldStep, Step
  <2>2. CASE s # {}
    <3>1. Max(s) \in s
      BY <1>2, <2>2, MaxOfRange
    <3>2. f[s \ {Max(s)}] \in A /\ seq[Max(s)] \in E
      BY <1>2, <1>6, <3>1
    <3> QED BY <1>4, <1>6, <2>2, <3>2 DEF FoldStep, Step
  <2> QED BY <2>1, <2>2
<1>8. f = [s \in SUBSET DOMAIN seq |-> Step(f, s)]
  BY <1>2, <1>6, <1>7
<1>9. g = [s \in SUBSET DOMAIN seq |-> Step(g, s)]
  BY <1>8 DEF WalkFold, g, Step, base
<1>10. \A k \in 0 .. n - 1 : g[1 .. k] \in A => g[1 .. k + 1] = F[<<g[1 .. k], seq[k + 1]>>]
  <2> SUFFICES ASSUME NEW k \in 0 .. n - 1, g[1 .. k] \in A
               PROVE  g[1 .. k + 1] = F[<<g[1 .. k], seq[k + 1]>>]
    OBVIOUS
  <2>1. Max(1 .. k + 1) = k + 1 /\ (1 .. k + 1) \ {k + 1} = 1 .. k
    BY <1>2, MaxOfInterval
  <2>2. k + 1 \in 1 .. k + 1 /\ k + 1 \in 1 .. n /\ 1 .. k + 1 \in SUBSET (1 .. n)
    BY <1>2
  <2>3. 1 .. k + 1 \in SUBSET DOMAIN seq /\ 1 .. k + 1 # {} /\ seq[k + 1] \in E
    BY <1>2, <2>2
  <2>4. g[1 .. k + 1] = Step(g, 1 .. k + 1)
    BY <1>9, <2>3
  <2>5. g[1 .. k + 1] = Trade(o, t, g[1 .. k], seq[k + 1])
    BY <2>1, <2>3, <2>4 DEF Step
  <2> QED BY <1>4, <2>3, <2>5
<1> HIDE DEF n
<1>11. TakesInOrder(g, A, F, base, seq)
  <2>1. g[{}] = base
    BY <1>9 DEF Step
  <2> QED BY <1>10, <2>1 DEF TakesInOrder, n
<1>12. AtEnd(g, seq) = Folding(F, base, seq)
  BY <1>0, <1>3, <1>4, <1>11, FoldReached
<1>13. Walk(o, t) = Folding(F, base, seq)
  BY <1>1, <1>2, <1>12 DEF AtEnd, n
<1> QED BY <1>0, <1>3, <1>4, <1>13 DEF A, E, F, base

(* ... and stays within what each trade stays within.                         *)
LEMMA WalkWithin ==
  ASSUME VenueType, NEW o \in Orders, NEW t, NEW seq, seq = LevelsFor(Opposite(SideOf(o.kind)), t),
         NEW I, Begun(o) \in I[0],
         \A k \in 0 .. Len(seq) - 1 : \A w \in Walked \cap I[k] : Trade(o, t, w, seq[k + 1]) \in I[k + 1]
  PROVE  Walk(o, t) \in Walked /\ Walk(o, t) \in I[Len(seq)]
<1> DEFINE F == Trading(o, t)
<1>1. /\ IsStep(F, Walked, Offers) /\ Begun(o) \in Walked /\ seq \in Seq(Offers)
      /\ \A w \in Walked, l \in Offers : F[<<w, l>>] = Trade(o, t, w, l)
      /\ Walk(o, t) = Folding(F, Begun(o), seq)
  BY WalkIsFold
<1> HIDE DEF F
<1>2. \A k \in 0 .. Len(seq) - 1 : seq[k + 1] \in Offers
  BY <1>1
<1>3. \A k \in 0 .. Len(seq) - 1 : \A w \in Walked \cap I[k] : F[<<w, seq[k + 1]>>] \in I[k + 1]
  BY <1>1, <1>2
<1>4. Folding(F, Begun(o), seq) \in Walked \cap I[Len(seq)]
  BY <1>1, <1>3, FoldingWithin
<1> QED BY <1>1, <1>4

-----------------------------------------------------------------------------
LEMMA ShrunkTwice ==
  ASSUME NEW a \in Entries, NEW b \in Entries, NEW c \in Entries, Shrunk(a, b), Shrunk(b, c)
  PROVE  Shrunk(a, c)
<1>1. a.remaining \in Nat /\ b.remaining \in Nat /\ c.remaining \in Nat
  BY EntryType
<1> QED BY <1>1 DEF Shrunk

(* After m levels: if the order is not filled yet, it has emptied every order *)
(* of the agent it crosses that is among them.                              *)
Swept(o, at, m, w) ==
  /\ \A k \in DOMAIN book : Shrunk(w.book[k], book[k])
  /\ w.left > 0 =>
       \A j \in 1 .. m : at[j] >= 0 /\ Crosses(SideOf(o.kind), book[at[j]].price, o.limit)
                           => w.book[at[j]].remaining = 0

LEMMA BookPlaces ==
  ASSUME VenueType
  PROVE  Len(book) \in Nat /\ DOMAIN book = 1 .. Len(book) /\ \A k \in DOMAIN book : book[k] \in Entries
BY DEF VenueType

(* One more level keeps that.  An order of the agent comes after those that    *)
(* rest at its price and are older, so the trade that takes its level finds  *)
(* them empty and empties it; a trade cut short has filled the walker.       *)
LEMMA SweptStep ==
  ASSUME VenueType, NEW o \in Orders, NEW t, NEW side, side = Opposite(SideOf(o.kind)),
         NEW at, at = LevelOrder(side, t), NEW seq, seq = LevelsFor(side, t),
         NEW m \in 0 .. Len(seq) - 1, NEW w \in Walked, Swept(o, at, m, w),
         NEW v, v = Trade(o, t, w, seq[m + 1])
  PROVE  Swept(o, at, m + 1, v)
<1> DEFINE l == seq[m + 1]
           n == Smaller(w.left, l.size)
           q == at[m + 1]
           C(price) == Crosses(SideOf(o.kind), price, o.limit)
<1>0. side \in Sides
  BY SideType
<1>1. /\ seq \in Seq(Offers) /\ Len(seq) \in Nat /\ DOMAIN at = 1 .. Len(seq)
      /\ \A k \in DOMAIN at : seq[k] = Level(side, at[k]) /\ at[k] \in LevelKeys(side, t)
      /\ \A i \in LevelKeys(side, t) : \E k \in DOMAIN at : at[k] = i
      /\ \A j, k \in DOMAIN at : Better(side, at[j], at[k]) => j < k
  BY <1>0, LevelsAre
<1>2. m + 1 \in DOMAIN at /\ m \in Nat /\ l \in Offers /\ l = Level(side, q) /\ q \in LevelKeys(side, t)
  BY <1>1
<1>3. /\ v \in Walked /\ n \in Nat /\ n <= w.left /\ n <= l.size
      /\ n = 0 \/ ~C(l.price) => v = w
      /\ ~(n = 0 \/ ~C(l.price)) =>
           /\ v.left = w.left - n
           /\ v.book = Consume(w.book, side, l.price, n, t)
  BY <1>2, TradeIs
<1>4. q \in Int /\ (q >= 0 => q \in DOMAIN book /\ Rests(book[q], side, t)
                             /\ l.price = book[q].price /\ l.size = book[q].remaining)
  BY <1>0, <1>2, LevelType
<1>5. /\ w.left \in Nat /\ v.left \in Nat /\ l.size \in Nat /\ l.price \in Int
      /\ w.book \in [DOMAIN book -> Entries] /\ v.book \in [DOMAIN book -> Entries]
  BY <1>2, <1>3, WalkedType, OfferType
<1>6. \A j \in 1 .. m + 1 : j \in 1 .. m \/ j = m + 1
  BY <1>2
<1>7. \A j \in 1 .. m : j \in DOMAIN at /\ at[j] \in Int /\ (at[j] >= 0 => at[j] \in DOMAIN book)
  <2> TAKE j \in 1 .. m
  <2>1. j \in DOMAIN at
    BY <1>1, <1>2
  <2>2. at[j] \in LevelKeys(side, t)
    BY <1>1, <2>1
  <2> QED BY <1>0, <2>1, <2>2, LevelType
<1> HIDE DEF l, n, q
<1>8. CASE n = 0 \/ ~C(l.price)
  <2>1. v = w
    BY <1>3, <1>8
  <2>2. ASSUME w.left > 0, q >= 0, C(book[q].price) PROVE FALSE
    <3>1. n = 0 /\ l.size = book[q].remaining /\ l.size > 0
      BY <1>4, <1>8, <2>2 DEF Rests
    <3>2. n = w.left \/ n = l.size
      BY DEF n, Smaller
    <3> QED BY <1>5, <2>2, <3>1, <3>2
  <2>3. \A k \in DOMAIN book : Shrunk(w.book[k], book[k])
    BY DEF Swept
  <2>4. w.left > 0 => \A j \in 1 .. m + 1 : at[j] >= 0 /\ C(book[at[j]].price) => w.book[at[j]].remaining = 0
    BY <1>6, <2>2 DEF Swept, q
  <2> QED BY <2>1, <2>3, <2>4 DEF Swept
<1>9. CASE ~(n = 0 \/ ~C(l.price))
  <2> DEFINE N == Len(book)
  <2>1. /\ N \in Nat /\ DOMAIN book = 1 .. N /\ w.book \in [1 .. N -> Entries]
        /\ \A k \in DOMAIN book : book[k] \in Entries
    BY <1>5, BookPlaces
  <2>2. v.left = w.left - n /\ v.book = Consume(w.book, side, l.price, n, t)
    BY <1>3, <1>9
  <2>3. /\ \A k \in 1 .. N : Shrunk(v.book[k], w.book[k])
        /\ \A k \in 1 .. N : Oldest(w.book, side, l.price, t, k) /\ w.book[k].remaining <= n
                             => v.book[k].remaining = 0
    <3> DEFINE rest == w.book
               price == l.price
               c == v.book
    <3>1. /\ N \in Nat /\ rest \in [1 .. N -> Entries] /\ price \in Int /\ n \in Nat
          /\ c = Consume(rest, side, price, n, t)
      BY <1>3, <1>5, <2>1, <2>2
    <3> HIDE DEF N, rest, price, c
    <3>2. \A k \in 1 .. N : Shrunk(c[k], rest[k])
      BY <3>1, ConsumeIs
    <3>3. \A k \in 1 .. N : EmptiesOldest(rest, side, price, n, t, c, k)
      BY <3>1, ConsumeIs
    <3>4. \A k \in 1 .. N : Oldest(rest, side, price, t, k) /\ rest[k].remaining <= n
                           => c[k].remaining = 0
      BY <3>3 DEF EmptiesOldest
    <3> QED BY <3>2, <3>4 DEF rest, price, c
  <2> HIDE DEF N
  <2>4. \A k \in DOMAIN book : /\ Shrunk(w.book[k], book[k])
                               /\ w.book[k] \in Entries /\ v.book[k] \in Entries /\ book[k] \in Entries
    BY <1>5, <2>1 DEF Swept
  <2>5. \A k \in DOMAIN book : Shrunk(v.book[k], book[k])
    <3> TAKE k \in DOMAIN book
    <3>1. Shrunk(v.book[k], w.book[k]) /\ Shrunk(w.book[k], book[k])
      BY <2>1, <2>3, <2>4
    <3> QED BY <2>4, <3>1, ShrunkTwice
  <2>6. ASSUME v.left > 0, NEW j \in 1 .. m, at[j] >= 0, C(book[at[j]].price)
        PROVE  v.book[at[j]].remaining = 0
    <3>1. w.left > 0
      BY <1>3, <1>5, <2>2, <2>6
    <3>2. w.book[at[j]].remaining = 0
      BY <2>6, <3>1 DEF Swept
    <3>3. at[j] \in DOMAIN book
      BY <1>7, <2>6
    <3>4. v.book[at[j]].remaining <= w.book[at[j]].remaining
      BY <2>1, <2>3, <3>3 DEF Shrunk
    <3>5. v.book[at[j]].remaining \in Nat
      BY <2>4, <3>3, EntryType
    <3> QED BY <3>2, <3>4, <3>5
  <2>7. ASSUME v.left > 0, q >= 0, C(book[q].price)
        PROVE  v.book[q].remaining = 0
    <3>1. q \in DOMAIN book /\ q \in 1 .. N /\ Rests(book[q], side, t)
          /\ l.price = book[q].price /\ l.size = book[q].remaining
      BY <1>4, <2>1, <2>7
    <3>2. n = l.size
      <4>1. n # w.left
        BY <1>3, <1>5, <2>2, <2>7
      <4> QED BY <4>1 DEF n, Smaller
    <3>3. /\ w.book[q].price = l.price /\ w.book[q].remaining <= n
          /\ w.book[q].remaining \in Nat /\ v.book[q].remaining \in Nat
          /\ v.book[q].remaining <= w.book[q].remaining
          /\ w.book[q].side = side /\ w.book[q].expires > t
      <4>1. Shrunk(w.book[q], book[q]) /\ Shrunk(v.book[q], w.book[q])
        BY <2>3, <2>4, <3>1
      <4>2. w.book[q].remaining \in Nat /\ v.book[q].remaining \in Nat
        BY <2>4, <3>1, EntryType
      <4>3. book[q].side = side /\ book[q].expires > t
        BY <3>1 DEF Rests
      <4> QED BY <3>1, <3>2, <4>1, <4>2, <4>3 DEF Shrunk
    <3>4. ASSUME NEW i \in 1 .. N, i < q, Rests(w.book[i], side, t), w.book[i].price = l.price
          PROVE  FALSE
      <4>1. i \in DOMAIN book /\ Shrunk(w.book[i], book[i])
            /\ w.book[i].remaining \in Nat /\ book[i].remaining \in Nat
        BY <2>1, <2>4, EntryType
      <4>2. Rests(book[i], side, t) /\ book[i].price = l.price /\ w.book[i].remaining > 0
        BY <3>4, <4>1 DEF Rests, Shrunk
      <4>3. i \in LevelKeys(side, t)
        BY <4>1, <4>2 DEF LevelKeys
      <4>4. PICK j \in DOMAIN at : at[j] = i
        BY <1>1, <4>3
      <4>5. Level(side, i).price = book[i].price
        <5>1. i >= 0
          BY <2>1
        <5> QED BY <1>0, <4>3, <5>1, LevelType
      <4>6. Better(side, i, q)
        BY <1>2, <3>4, <4>2, <4>5 DEF Better
      <4>7. j < m + 1
        BY <1>1, <1>2, <4>4, <4>6 DEF q
      <4>8. j \in 1 .. m
        BY <1>1, <1>2, <4>4, <4>7
      <4>9. w.left > 0
        BY <1>3, <1>5, <2>2, <2>7
      <4>10. at[j] >= 0 /\ C(book[at[j]].price)
        BY <2>1, <2>7, <3>1, <4>2, <4>4
      <4>11. w.book[i].remaining = 0
        BY <4>4, <4>8, <4>9, <4>10 DEF Swept
      <4> QED BY <4>2, <4>11
    <3>5. CASE Rests(w.book[q], side, t)
      <4>1. DOMAIN w.book = 1 .. N
        BY <2>1
      <4>2. Oldest(w.book, side, l.price, t, q)
        BY <3>3, <3>4, <3>5, <4>1 DEF Oldest
      <4> QED BY <2>3, <3>1, <3>3, <4>2
    <3>6. CASE ~Rests(w.book[q], side, t)
      <4>1. w.book[q].remaining = 0
        BY <3>3, <3>6 DEF Rests
      <4> QED BY <3>3, <4>1
    <3> QED BY <3>5, <3>6
  <2>8. v.left > 0 => \A j \in 1 .. m + 1 : at[j] >= 0 /\ C(book[at[j]].price) => v.book[at[j]].remaining = 0
    <3> SUFFICES ASSUME v.left > 0, NEW j \in 1 .. m + 1, at[j] >= 0, C(book[at[j]].price)
                 PROVE  v.book[at[j]].remaining = 0
      OBVIOUS
    <3>1. CASE j \in 1 .. m
      BY <2>6, <3>1
    <3>2. CASE j = m + 1
      BY <2>7, <3>2 DEF q
    <3> QED BY <1>6, <3>1, <3>2
  <2> QED BY <2>5, <2>8 DEF Swept
<1> QED BY <1>8, <1>9

(* An order that is not filled when its walk is over has emptied every order  *)
(* of the agent it crosses.                                                  *)
LEMMA WalkSweeps ==
  ASSUME VenueType, NEW o \in Orders, NEW t, NEW side, side = Opposite(SideOf(o.kind)),
         NEW w, w = Walk(o, t)
  PROVE  /\ w \in Walked
         /\ \A k \in DOMAIN book : Shrunk(w.book[k], book[k])
         /\ w.left > 0 => \A k \in DOMAIN book :
              Rests(book[k], side, t) /\ Crosses(SideOf(o.kind), book[k].price, o.limit)
                => w.book[k].remaining = 0
<1> DEFINE seq == LevelsFor(side, t)
           at == LevelOrder(side, t)
           n == Len(seq)
           I == [m \in 0 .. n |-> {x \in Walked : Swept(o, at, m, x)}]
<1>0. side \in Sides
  BY SideType
<1>1. /\ n \in Nat /\ DOMAIN at = 1 .. n
      /\ \A i \in LevelKeys(side, t) : \E k \in DOMAIN at : at[k] = i
  BY <1>0, LevelsAre
<1>2. Begun(o) \in Walked
  BY WalkIsFold
<1>3. Swept(o, at, 0, Begun(o))
  <2>1. Begun(o).book = book
    BY DEF Begun
  <2>2. \A k \in DOMAIN book : Shrunk(book[k], book[k])
    BY BookPlaces, EntryType DEF Shrunk
  <2> QED BY <2>1, <2>2 DEF Swept
<1>4. ASSUME NEW m \in 0 .. n - 1, NEW x \in Walked, Swept(o, at, m, x)
      PROVE  Trade(o, t, x, seq[m + 1]) \in Walked /\ Swept(o, at, m + 1, Trade(o, t, x, seq[m + 1]))
  <2>1. seq[m + 1] \in Offers
    <3>1. seq \in Seq(Offers) /\ m + 1 \in 1 .. n
      BY <1>0, <1>1, LevelsAre
    <3> QED BY <3>1
  <2>2. Trade(o, t, x, seq[m + 1]) \in Walked
    BY <2>1, TradeIs
  <2>3. m \in 0 .. Len(seq) - 1
    OBVIOUS
  <2> HIDE DEF seq, at, n
  <2>4. Swept(o, at, m + 1, Trade(o, t, x, seq[m + 1]))
    BY <1>4, <2>3, SweptStep DEF seq, at
  <2> QED BY <2>2, <2>4
<1> HIDE DEF at
<1>5. Begun(o) \in I[0]
  BY <1>1, <1>2, <1>3
<1>6. \A m \in 0 .. Len(seq) - 1 : \A x \in Walked \cap I[m] : Trade(o, t, x, seq[m + 1]) \in I[m + 1]
  <2> SUFFICES ASSUME NEW m \in 0 .. n - 1, NEW x \in Walked \cap I[m]
               PROVE  Trade(o, t, x, seq[m + 1]) \in I[m + 1]
    OBVIOUS
  <2>1. m \in 0 .. n /\ m + 1 \in 0 .. n
    BY <1>1
  <2>2. x \in Walked /\ Swept(o, at, m, x)
    BY <2>1
  <2>3. Trade(o, t, x, seq[m + 1]) \in Walked /\ Swept(o, at, m + 1, Trade(o, t, x, seq[m + 1]))
    BY <1>4, <2>2
  <2> HIDE DEF seq, n
  <2> QED BY <2>1, <2>3
<1>7. w \in Walked /\ w \in I[n]
  <2> HIDE DEF I, seq
  <2>1. seq = LevelsFor(Opposite(SideOf(o.kind)), t)
    BY DEF seq
  <2> QED BY <1>5, <1>6, <2>1, WalkWithin
<1>8. Swept(o, at, n, w)
  <2>1. n \in 0 .. n
    BY <1>1
  <2> QED BY <1>7, <2>1
<1> HIDE DEF seq, n, I
<1>9. ASSUME w.left > 0, NEW k \in DOMAIN book, Rests(book[k], side, t),
             Crosses(SideOf(o.kind), book[k].price, o.limit)
      PROVE  w.book[k].remaining = 0
  <2>1. k \in LevelKeys(side, t) /\ k >= 0
    BY <1>9, BookPlaces DEF LevelKeys
  <2>2. PICK j \in DOMAIN at : at[j] = k
    BY <1>1, <2>1
  <2> QED BY <1>1, <1>8, <1>9, <2>1, <2>2 DEF Swept
<1> QED BY <1>7, <1>8, <1>9 DEF Swept

-----------------------------------------------------------------------------
(* UncrossedBook, of any book at any instant.                                *)
Uncrossed(b, t) ==
  \A j, k \in DOMAIN b : Rests(b[j], "bid", t) /\ Rests(b[k], "ask", t) => b[j].price < b[k].price

(* What an order that has been matched leaves in the book.                    *)
LEMMA MatchedBook ==
  ASSUME VenueType, NEW o \in Orders, NEW t, Matched(o, t), NEW w, w = Walk(o, t)
  PROVE  /\ book' \in Seq(Entries)
         /\ \A i \in DOMAIN book' :
              \/ \E k \in DOMAIN book : book'[i] = w.book[k] /\ w.book[k].remaining > 0
              \/ w.left > 0 /\ book'[i] = Resting(o, w.left)
<1> DEFINE N == Len(book)
           places == {k \in DOMAIN w.book : w.book[k].remaining > 0}
           alive == Chosen(w.book, places)
           r == Resting(o, w.left)
<1>1. /\ N \in Nat /\ DOMAIN book = 1 .. N /\ w \in Walked
  BY BookPlaces, WalkSweeps
<1>2. w.book \in [1 .. N -> Entries] /\ w.left \in Nat
  BY <1>1, WalkedType
<1>3. places \in SUBSET (1 .. N) /\ \A k \in places : w.book[k] \in Entries
  BY <1>2
<1>4. \A k \in places : w.book[k].remaining > 0
  OBVIOUS
<1>5. book' = alive \/ (w.left > 0 /\ book' = Append(alive, r))
  BY DEF Matched, Alive
<1> HIDE DEF places, alive, N
<1>6. /\ alive \in Seq(Entries)
      /\ \A i \in DOMAIN alive : \E k \in places : alive[i] = w.book[k]
  <2> DEFINE s == w.book
  <2>1. N \in Nat /\ places \in SUBSET (1 .. N) /\ \A k \in places : s[k] \in Entries
    BY <1>1, <1>3
  <2>2. alive = Chosen(s, places)
    BY DEF alive
  <2> HIDE DEF s
  <2>3. Chosen(s, places) \in Seq(Entries) /\ TakenFrom(Chosen(s, places), s, places)
    BY <2>1, ChosenIs
  <2> QED BY <2>2, <2>3 DEF s, TakenFrom
<1>7. r \in Entries
  BY <1>2, OrderType, SideType DEF Resting, Entries
<1>8. CASE book' = alive
  BY <1>1, <1>3, <1>4, <1>6, <1>8
<1>9. CASE w.left > 0 /\ book' = Append(alive, r)
  <2> HIDE DEF r
  <2>1. book' \in Seq(Entries)
    BY <1>6, <1>7, <1>9
  <2>2. \A i \in DOMAIN book' : (i \in DOMAIN alive /\ book'[i] = alive[i]) \/ book'[i] = r
    BY <1>6, <1>7, <1>9
  <2>3. ASSUME NEW i \in DOMAIN book'
        PROVE  \/ \E k \in DOMAIN book : book'[i] = w.book[k] /\ w.book[k].remaining > 0
               \/ w.left > 0 /\ book'[i] = r
    <3>1. CASE i \in DOMAIN alive /\ book'[i] = alive[i]
      <4>1. PICK k \in places : alive[i] = w.book[k]
        BY <1>6, <3>1
      <4>2. k \in DOMAIN book /\ w.book[k].remaining > 0
        BY <1>1, <1>3, <1>4
      <4> QED BY <3>1, <4>1, <4>2
    <3>2. CASE book'[i] = r
      BY <1>9, <3>2
    <3> QED BY <2>2, <3>1, <3>2
  <2> QED BY <2>1, <2>3 DEF r
<1> QED BY <1>5, <1>8, <1>9

(* What is left of an order rests only when nothing it crosses is left.        *)
LEMMA MatchedUncrossed ==
  ASSUME VenueType, NEW o \in Orders, NEW t \in Int, Matched(o, t), Uncrossed(book, t)
  PROVE  Uncrossed(book', t)
<1> DEFINE w == Walk(o, t)
           mine == SideOf(o.kind)
           side == Opposite(mine)
           r == Resting(o, w.left)
           Kept(x) == \E k \in DOMAIN book : x = w.book[k] /\ w.book[k].remaining > 0
<1>0. mine \in Sides /\ side \in Sides /\ side # mine
  BY SideType
<1>1. \A i \in DOMAIN book' : Kept(book'[i]) \/ (w.left > 0 /\ book'[i] = r)
  BY MatchedBook
<1>2. /\ w \in Walked
      /\ \A k \in DOMAIN book : Shrunk(w.book[k], book[k])
      /\ w.left > 0 => \A k \in DOMAIN book :
           Rests(book[k], side, t) /\ Crosses(mine, book[k].price, o.limit) => w.book[k].remaining = 0
  BY WalkSweeps
<1>3. \A k \in DOMAIN book : w.book[k] \in Entries /\ book[k] \in Entries
  BY <1>2, WalkedType, BookPlaces
<1>4. r.side = mine /\ r.price = o.limit
  BY DEF Resting
<1> HIDE DEF w, mine, side, r
(* What is kept was in the book. *)
<1>5. ASSUME NEW k \in DOMAIN book, NEW s \in Sides, Rests(w.book[k], s, t)
      PROVE  Rests(book[k], s, t) /\ book[k].price = w.book[k].price
  <2>1. w.book[k].remaining \in Nat /\ book[k].remaining \in Nat
    BY <1>3, EntryType
  <2> QED BY <1>2, <1>5, <2>1 DEF Rests, Shrunk
(* What is kept on the other side does not cross the order that rests. *)
<1>6. ASSUME NEW x, Kept(x), w.left > 0, Rests(x, side, t) PROVE ~Crosses(mine, x.price, o.limit)
  <2>1. PICK k \in DOMAIN book : x = w.book[k] /\ w.book[k].remaining > 0
    BY <1>6
  <2>2. Rests(book[k], side, t) /\ book[k].price = x.price
    BY <1>0, <1>5, <1>6, <2>1
  <2> QED BY <1>2, <1>6, <2>1, <2>2
<1>7. ASSUME NEW x, Kept(x) PROVE x.price \in Int
  <2>1. x \in Entries
    BY <1>3, <1>7
  <2> QED BY <2>1, EntryType
<1>8. ASSUME NEW x, NEW y, Kept(x), Kept(y), Rests(x, "bid", t), Rests(y, "ask", t)
      PROVE  x.price < y.price
  <2>1. PICK j \in DOMAIN book : x = w.book[j]
    BY <1>8
  <2>2. PICK k \in DOMAIN book : y = w.book[k]
    BY <1>8
  <2>3. Rests(book[j], "bid", t) /\ book[j].price = x.price
    BY <1>5, <1>8, <2>1 DEF Sides
  <2>4. Rests(book[k], "ask", t) /\ book[k].price = y.price
    BY <1>5, <1>8, <2>2 DEF Sides
  <2>5. book[j].price < book[k].price
    <3>1. \A a, b \in DOMAIN book :
            Rests(book[a], "bid", t) /\ Rests(book[b], "ask", t) => book[a].price < book[b].price
      BY DEF Uncrossed
    <3> QED BY <2>3, <2>4, <3>1
  <2> QED BY <2>3, <2>4, <2>5
<1>9. o.limit \in Int
  BY OrderType
<1> HIDE DEF Kept
<1> SUFFICES ASSUME NEW j \in DOMAIN book', NEW k \in DOMAIN book',
                    Rests(book'[j], "bid", t), Rests(book'[k], "ask", t)
             PROVE  book'[j].price < book'[k].price
  BY DEF Uncrossed
<1>10. CASE Kept(book'[j]) /\ Kept(book'[k])
  BY <1>8, <1>10
<1>11. CASE Kept(book'[j]) /\ w.left > 0 /\ book'[k] = r
  <2>1. mine = "ask" /\ side = "bid"
    BY <1>0, <1>4, <1>11 DEF Rests, Sides
  <2>2. ~Crosses("ask", book'[j].price, o.limit)
    BY <1>6, <1>11, <2>1
  <2> QED BY <1>4, <1>7, <1>9, <1>11, <2>2 DEF Crosses
<1>12. CASE Kept(book'[k]) /\ w.left > 0 /\ book'[j] = r
  <2>1. mine = "bid" /\ side = "ask"
    BY <1>0, <1>4, <1>12 DEF Rests, Sides
  <2>2. ~Crosses("bid", book'[k].price, o.limit)
    BY <1>6, <1>12, <2>1
  <2> QED BY <1>4, <1>7, <1>9, <1>12, <2>2 DEF Crosses
<1>13. CASE book'[j] = r /\ book'[k] = r
  BY <1>13 DEF Rests
<1> QED BY <1>1, <1>10, <1>11, <1>12, <1>13

-----------------------------------------------------------------------------
(* The ledgers of BooksBalance, the average and the profit being fractions of *)
(* a common denominator.                                                    *)
LedgersOf(h, money) ==
  h.net = h.yes - h.no /\ Valued(h.basis, h.realized, h.net, money + h.no * Payout)

LEMMA HoldingType ==
  ASSUME NEW h \in Holdings
  PROVE  /\ h.yes \in Int /\ h.no \in Int /\ h.net \in Int
         /\ h.basis \in Fractions /\ h.realized \in Fractions
BY DEF Holdings

(* What a trade pays and what it moves in the NO tokens make up its cost.     *)
LEMMA TradeCost ==
  ASSUME NEW h \in Holdings, NEW kind \in Kinds, NEW n \in Nat, NEW price \in Int, NEW money \in Int
  PROVE  (money + Proceeds(kind, n, price)) + Tokens(h, kind, n).no * Payout
           = (money + h.no * Payout) - price * Delta(kind, n)
<1> DEFINE a == h.no
           x == n * price
<1>1. h = [yes |-> h.yes, no |-> a, net |-> h.net, basis |-> h.basis, realized |-> h.realized]
      /\ h.yes \in Int /\ a \in Int /\ x \in Int
  BY DEF Holdings
<1>2. price * n = x /\ price * (-n) = -x /\ n * (1000 - price) = n * 1000 - x /\ Payout = 1000
  BY DEF Payout
<1> HIDE DEF a, x
<1>3. (a + n) * 1000 = a * 1000 + n * 1000 /\ (a - n) * 1000 = a * 1000 - n * 1000
  BY <1>1
<1>4. CASE kind = "BUY_YES"
  <2>1. Tokens(h, kind, n).no = a /\ Delta(kind, n) = n /\ Proceeds(kind, n, price) = -x
    BY <1>1, <1>2, <1>4 DEF Tokens, Delta, SideOf, Proceeds, x
  <2> QED BY <1>1, <1>2, <2>1 DEF a
<1>5. CASE kind = "BUY_NO"
  <2>1. Tokens(h, kind, n).no = a + n /\ Delta(kind, n) = -n /\ Proceeds(kind, n, price) = -(n * (1000 - price))
    BY <1>1, <1>2, <1>5 DEF Tokens, Delta, SideOf, Proceeds
  <2> QED BY <1>1, <1>2, <1>3, <2>1 DEF a
<1>6. CASE kind = "SELL_YES"
  <2>1. Tokens(h, kind, n).no = a /\ Delta(kind, n) = -n /\ Proceeds(kind, n, price) = x
    BY <1>1, <1>2, <1>6 DEF Tokens, Delta, SideOf, Proceeds, x
  <2> QED BY <1>1, <1>2, <2>1 DEF a
<1>7. CASE kind = "SELL_NO"
  <2>1. Tokens(h, kind, n).no = a - n /\ Delta(kind, n) = n /\ Proceeds(kind, n, price) = n * (1000 - price)
    BY <1>1, <1>2, <1>7 DEF Tokens, Delta, SideOf, Proceeds
  <2> QED BY <1>1, <1>2, <1>3, <2>1 DEF a
<1> QED BY <1>4, <1>5, <1>6, <1>7 DEF Kinds

(* A trade keeps the ledgers, whatever it opens, extends, closes or flips.     *)
LEMMA HeldLedgers ==
  ASSUME NEW h \in Holdings, NEW kind \in Kinds, NEW n \in Nat \ {0}, NEW price \in Int,
         NEW money \in Int, LedgersOf(h, money)
  PROVE  LedgersOf(HeldAfter(h, kind, n, price), money + Proceeds(kind, n, price))
<1> DEFINE x == Tokens(h, kind, n)
           delta == Delta(kind, n)
           v == HeldAfter(h, kind, n, price)
           worth == money + h.no * Payout
<1>1. n \in Nat /\ n # 0 /\ InitialCash \in Int
  BY VenueAssumption
<1>2. x \in Holdings /\ x.basis = h.basis /\ x.realized = h.realized /\ x.net = h.net
      /\ x.yes - x.no = h.yes - h.no + delta
  BY <1>1, TokensType
<1>3. delta \in Int /\ delta # 0
  BY <1>1, DeltaType
<1>4. worth \in Int
  BY HoldingType DEF Payout
<1>5. (money + Proceeds(kind, n, price)) + x.no * Payout = worth - price * delta
  BY <1>1, TradeCost
<1>6. h.net = h.yes - h.no /\ Valued(h.basis, h.realized, h.net, worth)
  BY DEF LedgersOf
<1>7. v = Netted(x, delta, price)
  BY DEF HeldAfter
<1> HIDE DEF x, delta, v, worth
<1>8. Valued(x.basis, x.realized, x.net, worth)
  BY <1>2, <1>6
<1>9. x.net + delta = x.yes - x.no
  BY <1>2, <1>3, <1>6, HoldingType
<1>10. CASE Extends(x, delta)
  <2>1. Valued(Averaged(x, delta, price), x.realized, x.net + delta, worth - price * delta)
    BY <1>1, <1>2, <1>3, <1>4, <1>8, <1>10, ExtendedValued
  <2>2. v = [yes |-> x.yes, no |-> x.no, net |-> x.net + delta,
             basis |-> Averaged(x, delta, price), realized |-> x.realized]
    BY <1>2, <1>3, <1>7, <1>10, NettedIs
  <2>3. v.net = v.yes - v.no /\ Valued(v.basis, v.realized, v.net, worth - price * delta) /\ v.no = x.no
    BY <1>9, <2>1, <2>2
  <2> QED BY <1>5, <2>3 DEF LedgersOf, v
<1>11. CASE ~Extends(x, delta)
  <2>1. Valued(BasisLeft(x, delta, price), Plus(x.realized, Gain(x, delta, price)),
               x.net + delta, worth - price * delta)
    BY <1>1, <1>2, <1>3, <1>4, <1>8, <1>11, NettedAway
  <2>2. v = [yes |-> x.yes, no |-> x.no, net |-> x.net + delta,
             basis |-> BasisLeft(x, delta, price), realized |-> Plus(x.realized, Gain(x, delta, price))]
    BY <1>2, <1>3, <1>7, <1>11, NettedIs
  <2>3. v.net = v.yes - v.no /\ Valued(v.basis, v.realized, v.net, worth - price * delta) /\ v.no = x.no
    BY <1>9, <2>1, <2>2
  <2> QED BY <1>5, <2>3 DEF LedgersOf, v
<1> QED BY <1>10, <1>11

(* A walk keeps the ledgers.                                                 *)
LEMMA WalkLedgers ==
  ASSUME VenueType, NEW o \in Orders, NEW t, NEW w, w = Walk(o, t), LedgersOf(hold, cash)
  PROVE  LedgersOf(w.hold, w.cash)
<1> DEFINE seq == LevelsFor(Opposite(SideOf(o.kind)), t)
           n == Len(seq)
           P == {x \in Walked : LedgersOf(x.hold, x.cash)}
           I == [m \in 0 .. n |-> P]
<1>1. seq \in Seq(Offers) /\ Begun(o) \in Walked
  BY WalkIsFold
<1>2. n \in Nat /\ \A m \in 0 .. n - 1 : seq[m + 1] \in Offers
  BY <1>1
<1>3. Begun(o) \in P
  BY <1>1 DEF Begun
<1>4. ASSUME NEW x \in P, NEW l \in Offers
      PROVE  Trade(o, t, x, l) \in P
  <2> DEFINE k == Smaller(x.left, l.size)
             v == Trade(o, t, x, l)
  <2>1. x \in Walked /\ LedgersOf(x.hold, x.cash)
    OBVIOUS
  <2>2. /\ v \in Walked /\ k \in Nat
        /\ k = 0 \/ ~Crosses(SideOf(o.kind), l.price, o.limit) => v = x
        /\ ~(k = 0 \/ ~Crosses(SideOf(o.kind), l.price, o.limit)) =>
             /\ v.hold = HeldAfter(x.hold, o.kind, k, l.price)
             /\ v.cash = x.cash + Proceeds(o.kind, k, l.price)
    BY <2>1, TradeIs
  <2>3. x.hold \in Holdings /\ x.cash \in Int /\ o.kind \in Kinds /\ l.price \in Int
    BY <2>1, WalkedType, OrderType, OfferType
  <2> HIDE DEF k, v, P
  <2>4. LedgersOf(v.hold, v.cash)
    <3>1. CASE k = 0 \/ ~Crosses(SideOf(o.kind), l.price, o.limit)
      BY <2>1, <2>2, <3>1
    <3>2. CASE ~(k = 0 \/ ~Crosses(SideOf(o.kind), l.price, o.limit))
      <4>1. k \in Nat \ {0}
        BY <2>2, <3>2
      <4>2. LedgersOf(HeldAfter(x.hold, o.kind, k, l.price), x.cash + Proceeds(o.kind, k, l.price))
        BY <2>1, <2>3, <4>1, HeldLedgers
      <4> QED BY <2>2, <3>2, <4>2
    <3> QED BY <3>1, <3>2
  <2> QED BY <2>2, <2>4 DEF P, v
<1> HIDE DEF P
<1>5. Begun(o) \in I[0]
  BY <1>2, <1>3
<1>6. \A m \in 0 .. n - 1 : \A x \in Walked \cap I[m] : Trade(o, t, x, seq[m + 1]) \in I[m + 1]
  <2> SUFFICES ASSUME NEW m \in 0 .. n - 1, NEW x \in Walked \cap I[m]
               PROVE  Trade(o, t, x, seq[m + 1]) \in I[m + 1]
    OBVIOUS
  <2>1. m \in 0 .. n /\ m + 1 \in 0 .. n /\ seq[m + 1] \in Offers
    BY <1>2
  <2>2. x \in P
    BY <2>1
  <2>3. Trade(o, t, x, seq[m + 1]) \in P
    BY <1>4, <2>1, <2>2
  <2> HIDE DEF seq, n
  <2> QED BY <2>1, <2>3
<1>7. Walk(o, t) \in I[n]
  <2> HIDE DEF I, seq
  <2>1. seq = LevelsFor(Opposite(SideOf(o.kind)), t)
    BY DEF seq
  <2> QED BY <1>5, <1>6, <2>1, WalkWithin
<1>8. n \in 0 .. n
  BY <1>2
<1> HIDE DEF n, seq
<1> QED BY <1>7, <1>8 DEF P

-----------------------------------------------------------------------------
(* What is cancelled leaves nothing in the book that was not there.           *)
LEMMA RemovedAt ==
  ASSUME NEW S, NEW s \in Seq(S), NEW k \in DOMAIN s
  PROVE  RemoveAt(s, k) \in Seq(S)
<1>1. Len(s) \in Nat /\ k \in 1 .. Len(s)
  OBVIOUS
<1>2. SubSeq(s, 1, k - 1) \in Seq(S) /\ SubSeq(s, k + 1, Len(s)) \in Seq(S)
  BY <1>1
<1> QED BY <1>2 DEF RemoveAt

LEMMA OwnEntries ==
  ASSUME NEW T, NEW s \in Seq(T)
  PROVE  s \in Seq({s[i] : i \in DOMAIN s})
OBVIOUS

(* Orders that go, or expire, cross nothing.                                  *)
LEMMA FewerUncrossed ==
  ASSUME book \in Seq(Entries), NEW b, NEW t \in Int, NEW u \in Int, t <= u,
         \A i \in DOMAIN b : \E k \in DOMAIN book : b[i] = book[k],
         Uncrossed(book, t)
  PROVE  Uncrossed(b, u)
<1> SUFFICES ASSUME NEW j \in DOMAIN b, NEW k \in DOMAIN b, Rests(b[j], "bid", u), Rests(b[k], "ask", u)
             PROVE  b[j].price < b[k].price
  BY DEF Uncrossed
<1>1. PICK x \in DOMAIN book : b[j] = book[x]
  OBVIOUS
<1>2. PICK y \in DOMAIN book : b[k] = book[y]
  OBVIOUS
<1>3. book[x] \in Entries /\ book[y] \in Entries
  OBVIOUS
<1>4. book[x].expires \in Int /\ book[y].expires \in Int
  BY <1>3, EntryType
<1>5. Rests(book[x], "bid", t) /\ Rests(book[y], "ask", t)
  BY <1>1, <1>2, <1>4 DEF Rests
<1> QED BY <1>1, <1>2, <1>5 DEF Uncrossed

LEMMA RemovedUncrossed ==
  ASSUME book \in Seq(Entries), NEW k \in DOMAIN book, NEW t \in Int, Uncrossed(book, t)
  PROVE  RemoveAt(book, k) \in Seq(Entries) /\ Uncrossed(RemoveAt(book, k), t)
<1> DEFINE S == {book[i] : i \in DOMAIN book}
           b == RemoveAt(book, k)
<1>1. book \in Seq(S)
  BY OwnEntries
<1>2. \A x \in S : \E i \in DOMAIN book : x = book[i]
  OBVIOUS
<1> HIDE DEF S, b
<1>3. b \in Seq(S) /\ b \in Seq(Entries)
  BY <1>1, RemovedAt DEF b
<1>4. \A i \in DOMAIN b : b[i] \in S
  BY <1>3
<1>5. \A i \in DOMAIN b : \E j \in DOMAIN book : b[i] = book[j]
  BY <1>2, <1>4
<1>6. t <= t
  OBVIOUS
<1>7. Uncrossed(b, t)
  BY <1>5, <1>6, FewerUncrossed
<1> QED BY <1>3, <1>7 DEF b

-----------------------------------------------------------------------------
Ops == {"setVol", "setSpread", "setDepth", "jumpSpot", "freezeQuote", "dropNextTx", "clashNonce"}
Steps == [op : Ops, value : Int, run : Int]

(* The timers that may be armed at the instant t: none of them is overdue.    *)
Pending(t) == [due : {d \in Int : d >= t}, job : Orders \cup Steps]

(* An advance under way has not passed its end, and no timer was passed over.  *)
ClockOK ==
  /\ now \in Int /\ target \in Int /\ (~Still => now <= target)
  /\ timers \in Seq(Pending(now))

LEMMA PendingType ==
  ASSUME NEW t, NEW x \in Pending(t)
  PROVE  x.due \in Int /\ x.due >= t /\ x.job \in Orders \cup Steps
BY DEF Pending

LEMMA PendingLater ==
  ASSUME NEW t, NEW x \in Pending(t), NEW u, x.due >= u
  PROVE  x \in Pending(u)
BY DEF Pending

LEMMA JobKinds ==
  /\ \A x \in Orders : IsOrder(x) /\ ~IsScripted(x)
  /\ \A x \in Steps : IsScripted(x) /\ ~IsOrder(x) /\ x.value \in Int
<1>1. ASSUME NEW x \in Orders PROVE IsOrder(x) /\ ~IsScripted(x)
  <2>1. DOMAIN x = {"id", "kind", "type", "size", "limit", "expires"}
    BY DEF Orders
  <2> QED BY <2>1 DEF IsOrder, IsScripted
<1>2. ASSUME NEW x \in Steps PROVE IsScripted(x) /\ ~IsOrder(x) /\ x.value \in Int
  <2>1. DOMAIN x = {"op", "value", "run"} /\ x.value \in Int
    BY DEF Steps
  <2> QED BY <2>1 DEF IsOrder, IsScripted
<1> QED BY <1>1, <1>2

(* Of the timers armed one is the next: the earliest, and the first armed of  *)
(* those due together.                                                      *)
LEMMA NextExists ==
  ASSUME ClockOK, NEW k \in DOMAIN timers
  PROVE  \E i \in DOMAIN timers : \A j \in DOMAIN timers :
           \/ timers[i].due < timers[j].due
           \/ timers[i].due = timers[j].due /\ i <= j
<1> DEFINE D == DOMAIN timers
           d(j) == timers[j].due
           R == {p \in D \X D : d(p[2]) < d(p[1]) \/ (d(p[1]) = d(p[2]) /\ p[2] < p[1])}
<1>1. Len(timers) \in Nat /\ D = 1 .. Len(timers) /\ \A j \in D : d(j) \in Int
  <2>1. \A j \in DOMAIN timers : timers[j] \in Pending(now)
    BY DEF ClockOK
  <2>2. \A j \in DOMAIN timers : timers[j].due \in Int
    BY <2>1, PendingType
  <2> QED BY <2>2 DEF ClockOK
<1>2. IsFiniteSet(D) /\ D \subseteq Int
  BY <1>1, FS_Interval
<1>3. \A x, y \in D : <<x, y>> \in R <=> d(y) < d(x) \/ (d(x) = d(y) /\ y < x)
  OBVIOUS
<1> HIDE DEF D, d, R
<1>4. IsOrderOf(R, D)
  <2>1. \A x \in D : x \in Int /\ d(x) \in Int
    BY <1>1, <1>2
  <2>2. \A x, y, z \in D : <<x, y>> \in R /\ <<y, z>> \in R => <<x, z>> \in R
    BY <1>3, <2>1
  <2>3. \A x, y \in D : x # y => <<x, y>> \in R \/ <<y, x>> \in R
    BY <1>3, <2>1
  <2>4. \A x \in D : <<x, x>> \notin R
    BY <1>3, <2>1
  <2> QED BY <2>2, <2>3, <2>4 DEF IsOrderOf
<1>5. D # {}
  BY DEF D
<1>6. PICK i \in D : \A j \in D \ {i} : <<j, i>> \in R
  BY <1>2, <1>4, <1>5, LastExists
<1>7. \A j \in D : d(i) < d(j) \/ (d(i) = d(j) /\ i <= j)
  <2> TAKE j \in D
  <2>1. i \in Int /\ j \in Int /\ d(i) \in Int /\ d(j) \in Int
    BY <1>1, <1>2
  <2>2. j # i => d(i) < d(j) \/ (d(i) = d(j) /\ i < j)
    BY <1>3, <1>6
  <2> QED BY <2>1, <2>2
<1> QED BY <1>7 DEF D, d

(* The advance is over when nothing that is left is due by its end.           *)
LEMMA AdvanceEndClock ==
  ASSUME ClockOK, AdvanceEnd
  PROVE  ClockOK' /\ now <= now'
<1>1. /\ ~Still /\ now' = target /\ target' = Unset /\ timers' = timers
      /\ now \in Int /\ target \in Int /\ now <= target /\ timers \in Seq(Pending(now))
      /\ \A i \in DOMAIN timers : ~Due(i)
  BY DEF AdvanceEnd, ClockOK
<1>2. \A k \in DOMAIN timers : timers[k] \in Pending(target)
  <2> SUFFICES ASSUME NEW k \in DOMAIN timers PROVE timers[k] \in Pending(target)
    OBVIOUS
  <2>1. PICK i \in DOMAIN timers : \A j \in DOMAIN timers :
          \/ timers[i].due < timers[j].due
          \/ timers[i].due = timers[j].due /\ i <= j
    BY NextExists
  <2>2. ~(timers[i].due <= target)
    BY <1>1, <2>1 DEF Due
  <2>3. timers[i] \in Pending(now) /\ timers[k] \in Pending(now)
    BY <1>1
  <2>4. timers[i].due \in Int /\ timers[k].due \in Int
    BY <2>3, PendingType
  <2>5. timers[k].due >= target
    BY <1>1, <2>1, <2>2, <2>4
  <2> QED BY <2>3, <2>5, PendingLater
<1>3. timers \in Seq(Pending(target))
  BY <1>1, <1>2
<1>4. Still' /\ target' \in Int
  BY <1>1 DEF Still, Unset
<1> QED BY <1>1, <1>3, <1>4 DEF ClockOK

(* A timer that fires moves the clock to its instant, and none is passed over. *)
LEMMA FiredClock ==
  ASSUME ClockOK, NEW i, Due(i), ~Still, now' = timers[i].due, timers' = Without(i), target' = target
  PROVE  ClockOK' /\ now' \in Int /\ now <= now'
<1> DEFINE n == Len(timers)
           at(k) == IF k < i THEN k ELSE k + 1
           T == Pending(now')
<1>1. /\ i \in DOMAIN timers /\ timers[i].due <= target
      /\ \A j \in DOMAIN timers : timers[i].due < timers[j].due \/ (timers[i].due = timers[j].due /\ i <= j)
  BY DEF Due
<1>2. /\ target \in Int /\ now \in Int /\ n \in Nat /\ DOMAIN timers = 1 .. n /\ i \in 1 .. n
      /\ \A j \in DOMAIN timers : timers[j] \in Pending(now)
  BY <1>1 DEF ClockOK
<1>3. \A j \in DOMAIN timers : timers[j].due \in Int /\ timers[j].due >= now
  BY <1>2, PendingType
<1>4. now' \in Int /\ now <= now' /\ now' <= target
  BY <1>1, <1>2, <1>3
<1>5. \A j \in DOMAIN timers : timers[j] \in T
  <2> TAKE j \in DOMAIN timers
  <2>1. timers[j].due >= now'
    BY <1>1, <1>3
  <2> QED BY <1>2, <2>1, PendingLater
<1>6. \A k \in 1 .. n - 1 : at(k) \in DOMAIN timers
  BY <1>2
<1>7. timers' = [k \in 1 .. n - 1 |-> timers[at(k)]]
  BY DEF Without
<1>8. \A k \in 1 .. n - 1 : timers[at(k)] \in T
  BY <1>5, <1>6
<1>9. n - 1 \in Nat
  BY <1>2
<1> HIDE DEF n, at, T
<1>10. timers' \in Seq(T)
  BY <1>7, <1>8, <1>9
<1> QED BY <1>2, <1>4, <1>10 DEF ClockOK, T, Still

-----------------------------------------------------------------------------
ScriptSteps == [at : Nat, op : Ops, value : Int]

LEMMA ScriptTypes ==
  ASSUME NEW name \in DOMAIN SCENARIOS
  PROVE  SCENARIOS[name] \in Seq(ScriptSteps)
<1> DEFINE T == ScriptSteps
<1>1. name \in {"VOL_SPIKE", "NEWS_SHOCK", "FLAT_DRIFT", "STALE_QUOTE", "THIN_BOOK",
               "DROPPED_TX", "NONCE_CLASH"}
  BY DEF SCENARIOS
<1> HIDE DEF T
<1>3. \A a, b, c, d, e \in T : /\ <<a, b>> \in Seq(T) /\ <<a, b, c>> \in Seq(T)
                              /\ <<a, b, c, d>> \in Seq(T) /\ <<a, b, c, d, e>> \in Seq(T)
  OBVIOUS
<1>4. CASE name = "VOL_SPIKE"
  <2>1. SCENARIOS[name] = <<step(0, "setVol", 400), step(2000, "setVol", 3000), step(20000, "setVol", 2400),
                             step(40000, "setVol", 900), step(60000, "setVol", 400)>>
    BY <1>4 DEF SCENARIOS
  <2>2. /\ step(0, "setVol", 400) \in T /\ step(2000, "setVol", 3000) \in T
        /\ step(20000, "setVol", 2400) \in T /\ step(40000, "setVol", 900) \in T
        /\ step(60000, "setVol", 400) \in T
    BY DEF step, ScriptSteps, Ops, T
  <2> QED BY <1>3, <2>1, <2>2 DEF T
<1>5. CASE name = "NEWS_SHOCK"
  <2>1. SCENARIOS[name] = <<step(0, "setVol", 500), step(5000, "jumpSpot", 1035), step(5001, "setVol", 2000),
                             step(25000, "setVol", 700)>>
    BY <1>5 DEF SCENARIOS
  <2>2. /\ step(0, "setVol", 500) \in T /\ step(5000, "jumpSpot", 1035) \in T
        /\ step(5001, "setVol", 2000) \in T /\ step(25000, "setVol", 700) \in T
    BY DEF step, ScriptSteps, Ops, T
  <2> QED BY <1>3, <2>1, <2>2 DEF T
<1>6. CASE name = "FLAT_DRIFT"
  <2>1. SCENARIOS[name] = <<step(0, "setVol", 20), step(0, "setSpread", 4), step(30000, "setVol", 15)>>
    BY <1>6 DEF SCENARIOS
  <2>2. /\ step(0, "setVol", 20) \in T /\ step(0, "setSpread", 4) \in T
        /\ step(30000, "setVol", 15) \in T
    BY DEF step, ScriptSteps, Ops, T
  <2> QED BY <1>3, <2>1, <2>2 DEF T
<1>7. CASE name = "STALE_QUOTE"
  <2>1. SCENARIOS[name] = <<step(0, "setVol", 600), step(1000, "freezeQuote", 30000)>>
    BY <1>7 DEF SCENARIOS
  <2>2. /\ step(0, "setVol", 600) \in T /\ step(1000, "freezeQuote", 30000) \in T
    BY DEF step, ScriptSteps, Ops, T
  <2> QED BY <1>3, <2>1, <2>2 DEF T
<1>8. CASE name = "THIN_BOOK"
  <2>1. SCENARIOS[name] = <<step(0, "setVol", 600), step(1000, "setDepth", 1), step(15000, "setDepth", 0),
                             step(25000, "setDepth", 50)>>
    BY <1>8 DEF SCENARIOS
  <2>2. /\ step(0, "setVol", 600) \in T /\ step(1000, "setDepth", 1) \in T
        /\ step(15000, "setDepth", 0) \in T /\ step(25000, "setDepth", 50) \in T
    BY DEF step, ScriptSteps, Ops, T
  <2> QED BY <1>3, <2>1, <2>2 DEF T
<1>9. CASE name = "DROPPED_TX"
  <2>1. SCENARIOS[name] = <<step(0, "setVol", 800), step(2000, "dropNextTx", 1)>>
    BY <1>9 DEF SCENARIOS
  <2>2. /\ step(0, "setVol", 800) \in T /\ step(2000, "dropNextTx", 1) \in T
    BY DEF step, ScriptSteps, Ops, T
  <2> QED BY <1>3, <2>1, <2>2 DEF T
<1>10. CASE name = "NONCE_CLASH"
  <2>1. SCENARIOS[name] = <<step(0, "setVol", 800), step(2000, "clashNonce", 1)>>
    BY <1>10 DEF SCENARIOS
  <2>2. /\ step(0, "setVol", 800) \in T /\ step(2000, "clashNonce", 1) \in T
    BY DEF step, ScriptSteps, Ops, T
  <2> QED BY <1>3, <2>1, <2>2 DEF T
<1> QED BY <1>1, <1>4, <1>5, <1>6, <1>7, <1>8, <1>9, <1>10

LEMMA OrderedType ==
  ASSUME VenueType, now \in Int, NEW q \in Requests
  PROVE  Order(q) \in Orders
<1>1. q.kind \in Kinds /\ q.type \in OrderTypes /\ q.price \in Int /\ q.size \in Nat \ {0} /\ q.ttl \in Int
  BY VenueAssumption
<1>2. Len(acks) + 1 \in Nat
  BY DEF VenueType
<1>3. Limit(q) \in Int
  BY <1>1 DEF Limit, YesPrice, Payout
<1>4. Smaller(now + q.ttl, Expiry) \in Int
  BY <1>1, VenueAssumption DEF Smaller
<1> QED BY <1>1, <1>2, <1>3, <1>4 DEF Order, Orders

(* An order that is queued waits behind the timers that are armed.            *)
LEMMA QueuedClock ==
  ASSUME VenueType, ClockOK, NEW q \in Requests, PlaceQueued(q)
  PROVE  ClockOK'
<1> DEFINE x == Timer(latency, Order(q))
<1>1. now' = now /\ target' = target /\ timers' = Append(timers, x)
  BY DEF PlaceQueued, Armed
<1>2. now \in Int /\ latency \in Nat /\ Order(q) \in Orders
  BY OrderedType DEF ClockOK, VenueType
<1>3. x = [due |-> now + latency, job |-> Order(q)]
  BY DEF Timer
<1>4. now + latency \in {d \in Int : d >= now}
  BY <1>2
<1> HIDE DEF x
<1>5. x \in Pending(now)
  BY <1>2, <1>3, <1>4 DEF Pending
<1>6. timers' \in Seq(Pending(now))
  BY <1>1, <1>5 DEF ClockOK
<1> QED BY <1>1, <1>6 DEF ClockOK, Still

(* What cancel() leaves armed was armed before.                               *)
LEMMA ClearedClock ==
  ASSUME ClockOK
  PROVE  Cleared \in Seq(Pending(now))
<1>1. timers \in Seq(Pending(now))
  BY DEF ClockOK
<1>2. Cleared \in Seq(Others(timers))
  BY <1>1, ClearedOthers DEF Sequence
<1>3. Others(timers) \subseteq Pending(now)
  BY <1>1 DEF Others
<1> QED BY <1>2, <1>3

(* A script is armed from the instant of its start on.                        *)
LEMMA StartClock ==
  ASSUME ClockOK, runs \in Int, NEW name \in Scripts, StartScript(name)
  PROVE  ClockOK' /\ runs' \in Int
<1> DEFINE steps == SCENARIOS[name]
           script == [k \in DOMAIN steps |-> Scripted(steps[k])]
           T == Pending(now)
<1>1. steps \in Seq(ScriptSteps)
  BY ScenarioAssumption, ScriptTypes
<1>2. /\ timers' = Cleared \o script /\ now' = now /\ target' = target /\ runs' = runs + 1
  BY DEF StartScript
<1>3. now \in Int /\ Cleared \in Seq(T)
  BY ClearedClock DEF ClockOK
<1> HIDE DEF steps, T
<1>4. ASSUME NEW s \in ScriptSteps PROVE Scripted(s) \in T
  <2>1. s.at \in Nat /\ s.op \in Ops /\ s.value \in Int
    BY DEF ScriptSteps
  <2>2. [op |-> s.op, value |-> s.value, run |-> runs + 1] \in Steps
    BY <2>1 DEF Steps
  <2>3. now + s.at \in {d \in Int : d >= now}
    BY <1>3, <2>1
  <2>4. Scripted(s) = [due |-> now + s.at, job |-> [op |-> s.op, value |-> s.value, run |-> runs + 1]]
    BY DEF Scripted, Timer
  <2> QED BY <2>2, <2>3, <2>4 DEF Pending, T
<1>5. script \in Seq(T)
  BY <1>1, <1>4
<1> HIDE DEF script
<1>6. timers' \in Seq(T)
  BY <1>2, <1>3, <1>5
<1> QED BY <1>2, <1>6 DEF ClockOK, Still, T

-----------------------------------------------------------------------------
(* The inductive invariant.  The types and the clock are part of it because an *)
(* order is matched when its timer fires: the book it meets must have stayed  *)
(* uncrossed until that instant, which takes a clock that never goes back.    *)
SimInv ==
  /\ VenueType /\ runs \in Int /\ volTarget \in Int
  /\ ClockOK
  /\ Uncrossed(book, now)
  /\ ~claimed => LedgersOf(hold, cash)

LEMMA EmptyLedgers == LedgersOf(NoHolding, InitialCash) /\ NoHolding \in Holdings
<1>1. Is(Whole(0), 0, 1)
  <2>1. 0 * 1 = 0 /\ 0 \in Int /\ 1 \in Nat \ {0}
    OBVIOUS
  <2> QED BY <2>1, WholeIs
<1>2. Whole(0) \in Fractions
  BY FractionTypes
<1>3. InitialCash \in Int
  BY VenueAssumption
<1>4. Balance(1, 0, 0, 0, InitialCash + 0 * Payout)
  BY <1>3 DEF Balance, Payout
<1>5. Valued(Whole(0), Whole(0), 0, InitialCash + 0 * Payout)
  <2>1. 1 \in Nat \ {0} /\ 0 \in Int
    OBVIOUS
  <2> QED BY <1>1, <1>4, <2>1 DEF Valued
<1>6. /\ NoHolding.yes = 0 /\ NoHolding.no = 0 /\ NoHolding.net = 0
      /\ NoHolding.basis = Whole(0) /\ NoHolding.realized = Whole(0)
  BY DEF NoHolding
<1>7. NoHolding \in Holdings
  BY <1>2 DEF NoHolding, Holdings
<1>8. 0 = 0 - 0
  OBVIOUS
<1> QED BY <1>5, <1>6, <1>7, <1>8 DEF LedgersOf

LEMMA SimStart == SimInit => SimInv
<1> SUFFICES ASSUME SimInit PROVE SimInv
  OBVIOUS
<1>1. /\ now = 0 /\ target = Unset /\ timers = <<>> /\ latency \in Latencies
      /\ fair = 500000 /\ spread = 20000 /\ depthOverride = Unset
      /\ acks = <<>> /\ book = <<>> /\ hold = NoHolding /\ cash = InitialCash
      /\ runs = 0 /\ volTarget = 400
  BY DEF SimInit, ClockInit, VenueInit
<1>2. VenueType
  BY <1>1, EmptyLedgers, VenueAssumption DEF VenueType, Unset
<1>3. ClockOK
  BY <1>1 DEF ClockOK, Unset, Still
<1>4. Uncrossed(book, now)
  BY <1>1 DEF Uncrossed
<1>5. LedgersOf(hold, cash)
  BY <1>1, EmptyLedgers
<1> QED BY <1>1, <1>2, <1>3, <1>4, <1>5 DEF SimInv

(* A step that leaves the book and the holding alone. *)
LEMMA RestKeepsSim ==
  ASSUME SimInv, UNCHANGED <<latency, fair, spread, depthOverride, book, hold, cash, claimed>>,
         acks' \in Seq(Answers), ClockOK', now' \in Int, now <= now', runs' \in Int, volTarget' \in Int
  PROVE  SimInv'
<1>1. VenueType'
  BY DEF SimInv, VenueType
<1>2. Uncrossed(book, now')
  <2>1. book \in Seq(Entries) /\ now \in Int /\ Uncrossed(book, now)
    BY DEF SimInv, VenueType, ClockOK
  <2>2. \A i \in DOMAIN book : \E k \in DOMAIN book : book[i] = book[k]
    OBVIOUS
  <2> QED BY <2>1, <2>2, FewerUncrossed
<1>3. Uncrossed(book, now)'
  BY <1>2 DEF Uncrossed, Rests
<1>4. (~claimed => LedgersOf(hold, cash))'
  BY DEF SimInv, LedgersOf, Valued, Is, Balance, Fractions, Payout
<1> QED BY <1>1, <1>3, <1>4 DEF SimInv

(* An order matched at the instant t. *)
LEMMA MatchedKeepsSim ==
  ASSUME SimInv, NEW o \in Orders, Matched(o, now'), ClockOK', now <= now',
         UNCHANGED <<latency, fair, spread, depthOverride, claimed, runs, volTarget>>,
         acks' \in Seq(Answers)
  PROVE  SimInv'
<1> DEFINE t == now'
           w == Walk(o, t)
<1>1. /\ VenueType /\ book \in Seq(Entries) /\ now \in Int /\ t \in Int /\ Uncrossed(book, now)
      /\ ~claimed => LedgersOf(hold, cash)
  BY DEF SimInv, VenueType, ClockOK
<1>2. \A i \in DOMAIN book : \E k \in DOMAIN book : book[i] = book[k]
  OBVIOUS
<1> HIDE DEF t
<1>3. Uncrossed(book, t)
  BY <1>1, <1>2, FewerUncrossed DEF t
<1>4. Uncrossed(book', t)
  BY <1>1, <1>3, MatchedUncrossed DEF t
<1>5. book' \in Seq(Entries)
  BY <1>1, MatchedBook DEF t
<1>6. hold' = w.hold /\ cash' = w.cash
  BY DEF Matched, t
<1>7. hold' \in Holdings /\ cash' \in Int
  <2>1. w \in Walked
    BY <1>1, WalkSweeps
  <2> QED BY <1>6, <2>1, WalkedType
<1>8. ~claimed => LedgersOf(hold', cash')
  <2>1. ~claimed => LedgersOf(w.hold, w.cash)
    BY <1>1, WalkLedgers
  <2> QED BY <1>6, <2>1
<1>9. VenueType'
  BY <1>1, <1>5, <1>7 DEF VenueType
<1>10. Uncrossed(book, now)'
  BY <1>4 DEF Uncrossed, Rests, t
<1>11. (~claimed => LedgersOf(hold, cash))'
  BY <1>8 DEF LedgersOf, Valued, Is, Balance, Fractions, Payout
<1> QED BY <1>9, <1>10, <1>11 DEF SimInv

-----------------------------------------------------------------------------
LEMMA PlaceKeeps ==
  ASSUME SimInv, NEW q \in Requests, PlaceRejected(q) \/ PlaceQueued(q) \/ PlaceInline(q),
         UNCHANGED scenarioVars
  PROVE  SimInv'
<1>1. /\ VenueType /\ ClockOK /\ now \in Int /\ runs \in Int /\ volTarget \in Int
      /\ acks \in Seq(Answers) /\ runs' = runs /\ volTarget' = volTarget
  BY DEF SimInv, ClockOK, VenueType, scenarioVars
<1>2. Append(acks, "REJECTED") \in Seq(Answers) /\ Append(acks, "QUEUED") \in Seq(Answers)
      /\ Append(acks, "ACCEPTED") \in Seq(Answers)
  BY <1>1 DEF Answers
<1>3. CASE PlaceRejected(q) \/ PlaceQueued(q)
  <2>1. ClockOK'
    <3>1. CASE PlaceRejected(q)
      BY <1>1, <3>1 DEF PlaceRejected, clockVars, ClockOK, Still, Pending
    <3>2. CASE PlaceQueued(q)
      BY <1>1, <3>2, QueuedClock
    <3> QED BY <1>3, <3>1, <3>2
  <2>2. /\ UNCHANGED <<latency, fair, spread, depthOverride, book, hold, cash, claimed>>
        /\ now' = now /\ acks' \in Seq(Answers)
    BY <1>2, <1>3 DEF PlaceRejected, PlaceQueued, venueConfig, clockVars
  <2>3. now' \in Int /\ now <= now' /\ runs' \in Int /\ volTarget' \in Int
    BY <1>1, <2>2
  <2> QED BY <2>1, <2>2, <2>3, RestKeepsSim
<1>4. CASE PlaceInline(q)
  <2>1. /\ UNCHANGED <<latency, fair, spread, depthOverride, claimed, runs, volTarget>>
        /\ UNCHANGED <<now, target, timers>>
        /\ Matched(Order(q), now) /\ acks' \in Seq(Answers)
    BY <1>1, <1>2, <1>4 DEF PlaceInline, venueConfig, clockVars
  <2>2. ClockOK'
    BY <1>1, <2>1 DEF ClockOK, Still, Pending
  <2>3. Order(q) \in Orders
    BY <1>1, OrderedType
  <2>4. now' = now /\ now <= now'
    BY <1>1, <2>1
  <2>5. Matched(Order(q), now')
    BY <2>1, <2>4
  <2> QED BY <2>1, <2>2, <2>3, <2>4, <2>5, MatchedKeepsSim
<1> QED BY <1>3, <1>4

LEMMA CancelKeeps ==
  ASSUME SimInv, UNCHANGED scenarioVars, (\E id \in DOMAIN acks : Cancel(id)) \/ CancelAll
  PROVE  SimInv'
<1>1. /\ UNCHANGED <<now, target, timers, latency, fair, spread, depthOverride, acks, hold, cash, claimed>>
      /\ UNCHANGED <<runs, volTarget>>
      /\ book' = <<>> \/ \E k \in DOMAIN book : book' = RemoveAt(book, k)
  BY DEF Cancel, CancelAll, clockVars, venueConfig, scenarioVars
<1>2. /\ VenueType /\ ClockOK /\ book \in Seq(Entries) /\ now \in Int /\ Uncrossed(book, now)
      /\ ~claimed => LedgersOf(hold, cash)
      /\ runs \in Int /\ volTarget \in Int
  BY DEF SimInv, VenueType, ClockOK
<1>3. book' \in Seq(Entries) /\ Uncrossed(book', now)
  <2>1. CASE book' = <<>>
    BY <2>1 DEF Uncrossed
  <2>2. ASSUME NEW k \in DOMAIN book, book' = RemoveAt(book, k) PROVE book' \in Seq(Entries) /\ Uncrossed(book', now)
    BY <1>2, <2>2, RemovedUncrossed
  <2> QED BY <1>1, <2>1, <2>2
<1>4. VenueType'
  BY <1>1, <1>2, <1>3 DEF VenueType
<1>5. ClockOK'
  BY <1>1, <1>2 DEF ClockOK, Still, Pending
<1>6. Uncrossed(book, now)'
  BY <1>1, <1>3 DEF Uncrossed, Rests
<1>7. (~claimed => LedgersOf(hold, cash))'
  BY <1>1, <1>2 DEF LedgersOf, Valued, Is, Balance, Fractions, Payout
<1> QED BY <1>1, <1>2, <1>4, <1>5, <1>6, <1>7 DEF SimInv

(* A step that changes nothing but the holding and the money. *)
LEMMA PaidKeeps ==
  ASSUME SimInv, UNCHANGED <<clockVars, venueConfig, acks, book, scenarioVars>>,
         hold' \in Holdings, cash' \in Int, ~claimed' => LedgersOf(hold', cash')
  PROVE  SimInv'
<1>1. UNCHANGED <<now, target, timers, latency, fair, spread, depthOverride, acks, book, runs, volTarget>>
  BY DEF clockVars, venueConfig, scenarioVars
<1>2. VenueType'
  BY <1>1 DEF SimInv, VenueType
<1>3. ClockOK'
  BY <1>1 DEF SimInv, ClockOK, Still, Pending
<1>4. Uncrossed(book, now)'
  BY <1>1 DEF SimInv, Uncrossed, Rests
<1>5. (~claimed => LedgersOf(hold, cash))'
  BY DEF LedgersOf, Valued, Is, Balance, Fractions, Payout
<1> QED BY <1>1, <1>2, <1>3, <1>4, <1>5 DEF SimInv

(* A pair costs what its two tokens are worth together. *)
LEMMA MintKeeps ==
  ASSUME SimInv, UNCHANGED scenarioVars, NEW n \in Mints, Mint(n)
  PROVE  SimInv'
<1> DEFINE h == [yes |-> hold.yes + n, no |-> hold.no + n, net |-> hold.net,
                 basis |-> hold.basis, realized |-> hold.realized]
           money == cash - n * Payout
<1>1. /\ n \in Int /\ hold \in Holdings /\ cash \in Int
      /\ ~claimed => LedgersOf(hold, cash)
      /\ hold.yes \in Int /\ hold.no \in Int /\ hold.net \in Int
      /\ hold.basis \in Fractions /\ hold.realized \in Fractions
  BY VenueAssumption, HoldingType DEF SimInv, VenueType
<1>2. hold' = [hold EXCEPT !.yes = hold.yes + n, !.no = hold.no + n] /\ cash' = money
      /\ UNCHANGED <<clockVars, venueConfig, acks, book>> /\ claimed' = claimed
  BY DEF Mint
<1>3. hold' = h
  BY <1>1, <1>2 DEF Holdings
<1>4. h \in Holdings /\ money \in Int
  BY <1>1 DEF Holdings, Payout
<1>5. money + (hold.no + n) * Payout = cash + hold.no * Payout
  BY <1>1 DEF Payout
<1>6. LedgersOf(hold, cash) => LedgersOf(h, money)
  <2> SUFFICES ASSUME LedgersOf(hold, cash) PROVE LedgersOf(h, money)
    OBVIOUS
  <2>1. hold.net = hold.yes - hold.no /\ Valued(hold.basis, hold.realized, hold.net, cash + hold.no * Payout)
    BY DEF LedgersOf
  <2>2. hold.net = (hold.yes + n) - (hold.no + n)
    BY <1>1, <2>1
  <2>3. h.net = h.yes - h.no
    BY <2>2
  <2>4. Valued(h.basis, h.realized, h.net, money + h.no * Payout)
    <3>1. h.basis = hold.basis /\ h.realized = hold.realized /\ h.net = hold.net /\ h.no = hold.no + n
      OBVIOUS
    <3> HIDE DEF h, money
    <3> QED BY <1>5, <2>1, <3>1
  <2> QED BY <2>3, <2>4 DEF LedgersOf
<1> HIDE DEF h, money
<1> QED BY <1>1, <1>2, <1>3, <1>4, <1>6, PaidKeeps

LEMMA ClaimKeeps ==
  ASSUME SimInv, UNCHANGED scenarioVars, Claim
  PROVE  SimInv'
<1> DEFINE n == Winning(hold, Settled)
           share == IF Settled = "yes" THEN Times(hold.basis, -1) ELSE Plus(hold.basis, Whole(-Payout))
           paid == Times(Plus(Whole(Payout), share), n)
           r == Plus(hold.realized, paid)
<1>1. /\ hold \in Holdings /\ cash \in Int
      /\ hold.yes \in Int /\ hold.no \in Int /\ hold.net \in Int
      /\ hold.basis \in Fractions /\ hold.realized \in Fractions
  BY HoldingType DEF SimInv, VenueType
<1>2. /\ claimed' = TRUE /\ cash' = cash + n * Payout /\ hold' = [NoHolding EXCEPT !.realized = r]
      /\ UNCHANGED <<clockVars, venueConfig, acks, book>>
  BY DEF Claim
<1>3. n \in Int /\ Payout \in Int /\ -Payout \in Int /\ -1 \in Int
  BY <1>1 DEF Winning, Payout
<1>4. Times(hold.basis, -1) \in Fractions /\ Plus(hold.basis, Whole(-Payout)) \in Fractions
      /\ Whole(Payout) \in Fractions
  BY <1>1, <1>3, FractionTypes
<1>5. share \in Fractions
  BY <1>4
<1> HIDE DEF n, share
<1>6. paid \in Fractions
  BY <1>3, <1>4, <1>5, FractionTypes
<1> HIDE DEF paid
<1>7. r \in Fractions
  BY <1>1, <1>6, FractionTypes
<1> HIDE DEF r
<1>8. hold' \in Holdings
  <2>1. NoHolding \in Holdings
    BY EmptyLedgers
  <2> QED BY <1>2, <1>7, <2>1 DEF Holdings
<1>9. cash' \in Int
  BY <1>1, <1>2, <1>3 DEF Payout
<1> QED BY <1>2, <1>8, <1>9, PaidKeeps

LEMMA LookKeeps ==
  ASSUME SimInv, UNCHANGED scenarioVars, Look
  PROVE  SimInv'
<1>1. UNCHANGED <<clockVars, venueConfig, acks, book>> /\ UNCHANGED <<hold, cash, claimed>>
  BY DEF Look
<1>2. /\ hold \in Holdings /\ cash \in Int
      /\ ~claimed => LedgersOf(hold, cash)
  BY DEF SimInv, VenueType
<1>3. ~claimed' => LedgersOf(hold', cash')
  BY <1>1, <1>2
<1> QED BY <1>1, <1>2, <1>3, PaidKeeps

(* A queued order is matched at the instant it was due. *)
LEMMA FireOrderKeeps ==
  ASSUME SimInv, UNCHANGED scenarioVars, NEW i \in DOMAIN timers, FireOrder(i)
  PROVE  SimInv'
<1>1. /\ ~Still /\ Due(i) /\ IsOrder(timers[i].job) /\ now' = timers[i].due /\ timers' = Without(i)
      /\ target' = target /\ Matched(timers[i].job, now') /\ acks' = acks
      /\ UNCHANGED <<latency, fair, spread, depthOverride, claimed, runs, volTarget>>
  BY DEF FireOrder, venueConfig, scenarioVars
<1>2. ClockOK /\ timers \in Seq(Pending(now)) /\ acks \in Seq(Answers)
  BY DEF SimInv, ClockOK, VenueType
<1>3. ClockOK' /\ now <= now'
  BY <1>1, <1>2, FiredClock
<1>4. timers[i] \in Pending(now)
  BY <1>2
<1>5. timers[i].job \in Orders
  <2>1. timers[i].job \in Orders \cup Steps
    BY <1>4, PendingType
  <2> QED BY <1>1, <2>1, JobKinds
<1> QED BY <1>1, <1>2, <1>3, <1>5, MatchedKeepsSim

LEMMA FireStepKeeps ==
  ASSUME SimInv, NEW i \in DOMAIN timers, FireStep(i)
  PROVE  SimInv'
<1> DEFINE op == timers[i].job.op
           value == timers[i].job.value
<1>1. /\ ~Still /\ Due(i) /\ IsScripted(timers[i].job) /\ now' = timers[i].due /\ timers' = Without(i)
      /\ target' = target /\ Apply(op, value)
      /\ UNCHANGED <<latency, acks, book, hold, cash, claimed, runs>>
  BY DEF FireStep
<1>2. /\ ClockOK /\ timers \in Seq(Pending(now)) /\ now \in Int /\ target \in Int
      /\ latency \in Nat /\ fair \in Int /\ spread \in Int /\ depthOverride \in Int
      /\ acks \in Seq(Answers) /\ book \in Seq(Entries) /\ hold \in Holdings /\ cash \in Int
      /\ runs \in Int /\ volTarget \in Int
      /\ Uncrossed(book, now)
      /\ ~claimed => LedgersOf(hold, cash)
  BY DEF SimInv, ClockOK, VenueType
<1>3. ClockOK' /\ now' \in Int /\ now <= now'
  BY <1>1, <1>2, FiredClock
<1>4. timers[i] \in Pending(now)
  BY <1>2
<1>5. value \in Int
  <2>1. timers[i].job \in Orders \cup Steps
    BY <1>4, PendingType
  <2> QED BY <1>1, <2>1, JobKinds
<1> HIDE DEF op, value
<1>6. volTarget' \in Int
  BY <1>1, <1>2, <1>5 DEF Apply
<1>7. spread' \in Int
  <2>1. value * 30 \in Int /\ value * 1000 \in Int
    BY <1>5
  <2>2. spread' = IF op = "setVol" THEN Larger(2000, value * 30)
                  ELSE IF op = "setSpread" THEN value * 1000 ELSE spread
    BY <1>1 DEF Apply
  <2> QED BY <1>2, <2>1, <2>2 DEF Larger
<1>8. depthOverride' \in Int
  BY <1>1, <1>2, <1>5 DEF Apply
<1>9. fair' \in Int
  <2>1. FairAfter(op, value, volTarget') \in Int
    <3>1. 500000 + (IF op = "jumpSpot" THEN (value - 1000) * 6000 ELSE 0) + 8 * volTarget' \in Int
      BY <1>5, <1>6
    <3> QED BY <3>1 DEF FairAfter, Clamped, Larger, Smaller
  <2>2. fair' = IF op \in {"setVol", "jumpSpot"} THEN FairAfter(op, value, volTarget') ELSE fair
    BY <1>1 DEF Apply
  <2> QED BY <1>2, <2>1, <2>2
<1>10. VenueType'
  BY <1>1, <1>2, <1>7, <1>8, <1>9 DEF VenueType
<1>11. Uncrossed(book, now')
  <2>1. \A x \in DOMAIN book : \E k \in DOMAIN book : book[x] = book[k]
    OBVIOUS
  <2> QED BY <1>2, <1>3, <2>1, FewerUncrossed
<1>12. Uncrossed(book, now)'
  BY <1>1, <1>11 DEF Uncrossed, Rests
<1>13. (~claimed => LedgersOf(hold, cash))'
  BY <1>1, <1>2 DEF LedgersOf, Valued, Is, Balance, Fractions, Payout
<1> QED BY <1>1, <1>2, <1>3, <1>6, <1>10, <1>12, <1>13 DEF SimInv

(* A start, a cancel, an advance of the clock, a tick of the spot. *)
LEMMA DriverKeeps ==
  ASSUME SimInv,
         \/ \E name \in Scripts : StartScript(name)
         \/ Stop \/ SpotTick
         \/ (\E t \in Stops : AdvanceTo(t)) /\ UNCHANGED <<venueVars, scenarioVars>>
         \/ AdvanceEnd /\ UNCHANGED <<venueVars, scenarioVars>>
         \/ UNCHANGED simVars
  PROVE  SimInv'
<1>1. /\ UNCHANGED <<latency, fair, spread, depthOverride, book, hold, cash, claimed>>
      /\ acks' = acks /\ volTarget' = volTarget
  BY DEF StartScript, Stop, SpotTick, venueVars, scenarioVars, simVars
<1>2. /\ ClockOK /\ now \in Int /\ target \in Int /\ runs \in Int /\ volTarget \in Int
      /\ acks \in Seq(Answers)
  BY DEF SimInv, ClockOK, VenueType
<1>3. ClockOK' /\ runs' \in Int /\ now' \in Int /\ now <= now'
  <2>1. ASSUME NEW name \in Scripts, StartScript(name) PROVE ClockOK' /\ runs' \in Int /\ now' = now
    <3>1. ClockOK' /\ runs' \in Int
      BY <1>2, <2>1, StartClock
    <3>2. now' = now
      BY <2>1 DEF StartScript
    <3> QED BY <3>1, <3>2
  <2>2. CASE Stop
    <3>1. timers' = Cleared /\ now' = now /\ target' = target /\ runs' = runs
      BY <2>2 DEF Stop
    <3> QED BY <1>2, <3>1, ClearedClock DEF ClockOK, Still, Pending
  <2>3. CASE SpotTick \/ UNCHANGED simVars
    <3>1. now' = now /\ target' = target /\ timers' = timers /\ runs' = runs
      BY <2>3 DEF SpotTick, simVars, clockVars, scenarioVars
    <3>2. now <= now
      BY <1>2
    <3> QED BY <1>2, <3>1, <3>2 DEF ClockOK, Still, Pending
  <2>4. ASSUME NEW t \in Stops, AdvanceTo(t), UNCHANGED <<venueVars, scenarioVars>>
        PROVE  ClockOK' /\ runs' \in Int /\ now' = now
    <3>1. now' = now /\ timers' = timers /\ target' = t /\ t \in Int /\ now <= t /\ runs' = runs
      BY <1>2, <2>4, StopsAssumption DEF AdvanceTo, scenarioVars
    <3> QED BY <1>2, <3>1 DEF ClockOK, Pending
  <2>5. CASE AdvanceEnd /\ UNCHANGED <<venueVars, scenarioVars>>
    <3>1. now' = target /\ runs' = runs
      BY <2>5 DEF AdvanceEnd, scenarioVars
    <3> QED BY <1>2, <2>5, <3>1, AdvanceEndClock
  <2> QED BY <1>2, <2>1, <2>2, <2>3, <2>4, <2>5
<1> QED BY <1>1, <1>2, <1>3, RestKeepsSim

LEMMA SimStep == SimInv /\ [SimNext]_simVars => SimInv'
<1> SUFFICES ASSUME SimInv, [SimNext]_simVars PROVE SimInv'
  OBVIOUS
<1>1. CASE VenueCall /\ UNCHANGED scenarioVars
  <2>1. ASSUME NEW q \in Requests, PlaceRejected(q) \/ PlaceQueued(q) \/ PlaceInline(q) PROVE SimInv'
    BY <1>1, <2>1, PlaceKeeps
  <2>2. CASE (\E id \in DOMAIN acks : Cancel(id)) \/ CancelAll
    BY <1>1, <2>2, CancelKeeps
  <2>3. ASSUME NEW n \in Mints, Mint(n) PROVE SimInv'
    BY <1>1, <2>3, MintKeeps
  <2>4. CASE Look
    BY <1>1, <2>4, LookKeeps
  <2>5. CASE Claim
    BY <1>1, <2>5, ClaimKeeps
  <2> QED BY <1>1, <2>1, <2>2, <2>3, <2>4, <2>5 DEF VenueCall
<1>2. ASSUME NEW t \in Stops, AdvanceTo(t) /\ UNCHANGED <<venueVars, scenarioVars>> PROVE SimInv'
  BY <1>2, DriverKeeps
<1>3. CASE AdvanceEnd /\ UNCHANGED <<venueVars, scenarioVars>>
  BY <1>3, DriverKeeps
<1>4. ASSUME NEW i \in DOMAIN timers, FireOrder(i) /\ UNCHANGED scenarioVars PROVE SimInv'
  BY <1>4, FireOrderKeeps
<1>5. ASSUME NEW i \in DOMAIN timers, FireStep(i) PROVE SimInv'
  BY <1>5, FireStepKeeps
<1>6. ASSUME NEW name \in Scripts, StartScript(name) PROVE SimInv'
  BY <1>6, DriverKeeps
<1>7. CASE Stop \/ SpotTick \/ UNCHANGED simVars
  BY <1>7, DriverKeeps
<1> QED BY <1>1, <1>2, <1>3, <1>4, <1>5, <1>6, <1>7 DEF SimNext

(* The sum of BooksBalance reduces to what the agent began with.               *)
LEMMA LedgersBalance ==
  ASSUME NEW h \in Holdings, NEW money \in Int, LedgersOf(h, money)
  PROVE  /\ h.net = h.yes - h.no
         /\ Plus(Plus(Whole(money + h.no * Payout), Times(h.basis, h.net)),
                 Times(h.realized, -1)) = Whole(InitialCash)
<1> DEFINE worth == money + h.no * Payout
<1>1. worth \in Int /\ h.net \in Int /\ InitialCash \in Int /\ -1 \in Int
  BY HoldingType, VenueAssumption DEF Payout
<1>2. h.net = h.yes - h.no /\ Valued(h.basis, h.realized, h.net, worth)
  BY DEF LedgersOf
<1> HIDE DEF worth
<1>3. PICK d \in Nat \ {0}, n \in Int, m \in Int :
        Is(h.basis, n, d) /\ Is(h.realized, m, d) /\ Balance(d, n, m, h.net, worth)
  BY <1>2 DEF Valued
<1>4. Is(Whole(worth), worth * d, d) /\ Is(Times(h.basis, h.net), n * h.net, d)
      /\ Is(Times(h.realized, -1), m * (-1), d)
  BY <1>1, <1>3, WholeIs, TimesIs
<1>5. Is(Plus(Whole(worth), Times(h.basis, h.net)), worth * d + n * h.net, d)
  BY <1>4, PlusIs
<1>6. (worth * d + n * h.net) + m * (-1) = InitialCash * d
  <2>1. worth * d + n * h.net - m = InitialCash * d
    BY <1>3 DEF Balance
  <2>2. worth * d \in Int /\ n * h.net \in Int
    BY <1>1
  <2> DEFINE a == worth * d
             b == n * h.net
  <2> HIDE DEF a, b
  <2>3. a + b + m * (-1) = a + b - m
    BY <2>2 DEF a, b
  <2> QED BY <2>1, <2>3 DEF a, b
<1>7. Plus(Plus(Whole(worth), Times(h.basis, h.net)), Times(h.realized, -1)) = Whole(InitialCash)
  BY <1>1, <1>4, <1>5, <1>6, PlusWhole
<1> QED BY <1>2, <1>7 DEF worth

(* Two live orders of the agent never cross in the book, for any number of     *)
(* orders, at any latency, whatever the scripts do to fair price and depth    *)
(* between an order's acknowledgement and its match (match, consume, cancel). *)
THEOREM BookNeverCrossed == SimSpec => []UncrossedBook
<1>1. SimInv => UncrossedBook
  BY DEF SimInv, UncrossedBook, Uncrossed
<1> QED BY <1>1, SimStart, SimStep, PTL DEF SimSpec

(* Tokens, net position, average with booked profit, and collateral agree      *)
(* after any sequence of trades, mints and netting up to the claim, at any   *)
(* prices and sizes (emitFill, mintPair).                                   *)
THEOREM BooksAlwaysBalance == SimSpec => []BooksBalance
<1>1. SimInv => BooksBalance
  <2> SUFFICES ASSUME SimInv, ~claimed PROVE BooksBalance
    BY DEF BooksBalance
  <2>1. hold \in Holdings /\ cash \in Int /\ LedgersOf(hold, cash)
    BY DEF SimInv, VenueType
  <2> QED BY <2>1, LedgersBalance DEF BooksBalance
<1> QED BY <1>1, SimStart, SimStep, PTL DEF SimSpec

(* The virtual clock passes no timer over: whatever the callbacks arm during an *)
(* advance, what is still armed is due at the present instant or later, and  *)
(* an advance does not pass its end (advanceTo).                            *)
THEOREM NoTimerOverdue == SimSpec => []ClockOK
<1>1. SimInv => ClockOK
  BY DEF SimInv
<1> QED BY <1>1, SimStart, SimStep, PTL DEF SimSpec

LEMMA ClockForward == SimInv /\ [SimNext]_simVars => now <= now'
<1> SUFFICES ASSUME SimInv, [SimNext]_simVars PROVE now <= now'
  OBVIOUS
<1>1. ClockOK /\ now \in Int
  BY DEF SimInv, ClockOK
<1>2. now' = now => now <= now'
  BY <1>1
<1>3. CASE AdvanceEnd
  BY <1>1, <1>3, AdvanceEndClock
<1>4. ASSUME NEW i \in DOMAIN timers, FireOrder(i) \/ FireStep(i) PROVE now <= now'
  <2>1. Due(i) /\ ~Still /\ now' = timers[i].due /\ timers' = Without(i) /\ target' = target
    BY <1>4 DEF FireOrder, FireStep
  <2> QED BY <1>1, <2>1, FiredClock
<1>5. CASE VenueCall
  <2>1. ASSUME NEW q \in Requests, PlaceRejected(q) \/ PlaceQueued(q) \/ PlaceInline(q) PROVE now' = now
    BY <2>1 DEF PlaceRejected, PlaceQueued, PlaceInline, clockVars
  <2>2. ASSUME NEW n \in Mints, Mint(n) PROVE now' = now
    BY <2>2 DEF Mint, clockVars
  <2>3. CASE (\E id \in DOMAIN acks : Cancel(id)) \/ CancelAll \/ Look \/ Claim
    BY <1>2, <2>3 DEF Cancel, CancelAll, Look, Claim, clockVars
  <2> QED BY <1>2, <1>5, <2>1, <2>2, <2>3 DEF VenueCall
<1>6. CASE \/ \E t \in Stops : AdvanceTo(t)
           \/ \E name \in Scripts : StartScript(name)
           \/ Stop \/ SpotTick \/ UNCHANGED simVars
  <2>1. now' = now
    BY <1>6 DEF AdvanceTo, StartScript, Stop, SpotTick, simVars, clockVars
  <2> QED BY <1>2, <2>1
<1> QED BY <1>3, <1>4, <1>5, <1>6 DEF SimNext

(* No step of the simulation takes the clock back (advanceTo).                *)
THEOREM ClockNeverBack == SimSpec => [][now <= now']_simVars
<1> QED BY SimStart, SimStep, ClockForward, PTL DEF SimSpec
=============================================================================
