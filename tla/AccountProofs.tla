---------------------------- MODULE AccountProofs ----------------------------
(***************************************************************************)
(* Proofs about what is done in an account's name: its winnings collected     *)
(* (Claims), for any number of markets and of sweeps under way at a time; and *)
(* sessions opened and forecasts made as its wallet (SignIn), for any tabs,  *)
(* wallets, lifetimes and number of sign-ins, calls and restarts.           *)
(*                                                                          *)
(* Claims.  BookInv says what is booked was paid out by the market's one      *)
(* transaction, TogetherInv which sweeps can work on one market.            *)
(*                                                                          *)
(* SignIn.  NonceInv is the life of a nonce: it has nothing while the         *)
(* challenge is asked for, then a challenge, then one verification under     *)
(* way, then one session; each of the three excludes the others, because     *)
(* verify deletes the challenge before it awaits.  SessionInv ties every     *)
(* session the server knows, and every forecast on record, to a session that *)
(* was opened by the wallet itself in this life of the server.              *)
(***************************************************************************)
EXTENDS Claims, SignIn, FiniteSetTheorems, TLAPS

-----------------------------------------------------------------------------
(* Claims. *)
Working(s) == sweep[s].pc \in {"reading", "waiting"}

(* What is booked was paid out by the market's one transaction, and is done.  *)
BookInv ==
  \A m \in Markets : /\ memo[m] = "ok" => market[m] = "redeemed"
                     /\ booked[m] > 0 => memo[m] = "ok" /\ m \in done
                     /\ booked[m] > 1 => m \in shared

(* Only sweeps that began together work on one market, or on one that is done. *)
TogetherInv ==
  /\ \A s \in Sweeps : Working(s) => sweep[s].on \in Markets
  /\ \A s \in Sweeps : Working(s) /\ sweep[s].on \in done => sweep[s].on \in shared
  /\ \A s, t \in Sweeps :
       s # t /\ Working(s) /\ Working(t) /\ sweep[s].on = sweep[t].on => sweep[s].on \in shared

IInv == TypeOK /\ BookInv /\ TogetherInv

LEMMA InitIInv == Init => IInv
BY ClaimsAssumption DEF Init, IInv, TypeOK, BookInv, TogetherInv, Working, MarketState, Memo, Sweep

-----------------------------------------------------------------------------
(* A sweep that is not working on a market afterwards disturbs nothing, as    *)
(* long as it books nothing.                                                *)
LEMMA RestStep ==
  ASSUME IInv, NEW s \in Sweeps, NEW pc \in {"idle", "listing", "claiming"},
         NEW todo \in SUBSET Markets, Go(s, pc, todo, "none"),
         since' \in 0 .. Interval, unclaimed' \in Nat,
         UNCHANGED <<market, memo, done, booked, shared>>
  PROVE  IInv'
<1>1. /\ sweep' \in [Sweeps -> Sweep]
      /\ sweep'[s].pc = pc
      /\ \A t \in Sweeps \ {s} : sweep'[t] = sweep[t]
  BY DEF IInv, TypeOK, Go, Sweep
<1>2. \A t \in Sweeps : Working(t)' => t # s /\ sweep'[t] = sweep[t] /\ Working(t)
  BY <1>1 DEF Working
<1>3. TogetherInv'
  BY <1>2 DEF IInv, TogetherInv
<1> QED BY <1>1, <1>3 DEF IInv, TypeOK, BookInv

(* The chain and the queue go on: nothing that was redeemed is undone. *)
LEMMA ChainStep ==
  ASSUME IInv, NEW m \in Markets, Resolve(m) \/ LandLate(m) \/ Redeem(m)
  PROVE  IInv'
<1>1. market' \in [Markets -> MarketState] /\ memo' \in [Markets -> Memo]
  BY DEF IInv, TypeOK, Resolve, LandLate, Redeem, MarketState, Memo
<1>2. UNCHANGED <<sweep, since, done, booked, unclaimed, shared>>
  BY DEF Resolve, LandLate, Redeem
<1>3. \A n \in Markets : /\ memo'[n] = "ok" => market'[n] = "redeemed"
                         /\ memo[n] = "ok" => memo'[n] = "ok"
  BY DEF IInv, TypeOK, BookInv, Resolve, LandLate, Redeem
<1>4. BookInv'
  BY <1>2, <1>3 DEF IInv, BookInv
<1> QED BY <1>1, <1>2, <1>4 DEF IInv, TypeOK, TogetherInv, Working

(* A market that is taken up is not done, and is shared when another sweep    *)
(* has it.                                                                  *)
LEMMA TryStep ==
  ASSUME IInv, NEW s \in Sweeps, NEW m \in Markets, Try(s, m)
  PROVE  IInv'
<1>1. /\ sweep' \in [Sweeps -> Sweep]
      /\ sweep'[s].pc = "reading" /\ sweep'[s].on = m
      /\ \A t \in Sweeps \ {s} : sweep'[t] = sweep[t]
  BY DEF IInv, TypeOK, Try, Go, Sweep
<1>2. m \notin done /\ UNCHANGED <<market, memo, since, done, booked, unclaimed>>
  BY DEF Try
<1>3. shared' \in SUBSET Markets /\ shared \subseteq shared'
  BY DEF Try, IInv, TypeOK
<1>4. TypeOK' /\ BookInv'
  BY <1>1, <1>2, <1>3 DEF IInv, TypeOK, BookInv
<1>5. \A t \in Sweeps \ {s} : Working(t) /\ sweep[t].on = m => m \in shared'
  BY DEF Try, Busy
<1>6. \A t \in Sweeps \ {s} : Working(t)' <=> Working(t)
  BY <1>1 DEF Working
<1>7. TogetherInv'
  BY <1>1, <1>2, <1>3, <1>5, <1>6 DEF IInv, TogetherInv
<1> QED BY <1>4, <1>7 DEF IInv

LEMMA SubmitStep ==
  ASSUME IInv, NEW s \in Sweeps, Submit(s)
  PROVE  IInv'
<1> DEFINE m == sweep[s].on
<1>1. Working(s) /\ m \in Markets /\ sweep[s].todo \in SUBSET Markets
  BY DEF Submit, IInv, TogetherInv, Working, TypeOK, Sweep
<1>2. /\ sweep' \in [Sweeps -> Sweep]
      /\ sweep'[s].pc = "waiting" /\ sweep'[s].on = m
      /\ \A t \in Sweeps \ {s} : sweep'[t] = sweep[t]
  BY <1>1 DEF IInv, TypeOK, Submit, Go, Sweep
<1>3. UNCHANGED <<market, since, done, booked, unclaimed, shared>>
  BY DEF Submit
<1>4. /\ memo' \in [Markets -> Memo]
      /\ \A n \in Markets : memo'[n] = "ok" <=> memo[n] = "ok"
  BY <1>1 DEF Submit, IInv, TypeOK, Memo
<1>5. TypeOK' /\ BookInv'
  BY <1>2, <1>3, <1>4 DEF IInv, TypeOK, BookInv
<1>6. \A t \in Sweeps : (Working(t)' <=> Working(t)) /\ sweep'[t].on = sweep[t].on
  BY <1>1, <1>2 DEF Working
<1>7. TogetherInv'
  BY <1>3, <1>6 DEF IInv, TogetherInv
<1> QED BY <1>5, <1>7 DEF IInv

(* A success is booked a second time only for a market that was shared: it    *)
(* was done, and this sweep was still at it.                                *)
LEMMA AnsweredStep ==
  ASSUME IInv, NEW s \in Sweeps, Answered(s)
  PROVE  IInv'
<1> DEFINE m == sweep[s].on
<1>1. Working(s) /\ m \in Markets /\ sweep[s].todo \in SUBSET Markets
  BY DEF Answered, IInv, TogetherInv, Working, TypeOK, Sweep
<1>2. Go(s, "claiming", sweep[s].todo, "none") /\ UNCHANGED <<market, memo, since, shared>>
  BY DEF Answered
<1>3. CASE memo[m] # "ok"
  <2>1. UNCHANGED <<done, booked, unclaimed>>
    BY <1>3 DEF Answered
  <2> QED BY <1>1, <1>2, <2>1, RestStep DEF IInv, TypeOK
<1>4. CASE memo[m] = "ok"
  <2>1. /\ done' = done \cup {m}
        /\ booked' = [booked EXCEPT ![m] = @ + 1]
        /\ unclaimed' \in Nat
    BY <1>4 DEF Answered, IInv, TypeOK
  <2>2. /\ sweep' \in [Sweeps -> Sweep]
        /\ sweep'[s].pc = "claiming"
        /\ \A t \in Sweeps \ {s} : sweep'[t] = sweep[t]
    BY <1>1, <1>2 DEF IInv, TypeOK, Go, Sweep
  <2>3. TypeOK'
    BY <1>1, <1>2, <2>1, <2>2 DEF IInv, TypeOK
  <2>4. booked[m] > 0 => m \in shared
    BY <1>1 DEF IInv, BookInv, TogetherInv
  <2>5. \A n \in Markets : booked'[n] = IF n = m THEN booked[n] + 1 ELSE booked[n]
    BY <2>1 DEF IInv, TypeOK
  <2>6. booked[m] \in Nat /\ booked[m] + 1 > 1 => booked[m] > 0
    BY <1>1 DEF IInv, TypeOK
  <2>7. BookInv'
    BY <1>2, <1>4, <2>1, <2>4, <2>5, <2>6, <1>1 DEF IInv, BookInv, TypeOK
  <2>8. \A t \in Sweeps : Working(t)' => t # s /\ sweep'[t] = sweep[t] /\ Working(t)
    BY <2>2 DEF Working
  <2>9. TogetherInv'
    BY <1>1, <1>2, <2>1, <2>8 DEF IInv, TogetherInv
  <2> QED BY <2>3, <2>7, <2>9 DEF IInv
<1> QED BY <1>3, <1>4

LEMMA StepIInv == IInv /\ [Next]_vars => IInv'
<1> SUFFICES ASSUME IInv, [Next]_vars PROVE IInv'
  OBVIOUS
<1>1. CASE Pass
  BY <1>1, ClaimsAssumption DEF Pass, IInv, TypeOK, BookInv, TogetherInv, Working
<1>2. CASE \E m \in Markets : Resolve(m) \/ LandLate(m) \/ Redeem(m)
  BY <1>2, ChainStep
<1>3. CASE \E s \in Sweeps : Fire(s)
  BY <1>3, ClaimsAssumption, RestStep DEF Fire, IInv, TypeOK
<1>4. ASSUME NEW s \in Sweeps, Step(s) PROVE IInv'
  <2>1. sweep[s].todo \in SUBSET Markets /\ since \in 0 .. Interval /\ unclaimed \in Nat
    BY DEF IInv, TypeOK, Sweep
  <2>2. CASE ListFails(s) \/ ReadFails(s) \/ End(s)
    BY <2>1, <2>2, RestStep DEF ListFails, ReadFails, End
  <2>3. CASE List(s)
    <3>1. PICK found \in SUBSET Markets : /\ Go(s, "claiming", found, "none")
                                          /\ unclaimed' = Cardinality(found \ done)
      BY <2>3 DEF List
    <3>2. Cardinality(found \ done) \in Nat
      BY ClaimsAssumption, FS_Subset, FS_CardinalityType
    <3> QED BY <2>1, <2>3, <3>1, <3>2, RestStep DEF List
  <2>4. ASSUME NEW m \in Markets, Skip(s, m) PROVE IInv'
    <3>1. sweep[s].todo \ {m} \in SUBSET Markets
      BY <2>1
    <3> QED BY <2>1, <2>4, <3>1, RestStep DEF Skip
  <2> QED BY <1>4, <2>2, <2>3, <2>4, TryStep, SubmitStep, AnsweredStep DEF Step
<1>5. CASE UNCHANGED vars
  BY <1>5 DEF vars, IInv, TypeOK, BookInv, TogetherInv, Working
<1> QED BY <1>1, <1>2, <1>3, <1>4, <1>5 DEF Next

-----------------------------------------------------------------------------
(* The type invariant, with what is known of markets two sweeps work on. *)
THEOREM Inductive == Spec => []IInv
BY InitIInv, StepIInv, PTL DEF Spec

(* A market is booked only for winnings that were paid out, and twice only    *)
(* when two sweeps were at it together (claim.ts:117-135).                   *)
THEOREM ClaimsBookedOnce == Spec => []BookedOnce
<1>1. IInv => BookedOnce
  BY DEF IInv, BookInv, BookedOnce
<1> QED BY <1>1, Inductive, PTL

-----------------------------------------------------------------------------
(* SignIn. *)
Phase == {"asking", "wallet", "signed", "checking", "answered", "over"}

(* A sign-in; a reload forgets its tab. *)
Attempt == [tab : Tabs \cup {Nobody}, address : Addresses, phase : Phase,
            by : Addresses \cup {Nobody}]

SignInTypeOK == /\ signIns \in Seq(Attempt)
                /\ \A c \in challenges : c.nonce \in SignIns
                /\ checks \subseteq SignIns \X (1 .. 2)
                /\ \A s \in opened : s.nonce \in SignIns

Unchecked(i) == \A k \in 1 .. 2 : <<i, k>> \notin checks
Unopened(i)  == \A s \in opened : s.nonce # i

NonceInv == \A i \in SignIns :
  /\ signIns[i].phase = "asking" => Issued(i) = {} /\ Unchecked(i) /\ Unopened(i)
  /\ Issued(i) # {} => Unchecked(i) /\ Unopened(i)
  /\ <<i, 1>> \notin checks \/ <<i, 2>> \notin checks
  /\ \A k \in 1 .. 2 : <<i, k>> \in checks => Unopened(i)

SessionInv ==
  /\ \A s \in opened : s.by = s.address
  /\ \A s \in sessions : \E u \in opened : /\ u.token = s.token /\ u.address = s.address
                                           /\ u.expiresAt = s.expiresAt /\ u.life = life

(* The page calls under an address, always. *)
CallersNamed == \A c \in calls : c.wallet # Nobody

SignInInv == SignInTypeOK /\ NonceInv /\ OneSessionPerChallenge /\ SessionInv /\ OwnForecasts

-----------------------------------------------------------------------------
(* What the actions do to the sequence of sign-ins. *)
LEMMA AttemptsType ==
  ASSUME SignInTypeOK
  PROVE  /\ SignIns = 1 .. Len(signIns) /\ Len(signIns) \in Nat
         /\ \A i \in SignIns : signIns[i] \in Attempt
BY DEF SignInTypeOK, SignIns

LEMMA OneAttempt ==
  ASSUME SignInTypeOK, NEW i \in SignIns, NEW new \in Attempt, signIns' = [signIns EXCEPT ![i] = new]
  PROVE  /\ signIns' \in Seq(Attempt) /\ SignIns' = SignIns
         /\ signIns'[i] = new /\ \A j \in SignIns : j # i => signIns'[j] = signIns[j]
<1>1. \A j \in SignIns : signIns[j] \in Attempt
  BY AttemptsType
<1>2. signIns' \in Seq(Attempt)
  BY <1>1 DEF SignInTypeOK, SignIns
<1> QED BY <1>2 DEF SignInTypeOK, SignIns

LEMMA PhaseStep ==
  ASSUME SignInTypeOK, NEW i \in SignIns, NEW phase \in Phase, To(i, phase)
  PROVE  /\ signIns' \in Seq(Attempt) /\ SignIns' = SignIns
         /\ signIns'[i].phase = phase
         /\ \A j \in SignIns : /\ j # i => signIns'[j] = signIns[j]
                               /\ signIns'[j].by = signIns[j].by
                               /\ signIns'[j].address = signIns[j].address
<1> DEFINE new == [signIns[i] EXCEPT !.phase = phase]
<1>1. signIns[i] \in Attempt
  BY AttemptsType
<1>2. /\ new \in Attempt /\ new.phase = phase
      /\ new.by = signIns[i].by /\ new.address = signIns[i].address
  BY <1>1 DEF Attempt
<1>3. signIns' = [signIns EXCEPT ![i] = new]
  BY DEF To
<1> HIDE DEF new
<1> QED BY <1>2, <1>3, OneAttempt

(* A step that lets nobody ask anew and opens, issues and verifies nothing. *)
LEMMA NonceSame ==
  ASSUME SignInTypeOK, NonceInv, OneSessionPerChallenge, signIns' \in Seq(Attempt), SignIns' = SignIns,
         \A i \in SignIns : signIns'[i].phase = "asking" => signIns[i].phase = "asking",
         challenges' \subseteq challenges, checks' \subseteq checks, opened' = opened
  PROVE  SignInTypeOK' /\ NonceInv' /\ OneSessionPerChallenge'
<1>1. SignInTypeOK'
  BY DEF SignInTypeOK
<1>2. \A i \in SignIns : /\ Issued(i)' \subseteq Issued(i)
                         /\ Unchecked(i) => Unchecked(i)'
                         /\ Unopened(i) => Unopened(i)'
  BY DEF Issued, Unchecked, Unopened
<1>3. NonceInv'
  BY <1>2 DEF NonceInv
<1> QED BY <1>1, <1>3 DEF OneSessionPerChallenge

(* A step that opens no session and records no forecast. *)
LEMMA SessionSame ==
  ASSUME SessionInv, OwnForecasts, opened' = opened, sessions' \subseteq sessions,
         forecasts' \subseteq forecasts, life' = life
  PROVE  SessionInv' /\ OwnForecasts'
BY DEF SessionInv, OwnForecasts

-----------------------------------------------------------------------------
(* The steps of a sign-in. *)
LEMMA ConnectStep ==
  ASSUME SignInInv, NEW t \in Tabs, NEW a \in Addresses, Connect(t, a)
  PROVE  SignInInv'
<1> DEFINE new == [tab |-> t, address |-> a, phase |-> "asking", by |-> Nobody]
<1>0. PICK n : n = Len(signIns) + 1
  OBVIOUS
<1>1. new \in Attempt
  BY DEF Attempt, Phase
<1>2. /\ SignIns = 1 .. Len(signIns) /\ Len(signIns) \in Nat
      /\ signIns \in Seq(Attempt)
  BY AttemptsType DEF SignInInv, SignInTypeOK
<1>3. /\ signIns' \in Seq(Attempt) /\ SignIns' = SignIns \cup {n} /\ n \notin SignIns
      /\ \A i \in SignIns : signIns'[i] = signIns[i]
  <2> HIDE DEF new
  <2>1. signIns' = Append(signIns, new)
    BY DEF Connect, new
  <2> QED BY <1>0, <1>1, <1>2, <2>1 DEF SignIns
<1>4. UNCHANGED <<challenges, checks, opened, sessions, forecasts, life>>
  BY DEF Connect, desk
<1>5. SignInTypeOK'
  BY <1>3, <1>4 DEF SignInInv, SignInTypeOK
<1>6. Issued(n)' = {} /\ Unchecked(n)' /\ Unopened(n)'
  BY <1>3, <1>4 DEF SignInInv, SignInTypeOK, Issued, Unchecked, Unopened
<1>7. \A i : Issued(i)' = Issued(i) /\ Unchecked(i)' = Unchecked(i) /\ Unopened(i)' = Unopened(i)
  BY <1>4 DEF Issued, Unchecked, Unopened
<1>8. NonceInv'
  <2> SUFFICES ASSUME NEW i \in SignIns'
               PROVE  /\ signIns'[i].phase = "asking" => Issued(i)' = {} /\ Unchecked(i)' /\ Unopened(i)'
                      /\ Issued(i)' # {} => Unchecked(i)' /\ Unopened(i)'
                      /\ <<i, 1>> \notin checks' \/ <<i, 2>> \notin checks'
                      /\ \A k \in 1 .. 2 : <<i, k>> \in checks' => Unopened(i)'
    BY DEF NonceInv
  <2>1. CASE i = n
    BY <1>6, <2>1 DEF Unchecked
  <2>2. CASE i \in SignIns
    BY <1>3, <1>4, <1>7, <2>2 DEF SignInInv, NonceInv
  <2> QED BY <1>3, <2>1, <2>2
<1>9. SessionInv' /\ OwnForecasts'
  BY <1>4, SessionSame DEF SignInInv
<1> QED BY <1>4, <1>5, <1>8, <1>9 DEF SignInInv, OneSessionPerChallenge

LEMMA ChallengeStep ==
  ASSUME SignInInv, NEW i \in SignIns, Challenge(i)
  PROVE  SignInInv'
<1>1. /\ signIns' \in Seq(Attempt) /\ SignIns' = SignIns
      /\ signIns'[i].phase = "wallet"
      /\ \A j \in SignIns : j # i => signIns'[j] = signIns[j]
  BY PhaseStep DEF Challenge, SignInInv, Phase
<1>2. UNCHANGED <<checks, opened, sessions, forecasts, life>>
  BY DEF Challenge
<1>3. /\ \A j \in SignIns : j # i => Issued(j)' = Issued(j)
      /\ \A j \in SignIns : Unchecked(j)' = Unchecked(j) /\ Unopened(j)' = Unopened(j)
  BY <1>2 DEF Challenge, Issued, Unchecked, Unopened
<1>4. Unchecked(i) /\ Unopened(i)
  BY DEF Challenge, SignInInv, NonceInv
<1>5. SignInTypeOK'
  BY <1>1, <1>2 DEF SignInInv, SignInTypeOK, Challenge
<1>6. NonceInv'
  BY <1>1, <1>2, <1>3, <1>4 DEF SignInInv, NonceInv
<1>7. SessionInv' /\ OwnForecasts'
  BY <1>2, SessionSame DEF SignInInv
<1> QED BY <1>2, <1>5, <1>6, <1>7 DEF SignInInv, OneSessionPerChallenge

(* verify deletes the challenge in the step that looks it up. *)
LEMMA VerifyStep ==
  ASSUME SignInInv, NEW i \in SignIns, NEW k \in 1 .. 2, Verify(i, k)
  PROVE  SignInInv'
<1> DEFINE found == \E c \in Issued(i) : InTime(c)
<1>1. /\ signIns' \in Seq(Attempt) /\ SignIns' = SignIns
      /\ \A j \in SignIns : signIns'[j].phase = "asking" => signIns[j].phase = "asking"
  <2>1. CASE k = 1
    <3>1. PICK phase \in {"checking", "over"} : To(i, phase)
      BY <2>1 DEF Verify
    <3>2. phase \in Phase
      BY DEF Phase
    <3> QED BY <3>1, <3>2, PhaseStep DEF SignInInv
  <2>2. CASE k # 1
    BY <2>2 DEF Verify, SignInInv, SignInTypeOK, SignIns
  <2> QED BY <2>1, <2>2
<1>2. UNCHANGED <<opened, sessions, forecasts, life>>
  BY DEF Verify
<1>3. challenges' = challenges \ Issued(i)
  BY DEF Verify, Spent
<1>4. CASE ~found
  <2>1. checks' = checks /\ challenges' \subseteq challenges
    BY <1>3, <1>4 DEF Verify
  <2>2. SignInTypeOK' /\ NonceInv' /\ OneSessionPerChallenge'
    BY <1>1, <1>2, <2>1, NonceSame DEF SignInInv
  <2> QED BY <1>2, <2>2, SessionSame DEF SignInInv
<1>5. CASE found
  <2>1. Unchecked(i) /\ Unopened(i) /\ signIns[i].phase # "asking"
    BY <1>5 DEF SignInInv, NonceInv
  <2>2. checks' = checks \cup {<<i, k>>}
    BY <1>5 DEF Verify
  <2>3. /\ Issued(i)' = {}
        /\ \A j \in SignIns : j # i => Issued(j)' = Issued(j) /\ Unchecked(j)' = Unchecked(j)
        /\ \A j \in SignIns : Unopened(j)' = Unopened(j)
    BY <1>2, <1>3, <2>2 DEF Issued, Unchecked, Unopened
  <2>4. SignInTypeOK'
    BY <1>1, <1>2, <1>3, <2>2 DEF SignInInv, SignInTypeOK
  <2>5. NonceInv'
    <3> SUFFICES ASSUME NEW j \in SignIns
                 PROVE  /\ signIns'[j].phase = "asking" => Issued(j)' = {} /\ Unchecked(j)' /\ Unopened(j)'
                        /\ Issued(j)' # {} => Unchecked(j)' /\ Unopened(j)'
                        /\ <<j, 1>> \notin checks' \/ <<j, 2>> \notin checks'
                        /\ \A l \in 1 .. 2 : <<j, l>> \in checks' => Unopened(j)'
      BY <1>1 DEF NonceInv
    <3>1. CASE j = i
      BY <1>1, <2>1, <2>2, <2>3, <3>1 DEF Unchecked
    <3>2. CASE j # i
      BY <1>1, <2>2, <2>3, <3>2 DEF SignInInv, NonceInv
    <3> QED BY <3>1, <3>2
  <2>6. SessionInv' /\ OwnForecasts'
    BY <1>2, SessionSame DEF SignInInv
  <2> QED BY <1>2, <2>4, <2>5, <2>6 DEF SignInInv, OneSessionPerChallenge
<1> QED BY <1>4, <1>5

(* The verification is over, and was the only one of its nonce. *)
LEMMA CheckedStep ==
  ASSUME SignInInv, NEW i \in SignIns, NEW k \in 1 .. 2, Checked(i, k)
  PROVE  SignInInv'
<1>1. /\ signIns' \in Seq(Attempt) /\ SignIns' = SignIns
      /\ \A j \in SignIns : signIns'[j].phase = "asking" => signIns[j].phase = "asking"
  <2>1. CASE k = 1
    <3>1. PICK phase \in {"answered", "over"} : To(i, phase)
      BY <2>1 DEF Checked
    <3>2. phase \in Phase
      BY DEF Phase
    <3> QED BY <3>1, <3>2, PhaseStep DEF SignInInv
  <2>2. CASE k # 1
    BY <2>2 DEF Checked, SignInInv, SignInTypeOK, SignIns
  <2> QED BY <2>1, <2>2
<1>2. /\ UNCHANGED <<challenges, forecasts, life>>
      /\ <<i, k>> \in checks /\ checks' = checks \ {<<i, k>>}
  BY DEF Checked, Spent
<1>3. CASE ~Genuine(i)
  <2>1. UNCHANGED <<opened, sessions>>
    BY <1>3 DEF Checked
  <2>2. SignInTypeOK' /\ NonceInv' /\ OneSessionPerChallenge'
    BY <1>1, <1>2, <2>1, NonceSame DEF SignInInv
  <2> QED BY <1>2, <2>1, <2>2, SessionSame DEF SignInInv
<1>4. CASE Genuine(i)
  <2> DEFINE s == [token |-> <<i, k>>, address |-> signIns[i].address, expiresAt |-> now + SessionTtl]
             u == [token |-> <<i, k>>, address |-> signIns[i].address, expiresAt |-> now + SessionTtl,
                   nonce |-> i, by |-> signIns[i].by, life |-> life]
  <2>1. sessions' = sessions \cup {s} /\ opened' = opened \cup {u}
    BY <1>4 DEF Checked
  <2>2. /\ u.nonce = i /\ u.by = u.address /\ u.token = s.token /\ u.address = s.address
        /\ u.expiresAt = s.expiresAt /\ u.life = life
    BY <1>4 DEF Genuine
  <2> HIDE DEF s, u
  <2>3. Unopened(i) /\ Issued(i) = {} /\ \A l \in 1 .. 2 : l # k => <<i, l>> \notin checks
    BY <1>2 DEF SignInInv, NonceInv, Unchecked
  <2>4. signIns[i].phase # "asking"
    BY <1>2 DEF SignInInv, NonceInv, Unchecked
  <2>5. SignInTypeOK'
    BY <1>1, <1>2, <2>1, <2>2 DEF SignInInv, SignInTypeOK
  <2>6. /\ \A j \in SignIns : Issued(j)' = Issued(j)
        /\ \A j \in SignIns : j # i => Unchecked(j)' = Unchecked(j) /\ Unopened(j)' = Unopened(j)
        /\ Unchecked(i)'
    BY <1>2, <2>1, <2>2, <2>3 DEF Issued, Unchecked, Unopened
  <2>7. NonceInv'
    <3> SUFFICES ASSUME NEW j \in SignIns
                 PROVE  /\ signIns'[j].phase = "asking" => Issued(j)' = {} /\ Unchecked(j)' /\ Unopened(j)'
                        /\ Issued(j)' # {} => Unchecked(j)' /\ Unopened(j)'
                        /\ <<j, 1>> \notin checks' \/ <<j, 2>> \notin checks'
                        /\ \A l \in 1 .. 2 : <<j, l>> \in checks' => Unopened(j)'
      BY <1>1 DEF NonceInv
    <3>1. CASE j = i
      BY <1>1, <2>3, <2>4, <2>6, <3>1 DEF Unchecked
    <3>2. CASE j # i
      BY <1>1, <1>2, <2>6, <3>2 DEF SignInInv, NonceInv
    <3> QED BY <3>1, <3>2
  <2>8. OneSessionPerChallenge'
    BY <2>1, <2>2, <2>3 DEF SignInInv, OneSessionPerChallenge, Unopened
  <2>9. SessionInv'
    BY <1>2, <2>1, <2>2 DEF SignInInv, SessionInv
  <2>10. OwnForecasts'
    BY <1>2, <2>1 DEF SignInInv, OwnForecasts
  <2> QED BY <2>5, <2>7, <2>8, <2>9, <2>10 DEF SignInInv
<1> QED BY <1>3, <1>4

(* A forecast is recorded under the address of a session the server knows,   *)
(* if it is the caller's own.                                               *)
LEMMA ForecastStep ==
  ASSUME SignInInv, CallersNamed, NEW c \in calls, Forecast(c)
  PROVE  SignInInv'
<1>1. UNCHANGED <<signIns, challenges, checks, opened, life>> /\ sessions' \subseteq sessions
  BY DEF Forecast
<1>2. SignInTypeOK' /\ NonceInv' /\ OneSessionPerChallenge'
  BY <1>1 DEF SignInInv, SignInTypeOK, NonceInv, OneSessionPerChallenge, Issued, Unchecked, Unopened, SignIns
<1>3. SessionInv'
  BY <1>1 DEF SignInInv, SessionInv
<1>4. CASE UNCHANGED forecasts
  BY <1>1, <1>4, SessionSame, <1>2 DEF SignInInv
<1>5. ASSUME ~Refused(c.wallet, pendingAuthAddr'),
             forecasts' = forecasts \cup {[user |-> pendingAuthAddr', call |-> c, at |-> now]}
      PROVE  OwnForecasts'
  <2>1. pendingAuthAddr' = AddressFor(c.token) /\ pendingAuthAddr' = c.wallet /\ c.wallet # Nobody
    BY <1>5 DEF Forecast, Refused, CallersNamed
  <2>2. Known(c.token) # {}
    BY <2>1 DEF AddressFor
  <2>3. PICK s \in Known(c.token) : s.address = c.wallet
    BY <2>1, <2>2 DEF AddressFor
  <2>4. s \in sessions /\ s.token = c.token /\ now <= s.expiresAt
    BY DEF Known
  <2>5. PICK u \in opened : /\ u.token = s.token /\ u.address = s.address
                            /\ u.expiresAt = s.expiresAt /\ u.life = life
    BY <2>4 DEF SignInInv, SessionInv
  <2>6. u.by = u.address
    BY DEF SignInInv, SessionInv
  <2> DEFINE f == [user |-> pendingAuthAddr', call |-> c, at |-> now]
  <2>7. f.user = c.wallet /\ f.call = c /\ f.at = now
    BY <2>1
  <2>8. forecasts' = forecasts \cup {f}
    BY <1>5
  <2> HIDE DEF f
  <2>9. /\ u.token = f.call.token /\ f.user = f.call.wallet /\ f.user = u.address
        /\ f.user = u.by /\ u.life = life /\ f.at <= u.expiresAt
    BY <2>3, <2>4, <2>5, <2>6, <2>7
  <2> QED BY <1>1, <2>8, <2>9 DEF SignInInv, OwnForecasts
<1> QED BY <1>2, <1>3, <1>4, <1>5 DEF SignInInv, Forecast

-----------------------------------------------------------------------------
LEMMA CallersStep == CallersNamed /\ [SignInNext]_signInVars => CallersNamed'
<1> SUFFICES ASSUME CallersNamed, [SignInNext]_signInVars PROVE CallersNamed'
  OBVIOUS
<1>1. ASSUME NEW t \in Tabs, Call(t) PROVE CallersNamed'
  BY <1>1 DEF Call, CallersNamed
<1>2. ASSUME calls' \subseteq calls PROVE CallersNamed'
  BY <1>2 DEF CallersNamed
<1>3. ASSUME NEW t \in Tabs, Disconnect(t) \/ Reload(t) PROVE calls' \subseteq calls
  BY <1>3 DEF Disconnect, Reload
<1>4. ASSUME NEW t \in Tabs, NEW a \in Addresses, Connect(t, a) PROVE calls' \subseteq calls
  BY <1>4 DEF Connect
<1>5. ASSUME NEW i \in SignIns, Challenge(i) \/ GivenUp(i) \/ SignedIn(i) PROVE calls' \subseteq calls
  BY <1>5 DEF Challenge, GivenUp, SignedIn
<1>6. ASSUME NEW i \in SignIns, NEW a \in Addresses, Sign(i, a) PROVE calls' \subseteq calls
  BY <1>6 DEF Sign
<1>7. ASSUME NEW i \in SignIns, NEW k \in 1 .. 2, Verify(i, k) \/ Checked(i, k) PROVE calls' \subseteq calls
  BY <1>7 DEF Verify, Checked
<1>8. ASSUME NEW c \in calls, Forecast(c) PROVE calls' \subseteq calls
  BY <1>8 DEF Forecast
<1>9. ASSUME Poll \/ Restart \/ Elapse \/ UNCHANGED signInVars PROVE calls' \subseteq calls
  BY <1>9 DEF Poll, Restart, Elapse, signInVars
<1> QED BY <1>1, <1>2, <1>3, <1>4, <1>5, <1>6, <1>7, <1>8, <1>9 DEF SignInNext

LEMMA SignInStep == SignInInv /\ CallersNamed /\ [SignInNext]_signInVars => SignInInv'
<1> SUFFICES ASSUME SignInInv, CallersNamed, [SignInNext]_signInVars PROVE SignInInv'
  OBVIOUS
<1> DEFINE Asks == /\ signIns' \in Seq(Attempt) /\ SignIns' = SignIns
                   /\ \A i \in SignIns : signIns'[i].phase = "asking" => signIns[i].phase = "asking"
<1>0. ASSUME Asks, UNCHANGED <<challenges, checks, opened, sessions, forecasts, life>>
      PROVE  SignInInv'
  <2>1. SignInTypeOK' /\ NonceInv' /\ OneSessionPerChallenge'
    BY <1>0, NonceSame DEF SignInInv
  <2> QED BY <1>0, <2>1, SessionSame DEF SignInInv
<1>1. ASSUME NEW t \in Tabs, Disconnect(t) PROVE SignInInv'
  BY <1>0, <1>1 DEF Disconnect, desk, SignInInv, SignInTypeOK, SignIns
<1>2. ASSUME NEW t \in Tabs, Reload(t) PROVE SignInInv'
  <2>1. \A i \in SignIns : signIns[i] \in Attempt
    BY AttemptsType DEF SignInInv
  <2> DEFINE Left(i) == IF signIns[i].tab # t THEN signIns[i]
                        ELSE [signIns[i] EXCEPT !.tab = Nobody,
                                !.phase = IF @ = "checking" THEN @ ELSE "over"]
  <2>2. \A i \in SignIns : Left(i) \in Attempt /\ (Left(i).phase = "asking" => signIns[i].phase = "asking")
    BY <2>1 DEF Attempt, Phase
  <2>3. signIns' = [i \in SignIns |-> Left(i)]
    BY <1>2 DEF Reload
  <2> HIDE DEF Left
  <2>4. SignIns = 1 .. Len(signIns) /\ Len(signIns) \in Nat
    BY AttemptsType DEF SignInInv
  <2>5. signIns' \in Seq(Attempt) /\ SignIns' = SignIns /\ \A i \in SignIns : signIns'[i] = Left(i)
    BY <2>2, <2>3, <2>4 DEF SignIns
  <2>6. Asks
    BY <2>2, <2>5
  <2> QED BY <1>0, <1>2, <2>6 DEF Reload, desk
<1>3. ASSUME NEW t \in Tabs, Call(t) PROVE SignInInv'
  BY <1>0, <1>3 DEF Call, desk, SignInInv, SignInTypeOK, SignIns
<1>4. ASSUME NEW i \in SignIns, GivenUp(i) \/ SignedIn(i) PROVE SignInInv'
  <2>1. To(i, "over")
    BY <1>4 DEF GivenUp, SignedIn, Over, To
  <2>2. Asks
    BY <2>1, PhaseStep DEF SignInInv, Phase
  <2> QED BY <1>0, <1>4, <2>2 DEF GivenUp, SignedIn, desk
<1>5. ASSUME NEW i \in SignIns, NEW a \in Addresses, Sign(i, a) PROVE SignInInv'
  <2> DEFINE new == [signIns[i] EXCEPT !.phase = "signed", !.by = a]
  <2>1. signIns[i] \in Attempt
    BY AttemptsType DEF SignInInv
  <2>2. new \in Attempt /\ new.phase = "signed"
    BY <2>1 DEF Attempt, Phase
  <2>3. signIns' = [signIns EXCEPT ![i] = new]
    BY <1>5 DEF Sign, SignInInv, SignInTypeOK, SignIns
  <2> HIDE DEF new
  <2>4. Asks
    BY <2>2, <2>3, OneAttempt DEF SignInInv
  <2> QED BY <1>0, <1>5, <2>4 DEF Sign, desk
<1>6. CASE Poll \/ Elapse \/ UNCHANGED signInVars
  BY <1>0, <1>6 DEF Poll, Elapse, signInVars, desk, SignInInv, SignInTypeOK, SignIns
<1>7. CASE Restart
  <2>1. \A i \in SignIns : signIns[i] \in Attempt
    BY AttemptsType DEF SignInInv
  <2> DEFINE Left(i) == IF signIns[i].phase = "checking"
                        THEN [signIns[i] EXCEPT !.phase = "over"] ELSE signIns[i]
  <2>2. \A i \in SignIns : Left(i) \in Attempt /\ (Left(i).phase = "asking" => signIns[i].phase = "asking")
    BY <2>1 DEF Attempt, Phase
  <2>3. signIns' = [i \in SignIns |-> Left(i)]
    BY <1>7 DEF Restart
  <2> HIDE DEF Left
  <2>4. SignIns = 1 .. Len(signIns) /\ Len(signIns) \in Nat
    BY AttemptsType DEF SignInInv
  <2>5. signIns' \in Seq(Attempt) /\ SignIns' = SignIns /\ \A i \in SignIns : signIns'[i] = Left(i)
    BY <2>2, <2>3, <2>4 DEF SignIns
  <2>6. Asks
    BY <2>2, <2>5
  <2>7. challenges' = {} /\ checks' = {} /\ sessions' = {} /\ forecasts' = {} /\ opened' = opened
    BY <1>7 DEF Restart
  <2>8. SignInTypeOK' /\ NonceInv' /\ OneSessionPerChallenge'
    BY <2>6, <2>7, NonceSame DEF SignInInv
  <2>9. SessionInv' /\ OwnForecasts'
    BY <2>7 DEF SignInInv, SessionInv, OwnForecasts
  <2> QED BY <2>8, <2>9 DEF SignInInv
<1> QED
  BY <1>1, <1>2, <1>3, <1>4, <1>5, <1>6, <1>7,
     ConnectStep, ChallengeStep, VerifyStep, CheckedStep, ForecastStep DEF SignInNext

LEMMA SignInStart == SignInInit => SignInInv
<1> SUFFICES ASSUME SignInInit PROVE SignInInv
  OBVIOUS
<1>1. signIns \in Seq(Attempt) /\ SignIns = {}
  BY DEF SignInInit, SignIns
<1> QED BY <1>1 DEF SignInInit, SignInInv, SignInTypeOK, NonceInv, OneSessionPerChallenge, SessionInv, OwnForecasts

(* The invariant the two others follow from. *)
THEOREM SignInInductive == SignInSpec => []SignInInv
<1>1. SignInInit => CallersNamed
  BY DEF SignInInit, CallersNamed
<1> QED BY <1>1, SignInStart, SignInStep, CallersStep, PTL DEF SignInSpec

(* A challenge opens one session at the most, however often its message is   *)
(* delivered and whatever happens while it is verified (auth.ts:80).        *)
THEOREM SingleUse == SignInSpec => []OneSessionPerChallenge
<1>1. SignInInv => OneSessionPerChallenge
  BY DEF SignInInv
<1> QED BY <1>1, SignInInductive, PTL

(* A forecast belongs to the wallet that made the call and signed in for it, *)
(* in this life of the server (auth.ts, server.ts:78-108, 271).             *)
THEOREM ForecastsOwned == SignInSpec => []OwnForecasts
<1>1. SignInInv => OwnForecasts
  BY DEF SignInInv
<1> QED BY <1>1, SignInInductive, PTL
=============================================================================
