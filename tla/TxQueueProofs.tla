--------------------------- MODULE TxQueueProofs ---------------------------
(***************************************************************************)
(* Proofs about TxQueue for any set of ids, with or without timeouts.       *)
(*                                                                          *)
(* The argument: the promise chain makes at most one id execute (ChainInv), *)
(* so the nonce counter has one user at a time, and RunInv and NonceInv can *)
(* say exactly where it stands between the steps of that one attempt.       *)
(***************************************************************************)
EXTENDS TxQueue, Ops, FoldTheorems, TLAPS

(* The chain: an id is past "queued" only when everything before it in the   *)
(* line is settled.                                                         *)
ChainInv ==
  /\ \A i \in 1 .. Len(line) : phase[line[i]] # "new"
  /\ \A id \in Ids : phase[id] # "new" => \E i \in 1 .. Len(line) : line[i] = id
  /\ \A i, j \in 1 .. Len(line) : i # j => line[i] # line[j]
  /\ \A i, j \in 1 .. Len(line) :
       i < j /\ phase[line[j]] # "queued" => phase[line[i]] \in Settled

(* A task is outstanding while it is awaited or after it was given up on. *)
RunInv ==
  \A id \in Ids : /\ phase[id] = "run" => run[id] # "none"
                  /\ run[id] # "none" => phase[id] \in {"run", "failed"}
                  /\ ~TimeoutOn /\ phase[id] = "failed" => run[id] = "none"

(* The counter stands one above the awaited attempt, and above every nonce   *)
(* that succeeded; the chain has caught up with all of them.                *)
NonceInv ==
  /\ \A id \in Ids : phase[id] = "run" =>
       /\ nonce[id] \in Nat
       /\ next = nonce[id] + 1
       /\ nonce[id] <= count
       /\ run[id] = "landed" => next <= count
       /\ \A b \in Ids : phase[b] = "ok" => nonce[b] < nonce[id]
  /\ \A b \in Ids : phase[b] = "ok" => next \in Nat /\ nonce[b] \in Nat /\ nonce[b] < next

IInv == TypeOK /\ ChainInv /\ RunInv /\ NonceInv /\ NoNonceGap /\ SucceededNoncesDistinct

-----------------------------------------------------------------------------
(* At most one id is between execute() and its answer. *)
LEMMA OneExecuting ==
  ASSUME TypeOK, ChainInv,
         NEW a \in Ids, phase[a] \in Executing,
         NEW b \in Ids, phase[b] \in Executing
  PROVE  a = b
<1>1. PICK i \in 1 .. Len(line) : line[i] = a
  BY DEF ChainInv, Executing
<1>2. PICK j \in 1 .. Len(line) : line[j] = b
  BY DEF ChainInv, Executing
<1>3. i \in Nat /\ j \in Nat
  BY DEF TypeOK
<1>4. ~ i < j
  BY <1>1, <1>2 DEF ChainInv, Executing, Settled
<1>5. ~ j < i
  BY <1>1, <1>2 DEF ChainInv, Executing, Settled
<1> QED
  BY <1>1, <1>2, <1>3, <1>4, <1>5

(* Every action keeps the types. *)
LEMMA TypeStep == TypeOK /\ [Next]_vars => TypeOK'
<1> SUFFICES ASSUME TypeOK, [Next]_vars PROVE TypeOK'
  OBVIOUS
<1> USE DEF TypeOK, Phase, Executing, Settled, RunState
<1>1. ASSUME NEW id \in Ids, Submit(id) PROVE TypeOK'
  BY <1>1 DEF Submit
<1>2. ASSUME NEW i \in DOMAIN line, Execute(i) PROVE TypeOK'
  BY <1>2 DEF Execute
<1>3. ASSUME NEW id \in Ids, Reserve(id) PROVE TypeOK'
  <2>1. (IF next = None THEN count ELSE next) \in Nat
    OBVIOUS
  <2> QED BY <1>3, <2>1 DEF Reserve, Hand
<1>4. ASSUME NEW id \in Ids, ReserveFails(id) PROVE TypeOK'
  BY <1>4 DEF ReserveFails
<1>5. ASSUME NEW id \in Ids, Complete(id) PROVE TypeOK'
  BY <1>5 DEF Complete, Confirm
<1>6. ASSUME NEW id \in Ids, FailTerminally(id), run' \in [Ids -> RunState] PROVE TypeOK'
  BY <1>6 DEF FailTerminally, Release
<1>7. ASSUME NEW id \in Ids, RunRejects(id) PROVE TypeOK'
  BY <1>6, <1>7 DEF RunRejects
<1>8. ASSUME NEW id \in Ids, RunClashes(id) PROVE TypeOK'
  BY <1>8 DEF RunClashes, Release
<1>9. ASSUME NEW id \in Ids, Timeout(id) PROVE TypeOK'
  BY <1>6, <1>9 DEF Timeout
<1>10. ASSUME NEW id \in Ids, Resync(id) PROVE TypeOK'
  BY <1>10 DEF Resync
<1>11. ASSUME NEW id \in Ids, ResyncFails(id) PROVE TypeOK'
  BY <1>11 DEF ResyncFails
<1>12. ASSUME NEW id \in Ids, Land(id) PROVE TypeOK'
  BY <1>12 DEF Land
<1>13. ASSUME NEW id \in Ids, LateAnswer(id) PROVE TypeOK'
  BY <1>13 DEF LateAnswer
<1>14. CASE ForeignWrite
  BY <1>14 DEF ForeignWrite
<1>15. CASE UNCHANGED vars
  BY <1>15 DEF vars
<1> QED
  BY <1>1, <1>2, <1>3, <1>4, <1>5, <1>7, <1>8, <1>9, <1>10, <1>11, <1>12, <1>13,
     <1>14, <1>15 DEF Next, QueueStep

-----------------------------------------------------------------------------
(* An executing id that moves on, settled or not, leaves the chain in order. *)
LEMMA ChainMove ==
  ASSUME TypeOK, ChainInv,
         NEW id \in Ids, phase[id] \in Executing,
         NEW p \in Executing \cup Settled,
         phase' = [phase EXCEPT ![id] = p],
         line' = line
  PROVE  ChainInv'
  BY DEF TypeOK, ChainInv, Executing, Settled

(* The two actions that are not moves of an executing id. *)
LEMMA ChainSubmit ==
  ASSUME TypeOK, ChainInv, NEW id \in Ids, Submit(id)
  PROVE  ChainInv'
<1>1. Len(line') = Len(line) + 1 /\ Len(line) \in Nat
  BY DEF TypeOK, Submit
<1>2. \A i \in 1 .. Len(line) : line'[i] = line[i] /\ line[i] \in Ids
  BY DEF TypeOK, Submit
<1>3. line'[Len(line')] = id
  BY DEF TypeOK, Submit
<1>4. \A i \in 1 .. Len(line) : line[i] # id
  BY DEF ChainInv, Submit
<1>5. \A i \in 1 .. Len(line') : i \in 1 .. Len(line) \/ i = Len(line')
  BY <1>1
<1>6. phase' = [phase EXCEPT ![id] = "queued"] /\ phase \in [Ids -> Phase]
  BY DEF TypeOK, Submit
<1>7. \A i \in 1 .. Len(line') : phase'[line'[i]] # "new"
  BY <1>2, <1>3, <1>4, <1>5, <1>6 DEF ChainInv
<1>8. \A x \in Ids : phase'[x] # "new" => \E i \in 1 .. Len(line') : line'[i] = x
  <2>1. ASSUME NEW x \in Ids, phase'[x] # "new", x # id
        PROVE  \E i \in 1 .. Len(line') : line'[i] = x
    <3>1. PICK i \in 1 .. Len(line) : line[i] = x
      BY <1>6, <2>1 DEF ChainInv
    <3> QED BY <1>1, <1>2, <3>1
  <2> QED BY <1>1, <1>3, <2>1
<1>9. \A i, j \in 1 .. Len(line') : i # j => line'[i] # line'[j]
  BY <1>2, <1>3, <1>4, <1>5 DEF ChainInv
<1>10. \A i, j \in 1 .. Len(line') :
         i < j /\ phase'[line'[j]] # "queued" => phase'[line'[i]] \in Settled
  BY <1>1, <1>2, <1>3, <1>4, <1>5, <1>6 DEF ChainInv
<1> QED
  BY <1>7, <1>8, <1>9, <1>10 DEF ChainInv

LEMMA ChainExecute ==
  ASSUME TypeOK, ChainInv, NEW k \in 1 .. Len(line), Execute(k)
  PROVE  ChainInv'
<1>1. /\ line' = line /\ Len(line) \in Nat
      /\ phase' = [phase EXCEPT ![line[k]] = "reserve"]
      /\ \A i \in 1 .. Len(line) : line[i] \in Ids
  BY DEF TypeOK, Execute
<1>2. \A i \in 1 .. Len(line) : i < k => phase[line[i]] \in Settled
  <2> SUFFICES ASSUME NEW i \in 1 .. Len(line), i < k
               PROVE  phase[line[i]] \in Settled
    OBVIOUS
  <2>1. k - 1 \in 1 .. Len(line) /\ phase[line[k - 1]] \in Settled
    BY DEF Execute
  <2>2. CASE i = k - 1
    BY <2>1, <2>2
  <2>3. CASE i < k - 1
    BY <2>1, <2>3 DEF ChainInv, Settled
  <2> QED BY <2>2, <2>3
<1>3. \A j \in 1 .. Len(line) : k < j => phase[line[j]] = "queued"
  BY DEF ChainInv, Execute, Settled
<1> QED
  BY <1>1, <1>2, <1>3 DEF ChainInv, TypeOK, Settled, Execute

LEMMA ChainStep == TypeOK /\ ChainInv /\ [Next]_vars => ChainInv'
<1> SUFFICES ASSUME TypeOK, ChainInv, [Next]_vars PROVE ChainInv'
  OBVIOUS
<1>1. ASSUME NEW id \in Ids,
             \/ Reserve(id) \/ ReserveFails(id) \/ Complete(id) \/ RunRejects(id)
             \/ RunClashes(id) \/ Timeout(id) \/ Resync(id) \/ ResyncFails(id)
      PROVE  ChainInv'
  <2>1. phase[id] \in Executing /\ line' = line
    BY <1>1 DEF Reserve, ReserveFails, Complete, RunRejects, RunClashes, Timeout, Resync,
                ResyncFails, FailTerminally, Executing
  <2>2. PICK p \in Executing \cup Settled : phase' = [phase EXCEPT ![id] = p]
    BY <1>1 DEF Reserve, ReserveFails, Complete, RunRejects, RunClashes, Timeout, Resync,
                ResyncFails, FailTerminally, Executing, Settled
  <2> QED BY <2>1, <2>2, ChainMove
<1>2. CASE UNCHANGED <<line, phase>>
  BY <1>2 DEF ChainInv
<1>3. DOMAIN line = 1 .. Len(line)
  BY DEF TypeOK
<1> QED
  BY <1>1, <1>2, <1>3, ChainSubmit, ChainExecute
  DEF Next, QueueStep, ForeignWrite, Land, LateAnswer, vars

-----------------------------------------------------------------------------
(* What each action does to the outstanding runs and to the nonces.  One     *)
(* lemma per action; OneExecuting says every other id stands still.         *)
LEMMA RunStep == TypeOK /\ RunInv /\ [Next]_vars => RunInv'
<1> SUFFICES ASSUME TypeOK, RunInv, [Next]_vars PROVE RunInv'
  OBVIOUS
<1> USE DEF TypeOK, RunInv, RunState, Settled
<1>1. ASSUME NEW id \in Ids,
             \/ Submit(id) \/ Reserve(id) \/ ReserveFails(id) \/ Complete(id)
             \/ RunRejects(id) \/ RunClashes(id)
      PROVE  RunInv'
  BY <1>1 DEF Submit, Reserve, ReserveFails, Complete, RunRejects, RunClashes, FailTerminally
<1>2. ASSUME NEW id \in Ids, Timeout(id) \/ Resync(id) \/ ResyncFails(id)
      PROVE  RunInv'
  BY <1>2 DEF Timeout, Resync, ResyncFails, FailTerminally
<1>3. ASSUME NEW id \in Ids, Land(id) \/ LateAnswer(id)
      PROVE  RunInv'
  BY <1>3 DEF Land, LateAnswer
<1>4. ASSUME NEW i \in DOMAIN line, Execute(i)
      PROVE  RunInv'
  BY <1>4 DEF Execute
<1>5. CASE ForeignWrite \/ UNCHANGED vars
  BY <1>5 DEF ForeignWrite, vars
<1> QED
  BY <1>1, <1>2, <1>3, <1>4, <1>5 DEF Next, QueueStep

(* The nonce conjuncts of IInv, together: they need each other. *)
NonceParts == NonceInv /\ NoNonceGap /\ SucceededNoncesDistinct

LEMMA ReserveNonces ==
  ASSUME TypeOK, ChainInv, RunInv, NonceParts, NEW id \in Ids, Reserve(id)
  PROVE  NonceParts'
<1> DEFINE n == IF next = None THEN count ELSE next
<1>1. \A x \in Ids : phase[x] = "run" => FALSE
  BY OneExecuting DEF Reserve, Executing
<1>2. n \in Nat /\ n <= count
  BY <1>1 DEF NonceParts, NoNonceGap, TypeOK
<1>3. /\ nonce' = [nonce EXCEPT ![id] = n] /\ next' = n + 1 /\ count' = count
      /\ phase' = [phase EXCEPT ![id] = "run"] /\ run' = [run EXCEPT ![id] = "sent"]
  BY DEF Reserve, Hand
<1>4. \A b \in Ids : phase'[b] = "ok" =>
        b # id /\ phase[b] = "ok" /\ nonce'[b] = nonce[b] /\ nonce[b] \in Nat /\ nonce[b] < n
  BY <1>3, TxQueueAssumption DEF NonceParts, NonceInv, TypeOK
<1>5. NonceInv'
  BY <1>1, <1>2, <1>3, <1>4 DEF NonceInv, TypeOK
<1>6. NoNonceGap'
  BY <1>3 DEF NoNonceGap, TypeOK
<1>7. SucceededNoncesDistinct'
  BY <1>4 DEF SucceededNoncesDistinct, NonceParts
<1> QED
  BY <1>5, <1>6, <1>7 DEF NonceParts

LEMMA CompleteNonces ==
  ASSUME TypeOK, ChainInv, RunInv, NonceParts, NEW id \in Ids, Complete(id)
  PROVE  NonceParts'
<1>1. \A x \in Ids : phase[x] = "run" => x = id
  BY OneExecuting DEF Complete, Executing
<1>2. /\ nonce' = nonce /\ next' = next /\ count' = count
      /\ phase' = [phase EXCEPT ![id] = "ok"] /\ phase[id] = "run" /\ run[id] = "landed"
  BY DEF Complete, Confirm
<1>3. /\ nonce[id] \in Nat /\ next = nonce[id] + 1 /\ next <= count
      /\ \A b \in Ids : phase[b] = "ok" => nonce[b] < nonce[id]
  BY <1>2 DEF NonceParts, NonceInv
<1>4. NonceInv'
  BY <1>1, <1>2, <1>3 DEF NonceParts, NonceInv, TypeOK
<1>5. NoNonceGap'
  BY <1>2, <1>3 DEF NoNonceGap
<1>6. SucceededNoncesDistinct'
  BY <1>2, <1>3 DEF NonceParts, NonceInv, SucceededNoncesDistinct, TypeOK
<1> QED
  BY <1>4, <1>5, <1>6 DEF NonceParts

(* The awaited attempt ends without success: its nonce goes back. *)
LEMMA ReleaseNonces ==
  ASSUME TypeOK, ChainInv, RunInv, NonceParts,
         NEW id \in Ids, phase[id] = "run",
         NEW p \in {"failed", "resync"}, phase' = [phase EXCEPT ![id] = p],
         Release(nonce[id]), nonce' = nonce, count' = count
  PROVE  NonceParts'
<1>1. \A x \in Ids : phase[x] = "run" => x = id
  BY OneExecuting DEF Executing
<1>2. /\ nonce[id] \in Nat /\ nonce[id] <= count
      /\ next' = nonce[id]
      /\ \A b \in Ids : phase[b] = "ok" => nonce[b] \in Nat /\ nonce[b] < nonce[id]
  BY DEF NonceParts, NonceInv, Release
<1>3. \A x \in Ids : phase'[x] # "run" /\ (phase'[x] = "ok" => phase[x] = "ok")
  BY <1>1 DEF TypeOK
<1>4. NonceInv'
  BY <1>2, <1>3 DEF NonceInv
<1>5. NoNonceGap'
  BY <1>2 DEF NoNonceGap
<1>6. SucceededNoncesDistinct'
  BY <1>3 DEF NonceParts, SucceededNoncesDistinct
<1> QED
  BY <1>4, <1>5, <1>6 DEF NonceParts

LEMMA ResyncNonces ==
  ASSUME TypeOK, ChainInv, RunInv, NonceParts, NEW id \in Ids, Resync(id)
  PROVE  NonceParts'
<1>1. \A x \in Ids : phase[x] # "run"
  BY OneExecuting DEF Resync, Executing
<1>2. /\ nonce' = nonce /\ next' = count /\ count' = count
      /\ phase' = [phase EXCEPT ![id] = "reserve"] /\ run' = run
  BY DEF Resync
<1>3. \A x \in Ids : phase'[x] # "run" /\ (phase'[x] = "ok" => phase[x] = "ok")
  BY <1>1, <1>2 DEF TypeOK
<1>4. \A b \in Ids : phase[b] = "ok" => nonce[b] \in Nat /\ nonce[b] < count
  <2> SUFFICES ASSUME NEW b \in Ids, phase[b] = "ok"
               PROVE  nonce[b] \in Nat /\ nonce[b] < count
    OBVIOUS
  <2>1. next \in Nat /\ nonce[b] \in Nat /\ nonce[b] < next
    BY DEF NonceParts, NonceInv
  <2>2. next <= count
    BY <1>1, <2>1, TxQueueAssumption DEF NonceParts, NoNonceGap
  <2> QED BY <2>1, <2>2 DEF TypeOK
<1>5. NonceInv'
  BY <1>2, <1>3, <1>4 DEF NonceInv, TypeOK
<1>6. NoNonceGap'
  BY <1>2 DEF NoNonceGap, TypeOK
<1>7. SucceededNoncesDistinct'
  BY <1>2, <1>3 DEF NonceParts, SucceededNoncesDistinct
<1> QED
  BY <1>5, <1>6, <1>7 DEF NonceParts

(* Steps that give no id a nonce and take none back. *)
LEMMA QuietNonces ==
  ASSUME TypeOK, ChainInv, RunInv, NonceParts,
         nonce' = nonce, next' = next, count' \in Nat, count <= count',
         \A x \in Ids : phase[x] = "run" <=> phase'[x] = "run",
         \A x \in Ids : phase[x] = "ok" <=> phase'[x] = "ok",
         \A x \in Ids : phase[x] = "run" /\ run'[x] = "landed" => run[x] = "landed" \/ count < count'
  PROVE  NonceParts'
<1>1. NonceInv'
  BY DEF NonceParts, NonceInv, TypeOK
<1>2. NoNonceGap'
  BY DEF NonceParts, NoNonceGap, TypeOK
<1>3. SucceededNoncesDistinct'
  BY DEF NonceParts, SucceededNoncesDistinct
<1> QED
  BY <1>1, <1>2, <1>3 DEF NonceParts

LEMMA NonceStep ==
  ASSUME TypeOK, ChainInv, RunInv, NonceParts, [Next]_vars
  PROVE  NonceParts'
<1> USE DEF TypeOK
<1>1. ASSUME NEW id \in Ids, RunRejects(id) \/ Timeout(id) PROVE NonceParts'
  BY <1>1, ReleaseNonces DEF RunRejects, Timeout, FailTerminally
<1>2. ASSUME NEW id \in Ids, RunClashes(id) PROVE NonceParts'
  BY <1>2, ReleaseNonces DEF RunClashes
<1>3. ASSUME NEW id \in Ids, Submit(id) \/ ReserveFails(id) \/ ResyncFails(id) PROVE NonceParts'
  BY <1>3, QuietNonces DEF Submit, ReserveFails, ResyncFails
<1>4. ASSUME NEW i \in DOMAIN line, Execute(i) PROVE NonceParts'
  BY <1>4, QuietNonces DEF Execute
<1>5. ASSUME NEW id \in Ids, Land(id) PROVE NonceParts'
  BY <1>5, QuietNonces DEF Land
<1>6. ASSUME NEW id \in Ids, LateAnswer(id) PROVE NonceParts'
  BY <1>6, QuietNonces DEF LateAnswer, RunInv, Settled
<1>7. CASE ForeignWrite
  BY <1>7, QuietNonces DEF ForeignWrite
<1>8. CASE UNCHANGED vars
  BY <1>8, QuietNonces DEF vars
<1> QED
  BY <1>1, <1>2, <1>3, <1>4, <1>5, <1>6, <1>7, <1>8, ReserveNonces, CompleteNonces,
     ResyncNonces DEF Next, QueueStep

-----------------------------------------------------------------------------
LEMMA InitIInv == Init => IInv
  BY TxQueueAssumption
  DEF Init, IInv, TypeOK, Phase, Executing, Settled, RunState, ChainInv, RunInv, NonceInv,
      NoNonceGap, SucceededNoncesDistinct

LEMMA StepIInv == IInv /\ [Next]_vars => IInv'
  BY TypeStep, ChainStep, RunStep, NonceStep DEF IInv, NonceParts

THEOREM Inductive == Spec => []IInv
  BY InitIInv, StepIInv, PTL DEF Spec

(* Every variable keeps its type, for any set of ids. *)
THEOREM TypeCorrect == Spec => []TypeOK
  BY Inductive, PTL DEF IInv

(* Two successes never share a nonce (NonceManager, txqueue.ts:41-113). *)
THEOREM DistinctNonces == Spec => []SucceededNoncesDistinct
  BY Inductive, PTL DEF IInv

(* Released nonces leave no gap above the chain's count (txqueue.ts:98-101). *)
THEOREM NoGap == Spec => []NoNonceGap
  BY Inductive, PTL DEF IInv

(* Only runs already answered with a timeout overlap (txqueue.ts:252-265). *)
THEOREM OverlapOnlyAbandoned == Spec => []OnlyAbandonedRunsOverlap
<1>1. IInv => OnlyAbandonedRunsOverlap
  BY OneExecuting DEF IInv, RunInv, OnlyAbandonedRunsOverlap, Executing
<1> QED
  BY <1>1, Inductive, PTL

(* With the timeout switched off (timeoutMs = 0) the header's "strictly one  *)
(* in flight" (txqueue.ts:9-10) does hold.                                  *)
THEOREM OneInFlightWithoutTimeout == ~TimeoutOn => (Spec => []OneWriteInFlight)
<1> SUFFICES ASSUME ~TimeoutOn PROVE Spec => []OneWriteInFlight
  OBVIOUS
<1>1. IInv => OneWriteInFlight
  BY OneExecuting DEF IInv, RunInv, OneWriteInFlight, Executing
<1> QED
  BY <1>1, Inductive, PTL

-----------------------------------------------------------------------------
(* Refinement: every step of the queue is a step of SerialExecutor or leaves *)
(* its state alone.                                                         *)
LEMMA AbstractMove ==
  ASSUME TypeOK, NEW id \in Ids, NEW p \in Phase, phase' = [phase EXCEPT ![id] = p]
  PROVE  AbstractStatus' = [AbstractStatus EXCEPT ![id] = Seen(p)]
  BY DEF TypeOK, AbstractStatus

LEMMA Simulation == IInv /\ [Next]_vars => [Serial!ANext]_(Serial!avars)
<1> SUFFICES ASSUME IInv, [Next]_vars PROVE [Serial!ANext]_(Serial!avars)
  OBVIOUS
<1> USE DEF Serial!avars, Serial!ANext, Serial!Advance, Serial!Settled
<1>t. TypeOK /\ \A i \in DOMAIN line : i \in Nat /\ line[i] \in Ids
  BY DEF IInv, TypeOK
<1>1. ASSUME NEW id \in Ids, Submit(id) PROVE Serial!Accept(id)
  <2>1. AbstractStatus[id] = "new"
    BY <1>1 DEF Submit, AbstractStatus, Seen, Executing
  <2>2. AbstractStatus' = [AbstractStatus EXCEPT ![id] = "waiting"]
    BY <1>1, <1>t, AbstractMove DEF Submit, Phase, Seen
  <2> QED BY <1>1, <2>1, <2>2 DEF Submit, Serial!Accept
<1>2. ASSUME NEW i \in DOMAIN line, Execute(i) PROVE Serial!Start(i)
  <2>1. AbstractStatus[line[i]] = "waiting"
    BY <1>2, <1>t DEF Execute, AbstractStatus, Seen
  <2>2. AbstractStatus' = [AbstractStatus EXCEPT ![line[i]] = "running"]
    BY <1>2, <1>t, AbstractMove DEF Execute, Phase, Executing, Seen
  <2>3. ASSUME NEW j \in 1 .. i - 1 PROVE phase[line[j]] \in Settled
    <3>1. i \in 1 .. Len(line) /\ i - 1 \in 1 .. Len(line) /\ j \in 1 .. Len(line)
      BY <1>t DEF TypeOK
    <3>2. phase[line[i - 1]] \in Settled
      BY <1>2, <3>1 DEF Execute
    <3>3. CASE j = i - 1
      BY <3>2, <3>3
    <3>4. CASE j < i - 1
      BY <3>1, <3>2, <3>4 DEF IInv, ChainInv, Settled
    <3> QED BY <1>t, <3>1, <3>3, <3>4
  <2>4. \A j \in 1 .. i - 1 : AbstractStatus[line[j]] \in {"ok", "failed"}
    <3> SUFFICES ASSUME NEW j \in 1 .. i - 1 PROVE AbstractStatus[line[j]] \in {"ok", "failed"}
      OBVIOUS
    <3>1. line[j] \in Ids
      BY <1>t DEF TypeOK
    <3> QED BY <2>3, <3>1 DEF AbstractStatus, Seen, Settled, Executing
  <2> QED BY <1>2, <2>1, <2>2, <2>4 DEF Execute, Serial!Start
<1>3. ASSUME NEW id \in Ids, NEW p \in Settled, phase[id] \in Executing, line' = line,
             phase' = [phase EXCEPT ![id] = p]
      PROVE  Serial!Answer(id, p)
  <2>1. AbstractStatus[id] = "running"
    BY <1>3 DEF AbstractStatus, Seen, Executing
  <2>2. AbstractStatus' = [AbstractStatus EXCEPT ![id] = p]
    BY <1>3, <1>t, AbstractMove DEF Phase, Executing, Settled, Seen
  <2> QED BY <1>3, <2>1, <2>2 DEF Serial!Answer
<1>4. ASSUME NEW id \in Ids,
             \/ ReserveFails(id) \/ Complete(id) \/ RunRejects(id) \/ Timeout(id)
             \/ ResyncFails(id)
      PROVE  \E p \in Settled : Serial!Answer(id, p)
  BY <1>3, <1>4 DEF ReserveFails, Complete, RunRejects, Timeout, ResyncFails,
                    FailTerminally, Executing, Settled
<1>5. ASSUME NEW id \in Ids, Reserve(id) \/ RunClashes(id) \/ Resync(id)
      PROVE  UNCHANGED Serial!avars
  <2>1. phase[id] \in Executing
    BY <1>5 DEF Reserve, RunClashes, Resync, Executing
  <2>2. AbstractStatus' = [AbstractStatus EXCEPT ![id] = "running"]
    BY <1>5, <1>t, AbstractMove DEF Reserve, RunClashes, Resync, Executing, Phase, Seen
  <2>3. AbstractStatus[id] = "running"
    BY <2>1 DEF AbstractStatus, Seen, Executing
  <2>4. AbstractStatus' = AbstractStatus
    BY <2>2, <2>3 DEF AbstractStatus
  <2> QED BY <1>5, <2>4 DEF Reserve, RunClashes, Resync
<1>6. CASE UNCHANGED <<line, phase>>
  BY <1>6 DEF AbstractStatus
<1> QED
  BY <1>1, <1>2, <1>4, <1>5, <1>6
  DEF Next, QueueStep, ForeignWrite, Land, LateAnswer, vars, Settled

(* The queue does what SerialExecutor promises: accepted once, executed in   *)
(* order and one at a time, answered once (TxQueue, txqueue.ts:150-265).    *)
THEOREM RefinesSerialExecutor == Spec => Serial!ASafe
<1>1. Init => Serial!AInit
  BY DEF Init, Serial!AInit, AbstractStatus, Seen, Executing
<1> QED
  BY <1>1, Simulation, Inductive, PTL DEF Spec, Serial!ASafe

-----------------------------------------------------------------------------
(* The service: its journal and the orders it leaves.                       *)

(* The records of a file come in order, none of them beyond m.               *)
Ordered(file, m) ==
  /\ file \in Seq(Nat)
  /\ \A i \in 1 .. Len(file) : file[i] <= m
  /\ \A i, k \in 1 .. Len(file) :
       i < k /\ file[i] # Invalid /\ file[k] # Invalid => file[i] < file[k]

JournalTypeOK(j) ==
  j \in [file : Seq(Nat), torn : BOOLEAN, buf : Seq(Nat), armed : BOOLEAN,
         seq : Nat, closed : BOOLEAN, failures : Nat, died : BOOLEAN]

(* The buffer holds the last records, in order.                             *)
BufferInv(j) ==
  /\ Len(j.buf) <= j.seq
  /\ \A i \in 1 .. Len(j.buf) : j.buf[i] = j.seq - Len(j.buf) + i
  /\ j.closed => j.buf = <<>>

(* The file holds none of those, and all before them until a write fails.    *)
FileInv(j) ==
  /\ Ordered(j.file, j.seq - Len(j.buf))
  /\ j.failures = 0 =>
       /\ ~j.torn
       /\ \A i \in 1 .. Len(j.file) : j.file[i] = i
       /\ ~j.closed => Len(j.file) = j.seq - Len(j.buf)

(* The journal of a process that lives.                                     *)
JInv(j) == JournalTypeOK(j) /\ BufferInv(j) /\ FileInv(j) /\ ~j.died

(* A file without a gap; and one that may end in a piece of a record.        *)
Whole(file) == \A i \in 1 .. Len(file) : file[i] = i
Clean(file) == \A i \in 1 .. Len(file) : file[i] = i \/ (i = Len(file) /\ file[i] = Invalid)

(* What a death leaves on the disk, also one in the middle of a write.       *)
Dead(j) ==
  /\ JournalTypeOK(j) /\ j.died /\ j.buf = <<>>
  /\ Ordered(j.file, j.seq)
  /\ j.failures = 0 => Clean(j.file) /\ (j.torn \/ Whole(j.file))

(* Consecutive records beyond all of a file's keep it ordered. *)
LEMMA Extended ==
  ASSUME NEW f, NEW m \in Nat, Ordered(f, m), NEW b \in Nat, m <= b,
         NEW g \in Seq(Nat), \A i \in 1 .. Len(g) : g[i] = b + i
  PROVE  Ordered(f \o g, b + Len(g))
<1> DEFINE h == f \o g
           n == Len(f)
<1>1. /\ f \in Seq(Nat) /\ h \in Seq(Nat) /\ n \in Nat /\ Len(g) \in Nat /\ Len(h) = n + Len(g)
      /\ \A i \in 1 .. n : h[i] = f[i]
      /\ \A i \in 1 .. Len(h) : i > n => h[i] = g[i - n] /\ i - n \in 1 .. Len(g)
  BY DEF Ordered
<1> HIDE DEF h, n
<1>2. \A i \in 1 .. Len(h) : i > n => h[i] = b + (i - n)
  BY <1>1
<1>3. \A i \in 1 .. Len(h) : i <= n => i \in 1 .. n /\ h[i] = f[i] /\ f[i] <= m /\ f[i] \in Nat
  BY <1>1 DEF Ordered, n
<1>4. \A i \in 1 .. Len(h) : h[i] <= b + Len(g)
  <2> SUFFICES ASSUME NEW i \in 1 .. Len(h) PROVE h[i] <= b + Len(g)
    OBVIOUS
  <2>1. CASE i <= n
    <3>1. h[i] = f[i] /\ f[i] <= m /\ f[i] \in Nat
      BY <1>3, <2>1
    <3> QED BY <1>1, <3>1
  <2>2. CASE i > n
    BY <1>1, <1>2, <2>2
  <2> QED BY <1>1, <2>1, <2>2
<1>5. \A i, k \in 1 .. Len(h) : i < k /\ h[i] # Invalid /\ h[k] # Invalid => h[i] < h[k]
  <2> SUFFICES ASSUME NEW i \in 1 .. Len(h), NEW k \in 1 .. Len(h),
                      i < k, h[i] # Invalid, h[k] # Invalid
               PROVE  h[i] < h[k]
    OBVIOUS
  <2>1. CASE k <= n
    <3>1. i \in 1 .. n /\ k \in 1 .. n /\ h[i] = f[i] /\ h[k] = f[k]
      BY <1>1, <2>1
    <3> QED BY <3>1 DEF Ordered, n
  <2>2. CASE i <= n /\ k > n
    <3>1. h[i] = f[i] /\ f[i] <= m /\ f[i] \in Nat
      BY <1>3, <2>2
    <3>2. h[k] = b + (k - n)
      BY <1>2, <2>2
    <3> QED BY <1>1, <2>2, <3>1, <3>2
  <2>3. CASE i > n
    <3>1. h[i] = b + (i - n) /\ h[k] = b + (k - n)
      BY <1>1, <1>2, <2>3
    <3> QED BY <1>1, <3>1
  <2> QED BY <1>1, <2>1, <2>2, <2>3
<1> QED BY <1>1, <1>4, <1>5 DEF Ordered, h

(* A piece without its line end spoils no order. *)
LEMMA Torn ==
  ASSUME NEW f, NEW m \in Nat, Ordered(f, m)
  PROVE  Ordered(Append(f, Invalid), m)
<1> DEFINE h == Append(f, Invalid)
           n == Len(f)
<1>1. /\ f \in Seq(Nat) /\ h \in Seq(Nat) /\ n \in Nat /\ Len(h) = n + 1
      /\ \A i \in 1 .. n : h[i] = f[i]
      /\ h[n + 1] = 0
  BY DEF Ordered, Invalid
<1> HIDE DEF h
<1>2. \A i \in 1 .. Len(h) : i = n + 1 \/ i \in 1 .. n
  BY <1>1
<1>3. \A i \in 1 .. Len(h) : h[i] <= m
  BY <1>1, <1>2 DEF Ordered
<1>4. \A i, k \in 1 .. Len(h) : i < k /\ h[i] # Invalid /\ h[k] # Invalid => h[i] < h[k]
  <2> SUFFICES ASSUME NEW i \in 1 .. Len(h), NEW k \in 1 .. Len(h),
                      i < k, h[i] # Invalid, h[k] # Invalid
               PROVE  h[i] < h[k]
    OBVIOUS
  <2>1. i \in 1 .. n /\ k \in 1 .. n
    BY <1>1, <1>2 DEF Invalid
  <2> QED BY <1>1, <2>1 DEF Ordered
<1> QED BY <1>1, <1>3, <1>4 DEF Ordered, h

(* A looser bound holds too. *)
LEMMA Looser ==
  ASSUME NEW f, NEW m \in Nat, NEW n \in Nat, m <= n, Ordered(f, m)
  PROVE  Ordered(f, n)
<1>1. \A i \in 1 .. Len(f) : f[i] \in Nat /\ f[i] <= m
  BY DEF Ordered
<1>2. \A i \in 1 .. Len(f) : f[i] <= n
  BY <1>1
<1> QED BY <1>2 DEF Ordered

(* What any beginning of the buffer makes of the file. *)
LEMMA OntoOrdered ==
  ASSUME NEW j, JInv(j), NEW lines \in Seq(Nat), Len(lines) <= Len(j.buf),
         \A i \in 1 .. Len(lines) : lines[i] = j.buf[i]
  PROVE  Ordered(Onto(j, lines), j.seq)
<1> DEFINE b == j.seq - Len(j.buf)
<1>1. /\ j.seq \in Nat /\ Len(j.buf) \in Nat /\ b \in Nat /\ b <= j.seq /\ j.file \in Seq(Nat)
      /\ Ordered(j.file, b) /\ b + Len(j.buf) = j.seq /\ Len(lines) \in Nat
  BY DEF JInv, JournalTypeOK, BufferInv, FileInv
<1>2. \A i \in 1 .. Len(lines) : lines[i] = b + i
  BY <1>1 DEF JInv, BufferInv
<1> HIDE DEF b
<1>3. CASE lines = <<>>
  BY <1>1, <1>3, Looser DEF Onto
<1>4. CASE lines # <<>> /\ ~j.torn
  <2>1. Ordered(j.file \o lines, b + Len(lines))
    BY <1>1, <1>2, Extended
  <2>2. b + Len(lines) \in Nat /\ b + Len(lines) <= j.seq
    BY <1>1
  <2>3. Ordered(j.file \o lines, j.seq)
    BY <1>1, <2>1, <2>2, Looser
  <2> QED BY <1>4, <2>3 DEF Onto
<1>5. CASE lines # <<>> /\ j.torn
  <2> DEFINE g == Tail(lines)
             c == b + 1
  <2>1. g \in Seq(Nat) /\ Len(g) = Len(lines) - 1 /\ \A i \in 1 .. Len(g) : g[i] = lines[i + 1]
    BY <1>5
  <2>2. c \in Nat /\ b <= c /\ c + Len(g) \in Nat /\ c + Len(g) <= j.seq
    BY <1>1, <2>1
  <2>3. \A i \in 1 .. Len(g) : g[i] = c + i
    BY <1>1, <1>2, <2>1
  <2> HIDE DEF g, c
  <2>4. Ordered(j.file \o g, c + Len(g))
    BY <1>1, <2>1, <2>2, <2>3, Extended
  <2>5. Ordered(j.file \o g, j.seq)
    BY <1>1, <2>2, <2>4, Looser
  <2> QED BY <1>5, <2>5 DEF Onto, g
<1> QED BY <1>3, <1>4, <1>5

(* The elements of a concatenation, by their index. *)
LEMMA Concatenated ==
  ASSUME NEW f \in Seq(Nat), NEW g \in Seq(Nat), NEW h, h = f \o g
  PROVE  /\ Len(h) = Len(f) + Len(g) /\ Len(f) \in Nat /\ Len(g) \in Nat
         /\ \A i \in 1 .. Len(f) : h[i] = f[i]
         /\ \A i \in 1 .. Len(h) : i > Len(f) => h[i] = g[i - Len(f)] /\ i - Len(f) \in 1 .. Len(g)
OBVIOUS

(* writeNow keeps the invariant, however the write ends, and empties the buffer. *)
LEMMA WrittenKeeps ==
  ASSUME NEW j, JInv(j), NEW w \in Written(j)
  PROVE  JInv(w) /\ w.buf = <<>>
<1>0. /\ JournalTypeOK(j) /\ j.file \in Seq(Nat) /\ j.buf \in Seq(Nat) /\ j.seq \in Nat
      /\ j.failures \in Nat /\ j.torn \in BOOLEAN /\ j.closed \in BOOLEAN /\ Len(j.buf) <= j.seq
      /\ j.died = FALSE
  BY DEF JInv, JournalTypeOK, BufferInv
<1>1. CASE j.buf = <<>>
  BY <1>1 DEF Written
<1>2. ASSUME j.buf # <<>>, w = [j EXCEPT !.file = Onto(j, j.buf), !.torn = FALSE, !.buf = <<>>]
      PROVE  JInv(w) /\ w.buf = <<>>
  <2>1. Ordered(Onto(j, j.buf), j.seq)
    BY <1>0, OntoOrdered
  <2> DEFINE file == Onto(j, j.buf)
  <2>2. file \in Seq(Nat)
    BY <2>1 DEF Ordered
  <2>3. j.failures = 0 => Len(file) = j.seq /\ \A i \in 1 .. Len(file) : file[i] = i
    <3> SUFFICES ASSUME j.failures = 0
                 PROVE  Len(file) = j.seq /\ \A i \in 1 .. Len(file) : file[i] = i
      OBVIOUS
    <3> DEFINE n == Len(j.file)
    <3>1. /\ ~j.torn /\ n = j.seq - Len(j.buf)
          /\ \A i \in 1 .. n : j.file[i] = i
          /\ \A i \in 1 .. Len(j.buf) : j.buf[i] = n + i
      BY <1>0, <1>2 DEF JInv, BufferInv, FileInv
    <3>2. file = j.file \o j.buf
      BY <1>2, <3>1 DEF Onto
    <3> HIDE DEF file
    <3>3. /\ Len(file) = n + Len(j.buf) /\ n \in Nat /\ Len(j.buf) \in Nat
          /\ \A i \in 1 .. n : file[i] = j.file[i]
          /\ \A i \in 1 .. Len(file) : i > n => file[i] = j.buf[i - n] /\ i - n \in 1 .. Len(j.buf)
      <4> DEFINE f == j.file
                 g == j.buf
      <4>1. f \in Seq(Nat) /\ g \in Seq(Nat) /\ file = f \o g
        BY <1>0, <3>2
      <4> HIDE DEF f, g
      <4>2. /\ Len(file) = Len(f) + Len(g) /\ Len(f) \in Nat /\ Len(g) \in Nat
            /\ \A i \in 1 .. Len(f) : file[i] = f[i]
            /\ \A i \in 1 .. Len(file) :
                 i > Len(f) => file[i] = g[i - Len(f)] /\ i - Len(f) \in 1 .. Len(g)
        BY <4>1, Concatenated
      <4> QED BY <4>2 DEF f, g
    <3> HIDE DEF n
    <3>4. \A i \in 1 .. Len(file) : i > n => file[i] = n + (i - n)
      BY <3>1, <3>3
    <3>5. \A i \in 1 .. Len(file) : i <= n => file[i] = i
      BY <3>1, <3>3
    <3>6. \A i \in 1 .. Len(file) : file[i] = i
      BY <3>3, <3>4, <3>5
    <3>7. Len(file) = j.seq
      BY <1>0, <3>1, <3>3
    <3> QED BY <3>6, <3>7
  <2> HIDE DEF file
  <2>4. /\ w = [j EXCEPT !.file = file, !.torn = FALSE, !.buf = <<>>]
        /\ Ordered(file, j.seq)
    BY <1>2, <2>1 DEF file
  <2>5. /\ JournalTypeOK(w) /\ w.file = file /\ ~w.torn /\ w.buf = <<>> /\ w.seq = j.seq
        /\ w.failures = j.failures /\ ~w.died
    <3>1. w = [file |-> file, torn |-> FALSE, buf |-> <<>>, armed |-> j.armed, seq |-> j.seq,
               closed |-> j.closed, failures |-> j.failures, died |-> FALSE]
      BY <1>0, <2>4 DEF JournalTypeOK
    <3>2. <<>> \in Seq(Nat) /\ j.armed \in BOOLEAN /\ FALSE \in BOOLEAN
      BY <1>0 DEF JournalTypeOK
    <3>3. JournalTypeOK(w)
      BY <1>0, <2>2, <3>1, <3>2 DEF JournalTypeOK
    <3> QED BY <3>1, <3>3
  <2>6. Len(w.buf) = 0 /\ 1 .. 0 = {} /\ w.seq - 0 = j.seq
    BY <1>0, <2>5
  <2>7. BufferInv(w)
    BY <1>0, <2>5, <2>6 DEF BufferInv
  <2>8. FileInv(w)
    BY <1>0, <2>3, <2>4, <2>5, <2>6 DEF FileInv
  <2> QED BY <2>5, <2>7, <2>8 DEF JInv
<1>3. ASSUME j.buf # <<>>, NEW k \in 0 .. Len(j.buf) - 1, NEW piece \in BOOLEAN, w = Failed(j, k, piece)
      PROVE  JInv(w) /\ w.buf = <<>>
  <2> DEFINE lines == SubSeq(j.buf, 1, k)
             still == j.torn /\ k = 0
             onto == Onto(j, lines)
             file == IF piece /\ ~still THEN Append(onto, Invalid) ELSE onto
             torn == piece \/ still
  <2>1. lines \in Seq(Nat) /\ Len(lines) <= Len(j.buf) /\ \A i \in 1 .. Len(lines) : lines[i] = j.buf[i]
    BY <1>0
  <2>2. Ordered(onto, j.seq)
    BY <2>1, OntoOrdered
  <2>3. Ordered(file, j.seq) /\ torn \in BOOLEAN
    BY <1>0, <2>2, Torn
  <2>4. w = [[j EXCEPT !.file = file, !.torn = torn, !.buf = <<>>] EXCEPT !.failures = @ + 1]
    BY <1>3 DEF Failed, Partly
  <2> HIDE DEF lines, still, onto, file, torn
  <2>5. file \in Seq(Nat)
    BY <2>3 DEF Ordered
  <2>6. /\ JournalTypeOK(w) /\ w.file = file /\ w.buf = <<>> /\ w.seq = j.seq
        /\ w.failures = j.failures + 1 /\ ~w.died
    <3>1. w = [file |-> file, torn |-> torn, buf |-> <<>>, armed |-> j.armed, seq |-> j.seq,
               closed |-> j.closed, failures |-> j.failures + 1, died |-> FALSE]
      BY <1>0, <2>4 DEF JournalTypeOK
    <3>2. <<>> \in Seq(Nat) /\ j.armed \in BOOLEAN /\ j.failures + 1 \in Nat
      BY <1>0 DEF JournalTypeOK
    <3>3. JournalTypeOK(w)
      BY <1>0, <2>3, <2>5, <3>1, <3>2 DEF JournalTypeOK
    <3> QED BY <3>1, <3>3
  <2>7. Len(w.buf) = 0 /\ 1 .. 0 = {} /\ w.seq - 0 = j.seq /\ w.failures # 0
    BY <1>0, <2>6
  <2>8. BufferInv(w)
    BY <1>0, <2>6, <2>7 DEF BufferInv
  <2>9. FileInv(w)
    BY <1>0, <2>3, <2>6, <2>7 DEF FileInv
  <2> QED BY <2>6, <2>8, <2>9 DEF JInv
<1> QED BY <1>1, <1>2, <1>3 DEF Written

(* The timer is no part of it. *)
LEMMA Disarmed ==
  ASSUME NEW j, JInv(j)
  PROVE  JInv([j EXCEPT !.armed = FALSE])
<1> DEFINE d == [j EXCEPT !.armed = FALSE]
<1>1. JournalTypeOK(d) /\ d.file = j.file /\ d.torn = j.torn /\ d.buf = j.buf /\ d.seq = j.seq
      /\ d.closed = j.closed /\ d.failures = j.failures /\ ~d.died
  BY DEF JInv, JournalTypeOK
<1> HIDE DEF d
<1>2. JInv(d)
  BY <1>1 DEF JInv, BufferInv, FileInv
<1> QED BY <1>2 DEF d

(* The batch timer keeps it. *)
LEMMA TimerKeeps == ASSUME NEW j, JInv(j), NEW w \in TimerFired(j) PROVE JInv(w)
BY Disarmed, WrittenKeeps DEF TimerFired

(* close keeps it. *)
LEMMA ClosedKeeps ==
  ASSUME NEW j, JInv(j), NEW c \in Closed(j)
  PROVE  JInv(c)
<1>1. PICK w \in Written([j EXCEPT !.armed = FALSE]) : c = [w EXCEPT !.closed = TRUE]
  BY DEF Closed
<1>2. JInv(w) /\ w.buf = <<>>
  BY Disarmed, WrittenKeeps
<1>3. /\ JournalTypeOK(c) /\ c.file = w.file /\ c.torn = w.torn /\ c.buf = <<>> /\ c.seq = w.seq
      /\ c.closed /\ c.failures = w.failures /\ ~c.died
  BY <1>1, <1>2 DEF JInv, JournalTypeOK
<1> QED BY <1>2, <1>3 DEF JInv, BufferInv, FileInv

(* A record taken into the buffer keeps it. *)
LEMMA BufferedKeeps ==
  ASSUME NEW j, JInv(j), ~j.closed
  PROVE  JInv(Buffered(j))
<1> DEFINE numbered == Numbered(j)
           buffered == Buffered(j)
<1>0. /\ JournalTypeOK(j) /\ j.file \in Seq(Nat) /\ j.buf \in Seq(Nat) /\ j.seq \in Nat
      /\ j.failures \in Nat /\ Len(j.buf) <= j.seq /\ Len(j.buf) \in Nat /\ j.died = FALSE
  BY DEF JInv, JournalTypeOK, BufferInv
<1>1. /\ JournalTypeOK(numbered) /\ numbered.seq = j.seq + 1 /\ numbered.buf = j.buf
      /\ numbered.file = j.file /\ numbered.torn = j.torn /\ numbered.closed = j.closed
      /\ numbered.failures = j.failures /\ numbered.died = FALSE
  <2>0. numbered = [j EXCEPT !.seq = j.seq + 1]
    BY DEF Numbered
  <2> HIDE DEF numbered
  <2>1. numbered = [file |-> j.file, torn |-> j.torn, buf |-> j.buf, armed |-> j.armed,
                    seq |-> j.seq + 1, closed |-> j.closed, failures |-> j.failures,
                    died |-> FALSE]
    BY <1>0, <2>0 DEF JournalTypeOK
  <2>2. j.armed \in BOOLEAN /\ j.torn \in BOOLEAN /\ j.closed \in BOOLEAN /\ j.seq + 1 \in Nat
    BY <1>0 DEF JournalTypeOK
  <2>3. JournalTypeOK(numbered)
    BY <1>0, <2>1, <2>2 DEF JournalTypeOK
  <2> QED BY <2>1, <2>3
<1>2. /\ JournalTypeOK(buffered) /\ buffered.seq = j.seq + 1
      /\ buffered.buf = Append(j.buf, j.seq + 1)
      /\ buffered.file = j.file /\ buffered.torn = j.torn /\ buffered.closed = j.closed
      /\ buffered.failures = j.failures /\ ~buffered.died
  <2>0. buffered = [numbered EXCEPT !.buf = Append(numbered.buf, numbered.seq)]
    BY DEF Buffered
  <2> HIDE DEF numbered, buffered
  <2>1. buffered = [file |-> j.file, torn |-> j.torn, buf |-> Append(j.buf, j.seq + 1),
                    armed |-> numbered.armed, seq |-> j.seq + 1, closed |-> j.closed,
                    failures |-> j.failures, died |-> FALSE]
    BY <1>1, <2>0 DEF JournalTypeOK
  <2>2. /\ numbered.armed \in BOOLEAN /\ j.torn \in BOOLEAN /\ j.closed \in BOOLEAN
        /\ j.seq + 1 \in Nat /\ Append(j.buf, j.seq + 1) \in Seq(Nat)
    BY <1>0, <1>1 DEF JournalTypeOK
  <2>3. JournalTypeOK(buffered)
    BY <1>0, <2>1, <2>2 DEF JournalTypeOK
  <2> QED BY <2>1, <2>3
<1> HIDE DEF numbered, buffered
<1> DEFINE b == Append(j.buf, j.seq + 1)
<1>3. Len(b) = Len(j.buf) + 1 /\ Len(b) <= j.seq + 1
      /\ (j.seq + 1) - Len(b) = j.seq - Len(j.buf)
  BY <1>0
<1>4. \A i \in 1 .. Len(b) : b[i] = (j.seq + 1) - Len(b) + i
  <2>1. \A i \in 1 .. Len(j.buf) : b[i] = j.buf[i]
    BY <1>0
  <2>2. b[Len(j.buf) + 1] = j.seq + 1
    BY <1>0
  <2>3. \A i \in 1 .. Len(j.buf) : j.buf[i] = j.seq - Len(j.buf) + i
    BY DEF JInv, BufferInv
  <2> HIDE DEF b
  <2> DEFINE n == Len(j.buf)
  <2>4. n \in Nat /\ Len(b) = n + 1 /\ (j.seq + 1) - Len(b) = j.seq - n
    BY <1>0, <1>3
  <2>5. \A i \in 1 .. n : b[i] = j.seq - n + i
    BY <2>1, <2>3
  <2>6. b[n + 1] = j.seq - n + (n + 1)
    BY <1>0, <2>2, <2>4
  <2> HIDE DEF n
  <2> QED BY <2>4, <2>5, <2>6
<1> HIDE DEF b
<1>5. BufferInv(buffered)
  BY <1>2, <1>3, <1>4 DEF BufferInv, b
<1>6. FileInv(buffered)
  BY <1>2, <1>3 DEF JInv, FileInv, b
<1> QED BY <1>2, <1>5, <1>6 DEF JInv, buffered

(* append keeps it, also after close. *)
LEMMA AppendedKeeps ==
  ASSUME NEW j, JInv(j), NEW w \in Appended(j)
  PROVE  JInv(w)
<1>0. /\ JournalTypeOK(j) /\ j.seq \in Nat /\ j.died = FALSE /\ j.buf \in Seq(Nat)
  BY DEF JInv, JournalTypeOK, BufferInv
<1>1. CASE j.closed
  <2>1. w = [j EXCEPT !.seq = j.seq + 1]
    BY <1>1 DEF Appended, Numbered
  <2>2. /\ JournalTypeOK(w) /\ w.file = j.file /\ w.torn = j.torn /\ w.buf = j.buf
        /\ w.seq = j.seq + 1 /\ w.closed /\ w.failures = j.failures /\ ~w.died
    BY <1>0, <1>1, <2>1 DEF JournalTypeOK
  <2>3. j.buf = <<>> /\ Len(j.buf) = 0 /\ 1 .. 0 = {}
    BY <1>1 DEF JInv, BufferInv
  <2>4. Ordered(j.file, w.seq - Len(w.buf))
    <3>1. Ordered(j.file, j.seq - Len(j.buf))
      BY DEF JInv, FileInv
    <3> QED BY <1>0, <2>2, <2>3, <3>1, Looser
  <2>5. BufferInv(w)
    BY <1>0, <2>2, <2>3 DEF BufferInv
  <2>6. FileInv(w)
    BY <2>2, <2>4 DEF JInv, FileInv
  <2> QED BY <2>2, <2>5, <2>6 DEF JInv
<1>2. CASE ~j.closed
  <2> DEFINE buffered == Buffered(j)
  <2>1. JInv(buffered)
    BY <1>2, BufferedKeeps
  <2>2. \/ w \in Written(buffered)
        \/ w = [buffered EXCEPT !.armed = TRUE]
    BY <1>2 DEF Appended
  <2> HIDE DEF buffered
  <2>3. CASE w \in Written(buffered)
    BY <2>1, <2>3, WrittenKeeps
  <2>4. CASE w = [buffered EXCEPT !.armed = TRUE]
    <3>1. /\ JournalTypeOK(w) /\ w.file = buffered.file /\ w.torn = buffered.torn
          /\ w.buf = buffered.buf /\ w.seq = buffered.seq /\ w.closed = buffered.closed
          /\ w.failures = buffered.failures /\ ~w.died
      BY <2>1, <2>4 DEF JInv, JournalTypeOK
    <3> QED BY <2>1, <3>1 DEF JInv, BufferInv, FileInv
  <2> QED BY <2>2, <2>3, <2>4
<1> QED BY <1>1, <1>2

(* The next records after a file without a gap leave none. *)
LEMMA StaysWhole ==
  ASSUME NEW f \in Seq(Nat), Whole(f), NEW g \in Seq(Nat), \A i \in 1 .. Len(g) : g[i] = Len(f) + i
  PROVE  Whole(f \o g)
<1> DEFINE h == f \o g
           n == Len(f)
<1>1. /\ Len(h) = n + Len(g) /\ n \in Nat /\ Len(g) \in Nat
      /\ \A i \in 1 .. n : h[i] = f[i]
      /\ \A i \in 1 .. Len(h) : i > n => h[i] = g[i - n] /\ i - n \in 1 .. Len(g)
  BY Concatenated
<1> HIDE DEF h
<1>2. \A i \in 1 .. Len(h) : i > n => h[i] = n + (i - n)
  BY <1>1
<1> HIDE DEF n
<1>3. \A i \in 1 .. Len(h) : i <= n => i \in 1 .. n /\ h[i] = f[i]
  BY <1>1
<1>4. \A i \in 1 .. n : f[i] = i
  BY DEF Whole, n
<1>5. \A i \in 1 .. Len(h) : h[i] = i
  BY <1>1, <1>2, <1>3, <1>4
<1> QED BY <1>5 DEF Whole, h

(* A death leaves a beginning of what there was, and perhaps a piece of a record. *)
LEMMA DiedKeeps ==
  ASSUME NEW j, JInv(j), NEW w \in Died(j)
  PROVE  Dead(w)
<1>1. PICK c \in Cuts(j) : w = [Partly(j, c[1], c[2]) EXCEPT !.armed = FALSE, !.died = TRUE]
  BY DEF Died
<1> DEFINE k == c[1]
           piece == c[2]
           lines == SubSeq(j.buf, 1, k)
           still == j.torn /\ k = 0
           onto == Onto(j, lines)
           file == IF piece /\ ~still THEN Append(onto, Invalid) ELSE onto
           torn == piece \/ still
<1>0. /\ JournalTypeOK(j) /\ j.file \in Seq(Nat) /\ j.buf \in Seq(Nat) /\ j.seq \in Nat
      /\ j.failures \in Nat /\ j.torn \in BOOLEAN /\ j.closed \in BOOLEAN /\ Len(j.buf) <= j.seq
      /\ Len(j.buf) \in Nat
  BY DEF JInv, JournalTypeOK, BufferInv
<1>2. k \in 0 .. Len(j.buf) /\ piece \in BOOLEAN
  BY DEF Cuts
<1>3. /\ lines \in Seq(Nat) /\ Len(lines) = k /\ Len(lines) <= Len(j.buf)
      /\ \A i \in 1 .. Len(lines) : lines[i] = j.buf[i]
  BY <1>0, <1>2
<1>4. Ordered(onto, j.seq)
  BY <1>3, OntoOrdered
<1>5. Ordered(file, j.seq) /\ torn \in BOOLEAN
  BY <1>0, <1>2, <1>4, Torn
<1>6. ASSUME j.failures = 0 PROVE ~j.torn /\ Whole(onto)
  <2>1. ~j.torn /\ Whole(j.file) /\ (~j.closed => Len(j.file) = j.seq - Len(j.buf))
    BY <1>6 DEF JInv, FileInv, Whole
  <2>2. CASE lines = <<>>
    BY <2>1, <2>2 DEF Onto
  <2>3. CASE lines # <<>>
    <3>1. ~j.closed
      <4>1. j.closed => j.buf = <<>> /\ Len(j.buf) = 0
        BY DEF JInv, BufferInv
      <4> QED BY <1>2, <1>3, <2>3, <4>1
    <3>2. \A i \in 1 .. Len(lines) : lines[i] = Len(j.file) + i
      <4>1. \A i \in 1 .. Len(j.buf) : j.buf[i] = Len(j.file) + i
        BY <2>1, <3>1 DEF JInv, BufferInv
      <4>2. \A i \in 1 .. Len(lines) : i \in 1 .. Len(j.buf)
        BY <1>0, <1>2, <1>3
      <4> QED BY <1>3, <4>1, <4>2
    <3> HIDE DEF lines
    <3>3. Whole(j.file \o lines)
      BY <1>0, <1>3, <2>1, <3>2, StaysWhole
    <3> QED BY <2>1, <2>3, <3>3 DEF Onto
  <2> QED BY <2>1, <2>2, <2>3
<1>7. w = [[j EXCEPT !.file = file, !.torn = torn, !.buf = <<>>] EXCEPT !.armed = FALSE, !.died = TRUE]
  BY <1>1 DEF Partly
<1> HIDE DEF k, piece, lines, onto, still
<1>8. j.failures = 0 => Clean(file) /\ (torn \/ Whole(file))
  <2> SUFFICES ASSUME j.failures = 0 PROVE Clean(file) /\ (torn \/ Whole(file))
    OBVIOUS
  <2>1. ~still /\ Whole(onto) /\ onto \in Seq(Nat)
    BY <1>4, <1>6 DEF still, Ordered
  <2>2. CASE piece
    <3>1. file = Append(onto, Invalid) /\ torn
      BY <2>1, <2>2
    <3> HIDE DEF file
    <3>2. /\ Len(file) = Len(onto) + 1 /\ file[Len(file)] = Invalid /\ Len(onto) \in Nat
          /\ \A i \in 1 .. Len(onto) : file[i] = onto[i]
      BY <2>1, <3>1 DEF Invalid
    <3>3. \A i \in 1 .. Len(file) : i = Len(file) \/ i \in 1 .. Len(onto)
      BY <3>2
    <3> QED BY <2>1, <3>1, <3>2, <3>3 DEF Clean, Whole
  <2>3. CASE ~piece
    <3>1. file = onto
      BY <2>3
    <3> HIDE DEF file
    <3> QED BY <2>1, <3>1 DEF Clean, Whole
  <2> QED BY <1>2, <2>2, <2>3
<1> HIDE DEF file, torn
<1>9. file \in Seq(Nat)
  BY <1>5 DEF Ordered
<1>10. w = [file |-> file, torn |-> torn, buf |-> <<>>, armed |-> FALSE, seq |-> j.seq,
            closed |-> j.closed, failures |-> j.failures, died |-> TRUE]
  BY <1>0, <1>7 DEF JournalTypeOK
<1>11. JournalTypeOK(w)
  <2>1. <<>> \in Seq(Nat) /\ FALSE \in BOOLEAN /\ TRUE \in BOOLEAN
    OBVIOUS
  <2> QED BY <1>0, <1>5, <1>9, <1>10, <2>1 DEF JournalTypeOK
<1> QED BY <1>5, <1>8, <1>10, <1>11 DEF Dead

-----------------------------------------------------------------------------
(* What a replay makes of such a file. *)
Reads == [yielded : Seq(Nat), expected : Nat, warned : BOOLEAN]
AtFirst == [yielded |-> <<>>, expected |-> 1, warned |-> FALSE]
Reading == [p \in Reads \X Nat |-> ReadLine(p[1], p[2])]

(* Reading a line is a step of a fold. *)
LEMMA ReadTypes ==
  /\ AtFirst \in Reads
  /\ \A r \in Reads, rec \in Nat : ReadLine(r, rec) \in Reads
  /\ \A r \in Reads, rec \in Nat : Reading[<<r, rec>>] = ReadLine(r, rec)
  /\ Reading \in [Reads \X Nat -> Reads]
<1>1. AtFirst \in Reads
  <2>1. <<>> \in Seq(Nat) /\ 1 \in Nat /\ FALSE \in BOOLEAN
    OBVIOUS
  <2> QED BY <2>1 DEF AtFirst, Reads
<1>2. ASSUME NEW r \in Reads, NEW rec \in Nat PROVE ReadLine(r, rec) \in Reads
  <2>1. /\ r.yielded \in Seq(Nat) /\ Append(r.yielded, rec) \in Seq(Nat) /\ rec + 1 \in Nat
        /\ (r.warned \/ rec # r.expected) \in BOOLEAN
    BY DEF Reads
  <2>2. CASE rec = Invalid
    BY <2>2 DEF ReadLine, Reads
  <2>3. CASE rec # Invalid
    BY <2>1, <2>3 DEF ReadLine, Reads
  <2> QED BY <2>2, <2>3
<1>3. \A r \in Reads, rec \in Nat : Reading[<<r, rec>>] = ReadLine(r, rec)
  BY DEF Reading
<1>4. Reading \in [Reads \X Nat -> Reads]
  BY <1>2 DEF Reading
<1> QED BY <1>1, <1>2, <1>3, <1>4

Readings(file) == CHOOSE iter : iter = [s \in SUBSET DOMAIN file |->
  IF s = {} THEN AtFirst ELSE LET x == Max(s) IN ReadLine(iter[s \ {x}], file[x])]

(* A replay is the fold of its lines. *)
LEMMA ReplayIsFold ==
  ASSUME NEW file \in Seq(Nat)
  PROVE  Replayed(file) = Folding(Reading, AtFirst, file)
<1> DEFINE n == Len(file)
           g == Readings(file)
           Step(h, s) == IF s = {} THEN AtFirst ELSE ReadLine(h[s \ {Max(s)}], file[Max(s)])
<1>1. Replayed(file) = g[DOMAIN file]
  BY DEF Replayed, FoldLeft, MapThenFoldSet, Readings, AtFirst
<1>2. n \in Nat /\ DOMAIN file = 1 .. n /\ \A k \in 1 .. n : file[k] \in Nat
  OBVIOUS
<1>a. AtFirst \in Reads /\ Reading \in [Reads \X Nat -> Reads]
  BY ReadTypes
<1> HIDE DEF g, Step
<1>b. PICK f : IsFold(f, Reads, Reading, AtFirst, file)
  BY <1>a, FoldsExist
<1>3. /\ f \in [SUBSET (1 .. n) -> Reads]
      /\ \A s \in SUBSET (1 .. n) : f[s] = FoldStep(f, Reading, AtFirst, file, s)
  BY <1>b DEF IsFold
<1> USE DEF g, Step
<1>4. \A s \in SUBSET (1 .. n) : f[s] = Step(f, s)
  <2> SUFFICES ASSUME NEW s \in SUBSET (1 .. n), s # {} PROVE f[s] = Step(f, s)
    BY <1>3 DEF FoldStep
  <2>1. Max(s) \in s
    BY <1>2, MaxOfRange
  <2>2. f[s \ {Max(s)}] \in Reads /\ file[Max(s)] \in Nat
    BY <1>2, <1>3, <2>1
  <2> QED BY <1>3, <2>2, ReadTypes DEF FoldStep
<1>5. f = [s \in SUBSET DOMAIN file |-> Step(f, s)]
  BY <1>2, <1>3, <1>4
<1>6. g = [s \in SUBSET DOMAIN file |-> Step(g, s)]
  BY <1>5 DEF Readings
<1> HIDE DEF g, n
<1>7. g[{}] = AtFirst
  BY <1>6
<1>8. \A k \in 0 .. n - 1 : g[1 .. k] \in Reads => g[1 .. k + 1] = Reading[<<g[1 .. k], file[k + 1]>>]
  <2> SUFFICES ASSUME NEW k \in 0 .. n - 1, g[1 .. k] \in Reads
               PROVE  g[1 .. k + 1] = Reading[<<g[1 .. k], file[k + 1]>>]
    OBVIOUS
  <2>1. Max(1 .. k + 1) = k + 1 /\ (1 .. k + 1) \ {k + 1} = 1 .. k
    BY <1>2, MaxOfInterval
  <2>a. k + 1 \in 1 .. k + 1 /\ k + 1 \in 1 .. n /\ 1 .. k + 1 \in SUBSET (1 .. n)
    BY <1>2
  <2>2. 1 .. k + 1 \in SUBSET DOMAIN file /\ 1 .. k + 1 # {} /\ file[k + 1] \in Nat
    BY <1>2, <2>a
  <2>3. g[1 .. k + 1] = Step(g, 1 .. k + 1)
    BY <1>6, <2>2
  <2>4. g[1 .. k + 1] = ReadLine(g[1 .. k], file[k + 1])
    BY <2>1, <2>2, <2>3
  <2> QED BY <2>2, <2>4, ReadTypes
<1>9. AtEnd(g, file) = Folding(Reading, AtFirst, file)
  <2>1. TakesInOrder(g, Reads, Reading, AtFirst, file)
    BY <1>7, <1>8 DEF TakesInOrder, n
  <2> HIDE DEF n, Step
  <2>2. IsStep(Reading, Reads, Nat)
    BY <1>a DEF IsStep
  <2> QED BY <1>a, <2>1, <2>2, FoldReached
<1> QED BY <1>1, <1>2, <1>9 DEF AtEnd, n

(* The replay of an ordered file yields its records in order; it yields a beginning of
   the run when at most a piece ends the file, and warns of nothing without one. *)
LEMMA ReplayFaithful ==
  ASSUME NEW file, NEW m, Ordered(file, m)
  PROVE  LET r == Replayed(file) IN
         /\ \A i, k \in DOMAIN r.yielded : i < k => r.yielded[i] < r.yielded[k]
         /\ Clean(file) => \A i \in DOMAIN r.yielded : r.yielded[i] = i
         /\ Whole(file) => ~r.warned
<1> DEFINE n == Len(file)
           P == RunOf(Reading, AtFirst, file)
           Unbroken(k) == k = 0 \/ file[k] # Invalid
           Good(k) == /\ \A i \in 1 .. Len(P[k].yielded) : \E l \in 1 .. k :
                           P[k].yielded[i] = file[l] /\ file[l] # Invalid
                      /\ \A i, l \in 1 .. Len(P[k].yielded) : i < l => P[k].yielded[i] < P[k].yielded[l]
                      /\ Clean(file) => \A i \in 1 .. Len(P[k].yielded) : P[k].yielded[i] = i
                      /\ Clean(file) /\ Unbroken(k) =>
                           ~P[k].warned /\ P[k].expected = k + 1 /\ Len(P[k].yielded) = k
           Holds(k) == k <= n => Good(k)
           N == {k \in Nat : Holds(k)}
<1>0. file \in Seq(Nat) /\ n \in Nat /\ \A i \in 1 .. n : file[i] \in Nat
  BY DEF Ordered
<1>1. IsRun(Reading, AtFirst, file, P) /\ P \in [0 .. n -> Reads]
  BY <1>0, RunExists, ReadTypes
<1>2. Replayed(file) = P[n]
  BY <1>0, ReplayIsFold DEF Folding
<1> HIDE DEF P
<1>3. \A k \in 0 .. n : P[k] = IF k = 0 THEN AtFirst ELSE Reading[<<P[k - 1], file[k]>>]
  BY <1>1 DEF IsRun
<1>4. Holds(0)
  <2>1. 0 \in 0 .. n
    BY <1>0
  <2>2. P[0] = AtFirst
    BY <1>3, <2>1
  <2>3. P[0].yielded = <<>> /\ ~P[0].warned /\ P[0].expected = 1 /\ Len(<<>>) = 0
    BY <2>2 DEF AtFirst
  <2> HIDE DEF Unbroken
  <2> QED BY <2>3
<1>5. \A k \in Nat : Holds(k) => Holds(k + 1)
  <2> SUFFICES ASSUME NEW k \in Nat, k + 1 <= n, Good(k) PROVE Good(k + 1)
    <3> HIDE DEF Good
    <3> QED BY <1>0
  <2> DEFINE p == P[k]
             q == P[k + 1]
             rec == file[k + 1]
  <2>1. k \in 0 .. n /\ k + 1 \in 0 .. n /\ k + 1 # 0 /\ (k + 1) - 1 = k /\ k + 1 \in 1 .. n
    BY <1>0
  <2>2. p \in Reads /\ rec \in Nat
    BY <1>0, <1>1, <2>1
  <2>3. q = ReadLine(p, rec)
    <3> HIDE DEF Good, Holds, N, Unbroken, n
    <3>1. q = Reading[<<p, rec>>]
      BY <1>3, <2>1
    <3> QED BY <2>2, <3>1, ReadTypes
  <2>4. /\ \A i \in 1 .. Len(p.yielded) : \E l \in 1 .. k : p.yielded[i] = file[l] /\ file[l] # Invalid
        /\ \A i, l \in 1 .. Len(p.yielded) : i < l => p.yielded[i] < p.yielded[l]
        /\ Clean(file) => \A i \in 1 .. Len(p.yielded) : p.yielded[i] = i
        /\ Clean(file) /\ Unbroken(k) => ~p.warned /\ p.expected = k + 1 /\ Len(p.yielded) = k
    <3> HIDE DEF Unbroken
    <3> QED OBVIOUS
  <2>a. Clean(file) => Unbroken(k)
    <3> SUFFICES ASSUME Clean(file), k # 0 PROVE file[k] # Invalid
      OBVIOUS
    <3>1. k \in 1 .. n /\ k # n
      BY <1>0, <2>1
    <3> QED BY <3>1 DEF Clean, Invalid
  <2>5. Clean(file) /\ rec # Invalid => rec = k + 1
    BY <2>1 DEF Clean
  <2>6. \A l \in 1 .. k : file[l] # Invalid /\ rec # Invalid => file[l] < rec
    BY <1>0, <2>1 DEF Ordered
  <2> SUFFICES /\ \A i \in 1 .. Len(q.yielded) :
                    \E l \in 1 .. k + 1 : q.yielded[i] = file[l] /\ file[l] # Invalid
               /\ \A i, l \in 1 .. Len(q.yielded) : i < l => q.yielded[i] < q.yielded[l]
               /\ Clean(file) => \A i \in 1 .. Len(q.yielded) : q.yielded[i] = i
               /\ Clean(file) /\ rec # Invalid =>
                    ~q.warned /\ q.expected = (k + 1) + 1 /\ Len(q.yielded) = k + 1
    OBVIOUS
  <2> HIDE DEF Good, Holds, Unbroken
  <2>7. CASE rec = Invalid
    <3>1. q.yielded = p.yielded /\ ~(rec # Invalid)
      BY <2>2, <2>3, <2>7 DEF ReadLine, Reads, Invalid
    <3>2. \A l \in 1 .. k : l \in 1 .. k + 1
      OBVIOUS
    <3> HIDE DEF p, q, rec
    <3> QED BY <2>4, <3>1, <3>2
  <2>8. CASE rec # Invalid
    <3> DEFINE y == p.yielded
               z == Append(y, rec)
               a == Len(y)
    <3>1. q = [yielded |-> z, expected |-> rec + 1, warned |-> p.warned \/ rec # p.expected]
      BY <2>3, <2>8 DEF ReadLine
    <3> HIDE DEF q
    <3>2. q.yielded = z /\ q.expected = rec + 1 /\ (q.warned => p.warned \/ rec # p.expected)
      BY <3>1
    <3>3. y \in Seq(Nat)
      BY <2>2 DEF Reads
    <3> HIDE DEF p, q, y
    <3>4. /\ a \in Nat /\ Len(z) = a + 1 /\ z[a + 1] = rec
          /\ \A i \in 1 .. a : z[i] = y[i]
      BY <2>2, <3>3
    <3>5. /\ \A i \in 1 .. a : \E l \in 1 .. k : y[i] = file[l] /\ file[l] # Invalid
          /\ \A i, l \in 1 .. a : i < l => y[i] < y[l]
      BY <2>4 DEF y
    <3> HIDE DEF z, a
    <3>6. \A i \in 1 .. a : y[i] < rec
      BY <2>6, <2>8, <3>5
    <3>7. \A i \in 1 .. Len(z) : i \in 1 .. a \/ i = a + 1
      BY <3>4
    <3>8. \A i \in 1 .. Len(z) : \E l \in 1 .. k + 1 : z[i] = file[l] /\ file[l] # Invalid
      <4> SUFFICES ASSUME NEW i \in 1 .. Len(z)
                   PROVE  \E l \in 1 .. k + 1 : z[i] = file[l] /\ file[l] # Invalid
        OBVIOUS
      <4>1. CASE i \in 1 .. a
        BY <3>4, <3>5, <4>1
      <4>2. CASE i = a + 1
        <5>1. k + 1 \in 1 .. k + 1
          OBVIOUS
        <5> QED BY <2>8, <3>4, <4>2, <5>1
      <4> QED BY <3>7, <4>1, <4>2
    <3>9. \A i, l \in 1 .. Len(z) : i < l => z[i] < z[l]
      <4> SUFFICES ASSUME NEW i \in 1 .. Len(z), NEW l \in 1 .. Len(z), i < l PROVE z[i] < z[l]
        OBVIOUS
      <4>1. i \in 1 .. a
        BY <3>4, <3>7
      <4>2. CASE l \in 1 .. a
        BY <3>4, <3>5, <4>1, <4>2
      <4>3. CASE l = a + 1
        BY <3>4, <3>6, <4>1, <4>3
      <4> QED BY <3>7, <4>2, <4>3
    <3>10. Clean(file) => a = k /\ ~q.warned /\ q.expected = (k + 1) + 1
      BY <2>4, <2>5, <2>8, <2>a, <3>2 DEF a, y
    <3>11. Clean(file) => \A i \in 1 .. Len(z) : z[i] = i
      <4> SUFFICES ASSUME Clean(file), NEW i \in 1 .. Len(z) PROVE z[i] = i
        OBVIOUS
      <4>1. CASE i \in 1 .. a
        BY <2>4, <3>4, <4>1 DEF a, y
      <4>2. CASE i = a + 1
        BY <2>5, <2>8, <3>4, <3>10, <4>2
      <4> QED BY <3>7, <4>1, <4>2
    <3> QED BY <3>2, <3>4, <3>8, <3>9, <3>10, <3>11
  <2> QED BY <2>7, <2>8
<1>6. N = Nat
  <2> HIDE DEF Holds
  <2>1. 0 \in N /\ \A k \in N : k + 1 \in N
    BY <1>4, <1>5
  <2> HIDE DEF N
  <2>2. N \in SUBSET Nat
    BY DEF N
  <2> QED BY <2>1, <2>2, NatSetInduction
<1>7. Good(n)
  <2> HIDE DEF Good
  <2>1. Holds(n)
    BY <1>0, <1>6
  <2> QED BY <1>0, <2>1
<1>8. P[n].yielded \in Seq(Nat)
  BY <1>0, <1>1 DEF Reads
<1>9. DOMAIN P[n].yielded = 1 .. Len(P[n].yielded)
  BY <1>8
<1>10. Whole(file) => Clean(file) /\ Unbroken(n)
  BY <1>0 DEF Whole, Clean, Invalid
<1> HIDE DEF Unbroken
<1> QED BY <1>2, <1>7, <1>9, <1>10

-----------------------------------------------------------------------------
(* The service: MIRA's orders, from the records it had when it was told to stop to  *)
(* the sweep's last cancel.                                                        *)
Resting == {o \in owed : place[o] = "landed"}

ServiceTypeOK ==
  /\ proc \in [Children -> {"live", "waiting", "gone"}]
  /\ place \in [Orders -> {"none", "sending", "landed", "gone"}]
  /\ tracked \in SUBSET Orders /\ owed \in SUBSET Orders
  /\ \A o \in tracked \cup owed : place[o] \in {"landed", "gone"}

SweepInv ==
  /\ proc["mira"] = "live" /\ life = "draining" => Resting \subseteq tracked
  /\ proc["mira"] = "live" /\ life \in {"listing", "sweeping"} => Resting \subseteq todo \cup missed
  /\ life = "closed" => Resting \subseteq missed

(* Once told to stop, no poll is due. *)
StopInv == ToldToStop => ~running /\ loop # "armed"

(* The journal is that of a living process, or what one that died left. *)
JournalInv == JInv(journal) \/ (Dead(journal) /\ proc["mira"] # "live")

OpsIInv == ServiceTypeOK /\ JournalInv /\ SweepInv /\ StopInv

(* A journal just opened. *)
LEMMA EmptyJournalWell == JInv(EmptyJournal)
<1>1. /\ EmptyJournal.file = <<>> /\ EmptyJournal.torn = FALSE /\ EmptyJournal.buf = <<>>
      /\ EmptyJournal.armed = FALSE /\ EmptyJournal.seq = 0 /\ EmptyJournal.closed = FALSE
      /\ EmptyJournal.failures = 0 /\ EmptyJournal.died = FALSE
  BY DEF EmptyJournal
<1>2. JournalTypeOK(EmptyJournal)
  <2>1. <<>> \in Seq(Nat) /\ FALSE \in BOOLEAN /\ 0 \in Nat
    OBVIOUS
  <2> QED BY <2>1 DEF JournalTypeOK, EmptyJournal
<1>3. Len(<<>>) = 0 /\ 1 .. 0 = {} /\ 0 - 0 = 0 /\ <<>> \in Seq(Nat)
  OBVIOUS
<1>4. BufferInv(EmptyJournal)
  BY <1>1, <1>3 DEF BufferInv
<1>5. FileInv(EmptyJournal)
  BY <1>1, <1>3 DEF FileInv, Ordered
<1> QED BY <1>1, <1>2, <1>4, <1>5 DEF JInv

LEMMA OpsIInvInit == OpsInit => OpsIInv
<1> SUFFICES ASSUME OpsInit PROVE OpsIInv
  OBVIOUS
<1>1. JournalInv
  BY EmptyJournalWell DEF OpsInit, JournalInv
<1>2. ServiceTypeOK
  BY DEF OpsInit, ServiceTypeOK
<1>3. SweepInv /\ StopInv
  BY DEF OpsInit, SweepInv, StopInv, ToldToStop
<1> QED BY <1>1, <1>2, <1>3 DEF OpsIInv

(* A step of MIRA's leaves its journal well, also its last one. *)
LEMMA JournalStep == OpsIInv /\ [OpsNext]_opsVars => JournalInv'
<1> SUFFICES ASSUME OpsIInv, [OpsNext]_opsVars PROVE JournalInv'
  OBVIOUS
<1> USE DEF OpsIInv, super
<1>0. proc \in [Children -> {"live", "waiting", "gone"}] /\ "mira" \in Children
  BY DEF ServiceTypeOK, Children
<1>1. proc["mira"] = "live" => JInv(journal)
  BY DEF JournalInv
<1>2. ASSUME proc["mira"] = "live", Crashed PROVE Dead(journal')
  <2>1. PICK j \in Unwritten : journal' \in Died(j)
    BY <1>2 DEF Crashed
  <2>2. JInv(j)
    <3>1. j = journal \/ (j = Buffered(journal) /\ ~journal.closed)
      BY DEF Unwritten
    <3> QED BY <1>1, <1>2, <3>1, BufferedKeeps
  <2> QED BY <2>1, <2>2, DiedKeeps
<1>3. CASE UNCHANGED <<proc, journal>>
  BY <1>3 DEF JournalInv
<1>4. CASE Answered
  <2>1. JInv(journal) /\ (journal' = journal \/ journal' \in Appended(journal))
    BY <1>1, <1>4 DEF Answered, Trading
  <2> QED BY <2>1, AppendedKeeps DEF JournalInv
<1>5. CASE JournalTimer
  BY <1>1, <1>5, TimerKeeps DEF JournalTimer, Trading, JournalInv
<1>6. CASE CloseJournal
  BY <1>1, <1>6, ClosedKeeps DEF CloseJournal, Trading, JournalInv
<1>7. ASSUME NEW c \in Children, Die(c) PROVE JournalInv'
  <2>1. proc'[c] # "live" /\ \A d \in Children : d # c => proc'[d] = proc[d]
    BY <1>0, <1>7 DEF Die, Exited
  <2>2. CASE c = "mira"
    BY <1>2, <1>7, <2>1, <2>2 DEF Die, JournalInv
  <2>3. CASE c # "mira"
    BY <1>0, <1>7, <2>1, <2>3 DEF Die, JournalInv
  <2> QED BY <2>2, <2>3
<1>8. ASSUME NEW c \in Children, Restart(c) PROVE JournalInv'
  <2>1. CASE c = "mira" /\ boot = "up"
    BY <1>8, <2>1, EmptyJournalWell DEF Restart, StartChild, JournalInv
  <2>2. CASE c = "mira" /\ boot # "up"
    BY <1>0, <1>8, <2>2 DEF Restart, JournalInv
  <2>3. CASE c # "mira"
    <3>1. proc'["mira"] = proc["mira"] /\ journal' = journal
      BY <1>0, <1>8, <2>3 DEF Restart, StartChild
    <3> QED BY <3>1 DEF JournalInv
  <2> QED BY <2>1, <2>2, <2>3
<1>9. ASSUME NEW c \in Children, Ended(c) PROVE JournalInv'
  <2>1. journal' = journal /\ (proc'["mira"] = "live" => proc["mira"] = "live")
    BY <1>0, <1>9 DEF Ended
  <2> QED BY <2>1 DEF JournalInv
<1>10. CASE EdgeStopped
  <2>1. journal' = journal /\ (proc'["mira"] = "live" => proc["mira"] = "live")
    BY <1>0, <1>10 DEF EdgeStopped
  <2> QED BY <2>1 DEF JournalInv
<1>11. CASE Exit \/ PlatformKill
  <2>1. proc'["mira"] # "live"
    BY <1>0, <1>11 DEF Exit, PlatformKill
  <2>2. CASE "mira" \in Live
    BY <1>2, <1>11, <2>1, <2>2 DEF Exit, PlatformKill, Live, JournalInv
  <2>3. CASE "mira" \notin Live
    <3>1. journal' = journal
      BY <1>11, <2>3 DEF Exit, PlatformKill
    <3> QED BY <2>1, <3>1 DEF JournalInv
  <2> QED BY <2>2, <2>3
<1>12. \/ UNCHANGED <<proc, journal>> \/ Answered \/ JournalTimer \/ CloseJournal
       \/ \E c \in Children : Die(c) \/ Restart(c) \/ Ended(c)
       \/ EdgeStopped \/ Exit \/ PlatformKill
  BY DEF OpsNext, opsVars, Started, PollBegin, Unanswered, OrderLands, OrderGone, Acknowledged,
         SweepCancel, SweepBegin, SweepList, Forgive, Connect, Leave, Signal
<1> QED BY <1>3, <1>4, <1>5, <1>6, <1>7, <1>8, <1>9, <1>10, <1>11, <1>12

(* An order of MIRA's records is on the chain, or was. *)
LEMMA ServiceTypeStep == ServiceTypeOK /\ [OpsNext]_opsVars => ServiceTypeOK'
<1> SUFFICES ASSUME ServiceTypeOK, [OpsNext]_opsVars PROVE ServiceTypeOK'
  OBVIOUS
<1> USE DEF super, chain, memory
<1>0. /\ proc \in [Children -> {"live", "waiting", "gone"}]
      /\ place \in [Orders -> {"none", "sending", "landed", "gone"}]
      /\ tracked \in SUBSET Orders /\ owed \in SUBSET Orders
      /\ \A o \in tracked \cup owed : place[o] \in {"landed", "gone"}
  BY DEF ServiceTypeOK
<1>1. CASE UNCHANGED <<proc, place, tracked, owed>>
  BY <1>0, <1>1 DEF ServiceTypeOK
<1>2. CASE Answered
  <2>1. ASSUME NEW o \in Unsent, place' = [place EXCEPT ![o] = "sending"] PROVE ServiceTypeOK'
    BY <1>0, <1>2, <2>1 DEF Answered, Unsent, ServiceTypeOK
  <2>2. CASE UNCHANGED place
    BY <1>1, <1>2, <2>2 DEF Answered
  <2>3. (\E o \in Unsent : place' = [place EXCEPT ![o] = "sending"]) \/ UNCHANGED place
    BY <1>2 DEF Answered
  <2> QED BY <2>1, <2>2, <2>3
<1>3. ASSUME NEW o \in Orders, OrderLands(o) \/ OrderGone(o) \/ Acknowledged(o) \/ SweepCancel(o)
      PROVE  ServiceTypeOK'
  <2>1. CASE OrderLands(o)
    BY <1>0, <2>1 DEF OrderLands, ServiceTypeOK
  <2>2. CASE OrderGone(o)
    BY <1>0, <2>2 DEF OrderGone, ServiceTypeOK
  <2>3. CASE Acknowledged(o)
    BY <1>0, <2>3 DEF Acknowledged, ServiceTypeOK
  <2>4. CASE SweepCancel(o)
    BY <1>0, <2>4 DEF SweepCancel, ServiceTypeOK
  <2> QED BY <1>3, <2>1, <2>2, <2>3, <2>4
<1>4. ASSUME NEW c \in Children, Die(c) \/ Restart(c) \/ Ended(c) PROVE ServiceTypeOK'
  <2>1. /\ UNCHANGED <<place, owed>> /\ (tracked' = tracked \/ tracked' = {})
    BY <1>4 DEF Die, Crashed, Forgotten, Restart, Ended
  <2>2. proc' \in [Children -> {"live", "waiting", "gone"}]
    BY <1>0, <1>4 DEF Die, Exited, Restart, StartChild, Ended
  <2> QED BY <1>0, <2>1, <2>2 DEF ServiceTypeOK
<1>5. CASE EdgeStopped
  <2>1. UNCHANGED <<place, tracked>> /\ (owed' = tracked \/ owed' = owed)
    BY <1>5 DEF EdgeStopped
  <2>2. proc' \in [Children -> {"live", "waiting", "gone"}]
    BY <1>0, <1>5 DEF EdgeStopped
  <2> QED BY <1>0, <2>1, <2>2 DEF ServiceTypeOK
<1>6. CASE Exit \/ PlatformKill
  <2>1. UNCHANGED <<place, owed>> /\ tracked' = {}
    BY <1>6 DEF Exit, PlatformKill, Crashed, Forgotten
  <2>2. proc' \in [Children -> {"live", "waiting", "gone"}]
    BY <1>6 DEF Exit, PlatformKill
  <2> QED BY <1>0, <2>1, <2>2 DEF ServiceTypeOK
<1>7. \/ UNCHANGED <<proc, place, tracked, owed>> \/ Answered
      \/ \E o \in Orders : OrderLands(o) \/ OrderGone(o) \/ Acknowledged(o) \/ SweepCancel(o)
      \/ \E c \in Children : Die(c) \/ Restart(c) \/ Ended(c)
      \/ EdgeStopped \/ Exit \/ PlatformKill
  BY DEF OpsNext, opsVars, Started, PollBegin, Unanswered, JournalTimer, SweepBegin, SweepList,
         CloseJournal, Forgive, Connect, Leave, Signal
<1> QED BY <1>1, <1>2, <1>3, <1>4, <1>5, <1>6, <1>7

(* What the sweep still owes is never lost sight of while MIRA lives. *)
LEMMA SweepStep == OpsIInv /\ [OpsNext]_opsVars => SweepInv'
<1> SUFFICES ASSUME OpsIInv, [OpsNext]_opsVars PROVE SweepInv'
  OBVIOUS
<1> USE DEF super, chain, memory
<1>0. /\ proc \in [Children -> {"live", "waiting", "gone"}] /\ "mira" \in Children
      /\ place \in [Orders -> {"none", "sending", "landed", "gone"}]
      /\ owed \in SUBSET Orders /\ \A o \in owed : place[o] \in {"landed", "gone"}
  BY DEF OpsIInv, ServiceTypeOK, Children
<1>1. /\ proc["mira"] = "live" /\ life = "draining" => Resting \subseteq tracked
      /\ proc["mira"] = "live" /\ life \in {"listing", "sweeping"} => Resting \subseteq todo \cup missed
      /\ life = "closed" => Resting \subseteq missed
  BY DEF OpsIInv, SweepInv
<1>2. ASSUME Resting' \subseteq Resting, UNCHANGED <<tracked, todo, missed, life>>,
             proc'["mira"] = "live" => proc["mira"] = "live"
      PROVE  SweepInv'
  BY <1>1, <1>2 DEF SweepInv
<1>3. CASE Started
  BY <1>3 DEF Started, SweepInv
<1>4. CASE UNCHANGED <<proc, place, tracked, todo, owed, missed, life>>
  BY <1>1, <1>4 DEF SweepInv, Resting
<1>5. CASE Answered
  <2>1. Resting' \subseteq Resting
    BY <1>0, <1>5 DEF Answered, Resting, Unsent
  <2> QED BY <1>2, <1>5, <2>1 DEF Answered
<1>6. ASSUME NEW o \in Orders, OrderLands(o) PROVE SweepInv'
  <2>1. Resting' \subseteq Resting
    BY <1>0, <1>6 DEF OrderLands, Resting
  <2> QED BY <1>2, <1>6, <2>1 DEF OrderLands
<1>7. ASSUME NEW o \in Orders, OrderGone(o) PROVE SweepInv'
  <2>1. Resting' \subseteq Resting
    BY <1>0, <1>7 DEF OrderGone, Resting
  <2> QED BY <1>2, <1>7, <2>1 DEF OrderGone
<1>8. ASSUME NEW o \in Orders, Acknowledged(o) PROVE SweepInv'
  BY <1>1, <1>8 DEF Acknowledged, SweepInv, Resting
<1>9. ASSUME NEW o \in Orders, SweepCancel(o) PROVE SweepInv'
  <2>1. life = "sweeping" /\ life' = life /\ todo' = todo \ {o} /\ Resting \subseteq todo \cup missed
    BY <1>1, <1>9 DEF SweepCancel, Trading
  <2>2. CASE place' = [place EXCEPT ![o] = "gone"]
    <3>1. Resting' \subseteq Resting \ {o} /\ missed \subseteq missed'
      BY <1>0, <1>9, <2>2 DEF SweepCancel, Resting
    <3> QED BY <2>1, <3>1 DEF SweepInv
  <2>3. CASE missed' = missed \cup {o} /\ UNCHANGED place
    <3>1. Resting' = Resting
      BY <1>9, <2>3 DEF SweepCancel, Resting
    <3> QED BY <2>1, <2>3, <3>1 DEF SweepInv
  <2> QED BY <1>9, <2>2, <2>3 DEF SweepCancel
<1>10. CASE SweepBegin
  BY <1>1, <1>10 DEF SweepBegin, Trading, Targets, SweepInv, Resting
<1>11. CASE SweepList
  BY <1>1, <1>11 DEF SweepList, Trading, SweepInv, Resting
<1>12. CASE CloseJournal
  BY <1>1, <1>12 DEF CloseJournal, Trading, SweepInv, Resting
<1>13. ASSUME NEW c \in Children, Die(c) PROVE SweepInv'
  <2>0. proc'[c] # "live" /\ \A d \in Children : d # c => proc'[d] = proc[d]
    BY <1>0, <1>13 DEF Die, Exited
  <2>1. Resting' = Resting /\ UNCHANGED <<life, missed>>
    BY <1>13 DEF Die, Resting
  <2>2. CASE c = "mira"
    BY <1>1, <2>0, <2>1, <2>2 DEF SweepInv
  <2>3. CASE c # "mira"
    BY <1>0, <1>2, <1>13, <2>0, <2>1, <2>3 DEF Die
  <2> QED BY <2>2, <2>3
<1>14. ASSUME NEW c \in Children, Restart(c) PROVE SweepInv'
  <2>1. Resting' = Resting /\ UNCHANGED <<tracked, todo, missed>>
    BY <1>14 DEF Restart, Resting
  <2>2. CASE life' = "booting"
    BY <2>2 DEF SweepInv
  <2>3. CASE life' = life /\ (proc'["mira"] = "live" => proc["mira"] = "live")
    BY <1>2, <2>1, <2>3
  <2>4. life' = "booting" \/ (life' = life /\ (proc'["mira"] = "live" => proc["mira"] = "live"))
    BY <1>0, <1>14 DEF Restart, StartChild
  <2> QED BY <2>2, <2>3, <2>4
<1>15. ASSUME NEW c \in Children, Ended(c) PROVE SweepInv'
  <2>1. Resting' = Resting /\ UNCHANGED <<life, missed>> /\ proc'[c] # "live"
        /\ \A d \in Children : d # c => proc'[d] = proc[d]
    BY <1>0, <1>15 DEF Ended, Resting
  <2>2. CASE c = "mira"
    BY <1>1, <2>1, <2>2 DEF SweepInv
  <2>3. CASE c # "mira"
    BY <1>0, <1>2, <1>15, <2>1, <2>3 DEF Ended, feed
  <2> QED BY <2>2, <2>3
<1>16. CASE EdgeStopped
  <2>1. CASE life' = "draining" /\ owed' = tracked
    BY <1>16, <2>1 DEF EdgeStopped, SweepInv, Resting
  <2>2. CASE UNCHANGED <<life, owed>> /\ (proc'["mira"] = "live" => proc["mira"] = "live")
    <3>1. Resting' = Resting
      BY <1>16, <2>2 DEF EdgeStopped, Resting
    <3> QED BY <1>2, <1>16, <2>2, <3>1 DEF EdgeStopped
  <2>3. \/ life' = "draining" /\ owed' = tracked
        \/ UNCHANGED <<life, owed>> /\ (proc'["mira"] = "live" => proc["mira"] = "live")
    BY <1>0, <1>16 DEF EdgeStopped
  <2> QED BY <2>1, <2>2, <2>3
<1>17. CASE Exit \/ PlatformKill
  <2>1. Resting' = Resting /\ UNCHANGED <<life, missed>> /\ proc'["mira"] # "live"
    BY <1>0, <1>17 DEF Exit, PlatformKill, Resting
  <2> QED BY <1>1, <2>1 DEF SweepInv
<1>18. \/ UNCHANGED <<proc, place, tracked, todo, owed, missed, life>>
       \/ Started \/ Answered \/ SweepBegin \/ SweepList \/ CloseJournal
       \/ \E o \in Orders : OrderLands(o) \/ OrderGone(o) \/ Acknowledged(o) \/ SweepCancel(o)
       \/ \E c \in Children : Die(c) \/ Restart(c) \/ Ended(c)
       \/ EdgeStopped \/ Exit \/ PlatformKill
  BY DEF OpsNext, opsVars, PollBegin, Unanswered, JournalTimer, Forgive, Connect, Leave, Signal
<1> QED BY <1>3, <1>4, <1>5, <1>6, <1>7, <1>8, <1>9, <1>10, <1>11, <1>12, <1>13, <1>14, <1>15,
           <1>16, <1>17, <1>18

(* A stopped ingester stays stopped, whatever it was doing. *)
LEMMA StopStep == StopInv /\ [OpsNext]_opsVars => StopInv'
<1> SUFFICES ASSUME StopInv, [OpsNext]_opsVars PROVE StopInv'
  OBVIOUS
<1> USE DEF feed, super, StopInv, ToldToStop
<1>1. CASE Started
  BY <1>1 DEF Started
<1>2. CASE PollBegin
  BY <1>2 DEF PollBegin
<1>3. CASE Answered \/ Unanswered
  BY <1>3 DEF Answered, Unanswered, Proceed
<1>4. CASE SweepBegin \/ SweepList \/ CloseJournal
  BY <1>4 DEF SweepBegin, SweepList, CloseJournal
<1>5. ASSUME NEW c \in Children, Die(c) \/ Restart(c) \/ Ended(c) PROVE StopInv'
  BY <1>5 DEF Die, Crashed, Forgotten, Restart, StartChild, Ended
<1>6. CASE EdgeStopped
  BY <1>6 DEF EdgeStopped
<1>7. CASE Exit \/ PlatformKill
  BY <1>7 DEF Exit, PlatformKill, Crashed, Forgotten
<1>8. CASE UNCHANGED <<life, feed>>
  BY <1>8
<1>9. \/ Started \/ PollBegin \/ Answered \/ Unanswered \/ SweepBegin \/ SweepList \/ CloseJournal
      \/ \E c \in Children : Die(c) \/ Restart(c) \/ Ended(c)
      \/ EdgeStopped \/ Exit \/ PlatformKill \/ UNCHANGED <<life, feed>>
  BY DEF OpsNext, opsVars, JournalTimer, OrderLands, OrderGone, Acknowledged, SweepCancel, Forgive,
         Connect, Leave, Signal
<1> QED BY <1>1, <1>2, <1>3, <1>4, <1>5, <1>6, <1>7, <1>8, <1>9

LEMMA OpsIInvNext == OpsIInv /\ [OpsNext]_opsVars => OpsIInv'
BY JournalStep, ServiceTypeStep, SweepStep, StopStep DEF OpsIInv

(* OpsIInv is an inductive invariant of the service: its journal, the orders its sweep
   owes, and its stopped ingester. *)
THEOREM OpsInductive == OpsSpec => []OpsIInv
BY OpsIInvInit, OpsIInvNext, PTL DEF OpsSpec

(* The invariant says of a living journal what JournalFaithful promises. *)
LEMMA LivingReadsWell == ASSUME JInv(journal) PROVE JournalFaithful
<1> DEFINE j == journal
           r == Replayed(j.file)
           accepted == j.file \o j.buf
<1>1. /\ j.file \in Seq(Nat) /\ j.buf \in Seq(Nat) /\ j.seq \in Nat /\ j.failures \in Nat
      /\ Len(j.buf) <= j.seq /\ Ordered(j.file, j.seq - Len(j.buf))
  BY DEF JInv, JournalTypeOK, BufferInv, FileInv
<1>2. /\ \A i, k \in DOMAIN r.yielded : i < k => r.yielded[i] < r.yielded[k]
      /\ Clean(j.file) => \A i \in DOMAIN r.yielded : r.yielded[i] = i
      /\ Whole(j.file) => ~r.warned
  BY <1>1, ReplayFaithful
<1>3. j.failures = 0 => Whole(j.file) /\ Clean(j.file)
  BY DEF JInv, FileInv, Whole, Clean
<1>4. ASSUME j.failures = 0
      PROVE  /\ accepted = [i \in 1 .. Len(accepted) |-> i]
             /\ ~j.closed => Len(accepted) = j.seq
  <2> DEFINE f == j.file
             g == j.buf
             a == Len(f)
             b == Len(g)
  <2>1. /\ f \in Seq(Nat) /\ g \in Seq(Nat) /\ accepted = f \o g
        /\ \A i \in 1 .. a : f[i] = i
        /\ ~j.closed => a = j.seq - b /\ \A i \in 1 .. b : g[i] = a + i
    BY <1>1, <1>4 DEF JInv, FileInv, BufferInv
  <2>2. j.closed => g = <<>> /\ b = 0
    BY DEF JInv, BufferInv
  <2>3. b <= j.seq /\ j.seq \in Nat
    BY <1>1
  <2> HIDE DEF f, g, accepted
  <2>4. /\ Len(accepted) = a + b /\ a \in Nat /\ b \in Nat
        /\ \A i \in 1 .. a : accepted[i] = f[i]
        /\ \A i \in 1 .. Len(accepted) : i > a => accepted[i] = g[i - a] /\ i - a \in 1 .. b
    BY <2>1, Concatenated
  <2>5. accepted \in Seq(Nat)
    BY <2>1
  <2> HIDE DEF a, b
  <2>6. \A i \in 1 .. Len(accepted) : accepted[i] = i
    <3> SUFFICES ASSUME NEW i \in 1 .. Len(accepted) PROVE accepted[i] = i
      OBVIOUS
    <3>1. CASE i <= a
      BY <2>1, <2>4, <3>1
    <3>2. CASE i > a
      <4>1. i - a \in 1 .. b /\ accepted[i] = g[i - a]
        BY <2>4, <3>2
      <4>2. ~j.closed
        BY <2>2, <2>4, <4>1
      <4>3. g[i - a] = a + (i - a)
        BY <2>1, <4>1, <4>2
      <4> QED BY <2>4, <4>1, <4>3
    <3> QED BY <2>4, <3>1, <3>2
  <2>7. accepted = [i \in 1 .. Len(accepted) |-> i]
    BY <2>5, <2>6
  <2>8. ~j.closed => Len(accepted) = j.seq
    BY <2>1, <2>3, <2>4
  <2> QED BY <2>7, <2>8
<1>5. j.closed => j.buf = <<>>
  BY DEF JInv, BufferInv
<1>6. \/ ~r.warned
      \/ j.failures > 0
  BY <1>1, <1>2, <1>3
<1> HIDE DEF r, accepted
<1> QED BY <1>2, <1>3, <1>4, <1>5, <1>6 DEF JournalFaithful, r, accepted

(* And so it says of what a death left. *)
LEMMA DeadReadsWell == ASSUME Dead(journal) PROVE JournalFaithful
<1> DEFINE j == journal
           r == Replayed(j.file)
<1>1. /\ j.seq \in Nat /\ j.failures \in Nat /\ Ordered(j.file, j.seq) /\ j.died /\ j.buf = <<>>
      /\ j.failures = 0 => Clean(j.file) /\ (j.torn \/ Whole(j.file))
  BY DEF Dead, JournalTypeOK
<1>2. /\ \A i, k \in DOMAIN r.yielded : i < k => r.yielded[i] < r.yielded[k]
      /\ Clean(j.file) => \A i \in DOMAIN r.yielded : r.yielded[i] = i
      /\ Whole(j.file) => ~r.warned
  BY <1>1, ReplayFaithful
<1>3. ~r.warned \/ j.failures > 0 \/ j.torn
  BY <1>1, <1>2
<1> HIDE DEF r
<1> QED BY <1>1, <1>2, <1>3 DEF JournalFaithful, r

(* Whatever batches, timers, failed writes, close() and crashes, in a write or between
   two, do: a replay yields the records in order, without a gap until a write fails,
   warns of nothing else than a failed write or the piece a crash left, and until then
   file and buffer of a living process hold everything (data/journal.ts). *)
THEOREM JournalAlwaysFaithful == OpsSpec => []JournalFaithful
<1>1. OpsIInv => JournalFaithful
  BY LivingReadsWell, DeadReadsWell DEF OpsIInv, JournalInv
<1> QED BY <1>1, OpsInductive, PTL

(* A service that stopped without killing anything, MIRA having lived through its own
   shutdown, leaves no order on the chain that was on MIRA's records when it was told
   to stop, except those whose cancel failed (ops/boot.ts and main.ts shutdown). *)
THEOREM StopSweeps == OpsSpec => []OrderlyStopSweeps
<1>1. OpsIInv => OrderlyStopSweeps
  <2> SUFFICES ASSUME OpsIInv, life = "closed", NEW o \in owed, place[o] = "landed"
               PROVE  o \in missed
    BY DEF OrderlyStopSweeps
  <2>1. o \in Resting
    BY DEF Resting
  <2> QED BY <2>1 DEF OpsIInv, SweepInv
<1> QED BY <1>1, OpsInductive, PTL

(* Once the service is stopping no child comes back, however many restarts were due, and
   once MIRA was told to stop none of its polls begins (ops/boot.ts start, ingester.ts). *)
THEOREM StopsForGood == OpsSpec => StopIsFinal
<1>1. ASSUME OpsIInv, [OpsNext]_opsVars
      PROVE  /\ boot # "up" => \A c \in Children : proc'[c] = "live" => proc[c] = "live"
             /\ ToldToStop => (loop' = "reading" => loop = "reading")
  <2> USE DEF super, feed
  <2>0. proc \in [Children -> {"live", "waiting", "gone"}]
    BY <1>1 DEF OpsIInv, ServiceTypeOK
  <2>1. boot # "up" => \A c \in Children : proc'[c] = "live" => proc[c] = "live"
    <3>1. ASSUME NEW c \in Children, Die(c) \/ Restart(c) \/ Ended(c), boot # "up"
          PROVE  \A d \in Children : proc'[d] = "live" => proc[d] = "live"
      BY <2>0, <3>1 DEF Die, Exited, Restart, Ended
    <3>2. CASE EdgeStopped \/ Exit \/ PlatformKill
      BY <2>0, <3>2 DEF EdgeStopped, Exit, PlatformKill
    <3>3. CASE UNCHANGED proc
      BY <3>3
    <3>4. \/ \E c \in Children : Die(c) \/ Restart(c) \/ Ended(c)
          \/ EdgeStopped \/ Exit \/ PlatformKill \/ UNCHANGED proc
      BY <1>1 DEF OpsNext, opsVars, Started, PollBegin, Answered, Unanswered, JournalTimer,
                  OrderLands, OrderGone, Acknowledged, SweepCancel, SweepBegin, SweepList,
                  CloseJournal, Forgive, Connect, Leave, Signal
    <3> QED BY <3>1, <3>2, <3>3, <3>4
  <2>2. ToldToStop => (loop' = "reading" => loop = "reading")
    <3> SUFFICES ASSUME ToldToStop, loop # "reading" PROVE loop' # "reading"
      OBVIOUS
    <3>0. loop # "armed" /\ life # "booting"
      BY <1>1 DEF OpsIInv, StopInv, ToldToStop
    <3>1. ASSUME NEW c \in Children, Die(c) \/ Restart(c) \/ Ended(c) PROVE loop' # "reading"
      BY <3>1 DEF Die, Crashed, Forgotten, Restart, Ended
    <3>2. CASE EdgeStopped \/ Exit \/ PlatformKill
      BY <3>2 DEF EdgeStopped, Exit, PlatformKill, Crashed, Forgotten
    <3>3. CASE UNCHANGED loop
      BY <3>3
    <3>4. \/ \E c \in Children : Die(c) \/ Restart(c) \/ Ended(c)
          \/ EdgeStopped \/ Exit \/ PlatformKill \/ UNCHANGED loop
      BY <1>1, <3>0 DEF OpsNext, opsVars, Started, PollBegin, Answered, Unanswered, JournalTimer,
                  OrderLands, OrderGone, Acknowledged, SweepCancel, SweepBegin, SweepList,
                  CloseJournal, Forgive, Connect, Leave, Signal
    <3> QED BY <3>1, <3>2, <3>3, <3>4
  <2> QED BY <2>1, <2>2
<1> QED BY <1>1, OpsInductive, PTL DEF OpsSpec, StopIsFinal
=============================================================================
