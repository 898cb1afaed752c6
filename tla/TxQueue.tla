------------------------------ MODULE TxQueue ------------------------------
(***************************************************************************)
(* The serialized transaction queue and its nonce manager                   *)
(* (packages/venue/src/txqueue.ts), with the signer's chain as environment. *)
(*                                                                          *)
(* A submission is chained onto the promise of the one before it (`tail`),  *)
(* so `line` is that chain.  Between two of the actions below the event     *)
(* loop may run anything else.  The task's own promise (`run`) belongs to   *)
(* the caller: a timeout abandons it, it does not stop it.                  *)
(***************************************************************************)
EXTENDS Naturals, Sequences, FiniteSets

CONSTANTS
  Ids,         \* clientOrderIds; a repeat of one is the same intent
  None,        \* "no nonce": NonceManager.next before the first chain read
  TimeoutOn,   \* timeoutMs > 0 (the default is 30 s; 0 switches it off)
  MaxCount     \* bound of the model: foreign writes stop at this count

ASSUME TxQueueAssumption == /\ None \notin Nat
                            /\ TimeoutOn \in BOOLEAN
                            /\ MaxCount \in Nat

VARIABLES
  line,        \* submissions in order: results' keys, each chained on the last
  phase,       \* [Ids -> Phase]: how far the promise chain has come for an id
  retried,     \* ids whose attempt is the second one (isRetry)
  nonce,       \* [Ids -> the nonce of the last attempt, or None]
  next,        \* NonceManager.next
  pending      \* NonceManager.pending

VARIABLES      \* the world outside the queue
  run,         \* [Ids -> RunState]: the promise task.run(nonce) returned
  count,       \* the signer's transaction count on the chain
  reported     \* ids onError was called for

qvars == <<line, phase, retried, nonce, next, pending>>
vars  == <<line, phase, retried, nonce, next, pending, run, count, reported>>

(* "reserve" awaits nonces.reserve(), "run" awaits withTimeout(task.run()),  *)
(* "resync" awaits nonces.resync().                                         *)
Settled   == {"ok", "failed"}
Executing == {"reserve", "run", "resync"}
Phase     == {"new", "queued"} \cup Executing \cup Settled

(* "sent": outstanding, no effect yet; "landed": outstanding and its write   *)
(* has taken effect on the chain.                                           *)
RunState == {"none", "sent", "landed"}

TypeOK == /\ line \in Seq(Ids)
          /\ phase \in [Ids -> Phase]
          /\ retried \in SUBSET Ids
          /\ nonce \in [Ids -> Nat \cup {None}]
          /\ next \in Nat \cup {None}
          /\ pending \in SUBSET Nat
          /\ run \in [Ids -> RunState]
          /\ count \in Nat
          /\ reported \in SUBSET Ids

Init == /\ line = <<>>
        /\ phase = [id \in Ids |-> "new"]
        /\ retried = {}
        /\ nonce = [id \in Ids |-> None]
        /\ next = None
        /\ pending = {}
        /\ run = [id \in Ids |-> "none"]
        /\ count = 0
        /\ reported = {}

-----------------------------------------------------------------------------
(* NonceManager.                                                            *)

(* reserve(), once `next` is known: a synchronous read-and-increment. *)
Hand(id, n) == /\ nonce' = [nonce EXCEPT ![id] = n]
               /\ next' = n + 1
               /\ pending' = pending \cup {n}

(* Mutant of Confirm: success gives the nonce back as a failure would. *)
ConfirmReturns(n) == /\ pending' = pending \ {n}
                     /\ next' = n

(* confirm(n) *)
Confirm(n) == /\ pending' = pending \ {n}
              /\ UNCHANGED next

(* Mutants of Release: the guard's "- 1" applied twice; the counter kept. *)
ReleaseTooFar(n) == /\ pending' = pending \ {n}
                    /\ next' = IF next = n + 1 THEN n - 1 ELSE next

ReleaseKeeps(n) == /\ pending' = pending \ {n}
                   /\ UNCHANGED next

(* release(n): handed back only if it was the newest. *)
Release(n) == /\ pending' = pending \ {n}
              /\ next' = IF next = n + 1 THEN n ELSE next

-----------------------------------------------------------------------------
(* TxQueue.submit: the re-entrancy guard and the dedupe map turn every       *)
(* repeat of an id away, so only a first submission changes the queue.      *)
Submit(id) == /\ phase[id] = "new"
              /\ phase' = [phase EXCEPT ![id] = "queued"]
              /\ line' = Append(line, id)
              /\ UNCHANGED <<retried, nonce, next, pending, run, count, reported>>

(* Mutant of Execute: a submission that does not wait for the tail. *)
ExecuteEagerly(i) == /\ phase[line[i]] = "queued"
                     /\ phase' = [phase EXCEPT ![line[i]] = "reserve"]
                     /\ UNCHANGED <<line, retried, nonce, next, pending, run, count, reported>>

(* execute(): the predecessor's promise has settled, either way. *)
Execute(i) == /\ phase[line[i]] = "queued"
              /\ i > 1 => phase[line[i - 1]] \in Settled
              /\ phase' = [phase EXCEPT ![line[i]] = "reserve"]
              /\ UNCHANGED <<line, retried, nonce, next, pending, run, count, reported>>

(* attempt(): reserve a nonce (the first reserve reads the chain) and call   *)
(* task.run with it, all in one continuation.                               *)
Reserve(id) == /\ phase[id] = "reserve"
               /\ Hand(id, IF next = None THEN count ELSE next)
               /\ phase' = [phase EXCEPT ![id] = "run"]
               /\ run' = [run EXCEPT ![id] = "sent"]
               /\ UNCHANGED <<line, retried, count, reported>>

(* reserve() is outside attempt()'s try: a failed first read rejects the     *)
(* submission without counting it or calling onError.                       *)
ReserveFails(id) == /\ phase[id] = "reserve"
                    /\ next = None
                    /\ phase' = [phase EXCEPT ![id] = "failed"]
                    /\ UNCHANGED <<line, retried, nonce, next, pending, run, count, reported>>

(* The run resolves within its time: confirm, completed++. *)
Complete(id) == /\ phase[id] = "run"
                /\ run[id] = "landed"
                /\ Confirm(nonce[id])
                /\ phase' = [phase EXCEPT ![id] = "ok"]
                /\ run' = [run EXCEPT ![id] = "none"]
                /\ UNCHANGED <<line, retried, nonce, count, reported>>

(* The catch block, for an error that is final: release, failed++, onError. *)
FailTerminally(id) == /\ Release(nonce[id])
                      /\ phase' = [phase EXCEPT ![id] = "failed"]
                      /\ reported' = reported \cup {id}
                      /\ UNCHANGED <<line, retried, nonce, count>>

(* The run rejects.  The write may have landed all the same, its receipt     *)
(* lost.  A second nonce clash is as final as any other error.              *)
RunRejects(id) == /\ phase[id] = "run"
                  /\ FailTerminally(id)
                  /\ run' = [run EXCEPT ![id] = "none"]

(* The first nonce clash: release, retried++, then resync. *)
RunClashes(id) == /\ phase[id] = "run"
                  /\ id \notin retried
                  /\ Release(nonce[id])
                  /\ retried' = retried \cup {id}
                  /\ phase' = [phase EXCEPT ![id] = "resync"]
                  /\ run' = [run EXCEPT ![id] = "none"]
                  /\ UNCHANGED <<line, nonce, count, reported>>

(* Mutant of Timeout: only the first attempt is covered by the timer. *)
TimeoutFirstOnly(id) == /\ TimeoutOn
                        /\ phase[id] = "run"
                        /\ id \notin retried
                        /\ FailTerminally(id)
                        /\ UNCHANGED run

(* withTimeout's timer wins.  Its error is no clash, so it is final; the run *)
(* itself goes on, and whatever it answers later is ignored.                *)
Timeout(id) == /\ TimeoutOn
               /\ phase[id] = "run"
               /\ FailTerminally(id)
               /\ UNCHANGED run

(* resync(): adopt the chain's count, forget every reservation, try again. *)
Resync(id) == /\ phase[id] = "resync"
              /\ next' = count
              /\ pending' = {}
              /\ phase' = [phase EXCEPT ![id] = "reserve"]
              /\ UNCHANGED <<line, retried, nonce, run, count, reported>>

(* The re-read fails: thrown from the catch block, so neither counted nor    *)
(* reported.                                                                *)
ResyncFails(id) == /\ phase[id] = "resync"
                   /\ phase' = [phase EXCEPT ![id] = "failed"]
                   /\ UNCHANGED <<line, retried, nonce, next, pending, run, count, reported>>

-----------------------------------------------------------------------------
(* The environment.                                                         *)

(* An outstanding run's transaction takes effect. *)
Land(id) == /\ run[id] = "sent"
            /\ run' = [run EXCEPT ![id] = "landed"]
            /\ count' = count + 1
            /\ UNCHANGED <<line, phase, retried, nonce, next, pending, reported>>

(* An abandoned run finally settles; nobody is listening. *)
LateAnswer(id) == /\ phase[id] \in Settled
                  /\ run[id] # "none"
                  /\ run' = [run EXCEPT ![id] = "none"]
                  /\ UNCHANGED <<line, phase, retried, nonce, next, pending, count, reported>>

(* Something else signs with the same key (cancelAll goes round the queue). *)
ForeignWrite == /\ count < MaxCount
                /\ count' = count + 1
                /\ UNCHANGED <<line, phase, retried, nonce, next, pending, run, reported>>

-----------------------------------------------------------------------------
(* What the queue does for an id it is executing, without the task's help:   *)
(* chain reads settle (the transport times out after 8 s) and so does the   *)
(* queue's own timer.                                                       *)
QueueStep == \/ \E i \in DOMAIN line : Execute(i)
             \/ \E id \in Ids : \/ Reserve(id)
                                \/ Timeout(id)
                                \/ Resync(id)

Next == \/ QueueStep
        \/ ForeignWrite
        \/ \E id \in Ids : \/ Submit(id)
                           \/ ReserveFails(id)
                           \/ Complete(id)
                           \/ RunRejects(id)
                           \/ RunClashes(id)
                           \/ ResyncFails(id)
                           \/ Land(id)
                           \/ LateAnswer(id)

Spec == Init /\ [][Next]_vars /\ WF_vars(QueueStep)

-----------------------------------------------------------------------------
(* The queue implements SerialExecutor.                                     *)
Seen(p) == IF p = "queued" THEN "waiting" ELSE IF p \in Executing THEN "running" ELSE p

AbstractStatus == [id \in Ids |-> Seen(phase[id])]

Serial == INSTANCE SerialExecutor WITH status <- AbstractStatus

(* Submissions execute one at a time, in order, get one answer each, and a   *)
(* task that hangs does not stop those behind it (txqueue.ts:173-206).      *)
ImplementsSerialExecutor == Serial!ASpec

(* Two transactions that succeeded never carried the same nonce, whatever    *)
(* was released, timed out or resynced in between (txqueue.ts:33-40).       *)
SucceededNoncesDistinct ==
  \A a, b \in Ids : a # b /\ phase[a] = "ok" /\ phase[b] = "ok" => nonce[a] # nonce[b]

(* Between attempts the next nonce is never above the chain's count: no gap  *)
(* is left for later transactions to wait behind (txqueue.ts:18-19).        *)
NoNonceGap == (\A id \in Ids : phase[id] # "run") /\ next # None => next <= count

(* The only runs that can overlap the one the queue awaits are runs whose    *)
(* submission was already answered with a timeout (txqueue.ts:252-265).     *)
OnlyAbandonedRunsOverlap ==
  \A a, b \in Ids : a # b /\ run[a] # "none" /\ run[b] # "none"
                      => phase[a] = "failed" \/ phase[b] = "failed"

(* The header's "one key, one queue, strictly one in flight"                 *)
(* (txqueue.ts:9-10): at most one task is outstanding at any time.          *)
(* The code does not keep this: see the README.                             *)
OneWriteInFlight ==
  \A a, b \in Ids : run[a] # "none" /\ run[b] # "none" => a = b
=============================================================================
