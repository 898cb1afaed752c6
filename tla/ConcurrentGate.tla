--------------------------- MODULE ConcurrentGate ---------------------------
(***************************************************************************)
(* The concurrency-limited lane in front of the indexer (limit 1) and of the *)
(* RPC node (limit 4): packages/venue/src/gate.ts.                          *)
(*                                                                          *)
(* Waking a waiter only schedules it: it runs again as a microtask, after    *)
(* whatever was scheduled before it, and that may be another run().         *)
(***************************************************************************)
EXTENDS Integers, Sequences, FiniteSets, SequencesExt

CONSTANTS Calls,       \* calls of run(); each is made once (bounds them)
          Requested    \* the limit the constructor is given

ASSUME GateAssumption == Requested \in Int

VARIABLES state,       \* call -> "idle", "waiting", "running" or "done"
          active,      \* tasks in flight, as the gate counts them
          queue,       \* waiting calls, oldest first
          woken,       \* calls whose resume is scheduled, in that order
          ahead,       \* [Calls -> calls scheduled to resume when it started]
          overtakers   \* history: calls that started past a woken one

gateVars == <<state, active, queue, woken, ahead, overtakers>>

(* A limit below 1 is taken as 1. *)
Limit == IF Requested < 1 THEN 1 ELSE Requested

GateInit == /\ state = [c \in Calls |-> "idle"]
            /\ active = 0
            /\ queue = <<>>
            /\ woken = <<>>
            /\ ahead = [c \in Calls |-> {}]
            /\ overtakers = {}

-----------------------------------------------------------------------------
(* The slot is taken and fn() is called.  Its completion is a microtask too, *)
(* behind those already scheduled.                                          *)
Start(c) == /\ active' = active + 1
            /\ state' = [state EXCEPT ![c] = "running"]

(* run() when every slot is taken: wait in line. *)
RunWaits(c) == /\ state[c] = "idle"
               /\ active >= Limit
               /\ state' = [state EXCEPT ![c] = "waiting"]
               /\ queue' = Append(queue, c)
               /\ UNCHANGED <<active, woken, ahead, overtakers>>

(* run() with a slot free: start at once, overtaking anyone just woken. *)
RunStarts(c) == /\ state[c] = "idle"
                /\ active < Limit
                /\ Start(c)
                /\ ahead' = [ahead EXCEPT ![c] = ToSet(woken)]
                /\ overtakers' = IF woken = <<>> THEN overtakers ELSE overtakers \cup {c}
                /\ UNCHANGED <<queue, woken>>

(* A woken call runs on, without looking at `active` again. *)
Resume == /\ woken # <<>>
          /\ Start(Head(woken))
          /\ woken' = Tail(woken)
          /\ ahead' = [ahead EXCEPT ![Head(woken)] = ToSet(Tail(woken))]
          /\ UNCHANGED <<queue, overtakers>>

(* Mutants of WakeNext: a task that throws skips the wake-up; everyone who   *)
(* waits is woken.                                                          *)
WakeUnlessThrown == \/ UNCHANGED <<queue, woken>>
                    \/ /\ queue # <<>>
                       /\ queue' = Tail(queue)
                       /\ woken' = Append(woken, Head(queue))

WakeAll == queue' = <<>> /\ woken' = woken \o queue

(* queue.shift()?.() *)
WakeNext == IF queue = <<>>
            THEN UNCHANGED <<queue, woken>>
            ELSE queue' = Tail(queue) /\ woken' = Append(woken, Head(queue))

(* fn() settled, either way: the finally block frees the slot and wakes the  *)
(* next waiter.                                                             *)
Finish(c) == /\ state[c] = "running"
             /\ ahead[c] \cap ToSet(woken) = {}
             /\ active' = active - 1
             /\ state' = [state EXCEPT ![c] = "done"]
             /\ WakeNext
             /\ UNCHANGED <<ahead, overtakers>>

-----------------------------------------------------------------------------
Running == {c \in Calls : state[c] = "running"}

(* What is in flight, with the wake-ups under way, exceeds the limit by at    *)
(* most one task per call that overtook a woken one (gate.ts:21-34).  The    *)
(* excess stays in the lane for as long as calls are waiting.               *)
OverrunOnlyByOvertaking ==
  Cardinality(Running) + Len(woken) <= Limit + Cardinality(overtakers)

(* Every call that waits gets to run, overtaken or not (gate.ts:21-27). *)
EveryWaiterRuns == \A c \in Calls : state[c] = "waiting" ~> state[c] = "done"

(* "a limit of 1 is strictly serial (the indexer lane)"                      *)
(* (__tests__/gate.test.ts:30): never more in flight than the limit.        *)
(* The code does not keep this: see the README.                             *)
WithinLimit == Cardinality(Running) <= Limit
=============================================================================
