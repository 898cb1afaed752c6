---------------------------- MODULE VirtualClock ----------------------------
(***************************************************************************)
(* The deterministic clock of the simulation (VirtualClock in shared's     *)
(* clock.ts).  Time moves only inside advanceTo(), which runs every timer  *)
(* that comes due at its own due time, the earliest first and, among equal *)
(* due times, the first one armed.  A callback may arm further timers: one *)
(* that is due within the same advance runs in it.  Nothing else of the    *)
(* program runs while the clock advances, because the advance is one       *)
(* synchronous call.                                                       *)
(*                                                                         *)
(* The timers are kept in the order of their `seq`, so the sequence is the *)
(* tie-break.  No caller in the program arms an interval on this clock.    *)
(***************************************************************************)
EXTENDS Naturals, Integers, Sequences

CONSTANT Stops      \* the instants the driver may advance to

ASSUME StopsAssumption == Stops \subseteq Nat

VARIABLES
  now,              \* `t`
  target,           \* the end of the advance under way, Unset outside one
  timers            \* armed timers, as [due, job], in the order of their seq

clockVars == <<now, target, timers>>

Unset == -1

ClockInit == now = 0 /\ target = Unset /\ timers = <<>>

\* The program itself runs only between two advances or inside a callback.
Still == target = Unset

\* setTimeout: the timer queues behind every timer armed before it.
Timer(delay, job) == [due |-> now + delay, job |-> job]
Armed(ts, delay, job) == Append(ts, Timer(delay, job))

\* The timer the advance runs next, if any is due by its end.
Due(i) ==
  /\ i \in DOMAIN timers
  /\ timers[i].due <= target
  /\ \A j \in DOMAIN timers :
       \/ timers[i].due < timers[j].due
       \/ timers[i].due = timers[j].due /\ i <= j

AdvanceTo(t) ==
  /\ Still
  /\ t \in Stops /\ t >= now
  /\ target' = t
  /\ UNCHANGED <<now, timers>>

\* What is left in the table once timer i has been taken out of it.
Without(i) == [k \in 1..(Len(timers) - 1) |-> timers[IF k < i THEN k ELSE k + 1]]

AdvanceEnd ==
  /\ ~Still
  /\ \A i \in DOMAIN timers : ~Due(i)
  /\ now' = target
  /\ target' = Unset
  /\ UNCHANGED timers
=============================================================================
