---------------------------- MODULE SignalEngine ----------------------------
(***************************************************************************)
(* SignalEngine (packages/core/src/signal.ts): whether to act on a           *)
(* valuation.  A market that has been entered stays latched until its edge   *)
(* falls below the exit threshold or the valuation is skipped.              *)
(*                                                                          *)
(* An edge is the band of the thresholds it lies in.                        *)
(***************************************************************************)
EXTENDS RiskConfig

VARIABLES
  engaged,         \* [Markets -> BOOLEAN], the latches
  cooldownUntil    \* [Markets -> time]

signalVars == <<engaged, cooldownUntil>>

(* No valuation; below edgeOut; between; above edgeIn and the floor, with a  *)
(* side to take.                                                            *)
Edge == {"skip", "low", "mid", "high"}

Action == {"SKIP", "STAND_DOWN", "HOLD", "ENTER"}

SignalTypeOK == /\ engaged \in [Markets -> BOOLEAN]
                /\ cooldownUntil \in [Markets -> Int]

SignalInit == /\ engaged = [m \in Markets |-> FALSE]
              /\ cooldownUntil = [m \in Markets |-> 0]

-----------------------------------------------------------------------------
(* Mutant of NoteFill: the latch is made anew. *)
NoteFillAfresh(m, ts) ==
  /\ cooldownUntil' = [cooldownUntil EXCEPT ![m] = ts + Cooldown]
  /\ engaged' = [engaged EXCEPT ![m] = FALSE]

NoteFill(m, ts) == /\ cooldownUntil' = [cooldownUntil EXCEPT ![m] = ts + Cooldown]
                   /\ UNCHANGED engaged

(* What evaluate() answers. *)
Signal(m, edge, ts) ==
  CASE edge = "skip" -> "SKIP"
    [] edge # "skip" /\ engaged[m] -> IF edge = "low" THEN "STAND_DOWN" ELSE "HOLD"
    [] edge # "skip" /\ ~engaged[m] ->
         IF edge = "high" /\ ts >= cooldownUntil[m] THEN "ENTER" ELSE "HOLD"

(* What it leaves in the latch. *)
Latch(m, action) ==
  /\ engaged' = [engaged EXCEPT ![m] =
       CASE action = "ENTER" -> TRUE
         [] action \in {"SKIP", "STAND_DOWN"} -> FALSE
         [] action = "HOLD" -> @]
  /\ UNCHANGED cooldownUntil
=============================================================================
