---------------------------- MODULE MCPositions ----------------------------
(* Positions for TLC: a position that a match of either pass may move, with  *)
(* the bounded checks of the sizer, which reads the engine's copy of it.    *)
EXTENDS Positions, DecisionChecks

MCSizes == {-1}
=============================================================================
