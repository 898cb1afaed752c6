------------------------------ MODULE MCRounds ------------------------------
(* Rounds for TLC.  A losing and a winning curve, and two rounds: the first  *)
(* may settle after the second has opened, and roll its pot into it.  The    *)
(* scores of a person's record are checked beside them.                     *)
EXTENDS Rounds, CalibrationChecks

MCPnls == {-1, 2}
=============================================================================
