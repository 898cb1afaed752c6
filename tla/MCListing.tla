------------------------------ MODULE MCListing ------------------------------
(***************************************************************************)
(* Three calls at the indexer's lane of one: one may run, one wait and one *)
(* overtake it.  A listing serves for two units, a quote and a status for  *)
(* one.  The market is listed at two, when a boundary found at zero has to   *)
(* be posted, and has left at three.                                       *)
(***************************************************************************)
EXTENDS Listing, TLC

CONSTANT m1

MCExpiry == m1 :> 4
MCTtl == [list |-> 2, quote |-> 1, status |-> 1, settled |-> 0]
=============================================================================
