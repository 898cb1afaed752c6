--------------------------- MODULE MCVenueOrders ---------------------------
(* An order of this process and one an earlier run left, in two markets.     *)
EXTENDS VenueOrders, TLC

MCMarketOf == [o \in Known |-> IF o \in Orders THEN "m1" ELSE "m2"]

(* Safety only: calls are alike, and so are sweeps. *)
MCSymmetry == Permutations(Calls) \cup Permutations(Sweeps)
=============================================================================
