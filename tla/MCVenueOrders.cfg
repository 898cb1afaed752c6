SPECIFICATION Spec
CONSTANTS
  Orders = {"o1"}
  Old = {"old"}
  MarketOf <- MCMarketOf
  Calls = {c1, c2}
  Sweeps = {s1, s2}
SYMMETRY MCSymmetry
INVARIANTS OpenStaysTracked CancelledIsTrue SweepLeavesNothing
CHECK_DEADLOCK FALSE
