\* Two markets, two sweeps at a time, an interval of two ticks.
SPECIFICATION FairSpec
CONSTANTS
  Markets = {"m1", "m2"}
  Sweeps = {"s1", "s2"}
  Interval = 2
INVARIANT BookedOnce
PROPERTY WonIsTried
CHECK_DEADLOCK FALSE
