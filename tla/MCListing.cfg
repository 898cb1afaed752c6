SPECIFICATION Spec
CONSTANTS
  m1 = m1
  Calls = {1, 2, 3}
  Requested = 1
  Markets = {m1}
  NoMarket = noMarket
  Nothing = nothing
  Expiry <- MCExpiry
  MinTte = 2
  Ttl <- MCTtl
  MaxNow = 3
INVARIANTS AnswersFresh KnownBoundaryPosted OverrunOnlyByOvertaking
PROPERTY EveryWaiterRuns
CHECK_DEADLOCK FALSE
