SPECIFICATION SignInSpec
CONSTANTS
  Tabs = {t1, t2}
  Addresses = {a, b}
  Nobody = nobody
  ChallengeTtl = 1
  SessionTtl = 1
  MaxSignIns = 2
  MaxCalls = 1
  MaxNow = 2
  MaxRestarts = 1
SYMMETRY Symmetry
INVARIANTS OwnForecasts OneSessionPerChallenge
CHECK_DEADLOCK FALSE
