CONSTANTS
  Markets = {m1, m2}
  Stamped = TRUE
  Driver = Driver
  Clicks = {k1}
  Pnls <- MCPnls
  MaxRounds = 2
  Whole = 4
  Bins = 2
  Questions = {m1, m2}
  MaxRecord = 3
SPECIFICATION Spec
INVARIANTS PotConserved DisplayMatchesSettlement NoForecastLeftOut
PROPERTIES ImplementsPotLedger EveryRoundSettles
CHECK_DEADLOCK FALSE
