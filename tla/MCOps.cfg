SPECIFICATION OpsSpec
CONSTANTS
  Others = {"echo"}
  Critical = {"mira"}
  GiveUpAfter = 2
  Symbols <- TwoSymbols
  Instants = {1, 2}
  MaxExits = 2
  MaxRecords = 2
  MaxOrders = 1
  BatchSize = 2
  MaxFailures = 1
INVARIANTS JournalFaithful OrderlyStopSweeps
PROPERTY PricesKeepComing
CHECK_DEADLOCK FALSE
