SPECIFICATION EchoSpec
CONSTANTS
  Markets = {"m1"}
  Half = 1
  Size = 1
  MaxNet = 3
  MaxQuotes = 3
  MaxRounds = 3
INVARIANTS StackedOnlyIfLost StoppedLeavesOnlyLate
PROPERTY CycleReturns
CHECK_DEADLOCK FALSE
