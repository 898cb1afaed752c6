CONSTANTS
  Ids = {a, b, c}
  None = None
  TimeoutOn = TRUE
  MaxCount = 2
SPECIFICATION Spec
INVARIANTS SucceededNoncesDistinct NoNonceGap OnlyAbandonedRunsOverlap
PROPERTY ImplementsSerialExecutor
CHECK_DEADLOCK FALSE
