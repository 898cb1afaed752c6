SPECIFICATION Spec
CONSTANTS
  Markets = {m1}
  Passes = {p1, p2}
  Marks = {1, 2}
  Held = {1}
  Sizes <- MCSizes
  MaxMatches = 2
  MaxFailures = 1
  Unit = 10
  Grid = 1
PROPERTIES NeverOlder KnownConverges EngineFollows
CHECK_DEADLOCK FALSE
