SPECIFICATION FeedSpec
CONSTANTS
  FeedMarkets = {"m1", "m2"}
  ValCap = 1
  QuipCap = 1
  MaxEvents = 4
  MaxSockets = 2
  MaxCrashes = 1
INVARIANT ViewFollows
PROPERTIES PageRecovers DeadViewersLeave
CHECK_DEADLOCK FALSE
