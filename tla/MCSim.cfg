SPECIFICATION SimSpec
CONSTANTS
  Stops <- MCStops
  Requests <- MCRequests
  MaxOrders = 3
  Latencies <- MCLatencies
  Expiry = 4000
  LockMs = 5000
  SettlingMs = 5000
  Depth = 2
  Levels = 2
  Noise <- MCNoise
  InitialCash = 5000
  Mints = {2}
  Scripts = {"NEWS_SHOCK", "THIN_BOOK"}
  MaxRuns = 2
INVARIANTS BooksBalance UncrossedBook SupersededSilent
CHECK_DEADLOCK FALSE
