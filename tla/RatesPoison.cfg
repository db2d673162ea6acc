SPECIFICATION Spec
CONSTANTS
  MaxCurrency = 1
  MaxDay = 3
  MaxPoints = 2
  MaxRuns = 1
  Requests = {q1}
  Syncs = {}
  Backfills = {}
  MidnightSync = FALSE
  MayFail = FALSE
CHECK_DEADLOCK FALSE
INVARIANT HistoricalCacheIsExact
