SPECIFICATION Spec
CONSTANTS
  MaxCurrency = 2
  MaxDay = 2
  MaxPoints = 2
  MaxRuns = 1
  Requests = {}
  Syncs = {y1}
  Backfills = {}
  MidnightSync = TRUE
  MayFail = FALSE
CHECK_DEADLOCK FALSE
INVARIANT DbIsExact
