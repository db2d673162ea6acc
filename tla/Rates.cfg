SPECIFICATION FairSpec
CONSTANTS
  MaxCurrency = 2
  MaxDay = 2
  MaxPoints = 3
  MaxRuns = 2
  Requests = {q1, q2}
  Syncs = {y1}
  Backfills = {b1}
  MidnightSync = FALSE
  MayFail = TRUE
CHECK_DEADLOCK FALSE
INVARIANTS TypeOK DbIsExact CacheIsBacked CyclesNeedLoad
PROPERTY TransactionsEnd
