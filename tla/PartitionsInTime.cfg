SPECIFICATION Spec
CONSTANTS
  Workers = {w1, w2}
  Deploys <- InTime
  LastYear = 2027
  MaxFaults = 2
  NoDate = NoDate
CHECK_DEADLOCK FALSE
SYMMETRY WorkerSymmetry
INVARIANTS TypeOK OneMonthEach GapNeedsOutage
