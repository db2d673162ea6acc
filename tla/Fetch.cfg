SPECIFICATION Spec
CONSTANTS
  l1 = l1
  s1 = s1
  s2 = s2
  Listings = {l1}
  Shops = {s1, s2}
  ShopOf <- MCShopOf
  Tasks = {t1, t2}
  Window = 2
  MaxRun = 1
  NoAnswer = NoAnswer
  MaxTime = 5
  MaxCopies = 1
  MaxFaults = 1
CHECK_DEADLOCK FALSE
SYMMETRY TaskSymmetry
INVARIANTS TypeOK SnapshotSpacing ServedIsRecent
PROPERTIES QuotedIsFresh ReportedIsStored
