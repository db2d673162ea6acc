SPECIFICATION Spec
CONSTANTS
  p1 = p1
  p2 = p2
  l1 = l1
  l2 = l2
  l3 = l3
  Products = {p1, p2}
  Listings = {l1, l2, l3}
  ProductOf <- MCProductOf
  Title <- MCTitle
  Prices <- MCPrices
  NoPrice = NoPrice
  Sorts <- MCSorts
  DayLength = 2
  TrendDays = 1
  page_size = 1
  MaxTime = 4
  MaxRows = 3
INVARIANTS TypeOK RangeIsOfToday TrendIsJust WalkIsComplete HistoryIsComplete PagesAgree
CHECK_DEADLOCK FALSE
