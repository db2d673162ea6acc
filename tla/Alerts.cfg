SPECIFICATION FairSpec
CONSTANTS
  Products = {p1}
  p1 = p1
  a1 = a1
  a2 = a2
  Alerts = {a1, a2}
  Prices <- MCPrices
  ProductOf <- MCProductOf
  Limit <- MCLimit
  NoAlert = NoAlert
  NoPrice = NoPrice
  Runs = {r1, r2}
  Requests = {q1}
  Shops = {s1}
  MaxFaults = 2
INVARIANTS TypeOK FiredWasReported EmailBudget
PROPERTIES OneWay ImplementsDelivery DueIsServed RunsEnd
