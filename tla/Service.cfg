SPECIFICATION FairSpec
CONSTANTS
  d1 = d1
  d2 = d2
  d3 = d3
  f1 = f1
  f2 = f2
  Lists <- MCLists
  FakeList <- MCFakeList
  DummyPrice <- MCDummyPrice
  FakePrice <- MCFakePrice
  None = None
  Items <- MCItems
  NoItem = NoItem
  Requests = {q1, q2}
  attempts = 2
  limit = 1
  MaxChanges = 2
INVARIANTS TypeOK EveryProductOnce PairsAreNearest StepsComplete
PROPERTIES AddedOnce StartupEnds AnswersComeTrue RequestsEnd
