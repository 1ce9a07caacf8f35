SPECIFICATION LiveSpec
CONSTANTS
  p1 = p1
  p2 = p2
  t1 = t1
  t2 = t2
  t3 = t3
  Putters <- TwoPutters
  Takers <- ThreeTakers
  Items = {a, b}
  NoItem = NoItem
  NoThread = NoThread
  Calls <- OneGetEach
INVARIANTS TypeOK NoLostWakeup SizeIsExact
PROPERTIES ImplementsContainer EveryGetReturns
