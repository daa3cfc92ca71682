SPECIFICATION StreamSpec
CONSTANTS
  p1 = p1
  p2 = p2
  t1 = t1
  t2 = t2
  t3 = t3
  Nobody = Nobody
  Putters <- MCPutters
  Takers <- MCTakers
  MaxPuts = 4
INVARIANTS
  Conserved
  NoLostWakeup
PROPERTIES
  ClosedForGood
  DataReachesTakers
