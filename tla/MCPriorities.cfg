SPECIFICATION DispatchingSpec
CONSTANTS
  c1 = c1  c2 = c2  p1 = p1  p2 = p2  p3 = p3
  Workers <- OneWorker
  Clients = {c1}
  Control = c1
  Pools = {p1, p2, p3}
  NoPool = NoPool
  NumPriorities = 2
  PriorityOf <- ThreePools
  Unregistrable = {}
  MaxTasks = 2
PROPERTIES
  HigherPriorityFirst
  PoolsTakeTurns
CHECK_DEADLOCK FALSE
