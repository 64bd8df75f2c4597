SPECIFICATION PreparedSpec
CONSTANTS
  c1 = c1  c2 = c2  p1 = p1  p2 = p2  p3 = p3
  Workers <- TwoWorkers
  Clients = {c1}
  Control = c1
  Pools = {p1}
  NoPool = NoPool
  NumPriorities = 1
  PriorityOf <- OnePool
  Unregistrable = {}
  MaxTasks = 2
INVARIANTS
  NoTaskLeftWaiting
PROPERTIES
  TasksDrain
  StopReturns
