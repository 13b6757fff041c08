\* Work added by the client that paused the pool.
CONSTANTS
  p1 = p1
  p2 = p2
  w1 = w1
  w2 = w2
  c1 = c1
  c2 = c2
  Pools <- OnePool
  Workers <- TwoWorkers
  PoolOf <- TwoInOne
  Clients = {c1}
  WaitingClients = {c1}
  MaxQueued = 2
  MayPause = TRUE
  MayDestroy = FALSE
  CreateMayFail = FALSE
  None = None
SPECIFICATION Spec
PROPERTIES
  AddReturns
\* The client blocks for ever.
CHECK_DEADLOCK FALSE
