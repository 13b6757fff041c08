\* One pool of two workers; two clients init, add, pause, resume and destroy in any
\* order, one of them also waits.
CONSTANTS
  p1 = p1
  p2 = p2
  w1 = w1
  w2 = w2
  c1 = c1
  c2 = c2
  Pools <- OnePool
  Workers <- TwoWorkers
  PoolOf <- TwoInOne
  Clients = {c1, c2}
  WaitingClients = {c1}
  MaxQueued = 1
  MayPause = TRUE
  MayDestroy = TRUE
  CreateMayFail = FALSE
  None = None
SPECIFICATION Spec
INVARIANTS
  NoWorkerSleepsBesideJob
  LoneWaiterHasWork
  FreedMeansFinished
PROPERTIES
  WaitNeverEarly
  JobsAreRun
  InitAndDestroyReturn
\* Both clients may block in thpool_add_work on a pool they have paused themselves.
CHECK_DEADLOCK FALSE
