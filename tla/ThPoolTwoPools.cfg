\* Two pools of one worker each; one of them is destroyed.
CONSTANTS
  p1 = p1
  p2 = p2
  w1 = w1
  w2 = w2
  c1 = c1
  c2 = c2
  Pools <- TwoPools
  Workers <- TwoWorkers
  PoolOf <- OneEach
  Clients = {c1}
  WaitingClients = {c1}
  MaxQueued = 1
  MayPause = FALSE
  MayDestroy = TRUE
  CreateMayFail = FALSE
  None = None
SPECIFICATION Spec
PROPERTIES
  JobsAreRun
