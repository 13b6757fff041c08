\* Two producers and two consumers on a queue of one place; all of them may flush
\* while producers sleep on a full queue.
CONSTANTS
  p1 = p1
  p2 = p2
  c1 = c1
  c2 = c2
  a = a
  b = b
  Threads <- TwoAndTwo
  Producers <- Putters
  Consumers <- Getters
  Flushers <- TwoAndTwo
  Messages = {a, b}
  LenMax = 1
  MallocMayFail = FALSE
  None = None
SPECIFICATION Spec
PROPERTIES
  NoSleeperBesideRoom
