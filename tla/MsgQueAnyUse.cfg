\* Two producers and two consumers on a queue of two places; all of them may flush
\* and malloc may fail.
CONSTANTS
  p1 = p1
  p2 = p2
  c1 = c1
  c2 = c2
  a = a
  b = b
  Threads <- TwoAndTwo
  Producers <- Putters
  Consumers <- Getters
  Flushers <- TwoAndTwo
  Messages = {a, b}
  LenMax = 2
  MallocMayFail = TRUE
  None = None
SPECIFICATION Spec
INVARIANTS
  NoLostGetWakeup
  NoLostPutWakeup
PROPERTIES
  ImplementsFifo
  SleepersWake
