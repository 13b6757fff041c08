\* One user subscribes to a topic and unsubscribes in any order, and disconnects; the
\* broker grants or refuses.
CONSTANTS
  u1 = u1
  u2 = u2
  m1 = m1
  m2 = m2
  d1 = d1
  d2 = d2
  o1 = o1
  o2 = o2
  o3 = o3
  Users = {u1}
  Yield = Yield
  Closers = {u1}
  UpMsgs = {}
  DownMsgs = {d2}
  QosOf <- QosOfMessages
  BrokerId <- SameId
  Topics = {t1}
  Objects = {o1, o2}
  AckMax = 1
  MaxPacketId = 65534
  MaxCalls = 5
  MaxWire = 2
  MaxFaults = 1
  None = None
  t1 = t1
SPECIFICATION Spec
INVARIANTS
  OneHandlerPerTopic
  NoHandlerLeaked
\* A client that has disconnected or crashed does nothing any more.
CHECK_DEADLOCK FALSE
