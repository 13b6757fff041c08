\* One user disconnects a client that may be reconnecting.
CONSTANTS
  u1 = u1
  u2 = u2
  m1 = m1
  m2 = m2
  d1 = d1
  d2 = d2
  t1 = t1
  o1 = o1
  o2 = o2
  o3 = o3
  Users = {u1}
  Yield = Yield
  Closers = {u1}
  UpMsgs = {m1}
  DownMsgs = {}
  QosOf <- QosOfMessages
  BrokerId <- SameId
  Topics = {}
  Objects = {}
  AckMax = 1
  MaxPacketId = 65534
  MaxCalls = 4
  MaxWire = 2
  MaxFaults = 1
  None = None
SPECIFICATION Spec
PROPERTIES
  DisconnectCompletes
\* A client that has disconnected does nothing any more.
CHECK_DEADLOCK FALSE
