\* One user publishes a message with QoS 2 and one with QoS 1, the broker one with
\* QoS 2; one connection is lost.
CONSTANTS
  u1 = u1
  u2 = u2
  m1 = m1
  m2 = m2
  d1 = d1
  d2 = d2
  t1 = t1
  o1 = o1
  o2 = o2
  o3 = o3
  Users = {u1}
  Yield = Yield
  Closers = {}
  UpMsgs = {m1, m2}
  DownMsgs = {d1}
  QosOf <- QosOfMessages
  BrokerId <- SameId
  Topics = {}
  Objects = {}
  AckMax = 1
  MaxPacketId = 65534
  MaxCalls = 4
  MaxWire = 2
  MaxFaults = 1
  None = None
SPECIFICATION Spec
INVARIANTS
  TypeOK
  PublishedOnce
  ReceivedOnce
  AcceptedIsKept
PROPERTIES
  AcceptedArrives
CHECK_DEADLOCK FALSE
