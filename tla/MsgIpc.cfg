\* Two messages of core, three requests from either side, one crash.
CONSTANTS
  core = core
  web = web
  a = a
  b = b
  Procs <- CoreAndWeb
  Messages = {a, b}
  Sender <- FromCore
  Capacity = 2
  SyncCapacity = 2
  MaxCalls = 3
  MaxCrashes = 1
  None = None
SPECIFICATION Spec
INVARIANTS
  FreshAnswerFits
  AcceptedIsQueued
PROPERTIES
  PutIsHandled
  CallReturns
\* Once every call, message and crash is used up nothing happens.
CHECK_DEADLOCK FALSE
