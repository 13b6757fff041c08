\* Four records of three messages, calls at any moment.
SPECIFICATION Spec

CONSTANTS
  Msgs = {m1, m2, m3}
  MaxRecords = 4
  Intervals <- MCIntervals
  Counts <- MCCounts

INVARIANTS
  NothingFreedIsUsed

PROPERTIES
  OnSchedule
  RecordsAndExitEnd

\* The system stops after ack_async_exit, or when a call has broken a walk.
CHECK_DEADLOCK FALSE
