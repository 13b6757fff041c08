\* The runs of plan_task drift: a plan for the first second of the day is not called.
CONSTANTS
  MaxId = 1
  MaxTime = 8
  ClockRange = 64
  Delays = {1}
  DayLength = 4
  DayTimes = {0}
  StartOfDay = 2
  Overshoot = 1
  None = None
SPECIFICATION Spec
INVARIANTS
  CalledAtAnyTime
\* At MaxTime nothing more happens.
CHECK_DEADLOCK FALSE
