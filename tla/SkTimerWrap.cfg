\* The clock wraps after eight seconds.
CONSTANTS
  MaxId = 1
  MaxTime = 9
  ClockRange = 8
  Delays = {2}
  DayLength = 3
  DayTimes = {0}
  StartOfDay = 2
  Overshoot = 1
  None = None
SPECIFICATION Spec
PROPERTIES
  NeverEarly
\* At MaxTime nothing more happens.
CHECK_DEADLOCK FALSE
