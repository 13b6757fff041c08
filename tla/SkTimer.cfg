\* plan_task and two timers of any type over two midnights, with prompt and slow handlers; the clock does not wrap.
CONSTANTS
  MaxId = 2
  MaxTime = 6
  ClockRange = 64
  Delays = {1, 2}
  DayLength = 4
  DayTimes = {0, 2}
  StartOfDay = 2
  Overshoot = 1
  None = None
SPECIFICATION Spec
INVARIANTS
  TypeOK
  ListsAreOrdered
  NeverLate
  CalledEveryDay
PROPERTIES
  NeverEarly
  CalledOnceADay
  DueIsCalled
\* At MaxTime nothing more happens.
CHECK_DEADLOCK FALSE
