SPECIFICATION ClockSpec
CONSTANTS
  malformed = malformed
  absent = absent
  empty = empty
  none = none
  Malformed = malformed
  Absent = absent
  Empty = empty
  None = none
  NumRegisters = 2
  DayHours = 1
  HourMinutes = 2
  Requests <- ClockRequests
  Faults <- MCFaults
  PowerCuts = TRUE
  MinuteTicks = 4
  WindowTicks = 3
  CycleMin = 1
  CycleMax = 3
  HandPcts <- MCHandPcts
INVARIANTS ClockTypeOK NoActiveEntryLost
PROPERTIES DueEntryApplied
