SPECIFICATION Spec
CONSTANTS
  malformed = malformed
  absent = absent
  empty = empty
  none = none
  Malformed = malformed
  Absent = absent
  Empty = empty
  None = none
  NumRegisters = 3
  DayHours = 1
  HourMinutes = 2
  Requests <- StoreRequests
  Faults <- ChangeFaults
  PowerCuts = TRUE
INVARIANTS TypeOK RamIsFlash
PROPERTIES ImplementsTable
