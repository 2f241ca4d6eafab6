SPECIFICATION Spec
CONSTANTS
  malformed = malformed
  absent = absent
  empty = empty
  none = none
  Malformed = malformed
  Absent = absent
  Empty = empty
  None = none
  NumRegisters = 2
  DayHours = 1
  HourMinutes = 2
  Requests <- StoreRequests
  Faults <- EraseFaults
  PowerCuts = TRUE
PROPERTIES ErasedStaysErased
