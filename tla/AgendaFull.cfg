SPECIFICATION Spec
CONSTANTS
  malformed = malformed
  absent = absent
  empty = empty
  none = none
  Malformed = malformed
  Absent = absent
  Empty = empty
  None = none
  NumRegisters = 10
  DayHours = 24
  HourMinutes = 60
  Requests <- FullRequests
  Faults <- NoFaults
  PowerCuts = FALSE
INVARIANTS AgendaFitsReply
