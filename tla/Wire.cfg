SPECIFICATION Spec
CONSTANTS
  Base = 4
  OutBuffer = 16
  InBuffer = 11
  Plan <- MCPlan
  MaxCalls = 2
  MaxFaults = 1
INVARIANTS TypeOK InStep ReceivedAsSent
CHECK_DEADLOCK FALSE
