SPECIFICATION FairSpec
CONSTANTS
  q0 = q0
  q1 = q1
  p2 = p2
  s = s
  u = u
  i1 = i1
  i2 = i2
  None = none
  Qos0 = {q0}
  Qos1 = {q1}
  Qos2 = {p2}
  Subs = {s}
  Unsubs = {u}
  In1 = {i1}
  In2 = {i2}
  Scenarios <- MCScenarios
  CleanSession = FALSE
  MaxFaults = 1
INVARIANTS TypeOK AnsweredIsDelivered ExactlyOnce NothingForgotten StoppedIsEnded
PROPERTIES ImplementsDelivery OutboxDrains DeadPeerNoticed StopEnds
CHECK_DEADLOCK FALSE
