SPECIFICATION Spec
CONSTANTS
  red = red
  blue = blue
  wifiGreen = wifiGreen
  absent = absent
  noReading = noReading
  none = none
  Readings <- MixedReadings
  NoReading = noReading
  Requests <- MixedRequests
  Absent = absent
  SchedPcts <- MCSchedPcts
  Colours <- MCColours
  DefaultColour = blue
  WifiColours <- NoPcts
  None = none
  ControlPrio = 5
  HttpdPrio = 4
  FlashFaults = TRUE
  PowerCuts = TRUE
  LedToggles = FALSE
INVARIANTS ConfigSane AckedSettingsDurable
PROPERTIES FanFollowsTemperature AlarmBlinks ImplementsStore
