SPECIFICATION FairSpec
CONSTANTS
  red = red
  blue = blue
  wifiGreen = wifiGreen
  absent = absent
  noReading = noReading
  none = none
  Readings <- WarmOnly
  NoReading = noReading
  Requests <- CurtainRequests
  Absent = absent
  SchedPcts <- MCSchedPcts
  Colours <- MCColours
  DefaultColour = blue
  WifiColours <- MCWifiColours
  None = none
  ControlPrio = 5
  HttpdPrio = 4
  FlashFaults = FALSE
  PowerCuts = FALSE
  LedToggles = TRUE
INVARIANTS TypeOK
PROPERTIES ManualNotOverridden ActuatesCurrentState OutputsHeal RequestAnswered
