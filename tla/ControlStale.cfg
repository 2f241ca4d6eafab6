SPECIFICATION Spec
CONSTANTS
  red = red
  blue = blue
  wifiGreen = wifiGreen
  absent = absent
  noReading = noReading
  none = none
  Readings <- WarmOnly
  NoReading = noReading
  Requests <- UnnamedCurtainRequests
  Absent = absent
  SchedPcts <- MCSchedPcts
  Colours <- MCColours
  DefaultColour = blue
  WifiColours <- NoPcts
  None = none
  ControlPrio = 5
  HttpdPrio = 4
  FlashFaults = FALSE
  PowerCuts = FALSE
  LedToggles = FALSE
PROPERTIES UnnamedCurtainKept
