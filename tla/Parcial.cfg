SPECIFICATION Spec
CONSTANTS
  Channels <- MCChannels
  Ranges <- MCRanges
  FirstRange <- MCFirstRange
  Limits <- MCLimits
  FirstLimits <- MCFirstLimits
  Temps = {0, 2}
  FirstTemp = 0
  Thresholds = {1}
  Gaps = {20, 90}
INVARIANTS SettingsWhole PressCountedOnce
