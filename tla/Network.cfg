SPECIFICATION FairSpec
CONSTANTS
  home = home
  typo = typo
  short = short
  board = board
  unset = unset
  Unset = unset
  Pairs <- MCPairs
  ApPairs <- MCApPairs
  Refused <- MCRefused
  DefaultAp <- MCDefaultAp
  ConnectAp <- MCConnectAp
  InRange <- MCInRange
  MonitorCap = 3
  AppCap = 3
  NvsFaults = TRUE
  FlashErrors = TRUE
  MaxDrops = 1
  MaxRequests = 2
  MaxPowerCuts = 1
INVARIANTS TypeOK AnsweredPairInForce RunningIntact UpdateTakesEffect
PROPERTIES UpdateRestarts Reconnects ConnectionReported
