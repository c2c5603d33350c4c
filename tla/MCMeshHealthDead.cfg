SPECIFICATION Spec
CONSTANTS
  Slots = 2
  Scan <- RelayThenScanner
  PingStart = 60
  PingEvery = 40
  PingGap = 1
  AckTimeout = 20
  MsgTimeout = 10
  MaxAnswer = 1
  Offline = 120
  Refresh = 60
  Settle = 30
  Window = 60
  Gap = 3
  NodeWait = 24
  Tries = 5
  ConfigTime = 8
  ConfigSlow = 67
  MaxTrouble = 1
  MaxOther = 0
INVARIANT NeverMistaken
