SPECIFICATION LiveSpec
CONSTANTS
  Slots = 1
  Scan <- ScannerOnly
  PingStart = 6
  PingEvery = 4
  PingGap = 0
  AckTimeout = 2
  MsgTimeout = 1
  MaxAnswer = 0
  Offline = 12
  Refresh = 6
  Settle = 3
  Window = 6
  Gap = 1
  NodeWait = 2
  Tries = 2
  ConfigTime = 1
  ConfigSlow = 7
  MaxTrouble = 1
  MaxOther = 1
PROPERTY Reprovisioned
