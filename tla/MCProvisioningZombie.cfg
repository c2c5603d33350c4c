CONSTANTS
  Node = {s1, r1}
  Scan = {s1}
  Relay = {r1}
  MaxScanList = 1
  MaxNodes = 2
  CfgRetry = 1
  LastAddr = 3
  MaxFault = 0
  MaxSaveFail = 0
  MaxReset = 1
  MaxCrash = 1
  MaxWipe = 0
  UartUser = FALSE
SPECIFICATION LiveSpec
CHECK_DEADLOCK FALSE
PROPERTIES ReprovisionedAgain
