CONSTANTS
  Node = {s1, r1}
  Scan = {s1}
  Relay = {r1}
  MaxScanList = 1
  MaxNodes = 1
  CfgRetry = 1
  LastAddr = 3
  MaxFault = 1
  MaxSaveFail = 0
  MaxReset = 1
  MaxCrash = 0
  MaxWipe = 1
  UartUser = TRUE
SPECIFICATION Spec
CHECK_DEADLOCK FALSE
INVARIANTS GivenUpWithCause
PROPERTIES HealthyNodeKept
