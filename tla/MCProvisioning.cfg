CONSTANTS
  Node = {s1, r1}
  Scan = {s1}
  Relay = {r1}
  MaxScanList = 1
  MaxNodes = 2
  CfgRetry = 2
  LastAddr = 3
  MaxFault = 1
  MaxSaveFail = 1
  MaxReset = 1
  MaxCrash = 1
  MaxWipe = 0
  UartUser = FALSE
SPECIFICATION LiveSpec
CHECK_DEADLOCK FALSE
INVARIANTS TypeOK ConfiguredIsBound UniqueEntries AckIsGenuine StackKnowsEntries NoEntryStalls
PROPERTIES KeepsRoll EventuallyConfigured
