CONSTANTS
  MaxVersion = 1
  MaxRelease = 2
  MaxRace = 1
  MaxFault = 1
  MaxReset = 1
  MaxCrash = 1
SPECIFICATION LiveSpec
INVARIANTS TypeOK  
PROPERTIES KeepsPromise ResetRestarts EventuallyUpToDate
