CONSTANTS
  Tag = {t1, t2}
  MaxTracked = 1
  QueueSize = 1
  OutOfRange = 1
  Wrap = 5
  Late = 1
  MaxReport = 2
  MaxDrop = 1
  MaxFault = 1
  MaxRestart = 1
SPECIFICATION LiveSpec
INVARIANTS TypeOK ReplayNotMissed MarkedInTime
PROPERTIES  NoStaleOut SilenceIsMarked
