CONSTANTS
  Tag = {t1}
  MaxTracked = 1
  QueueSize = 1
  OutOfRange = 2
  Wrap = 4
  Late = 1
  MaxReport = 2
  MaxDrop = 0
  MaxFault = 0
  MaxRestart = 0
SPECIFICATION Spec
PROPERTIES OutMeansSilent
