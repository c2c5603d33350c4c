CONSTANTS
  Tag = {t1, t2}
  Phone = {p1}
  None = None
  Interval = 1
  Lags = {0, 2}
  Lag = 2
  SeqMod = 10
  Tick = 3
  EpochMod = 6
  WideMax = 1
  AuthSlots = 1
  MaxTags = 2
  Late = 3
  Jump = 2
  Timeout = 1
  Check = 1
  Hold = 1
  Scan = 1
  Rest = 1
  MaxTime = 11
  Start = 6
  MaxBoot = 1
  MaxClash = 1
SPECIFICATION Spec
SYMMETRY Alike
INVARIANTS TypeOK NeverLockedOut NoStaleReport
PROPERTIES LossIsCounted HeardIsSeen GivenUpWhenSilent
