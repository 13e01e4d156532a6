SPECIFICATION MCSpec
CONSTANTS
  t1 = t1
  Tokens = {t1, t2}
  None = None
  MaxFaults = 1
  MaxRuns = 2
  k1 = k1
  Keys = {k1, k2}
  MaxTries = 2
  MaxPosts = 2
  MaxLosses = 1
  MaxTroubles = 1
PROPERTIES
  TurnsEnd
CHECK_DEADLOCK FALSE
