SPECIFICATION Spec
CONSTANTS
  MaxRuns = 2
  Keys = {k1, k2}
  None = None
  MaxTries = 2
  MaxPosts = 2
  MaxLosses = 1
  MaxTroubles = 1
SYMMETRY Symmetry
INVARIANTS
  ThreadHolds
PROPERTIES
  EndIsFinal
CHECK_DEADLOCK FALSE
