SPECIFICATION MCSpec
CONSTANTS
  t1 = t1
  t2 = t2
  s1 = s1
  s2 = s2
  c1 = c1
  k1 = k1
  m1 = m1
  b1 = b1
  Tokens <- MCTokens
  Sessions <- MCSessions
  MaxFaults = 2
  MaxJobs = 2
  MaxReopens = 1
  MaxLosses = 1
  Depth = 2
  Calls = {c1, c2, c3}
  Keys = {k1, k2}
  Messages = {m1, m2}
  Requests = {r1, r2}
  Bodies = {b1, b2}
  None = None
  MaxRuns = 3
  MaxCrashes = 1
SYMMETRY Symmetry
INVARIANTS
  AdmissionHolds
  TurnHolds
  DeliveryHolds
  ConnectorHolds
PROPERTIES
  FreshAttempt
  WrittenStays
CHECK_DEADLOCK FALSE
