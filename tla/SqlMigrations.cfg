SPECIFICATION FairSpec
CONSTANTS
  Runners = {r1, r2, r3}
  Adopters = {r3}
  Strays = {r2}
  Edited = 2
  Migrations = 3
  MaxFaults = 1
  MaxTouches = 2
INVARIANTS
  HistoryHolds
PROPERTIES
  RunnersRely
  RunnerEnds
CHECK_DEADLOCK FALSE
