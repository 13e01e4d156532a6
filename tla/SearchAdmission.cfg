SPECIFICATION MCSpec
CONSTANTS
  p1 = p1
  p2 = p2
  a1 = a1
  a2 = a2
  h1 = h1
  h2 = h2
  h3 = h3
  Processes <- MCProcesses
  Callers = {a1, a2, h1, h2, h3}
  Requests = {"turn", "id"}
  Turns = {"turn"}
  Asks <- AskedBy
  Environments <- AllEnvironments
  Scenes = {"turn", "twice"}
  MaxDeaths = 1
  MaxFailedScans = 1
  MaxBlocks = 1
INVARIANTS
  AnswersHold
PROPERTIES
  CreatedAsClaimed
CHECK_DEADLOCK FALSE
