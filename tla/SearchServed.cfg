SPECIFICATION MCFairSpec
CONSTANTS
  p1 = p1
  p2 = p2
  a1 = a1
  a2 = a2
  h1 = h1
  h2 = h2
  h3 = h3
  Processes <- MCProcesses
  Callers = {a1, h1}
  Requests = {"turn", "id"}
  Turns = {"turn"}
  Asks <- AskedBy
  Environments <- AllEnvironments
  Scenes = {"served", "answered"}
  MaxDeaths = 1
  MaxFailedScans = 1
  MaxBlocks = 1
PROPERTIES
  AdmittedIsServed
  AnsweredWhereOn
CHECK_DEADLOCK FALSE
