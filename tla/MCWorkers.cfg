SPECIFICATION MCSpec
CONSTANTS
  leads = leads
  partnerships = partnerships
  Products <- MCProducts
  Scopes <- MCScopes
  MaxWorkers = 1
  MaxFailures = 0
  Stoppable = {}
  Runs = {r1, r2}
  NoRun = NoRun
  MaxClaims = 1
  MaxProjections = 1
  MaxTasks = 2
  MaxErrors = 1
  MaxClosings = 1
  MaxDeaths = 1
INVARIANTS
  LoopHolds
PROPERTIES
  EveryRunIsClaimed
  ClosingEnds
