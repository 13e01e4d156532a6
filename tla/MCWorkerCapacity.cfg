SPECIFICATION FairSpec
CONSTANTS
  leads = leads
  partnerships = partnerships
  Products <- MCProducts
  Scopes <- MCScopes
  MaxWorkers = 1
  MaxFailures = 1
  Stoppable = {leads}
INVARIANTS
  WorkersWithinCapacity
  TicketsHold
PROPERTIES
  RunnableServed
  ShutdownEnds
