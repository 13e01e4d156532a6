SPECIFICATION MCSpec
CONSTANTS
  c1 = c1
  c2 = c2
  i1 = i1
  i2 = i2
  i3 = i3
  s1 = s1
  s2 = s2
  None = None
  Clients <- MCClients
  Ids <- MCIds
  Keys = {k1}
  NoKey = NoKey
  Prints = {p1, p2, p3}
  Kept = 2
  MaxAccepted = 4
  MaxFaults = 1
  MaxMessages = 4
  MaxJobs = 1
  MaxReopens = 1
  ConnectorFaults = 1
INVARIANTS
  RegistryHolds
  BridgeHolds
  TakenNotLost
PROPERTIES
  ReceiptIsWinner
  RegistrySpec
  AcceptedEnds
CHECK_DEADLOCK FALSE
