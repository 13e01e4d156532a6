SPECIFICATION MCSpec
CONSTANTS
  r1 = r1
  r2 = r2
  c1 = c1
  c2 = c2
  w1 = w1
  w2 = w2
  Operator = Operator
  Runs <- MCRuns
  ManagedRuns <- MCManagedRuns
  CancelIds <- MCCancelIds
  BlockReasons = {b1}
  None = None
  LeaseTerm = 2
  MaxDelay = 1
  MaxClaims = 2
  MaxAttempts = 1
  N = 3
  PageSize = 2
  Stops <- MCWorkers
  Commands <- MCCancelIds
  Workers <- MCWorkers
  Kinds = {"read_only", "target_idempotency", "reconcile_before_replay"}
  EffectAttempts = 2
  EffectLease = 1
  EffectTimeout = 2
  MaxPauses = 1
  MaxUnresolved = 1
INVARIANTS
  RowsHold
  StopsHold
  EffectHolds
PROPERTIES
  OutputNeverRegresses
  ImplementsLifecycle
  SettledStands
CHECK_DEADLOCK FALSE
