SPECIFICATION MCSpec
CONSTANTS
  Runners = {r1, r2}
  Strangers = {s1}
  Blockers = {b1}
  None = None
  ContractV2 = TRUE
  MaxAttempts = 2
  MaxSetbacks = 2
  w1 = w1
  Processes = {w1, w2}
  DeliveryClaims = 3
  DeliveryLease = 2
  DeliveryDelay = 2
  DeliveryPauses = 2
  Resumes = 1
INVARIANTS
  AttemptsHold
  OutboxHolds
PROPERTIES
  AttemptsEnd
  DeliveryEnds
  EffectEnds
CHECK_DEADLOCK FALSE
