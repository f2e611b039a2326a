SPECIFICATION SafetySpec
CONSTANTS
  Events = {e1}
  Webhooks = {w1}
  Subscriptions <- MCSubscriptions
  Workers = {k1, k2}
  Admins = {a1, a2}
  MaxAttempts = 2
  MaxQueueDepth = 1
  MaxAdminOps = 2
  MaxCrashes = 1
  MaxStalls = 1
  MaxIoErrors = 1
  MaxTrouble = 3
SYMMETRY MCSymmetry
CHECK_DEADLOCK FALSE
INVARIANTS AttemptCeiling OneChainPerDelivery ExhaustedIsDeadLettered
PROPERTY KeepsRowPromise
