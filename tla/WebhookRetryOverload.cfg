SPECIFICATION SafetySpec
CONSTANTS
  Events = {e1}
  Webhooks = {w1, w2}
  Subscriptions <- MCSubscriptions
  Workers = {k1, k2}
  Admins = {a1}
  MaxAttempts = 1
  MaxQueueDepth = 1
  MaxAdminOps = 1
  MaxCrashes = 0
  MaxStalls = 0
  MaxIoErrors = 0
  MaxTrouble = 1
SYMMETRY MCSymmetry
CHECK_DEADLOCK FALSE
INVARIANTS RetriedIsCarried
