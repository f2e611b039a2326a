\* Two webhooks, two slots, no administrator and no fault: overload and
\* interleavings of fan-outs and workers.
SPECIFICATION Spec
CONSTANTS
  Events = {e1}
  Webhooks = {w1, w2}
  Subscriptions <- MCSubscriptions
  Workers = {k1, k2}
  Admins = {}
  MaxAttempts = 3
  MaxQueueDepth = 1
  MaxAdminOps = 0
  MaxCrashes = 0
  MaxStalls = 0
  MaxIoErrors = 0
  MaxTrouble = 0
CHECK_DEADLOCK FALSE
INVARIANT PendingIsCarried
PROPERTY EventuallySettled
