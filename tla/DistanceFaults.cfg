SPECIFICATION Spec
CONSTANTS
  Sessions = {s1}
  Slots = {k1}
  Closers = {r1}
  Recalcs = {c1}
  MaxAttempts = 2
  MaxQueueDepth = 1
  MaxIntentRetries = 1
  MaxCloses = 1
  MaxRecalcs = 1
  MaxReplays = 1
  MaxCrashes = 1
  MaxIoErrors = 1
CHECK_DEADLOCK FALSE
INVARIANT PermanentFailureIsMarked
PROPERTY ClosedIsSettled
