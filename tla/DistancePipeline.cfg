SPECIFICATION SafetySpec
CONSTANTS
  Sessions = {s1, s2}
  Slots = {k1}
  Closers = {r1, r2}
  Recalcs = {}
  MaxAttempts = 1
  MaxQueueDepth = 1
  MaxIntentRetries = 1
  MaxCloses = 2
  MaxRecalcs = 0
  MaxReplays = 0
  MaxCrashes = 1
  MaxIoErrors = 0
CHECK_DEADLOCK FALSE
INVARIANT ClosedIsCovered
