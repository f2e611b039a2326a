SPECIFICATION Spec
CONSTANTS
  Requests = {r1}
  Points = {"inside"}
  Slots = {k1}
  MaxAttempts = 2
  MaxSessions = 1
  MaxCheckOuts = 1
  MaxFixes = 0
  MaxDistances = 1
  MaxReconciliations = 1
  MaxFaults = 2
  DailyColumns <- MCDailyColumns
CHECK_DEADLOCK FALSE
INVARIANT TotalsNotInflated
PROPERTIES JobsSettle
