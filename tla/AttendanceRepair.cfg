SPECIFICATION Spec
CONSTANTS
  Requests = {r1}
  Points = {"early", "inside"}
  Slots = {k1}
  MaxAttempts = 2
  MaxSessions = 1
  MaxCheckOuts = 1
  MaxFixes = 0
  MaxDistances = 0
  MaxReconciliations = 1
  MaxFaults = 0
  DailyColumns <- MCDailyColumns
CHECK_DEADLOCK FALSE
PROPERTIES ReconciliationRepairs
