SPECIFICATION SafetySpec
CONSTANTS
  Requests = {r1, r2}
  Points = {"early"}
  Slots = {k1}
  MaxAttempts = 2
  MaxSessions = 2
  MaxCheckOuts = 2
  MaxFixes = 1
  MaxDistances = 0
  MaxReconciliations = 0
  MaxFaults = 0
  DailyColumns <- MCDailyColumns
SYMMETRY MCSymmetry
CHECK_DEADLOCK FALSE
INVARIANTS LatestRowExact MirrorsFollow EarlyPointsNeedCheckOut
PROPERTIES KeepsPromise
