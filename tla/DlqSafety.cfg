SPECIFICATION SafetySpec
CONSTANTS
  Deliveries = {d1, d2, d3}
  Slots = {k1, k2}
  MaxSize = 2
  MaxFailures = 2
  MaxAgings = 1
  MaxCrashes = 1
  MaxIoErrors = 1
SYMMETRY MCSymmetry
CHECK_DEADLOCK FALSE
INVARIANTS NothingLost DlqWithinMax
