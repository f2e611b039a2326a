SPECIFICATION Spec
CONSTANTS
  Sessions = {1, 2}
  Employees = {1, 2}
  Slots = {k1, k2}
  MaxAttempts = 2
  MaxDepth = 1
  MaxTries = 1
  MaxEditions = 1
  MaxFaults = 1
  Owners <- MCOwners
  Km <- MCKm
  Seconds <- MCSeconds
CHECK_DEADLOCK FALSE
INVARIANTS ClosedIsAccounted DayIsExact ReadersAgree
PROPERTIES ClosedSettles
