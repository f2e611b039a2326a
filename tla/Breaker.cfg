SPECIFICATION Spec
CONSTANTS
  Webhooks = {w1}
  Slots = {k1}
  Threshold = 2
  MaxDeliveries = 3
  MaxAdminOps = 1
  MaxRestarts = 1
  MaxFlushes = 1
  MaxIoErrors = 1
CHECK_DEADLOCK FALSE
INVARIANT StrandedOnlyByAdmin
PROPERTIES ScannerEnablesOpenOnly BreakerReenables
