SPECIFICATION MCSpec
CONSTANTS
  Claims = {e1, e2}
  Reviewers = {v1, v2}
  Slots = {k1, k2}
  MaxAttempts = 2
  MaxReviews = 2
  MaxFaults = 2
  Processes = {v1, v2}
  TTL = 2
  MaxVersion = 2
  Clients = {r1, r2, r3}
  MaxConnections = 2
  Calls = {r1, r2, r3}
  MaxSessions = 3
  Requests = {r1, r2, r3}
  Window = 2
  KeyMax = 1
  OrgMax = 2
  MaxNow = 2
  MaxRedisErrors = 2
  Employed = 2
  Admins = {v1, v2}
  Recent = 1
  PageSizes = {1, 2}
  MaxSwitches = 2
  Callers = {c1}
  Managers = {v1, v2}
  ScopeSets = {{"read:sessions"}, {"admin:all"}}
  MaxEdits = 2
  Times = {1, 2, 3, 4, 5}
  Places = {0, 2}
  ChunkSize = 2
  MaxPoints = 4
  Messages = {m1}
  Retriers = {v1, v2}
  MaxTries = 2
  MaxManual = 2
  MaxEdition = 2
  MaxRedeliveries = 1
SYMMETRY MCSymmetry
CHECK_DEADLOCK FALSE
INVARIANTS TypeOK DecidedOnce PendingFollows SumFollows StaleAtMostTwoTTL SweptIsFresh SlotsAreListeners StartsAgree WithinWindow RefusedJustly SegmentsPartition BanFollows ServedAsOrdered CountersFollow StreamIsExact SecretAsDocumented
