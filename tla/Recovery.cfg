SPECIFICATION RecoverySpec
CONSTANTS
  Nothing = Nothing
  Stopped = Stopped
  Applicants = {c}
  Window = 1
  PageAfter = 1
  LastTime = 4
  MaxRuns = 3
  MaxKeys = 2
  JobAttempts = 2
  MaxCalls = 2
INVARIANTS FreshIsRestorable RecoverySafety
PROPERTIES RedeletionEnds KeepsOrder
CHECK_DEADLOCK FALSE
