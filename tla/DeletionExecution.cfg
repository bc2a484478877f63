SPECIFICATION FairSpec
CONSTANTS
  p1 = p1  p2 = p2  f1 = f1  x = x  r1 = r1  r2 = r2  a = a
  u1 = u1  u2 = u2  None = None
  Procs <- TwoProcs
  Files = {f1}
  Export = x
  Rows <- OneRow
  AppRow = a
  Users <- MCUsers
  MaxAttempts = 2
  MaxManifest = 5
  MaxVersion = 4
  MaxEdits = 2
  StaleHandlers = FALSE
INVARIANT DeletionSafety
PROPERTIES NothingDeletedUnderHold ExecutionEnds KeepsContract KeepsOrder
CHECK_DEADLOCK FALSE
