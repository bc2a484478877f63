SPECIFICATION Spec
CONSTANTS
  None = None
  System = System
  Applications = {1, 2}
  Pools = {p, q}
  Values <- MCValues
  LastFact = 1
  MaxDays = 2
  LastDay = 3
  MaxActs = 3
  MaxAttempts = 1
INVARIANT DueIffOver
PROPERTIES SweptIsOver ShorteningWasSeen SweepsReach
CHECK_DEADLOCK FALSE
