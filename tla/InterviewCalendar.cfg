SPECIFICATION Spec
CONSTANTS
  w1 = w1
  w2 = w2
  Procs <- MCProcs
  MaxPlan = 1
  OutboxTries = 2
SYMMETRY Symmetry
INVARIANTS CalendarSafety LedgerHonest
CHECK_DEADLOCK FALSE
