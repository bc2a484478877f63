SPECIFICATION Spec
CONSTANTS
  w1 = w1  w2 = w2
  Workers <- TwoWorkers
  MaxEvents = 2
  MaxAttempts = 2
  MaxLapses = 1
  MaxChanges = 1
SYMMETRY Symmetry
INVARIANTS OneRealRequest LedgerKnows
PROPERTY StopIsFinal
CHECK_DEADLOCK FALSE
