SPECIFICATION ScreeningSpec
CONSTANTS
  resume = resume
  Item <- OneItem
  MaxTry = 2
  MaxRetry = 1
  MaxLost = 2
INVARIANT ItemSafety
PROPERTY EndedIsFinal
CHECK_DEADLOCK FALSE
