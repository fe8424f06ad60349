SPECIFICATION Spec
CONSTANTS
  None = None
  NProc = 3
  Word = 64
  Values = {1, 2}
  Periods = {0}
  RearmHead = TRUE
  MaxTicks = 6
CHECK_DEADLOCK FALSE
INVARIANT
  NextToExpireIsHead
