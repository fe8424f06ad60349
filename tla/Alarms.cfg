SPECIFICATION Spec
CONSTANTS
  None = None
  NProc = 3
  Word = 64
  Values = {2}
  Periods = {0, 2}
  RearmHead = FALSE
  MaxTicks = 8
INVARIANTS
  ListSound
  NeverLate
PROPERTY
  ImplementsClock
