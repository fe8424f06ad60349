SPECIFICATION MCSpec
CONSTANTS
  MaxKpid = 4
  MaxPid = 4
  Dispositions <- All
  MaxChildren = 3
  Masks <- Either
  Changing <- FirstSlot
  SigProcs = {2, 3}
  ParentOf <- MCParent
  Sigs = {9, 16, 18, 28}
  SigMenus <- MCMenus
INVARIANTS
  FamilyTies
  SleepersInformed
PROPERTY
  ImplementsFamily
CHECK_DEADLOCK FALSE
