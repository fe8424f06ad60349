CONSTANTS
  Procs = {1, 2, 3}
  Slots = {1, 2, 3, 4}
  Dinodes = {1, 2, 3, 4, 5}
  Fds = {1, 2}
  Ufds = {0, 1}
  Uid <- MCUid
  OthersMay = {"r", "x"}
  DirMax = 4
  Menus <- MCMenus
  Live = {1, 2}
  FirstDisk <- MCDisk
  FirstDent <- MCDent
SPECIFICATION Spec
INVARIANTS TablesExact NoSleeperForgotten LinksExact TextSafe
CHECK_DEADLOCK FALSE
