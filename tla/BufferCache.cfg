SPECIFICATION Spec
CONSTANTS
  Nobody = Nobody
  NoBlock = NoBlock
  Procs = {p1, p2}
  Syncers = {p1, p2}
  NBuf = 2
  Blocks <- ThreeBlocks
  Freeable <- FirstBlock
  Values = {0}
  Zero = 0
  FlushBatch = 2
  ShrinkBatch = 2
  WriteErrors = TRUE
  Pressure = TRUE
SYMMETRY Perms
INVARIANTS
  BuffersSound
  NoLostWakeup
