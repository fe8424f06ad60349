SPECIFICATION Spec
CONSTANTS
  Nobody = Nobody
  NoBlock = NoBlock
  Procs = {p1, p2, p3}
  Syncers = {}
  NBuf = 1
  Blocks <- ThreeBlocks
  Freeable <- FirstBlock
  Values = {0, 1}
  Zero = 0
  FlushBatch = 2
  ShrinkBatch = 2
  WriteErrors = FALSE
  Pressure = FALSE
PROPERTIES
  ImplementsStore
  WrittenBeforeReuse
SYMMETRY Perms
