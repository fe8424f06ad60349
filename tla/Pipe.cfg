SPECIFICATION Spec
CONSTANTS
  Nobody = Nobody
  Readers = {r1, r2}
  Writers = {w1, w2}
  NonBlocking = {TRUE, FALSE}
  Kinds = {TRUE, FALSE}
  Openers = 1
  Bytes = {zero, one}
  MaxCount = 2
  PipeBuf = 4
  BlkSz = 2
  ReadCounts = {3}
  WriteCounts = {3, 5}
SYMMETRY Symmetry
INVARIANTS
  PipeSound
PROPERTIES
  ImplementsStream
  AtomicWrites
CHECK_DEADLOCK FALSE
