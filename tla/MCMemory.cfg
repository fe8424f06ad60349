CONSTANTS
    Procs = {1, 2}
    NPages = 13
    LOW_PAGES_LIMIT = 2
    HIGH_PAGES_LIMIT = 5
    SwapBlocks = 2
    Binaries = {1, 2}
    ChunkPages = {1, 2, 3}
    Dedicated = {1}
    Top = 20
    Base = 4
    PageSize = 2
    Word = 2
    StringMax = 4
    AePage = 10
    AeMax = 20
    DevProcs = {1, 2}
    DevFds = {1, 2}
    Nodes = {1, 2, 3, 4, 5, 6}
    Rdev <- NodeTable
    Boots <- Systems
    Existing <- Attached
    MaxDrivers = 32
    MaxIrq = 16
    MemSize = 4
    Offsets <- Seeks
    DevCounts = {2}
    DevCalls = 5
SPECIFICATION Spec
CHECK_DEADLOCK FALSE
INVARIANTS
    
    PagesCounted
    NoPageWaitForgotten
    ChunksDisjoint
    UserMemorySound
    DevicesSound
