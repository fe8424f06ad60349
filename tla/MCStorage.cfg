CONSTANTS
    Users = {1, 2}
    s_clusters = 3
    s_icluster = 2
    s_bcluster = 2
    s_blcluster = 2
    HEAD = 2
    ITABLE = 0
    ReadErrors = 1
    DIRECT_BLOCKS = 1
    BLOCKS_PER_IBLOCK = 2
    s_blksz = 2
    Blocks = {1, 2, 3, 4, 5, 6, 7, 8, 9, 10, 11, 12, 13, 14, 15, 16}
    Bytes = {0, 1, 2, 3, 4}
    Readers = {1, 2}
    NBuf = 8
    Admins = {1, 2}
    Devices = {1, 2}
    SwapDevice = 2
    Dirs = {1, 2}
    MaxMounts = 2
    VmDevs = {0, 1}
    DIRENTS = 4
SPECIFICATION Spec
CHECK_DEADLOCK FALSE
INVARIANTS
    AllocationSound
    FilesExact
    RequestsExact
    
    FsckSound
    SuperblocksAgree
