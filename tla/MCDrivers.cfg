CONSTANTS
    Callers = {1, 2}
    Cylinders = 2
    Heads = 4
    Spt = 3
    IdeHeads = 2
    Spb = 2
    UintRange = 256
    Tables <- Geometry
    HddRequests <- HddWork
    MAX_RESET_RETRIES = 2
    MAX_COMMAND_RETRIES = 2
    MAX_RW_RETRIES = 2
    HddFaults = 3
    Users = {1, 2}
    Tracks = 2
    Sides = 2
    FddSpb = 2
    ReadOnly = {1}
    FddRequests <- FddWork
    MAX_FLOPPY_ERRORS = 2
    StopTicks = 2
    Opens = 1
    FddFaults = 3
    TtyProcs = {1, 2}
    Leader = 1
    MaxInput = 6
    TtyMenus <- TtyWork
    Counts = {2}
    Screens = {0, 1}
    Lines = 3
    Columns = 4
    TabStop = 2
    VideoWrap = 9
    VideoCells = 25
    Scripts <- ScreenWork
    KeyTtys = {0, 1}
    KeyMenu <- KeyWork
    KlogProcs = {1, 2}
    KlogSize = 4
    KlogLengths = {1, 3}
    KlogCounts = {1, 2, 4}
    KlogBytes = 9
    LpUsers = {1, 2}
    LpLengths = {2}
    LpCalls = 3
    LpFaults = 2
SPECIFICATION Spec
CHECK_DEADLOCK FALSE
INVARIANTS
    DisksExact
    TerminalSound
    StreamsExact
PROPERTY
    DisksComeToRest
    ImplementsTypeAhead
