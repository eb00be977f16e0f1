CONSTANTS
    Parts = {"didadit", "huffman", "users", "routing", "lists", "memory"}
    FileLen = 6
    BlockLen = 2
    DebugBuild = TRUE
    MaxLost = 5
    MaxSessions = 3
    NChars = 2
    F = 3
    Threshold = 1
    N2 = 8
    N4 = 16
    MaxFreq = 9
    MaxText = 9
    Calls = {"a", "b"}
    Users = {"s", "t"}
    CacheSize = 1
    MaxNow = 2
    MaxVersion = 1
    Boxes <- Triangle
    Dest = "d"
    Partners <- Near
    Neighbours <- Mesh
    Measured <- Qualities
    HopCost = 1
    MinRouting = 9
    MaxAge = 1
    MaxClock = 3
    ListTasks = {"l1", "l2"}
    Members = {"a", "s"}
    Sysops = {"s"}
    ListNames = {"g"}
    FirstLists <- Lists
    SysopCreates = FALSE
    MaxCommands = 3
    Numbers = {"m1", "m2", "m3"}
    MaxBlks = 3
    MaxPending = 3
SPECIFICATION Spec
INVARIANTS
    
    RoundTrip
    UsersFound
    
    SentToGroup
    LinesAndBuffers
PROPERTIES
    OneChangeEach
CHECK_DEADLOCK FALSE
