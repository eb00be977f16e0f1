CONSTANTS
    FileLen = 4
    BlockLen = 2
    DebugBuild = FALSE
    MaxLost = 1
    MaxSessions = 2
SPECIFICATION DidaditSpec
PROPERTY
    RepairArrives
CHECK_DEADLOCK FALSE
