SPECIFICATION RadioSpec
CONSTANTS
    M = 3
    MaxFrame = 2
    MaxRx = 0
    RxRoom = 3
    Retry = 3
    IPoll = FALSE
    DirectAck = FALSE
    Quersumme <- Sum3
    Quits <- NeverQuits
    NoInfo = NoInfo
    Stations = {A, B}
    A = A
    B = B
    Callers = {A}
    Modes = {}
    MaxData <- ThreePieces
    MaxAir = 2
    MaxSess = 1
    Restarts = {}
    Readers = {B}
    LinkTime = FALSE
    Patient = TRUE
INVARIANTS
    NothingDropped
PROPERTIES
    DataArrive
CHECK_DEADLOCK FALSE
