SPECIFICATION Spec
CONSTANTS
    M = 4
    MaxFrame = 3
    MaxRx = 9
    RxRoom = 4
    Retry = 2
    IPoll = FALSE
    DirectAck = FALSE
    Quersumme <- Sum3
    Quits <- NeverQuits
    NoInfo = NoInfo
    Stations = {A, B}
    A = A
    B = B
    Callers = {A}
    Modes = {2}
    MaxData <- OneWay
    MaxAir = 2
    MaxSess = 1
    Restarts = {}
    Readers = {}
    LinkTime = FALSE
    Patient = FALSE
INVARIANTS
    TypeOK
    WindowHeld
PROPERTIES
    StreamKept
CHECK_DEADLOCK FALSE
