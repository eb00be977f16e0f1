SPECIFICATION FairSpec
CONSTANTS
    M = 2
    MaxFrame = 1
    MaxRx = 9
    RxRoom = 4
    Retry = 4
    IPoll = FALSE
    DirectAck = FALSE
    Quersumme <- Sum3
    Quits <- NeverQuits
    NoInfo = NoInfo
    Stations = {A, B}
    A = A
    B = B
    Callers = {A}
    Modes = {2}
    MaxData <- NoData
    MaxAir = 1
    MaxSess = 2
    Restarts = {B}
    Readers = {}
    LinkTime = TRUE
    Patient = FALSE
INVARIANTS
    MessagesTell
PROPERTIES
    RequestsEnd
    HalfOpenEnds
CHECK_DEADLOCK FALSE
