CONSTANTS
    A = A
    B = B
    C = C
    p = p
    q = q
    b = b
    Boxes = {A, B, C}
    Mails = {p, q, b}
    Personal = {p, q}
    Origins <- NetOrigins
    Route <- NetRoute
    Refused <- NetRefused
    Sessions <- NetSessions
    Ascii <- NetAscii
    Fbb <- NetSessions
    Blocks = 1
    Leftover = {}
    MaxBreak = 1
    MaxProp = 2
SPECIFICATION ASpec
INVARIANTS  OneReception
CHECK_DEADLOCK FALSE
