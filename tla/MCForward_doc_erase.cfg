CONSTANTS
    A = A
    B = B
    C = C
    p = p
    q = q
    b = b
    Boxes = {A, B}
    Mails = {p, q}
    Personal = {p, q}
    Origins <- LoopOrigins
    Route <- LoopRoute
    Refused <- NoneRefused
    Sessions <- BothCall
    Ascii = {}
    Fbb <- BothCall
    Blocks = 1
    Leftover = {}
    MaxBreak = 0
    MaxProp = 2
SPECIFICATION FSpec
PROPERTY NotSilentlyErased
CHECK_DEADLOCK FALSE
