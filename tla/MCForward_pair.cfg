CONSTANTS
    A = A
    B = B
    C = C
    p = p
    q = q
    b = b
    Boxes = {A, B}
    Mails = {p, q}
    Personal = {p, q}
    Origins <- PairOrigins
    Route <- PairRoute
    Refused <- NoneRefused
    Sessions <- BothCall
    Ascii = {}
    Fbb <- BothCall
    Blocks = 2
    Leftover <- PairLeftover
    MaxBreak = 1
    MaxProp = 2
SPECIFICATION FairFSpec
INVARIANTS FTypeOK  StoredWhole
PROPERTIES  MailArrives
CHECK_DEADLOCK FALSE
