SPECIFICATION Spec
CONSTANTS
    Tasks = {t1, t2, t3}
    NOTASK = NOTASK
    Files = {f1, f2}
    NoFile = NoFile
    Handles = {h1, h2, h3}
    SEMA_MAX = 2
    LockNames = {}
    NoLock = NoLock
    LOCK_MAX = 0
    OpenModes <- AppendModes
    Options = {}
INVARIANTS
    OneModifierPerFile
