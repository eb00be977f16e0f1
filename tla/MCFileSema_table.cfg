SPECIFICATION FairSpec
CONSTANTS
    Tasks = {t1, t2}
    NOTASK = NOTASK
    Files = {f1, f2}
    NoFile = NoFile
    Handles = {h1, h2}
    SEMA_MAX = 2
    LockNames = {l1}
    NoLock = NoLock
    LOCK_MAX = 2
    OpenModes <- WaitModes
    Options = {2}
INVARIANTS
    TypeOK
    
    NamedIffUsed
    ShortModifierExclusive
    GoneHoldsNothing
    LockHasOneOwner
PROPERTIES
    AdmittedWhenQuiet
    DeletesMatchOptions
    WaiterServed
