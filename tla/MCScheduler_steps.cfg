SPECIFICATION FairSpec
CONSTANTS
    TASKS = 4
    NOTASK = NOTASK
    Crond = 1
INVARIANTS
    TypeOK
    EveryTaskPlaced
    RequestsDoNotCollide
PROPERTIES
    RunningIsNotFreed
    WaiterGoesOn
    
