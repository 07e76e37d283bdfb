SPECIFICATION FairSpec
CONSTANTS
    Thread = {t1, t2}
    o1 = o1
    o2 = o2
    Obj = {o1, o2}
    NoThread = NoThread
    Clients = {"careful", "careless"}
    Nest <- Ordered
    MaxCount <- Bounds
    MaxUsers = 2
INVARIANTS
    TypeOK
    OneLockPerObject
    UsersCounted
    BlockedByHolder
PROPERTIES
    ImplementsLocks
    EnterReturns
CHECK_DEADLOCK FALSE
