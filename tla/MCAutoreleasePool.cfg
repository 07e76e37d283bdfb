SPECIFICATION FairSpec
CONSTANTS
    Obj = {o1, o2}
    POOL_BOUNDARY = POOL_BOUNDARY
    COUNT = 3
    Modes <- AllModes
    UnbalancedModes <- NotPerPool
    MaxEntries = 7
    MaxPops = 2
INVARIANTS
    TypeOK
    ReleaseUntilSound
    NoPrematureFree
    PagesKept
PROPERTIES
    ImplementsStack
    PopReturns
