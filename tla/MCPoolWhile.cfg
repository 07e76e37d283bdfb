SPECIFICATION Spec
CONSTANTS
    Obj = {o1, o2}
    POOL_BOUNDARY = POOL_BOUNDARY
    COUNT = 3
    Modes <- OnlyPerPool
    UnbalancedModes <- OnlyPerPool
    MaxEntries = 6
    MaxPops = 2
INVARIANTS
    WhileCanBeIf
