SPECIFICATION Spec
CONSTANTS
    Reader = {r1}
    Sel <- Selectors
    Replaceable = {6}
    Version = {1, 2}
    Table = {1, 2}
    Builds = {TRUE, FALSE}
    MAX_CACHE_SIZE = 8
    MaxFlushed = 1
INVARIANTS
    TypeOK
    NoDeadRead
    LookupRight
    AlwaysEmptySlot
