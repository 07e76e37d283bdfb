SPECIFICATION FairSpec
CONSTANTS
    Thread = {t1, t2}
    Root = Root
    A = A
    B = B
    C = C
    D = D
    Class = {Root, A, B, C, D}
    None = None
    Super <- Hierarchy
    Messages <- Sends
    Trivial = {Root, D}
    Callback = {f}
    MayFork = TRUE
INVARIANTS
    TypeOK
    Contiguous
    NeverBuggy
    CallbackOnce
PROPERTIES
    OthersWait
    MessagesReturn
CHECK_DEADLOCK FALSE
