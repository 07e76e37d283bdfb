SPECIFICATION Spec
CONSTANTS
    Thread = {t1, t2}
    NoThread = NoThread
    Class = {A, R}
    RawClass = {R}
    RC_HALF = 2
    MaxHeld = 4
    SpuriousFailure = TRUE
SYMMETRY ThreadSymmetry
INVARIANTS
    TypeOK
    CountConserved
    RetainCountExact
    RuntimeAsserts
    OnlyDeallocatorHolds
    NoUseAfterFree
    NothingLeftBehind
    WeakConsistent
PROPERTIES
    ImplementsLifetime
