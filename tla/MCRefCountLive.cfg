SPECIFICATION FairSpec
CONSTANTS
    Thread = {t1, t2}
    NoThread = NoThread
    Class = {A, R}
    RawClass = {R}
    RC_HALF = 1
    MaxHeld = 2
    SpuriousFailure = FALSE
PROPERTIES
    CallsReturn
    DroppedIsFreed
