SPECIFICATION Spec
CONSTANTS
    Mode = {"default", "tracking"}
    Source0 = {3, 4}
    Source1 = {2}
    modeOf <- ModeOf
    Thread = {t1}
    MaxCalls = 2
    MaxRuns = 2
    MaxDepth = 2
    NestedStopAfter = {FALSE}
    NestAnywhere = TRUE
INVARIANT NoWakeUpLost
CHECK_DEADLOCK FALSE
