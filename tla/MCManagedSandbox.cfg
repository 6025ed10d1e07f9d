CONSTANTS
    Window = 3
    Lag = 3
    MaxAttempts = 4
    MaxCleanups = 2
    Operations = {o1}
    Owners = {harness, drain}
    RetryTicks = 1
SPECIFICATION FairSpec
INVARIANTS
    TypeOK
    RemovalIsAlone
    OkMeansGone
PROPERTIES
    ImplementsPort
    NothingHangs
CHECK_DEADLOCK FALSE
