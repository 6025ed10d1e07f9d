SPECIFICATION FairSpec
CONSTANTS
    Operators = {o1, o2}
    MaxFaults = 1
    LateAppends = TRUE
INVARIANTS
    TypeOK
    NeverWedged
    ReleasedMeansGone
PROPERTIES
    SparesWorkflows
    InterruptedIsFinished
CHECK_DEADLOCK FALSE
