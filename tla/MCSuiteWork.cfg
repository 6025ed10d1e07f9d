SPECIFICATION FairSpec
CONSTANTS
    PollFailures = 3
    ReadAttempts = 2
    SetupTries = 2
    CollectTries = 3
INVARIANTS
    TypeOK
    ReportIsOwn
    SuccessIsEarned
PROPERTIES
    DeadSandboxIsNoticed
    SuiteEnds
CHECK_DEADLOCK FALSE
