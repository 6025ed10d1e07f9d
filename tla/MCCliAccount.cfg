SPECIFICATION Spec
CONSTANTS
    Callers = {c1, c2}
    Drivers = {d1, d2}
    Machines = {c1, c2, stray}
INVARIANTS
    TypeOK
    ProfileHasOneOwner
    FailuresAreOwn
    CleanMeansAbsent
    SettledMeansClear
    DestroysAreAuthorized
PROPERTIES
    CallsKeepPort
    CallsSettle
CHECK_DEADLOCK FALSE
