CONSTANTS
    Sandboxes = {s1, s2}
    Attempts = 2
SPECIFICATION Spec
SYMMETRY Symmetry
INVARIANTS
    TypeOK
    LiveIsOwned
    SuccessLeavesNothing
    DestroyIsIdempotent
    HandlersGuardOwnership
CHECK_DEADLOCK FALSE
