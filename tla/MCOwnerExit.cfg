CONSTANTS
    Sandboxes = {s1}
    Attempts = 3
SPECIFICATION FairSpec
PROPERTY ExitHappens
CHECK_DEADLOCK FALSE
