SPECIFICATION FairSpec
CONSTANTS
    Events = {e1, e2, e3}
    Times = {0, 1}
    Since = 1
    Limit = 2
    MaxResets = 1
INVARIANTS PrintedInOrder NothingPassed
PROPERTY EverythingPrinted
CHECK_DEADLOCK FALSE
