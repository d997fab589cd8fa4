SPECIFICATION Spec
CONSTANTS
    Events = {e1, e2}
    Callers = {c1, c2}
    NoEvent = NoEvent
    MaxFaults = 1
SYMMETRY Symmetry
INVARIANTS MirrorFollowsStore SameOrder MirrorComplete BackupMirrorCovers InductiveInv
PROPERTIES ImplementsEventLog ImplementsTable
CHECK_DEADLOCK FALSE
