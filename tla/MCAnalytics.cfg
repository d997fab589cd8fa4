SPECIFICATION Spec
CONSTANTS
    Sessions = {s1, s2}
    Tools = {"Edit"}
    EditTools = {"Edit"}
    Files = {f1, f2}
    MaxEvents = 6
    MaxPrompts = 2
    MaxCalls = 2
    MaxNotices = 2
    MaxResponses = 1
    MaxLost = 1
SYMMETRY Symmetry
INVARIANTS
    CallsMeasured
    WaitsNest
    TurnsShareNothing
CHECK_DEADLOCK FALSE
