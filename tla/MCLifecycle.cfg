SPECIFICATION SpecLifecycle
CONSTANTS
    Procs = {p1, p2, p3, p4}
    Clis = {c1}
    NoProc = NoProc
    SlowStart = FALSE
    Unlinking = {p1, p3}
    MaxSignals = 1
INVARIANTS OneStore Reachable
PROPERTY StopLeavesNothing
CHECK_DEADLOCK FALSE
