SPECIFICATION FairSpec
CONSTANTS
    Events = {e1, e2}
    Callers = {drain, main, k1}
    Drain = drain
    Main = main
    NoEvent = NoEvent
    MaxFaults = 0
    MaxMishaps = 0
    Commands = {"backup"}
PROPERTY BackupAnswered
CHECK_DEADLOCK FALSE
