SPECIFICATION FairSpec
CONSTANTS
    Events = {e1, e2}
    Callers = {drain, main, k1}
    Drain = drain
    Main = main
    NoEvent = NoEvent
    MaxFaults = 1
    MaxMishaps = 1
    Commands = {"clear"}
INVARIANTS DaemonTypeOK NothingLostWhileServing StopLosesAtMostOne EmissionOrder
PROPERTIES StoreContract QueuedIsRecorded NobodyWaits
CHECK_DEADLOCK FALSE
