SPECIFICATION Spec
CONSTANTS
    Fires = {r1, r2}
    Dirs <- MCDirs
    Parent <- MCParent
    Roots = {"project"}
    Unwatchable = {"home"}
    MaxDynamic = 1
    NoWrite = "none"
INVARIANT WritesWatchedOnce
PROPERTY ScriptsEnd
CHECK_DEADLOCK FALSE
