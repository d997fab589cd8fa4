SPECIFICATION SpecSettings
CONSTANTS
    Hooks = {h1, h2}
    Actors = {a1, a2}
    MaxChanges = 4
SYMMETRY Symmetry
INVARIANT SettingsKept
CHECK_DEADLOCK FALSE
