SPECIFICATION Spec
CONSTANTS
    Launchers = {l1, l2}
    NoOne = NoOne
    MaxFaults = 2
    MaxKills = 2
    MaxUnloads = 1
INVARIANTS
    OverlaysAccounted
    EndedClean
    UnloadCleans
PROPERTIES
    OnlyOwnModule
CHECK_DEADLOCK FALSE
