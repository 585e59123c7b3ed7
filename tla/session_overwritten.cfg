SPECIFICATION Spec
CONSTANTS
    Archivists = {a1}
    Consolidator = consolidator
    None = none
    Window = 2
    MaxMessages = 4
    MaxNews = 0
    MaxStuck = 1
    MaxDrops = 0
    MaxFailures = 0
INVARIANTS SavedIsKept
CHECK_DEADLOCK FALSE
