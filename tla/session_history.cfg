SPECIFICATION FairSpec
CONSTANTS
    Archivists = {a1}
    Consolidator = consolidator
    None = none
    Window = 2
    MaxMessages = 3
    MaxNews = 1
    MaxStuck = 1
    MaxDrops = 1
    MaxFailures = 1
INVARIANTS TypeOK NothingLost SummarisedOnce ClearedStaysCleared InOrder
PROPERTIES JobsEnd
CHECK_DEADLOCK FALSE
