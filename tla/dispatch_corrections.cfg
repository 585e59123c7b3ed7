SPECIFICATION FairSpec
CONSTANTS
    s1 = s1
    s2 = s2
    t4 = t4
    Sessions = {s1, s2}
    Turns = {t1, t2, t3, t4}
    Stops = {x1}
    SessionOf <- OneSession
    Corrections = {t2, t3}
    Directs = {t4}
    ChatStops = {x1}
    MaxLocks = 1
    MaxScan = 50
    None = none
INVARIANTS NobodyLost OrderMatchesLocks
PROPERTIES TurnsEnd
CHECK_DEADLOCK FALSE
