SPECIFICATION Spec
CONSTANTS
    s1 = s1
    s2 = s2
    t4 = t4
    Sessions = {s1, s2}
    Turns = {t1, t2, t3, t4}
    Stops = {}
    SessionOf <- OneSession
    Corrections = {}
    Directs = {}
    ChatStops = {}
    MaxLocks = 1
    MaxScan = 50
    None = none
INVARIANTS MutualExclusion
CHECK_DEADLOCK FALSE
