SPECIFICATION LoopSpec
CONSTANTS
    s1 = s1
    s2 = s2
    t4 = t4
    Sessions = {s1, s2}
    Turns = {t1, t2, t3}
    Stops = {x1, x2}
    SessionOf <- OneSession
    Corrections = {}
    Directs = {t3}
    ChatStops = {x1}
    MaxLocks = 2
    MaxScan = 50
    None = none
INVARIANTS TypeOK MutualExclusion StopLeavesNothing
PROPERTIES ArrivalOrder StoppedNeverRuns StopAnswers
CHECK_DEADLOCK FALSE
