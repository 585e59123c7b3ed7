SPECIFICATION FairSpec
CONSTANTS
    Steps = {read, notice}
    Replayable = {read}
    Notice = notice
    Verified = TRUE
    MaxDisturbances = 2
INVARIANTS TypeOK ConcludedByGate
PROPERTIES ReplayStartsSafe NothingForgotten
CHECK_DEADLOCK FALSE
