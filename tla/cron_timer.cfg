SPECIFICATION FairSpec
CONSTANTS
    every = every
    once = once
    note = note
    Jobs = {every, once, note}
    OneShots = {once, note}
    DeleteAfterRun = {note}
    Ticks = {k1, k2, k3}
    MaxRestarts = 1
    MaxStops = 1
    MaxErrors = 1
    None = none
INVARIANTS TypeOK OneTimer TimerSet SavedWhenIdle
PROPERTIES RemovedNeverStarts OneShotRunsOnce DueJobRuns
CHECK_DEADLOCK FALSE
