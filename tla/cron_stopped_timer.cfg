SPECIFICATION FairSpec
CONSTANTS
    every = every
    once = once
    note = note
    Jobs = {every, once}
    OneShots = {once}
    DeleteAfterRun = {once}
    Ticks = {k1, k2, k3}
    MaxRestarts = 0
    MaxStops = 1
    MaxErrors = 0
    None = none
PROPERTIES RecurringJobsRecur
CHECK_DEADLOCK FALSE
