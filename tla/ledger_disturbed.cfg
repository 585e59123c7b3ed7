SPECIFICATION FairSpec
CONSTANTS
    Events = {e1}
    Expiring = {e1}
    Tools = {}
    Operators = {op}
    Dispatcher = dispatcher
    Agent = agent
    NoEvent = none
    Verified = TRUE
    BatchSize = 1
    MaxAttempts = 2
    MaxRequests = 1
    MaxCrashes = 1
    MaxDisturbances = 1
INVARIANTS TypeOK SentWasAccepted HandoffsCharged AttemptsGranted
PROPERTIES EventsSettle
