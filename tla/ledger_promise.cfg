SPECIFICATION CalmSpec
CONSTANTS
    Events = {e1, e2}
    Expiring = {e2}
    Tools = {t1}
    Operators = {}
    Dispatcher = dispatcher
    Agent = agent
    NoEvent = none
    Verified = TRUE
    BatchSize = 2
    MaxAttempts = 2
    MaxRequests = 0
    MaxCrashes = 0
    MaxDisturbances = 0
INVARIANTS QuietMatchesGate
PROPERTIES KeepsPromise TaskConcludes
