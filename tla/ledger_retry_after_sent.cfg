SPECIFICATION Spec
CONSTANTS
    Events = {e1}
    Expiring = {}
    Tools = {}
    Operators = {op}
    Dispatcher = dispatcher
    Agent = agent
    NoEvent = none
    Verified = TRUE
    BatchSize = 1
    MaxAttempts = 1
    MaxRequests = 1
    MaxCrashes = 0
    MaxDisturbances = 1
PROPERTIES SentNotRetried
