SPECIFICATION FairSpec
CONSTANTS
    MaxMessages = 3
    Strays = {2}
    Capacity = 2
    MaxTries = 2
    MaxCalls = 2
    MaxFailures = 2
    None = none
INVARIANTS TypeOK HandedOnce OvertakenIfRequeued OneListener
PROPERTIES GivenUpForCause MessagesEnd
CHECK_DEADLOCK FALSE
