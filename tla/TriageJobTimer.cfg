SPECIFICATION CalmSpec
CONSTANTS
    Clients = {c1}
    Requests = {"answer"}
    MaxRequests = 1
    MaxAsked = 2
    MaxFaults = 0
INVARIANT EveryWaitHasTimer
CHECK_DEADLOCK FALSE
