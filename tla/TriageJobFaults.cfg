SPECIFICATION FairSpec
CONSTANTS
    Clients = {c1}
    Requests = {"answer"}
    MaxRequests = 1
    MaxAsked = 1
    MaxFaults = 1
INVARIANT TypeOK
INVARIANT WaitCanEnd
PROPERTY EveryWaitEnds
PROPERTY NewsSpec
CHECK_DEADLOCK FALSE
