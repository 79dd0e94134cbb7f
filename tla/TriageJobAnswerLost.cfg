SPECIFICATION Spec
CONSTANTS
    Clients = {c1}
    Requests = {"answer"}
    MaxRequests = 1
    MaxAsked = 1
    MaxFaults = 0
INVARIANT RunningIsWorkedOn
CHECK_DEADLOCK FALSE
