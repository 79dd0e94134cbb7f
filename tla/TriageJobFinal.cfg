SPECIFICATION CalmSpec
CONSTANTS
    Clients = {c1}
    Requests = {"answer", "kill"}
    MaxRequests = 2
    MaxAsked = 1
    MaxFaults = 0
PROPERTY TerminalIsFinal
CHECK_DEADLOCK FALSE
