SPECIFICATION Spec
CONSTANTS
    Clients = {c1, c2}
    Requests = {"pause", "resume", "redirect", "kill", "comment", "gqlPause", "gqlResume"}
    MaxRequests = 2
    MaxAsked = 1
    MaxFaults = 0
INVARIANT SlotReturned
CHECK_DEADLOCK FALSE
