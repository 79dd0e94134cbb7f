SPECIFICATION CalmSpec
CONSTANTS
    Clients = {c1}
    Requests = {"answer", "pause", "resume", "redirect", "kill", "comment", "gqlPause", "gqlResume"}
    MaxRequests = 4
    MaxAsked = 2
    MaxFaults = 0
INVARIANT SlotReturned
INVARIANT DoneHasReport
INVARIANT OneAnswerPerQuestion
PROPERTY ThreadSpec
PROPERTY NewsSpec
CHECK_DEADLOCK FALSE
