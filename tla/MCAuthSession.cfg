SPECIFICATION Spec
CONSTANTS
    Tabs = {t1, t2}
    Requests = {q1, q2}
    NoRequest = NoRequest
    AccessLife = 2
    Leeway = 1
    MaxLogins = 2
    MaxTokens = 2
    MaxTime = 2
    MaxFaults = 1
SYMMETRY Symmetry
CHECK_DEADLOCK FALSE
INVARIANT TypeOK
INVARIANT OneSessionPerLogin
INVARIANT EndedStaysEnded
INVARIANT RevokedStaysRefused
INVARIANT SessionHasGitHub
