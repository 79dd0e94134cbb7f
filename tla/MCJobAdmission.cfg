CONSTANTS
    Requests = {r1, r2, r3}
    Issues = {i1, i2}
    Limit = 1
    NoJob = NoJob
    MaxMishaps = 1
SPECIFICATION Spec
INVARIANTS TypeOK CounterCounts LiveHolds NothingLeftBehind OneJobPerIssue
PROPERTY QuotaSpec
SYMMETRY Symmetry
CHECK_DEADLOCK FALSE
