SPECIFICATION FairSpec
CONSTANTS
    Requests = {r1, r2}
    Workers = {w1, w2}
    Nobody = Nobody
    MaxFaults = 2
INVARIANT TypeOK
INVARIANT OneBuilder
INVARIANT NoLockLeft
PROPERTY IndexComes
