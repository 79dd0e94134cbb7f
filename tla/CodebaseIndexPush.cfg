SPECIFICATION Spec
CONSTANTS
    Requests = {r1}
    Workers = {w1}
    Nobody = Nobody
    MaxFaults = 0
INVARIANT JobIsQueued
