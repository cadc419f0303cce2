SPECIFICATION Spec
CONSTANTS
    c1 = c1
    c2 = c2
    c3 = c3
    r1 = r1
    r2 = r2
    Callers <- MCCallers
    Replicas <- MCReplicas
    Host <- MCHost
    Limit = 1
    MaxFailures = 0
    TtlOutlivesCalls = TRUE
INVARIANT
    ActiveWithinLimit
