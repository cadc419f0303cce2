SPECIFICATION Spec
CONSTANTS
    c1 = c1
    c2 = c2
    c3 = c3
    r1 = r1
    r2 = r2
    Callers <- MCCallers
    Replicas <- MCReplicas
    Host <- MCHost
    Limit = 2
    MaxFailures = 2
    TtlOutlivesCalls = FALSE
INVARIANTS
    TypeOK
    NeverOverstates
    IdleMeansClean
    PositiveCountExpires
PROPERTY
    RejectionJustified
