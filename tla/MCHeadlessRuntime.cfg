SPECIFICATION FairSpec
CONSTANTS
    Callers = {c1, c2, c3}
    Boxes = {0}
    Sandboxes = {s1, s2, s3}
    NoSandbox = NoSandbox
INVARIANTS
    TypeOK
    OneOperationPerBox
    NoOrphanedEngine
    NotShutDownWhileRunning
    TimeoutIsHeard
    MemoryVerdictExplained
PROPERTIES
    ServesInOrder
    EveryCallSettles
