SPECIFICATION FairSpec
CONSTANTS
    c1 = c1
    c2 = c2
    Callers = {c1, c2}
    None = None
    Gone = Gone
    MaxGrants = 2
    MaxGen = 1
    MaxFaults = 1
INVARIANTS TypeOK OneRowPerConnection StoredTokenIsCurrent ErrorIsEarned
CHECK_DEADLOCK FALSE
PROPERTY EveryCallReturns
