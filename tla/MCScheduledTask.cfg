SPECIFICATION Spec
CONSTANTS
    r1 = r1
    r2 = r2
    q1 = q1
    often = often
    seldom = seldom
    Replicas = {r1, r2}
    Requests = {q1}
    Crons = {often, seldom}
    None = None
    Horizon = 8
    Instants <- MCInstants
    Cap = 2
    Lag = 1
    MaxFaults = 2
INVARIANTS TypeOK OneRunPerTick EveryTickRuns NoRunOfStoppedTask
SYMMETRY Symmetry
