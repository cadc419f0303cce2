SPECIFICATION Spec
CONSTANTS
    r1 = r1
    r2 = r2
    e1 = e1
    c1 = c1
    c2 = c2
    Replicas = {r1, r2}
    Emitters = {e1}
    Connections = {c1, c2}
    None = None
    HistoryCap = 1
    MaxEvents = 2
    MaxFaults = 2
    home <- MCHome
INVARIANTS TypeOK NoGap CaughtUp ChannelFollowsListeners
SYMMETRY Symmetry
CHECK_DEADLOCK FALSE
CONSTRAINT Bounds
