SPECIFICATION FairSpec
CONSTANTS
    r1 = r1
    r2 = r2
    q1 = q1
    both = both
    broken = broken
    mute = mute
    Replicas = {r1, r2}
    Requests = {q1}
    Settings = {both, broken, mute}
    Run <- MCRun
    Renew <- MCRenew
    None = None
    MaxFaults = 1
INVARIANTS TypeOK NoTickOfStoppedBinding SettledBindingWorks NoRunWithoutRenewal
PROPERTY StoppedBindingIsForgotten
CHECK_DEADLOCK FALSE
