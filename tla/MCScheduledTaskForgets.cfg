SPECIFICATION FairSpec
CONSTANTS
    r1 = r1
    r2 = r2
    q1 = q1
    often = often
    seldom = seldom
    Replicas = {r1, r2}
    Requests = {q1}
    Crons = {often}
    None = None
    Horizon = 3
    Instants <- MCEveryRound
    Cap = 2
    Lag = 1
    MaxFaults = 2
PROPERTY StoppedTaskIsForgotten
