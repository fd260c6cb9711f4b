SPECIFICATION FairSpec
CONSTANTS
    Jobs = {j1, j2}
    Repos = {r1}
    MaxEvents = 1
    MaxFaults = 2
    None = None
    Canary = Canary
\* Every job has been used and has ended.
CHECK_DEADLOCK FALSE
PROPERTY JobSettles
