SPECIFICATION FairSpec
CONSTANTS
    Jobs = {j1, j2}
    Repos = {}
    None = None
    Outsider = Canary
    MaxFlights = 2
    MaxEvents = 2
CHECK_DEADLOCK FALSE
INVARIANTS TypeOK ActiveIsPolled FailureTruthful
PROPERTY SpinnerClears
