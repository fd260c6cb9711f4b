SPECIFICATION FairSpecFromFirst
CONSTANTS
    Closures = {c1, c2, bad}
    BadClosures = {bad}
    First = c1
    Services <- BothServices
    UnhealthyTicks = 2
    MaxRebuilds = 2
    MaxFaults = 2
    None = None
\* Without a supervisor (the first activation was killed) and with the
\* rebuilds used up, nothing happens any more.
CHECK_DEADLOCK FALSE
INVARIANTS TypeOK RoutesToPointer MarkerTruthful
PROPERTIES FlipKeepsServing ServiceRecovers
