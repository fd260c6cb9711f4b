SPECIFICATION Spec
CONSTANTS
    Jobs = {j1, j2}
    Repos = {r1, r2}
    MaxEvents = 1
    MaxFaults = 2
    None = None
    Canary = Canary
\* Every job has been used and has ended.
CHECK_DEADLOCK FALSE
SYMMETRY Symmetry
INVARIANTS TypeOK RestoresSerial TimersRestored DoneIsComplete
PROPERTIES TimerSparesRestore KeepsPromises
