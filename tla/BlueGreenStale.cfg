SPECIFICATION Spec
CONSTANTS
    Closures = {c1, c2}
    BadClosures = {}
    First = c1
    Services <- OnlySelfContained
    UnhealthyTicks = 2
    MaxRebuilds = 2
    MaxFaults = 0
    None = None
PROPERTY RecordsDeployed
