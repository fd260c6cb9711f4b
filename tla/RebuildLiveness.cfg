SPECIFICATION FairSpec
CONSTANTS
    Configs = {c1, c2}
    Inputs = {i1, i2}
    HasLocalInput = TRUE
    MaxRebuilds = 2
    MaxEdits = 1
    MaxFaults = 2
    None = None
    Corrupt = Corrupt
PROPERTY
    RebuildSettles
