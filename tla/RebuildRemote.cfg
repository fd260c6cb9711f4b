SPECIFICATION Spec
CONSTANTS
    Configs = {c1, c2}
    Inputs = {i1, i2}
    HasLocalInput = FALSE
    MaxRebuilds = 3
    MaxEdits = 1
    MaxFaults = 2
    None = None
    Corrupt = Corrupt
SYMMETRY Symmetry
INVARIANTS
    TypeOK
    InSyncIsDeployed
    SuccessIsActivation
PROPERTY
    AppliedOnlyAfterActivation
