SPECIFICATION FairSpec
CONSTANTS
    Pages = {p1}
    MaxBuilds = 1
    MaxEvents = 0
PROPERTY RestoreCompletes
CHECK_DEADLOCK FALSE
