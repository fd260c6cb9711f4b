SPECIFICATION FairSpec
CONSTANTS
    Sections = {system, storage}
    InPlace = {system}
    Whole = {system}
    Merged = {storage}
    Written = {system, storage}
    MaxChanges = 2
    MaxApplies = 1
    MaxFaults = 2
    None = None
    system = system
    storage = storage
CHECK_DEADLOCK FALSE
INVARIANTS TypeOK EditsReachDisk
PROPERTIES BuildsWhatWasAsked EditSettles ViewFollowsDisk
