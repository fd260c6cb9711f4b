SPECIFICATION Spec
CONSTANTS
    Disks = {d1, d2}
    Names = {tank, vault}
    ParityMin = 2
    MaxVolumes = 2
    MaxEvents = 3
\* Every volume that may be created has been, and the events are used up.
CHECK_DEADLOCK FALSE
SYMMETRY Symmetry
INVARIANTS TypeOK NoHalfBuilt GoingIsAtWork
PROPERTIES RecordedWhenBuilt MountedUntouched
