SPECIFICATION FairSpec
CONSTANTS
    Pages = {p1, p2}
    MaxBuilds = 2
    MaxEvents = 1
INVARIANTS TypeOK CompleteIsDeployed DataAfterBuild
PROPERTIES FollowedSettles
CHECK_DEADLOCK FALSE
