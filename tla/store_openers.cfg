\* Two processes open the store; one run is built meanwhile, one is not.
CONSTANTS
    r1 = r1
    r2 = r2
    a1 = a1
    o1 = o1
    o2 = o2
    Manifest = Manifest
    Run = {r1, r2}
    Artifact = {a1}
    Opener = {o1, o2}
    Exposed = {r1}
SPECIFICATION FairSpec
CHECK_DEADLOCK FALSE
INVARIANTS
    VisibleRunComplete
    FailedBuildLeavesNothing
PROPERTIES
    NewOpenersHarmless
    StagingCleared
