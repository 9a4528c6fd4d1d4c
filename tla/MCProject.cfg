CONSTANTS
    ChainRuns = 2
    ShellRuns = 1
    MaxEvents = 3
SPECIFICATION FairSpec
INVARIANTS
    TypeOK
    LandedBeforeNext
    OneContinuation
    AdmittedAlone
    NothingPlannedUnderStop
    RepairsTheRejected
\* The owner may leave the project alone.
CHECK_DEADLOCK FALSE
PROPERTIES
    StopEndsChain
