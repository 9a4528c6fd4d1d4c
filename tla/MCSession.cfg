\* Two sessions of any kind, and a controller that may die once. The limits keep the order of
\* the code's: OpenCode 2, manager 3 by default, transport 6, other 6; retries are scaled down.
CONSTANTS
    Kinds <- EveryKind
    ManagerRetries = 2
    TransportTries = 3
    OpencodeTries = 1
    OtherTries = 3
    TurnLimit = 2
    MaxTurns = 3
    MaxSessions = 2
    MaxCrashes = 1
SPECIFICATION FairSpec
INVARIANTS
    TypeOK
    OnlyUnrecordedSurvive
    StopStartsOneMore
    TurnsAreShared
    RetriesBounded
    OpenIsRunning
PROPERTY
    SessionEnds
