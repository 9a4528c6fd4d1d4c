\* A run in place that may be re-entered once.
CONSTANTS
    c1 = c1
    c2 = c2
    Criteria <- TwoCriteria
    OwnerJudged = {}
    Isolated = FALSE
    MaxRounds = 3
    MaxRepairs = 1
    MaxRestarts = 1
    MaxEntries = 2
SPECIFICATION Spec
SYMMETRY CriteriaSymmetry
INVARIANTS
    TypeOK
    RoundsAccounted
    BudgetsRespected
    PassedIsEarned
    StopBoundsRounds
PROPERTIES
    WorkerSignalInterrupts
    KeepsPromise
