\* A round after the verdict that some criteria passed.
CONSTANTS
    c1 = c1
    c2 = c2
    Criteria <- TwoCriteria
    OwnerJudged = {}
    Isolated = TRUE
    MaxRounds = 2
    MaxRepairs = 1
    MaxRestarts = 1
    MaxEntries = 1
SPECIFICATION Spec
INVARIANT
    PartialIsEarned
