\* A run in a worktree that is entered once: a crash or an escaped error is the controller's end.
\* One criterion is the owner's to judge.
CONSTANTS
    c1 = c1
    c2 = c2
    Criteria <- TwoCriteria
    OwnerJudged <- OwnersCriterion
    Isolated = TRUE
    MaxRounds = 4
    MaxRepairs = 1
    MaxRestarts = 1
    MaxEntries = 1
SPECIFICATION FairSpec
PROPERTY
    ReturnsEventually
