\* A controller that fails the run on TamperDetected and an owner's command, sharing lock and log.
CONSTANTS
    w1 = w1
    w2 = w2
    r1 = r1
    Writers <- TwoWriters
    Readers = {}
    Controllers <- FirstController
    TailLines = 2
    MaxCommits = 1
    MaxLines = 4
    MaxCrashes = 2
SPECIFICATION FairSpec
INVARIANTS
    NumbersGrowInSight
    LossIsTorn
PROPERTY
    LockComesBack
