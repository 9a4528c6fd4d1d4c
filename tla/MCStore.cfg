\* Two writers and a reader that never fail the run; two processes may die.
CONSTANTS
    w1 = w1
    w2 = w2
    r1 = r1
    Writers <- TwoWriters
    Readers <- OneReader
    Controllers = {}
    TailLines = 4
    MaxCommits = 3
    MaxLines = 2
    MaxCrashes = 2
SPECIFICATION Spec
SYMMETRY WriterSymmetry
INVARIANTS
    TypeOK
    NoLostUpdate
    RefusalMeansCrash
PROPERTY
    TransactionsAreSerial
