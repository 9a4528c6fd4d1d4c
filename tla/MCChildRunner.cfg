CONSTANTS
    Kids = {k1, k2}
SPECIFICATION FairSpec
INVARIANTS
    TypeOK
    SurvivorsAreUnseen
PROPERTIES
    WatchEnds
\* The session is over, or waits for good.
CHECK_DEADLOCK FALSE
