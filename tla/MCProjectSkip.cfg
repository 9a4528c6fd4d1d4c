CONSTANTS
    ChainRuns = 2
    ShellRuns = 0
    MaxEvents = 2
SPECIFICATION Spec
INVARIANTS
    LiveIsSomebodyElses
CHECK_DEADLOCK FALSE
