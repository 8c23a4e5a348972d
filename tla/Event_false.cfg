CONSTANTS
    Threads = {t1}
    Timeouts <- MCTimeouts
    \* The clock starts far from 1970 compared with the timeouts in use.
    FirstClock = 100
    LastClock = 106
    Spurious = FALSE
    MaxSets = 1
SPECIFICATION Spec
PROPERTIES
    FalseMeansElapsed
CHECK_DEADLOCK FALSE
