\* Two callers wait for the same pool.
CONSTANTS
    Jobs = {j1, j2}
    Callers = {c1, c2}
    Workers = {w1}
    Waiters = {c1, c2}
    MaxThreads = 1
    CreateMayFail = FALSE
    NoJob = NoJob
SPECIFICATION FairSpec
PROPERTIES
    WaitReturns
CHECK_DEADLOCK FALSE
