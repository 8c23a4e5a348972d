\* Two callers share a pool of two threads; creation may fail, waits overlap.
CONSTANTS
    Jobs = {j1, j2, j3}
    Callers = {c1, c2}
    Workers = {w1, w2, w3}
    Waiters = {c1, c2}
    MaxThreads = 2
    CreateMayFail = TRUE
    NoJob = NoJob
SPECIFICATION FairSpec
INVARIANTS
    TypeOK
    CountersAgree
    NoLostWakeup
    NoJobLostOrDuplicated
    FreedPoolUntouched
PROPERTIES
    ImplementsJobPool
    JobsRun
    LoneWaitReturns
    DeleteTerminates
\* The system stops for good once the pool is freed.
CHECK_DEADLOCK FALSE
