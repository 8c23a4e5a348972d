\* One thread per event waits, as the resolvers use it; two callers and two
\* workers at a pool; any system, and deletion at any time.
CONSTANTS
    Parts = {"event", "pool", "resolver"}
    Threads = {t1}
    Timeouts <- MCTimeouts
    FirstClock = 100
    LastClock = 106
    Spurious = TRUE
    MaxSets = 2
    Jobs = {j1, j2, j3}
    Polled = {j1, j2}
    Callers = {c1, c2}
    Workers = {w1, w2}
    MaxThreads = 2
    NoJob = NoJob
    Proxies = proxies
    Direct = direct
    NoList = NoList
    MaxRequests = 3
    Systems = {"desktop", "uwp", "macos"}
SPECIFICATION Spec
INVARIANTS
    SetIsNotLost
    FreedPoolUntouched
    ListIntact
    InstanceOutlivesRequest
    HandlerLifetime
    AnswerExplained
PROPERTIES
    WaitsEnd
    ImplementsJobPool
    CallsReturn
    ImplementsNativeRequest
    RequestsEnd
\* A freed pool, a clock at its bound and a system that was cleaned up stop.
CHECK_DEADLOCK FALSE
