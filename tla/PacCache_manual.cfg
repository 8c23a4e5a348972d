\* A url is configured: nothing locks.
CONSTANTS
    Requests = {r1, r2}
    Startup = Startup
    Urls = {u1}
    NoUrl = NoUrl
    Dns = Dns
    NoScript = NoScript
    NoJob = NoJob
    Settings <- Manual
    Expire = 1
    MaxTime = 3
SPECIFICATION Spec
INVARIANTS
    ScriptNeverDangles
\* Every job ends and the clock stops at MaxTime.
CHECK_DEADLOCK FALSE
