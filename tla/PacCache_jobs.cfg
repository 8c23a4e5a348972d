\* One process only discovers, the other one changes its settings.
CONSTANTS
    Requests = {r1, r2}
    Startup = Startup
    Urls = {u1, u2}
    NoUrl = NoUrl
    Dns = Dns
    NoScript = NoScript
    NoJob = NoJob
    Settings <- AutoOrChanging
    Expire = 1
    MaxTime = 3
SPECIFICATION Spec
INVARIANTS
    LockDiscipline
    ScriptAlive
    ScriptFresh
PROPERTIES
    DiscoveryIsShared
SYMMETRY Symmetry
\* Every job ends and the clock stops at MaxTime.
CHECK_DEADLOCK FALSE
