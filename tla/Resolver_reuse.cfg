\* An instance that is asked again after its first request went to the pool.
CONSTANTS
    Instances = {r1}
    Startup = Startup
    u1 = u1
    u2 = u2
    p1 = p1
    p2 = p2
    p3 = p3
    manual = manual
    direct = direct
    Urls = {u1, u2}
    Answers <- MCAnswers
    Manual <- MCManual
    DirectList <- MCDirectList
    NoList = NoList
    NoUrl = NoUrl
    Bypassed = {u2}
    Configs <- AllConfigs
    MaxRunning = 1
    MaxSpooled = 2
    Spurious = {FALSE}
SPECIFICATION FairSpec
INVARIANT WaitMeansComplete
CHECK_DEADLOCK FALSE
