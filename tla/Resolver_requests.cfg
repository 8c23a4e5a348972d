\* Clients that wait before they ask again or delete, and that spool once.
CONSTANTS
    Instances = {r1, r2}
    Startup = Startup
    u1 = u1
    u2 = u2
    p1 = p1
    p2 = p2
    p3 = p3
    manual = manual
    direct = direct
    Urls = {u1, u2}
    Answers <- MCAnswers
    Manual <- MCManual
    DirectList <- MCDirectList
    NoList = NoList
    NoUrl = NoUrl
    Bypassed = {u2}
    Configs <- AllConfigs
    MaxRunning = 1
    MaxSpooled = 1
    Spurious = {TRUE, FALSE}
SPECIFICATION FairSpec
INVARIANTS
    NoUseAfterFree
    AnswerMatches
    EveryProxyAttempted
PROPERTIES
    AnswerIsFinal
    RequestsComplete
    SleepersWake
\* The system stops for good once it is cleaned up.
CHECK_DEADLOCK FALSE
