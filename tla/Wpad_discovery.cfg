CONSTANTS
    Adapters = 2
    Domains = 1
    Urls = {u1}
    NoUrl = NoUrl
    MaxRounds = 2
    MaxSeconds = 3
    MaxHeader = 4
    MaxBody = 2
    MaxSends = 4
    Buffer = 3
SPECIFICATION Spec
INVARIANTS
    AnswerFresh
    EveryAdapterAsked
    ScriptWhole
PROPERTY DiscoveryEnds
\* Discoveries and the clock are bounded.
CHECK_DEADLOCK FALSE
