CONSTANTS
    h1 = h1
    h2 = h2
    u1 = u1
    none = none
    PortOf <- MCPortOf
    PrefixOf <- MCPrefixOf
    Ipv4 <- MCIpv4
    Ipv6 <- MCIpv6
    Bits4 = 5
    Bits6 = 8
    ByteBits = 4
    Loopback <- MCLoopback
    HostMax = 6
    NoList = none
    NoHost = none
    NoUrl = none
    NoValue = none
    WholeList = "list"
    TypedScheme <- MCTypedScheme
    Spare = 128
    NoScheme = none
    Sessions <- MCSessions
    Changed <- MCChanged
    KdeFile <- MCKdeFile
    Lists <- MCLists
    MaxChanges = 2
SPECIFICATION Spec
INVARIANTS
    ConfigExplained
    RuleDecides
    UriListWhole
CHECK_DEADLOCK FALSE
