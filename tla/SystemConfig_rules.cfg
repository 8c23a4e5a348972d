CONSTANTS
    h1 = h1
    h2 = h2
    u1 = u1
    none = none
    PortOf <- MCPortOf
    PrefixOf <- MCPrefixOf
    Ipv4 <- MCIpv4
    Ipv6 <- MCIpv6
    Bits4 = 5
    Bits6 = 8
    ByteBits = 4
    Loopback <- MCLoopback
    HostMax = 6
    NoList = none
    NoHost = none
    NoUrl = none
    NoValue = none
    WholeList = "list"
    TypedScheme <- MCTypedScheme
    Spare = 128
    NoScheme = none
    Sessions <- ListSessions
    Changed <- MCChanged
    KdeFile <- MCKdeFile
    Lists <- MCNoLists
    MaxChanges = 2
SPECIFICATION Spec
INVARIANTS
    EachRuleCounts
CHECK_DEADLOCK FALSE
