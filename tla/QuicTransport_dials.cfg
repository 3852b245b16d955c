SPECIFICATION FairSpec
CONSTANTS
    a1 = a1
    a2 = a2
    k1 = k1
    k2 = k2
    None = None
    Conns = {c1, c2, c3, c4, c5, c6, c7}
    Addrs <- MCAddrs
    Keys <- MCKeys
    KeyOf <- MCKeyOf
    Peers <- MCPeers
    Callers <- MCCallers
    MaxCalls = 2
    MaxInbound = 1
    MaxFaults = 1
    MaxRenames = 1
INVARIANTS
    TypeOK
    TableLive
    ToldLive
    NeverStranded
    ClosedStaysQuiet
PROPERTIES
    Reconnects
CHECK_DEADLOCK FALSE
