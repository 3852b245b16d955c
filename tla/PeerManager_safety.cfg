SPECIFICATION Spec
CONSTANTS
    k1 = k1
    k2 = k2
    u1 = u1
    u2 = u2
    None = None
    Keys <- MCKeys
    Urls <- MCOneUrl
    UrlOwner <- MCOneUrlOwner
    Conns = {c1, c2, c3}
    Rws = {r1, r2}
    MaxInbound = 2
SYMMETRY Symmetry
INVARIANTS
    TypeOK
    KeyedByOwnId
    NoDeadPeers
    UrlIndexLive
    ActiveMeansConnected
    ListedPeersAnnounced
    AnnouncedPeersAlive
    SoleLinkListed
    ClosedStopsDialers
CHECK_DEADLOCK FALSE
