SPECIFICATION FairSpec
CONSTANTS
    k1 = k1
    k2 = k2
    u1 = u1
    u2 = u2
    None = None
    Keys <- MCKeys
    Urls <- MCOneUrl
    UrlOwner <- MCOneUrlOwner
    Conns = {c1, c2}
    Rws = {r1, r2}
    MaxInbound = 1
PROPERTIES
    SoleSilentDestroyed
    CloseDrains
    Redials
CHECK_DEADLOCK FALSE
