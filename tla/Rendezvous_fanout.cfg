SPECIFICATION MCSpec
CONSTANTS
    b1 = b1
    b2 = b2
    c1 = c1
    c2 = c2
    Boot <- MCBoot
    Client <- MCClient
    Overlay <- MCOverlay
    Capacity <- MCCapacity
    MaxPeers <- MCMaxPeers
    Distrusts <- MCDistrusts
    Ttl <- MCTtl
    SweepPeriod = 1
    MaxClock = 1
    MaxChanges = 2
INVARIANTS
    CacheSound
    Introduced
PROPERTIES
    Drains
CHECK_DEADLOCK FALSE
