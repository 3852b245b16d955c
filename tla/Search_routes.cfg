SPECIFICATION Spec
CONSTANTS
    s = s
    p = p
    q = q
    o = o
    x1 = x1
    x2 = x2
    None = None
    Node <- MCNode
    Seeker <- MCSeeker
    Overlay <- MCOverlay
    Ident <- MCIdent
    Owner <- MCOwner
    Publisher <- MCPublisher
    Past <- MCPast
    Report <- MCReport
    Limit = 2
    MaxSearches = 2
    MaxRoutes = 1
    MaxLost = 1
    MaxRestarts = 1
    MaxEvents = 3
INVARIANTS
    FreshAnswer
    RouteNamesBest
PROPERTIES
    RoutesNeverAge
CHECK_DEADLOCK FALSE
