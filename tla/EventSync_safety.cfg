SPECIFICATION Spec
CONSTANTS
    n1 = n1
    n2 = n2
    n3 = n3
    e1 = e1
    e2 = e2
    Node <- MCPair
    Overlay <- MCPairOverlay
    Anns <- MCOneAnn
    Author <- MCOneAuthor
    Relayed <- MCSecond
    MaxDeltas = 1
    MaxPenalty = 2
    MaxClock = 2
    MaxSessions = 3
INVARIANTS
    TypeOK
    DeltasApplied
PROPERTIES
    LogsReplicate
CHECK_DEADLOCK FALSE
