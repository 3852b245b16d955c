SPECIFICATION MCOneLinkSpec
CONSTANTS
    n1 = n1
    n2 = n2
    n3 = n3
    e1 = e1
    e2 = e2
    Node <- MCTrio
    Overlay <- MCLine
    Anns <- MCTwoAnns
    Author <- MCTwoAuthors
    Relayed <- MCOuter
    MaxDeltas = 0
    MaxPenalty = 1
    MaxClock = 2
    MaxSessions = 2
PROPERTIES
    CatchUp
    FloodReaches
    Drains
CHECK_DEADLOCK FALSE
