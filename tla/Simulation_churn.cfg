SPECIFICATION Spec
CONSTANTS
    x = x
    y = y
    z = z
    Ids <- MCIds
    Sources <- MCSources
    MaxActive = 2
    N = 3
    Nbrs <- MCNbrs
    Publisher <- MCPublisher
    Distrusts <- MCDistrusts
    MaxAge = 1
    MaxRound = 3
    MaxChurn = 2
INVARIANTS
    TablesConsistent
    ExaminedOnce
    NeighboursAgree
    NoGap
CHECK_DEADLOCK FALSE
