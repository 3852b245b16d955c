SPECIFICATION Spec
CONSTANTS
    d1 = d1
    p1 = p1
    p2 = p2
    None = None
    Stale = Stale
    Daemon <- MCDaemon
    Command <- MCCommand
    Pieces = 2
    MaxPuts = 3
    MaxStarts = 3
    MaxCrashes = 1
INVARIANTS
    SettledReadable
    AnnouncedIndexed
    StoreOutlivesWork
SYMMETRY Symmetry
CHECK_DEADLOCK FALSE
