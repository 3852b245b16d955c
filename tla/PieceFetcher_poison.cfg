SPECIFICATION FairSpec
CONSTANTS
    c1 = c1
    c2 = c2
    p1 = p1
    p2 = p2
    Off = Off
    Failed = Failed
    Calls <- MCCalls
    Neighbours <- MCNeighbours
    Claims <- MCClaims
    N = 3
    MaxConcurrent = 2
    Providers = 1
    MaxPenalty = 4
    MaxFaults = 0
    MaxCorrupt = 1
PROPERTIES
    RetryRepairs
