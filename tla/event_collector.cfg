SPECIFICATION FairSpec
CONSTANTS
    h1 = h1
    h2 = h2
    t1 = t1
    t2 = t2
    t3 = t3
    n1 = n1
    n2 = n2
    Host <- MCHost
    Target <- MCTarget
    Namespace <- MCNamespace
    Watched <- MCWatched
    Configs <- MCConfigs
    MaxBatch = 2
    Second = 2
    MaxTime = 1
    MaxEvents = 2
    MaxChanges = 1
    MaxFaults = 1
INVARIANTS
    TypeOK
    NoGap
    StoreOwnsRunning
PROPERTIES
    Served
    Delivered
CHECK_DEADLOCK FALSE
