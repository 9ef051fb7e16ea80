SPECIFICATION MCFairSpec
CONSTANTS
    Pipeline = {p1}
    k1 = k1
    k2 = k2
    Workload <- MCWorkload
    Version = {good, bad}
    Bad = {bad}
    MayReturn = {}
    InCapacity = 1
    OutCapacity = 1
INVARIANTS
    TypeOK
    NoLostWakeup
PROPERTIES
    WorkloadIsServed
