SPECIFICATION FairSpec
CONSTANTS
    Aggregator = {a1, a2}
    Specs <- MCSpecs
    Fragile <- MCFragile
    MaxEdits = 3
    MaxFaults = 1
INVARIANTS TypeOK CollectorReady OnlyCollectorRBACStays
PROPERTIES RespectsAutoscaler Converges
