SPECIFICATION FairSpec
CONSTANTS
    p1 = p1
    p2 = p2
    k1 = k1
    k2 = k2
    Pipeline <- MCPipeline
    Key <- MCKey
    Refs <- MCRefs
    Born <- MCBorn
    Selections <- MCSelections
    Lengths <- MCLengths
    MaxSecretSize = 3
    ObjectBudget = 10
    EntryOverhead = 1
    Invalid = {{p1, p2}}
    Persistences = {"off", "on", "invalid"}
    Grace = 2
    Latency = 1
    MaxEdits = 2
    MaxFaults = 1
INVARIANTS
    TypeOK
PROPERTIES
    Publishes
    GraceHonoured
    Converges
