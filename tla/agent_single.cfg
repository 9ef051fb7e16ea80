SPECIFICATION Spec
CONSTANTS
    p1 = p1
    p2 = p2
    k1 = k1
    k2 = k2
    Pipeline <- MCPipeline
    Key <- MCKey
    Refs <- MCRefs
    Born <- MCBorn
    Selections <- MCSelections
    Lengths <- MCVaried
    MaxSecretSize = 3
    ObjectBudget = 4
    EntryOverhead = 1
    Invalid = {}
    Flags = {FALSE}
    Modes = {TRUE, FALSE}
    AltMayFail = FALSE
    CacheLag = FALSE
    Upgrade = TRUE
    Grace = 2
    Latency = 1
    MaxEdits = 2
    MaxFaults = 2
INVARIANTS
    TypeOK
    PublishInv
PROPERTIES
    Publishes
    GraceHonoured
