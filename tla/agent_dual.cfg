SPECIFICATION Spec
CONSTANTS
    p1 = p1
    p2 = p2
    k1 = k1
    k2 = k2
    Pipeline <- MCPipeline
    Key <- MCKey
    Refs <- MCRefs
    Born <- MCBorn
    Selections <- MCSelections
    Lengths <- MCShort
    MaxSecretSize = 3
    ObjectBudget = 4
    EntryOverhead = 1
    Invalid = {{p2}}
    Flags = {TRUE}
    Modes = {TRUE, FALSE}
    AltMayFail = TRUE
    CacheLag = TRUE
    Upgrade = FALSE
    Grace = 2
    Latency = 1
    MaxEdits = 2
    MaxFaults = 1
INVARIANTS
    NoDanglingReference
    MountCoversReferences
    StagedDataFits
PROPERTIES
    GraceHonoured
