SPECIFICATION FairSpec
CONSTANTS
    p1 = p1
    p2 = p2
    k1 = k1
    k2 = k2
    Pipeline <- MCPipeline
    Key <- MCKey
    Refs <- MCRefs
    Born <- MCBorn
    Selections <- MCSelections
    Lengths <- MCLong
    MaxSecretSize = 3
    ObjectBudget = 10
    EntryOverhead = 1
    Invalid = {}
    Flags = {TRUE, FALSE}
    Modes = {TRUE, FALSE}
    AltMayFail = FALSE
    CacheLag = TRUE
    Upgrade = FALSE
    Grace = 2
    Latency = 1
    MaxEdits = 1
    MaxFaults = 2
PROPERTIES
    Converges
