SPECIFICATION FairSpec
CONSTANTS
    old = old
    young = young
    Pipeline <- MCPipeline
    Born <- MCBorn
    Good <- MCGood
    Clash <- MCClash
    Bare <- MCBare
    MaxSpec = 2
    MaxVersion = 2
    Options <- MCOptions
    MaxEdits = 2
INVARIANTS
    TypeOK
    OutagesAreRetried
    HiddenOnlyByRace
PROPERTIES
    Settles
CHECK_DEADLOCK FALSE
