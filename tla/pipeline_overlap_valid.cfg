SPECIFICATION Spec
CONSTANTS
    old = old
    young = young
    Pipeline <- MCPipeline
    Born <- MCBorn
    Good <- MCGood
    Clash <- MCClash
    Bare <- MCBare
    MaxSpec = 2
    MaxVersion = 2
    Options <- MCOverlapOptions
    MaxEdits = 2
INVARIANTS
    NoHiddenBadSpec
CHECK_DEADLOCK FALSE
