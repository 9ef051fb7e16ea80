SPECIFICATION FairSpec
CONSTANTS
    s1 = s1
    s2 = s2
    s3 = s3
    s4 = s4
    Source = {s1, s2, s3, s4}
    NsOf <- MCNsOf
    SigOf <- MCSigOf
    Wide = {}
    Namespace = {1, 2, 3}
    Signature = {1, 2}
    Hash <- MCHash
    Digest <- MCDigest
    MaxNamespacesPerSource = 1
    FlatRoutingThreshold = 0
    MaxRouteBuckets = 256
    Logged = {1, 2}
    Lines <- MCLines
    MayBeBad = {s2}
    MayOptOut = {s1}
    MaxEdits = 3
    MaxFaults = 1
INVARIANTS
    TypeOK
    NothingSkipped
    ConfigFaithful
PROPERTIES
    NeverLowers
    ResumesAtHighest
    AgentStarts
