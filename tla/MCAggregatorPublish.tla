------------------------- MODULE MCAggregatorPublish -------------------------
(* An instance of AggregatorPublish for TLC: two pipelines with one secret *)
(* value each, which fit together or not.  The younger one may be there    *)
(* alone, so that the older one has to wait until its key has gone.        *)
EXTENDS AggregatorPublish, TLC

CONSTANTS p1, p2, k1, k2

MCPipeline == {p1, p2}
MCKey == {k1, k2}
MCRefs == (p1 :> {k1}) @@ (p2 :> {k2})
MCBorn == (p1 :> 1) @@ (p2 :> 2)
MCSelections == {{}, {p2}, {p1, p2}}
MCLengths == (k1 :> {2}) @@ (k2 :> {1, 2})
=============================================================================
