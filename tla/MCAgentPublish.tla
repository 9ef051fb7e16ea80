--------------------------- MODULE MCAgentPublish ---------------------------
(* An instance of AgentPublish for TLC: two pipelines with one secret value *)
(* each.  With lengths 1 and 1, or 1 and 2, the two may fit together; with *)
(* 2 and 2 the older one excludes the younger; a rotation decides.         *)
EXTENDS AgentPublish, TLC

CONSTANTS p1, p2, k1, k2

MCPipeline == {p1, p2}
MCKey == {k1, k2}
MCRefs == (p1 :> {k1}) @@ (p2 :> {k2})
MCBorn == (p1 :> 1) @@ (p2 :> 2)
MCSelections == SUBSET MCPipeline
MCShort == (k1 :> {1}) @@ (k2 :> {1, 2})
MCLong == [k \in MCKey |-> {2}]
MCVaried == [k \in MCKey |-> {1, 2}]
=============================================================================
