-------------------------- MODULE MCPipelineStatus --------------------------
(* An instance of PipelineStatus for TLC: the younger pipeline loses a     *)
(* collision with the older one until either is edited.                    *)
EXTENDS PipelineStatus, TLC

CONSTANTS old, young

MCPipeline == {old, young}
MCBorn == (old :> 1) @@ (young :> 2)
MCGood == (old :> {1, 2}) @@ (young :> {1})
MCClash == {{<<old, 1>>, <<young, 1>>}}
MCBare == {<<young, 2>>}
MCOverlapOptions == {[retryInvalid |-> FALSE, mergedCheck |-> TRUE, scoped |-> FALSE,
                      overlap |-> TRUE, maxFaults |-> 0]}
MCTurns(b) == [retryInvalid |-> b, mergedCheck |-> b, scoped |-> TRUE,
               overlap |-> FALSE, maxFaults |-> 1]
MCOptions == MCOverlapOptions \cup {MCTurns(TRUE), MCTurns(FALSE)}
=============================================================================
