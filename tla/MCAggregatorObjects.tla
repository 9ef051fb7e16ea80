------------------------- MODULE MCAggregatorObjects -------------------------
(***************************************************************************)
(* Two aggregators of one name.  The specs differ in everything a round    *)
(* decides on: the kind of the workload, the size of its claims, who sets  *)
(* its replicas, and which of the other objects are wanted.                *)
(***************************************************************************)
EXTENDS AggregatorObjects

Full ==
    [sources |-> TRUE, size |-> 1, metrics |-> TRUE, events |-> TRUE,
     autoscaling |-> TRUE, replicas |-> 0, maxReplicas |-> 2, budget |-> TRUE]

Larger ==
    [sources |-> TRUE, size |-> 2, metrics |-> FALSE, events |-> TRUE,
     autoscaling |-> FALSE, replicas |-> 2, maxReplicas |-> 0, budget |-> TRUE]

Bare ==
    [sources |-> FALSE, size |-> 0, metrics |-> FALSE, events |-> FALSE,
     autoscaling |-> FALSE, replicas |-> 1, maxReplicas |-> 0, budget |-> TRUE]

MCSpecs == {Full, Larger, Bare}

MCFragile == {"service", "role"}
=============================================================================
