----------------------------- MODULE Publication -----------------------------
(***************************************************************************)
(* What publishing a configuration promises, whoever does it: objects      *)
(* change one at a time, and in every state a pod that starts on any live  *)
(* workload finds every key its config references in a mounted assets      *)
(* Secret that exists.  EnsureVectorAgent and EnsureVectorAggregator       *)
(* implement it with their three write orders.                             *)
(***************************************************************************)
EXTENDS Integers

CONSTANTS
    Key,        \* the flat keys
    Workload    \* the workloads that mount the config

VARIABLES
    stored,      \* the keys the assets Secret holds; none: there is no Secret
    referenced,  \* the keys the published config references
    template     \* template[w]: the pod template of workload w

vars == <<stored, referenced, template>>

Template == {"absent", "plain", "mounted"}

Safe ==
    /\ referenced \subseteq stored
    /\ \A w \in Workload :
          /\ template[w] = "mounted" => stored # {}
          /\ template[w] = "plain" => referenced = {}

Init ==
    /\ stored \in SUBSET Key
    /\ referenced \in SUBSET Key
    /\ template \in [Workload -> Template]
    /\ Safe

(* The assets Secret keeps what the config references, and exists as long  *)
(* as it is mounted.                                                       *)
WriteAssets ==
    /\ stored' \in SUBSET Key
    /\ referenced \subseteq stored'
    /\ stored' = {} => \A w \in Workload : template[w] # "mounted"
    /\ UNCHANGED <<referenced, template>>

(* A config references only what is stored, and anything at all only if    *)
(* every live workload mounts it.                                          *)
WriteConfig ==
    /\ referenced' \in SUBSET stored
    /\ referenced' # {} => \A w \in Workload : template[w] # "plain"
    /\ UNCHANGED <<stored, template>>

(* A workload is written or deleted.                                       *)
WriteWorkload(w) ==
    /\ \E t \in Template :
          /\ t = "mounted" => stored # {}
          /\ t = "plain" => referenced = {}
          /\ template' = [template EXCEPT ![w] = t]
    /\ UNCHANGED <<stored, referenced>>

Next == WriteAssets \/ WriteConfig \/ \E w \in Workload : WriteWorkload(w)

Spec == Init /\ [][Next]_vars

=============================================================================
