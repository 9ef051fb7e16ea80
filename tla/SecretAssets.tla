---------------------------- MODULE SecretAssets ----------------------------
(***************************************************************************)
(* The contents of an assets Secret and the attribution passes over it     *)
(* (internal/config/secrets.go, internal/controller/secrets.go).           *)
(*                                                                         *)
(* Every pipeline references a set of flat keys; the operator materialises *)
(* their values in one assets Secret per workload variant.  A value is     *)
(* abstracted to its length, which is all that the size budgets see, and   *)
(* Data of a Secret is a function from the flat keys it holds to lengths.  *)
(***************************************************************************)
EXTENDS Integers, FiniteSets, FiniteSetsExt

CONSTANTS
    Pipeline,        \* the pipelines a workload may select
    Key,             \* the flat keys, one per resolved (namespace, secret, key)
    Refs,            \* Refs[p]: the flat keys pipeline p references
    Born,            \* Born[p]: p's rank by (creationTimestamp, id)
    Lengths,         \* Lengths[k]: the lengths the value of k may have
    MaxSecretSize,   \* corev1.MaxSecretSize, over the values alone
    ObjectBudget,    \* SecretAssetsObjectBudget less secretObjectBaseSize
    EntryOverhead    \* what an entry costs besides its value

ASSUME RefsAssumption == Refs \in [Pipeline -> SUBSET Key]

ASSUME BornAssumption ==
    /\ Born \in [Pipeline -> Nat]
    /\ \A p, q \in Pipeline : Born[p] = Born[q] => p = q

(* A cluster holds finitely many pipelines and secrets.                    *)
ASSUME FiniteAssumption == IsFiniteSet(Pipeline) /\ IsFiniteSet(Key)

ASSUME BudgetAssumption ==
    /\ Lengths \in [Key -> SUBSET Nat]
    /\ MaxSecretSize \in Nat /\ ObjectBudget \in Nat /\ EntryOverhead \in Nat

-----------------------------------------------------------------------------

Length == UNION {Lengths[k] : k \in Key}

(* Data of a Secret: a function from the keys it holds.  No key: no Secret. *)
Data == UNION {[S -> Length] : S \in SUBSET Key}

NoData == [k \in {} |-> 0]

Older(p, q) == Born[p] < Born[q]

(* The flat keys a set of pipelines references.                            *)
KeysOf(P) == UNION {Refs[p] : p \in P}

(* secretDataSize.                                                         *)
ValuesSize(data) == MapThenSumSet(LAMBDA k : data[k], DOMAIN data)

(* secretObjectSize: entries contribute independently of one another.      *)
ObjectSize(data) ==
    MapThenSumSet(LAMBDA k : data[k] + EntryOverhead, DOMAIN data)

Fits(data) ==
    /\ ValuesSize(data) =< MaxSecretSize
    /\ ObjectSize(data) =< ObjectBudget

(* existing augmented with the current values of the pipelines in P.       *)
Stage(existing, values, P) ==
    [k \in DOMAIN existing \cup KeysOf(P) |->
        IF k \in KeysOf(P) THEN values[k] ELSE existing[k]]

(* A plausible bug: every pipeline measured without the ones accepted      *)
(* before it.                                                              *)
GreedyAlone(existing, values, P, A) ==
    /\ A \subseteq P
    /\ \A p \in P :
          p \in A <=> Refs[p] = {} \/ Fits(Stage(existing, values, {p}))

(***************************************************************************)
(* The outcome A of one oldest-first greedy pass over the pipelines P,     *)
(* starting from the data in existing.  With the pipelines ordered by      *)
(* Born, A is the only set with this property.  DetectSecretSizeOverflow   *)
(* is the pass from NoData, BridgeAssets the pass from what the Secret     *)
(* already holds; a pipeline without references takes part in neither.     *)
(***************************************************************************)
Greedy(existing, values, P, A) ==
    /\ A \subseteq P
    /\ \A p \in P :
          p \in A <=>
            \/ Refs[p] = {}
            \/ Fits(Stage(existing, values, {q \in A : Older(q, p)} \cup {p}))

(* assetsWouldDropAKey.                                                    *)
WouldDropAKey(existing, data) == ~ (DOMAIN existing \subseteq DOMAIN data)

=============================================================================
