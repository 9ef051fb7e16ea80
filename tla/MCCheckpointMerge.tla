-------------------------- MODULE MCCheckpointMerge --------------------------
(***************************************************************************)
(* Two groups of two sources, in three namespaces: s2 and s3 read the file *)
(* of the second.  The hashes of their signatures are equal, and a source  *)
(* watches one namespace, so both groups are split.  The first group falls *)
(* apart when s1 opts out.                                                 *)
(***************************************************************************)
EXTENDS CheckpointMerge, TLC

CONSTANTS s1, s2, s3, s4

MCNsOf == (s1 :> 1) @@ (s2 :> 2) @@ (s3 :> 2) @@ (s4 :> 3)

MCSigOf == (s1 :> 1) @@ (s2 :> 1) @@ (s3 :> 2) @@ (s4 :> 2)

MCHash == [g \in Signature |-> 0]

MCLines == (1 :> 2) @@ (2 :> 1)

MCDigest == [n \in Namespace |-> n]

(* The comment of bucketCount, which the loop is checked against for every *)
(* group a source may have: no other power of two has fewer conditions to  *)
(* evaluate for an event.                                                  *)
ASSUME BucketsMinimal ==
    \A n \in 1..1000, b \in {c \in Powers : c <= MaxRouteBuckets} :
        BucketCount(n) + CeilDiv(n, BucketCount(n)) <= b + CeilDiv(n, b)
==============================================================================
