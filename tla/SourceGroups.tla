---------------------------- MODULE SourceGroups ----------------------------
(***************************************************************************)
(* The optimization of the agent's kubernetes_logs sources                 *)
(* (internal/config/agent_optimize.go): sources that differ only in their  *)
(* namespace become one source, and route transforms give every consumer   *)
(* the stream of its own namespace back.                                   *)
(*                                                                         *)
(* Namespaces and signatures are numbers in the order the code sorts them. *)
(* A stream is the namespaces whose events it carries.                     *)
(***************************************************************************)
EXTENDS Integers, FiniteSets

CONSTANTS
    Source,                  \* the sources of the pipelines
    NsOf,                    \* NsOf[s]: the namespace it is scoped to
    SigOf,                   \* SigOf[s]: its other settings
    Wide,                    \* sources with any other namespace selector
    Namespace, Signature,
    Hash,                    \* Hash[g]: hash of a signature
    Digest,                  \* Digest[n]: first byte of the md5 of a namespace
    MaxNamespacesPerSource,
    FlatRoutingThreshold,
    MaxRouteBuckets          \* a power of two

ASSUME SourceAssumption ==
    /\ IsFiniteSet(Source) /\ Wide \subseteq Source
    /\ Namespace \subseteq Nat /\ Signature \subseteq Nat
    /\ IsFiniteSet(Namespace) /\ IsFiniteSet(Signature)
    /\ NsOf \in [Source -> Namespace] /\ SigOf \in [Source -> Signature]
    /\ Hash \in [Signature -> Nat] /\ Digest \in [Namespace -> 0..255]
    /\ MaxNamespacesPerSource \in Nat \ {0} /\ FlatRoutingThreshold \in Nat
    /\ MaxRouteBuckets \in {2^i : i \in 0..8}

-----------------------------------------------------------------------------
(* out is the set of sources whose pipeline opted out.                     *)

Group(out, g) == {s \in Source \ (Wide \cup out) : SigOf[s] = g}

Grouped(out) == {g \in Signature : Cardinality(Group(out, g)) >= 2}

Collapsed(out, s) == s \notin Wide \cup out /\ SigOf[s] \in Grouped(out)

NamespacesOf(out, g) == {NsOf[s] : s \in Group(out, g)}

(* The chunk of a namespace: its rank among those of the group.            *)
Chunk(out, g, n) ==
    Cardinality({m \in NamespacesOf(out, g) : m < n}) \div MaxNamespacesPerSource

ChunkNamespaces(out, g, c) == {n \in NamespacesOf(out, g) : Chunk(out, g, n) = c}

(* Plausible bug: the hash is trusted.                                     *)
NoClashes(out, g) == {}

(* Groups whose signatures have the same hash get an "x" each, in the      *)
(* order of the signatures.                                                *)
Clashes(out, g) == {h \in Grouped(out) : h < g /\ Hash[h] = Hash[g]}

(* A name is the pipeline's own, or optimizedSource-<gid>, with the chunk  *)
(* when there are several.                                                 *)
OwnName(s) == [own |-> TRUE, source |-> s]

GroupName(out, g, c) ==
    [own |-> FALSE, hash |-> Hash[g], clashes |-> Cardinality(Clashes(out, g)),
     chunk |-> IF Cardinality(NamespacesOf(out, g)) <= MaxNamespacesPerSource THEN 0 ELSE c + 1]

NameOf(out, s) ==
    IF Collapsed(out, s) THEN GroupName(out, SigOf[s], Chunk(out, SigOf[s], NsOf[s]))
    ELSE OwnName(s)

-----------------------------------------------------------------------------

Powers == {2^i : i \in 0..8}

(* The loop of bucketCount: the least power of two whose square reaches n, *)
(* within the maximum.                                                     *)
SquareRoot(n) ==
    LET fits == {b \in Powers : b * b >= n \/ b >= MaxRouteBuckets}
    IN  CHOOSE b \in fits : \A c \in fits : b <= c

CeilDiv(n, b) == (n + b - 1) \div b

BucketCount(n) ==
    LET b == SquareRoot(n)
        half == b \div 2
    IN  IF half > 0 /\ half + CeilDiv(n, half) <= b + CeilDiv(n, b) THEN half ELSE b

(* nsBucket, and the remap transform that computes it for an event.        *)
Bucket(n, buckets) == Digest[n] % buckets

(* Plausible bug: the chunks of the namespaces and of the sources count    *)
(* from different numbers.                                                 *)
RouteOutputNext(out, s) ==
    [watched |-> ChunkNamespaces(out, SigOf[s], Chunk(out, SigOf[s], NsOf[s]) + 1),
     buckets |-> 1, bucket |-> 0, route |-> NsOf[s]]

(* The output that collapseSourceGroup gives a source: the route of its    *)
(* namespace, behind the one of its bucket when the group is large.        *)
RouteOutput(out, s) ==
    LET g == SigOf[s]
        watched == ChunkNamespaces(out, g, Chunk(out, g, NsOf[s]))
        flat == Cardinality(watched) <= FlatRoutingThreshold
        buckets == IF flat THEN 1 ELSE BucketCount(Cardinality(watched))
    IN  [watched |-> watched, buckets |-> buckets,
         bucket |-> Bucket(NsOf[s], buckets), route |-> NsOf[s]]

(* Does an event of namespace n come out of it?                            *)
Passes(o, n) ==
    /\ n \in o.watched
    /\ Bucket(n, o.buckets) = o.bucket
    /\ n = o.route

(* What the consumers of a source receive before and after: whose events,  *)
(* not how often.  Sources of one pipeline with equal settings deliver an  *)
(* event once each, and once in all when they are collapsed                *)
(* (rewriteInputs).                                                        *)
Stream(s) == {n \in Namespace : s \in Wide \/ n = NsOf[s]}

RoutedStream(out, s) ==
    IF Collapsed(out, s) THEN {n \in Namespace : Passes(RouteOutput(out, s), n)}
    ELSE Stream(s)
=============================================================================
