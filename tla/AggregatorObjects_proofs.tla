---------------------- MODULE AggregatorObjects_proofs -----------------------
(***************************************************************************)
(* Proofs about AggregatorObjects, for any number of namesakes, any specs  *)
(* and any bounds: type correctness, the order in which the collector      *)
(* comes and goes, what the last aggregator of a name leaves behind, who   *)
(* sets the replicas, and what is done when the operator rests.            *)
(***************************************************************************)
EXTENDS AggregatorObjects, TLAPS

-----------------------------------------------------------------------------
(* Plans.                                                                  *)

Names == Own \cup Shared \cup Kind \cup {"services", "finalizer"}

Before(p, i, job) == \E j \in 1..(i - 1) : p[j] = job

(* What the pods of the collector use.                                     *)
Base == {"collector-config", "collector-account"}

(* No job of p concerns the collector.                                     *)
NoCollector(p) == \A i \in DOMAIN p : p[i].obj \notin Collector

(* A plan that brings the collector brings what it uses first, but for     *)
(* what is ready; one that removes what the collector uses removes the     *)
(* collector first, if it is not away, and does not bring it.              *)
Ordered(p, ready, away) ==
    \A x \in Base : \A i \in DOMAIN p :
        /\ p[i] = Ensure("collector") => x \in ready \/ Before(p, i, Ensure(x))
        /\ p[i] = Delete(x) =>
              /\ "collector" \in away \/ Before(p, i, Delete("collector"))
              /\ \A j \in DOMAIN p : p[j] # Ensure("collector")

(* The only workloads of p are those of a round for the spec s.            *)
KindsOf(p, s) ==
    \A i \in DOMAIN p :
        /\ p[i].obj # "finalizer"
        /\ p[i].obj \in Kind => p[i] \in {Ensure(KindOf(s)), Delete(OtherKind(s))}

(* A list of names makes a list of jobs.                                   *)
LEMMA AllFacts ==
    ASSUME NEW os \in Seq(Names)
    PROVE  /\ EnsureAll(os) \in Seq(Jobs) /\ DeleteAll(os) \in Seq(Jobs)
           /\ Len(EnsureAll(os)) = Len(os) /\ Len(DeleteAll(os)) = Len(os)
           /\ \A i \in 1..Len(os) : /\ EnsureAll(os)[i] = Ensure(os[i])
                                    /\ DeleteAll(os)[i] = Delete(os[i])
<1>1. DOMAIN os = 1..Len(os) /\ Len(os) \in Nat /\ \A i \in 1..Len(os) : os[i] \in Names
  OBVIOUS
<1>2. \A o \in Names : Ensure(o) \in Jobs /\ Delete(o) \in Jobs
  BY DEF Ensure, Delete, Jobs, Names
<1>3. EnsureAll(os) \in [1..Len(os) -> Jobs] /\ DeleteAll(os) \in [1..Len(os) -> Jobs]
  BY <1>1, <1>2 DEF EnsureAll, DeleteAll
<1>4. \A i \in 1..Len(os) : /\ EnsureAll(os)[i] = Ensure(os[i])
                            /\ DeleteAll(os)[i] = Delete(os[i])
  BY <1>1 DEF EnsureAll, DeleteAll
<1> HIDE DEF EnsureAll, DeleteAll
<1> QED
  BY <1>1, <1>3, <1>4

(* Jobs are told apart by their operation and their object.                *)
LEMMA JobFacts ==
    /\ \A o, q : Ensure(o) # Delete(q)
    /\ \A o, q : Ensure(o) = Ensure(q) => o = q
    /\ \A o, q : Delete(o) = Delete(q) => o = q
    /\ \A o : Ensure(o).obj = o /\ Ensure(o).op = "ensure"
    /\ \A o : Delete(o).obj = o /\ Delete(o).op = "delete"
    /\ \A j \in Jobs : j = Ensure(j.obj) \/ j = Delete(j.obj)
<1>1. \A o, q : Ensure(o) # Delete(q)
  <2> TAKE o, q
  <2>1. Ensure(o).op = "ensure" /\ Delete(q).op = "delete"
    BY DEF Ensure, Delete
  <2> QED
    BY <2>1
<1> QED
  BY <1>1 DEF Ensure, Delete, Jobs

(* One name, or none, makes a plan of one job, or none.                    *)
LEMMA ShortFacts ==
    /\ EnsureAll(<<>>) = <<>> /\ DeleteAll(<<>>) = <<>>
    /\ \A o \in Names : /\ EnsureAll(<<o>>) = <<Ensure(o)>> /\ DeleteAll(<<o>>) = <<Delete(o)>>
                        /\ Ensure(o) \in Jobs /\ Delete(o) \in Jobs
BY DEF EnsureAll, DeleteAll, Ensure, Delete, Jobs, Names

(* Putting plans one after the other.                                      *)
LEMMA ConcatIndex ==
    ASSUME NEW p \in Seq(Jobs), NEW q \in Seq(Jobs)
    PROVE  /\ p \o q \in Seq(Jobs) /\ Len(p \o q) = Len(p) + Len(q)
           /\ DOMAIN (p \o q) = 1..(Len(p) + Len(q))
           /\ DOMAIN p = 1..Len(p) /\ DOMAIN q = 1..Len(q)
           /\ \A i \in 1..Len(p) : (p \o q)[i] = p[i]
           /\ \A i \in 1..Len(q) : (p \o q)[Len(p) + i] = q[i]
           /\ \A i \in DOMAIN (p \o q) :
                 i \in 1..Len(p) \/ (i - Len(p) \in 1..Len(q) /\ i = Len(p) + (i - Len(p)))
OBVIOUS

LEMMA ConcatKinds ==
    ASSUME NEW p \in Seq(Jobs), NEW q \in Seq(Jobs), NEW s, KindsOf(p, s), KindsOf(q, s)
    PROVE  KindsOf(p \o q, s)
BY ConcatIndex DEF KindsOf

LEMMA ConcatNoCollector ==
    ASSUME NEW p \in Seq(Jobs), NEW q \in Seq(Jobs), NoCollector(p), NoCollector(q)
    PROVE  NoCollector(p \o q)
BY ConcatIndex DEF NoCollector

(* Jobs that do not concern the collector may come before and after.       *)
LEMMA ConcatOrdered ==
    ASSUME NEW p \in Seq(Jobs), NEW q \in Seq(Jobs), NEW ready, NEW away,
           NoCollector(p), Ordered(q, ready, away)
    PROVE  Ordered(p \o q, ready, away) /\ Ordered(q \o p, ready, away)
<1>1. /\ "collector" \in Collector /\ Base \subseteq Collector
      /\ Len(p) \in Nat /\ Len(q) \in Nat
  BY DEF Base, Collector
<1>2. \A x \in Collector : \A i \in DOMAIN p : p[i] # Ensure(x) /\ p[i] # Delete(x)
  BY JobFacts DEF NoCollector
<1>3. Ordered(p \o q, ready, away)
  <2> SUFFICES ASSUME NEW x \in Base, NEW i \in DOMAIN (p \o q)
               PROVE  /\ (p \o q)[i] = Ensure("collector") =>
                            x \in ready \/ Before(p \o q, i, Ensure(x))
                      /\ (p \o q)[i] = Delete(x) =>
                            /\ "collector" \in away \/ Before(p \o q, i, Delete("collector"))
                            /\ \A j \in DOMAIN (p \o q) : (p \o q)[j] # Ensure("collector")
    BY DEF Ordered
  <2>1. CASE i \in 1..Len(p)
    BY <1>1, <1>2, <2>1, ConcatIndex
  <2>2. ASSUME NEW n \in 1..Len(q), i = Len(p) + n
        PROVE  /\ (p \o q)[i] = Ensure("collector") =>
                            x \in ready \/ Before(p \o q, i, Ensure(x))
               /\ (p \o q)[i] = Delete(x) =>
                     /\ "collector" \in away \/ Before(p \o q, i, Delete("collector"))
                     /\ \A j \in DOMAIN (p \o q) : (p \o q)[j] # Ensure("collector")
    <3>1. (p \o q)[i] = q[n] /\ n \in DOMAIN q
      BY <2>2, ConcatIndex
    <3>2. ASSUME NEW job, Before(q, n, job) PROVE Before(p \o q, i, job)
      <4>1. PICK j \in 1..(n - 1) : q[j] = job
        BY <3>2 DEF Before
      <4>2. (p \o q)[Len(p) + j] = job /\ Len(p) + j \in 1..(i - 1)
        BY <1>1, <2>2, <4>1, ConcatIndex
      <4> QED
        BY <4>2 DEF Before
    <3>3. (\A j \in DOMAIN q : q[j] # Ensure("collector"))
            => \A j \in DOMAIN (p \o q) : (p \o q)[j] # Ensure("collector")
      BY <1>1, <1>2, ConcatIndex
    <3> QED
      BY <3>1, <3>2, <3>3 DEF Ordered
  <2> QED
    BY <2>1, <2>2, ConcatIndex
<1>4. Ordered(q \o p, ready, away)
  <2> SUFFICES ASSUME NEW x \in Base, NEW i \in DOMAIN (q \o p)
               PROVE  /\ (q \o p)[i] = Ensure("collector") =>
                            x \in ready \/ Before(q \o p, i, Ensure(x))
                      /\ (q \o p)[i] = Delete(x) =>
                            /\ "collector" \in away \/ Before(q \o p, i, Delete("collector"))
                            /\ \A j \in DOMAIN (q \o p) : (q \o p)[j] # Ensure("collector")
    BY DEF Ordered
  <2>1. ASSUME NEW n \in 1..Len(p), i = Len(q) + n
        PROVE  (q \o p)[i] # Ensure("collector") /\ (q \o p)[i] # Delete(x)
    BY <1>1, <1>2, <2>1, ConcatIndex
  <2>2. CASE i \in 1..Len(q)
    <3>1. (q \o p)[i] = q[i] /\ i \in DOMAIN q
      BY <2>2, ConcatIndex
    <3>2. ASSUME NEW job, Before(q, i, job) PROVE Before(q \o p, i, job)
      <4>1. PICK j \in 1..(i - 1) : q[j] = job
        BY <3>2 DEF Before
      <4>2. (q \o p)[j] = job
        BY <1>1, <2>2, <4>1, ConcatIndex
      <4> QED
        BY <4>1, <4>2 DEF Before
    <3>3. (\A j \in DOMAIN q : q[j] # Ensure("collector"))
            => \A j \in DOMAIN (q \o p) : (q \o p)[j] # Ensure("collector")
      BY <1>1, <1>2, ConcatIndex
    <3> QED
      BY <3>1, <3>2, <3>3 DEF Ordered
  <2> QED
    BY <2>1, <2>2, ConcatIndex
<1> QED
  BY <1>3, <1>4

(* The two kinds, and which of them a spec asks for.                       *)
LEMMA KindFacts ==
    /\ Kind = {"Deployment", "StatefulSet"}
    /\ \A s : KindOf(s) \in Kind /\ OtherKind(s) \in Kind /\ KindOf(s) # OtherKind(s)
    /\ \A s : \A k \in Kind : k = KindOf(s) \/ k = OtherKind(s)
BY DEF Kind, KindOf, OtherKind

(* The parts of a plan that concern neither the collector nor a workload.  *)
LEMMA OtherParts ==
    ASSUME NEW s, NEW p,
           \/ p = RBAC \/ p = EnsureAll(<<"services">>) \/ p = EnsurePodMonitor(s)
           \/ p = EnsureHPA(s) \/ p = EnsureBudget(s)
    PROVE  p \in Seq(Jobs) /\ NoCollector(p) /\ KindsOf(p, s)
<1>1. ASSUME NEW os \in Seq(Names),
             \A i \in 1..Len(os) : os[i] \notin Collector \cup Kind \cup {"finalizer"},
             p = EnsureAll(os) \/ p = DeleteAll(os)
      PROVE  p \in Seq(Jobs) /\ NoCollector(p) /\ KindsOf(p, s)
  <2>1. p \in Seq(Jobs) /\ Len(p) = Len(os)
    BY <1>1, AllFacts
  <2>2. DOMAIN p = 1..Len(os)
    BY <2>1
  <2>3. \A i \in 1..Len(os) : p[i].obj = os[i]
    BY <1>1, AllFacts, JobFacts
  <2> QED
    BY <1>1, <2>1, <2>2, <2>3 DEF NoCollector, KindsOf
<1>2. ASSUME NEW o \in {"services", "podmonitor", "hpa", "pdb"},
             p = EnsureAll(<<o>>) \/ p = DeleteAll(<<o>>)
      PROVE  p \in Seq(Jobs) /\ NoCollector(p) /\ KindsOf(p, s)
  <2>1. o \in Names
    BY DEF Names, Own
  <2>2. o \notin Collector \cup Kind \cup {"finalizer"}
    BY DEF Collector, Kind
  <2>3. PICK job \in Jobs : p = <<job>> /\ job.obj = o
    BY <1>2, <2>1, ShortFacts, JobFacts
  <2> QED
    BY <2>2, <2>3 DEF NoCollector, KindsOf
<1>3. CASE p = RBAC
  <2> DEFINE os == <<"account", "role", "binding">>
  <2>1. os \in Seq(Names) /\ Len(os) = 3
    BY DEF Names, Own, Shared
  <2>2. \A i \in 1..3 : os[i] \notin Collector \cup Kind \cup {"finalizer"}
    BY DEF Collector, Kind
  <2>3. p = EnsureAll(os)
    BY <1>3 DEF RBAC
  <2> HIDE DEF os
  <2> QED
    BY <1>1, <2>1, <2>2, <2>3
<1>4. CASE p = EnsureAll(<<>>)
  <2>1. p = <<>>
    BY <1>4, ShortFacts
  <2> QED
    BY <2>1 DEF NoCollector, KindsOf
<1> QED
  BY <1>2, <1>3, <1>4 DEF EnsurePodMonitor, If, EnsureHPA, EnsureBudget

(* ensureEventCollector and cleanupEventCollector.                         *)
LEMMA CollectorPart ==
    ASSUME NEW s
    PROVE  /\ EnsureCollector(s) \in Seq(Jobs)
           /\ Ordered(EnsureCollector(s), {}, {})
           /\ KindsOf(EnsureCollector(s), s)
<1> DEFINE up == <<"collector-config", "collector-account", "collector-role",
                   "collector-binding", "collector-service", "collector">>
           down == <<"collector", "collector-service", "collector-binding",
                     "collector-role", "collector-account", "collector-config">>
<1>1. /\ up \in Seq(Names) /\ Len(up) = 6 /\ down \in Seq(Names) /\ Len(down) = 6
      /\ \A i \in 1..6 : up[i] \notin Kind \cup {"finalizer"}
      /\ \A i \in 1..6 : down[i] \notin Kind \cup {"finalizer"}
  BY DEF Names, Own, Shared, Collector, Kind
<1>2. /\ up[1] = "collector-config" /\ up[2] = "collector-account"
      /\ \A i \in 1..6 : up[i] = "collector" => i = 6
      /\ down[1] = "collector"
      /\ \A i \in 1..6 : down[i] \in Base => i > 1
  BY DEF Base
<1>3. EnsureCollector(s) = EnsureAll(up) \/ EnsureCollector(s) = DeleteAll(down)
  BY DEF EnsureCollector
<1> HIDE DEF up, down
<1>4. CASE EnsureCollector(s) = EnsureAll(up)
  <2> DEFINE p == EnsureAll(up)
  <2>0. p \in Seq(Jobs) /\ Len(p) = 6 /\ \A i \in 1..6 : p[i] = Ensure(up[i])
    BY <1>1, AllFacts
  <2> HIDE DEF p
  <2>1. p \in Seq(Jobs) /\ DOMAIN p = 1..6 /\ \A i \in 1..6 : p[i] = Ensure(up[i])
    BY <2>0
  <2>2. KindsOf(p, s)
    BY <1>1, <2>1, JobFacts DEF KindsOf
  <2>3. \A x \in Base : \E j \in 1..5 : p[j] = Ensure(x)
    BY <1>2, <2>1 DEF Base
  <2>4. \A i \in DOMAIN p : p[i] = Ensure("collector") => i = 6
    BY <1>2, <2>1, JobFacts
  <2>5. \A x \in Base : \A i \in DOMAIN p : p[i] # Delete(x)
    BY <2>1, JobFacts
  <2>6. Ordered(p, {}, {})
    BY <2>3, <2>4, <2>5 DEF Ordered, Before
  <2> QED
    BY <1>4, <2>1, <2>2, <2>6 DEF p
<1>5. CASE EnsureCollector(s) = DeleteAll(down)
  <2> DEFINE p == DeleteAll(down)
  <2>1. p \in Seq(Jobs) /\ Len(p) = 6 /\ \A i \in 1..6 : p[i] = Delete(down[i])
    BY <1>1, AllFacts
  <2> HIDE DEF p
  <2>2. DOMAIN p = 1..6
    BY <2>1
  <2>3. KindsOf(p, s)
    BY <1>1, <2>1, <2>2, JobFacts DEF KindsOf
  <2>4. \A i \in DOMAIN p : p[i] # Ensure("collector")
    BY <2>1, <2>2, JobFacts
  <2>5. \A x \in Base : \A i \in DOMAIN p : p[i] = Delete(x) => i > 1 /\ i \in Nat
    BY <1>2, <2>1, <2>2, JobFacts
  <2>6. p[1] = Delete("collector")
    BY <1>2, <2>1
  <2>7. Ordered(p, {}, {})
    BY <2>4, <2>5, <2>6 DEF Ordered, Before
  <2> QED
    BY <1>5, <2>1, <2>3, <2>7 DEF p
<1> QED
  BY <1>3, <1>4, <1>5

(* The workload of the new kind is written before the obsolete one goes.   *)
LEMMA WorkloadPart ==
    ASSUME NEW a, NEW s
    PROVE  /\ EnsureWorkload(a, s) \in Seq(Jobs)
           /\ Len(EnsureWorkload(a, s)) > 0
           /\ EnsureWorkload(a, s)[1] = Ensure(KindOf(s))
           /\ NoCollector(EnsureWorkload(a, s))
           /\ KindsOf(EnsureWorkload(a, s), s)
<1> DEFINE p == EnsureAll(<<KindOf(s)>>)
           q == DeleteAll(If(workload[a][OtherKind(s)] # Absent, <<OtherKind(s)>>))
<1>1. Kind \subseteq Names
  BY DEF Names
<1>2. \A k \in Kind : k \notin Collector \cup {"finalizer"}
  BY DEF Collector, Kind
<1>3. p \in Seq(Jobs) /\ Len(p) = 1 /\ DOMAIN p = 1..1 /\ p[1] = Ensure(KindOf(s))
  <2>1. p = <<Ensure(KindOf(s))>> /\ Ensure(KindOf(s)) \in Jobs
    BY <1>1, KindFacts, ShortFacts
  <2> HIDE DEF p
  <2> QED
    BY <2>1
<1>4. NoCollector(p) /\ KindsOf(p, s)
  BY <1>2, <1>3, KindFacts, JobFacts DEF NoCollector, KindsOf
<1>5. q \in Seq(Jobs) /\ NoCollector(q) /\ KindsOf(q, s)
  <2>1. CASE q = DeleteAll(<<OtherKind(s)>>)
    <3>1. q = <<Delete(OtherKind(s))>> /\ Delete(OtherKind(s)) \in Jobs
      BY <1>1, <2>1, KindFacts, ShortFacts
    <3> HIDE DEF q
    <3> QED
      BY <1>2, <3>1, KindFacts, JobFacts DEF NoCollector, KindsOf
  <2>2. CASE q = DeleteAll(<<>>)
    <3>1. q = <<>>
      BY <2>2, ShortFacts
    <3> HIDE DEF q
    <3> QED
      BY <3>1 DEF NoCollector, KindsOf
  <2> QED
    BY <2>1, <2>2 DEF If
<1>6. EnsureWorkload(a, s) = p \o q
  BY DEF EnsureWorkload
<1> HIDE DEF p, q
<1>7. p \o q \in Seq(Jobs) /\ Len(p \o q) > 0 /\ (p \o q)[1] = p[1]
  BY <1>3, <1>5
<1> QED
  BY <1>3, <1>4, <1>5, <1>6, <1>7, ConcatNoCollector, ConcatKinds

(* EnsureVectorAggregator as a plan.                                       *)
LEMMA PlanFacts ==
    ASSUME NEW a, NEW s
    PROVE  /\ EnsurePlan(a, s) \in Seq(Jobs)
           /\ EnsurePlan(a, s) # <<>>
           /\ Head(EnsurePlan(a, s)) = Ensure(KindOf(s))
           /\ Ordered(EnsurePlan(a, s), {}, {})
           /\ KindsOf(EnsurePlan(a, s), s)
<1> DEFINE p1 == EnsureWorkload(a, s)
           p2 == p1 \o RBAC
           p3 == p2 \o EnsureAll(<<"services">>)
           p4 == p3 \o EnsurePodMonitor(s)
           p5 == p4 \o EnsureCollector(s)
           p6 == p5 \o EnsureHPA(s)
           p7 == p6 \o EnsureBudget(s)
<1>1. EnsurePlan(a, s) = p7
  BY DEF EnsurePlan
<1>2. /\ p1 \in Seq(Jobs) /\ NoCollector(p1) /\ KindsOf(p1, s)
      /\ Len(p1) > 0 /\ p1[1] = Ensure(KindOf(s))
  BY WorkloadPart
<1>3. /\ p2 \in Seq(Jobs) /\ NoCollector(p2) /\ KindsOf(p2, s)
      /\ Len(p2) > 0 /\ p2[1] = Ensure(KindOf(s))
  <2>1. RBAC \in Seq(Jobs) /\ NoCollector(RBAC) /\ KindsOf(RBAC, s)
    BY OtherParts
  <2> HIDE DEF p1
  <2> QED
    BY <1>2, <2>1, ConcatNoCollector, ConcatKinds
<1>4. /\ p3 \in Seq(Jobs) /\ NoCollector(p3) /\ KindsOf(p3, s)
      /\ Len(p3) > 0 /\ p3[1] = Ensure(KindOf(s))
  <2> DEFINE q == EnsureAll(<<"services">>)
  <2>1. q \in Seq(Jobs) /\ NoCollector(q) /\ KindsOf(q, s)
    BY OtherParts
  <2> HIDE DEF p2, q
  <2>2. p2 \o q \in Seq(Jobs) /\ NoCollector(p2 \o q) /\ KindsOf(p2 \o q, s)
        /\ Len(p2 \o q) > 0 /\ (p2 \o q)[1] = p2[1]
    BY <1>3, <2>1, ConcatNoCollector, ConcatKinds
  <2> QED
    BY <1>3, <2>2 DEF q
<1>5. /\ p4 \in Seq(Jobs) /\ NoCollector(p4) /\ KindsOf(p4, s)
      /\ Len(p4) > 0 /\ p4[1] = Ensure(KindOf(s))
  <2>1. /\ EnsurePodMonitor(s) \in Seq(Jobs) /\ NoCollector(EnsurePodMonitor(s))
        /\ KindsOf(EnsurePodMonitor(s), s)
    BY OtherParts
  <2> HIDE DEF p3
  <2> QED
    BY <1>4, <2>1, ConcatNoCollector, ConcatKinds
<1>6. /\ p5 \in Seq(Jobs) /\ Ordered(p5, {}, {}) /\ KindsOf(p5, s)
      /\ Len(p5) > 0 /\ p5[1] = Ensure(KindOf(s))
  <2> HIDE DEF p4
  <2> QED
    BY <1>5, CollectorPart, ConcatOrdered, ConcatKinds
<1>7. /\ p6 \in Seq(Jobs) /\ Ordered(p6, {}, {}) /\ KindsOf(p6, s)
      /\ Len(p6) > 0 /\ p6[1] = Ensure(KindOf(s))
  <2>1. EnsureHPA(s) \in Seq(Jobs) /\ NoCollector(EnsureHPA(s)) /\ KindsOf(EnsureHPA(s), s)
    BY OtherParts
  <2> HIDE DEF p5
  <2> QED
    BY <1>6, <2>1, ConcatOrdered, ConcatKinds
<1>8. /\ p7 \in Seq(Jobs) /\ Ordered(p7, {}, {}) /\ KindsOf(p7, s)
      /\ Len(p7) > 0 /\ p7[1] = Ensure(KindOf(s))
  <2>1. /\ EnsureBudget(s) \in Seq(Jobs) /\ NoCollector(EnsureBudget(s))
        /\ KindsOf(EnsureBudget(s), s)
    BY OtherParts
  <2> HIDE DEF p6
  <2> QED
    BY <1>7, <2>1, ConcatOrdered, ConcatKinds
<1> HIDE DEF p7
<1> QED
  BY <1>1, <1>8

(* DeleteVectorAggregator and the finalizer as a plan.                     *)
LEMMA DeletePlanFacts ==
    /\ DeletePlan \in Seq(Jobs) /\ DeleteAll(<<"finalizer">>) \in Seq(Jobs)
    /\ DeletePlan # <<>> /\ Head(DeletePlan) = Delete("role")
    /\ Tail(DeletePlan) = DeleteAll(<<"binding", "finalizer">>)
    /\ DeleteAll(<<"binding", "finalizer">>) # <<>>
    /\ Head(DeleteAll(<<"binding", "finalizer">>)) = Delete("binding")
    /\ Tail(DeleteAll(<<"binding", "finalizer">>)) = DeleteAll(<<"finalizer">>)
    /\ DeleteAll(<<"finalizer">>) # <<>>
    /\ Head(DeleteAll(<<"finalizer">>)) = Delete("finalizer")
    /\ Tail(DeleteAll(<<"finalizer">>)) = <<>>
<1>1. /\ DeletePlan = <<Delete("role"), Delete("binding"), Delete("finalizer")>>
      /\ DeleteAll(<<"binding", "finalizer">>) = <<Delete("binding"), Delete("finalizer")>>
      /\ DeleteAll(<<"finalizer">>) = <<Delete("finalizer")>>
  BY DEF DeletePlan, DeleteAll
<1>2. Delete("role") \in Jobs /\ Delete("binding") \in Jobs /\ Delete("finalizer") \in Jobs
  BY DEF Delete, Jobs, Shared
<1> QED
  <2>1. /\ <<Delete("role"), Delete("binding"), Delete("finalizer")>> \in Seq(Jobs)
        /\ <<Delete("finalizer")>> \in Seq(Jobs)
    BY <1>2
  <2>2. /\ <<Delete("role"), Delete("binding"), Delete("finalizer")>> # <<>>
        /\ <<Delete("binding"), Delete("finalizer")>> # <<>>
        /\ <<Delete("finalizer")>> # <<>>
        /\ Head(<<Delete("role"), Delete("binding"), Delete("finalizer")>>) = Delete("role")
        /\ Tail(<<Delete("role"), Delete("binding"), Delete("finalizer")>>)
             = <<Delete("binding"), Delete("finalizer")>>
    OBVIOUS
  <2>3. /\ Head(<<Delete("binding"), Delete("finalizer")>>) = Delete("binding")
        /\ Tail(<<Delete("binding"), Delete("finalizer")>>) = <<Delete("finalizer")>>
    OBVIOUS
  <2>4. /\ Head(<<Delete("finalizer")>>) = Delete("finalizer")
        /\ Tail(<<Delete("finalizer")>>) = <<>>
    OBVIOUS
  <2> QED
    BY <1>1, <2>1, <2>2, <2>3, <2>4

(* The Services a round lists are neither a workload nor the collector's.  *)
LEMMA ServicesFacts ==
    ASSUME NEW a, NEW s
    PROVE  /\ EnsureServices(a, s) \in Seq(Jobs)
           /\ NoCollector(EnsureServices(a, s))
           /\ KindsOf(EnsureServices(a, s), s)
<1>1. ASSUME NEW os, NEW p \in {EnsureAll(Listed(os)), DeleteAll(Listed(os))}
      PROVE  p \in Seq(Jobs) /\ NoCollector(p) /\ KindsOf(p, s)
  <2> DEFINE l == Listed(os)
  <2>1. /\ l \in Seq(Names)
        /\ \A i \in 1..Len(l) : l[i] \in Service
    <3>1. ASSUME NEW b, NEW o \in Service PROVE If(b, <<o>>) \in Seq(Service)
      <4>1. <<o>> \in Seq(Service) /\ <<>> \in Seq(Service)
        OBVIOUS
      <4> QED
        BY <4>1 DEF If
    <3>2. l \in Seq(Service)
      <4>1. "service" \in Service /\ "headless" \in Service
        BY DEF Service
      <4> QED
        BY <3>1, <4>1 DEF Listed
    <3>3. Service \subseteq Names
      BY DEF Names, Own
    <3> HIDE DEF l
    <3> QED
      BY <3>2, <3>3
  <2>2. \A o \in Service : o \notin Collector \cup Kind \cup {"finalizer"}
    BY DEF Service, Collector, Kind
  <2> HIDE DEF l
  <2>3. p \in Seq(Jobs) /\ DOMAIN p = 1..Len(l) /\ \A i \in 1..Len(l) : p[i].obj = l[i]
    BY <2>1, AllFacts, JobFacts DEF l
  <2> QED
    BY <2>1, <2>2, <2>3 DEF NoCollector, KindsOf
<1> DEFINE p == EnsureAll(Listed(ServicesOf(s)))
           q == DeleteAll(Listed({o \in Service \ ServicesOf(s) : own[a][o] # None}))
<1>2. p \in Seq(Jobs) /\ NoCollector(p) /\ KindsOf(p, s)
  BY <1>1
<1>3. q \in Seq(Jobs) /\ NoCollector(q) /\ KindsOf(q, s)
  BY <1>1
<1>4. EnsureServices(a, s) = p \o q
  BY DEF EnsureServices
<1> HIDE DEF p, q
<1> QED
  BY <1>2, <1>3, <1>4, ConcatNoCollector, ConcatKinds

-----------------------------------------------------------------------------
(* Type correctness.                                                       *)

CR == [there : {TRUE}, finalizer : BOOLEAN, deleting : BOOLEAN, spec : Specs]

(* An idle worker is no round.                                             *)
LEMMA RoundFacts ==
    /\ \A r \in Rounds : r # Idle
    /\ TypeOK => round = Idle \/ round \in Rounds
    /\ TypeOK => round.orphans \in SUBSET Aggregator
    /\ TypeOK /\ round = Idle => round.orphans = {}
<1>1. \A r \in Rounds : r # Idle
  <2> SUFFICES ASSUME NEW r \in Rounds PROVE r # Idle
    OBVIOUS
  <2>1. r.request # None
    BY ObjectsAssumption DEF Rounds, None, ByName
  <2>2. Idle.request = None
    BY DEF Idle
  <2> QED
    BY <2>1, <2>2
<1>2. Idle.orphans = {}
  BY DEF Idle
<1> QED
  BY <1>1, <1>2 DEF TypeOK, Rounds

(* The job at hand and the ones to come.                                   *)
LEMMA JobAtHand ==
    ASSUME TypeOK, InRound
    PROVE  /\ round \in Rounds /\ round.plan \in Seq(Jobs) /\ round.of \in Aggregator
           /\ round.spec \in Specs /\ round.deletion \in BOOLEAN
           /\ 1 \in DOMAIN round.plan /\ Job = round.plan[1] /\ Job \in Jobs
           /\ Tail(round.plan) \in Seq(Jobs)
           /\ \A i \in DOMAIN Tail(round.plan) :
                 i \in Nat /\ i > 0 /\ i + 1 \in DOMAIN round.plan
                 /\ Tail(round.plan)[i] = round.plan[i + 1]
           /\ \A i \in DOMAIN round.plan :
                 i = 1 \/ (i - 1 \in DOMAIN Tail(round.plan) /\ i \in Nat /\ i > 1)
<1>1. /\ round \in Rounds /\ round.plan \in Seq(Jobs) /\ round.of \in Aggregator
      /\ round.spec \in Specs /\ round.deletion \in BOOLEAN
  BY DEF TypeOK, InRound, Rounds
<1>2. round.plan # <<>>
  BY DEF InRound
<1> QED
  BY <1>1, <1>2 DEF Job

(* A round that changes its plan changes nothing else.                     *)
LEMMA PlanChange ==
    ASSUME TypeOK, InRound, NEW p \in Seq(Jobs), round' = [round EXCEPT !.plan = p]
    PROVE  /\ round' \in Rounds /\ round' # Idle /\ round'.plan = p
           /\ round'.of = round.of /\ round'.spec = round.spec
           /\ round'.deletion = round.deletion /\ round'.rest = round.rest
           /\ round'.orphans = round.orphans /\ round'.request = round.request
<1>1. round \in Rounds
  BY JobAtHand
<1>2. round' \in Rounds
  BY <1>1 DEF Rounds
<1> QED
  BY <1>1, <1>2, RoundFacts DEF Rounds

LEMMA DoneChange ==
    ASSUME TypeOK, InRound, Done
    PROVE  /\ round' \in Rounds /\ round' # Idle /\ round'.plan = Tail(round.plan)
           /\ round'.of = round.of /\ round'.spec = round.spec
           /\ round'.deletion = round.deletion /\ round'.rest = round.rest
           /\ round'.orphans = round.orphans /\ round'.request = round.request
BY JobAtHand, PlanChange DEF Done

(* What a new round begins with.                                           *)
LEMMA NewRound ==
    ASSUME TypeOK, NEW r \in Aggregator \cup {ByName}, NEW a \in Aggregator,
           NEW s \in Specs, NEW d \in BOOLEAN, NEW rest \in SUBSET (Aggregator \X Specs)
    PROVE  /\ RoundOf(r, a, s, d, rest) \in Rounds
           /\ RoundOf(r, a, s, d, rest) # Idle
           /\ RoundOf(r, a, s, d, rest).of = a
           /\ RoundOf(r, a, s, d, rest).spec = s
           /\ RoundOf(r, a, s, d, rest).deletion = d
           /\ RoundOf(r, a, s, d, rest).rest = rest
           /\ RoundOf(r, a, s, d, rest).orphans = round.orphans
           /\ RoundOf(r, a, s, d, rest).plan = IF d THEN DeletePlan ELSE EnsurePlan(a, s)
<1> DEFINE plan == IF d THEN DeletePlan ELSE EnsurePlan(a, s)
<1>1. plan \in Seq(Jobs)
  BY PlanFacts, DeletePlanFacts
<1>2. RoundOf(r, a, s, d, rest) =
        [request |-> r, of |-> a, spec |-> s, deletion |-> d, rest |-> rest,
         orphans |-> round.orphans, plan |-> plan]
  BY DEF RoundOf
<1>3. round.orphans \in SUBSET Aggregator
  BY RoundFacts
<1> HIDE DEF plan
<1>4. RoundOf(r, a, s, d, rest) \in Rounds
  BY <1>1, <1>2, <1>3 DEF Rounds
<1> QED
  BY <1>2, <1>4, RoundFacts DEF plan

(* A round for several aggregators takes the next of them.                 *)
LEMMA ContinueFacts ==
    ASSUME TypeOK, NEW r \in Aggregator \cup {ByName},
           NEW rest \in SUBSET (Aggregator \X Specs), Continue(r, rest)
    PROVE  \/ round' = Idle /\ rest = {}
           \/ \E x \in rest :
                 /\ x[1] \in Aggregator /\ x[2] \in Specs
                 /\ round' \in Rounds /\ round' # Idle
                 /\ round'.of = x[1] /\ round'.spec = x[2] /\ round'.deletion = FALSE
                 /\ round'.rest = rest \ {x} /\ round'.orphans = round.orphans
                 /\ round'.plan = EnsurePlan(x[1], x[2])
<1>1. CASE rest = {}
  BY <1>1 DEF Continue
<1>2. CASE rest # {}
  <2>1. PICK x \in rest : round' = RoundOf(r, x[1], x[2], FALSE, rest \ {x})
    BY <1>2 DEF Continue
  <2>2. x[1] \in Aggregator /\ x[2] \in Specs /\ rest \ {x} \in SUBSET (Aggregator \X Specs)
    OBVIOUS
  <2> DEFINE plan == EnsurePlan(x[1], x[2])
             left == rest \ {x}
             away == round.orphans
  <2>3. round' = [request |-> r, of |-> x[1], spec |-> x[2], deletion |-> FALSE,
                  rest |-> left, orphans |-> away, plan |-> plan]
    BY <2>1 DEF RoundOf
  <2>4. plan \in Seq(Jobs) /\ away \in SUBSET Aggregator /\ left \in SUBSET (Aggregator \X Specs)
    BY <2>2, PlanFacts, RoundFacts
  <2> HIDE DEF plan, left, away
  <2>5. round' \in Rounds
    BY <2>2, <2>3, <2>4 DEF Rounds
  <2>6. round' # Idle
    BY <2>5, RoundFacts
  <2>7. /\ round'.of = x[1] /\ round'.spec = x[2] /\ round'.deletion = FALSE
        /\ round'.rest = left /\ round'.orphans = away /\ round'.plan = plan
    BY <2>3
  <2> QED
    BY <2>2, <2>5, <2>6, <2>7 DEF plan, left, away
<1> QED
  BY <1>1, <1>2

(* It stays the round of the same request.                                 *)
LEMMA ContinueRequest ==
    ASSUME NEW r, NEW rest, Continue(r, rest)
    PROVE  round' = Idle \/ round'.request = r
BY DEF Continue, RoundOf

(* A write of one object, and the request it leads to.                     *)
LEMMA PutFacts ==
    ASSUME TypeOK, InRound, NEW o \in Own \cup Shared, NEW v, Put(o, v)
    PROVE  /\ queue' \subseteq Aggregator \cup {ByName} /\ waiting' \subseteq Aggregator
           /\ o \in Shared => shared' = [shared EXCEPT ![o] = v] /\ own' = own
           /\ o \notin Shared => own' = [own EXCEPT ![round.of][o] = v] /\ shared' = shared
<1>1. round.of \in Aggregator
  BY JobAtHand
<1>2. queue' \subseteq Aggregator \cup {ByName} /\ waiting' \subseteq Aggregator
  BY <1>1 DEF Put, Request, TypeOK
<1> QED
  BY <1>2 DEF Put

(* What is written into an object.                                         *)
LEMMA ContentType ==
    ASSUME NEW a \in Aggregator, NEW s
    PROVE  /\ \A o \in Own : Content(a, s, o) \in {"set", "Deployment", "StatefulSet"}
           /\ \A o \in Shared : Content(a, s, o) \in Aggregator \cup {"set"}
<1>1. \A o \in Own : o \notin {"binding", "collector-binding"}
  BY DEF Own, Service, Collector
<1>2. \A o \in Shared : o # "hpa"
  BY DEF Shared
<1>3. KindOf(s) \in {"Deployment", "StatefulSet"}
  BY DEF KindOf
<1> QED
  BY <1>1, <1>2, <1>3 DEF Content

(* The replicas and claims that are written into a workload: it is there.  *)
LEMMA WorkloadType ==
    ASSUME NEW s \in Specs, NEW w \in [replicas : Nat, size : Nat]
    PROVE  /\ Fresh(s) \in [replicas : Nat, size : Nat] /\ Fresh(s) # Absent
           /\ Update(w, s) \in [replicas : Nat, size : Nat]
           /\ w # Absent => Update(w, s) # Absent
           /\ s.autoscaling => Update(w, s).replicas = w.replicas
<1>1. s.size \in Nat /\ s.replicas \in Nat /\ ReplicasOf(s) \in Nat
  BY ObjectsAssumption DEF Spec_, ReplicasOf
<1>2. Fresh(s) \in [replicas : Nat, size : Nat] /\ Fresh(s).replicas # 0
  BY <1>1 DEF Fresh, Defaulted
<1>3. Update(w, s) \in [replicas : Nat, size : Nat]
  BY <1>1 DEF Update
<1>4. /\ Update(w, s).size = w.size
      /\ Update(w, s).replicas # w.replicas => Update(w, s).replicas # 0
  BY <1>1 DEF Update
<1>5. Absent.replicas = 0 /\ Absent.size = 0
  BY DEF Absent
<1>6. ASSUME w # Absent PROVE Update(w, s) # Absent
  <2>1. w.size # 0 \/ w.replicas # 0
    BY <1>6 DEF Absent
  <2> QED
    BY <1>4, <1>5, <2>1
<1>7. s.autoscaling => Update(w, s).replicas = w.replicas
  BY DEF Update, ReplicasOf
<1> QED
  BY <1>2, <1>3, <1>5, <1>6, <1>7

(* What is known of an aggregator that is there, and of one that is not.   *)
LEMMA CrFacts ==
    ASSUME TypeOK, NEW a \in Aggregator
    PROVE  /\ cr[a].there => /\ cr[a] \in CR /\ cr[a].spec \in Specs
                             /\ cr[a].deleting \in BOOLEAN /\ cr[a].finalizer \in BOOLEAN
           /\ ~cr[a].there => cr[a] = Gone /\ ~cr[a].finalizer
           /\ Live(a) => cr[a].there /\ cr[a] \in CR /\ ~cr[a].deleting
<1>1. cr[a] = Gone \/ cr[a] \in CR
  BY DEF TypeOK, CR
<1>2. ~Gone.there /\ ~Gone.finalizer
  BY DEF Gone
<1>3. \A c \in CR : c.there /\ c.spec \in Specs /\ c.deleting \in BOOLEAN /\ c.finalizer \in BOOLEAN
  BY DEF CR
<1> QED
  BY <1>1, <1>2, <1>3 DEF Live

(* Changing one aggregator keeps the type of cr.                           *)
LEMMA CrChange ==
    ASSUME TypeOK, NEW a \in Aggregator, NEW c \in {Gone} \cup CR,
           c.deleting => c.finalizer, cr' = [cr EXCEPT ![a] = c]
    PROVE  /\ cr' \in [Aggregator -> {Gone} \cup CR]
           /\ \A b \in Aggregator : cr'[b].deleting => cr'[b].finalizer
           /\ cr'[a] = c /\ \A b \in Aggregator \ {a} : cr'[b] = cr[b]
<1>1. cr \in [Aggregator -> {Gone} \cup CR] /\ \A b \in Aggregator : cr[b].deleting => cr[b].finalizer
  BY DEF TypeOK, CR
<1> QED
  BY <1>1

(* A queued request.                                                       *)
LEMMA RequestFacts ==
    ASSUME TypeOK, NEW r \in Aggregator \cup {ByName}, Request(r)
    PROVE  queue' \subseteq Aggregator \cup {ByName} /\ waiting' \subseteq Aggregator
BY DEF TypeOK, Request

(* Writing one object of one aggregator.                                   *)
LEMMA OwnChange ==
    ASSUME TypeOK, NEW a \in Aggregator, NEW o \in Own, NEW v, own' = [own EXCEPT ![a][o] = v]
    PROVE  /\ v \in {None, "set", "Deployment", "StatefulSet"} =>
                 own' \in [Aggregator -> [Own -> {None, "set", "Deployment", "StatefulSet"}]]
           /\ own'[a][o] = v
           /\ \A b \in Aggregator, q \in Own : b # a \/ q # o => own'[b][q] = own[b][q]
<1> DEFINE V == {None, "set", "Deployment", "StatefulSet"}
           f == [own[a] EXCEPT ![o] = v]
<1>1. own \in [Aggregator -> [Own -> V]]
  BY DEF TypeOK
<1> HIDE DEF V
<1>2. (v \in V => f \in [Own -> V]) /\ f[o] = v /\ \A q \in Own \ {o} : f[q] = own[a][q]
  BY <1>1
<1>3. own' = [own EXCEPT ![a] = f]
  OBVIOUS
<1> HIDE DEF f
<1>4. /\ v \in V => own' \in [Aggregator -> [Own -> V]]
      /\ own'[a] = f /\ \A b \in Aggregator \ {a} : own'[b] = own[b]
  BY <1>1, <1>2, <1>3
<1> QED
  BY <1>1, <1>2, <1>4 DEF V

Replicated == [replicas : Nat, size : Nat]

Written(a, k, w) == [workload EXCEPT ![a][k] = w]

(* Writing one workload of one aggregator.                                 *)
LEMMA WorkloadChange ==
    ASSUME TypeOK, NEW a \in Aggregator, NEW k \in Kind, NEW w \in Replicated,
           workload' = Written(a, k, w)
    PROVE  /\ workload' \in [Aggregator -> [Kind -> Replicated]]
           /\ workload'[a][k] = w
           /\ \A b \in Aggregator, q \in Kind : b # a \/ q # k => workload'[b][q] = workload[b][q]
<1> DEFINE W == Replicated
           f == [workload[a] EXCEPT ![k] = w]
<1>1. workload \in [Aggregator -> [Kind -> W]] /\ w \in W
  BY DEF TypeOK, Replicated
<1> HIDE DEF W
<1>2. f \in [Kind -> W] /\ f[k] = w /\ \A q \in Kind \ {k} : f[q] = workload[a][q]
  BY <1>1
<1>3. workload' = [workload EXCEPT ![a] = f]
  BY DEF Written
<1> HIDE DEF f
<1>4. /\ workload' \in [Aggregator -> [Kind -> W]] /\ workload'[a] = f
      /\ \A b \in Aggregator \ {a} : workload'[b] = workload[b]
  BY <1>1, <1>2, <1>3
<1> QED
  BY <1>1, <1>2, <1>4 DEF W

(* The autoscaler changes the replicas of a workload that is there.        *)
LEMMA ScaleFacts ==
    ASSUME TypeOK, NEW a \in Aggregator, Scale(a)
    PROVE  /\ workload' \in [Aggregator -> [Kind -> [replicas : Nat, size : Nat]]]
           /\ \A b \in Aggregator, q \in Kind :
                 (workload'[b][q] # Absent) = (workload[b][q] # Absent)
<1> DEFINE k == own[a]["hpa"]
<1>1. PICK n \in 1..cr[a].spec.maxReplicas : workload' = [workload EXCEPT ![a][k].replicas = n]
  BY DEF Scale
<1>2. n \in Nat /\ n # 0
  BY CrFacts, ObjectsAssumption DEF Scale, Spec_
<1>3. workload[a][k] # Absent
  BY DEF Scale
<1>4. k \in {None, "set", "Deployment", "StatefulSet"}
  BY DEF TypeOK, Own
<1> HIDE DEF k
<1>5. CASE k \in Kind
  <2> DEFINE w == [workload[a][k] EXCEPT !.replicas = n]
  <2>1. w \in [replicas : Nat, size : Nat] /\ w.replicas = n
    <3>1. workload[a][k] \in [replicas : Nat, size : Nat]
      BY <1>5 DEF TypeOK
    <3> QED
      BY <1>2, <3>1
  <2>2. workload' = [workload EXCEPT ![a][k] = w]
    BY <1>1
  <2>3. w # Absent
    BY <1>2, <2>1 DEF Absent
  <2> HIDE DEF w
  <2>6. w \in Replicated
    BY <2>1 DEF Replicated
  <2>7. workload' = Written(a, k, w)
    BY <2>2 DEF Written
  <2>4. /\ workload' \in [Aggregator -> [Kind -> Replicated]]
        /\ workload'[a][k] = w
        /\ \A b \in Aggregator, q \in Kind : b # a \/ q # k => workload'[b][q] = workload[b][q]
    BY <1>5, <2>6, <2>7, WorkloadChange
  <2>5. \A b \in Aggregator, q \in Kind :
           (workload'[b][q] # Absent) = (workload[b][q] # Absent)
    <3> SUFFICES ASSUME NEW b \in Aggregator, NEW q \in Kind
                 PROVE  (workload'[b][q] # Absent) = (workload[b][q] # Absent)
      OBVIOUS
    <3>1. CASE b # a \/ q # k
      BY <2>4, <3>1
    <3>2. CASE b = a /\ q = k
      BY <1>3, <2>3, <2>4, <3>2
    <3> QED
      BY <3>1, <3>2
  <2> QED
    BY <2>4, <2>5 DEF Replicated
<1>6. CASE k \notin Kind
  <2> DEFINE f == [workload[a] EXCEPT ![k].replicas = n]
  <2>1. workload \in [Aggregator -> [Kind -> [replicas : Nat, size : Nat]]]
    BY DEF TypeOK
  <2>2. f = workload[a]
    BY <1>6, <2>1
  <2>3. workload' = [workload EXCEPT ![a] = f]
    BY <1>1
  <2> HIDE DEF f
  <2>4. workload' = workload
    BY <2>1, <2>2, <2>3
  <2> QED
    BY <2>1, <2>4
<1> QED
  BY <1>5, <1>6

(* An aggregator without a finalizer that goes is noted in the round.      *)
LEMMA OrphanChange ==
    ASSUME TypeOK, NEW a \in Aggregator,
           round' = [round EXCEPT !.orphans = IF round = Idle THEN {} ELSE @ \cup {a}]
    PROVE  /\ round = Idle => round' = Idle
           /\ round # Idle =>
                 /\ round' \in Rounds /\ round' # Idle /\ round'.plan = round.plan
                 /\ round'.of = round.of /\ round'.spec = round.spec
                 /\ round'.deletion = round.deletion /\ round'.rest = round.rest
                 /\ round'.orphans = round.orphans \cup {a} /\ round'.request = round.request
<1>1. CASE round = Idle
  <2>1. round' = [round EXCEPT !.orphans = {}]
    BY <1>1
  <2>2. round = [request |-> None, of |-> None, plan |-> <<>>, rest |-> {}, orphans |-> {}]
    BY <1>1 DEF Idle
  <2>3. round' = round
    BY <2>1, <2>2
  <2> QED
    BY <1>1, <2>3
<1>2. CASE round # Idle
  <2>1. round \in Rounds
    BY <1>2 DEF TypeOK
  <2>2. round' = [round EXCEPT !.orphans = round.orphans \cup {a}]
    BY <1>2, <2>1 DEF Rounds
  <2>3. round' \in Rounds
    BY <2>1, <2>2 DEF Rounds
  <2> QED
    BY <1>2, <2>1, <2>2, <2>3, RoundFacts DEF Rounds
<1> QED
  BY <1>1, <1>2

(* What the users and the autoscaler do.                                   *)
LEMMA UserType ==
    ASSUME TypeOK, Users
    PROVE  TypeOK'
<1> USE DEF CR
<1>1. UserStep => edits' \in 0..MaxEdits /\ faults' \in 0..MaxFaults
  BY ObjectsAssumption DEF TypeOK, UserStep
<1>2. ASSUME NEW a \in Aggregator, NEW s \in Specs, Create(a, s)
      PROVE  TypeOK'
  <2> DEFINE c == [there |-> TRUE, finalizer |-> FALSE, deleting |-> FALSE, spec |-> s]
  <2>1. c \in CR /\ ~c.deleting
    OBVIOUS
  <2>2. cr' = [cr EXCEPT ![a] = c]
    BY <1>2 DEF Create
  <2> HIDE DEF c
  <2>3. /\ cr' \in [Aggregator -> {Gone} \cup CR]
        /\ \A b \in Aggregator : cr'[b].deleting => cr'[b].finalizer
    BY <2>1, <2>2, CrChange
  <2>4. queue' \subseteq Aggregator \cup {ByName} /\ waiting' \subseteq Aggregator
    BY <1>2, RequestFacts DEF Create
  <2> QED
    BY <1>1, <1>2, <2>3, <2>4 DEF TypeOK, Create, objects
<1>3. ASSUME NEW a \in Aggregator, NEW s \in Specs, Edit(a, s)
      PROVE  TypeOK'
  <2> DEFINE c == [cr[a] EXCEPT !.spec = s]
  <2>1. c \in CR /\ c.deleting = cr[a].deleting /\ c.finalizer = cr[a].finalizer
    BY <1>3, CrFacts DEF Edit
  <2>2. cr' = [cr EXCEPT ![a] = c] /\ (c.deleting => c.finalizer)
    BY <1>3, <2>1 DEF Edit, TypeOK
  <2> HIDE DEF c
  <2>3. /\ cr' \in [Aggregator -> {Gone} \cup CR]
        /\ \A b \in Aggregator : cr'[b].deleting => cr'[b].finalizer
    BY <2>1, <2>2, CrChange
  <2>4. queue' \subseteq Aggregator \cup {ByName} /\ waiting' \subseteq Aggregator
    BY <1>3, RequestFacts DEF Edit
  <2> QED
    BY <1>1, <1>3, <2>3, <2>4 DEF TypeOK, Edit, objects
<1>4. ASSUME NEW a \in Aggregator, Withdraw(a)
      PROVE  TypeOK'
  <2>1. queue' \subseteq Aggregator \cup {ByName} /\ waiting' \subseteq Aggregator
    BY <1>4, RequestFacts DEF Withdraw
  <2>2. CASE cr[a].finalizer
    <3> DEFINE c == [cr[a] EXCEPT !.deleting = TRUE]
    <3>1. c \in CR /\ c.deleting = TRUE /\ c.finalizer = cr[a].finalizer
      BY <1>4, CrFacts DEF Withdraw
    <3>2. cr' = [cr EXCEPT ![a] = c]
      BY <1>4, <2>2 DEF Withdraw
    <3> HIDE DEF c
    <3>3. /\ cr' \in [Aggregator -> {Gone} \cup CR]
          /\ \A b \in Aggregator : cr'[b].deleting => cr'[b].finalizer
      BY <2>2, <3>1, <3>2, CrChange
    <3> QED
      BY <1>1, <1>4, <2>1, <2>2, <3>3 DEF TypeOK, Withdraw, objects
  <2>3. CASE ~cr[a].finalizer
    <3>1. /\ cr' = [cr EXCEPT ![a] = Gone]
          /\ own' = [own EXCEPT ![a] = [o \in Own |-> None]]
          /\ workload' = [workload EXCEPT ![a] = Nothing]
          /\ excused' = (excused \/ workload[a] # Nothing)
          /\ round' = [round EXCEPT !.orphans = IF round = Idle THEN {} ELSE @ \cup {a}]
          /\ UNCHANGED shared /\ UserStep
      BY <1>4, <2>3 DEF Withdraw
    <3>2. /\ cr' \in [Aggregator -> {Gone} \cup CR]
          /\ \A b \in Aggregator : cr'[b].deleting => cr'[b].finalizer
      <4>1. ~Gone.deleting
        BY DEF Gone
      <4> QED
        BY <3>1, <4>1, CrChange
    <3>3. own' \in [Aggregator -> [Own -> {None, "set", "Deployment", "StatefulSet"}]]
      BY <3>1 DEF TypeOK
    <3>4. workload' \in [Aggregator -> [Kind -> [replicas : Nat, size : Nat]]]
      <4>1. Nothing \in [Kind -> [replicas : Nat, size : Nat]]
        BY DEF Nothing, Absent
      <4> QED
        BY <3>1, <4>1 DEF TypeOK
    <3>5. round' = Idle \/ round' \in Rounds
      BY <3>1, OrphanChange
    <3> QED
      BY <1>1, <2>1, <3>1, <3>2, <3>3, <3>4, <3>5 DEF TypeOK
  <2> QED
    BY <2>2, <2>3
<1>5. ASSUME NEW a \in Aggregator, Scale(a)
      PROVE  TypeOK'
  <2>1. queue' \subseteq Aggregator \cup {ByName} /\ waiting' \subseteq Aggregator
    BY <1>5, RequestFacts DEF Scale
  <2>2. workload' \in [Aggregator -> [Kind -> [replicas : Nat, size : Nat]]]
    BY <1>5, ScaleFacts
  <2> QED
    BY <1>1, <1>5, <2>1, <2>2 DEF TypeOK, Scale
<1>6. ASSUME NEW a \in Aggregator, NEW o \in Own \cup Shared, Tamper(a, o)
      PROVE  TypeOK'
  <2>1. queue' \subseteq Aggregator \cup {ByName} /\ waiting' \subseteq Aggregator
    BY <1>6, RequestFacts DEF Tamper, TypeOK
  <2>2. /\ own' \in [Aggregator -> [Own -> {None, "set", "Deployment", "StatefulSet"}]]
        /\ shared' \in [Shared -> Aggregator \cup {None, "set"}]
    <3>1. CASE o \in Own
      BY <1>6, <3>1, OwnChange DEF Tamper, TypeOK
    <3>2. CASE o \notin Own
      BY <1>6, <3>2 DEF Tamper, TypeOK
    <3> QED
      BY <3>1, <3>2
  <2> QED
    BY <1>1, <1>6, <2>1, <2>2 DEF TypeOK, Tamper
<1> QED
  BY <1>2, <1>3, <1>4, <1>5, <1>6 DEF Users

(* A write keeps the types.                                                *)
LEMMA PutTypes ==
    ASSUME TypeOK, InRound, NEW o \in Own \cup Shared, NEW v, Put(o, v),
           o \in Own => v \in {None, "set", "Deployment", "StatefulSet"},
           o \in Shared => v \in Aggregator \cup {None, "set"}
    PROVE  /\ own' \in [Aggregator -> [Own -> {None, "set", "Deployment", "StatefulSet"}]]
           /\ shared' \in [Shared -> Aggregator \cup {None, "set"}]
           /\ queue' \subseteq Aggregator \cup {ByName} /\ waiting' \subseteq Aggregator
<1>1. round.of \in Aggregator
  BY JobAtHand
<1>2. queue' \subseteq Aggregator \cup {ByName} /\ waiting' \subseteq Aggregator
  BY PutFacts
<1>3. CASE o \in Shared
  <2>1. shared' = [shared EXCEPT ![o] = v] /\ own' = own
    BY <1>3, PutFacts
  <2> QED
    BY <1>2, <1>3, <2>1 DEF TypeOK
<1>4. CASE o \notin Shared
  <2>1. own' = [own EXCEPT ![round.of][o] = v] /\ shared' = shared
    BY <1>4, PutFacts
  <2>2. own' \in [Aggregator -> [Own -> {None, "set", "Deployment", "StatefulSet"}]]
    BY <1>1, <1>4, <2>1, OwnChange
  <2> QED
    BY <1>2, <2>1, <2>2 DEF TypeOK
<1> QED
  BY <1>3, <1>4

(* A write touches one object of the round's aggregator at most.           *)
LEMMA PutOwn ==
    ASSUME TypeOK, InRound, NEW o \in Own \cup Shared, NEW v, Put(o, v)
    PROVE  /\ \A b \in Aggregator, q \in Own : b # round.of \/ q # o => own'[b][q] = own[b][q]
           /\ o \in Own => own'[round.of][o] = v
<1>1. round.of \in Aggregator
  BY JobAtHand
<1>2. CASE o \in Shared
  <2>1. own' = own
    BY <1>2, PutFacts
  <2>2. o \notin Own
    BY <1>2 DEF Own, Shared, Service, Collector
  <2> QED
    BY <2>1, <2>2
<1>3. CASE o \notin Shared
  <2>1. own' = [own EXCEPT ![round.of][o] = v]
    BY <1>3, PutFacts
  <2>2. o \in Own
    BY <1>3
  <2> QED
    BY <1>1, <2>1, <2>2 DEF TypeOK
<1> QED
  BY <1>2, <1>3

(* The Services take their place in the plan.                              *)
LEMMA ListChange ==
    ASSUME TypeOK, ListServices
    PROVE  /\ EnsureServices(round.of, round.spec) \o Tail(round.plan) \in Seq(Jobs)
           /\ round' \in Rounds /\ round' # Idle
           /\ round'.plan = EnsureServices(round.of, round.spec) \o Tail(round.plan)
           /\ round'.of = round.of /\ round'.spec = round.spec
           /\ round'.deletion = round.deletion /\ round'.rest = round.rest
           /\ round'.orphans = round.orphans /\ round'.request = round.request
<1> DEFINE p == EnsureServices(round.of, round.spec) \o Tail(round.plan)
<1>1. InRound /\ round' = [round EXCEPT !.plan = p]
  BY DEF ListServices
<1>2. EnsureServices(round.of, round.spec) \in Seq(Jobs) /\ Tail(round.plan) \in Seq(Jobs)
  BY <1>1, JobAtHand, ServicesFacts
<1>3. p \in Seq(Jobs)
  BY <1>2, ConcatIndex
<1> HIDE DEF p
<1>4. /\ round' \in Rounds /\ round' # Idle /\ round'.plan = p
      /\ round'.of = round.of /\ round'.spec = round.spec
      /\ round'.deletion = round.deletion /\ round'.rest = round.rest
      /\ round'.orphans = round.orphans /\ round'.request = round.request
  BY <1>1, <1>3, PlanChange
<1> QED
  BY <1>3, <1>4 DEF p

(* What becomes of a workload that is written.                             *)
LEMMA WriteFacts ==
    ASSUME TypeOK, WriteWorkload
    PROVE  /\ workload' \in [Aggregator -> [Kind -> [replicas : Nat, size : Nat]]]
           /\ queue' \subseteq Aggregator \cup {ByName} /\ waiting' \subseteq Aggregator
           /\ \A b \in Aggregator, q \in Kind :
                 b # round.of \/ q # Job.obj => workload'[b][q] = workload[b][q]
           /\ Job.op = "delete" \/ Orphan => workload'[round.of][Job.obj] = Absent
           /\ Job.op = "ensure" /\ ~Orphan => workload'[round.of][Job.obj] # Absent
           /\ (round.spec.autoscaling /\ workload[round.of][Job.obj] # Absent) =>
                 \/ workload'[round.of][Job.obj] = Absent
                 \/ workload'[round.of][Job.obj].replicas = workload[round.of][Job.obj].replicas
<1> DEFINE a == round.of
           k == Job.obj
           w == workload[a][k]
           v == IF Job.op = "delete" \/ Orphan THEN Absent
                ELSE IF w = Absent THEN Fresh(round.spec) ELSE Update(w, round.spec)
<1>1. InRound /\ k \in Kind /\ a \in Aggregator /\ round.spec \in Specs
  BY JobAtHand DEF WriteWorkload
<1>2. /\ workload' = [workload EXCEPT ![a][k] = v]
      /\ IF v # w THEN Request(a) ELSE UNCHANGED <<queue, waiting>>
  BY DEF WriteWorkload
<1>3. w \in [replicas : Nat, size : Nat] /\ Absent \in [replicas : Nat, size : Nat]
  BY <1>1 DEF TypeOK, Absent
<1>4. /\ v \in [replicas : Nat, size : Nat]
      /\ Job.op = "delete" \/ Orphan => v = Absent
      /\ Job.op = "ensure" /\ ~Orphan => v # Absent
      /\ round.spec.autoscaling /\ w # Absent => v = Absent \/ v.replicas = w.replicas
  BY <1>1, <1>3, WorkloadType
<1>5. queue' \subseteq Aggregator \cup {ByName} /\ waiting' \subseteq Aggregator
  BY <1>1, <1>2, RequestFacts DEF TypeOK
<1> HIDE DEF a, k, w, v
<1>11. v \in Replicated
  BY <1>4 DEF Replicated
<1>6. /\ workload' \in [Aggregator -> [Kind -> Replicated]]
      /\ workload'[a][k] = v
      /\ \A b \in Aggregator, q \in Kind : b # a \/ q # k => workload'[b][q] = workload[b][q]
  <2>1. workload' = Written(a, k, v)
    BY <1>2 DEF Written
  <2> QED
    BY <1>1, <1>11, <2>1, WorkloadChange
<1>7. /\ Job.op = "delete" \/ Orphan => workload'[a][k] = Absent
      /\ Job.op = "ensure" /\ ~Orphan => workload'[a][k] # Absent
      /\ round.spec.autoscaling /\ w # Absent =>
            workload'[a][k] = Absent \/ workload'[a][k].replicas = w.replicas
  BY <1>4, <1>6
<1>8. \A b \in Aggregator, q \in Kind :
          b # round.of \/ q # Job.obj => workload'[b][q] = workload[b][q]
  BY <1>6 DEF a, k
<1>9. /\ Job.op = "delete" \/ Orphan => workload'[round.of][Job.obj] = Absent
      /\ Job.op = "ensure" /\ ~Orphan => workload'[round.of][Job.obj] # Absent
  BY <1>7 DEF a, k
<1>10. (round.spec.autoscaling /\ workload[round.of][Job.obj] # Absent) =>
          \/ workload'[round.of][Job.obj] = Absent
          \/ workload'[round.of][Job.obj].replicas = workload[round.of][Job.obj].replicas
  BY <1>7 DEF a, k, w
<1> QED
  BY <1>5, <1>6, <1>8, <1>9, <1>10 DEF Replicated

(* A round for one aggregator: to build what it asks for or to remove it.  *)
LEMMA StartFacts ==
    ASSUME TypeOK, NEW a \in Aggregator, StartRound(a)
    PROVE  /\ round = Idle /\ round.orphans = {}
           /\ \/ round' = Idle
              \/ /\ cr[a].there /\ cr[a].finalizer
                 /\ round' \in Rounds /\ round' # Idle
                 /\ round'.of = a /\ round'.spec = cr[a].spec /\ round'.request = a
                 /\ round'.deletion = cr[a].deleting
                 /\ round'.rest = {} /\ round'.orphans = {}
                 /\ round'.plan = IF cr[a].deleting THEN DeletePlan ELSE EnsurePlan(a, cr[a].spec)
<1>1. round = Idle /\ round.orphans = {}
  BY RoundFacts DEF StartRound, Take
<1>2. CASE ~cr[a].there
  BY <1>1, <1>2 DEF StartRound
<1>3. CASE cr[a].there
  <2> DEFINE plan == IF cr[a].deleting THEN DeletePlan ELSE EnsurePlan(a, cr[a].spec)
             d == cr[a].deleting
             s == cr[a].spec
  <2>1. round' = [request |-> a, of |-> a, spec |-> s, deletion |-> d, rest |-> {},
                  orphans |-> round.orphans, plan |-> plan]
    BY <1>3 DEF StartRound, RoundOf
  <2>2. s \in Specs /\ d \in BOOLEAN
    BY <1>3, CrFacts
  <2>3. plan \in Seq(Jobs)
    BY PlanFacts, DeletePlanFacts
  <2> HIDE DEF plan, s, d
  <2>4. round' \in Rounds
    BY <1>1, <2>1, <2>2, <2>3 DEF Rounds
  <2>5. round' # Idle
    BY <2>4, RoundFacts
  <2>6. /\ round'.of = a /\ round'.spec = s /\ round'.deletion = d /\ round'.request = a
        /\ round'.rest = {} /\ round'.orphans = {} /\ round'.plan = plan
    BY <1>1, <2>1
  <2>7. cr[a].finalizer
    BY <1>3 DEF StartRound
  <2> QED
    BY <1>1, <1>3, <2>4, <2>5, <2>6, <2>7 DEF plan, s, d
<1> QED
  BY <1>2, <1>3

(* A round for all aggregators of the name.                                *)
LEMMA NamedFacts ==
    ASSUME TypeOK, StartNamedRound
    PROVE  /\ round = Idle /\ round.orphans = {}
           /\ \/ round' = Idle
              \/ \E x \in Aggregator \X Specs :
                    /\ cr[x[1]].there /\ x[1] \in Aggregator /\ x[2] \in Specs
                    /\ round' \in Rounds /\ round' # Idle
                    /\ round'.of = x[1] /\ round'.spec = x[2] /\ round'.deletion = FALSE
                    /\ \A y \in round'.rest : y[1] \in Aggregator /\ cr[y[1]].there
                    /\ round'.orphans = {}
                    /\ round'.plan = EnsurePlan(x[1], x[2])
<1> DEFINE rest == {<<a, cr[a].spec>> : a \in {b \in Aggregator : Live(b)}}
<1>1. round = Idle /\ round.orphans = {}
  BY RoundFacts DEF StartNamedRound, Take
<1>2. Continue(ByName, rest)
  BY DEF StartNamedRound
<1>3. /\ rest \in SUBSET (Aggregator \X Specs)
      /\ \A x \in rest : x[1] \in Aggregator /\ cr[x[1]].there
  BY CrFacts
<1> HIDE DEF rest
<1>4. \/ round' = Idle
      \/ \E x \in rest :
            /\ x[1] \in Aggregator /\ x[2] \in Specs
            /\ round' \in Rounds /\ round' # Idle
            /\ round'.of = x[1] /\ round'.spec = x[2] /\ round'.deletion = FALSE
            /\ round'.rest = rest \ {x} /\ round'.orphans = round.orphans
            /\ round'.plan = EnsurePlan(x[1], x[2])
  BY <1>2, <1>3, ContinueFacts
<1> QED
  BY <1>1, <1>3, <1>4

(* What the operator does.                                                 *)
LEMMA OperatorType ==
    ASSUME TypeOK, Step \/ Start \/ FailRound \/ Restart
    PROVE  TypeOK'
<1> USE DEF CR
<1>1. ASSUME EnsureObject
      PROVE  TypeOK'
  <2> DEFINE o == Job.obj
             v == IF Orphan /\ o \in Own THEN None ELSE Content(round.of, round.spec, o)
  <2>1. InRound /\ o \in Own \cup Shared /\ Put(o, v) /\ Done
    BY <1>1 DEF EnsureObject
  <2>2. /\ o \in Own => v \in {None, "set", "Deployment", "StatefulSet"}
        /\ o \in Shared => v \in Aggregator \cup {None, "set"}
    <3>1. Own \cap Shared = {}
      BY DEF Own, Shared, Service, Collector
    <3> QED
      BY <2>1, <3>1, JobAtHand, ContentType
  <2> HIDE DEF o, v
  <2>3. /\ own' \in [Aggregator -> [Own -> {None, "set", "Deployment", "StatefulSet"}]]
        /\ shared' \in [Shared -> Aggregator \cup {None, "set"}]
        /\ queue' \subseteq Aggregator \cup {ByName} /\ waiting' \subseteq Aggregator
    BY <2>1, <2>2, PutTypes
  <2>4. round' \in Rounds
    BY <2>1, DoneChange
  <2>5. excused' \in BOOLEAN /\ UNCHANGED <<cr, workload, edits, faults>>
    BY <1>1 DEF EnsureObject, TypeOK
  <2> QED
    BY <2>3, <2>4, <2>5 DEF TypeOK
<1>2. ASSUME ListServices
      PROVE  TypeOK'
  <2>1. round' \in Rounds
    BY <1>2, ListChange
  <2> QED
    BY <1>2, <2>1 DEF TypeOK, ListServices, objects, history
<1>3. ASSUME DeleteObject
      PROVE  TypeOK'
  <2> DEFINE o == Job.obj
  <2>1. InRound /\ o \in Own \cup Shared /\ Put(o, None)
    BY <1>3 DEF DeleteObject
  <2> HIDE DEF o
  <2>2. /\ own' \in [Aggregator -> [Own -> {None, "set", "Deployment", "StatefulSet"}]]
        /\ shared' \in [Shared -> Aggregator \cup {None, "set"}]
        /\ queue' \subseteq Aggregator \cup {ByName} /\ waiting' \subseteq Aggregator
    BY <2>1, PutTypes
  <2>3. round' \in Rounds
    BY <1>3, <2>1, DoneChange, PlanChange, DeletePlanFacts DEF DeleteObject
  <2>4. excused' \in BOOLEAN /\ UNCHANGED <<cr, workload, edits, faults>>
    BY <1>3 DEF DeleteObject, TypeOK
  <2> QED
    BY <2>2, <2>3, <2>4 DEF TypeOK
<1>4. ASSUME WriteWorkload
      PROVE  TypeOK'
  <2>1. round' \in Rounds
    BY <1>4, DoneChange DEF WriteWorkload
  <2>2. /\ workload' \in [Aggregator -> [Kind -> [replicas : Nat, size : Nat]]]
        /\ queue' \subseteq Aggregator \cup {ByName} /\ waiting' \subseteq Aggregator
    BY <1>4, WriteFacts
  <2> QED
    BY <1>4, <2>1, <2>2 DEF TypeOK, WriteWorkload
<1>5. ASSUME RemoveFinalizer
      PROVE  TypeOK'
  <2>1. /\ InRound /\ Done /\ Request(round.of) /\ round.of \in Aggregator
        /\ cr' = [cr EXCEPT ![round.of] = Gone]
        /\ own' = [own EXCEPT ![round.of] = [o \in Own |-> None]]
        /\ workload' = [workload EXCEPT ![round.of] = Nothing]
        /\ UNCHANGED <<shared, excused, edits, faults>>
    BY <1>5, JobAtHand DEF RemoveFinalizer
  <2>2. /\ cr' \in [Aggregator -> {Gone} \cup CR]
        /\ \A b \in Aggregator : cr'[b].deleting => cr'[b].finalizer
    <3>1. ~Gone.deleting
      BY DEF Gone
    <3> QED
      BY <2>1, <3>1, CrChange
  <2>3. own' \in [Aggregator -> [Own -> {None, "set", "Deployment", "StatefulSet"}]]
    BY <2>1 DEF TypeOK
  <2>4. workload' \in [Aggregator -> [Kind -> [replicas : Nat, size : Nat]]]
    <3>1. Nothing \in [Kind -> [replicas : Nat, size : Nat]]
      BY DEF Nothing, Absent
    <3> QED
      BY <2>1, <3>1 DEF TypeOK
  <2>5. /\ queue' \subseteq Aggregator \cup {ByName} /\ waiting' \subseteq Aggregator
        /\ round' \in Rounds
    BY <2>1, RequestFacts, DoneChange
  <2> QED
    BY <2>1, <2>2, <2>3, <2>4, <2>5 DEF TypeOK
<1>6. ASSUME FinishRound
      PROVE  TypeOK'
  <2>1. round \in Rounds
    BY <1>6 DEF FinishRound, TypeOK
  <2>2. round.request \in Aggregator \cup {ByName} /\ round.rest \in SUBSET (Aggregator \X Specs)
    BY <2>1 DEF Rounds
  <2>3. round' = Idle \/ round' \in Rounds
    BY <1>6, <2>2, ContinueFacts DEF FinishRound
  <2> QED
    BY <1>6, <2>3 DEF TypeOK, FinishRound, objects, history
<1>7. ASSUME NEW a \in Aggregator, AddFinalizer(a)
      PROVE  TypeOK'
  <2> DEFINE c == [cr[a] EXCEPT !.finalizer = TRUE]
  <2>1. c \in CR /\ c.finalizer = TRUE
    BY <1>7, CrFacts DEF AddFinalizer
  <2>2. cr' = [cr EXCEPT ![a] = c]
    BY <1>7 DEF AddFinalizer
  <2> HIDE DEF c
  <2>3. /\ cr' \in [Aggregator -> {Gone} \cup CR]
        /\ \A b \in Aggregator : cr'[b].deleting => cr'[b].finalizer
    BY <2>1, <2>2, CrChange
  <2> QED
    BY <1>7, <2>3 DEF TypeOK, AddFinalizer, Take, objects
<1>8. ASSUME NEW a \in Aggregator, StartRound(a)
      PROVE  TypeOK'
  <2>1. round' = Idle \/ round' \in Rounds
    BY <1>8, StartFacts
  <2> QED
    BY <1>8, <2>1 DEF TypeOK, StartRound, Take, objects
<1>9. ASSUME StartNamedRound
      PROVE  TypeOK'
  <2>1. round' = Idle \/ round' \in Rounds
    BY <1>9, NamedFacts
  <2> QED
    BY <1>9, <2>1 DEF TypeOK, StartNamedRound, Take, objects, history
<1>10. ASSUME FailRound
       PROVE  TypeOK'
  <2>1. faults' \in 0..MaxFaults
    BY <1>10, ObjectsAssumption DEF FailRound, TypeOK
  <2>2. round' = Idle /\ Request(round.request) /\ UNCHANGED <<cr, objects, excused, edits>>
    BY <1>10 DEF FailRound, Abandon
  <2>3. round.request \in Aggregator \cup {ByName}
    BY <1>10, JobAtHand DEF FailRound, Rounds
  <2>4. queue' \subseteq Aggregator \cup {ByName} /\ waiting' \subseteq Aggregator
    BY <2>2, <2>3, RequestFacts
  <2> QED
    BY <2>1, <2>2, <2>4 DEF TypeOK, objects
<1>11. ASSUME Restart
       PROVE  TypeOK'
  <2>1. faults' \in 0..MaxFaults /\ UNCHANGED edits
    BY <1>11, ObjectsAssumption DEF Restart, TypeOK
  <2> QED
    BY <1>11, <2>1 DEF TypeOK, Restart, objects
<1> QED
  BY <1>1, <1>2, <1>3, <1>4, <1>5, <1>6, <1>7, <1>8, <1>9, <1>10, <1>11 DEF Step, Start

(* Every reachable state is well typed, and an aggregator that is being    *)
(* deleted still has its finalizer: only RemoveFinalizer takes it away,    *)
(* together with the object (Reconcile, vectoraggregator_controller.go).   *)
THEOREM TypeCorrect == Spec => []TypeOK
<1>1. Init => TypeOK
  <2> SUFFICES ASSUME Init PROVE TypeOK
    OBVIOUS
  <2>1. ~Gone.deleting
    BY DEF Gone
  <2>2. /\ cr \in [Aggregator -> {Gone} \cup CR]
        /\ \A a \in Aggregator : cr[a].deleting => cr[a].finalizer
    BY <2>1 DEF Init
  <2>3. workload \in [Aggregator -> [Kind -> [replicas : Nat, size : Nat]]]
    <3>1. Nothing \in [Kind -> [replicas : Nat, size : Nat]]
      BY DEF Nothing, Absent
    <3> QED
      BY <3>1 DEF Init
  <2>4. own \in [Aggregator -> [Own -> {None, "set", "Deployment", "StatefulSet"}]]
    BY DEF Init
  <2>5. shared \in [Shared -> Aggregator \cup {None, "set"}]
    BY DEF Init
  <2>6. edits \in 0..MaxEdits /\ faults \in 0..MaxFaults
    BY ObjectsAssumption DEF Init
  <2>7. /\ queue \subseteq Aggregator \cup {ByName} /\ round = Idle
        /\ waiting \subseteq Aggregator /\ excused \in BOOLEAN
    BY DEF Init
  <2> QED
    BY <2>2, <2>3, <2>4, <2>5, <2>6, <2>7 DEF TypeOK, CR
<1>2. TypeOK /\ [Next]_vars => TypeOK'
  <2> SUFFICES ASSUME TypeOK, [Next]_vars PROVE TypeOK'
    OBVIOUS
  <2>1. ASSUME UNCHANGED vars PROVE TypeOK'
    BY <2>1 DEF vars, objects, history, TypeOK
  <2> QED
    BY <2>1, UserType, OperatorType DEF Next, Rest
<1> QED
  BY <1>1, <1>2, PTL DEF Spec

-----------------------------------------------------------------------------
(* The inductive invariant of what is left behind.                         *)

Built(a) == \E k \in Kind : workload[a][k] # Absent

(* A round writes the workload of its spec's kind before anything else.    *)
WorkloadFirst ==
    round # Idle /\ ~round.deletion =>
        /\ KindsOf(round.plan, round.spec)
        /\ \/ Orphan
           \/ round.plan # <<>> /\ Head(round.plan) = Ensure(KindOf(round.spec))
           \/ workload[round.of][KindOf(round.spec)] # Absent

(* How far a deletion has come.                                            *)
DeletionPlanned ==
    round # Idle /\ round.deletion =>
        /\ round.rest = {}
        /\ \/ round.plan = DeletePlan
           \/ round.plan = DeleteAll(<<"binding", "finalizer">>) /\ shared["role"] = None
           \/ /\ round.plan = DeleteAll(<<"finalizer">>)
              /\ excused \/ (shared["role"] = None /\ shared["binding"] = None)
           \/ round.plan = <<>>

(* The aggregators a round is for are there, unless they went without a    *)
(* finalizer while it ran.                                                 *)
OwnersThere ==
    round # Idle =>
        /\ ~round.deletion => Orphan \/ cr[round.of].there
        /\ \A x \in round.rest : x[1] \in round.orphans \/ cr[x[1]].there
        /\ \A a \in round.orphans : ~Built(a) /\ ~cr[a].finalizer

(* The cluster-wide objects have an aggregator that will remove them, or   *)
(* that will be noticed when it cannot.                                    *)
SharedOwned ==
    ~excused /\ (shared["role"] # None \/ shared["binding"] # None) =>
        \E a \in Aggregator : cr[a].there /\ (cr[a].finalizer \/ Built(a))

LeftInv == WorkloadFirst /\ DeletionPlanned /\ OwnersThere /\ SharedOwned

LEMMA TailKinds ==
    ASSUME NEW p \in Seq(Jobs), p # <<>>, NEW s, KindsOf(p, s)
    PROVE  KindsOf(Tail(p), s)
<1>1. \A i \in DOMAIN Tail(p) : i + 1 \in DOMAIN p /\ Tail(p)[i] = p[i + 1]
  OBVIOUS
<1> QED
  BY <1>1 DEF KindsOf

(* A job of a round that is no deletion, and one of a round that is.       *)
LEMMA JobOfRound ==
    ASSUME TypeOK, LeftInv, InRound
    PROVE  /\ ~round.deletion => /\ Job.obj # "finalizer"
                                 /\ Job.obj \in Kind => Job \in {Ensure(KindOf(round.spec)),
                                                                 Delete(OtherKind(round.spec))}
                                 /\ KindsOf(Tail(round.plan), round.spec)
           /\ round.deletion => /\ round.rest = {} /\ Job.op = "delete"
                                /\ Job.obj \in {"role", "binding", "finalizer"}
                                /\ Job.obj = "role" => /\ round.plan = DeletePlan
                                                       /\ Tail(round.plan) = DeleteAll(<<"binding", "finalizer">>)
                                /\ Job.obj = "binding" => /\ shared["role"] = None
                                                          /\ Tail(round.plan) = DeleteAll(<<"finalizer">>)
                                /\ Job.obj = "finalizer" =>
                                      /\ Tail(round.plan) = <<>>
                                      /\ excused \/ (shared["role"] = None /\ shared["binding"] = None)
<1>1. round # Idle /\ round.plan # <<>>
  BY DEF InRound
<1>2. /\ round.plan \in Seq(Jobs) /\ 1 \in DOMAIN round.plan /\ Job = round.plan[1]
  BY JobAtHand
<1>3. ASSUME ~round.deletion
      PROVE  /\ Job.obj # "finalizer"
             /\ Job.obj \in Kind => Job \in {Ensure(KindOf(round.spec)), Delete(OtherKind(round.spec))}
             /\ KindsOf(Tail(round.plan), round.spec)
  <2>1. KindsOf(round.plan, round.spec)
    BY <1>1, <1>3 DEF LeftInv, WorkloadFirst
  <2>2. KindsOf(Tail(round.plan), round.spec)
    BY <1>1, <1>2, <2>1, TailKinds
  <2> QED
    BY <1>2, <2>1, <2>2 DEF KindsOf
<1>4. ASSUME round.deletion
      PROVE  /\ round.rest = {}
             /\ \/ /\ Job = Delete("role") /\ round.plan = DeletePlan
                   /\ Tail(round.plan) = DeleteAll(<<"binding", "finalizer">>)
                \/ /\ Job = Delete("binding") /\ shared["role"] = None
                   /\ Tail(round.plan) = DeleteAll(<<"finalizer">>)
                \/ /\ Job = Delete("finalizer") /\ Tail(round.plan) = <<>>
                   /\ excused \/ (shared["role"] = None /\ shared["binding"] = None)
  BY <1>1, <1>4, DeletePlanFacts DEF LeftInv, DeletionPlanned, Job
<1> QED
  BY <1>3, <1>4, JobFacts

LEMMA LeftUsers ==
    ASSUME TypeOK, LeftInv, Users
    PROVE  LeftInv'
<1> USE DEF LeftInv
<1>1. ASSUME NEW a \in Aggregator, NEW s \in Specs, Create(a, s)
      PROVE  LeftInv'
  <2>1. /\ ~cr[a].there /\ UNCHANGED <<round, own, shared, workload, excused>>
        /\ cr' = [cr EXCEPT ![a] = [there |-> TRUE, finalizer |-> FALSE, deleting |-> FALSE, spec |-> s]]
    BY <1>1 DEF Create, objects
  <2>2. /\ cr'[a].there /\ ~cr'[a].finalizer
        /\ \A b \in Aggregator \ {a} : cr'[b] = cr[b]
    BY <2>1 DEF TypeOK
  <2>3. WorkloadFirst' /\ DeletionPlanned'
    BY <2>1 DEF WorkloadFirst, DeletionPlanned, Orphan
  <2>4. OwnersThere'
    BY <2>1, <2>2 DEF OwnersThere, Orphan, Built, TypeOK, Rounds
  <2>5. SharedOwned'
    BY <2>1, <2>2 DEF SharedOwned, Built
  <2> QED
    BY <2>3, <2>4, <2>5
<1>2. ASSUME NEW a \in Aggregator, NEW s \in Specs, Edit(a, s)
      PROVE  LeftInv'
  <2>1. /\ cr[a] \in CR /\ UNCHANGED <<round, own, shared, workload, excused>>
        /\ cr' = [cr EXCEPT ![a].spec = s]
    BY <1>2, CrFacts DEF Edit, objects
  <2>2. \A b \in Aggregator : cr'[b].there = cr[b].there /\ cr'[b].finalizer = cr[b].finalizer
    BY <2>1 DEF TypeOK, CR
  <2>3. WorkloadFirst' /\ DeletionPlanned'
    BY <2>1 DEF WorkloadFirst, DeletionPlanned, Orphan
  <2>4. OwnersThere'
    BY <2>1, <2>2 DEF OwnersThere, Orphan, Built, TypeOK, Rounds
  <2>5. SharedOwned'
    BY <2>1, <2>2 DEF SharedOwned, Built
  <2> QED
    BY <2>3, <2>4, <2>5
<1>3. ASSUME NEW a \in Aggregator, Withdraw(a), cr[a].finalizer
      PROVE  LeftInv'
  <2>1. /\ cr[a] \in CR /\ UNCHANGED <<round, own, shared, workload, excused>>
        /\ cr' = [cr EXCEPT ![a].deleting = TRUE]
    BY <1>3, CrFacts DEF Withdraw, objects
  <2>2. \A b \in Aggregator : cr'[b].there = cr[b].there /\ cr'[b].finalizer = cr[b].finalizer
    BY <2>1 DEF TypeOK, CR
  <2>3. WorkloadFirst' /\ DeletionPlanned'
    BY <2>1 DEF WorkloadFirst, DeletionPlanned, Orphan
  <2>4. OwnersThere'
    BY <2>1, <2>2 DEF OwnersThere, Orphan, Built, TypeOK, Rounds
  <2>5. SharedOwned'
    BY <2>1, <2>2 DEF SharedOwned, Built
  <2> QED
    BY <2>3, <2>4, <2>5
<1>4. ASSUME NEW a \in Aggregator, Withdraw(a), ~cr[a].finalizer
      PROVE  LeftInv'
  <2>1. /\ cr' = [cr EXCEPT ![a] = Gone]
        /\ workload' = [workload EXCEPT ![a] = Nothing]
        /\ excused' = (excused \/ workload[a] # Nothing)
        /\ round' = [round EXCEPT !.orphans = IF round = Idle THEN {} ELSE @ \cup {a}]
        /\ UNCHANGED shared
    BY <1>4 DEF Withdraw
  <2>2. /\ ~cr'[a].there /\ ~cr'[a].finalizer
        /\ \A b \in Aggregator \ {a} : cr'[b] = cr[b]
    BY <2>1 DEF TypeOK, Gone
  <2>3. /\ \A k \in Kind : workload'[a][k] = Absent
        /\ \A b \in Aggregator \ {a} : workload'[b] = workload[b]
    BY <2>1 DEF TypeOK, Nothing
  <2>4. /\ round = Idle => round' = Idle
        /\ round # Idle =>
              /\ round \in Rounds /\ round' # Idle /\ round'.plan = round.plan
              /\ round'.of = round.of /\ round'.spec = round.spec
              /\ round'.deletion = round.deletion /\ round'.rest = round.rest
              /\ round'.orphans = round.orphans \cup {a}
    BY <2>1, OrphanChange, RoundFacts
  <2>5. round # Idle => /\ round.of \in Aggregator /\ round.orphans \subseteq Aggregator
                        /\ \A x \in round.rest : x[1] \in Aggregator
    BY <2>4 DEF Rounds
  <2>6. WorkloadFirst'
    BY <2>3, <2>4, <2>5 DEF WorkloadFirst, Orphan
  <2>7. DeletionPlanned'
    BY <2>1, <2>4 DEF DeletionPlanned
  <2>8. OwnersThere'
    BY <2>2, <2>3, <2>4, <2>5 DEF OwnersThere, Orphan, Built
  <2>9. SharedOwned'
    <3>1. SUFFICES ASSUME ~excused', shared["role"] # None \/ shared["binding"] # None
                   PROVE  \E b \in Aggregator : cr'[b].there /\ (cr'[b].finalizer \/ Built(b)')
      BY <2>1 DEF SharedOwned
    <3>2. ~excused /\ workload[a] = Nothing
      BY <2>1, <3>1
    <3>3. ~Built(a)
      BY <3>2 DEF Built, Nothing
    <3>4. PICK b \in Aggregator : cr[b].there /\ (cr[b].finalizer \/ Built(b))
      BY <3>1, <3>2 DEF SharedOwned
    <3>5. b # a
      BY <1>4, <3>3, <3>4
    <3> QED
      BY <2>2, <2>3, <3>4, <3>5 DEF Built
  <2> QED
    BY <2>6, <2>7, <2>8, <2>9
<1>5. ASSUME NEW a \in Aggregator, Scale(a)
      PROVE  LeftInv'
  <2>1. UNCHANGED <<round, cr, own, shared, excused>>
    BY <1>5 DEF Scale
  <2>2. \A b \in Aggregator, q \in Kind : (workload'[b][q] # Absent) = (workload[b][q] # Absent)
    BY <1>5, ScaleFacts
  <2>3. round # Idle => round.of \in Aggregator /\ round.orphans \subseteq Aggregator
    BY DEF TypeOK, Rounds
  <2>4. WorkloadFirst'
    BY <2>1, <2>2, <2>3, KindFacts DEF WorkloadFirst, Orphan
  <2>5. DeletionPlanned'
    BY <2>1 DEF DeletionPlanned
  <2>6. \A b \in Aggregator : Built(b)' <=> Built(b)
    BY <2>2 DEF Built
  <2>7. OwnersThere'
    BY <2>1, <2>3, <2>6 DEF OwnersThere, Orphan
  <2>8. SharedOwned'
    BY <2>1, <2>6 DEF SharedOwned
  <2> QED
    BY <2>4, <2>5, <2>7, <2>8
<1>6. ASSUME NEW a \in Aggregator, NEW o \in Own \cup Shared, Tamper(a, o)
      PROVE  LeftInv'
  <2>1. UNCHANGED <<round, cr, workload, excused>>
    BY <1>6 DEF Tamper
  <2>2. \A q \in Shared : shared[q] = None => shared'[q] = None
    BY <1>6 DEF Tamper, TypeOK
  <2>3. "role" \in Shared /\ "binding" \in Shared
    BY DEF Shared
  <2>4. WorkloadFirst'
    BY <2>1 DEF WorkloadFirst, Orphan
  <2>5. DeletionPlanned'
    BY <2>1, <2>2, <2>3 DEF DeletionPlanned
  <2>6. OwnersThere'
    BY <2>1 DEF OwnersThere, Orphan, Built
  <2>7. SharedOwned'
    BY <2>1, <2>2, <2>3 DEF SharedOwned, Built
  <2> QED
    BY <2>4, <2>5, <2>6, <2>7
<1> QED
  BY <1>1, <1>2, <1>3, <1>4, <1>5, <1>6 DEF Users

LEMMA LeftOperator ==
    ASSUME TypeOK, LeftInv, Step \/ Start \/ FailRound \/ Restart
    PROVE  LeftInv'
<1> USE DEF LeftInv
<1>1. /\ "role" \in Shared /\ "binding" \in Shared
      /\ \A o \in Own \cup Shared : o \notin Kind /\ o # "finalizer"
      /\ "services" \notin Kind
      /\ Own \cap Shared = {}
  BY DEF Shared, Own, Service, Collector, Kind
<1>2. round # Idle => /\ round.of \in Aggregator /\ round.orphans \subseteq Aggregator
                      /\ \A x \in round.rest : x[1] \in Aggregator
  BY DEF TypeOK, Rounds
<1>3. ASSUME EnsureObject
      PROVE  LeftInv'
  <2> DEFINE o == Job.obj
             v == IF Orphan /\ o \in Own THEN None ELSE Content(round.of, round.spec, o)
  <2>1. /\ InRound /\ Job.op = "ensure" /\ o \in Own \cup Shared /\ Put(o, v) /\ Done
        /\ excused' = (excused \/ Orphan) /\ UNCHANGED <<cr, workload>>
    BY <1>3 DEF EnsureObject
  <2> HIDE DEF v
  <2>2. ~round.deletion /\ KindsOf(Tail(round.plan), round.spec)
    BY <2>1, JobOfRound
  <2>3. /\ round' # Idle /\ round'.plan = Tail(round.plan)
        /\ round'.of = round.of /\ round'.spec = round.spec
        /\ round'.deletion = round.deletion /\ round'.rest = round.rest
        /\ round'.orphans = round.orphans
    BY <2>1, DoneChange
  <2>4. Orphan \/ workload[round.of][KindOf(round.spec)] # Absent
    BY <1>1, <2>1, <2>2, JobFacts, KindFacts DEF WorkloadFirst, InRound, Job
  <2>5. WorkloadFirst'
    BY <2>1, <2>2, <2>3, <2>4 DEF WorkloadFirst, Orphan
  <2>6. DeletionPlanned'
    BY <2>2, <2>3 DEF DeletionPlanned
  <2>7. OwnersThere'
    BY <2>1, <2>3 DEF OwnersThere, Orphan, Built, InRound
  <2>8. SharedOwned'
    <3>1. PICK a \in Aggregator : a = round.of
      BY <2>1, JobAtHand
    <3>2. ASSUME ~excused' PROVE cr[a].there /\ Built(a)
      <4>1. ~Orphan
        BY <2>1, <3>2
      <4> QED
        BY <2>1, <2>2, <2>4, <3>1, <4>1, KindFacts DEF OwnersThere, Built, InRound
    <3>3. Built(a)' <=> Built(a)
      BY <2>1 DEF Built
    <3> QED
      BY <2>1, <3>2, <3>3 DEF SharedOwned
  <2> QED
    BY <2>5, <2>6, <2>7, <2>8
<1>4. ASSUME ListServices
      PROVE  LeftInv'
  <2>1. /\ InRound /\ Job = Ensure("services")
        /\ UNCHANGED <<cr, own, shared, workload, excused>>
    BY <1>4 DEF ListServices, objects, history
  <2>2. ~round.deletion /\ KindsOf(Tail(round.plan), round.spec)
    BY <2>1, JobOfRound, JobFacts
  <2>3. /\ round' # Idle
        /\ round'.plan = EnsureServices(round.of, round.spec) \o Tail(round.plan)
        /\ round'.of = round.of /\ round'.spec = round.spec
        /\ round'.deletion = round.deletion /\ round'.rest = round.rest
        /\ round'.orphans = round.orphans
    BY <1>4, ListChange
  <2>4. Orphan \/ workload[round.of][KindOf(round.spec)] # Absent
    BY <1>1, <2>1, <2>2, JobFacts, KindFacts DEF WorkloadFirst, InRound, Job
  <2>5. KindsOf(round'.plan, round.spec)
    <3>1. Tail(round.plan) \in Seq(Jobs)
      BY <2>1, JobAtHand
    <3>2. /\ EnsureServices(round.of, round.spec) \in Seq(Jobs)
          /\ KindsOf(EnsureServices(round.of, round.spec), round.spec)
      BY ServicesFacts
    <3> QED
      BY <2>2, <2>3, <3>1, <3>2, ConcatKinds
  <2>6. WorkloadFirst'
    BY <2>1, <2>2, <2>3, <2>4, <2>5 DEF WorkloadFirst, Orphan
  <2>7. DeletionPlanned'
    BY <2>2, <2>3 DEF DeletionPlanned
  <2>8. OwnersThere'
    BY <2>1, <2>3 DEF OwnersThere, Orphan, Built, InRound
  <2>9. SharedOwned'
    BY <2>1 DEF SharedOwned, Built
  <2> QED
    BY <2>6, <2>7, <2>8, <2>9
<1>5. ASSUME DeleteObject
      PROVE  LeftInv'
  <2> DEFINE o == Job.obj
  <2>1. /\ InRound /\ Job.op = "delete" /\ o \in Own \cup Shared /\ Put(o, None)
        /\ UNCHANGED <<cr, workload>> /\ (excused => excused')
    BY <1>5 DEF DeleteObject
  <2>2. /\ \A q \in Shared : shared[q] = None => shared'[q] = None
        /\ o \in Shared => shared'[o] = None
    <3>1. CASE o \in Shared
      <4>1. shared' = [shared EXCEPT ![o] = None]
        BY <2>1, <3>1, PutFacts
      <4> QED
        BY <3>1, <4>1 DEF TypeOK
    <3>2. CASE o \notin Shared
      BY <2>1, <3>2, PutFacts
    <3> QED
      BY <3>1, <3>2
  <2>3. SharedOwned'
    BY <1>1, <2>1, <2>2 DEF SharedOwned, Built
  <2>4. CASE ~round.deletion
    <3>1. Done /\ UNCHANGED excused
      BY <1>5, <2>4 DEF DeleteObject
    <3>2. /\ round' # Idle /\ round'.plan = Tail(round.plan)
          /\ round'.of = round.of /\ round'.spec = round.spec
          /\ round'.deletion = round.deletion /\ round'.rest = round.rest
          /\ round'.orphans = round.orphans
      BY <2>1, <3>1, DoneChange
    <3>3. KindsOf(Tail(round.plan), round.spec)
      BY <2>1, <2>4, JobOfRound
    <3>4. Orphan \/ workload[round.of][KindOf(round.spec)] # Absent
      BY <1>1, <2>1, <2>4, JobFacts, KindFacts DEF WorkloadFirst, InRound, Job
    <3>5. WorkloadFirst'
      BY <2>1, <2>4, <3>2, <3>3, <3>4 DEF WorkloadFirst, Orphan
    <3>6. DeletionPlanned'
      BY <2>4, <3>2 DEF DeletionPlanned
    <3>7. OwnersThere'
      BY <2>1, <3>2 DEF OwnersThere, Orphan, Built, InRound
    <3> QED
      BY <2>3, <3>5, <3>6, <3>7
  <2>5. CASE round.deletion
    <3>1. /\ round.rest = {} /\ o \in {"role", "binding"}
          /\ o = "role" => Tail(round.plan) = DeleteAll(<<"binding", "finalizer">>)
          /\ o = "binding" => /\ shared["role"] = None
                              /\ Tail(round.plan) = DeleteAll(<<"finalizer">>)
      BY <1>1, <2>1, <2>5, JobOfRound
    <3>2. shared'[o] = None
      BY <1>1, <2>2, <3>1
    <3>3. /\ round' # Idle /\ round'.of = round.of /\ round'.spec = round.spec
          /\ round'.deletion = round.deletion /\ round'.rest = round.rest
          /\ round'.orphans = round.orphans
          /\ \/ /\ round'.plan = DeleteAll(<<"finalizer">>) /\ shared[o] = None
                /\ excused' = (excused \/ shared["binding"] # None)
             \/ round'.plan = Tail(round.plan) /\ excused' = excused
      <4>1. CASE shared[o] = None
        <5>1. /\ round' = [round EXCEPT !.plan = DeleteAll(<<"finalizer">>)]
              /\ excused' = (excused \/ shared["binding"] # None)
          BY <1>5, <2>5, <4>1 DEF DeleteObject
        <5> QED
          BY <2>1, <4>1, <5>1, PlanChange, DeletePlanFacts
      <4>2. CASE shared[o] # None
        <5>1. Done /\ UNCHANGED excused
          BY <1>5, <4>2 DEF DeleteObject
        <5> QED
          BY <2>1, <5>1, DoneChange
      <4> QED
        BY <4>1, <4>2
    <3>4. WorkloadFirst'
      BY <2>5, <3>3 DEF WorkloadFirst
    <3>5. DeletionPlanned'
      <4>1. CASE o = "role"
        <5>1. shared["binding"] = None => shared'["binding"] = None
          BY <1>1, <2>2
        <5> QED
          BY <3>1, <3>2, <3>3, <4>1, <5>1 DEF DeletionPlanned
      <4>2. CASE o = "binding"
        <5>1. shared'["role"] = None
          BY <1>1, <2>2, <3>1, <4>2
        <5> QED
          BY <3>1, <3>2, <3>3, <4>2, <5>1 DEF DeletionPlanned
      <4> QED
        BY <3>1, <4>1, <4>2
    <3>6. OwnersThere'
      BY <2>1, <2>5, <3>3 DEF OwnersThere, Orphan, Built, InRound
    <3> QED
      BY <2>3, <3>4, <3>5, <3>6
  <2> QED
    BY <2>4, <2>5
<1>6. ASSUME WriteWorkload
      PROVE  LeftInv'
  <2>0. PICK a \in Aggregator : a = round.of
    BY <1>6, JobAtHand DEF WriteWorkload
  <2> DEFINE k == KindOf(round.spec)
             o == Job.obj
  <2>1. InRound /\ o \in Kind /\ Done /\ UNCHANGED <<cr, own, shared, excused>>
    BY <1>6 DEF WriteWorkload
  <2>2. /\ ~round.deletion /\ KindsOf(Tail(round.plan), round.spec)
        /\ Job = Ensure(k) \/ Job = Delete(OtherKind(round.spec))
    <3>1. ~round.deletion
      BY <2>1, JobOfRound DEF Kind
    <3> QED
      BY <2>1, <3>1, JobOfRound
  <2>3. /\ round' # Idle /\ round'.plan = Tail(round.plan)
        /\ round'.of = a /\ round'.spec = round.spec
        /\ round'.deletion = round.deletion /\ round'.rest = round.rest
        /\ round'.orphans = round.orphans
    BY <2>0, <2>1, DoneChange
  <2>4. /\ \A b \in Aggregator, q \in Kind : b # a \/ q # o => workload'[b][q] = workload[b][q]
        /\ Job.op = "delete" \/ Orphan => workload'[a][o] = Absent
        /\ Job.op = "ensure" /\ ~Orphan => workload'[a][o] # Absent
    BY <1>6, <2>0, WriteFacts
  <2>5. k \in Kind
    BY KindFacts
  <2>6. ~Orphan => workload'[a][k] # Absent
    <3>1. CASE Job = Ensure(k)
      BY <2>4, <3>1, JobFacts
    <3>2. CASE Job = Delete(OtherKind(round.spec))
      <4>1. o # k /\ Job # Ensure(k)
        BY <3>2, JobFacts, KindFacts
      <4>2. Orphan \/ workload[a][k] # Absent
        BY <2>0, <2>1, <2>2, <4>1 DEF WorkloadFirst, InRound, Job
      <4> QED
        BY <2>4, <2>5, <4>1, <4>2
    <3> QED
      BY <2>2, <3>1, <3>2
  <2>7. /\ \A b \in Aggregator \ {a} : Built(b)' <=> Built(b)
        /\ ~Orphan => Built(a)'
        /\ Orphan => ~Built(a) /\ ~Built(a)' /\ ~cr[a].finalizer
    <3>1. \A b \in Aggregator \ {a} : Built(b)' <=> Built(b)
      BY <2>4 DEF Built
    <3>2. ~Orphan => Built(a)'
      BY <2>5, <2>6 DEF Built
    <3>3. ASSUME Orphan PROVE ~Built(a) /\ ~Built(a)' /\ ~cr[a].finalizer
      <4>1. ~Built(a) /\ ~cr[a].finalizer
        BY <2>0, <2>1, <3>3 DEF OwnersThere, Orphan, InRound
      <4> QED
        BY <2>4, <2>5, <3>3, <4>1 DEF Built
    <3> QED
      BY <3>1, <3>2, <3>3
  <2>8. WorkloadFirst'
    BY <2>0, <2>2, <2>3, <2>6 DEF WorkloadFirst, Orphan
  <2>9. DeletionPlanned'
    BY <2>2, <2>3 DEF DeletionPlanned
  <2>10. OwnersThere'
    BY <1>2, <2>0, <2>1, <2>3, <2>7 DEF OwnersThere, Orphan, InRound
  <2>11. SharedOwned'
    <3>1. SUFFICES ASSUME ~excused, shared["role"] # None \/ shared["binding"] # None
                   PROVE  \E b \in Aggregator : cr[b].there /\ (cr[b].finalizer \/ Built(b)')
      BY <2>1 DEF SharedOwned
    <3>2. PICK b \in Aggregator : cr[b].there /\ (cr[b].finalizer \/ Built(b))
      BY <3>1 DEF SharedOwned
    <3> QED
      BY <2>7, <3>2
  <2> QED
    BY <2>8, <2>9, <2>10, <2>11
<1>7. ASSUME RemoveFinalizer
      PROVE  LeftInv'
  <2>0. PICK a \in Aggregator : a = round.of
    BY <1>7, JobAtHand DEF RemoveFinalizer
  <2>1. /\ InRound /\ Job = Delete("finalizer") /\ Done
        /\ cr' = [cr EXCEPT ![a] = Gone]
        /\ workload' = [workload EXCEPT ![a] = Nothing]
        /\ UNCHANGED <<shared, excused>>
    BY <1>7, <2>0, JobAtHand DEF RemoveFinalizer
  <2>2. /\ round.deletion /\ round.rest = {} /\ Tail(round.plan) = <<>>
        /\ excused \/ (shared["role"] = None /\ shared["binding"] = None)
    BY <2>1, JobOfRound, JobFacts
  <2>3. /\ round' # Idle /\ round'.plan = Tail(round.plan)
        /\ round'.of = a /\ round'.spec = round.spec
        /\ round'.deletion = round.deletion /\ round'.rest = round.rest
        /\ round'.orphans = round.orphans
    BY <2>0, <2>1, DoneChange
  <2>4. /\ ~cr'[a].finalizer /\ ~Built(a)'
        /\ \A b \in Aggregator \ {a} : cr'[b] = cr[b] /\ workload'[b] = workload[b]
    BY <2>1 DEF TypeOK, Gone, Nothing, Built
  <2>5. WorkloadFirst' /\ DeletionPlanned'
    BY <2>2, <2>3 DEF WorkloadFirst, DeletionPlanned
  <2>6. OwnersThere'
    BY <1>2, <2>1, <2>2, <2>3, <2>4 DEF OwnersThere, Built, InRound
  <2>7. SharedOwned'
    BY <2>1, <2>2 DEF SharedOwned
  <2> QED
    BY <2>5, <2>6, <2>7
<1>8. ASSUME UNCHANGED <<cr, own, shared, workload, excused>>,
             \/ round' = Idle
             \/ /\ round' # Idle /\ round'.of \in Aggregator
                /\ round'.orphans = round.orphans
                /\ round.orphans = {} \/ round # Idle
                /\ \A x \in round'.rest : x[1] \in round.orphans \/ cr[x[1]].there
                /\ \/ /\ ~round'.deletion
                      /\ round'.of \in round.orphans \/ cr[round'.of].there
                      /\ round'.plan = EnsurePlan(round'.of, round'.spec)
                   \/ round'.deletion /\ round'.rest = {} /\ round'.plan = DeletePlan
      PROVE  LeftInv'
  <2>1. WorkloadFirst' /\ DeletionPlanned'
    BY <1>8, PlanFacts DEF WorkloadFirst, DeletionPlanned
  <2>2. OwnersThere'
    BY <1>8 DEF OwnersThere, Orphan, Built
  <2>3. SharedOwned'
    BY <1>8 DEF SharedOwned, Built
  <2> QED
    BY <2>1, <2>2, <2>3
<1>9. ASSUME FinishRound
      PROVE  LeftInv'
  <2>1. /\ round # Idle /\ Continue(round.request, round.rest)
        /\ UNCHANGED <<cr, own, shared, workload, excused>>
    BY <1>9 DEF FinishRound, objects, history
  <2>2. /\ round.request \in Aggregator \cup {ByName}
        /\ round.rest \in SUBSET (Aggregator \X Specs)
    BY <2>1 DEF TypeOK, Rounds
  <2>3. \/ round' = Idle
        \/ \E x \in round.rest :
              /\ x[1] \in Aggregator /\ x[2] \in Specs
              /\ round' \in Rounds /\ round' # Idle
              /\ round'.of = x[1] /\ round'.spec = x[2] /\ round'.deletion = FALSE
              /\ round'.rest = round.rest \ {x} /\ round'.orphans = round.orphans
              /\ round'.plan = EnsurePlan(x[1], x[2])
    BY <2>1, <2>2, ContinueFacts
  <2> QED
    BY <1>8, <2>1, <2>3 DEF OwnersThere
<1>10. ASSUME NEW a \in Aggregator, AddFinalizer(a)
       PROVE  LeftInv'
  <2>1. /\ round' = Idle /\ UNCHANGED <<own, shared, workload, excused>>
        /\ cr[a] \in CR /\ cr' = [cr EXCEPT ![a].finalizer = TRUE]
    BY <1>10, CrFacts DEF AddFinalizer, Take, objects
  <2>2. \A b \in Aggregator : cr'[b].there = cr[b].there /\ (cr[b].finalizer => cr'[b].finalizer)
    BY <2>1 DEF TypeOK, CR
  <2>3. SharedOwned'
    BY <2>1, <2>2 DEF SharedOwned, Built
  <2> QED
    BY <2>1, <2>3 DEF WorkloadFirst, DeletionPlanned, OwnersThere
<1>11. ASSUME NEW a \in Aggregator, StartRound(a)
       PROVE  LeftInv'
  <2>1. UNCHANGED <<cr, own, shared, workload, excused>>
    BY <1>11 DEF StartRound, objects
  <2>2. cr[a].there => cr[a].deleting \in BOOLEAN
    BY CrFacts
  <2> QED
    BY <1>8, <1>11, <2>1, <2>2, StartFacts
<1>12. ASSUME StartNamedRound
       PROVE  LeftInv'
  <2>1. UNCHANGED <<cr, own, shared, workload, excused>>
    BY <1>12 DEF StartNamedRound, objects, history
  <2> QED
    BY <1>8, <1>12, <2>1, NamedFacts
<1>13. ASSUME FailRound \/ Restart
       PROVE  LeftInv'
  BY <1>8, <1>13 DEF FailRound, Abandon, Restart, objects
<1> QED
  BY <1>3, <1>4, <1>5, <1>6, <1>7, <1>9, <1>10, <1>11, <1>12, <1>13 DEF Step, Start

(* What a name leaves behind, as an inductive invariant.                   *)
LEMMA LeftInvariant == Spec => [](TypeOK /\ LeftInv)
<1>1. Init => LeftInv
  BY DEF Init, LeftInv, WorkloadFirst, DeletionPlanned, OwnersThere, SharedOwned, Shared
<1>2. TypeOK /\ LeftInv /\ [Next]_vars => LeftInv'
  <2> SUFFICES ASSUME TypeOK, LeftInv, [Next]_vars PROVE LeftInv'
    OBVIOUS
  <2>1. ASSUME UNCHANGED vars PROVE LeftInv'
    BY <2>1 DEF vars, objects, history, LeftInv, WorkloadFirst, DeletionPlanned, OwnersThere,
                SharedOwned, Orphan, Built
  <2> QED
    BY <2>1, LeftUsers, LeftOperator DEF Next, Rest
<1> QED
  BY <1>1, <1>2, TypeCorrect, PTL DEF Spec

(* The last aggregator of a name takes its ClusterRole and                 *)
(* ClusterRoleBinding with it, for any number of namesakes and any faults, *)
(* unless it was built before its finalizer was added or a role was        *)
(* missing when the deletion came: of the cluster-wide objects only the    *)
(* collector's stay (Reconcile and DeleteVectorAggregator).                *)
THEOREM LastOneCleansUp == Spec => []OnlyCollectorRBACStays
<1>1. LeftInv => OnlyCollectorRBACStays
  BY DEF LeftInv, SharedOwned, OnlyCollectorRBACStays, Shared
<1> QED
  BY <1>1, LeftInvariant, PTL

-----------------------------------------------------------------------------
(* The inductive invariant of the collector's order.                       *)

(* What the collector uses and need not be brought first: it is there, or  *)
(* the collector will not stay either.                                     *)
Ready == {x \in Base : Orphan \/ own[round.of][x] # None}

(* What need not be removed first.                                         *)
Away == {x \in {"collector"} : own[round.of][x] = None}

CollectorPlanned == round # Idle => Ordered(round.plan, Ready, Away)

(* An aggregator that went without a finalizer has no collector while the  *)
(* round that saw it goes on, whatever the round still creates for it.     *)
OrphansBare == round # Idle => \A a \in round.orphans : own[a]["collector"] = None

CollectorInv == CollectorReady /\ CollectorPlanned /\ OrphansBare

(* The next job is done; what it brings or removes is noted.               *)
LEMMA TailOrdered ==
    ASSUME NEW p \in Seq(Jobs), p # <<>>, NEW ready, NEW away, Ordered(p, ready, away),
           NEW ready2, NEW away2,
           \A x \in Base : x \in ready => x \in ready2 \/ p[1] = Delete(x),
           \A x \in Base : p[1] = Ensure(x) => x \in ready2,
           "collector" \in away => "collector" \in away2 \/ p[1] = Ensure("collector"),
           p[1] = Delete("collector") => "collector" \in away2
    PROVE  Ordered(Tail(p), ready2, away2)
<1> DEFINE q == Tail(p)
<1>1. /\ \A i \in DOMAIN q : /\ i \in Nat /\ i > 0 /\ i + 1 \in DOMAIN p /\ q[i] = p[i + 1]
      /\ 1 \in DOMAIN p
      /\ \A i \in DOMAIN q : \A j \in 2..i : j - 1 \in 1..(i - 1) /\ q[j - 1] = p[j]
  OBVIOUS
<1> HIDE DEF q
<1>2. ASSUME NEW i \in DOMAIN q, NEW job, Before(p, i + 1, job), p[1] # job
      PROVE  Before(q, i, job)
  <2>1. PICK j \in 1..((i + 1) - 1) : p[j] = job
    BY <1>2 DEF Before
  <2>2. j \in 2..i
    BY <1>1, <1>2, <2>1
  <2> QED
    BY <1>1, <2>1, <2>2 DEF Before
<1>3. SUFFICES ASSUME NEW x \in Base, NEW i \in DOMAIN q
               PROVE  /\ q[i] = Ensure("collector") => x \in ready2 \/ Before(q, i, Ensure(x))
                      /\ q[i] = Delete(x) =>
                            /\ "collector" \in away2 \/ Before(q, i, Delete("collector"))
                            /\ \A j \in DOMAIN q : q[j] # Ensure("collector")
  BY DEF Ordered, q
<1>4. ASSUME q[i] = Ensure("collector") PROVE x \in ready2 \/ Before(q, i, Ensure(x))
  <2>1. i + 1 \in DOMAIN p /\ p[i + 1] = Ensure("collector")
    BY <1>1, <1>4
  <2>2. p[1] # Delete(x)
    BY <1>1, <2>1 DEF Ordered
  <2>3. x \in ready \/ Before(p, i + 1, Ensure(x))
    BY <2>1 DEF Ordered
  <2> QED
    BY <1>2, <2>2, <2>3
<1>5. ASSUME q[i] = Delete(x)
      PROVE  /\ "collector" \in away2 \/ Before(q, i, Delete("collector"))
             /\ \A j \in DOMAIN q : q[j] # Ensure("collector")
  <2>1. i + 1 \in DOMAIN p /\ p[i + 1] = Delete(x)
    BY <1>1, <1>5
  <2>2. /\ "collector" \in away \/ Before(p, i + 1, Delete("collector"))
        /\ \A j \in DOMAIN p : p[j] # Ensure("collector")
    BY <2>1 DEF Ordered
  <2> QED
    BY <1>1, <1>2, <2>2
<1> QED
  BY <1>4, <1>5

(* With more ready and more away, a plan is as good.                       *)
LEMMA OrderedMore ==
    ASSUME NEW p, NEW ready, NEW away, Ordered(p, ready, away), NEW ready2, NEW away2,
           ready \subseteq ready2, away \subseteq away2
    PROVE  Ordered(p, ready2, away2)
BY DEF Ordered

(* The steps of a deletion do not concern the collector.                   *)
LEMMA DeletionOrdered ==
    ASSUME NEW ready, NEW away
    PROVE  /\ Ordered(DeletePlan, ready, away)
           /\ Ordered(DeleteAll(<<"finalizer">>), ready, away)
           /\ Ordered(<<>>, ready, away)
<1>1. ASSUME NEW p \in Seq(Jobs), NoCollector(p) PROVE Ordered(p, ready, away)
  <2>1. \A x \in Base \cup {"collector"} : x \in Collector
    BY DEF Base, Collector
  <2> QED
    BY <1>1, <2>1, JobFacts DEF Ordered, NoCollector
<1>2. NoCollector(<<>>) /\ <<>> \in Seq(Jobs)
  BY DEF NoCollector
<1>3. NoCollector(DeletePlan) /\ NoCollector(DeleteAll(<<"finalizer">>))
  <2>1. /\ DeletePlan = <<Delete("role"), Delete("binding"), Delete("finalizer")>>
        /\ DeleteAll(<<"finalizer">>) = <<Delete("finalizer")>>
    BY DEF DeletePlan, DeleteAll
  <2>2. \A o \in {"role", "binding", "finalizer"} : Delete(o).obj \notin Collector
    BY DEF Delete, Collector
  <2> QED
    BY <2>1, <2>2 DEF NoCollector
<1> QED
  BY <1>1, <1>2, <1>3, DeletePlanFacts

LEMMA CollectorUsers ==
    ASSUME TypeOK, CollectorInv, Fragile \cap Base = {}, Users
    PROVE  CollectorInv'
<1> USE DEF CollectorInv
<1>1. /\ Base \subseteq Own /\ "collector" \in Own /\ "collector" \notin Base
      /\ Base = {"collector-config", "collector-account"}
  BY DEF Base, Own, Collector
<1>2. round # Idle => round \in Rounds /\ round.of \in Aggregator /\ round.orphans \subseteq Aggregator
  BY DEF TypeOK, Rounds
<1>3. ASSUME UNCHANGED <<round, own>> PROVE CollectorInv'
  BY <1>3 DEF CollectorReady, CollectorPlanned, OrphansBare, Ready, Away, Orphan
<1>4. ASSUME NEW a \in Aggregator, NEW s \in Specs, Create(a, s) \/ Edit(a, s)
      PROVE  CollectorInv'
  BY <1>3, <1>4 DEF Create, Edit, objects
<1>5. ASSUME NEW a \in Aggregator, Withdraw(a), ~cr[a].finalizer
      PROVE  CollectorInv'
  <2>1. /\ own' = [own EXCEPT ![a] = [o \in Own |-> None]]
        /\ round' = [round EXCEPT !.orphans = IF round = Idle THEN {} ELSE @ \cup {a}]
    BY <1>5 DEF Withdraw
  <2>2. /\ \A o \in Own : own'[a][o] = None
        /\ \A b \in Aggregator \ {a} : own'[b] = own[b]
    BY <2>1 DEF TypeOK
  <2>3. /\ round = Idle => round' = Idle
        /\ round # Idle => /\ round' # Idle /\ round'.plan = round.plan /\ round'.of = round.of
                           /\ round'.orphans = round.orphans \cup {a}
    BY <2>1, OrphanChange
  <2>4. CollectorReady'
    BY <1>1, <2>2 DEF CollectorReady
  <2>5. OrphansBare'
    BY <1>1, <1>2, <2>2, <2>3 DEF OrphansBare
  <2>6. CollectorPlanned'
    <3>1. SUFFICES ASSUME round # Idle PROVE Ordered(round.plan, Ready', Away')
      BY <2>3 DEF CollectorPlanned
    <3>2. Ready \subseteq Ready' /\ Away \subseteq Away'
      BY <1>1, <1>2, <2>2, <2>3, <3>1 DEF Ready, Away, Orphan
    <3> QED
      BY <3>1, <3>2, OrderedMore DEF CollectorPlanned
  <2> QED
    BY <2>4, <2>5, <2>6
<1>6. ASSUME NEW a \in Aggregator, Withdraw(a) \/ Scale(a)
      PROVE  CollectorInv'
  BY <1>3, <1>5, <1>6 DEF Withdraw, Scale, objects
<1>7. ASSUME NEW a \in Aggregator, NEW o \in Own \cup Shared, Tamper(a, o)
      PROVE  CollectorInv'
  <2>1. UNCHANGED round /\ o \notin Base
    BY <1>7 DEF Tamper
  <2>2. \A b \in Aggregator : /\ \A x \in Base : own'[b][x] = own[b][x]
                              /\ own[b]["collector"] = None => own'[b]["collector"] = None
    <3>1. CASE o \in Own
      <4>1. own' = [own EXCEPT ![a][o] = None]
        BY <1>7, <3>1 DEF Tamper
      <4>2. own'[a][o] = None /\ \A b \in Aggregator, q \in Own : b # a \/ q # o => own'[b][q] = own[b][q]
        BY <3>1, <4>1 DEF TypeOK
      <4> QED
        BY <1>1, <2>1, <4>2
    <3>2. CASE o \notin Own
      BY <1>7, <3>2 DEF Tamper
    <3> QED
      BY <3>1, <3>2
  <2>3. CollectorReady'
    BY <1>1, <2>2 DEF CollectorReady
  <2>4. OrphansBare'
    BY <1>2, <2>1, <2>2 DEF OrphansBare
  <2>5. CollectorPlanned'
    <3>1. SUFFICES ASSUME round # Idle PROVE Ordered(round.plan, Ready', Away')
      BY <2>1 DEF CollectorPlanned
    <3>2. Ready \subseteq Ready' /\ Away \subseteq Away'
      BY <1>2, <2>1, <2>2, <3>1 DEF Ready, Away, Orphan
    <3> QED
      BY <3>1, <3>2, OrderedMore DEF CollectorPlanned
  <2> QED
    BY <2>3, <2>4, <2>5
<1> QED
  BY <1>4, <1>6, <1>7 DEF Users

LEMMA CollectorOperator ==
    ASSUME TypeOK, LeftInv, CollectorInv, Step \/ Start \/ FailRound \/ Restart
    PROVE  CollectorInv'
<1> USE DEF CollectorInv
<1>1. /\ Base \subseteq Own /\ "collector" \in Own /\ "collector" \notin Base
      /\ Base = {"collector-config", "collector-account"}
      /\ Own \cap Shared = {}
  BY DEF Base, Own, Collector, Shared, Service
<1>2. round # Idle => round \in Rounds /\ round.of \in Aggregator /\ round.orphans \subseteq Aggregator
  BY DEF TypeOK, Rounds
(* A job that is done, with what it writes into the objects of the round.  *)
<1>3. ASSUME InRound, Done,
             \A b \in Aggregator, q \in Own : b # round.of => own'[b][q] = own[b][q],
             \A x \in Base \cup {"collector"} :
                /\ Job = Ensure(x) \/ Job = Delete(x) \/ own'[round.of][x] = own[round.of][x]
                /\ Job = Ensure(x) => (own'[round.of][x] = None <=> Orphan)
                /\ Job = Delete(x) => own'[round.of][x] = None
      PROVE  CollectorInv'
  <2>1. PICK a \in Aggregator : a = round.of
    BY <1>3, JobAtHand
  <2>2. /\ round # Idle /\ round' # Idle /\ round'.plan = Tail(round.plan) /\ round'.of = a
        /\ round'.orphans = round.orphans
    BY <1>3, <2>1, DoneChange DEF InRound
  <2>3. /\ round.plan \in Seq(Jobs) /\ round.plan # <<>> /\ 1 \in DOMAIN round.plan
        /\ Job = round.plan[1]
    BY <1>3, JobAtHand DEF InRound
  <2>4. Ordered(round.plan, Ready, Away)
    BY <2>2 DEF CollectorPlanned
  <2>5. \A x \in Base :
          /\ Job = Ensure("collector") => x \in Ready
          /\ Job = Delete(x) => "collector" \in Away
    <3>1. \A job : ~Before(round.plan, 1, job)
      BY DEF Before
    <3> QED
      BY <2>3, <2>4, <3>1 DEF Ordered
  <2>6. \A x \in Base \cup {"collector"} :
          /\ own'[a][x] = own[a][x] \/ Job = Ensure(x) \/ Job = Delete(x)
          /\ Job = Ensure(x) => (own'[a][x] = None <=> Orphan)
          /\ Job = Delete(x) => own'[a][x] = None
    BY <1>3, <2>1
  <2>7. \A b \in Aggregator \ {a}, q \in Own : own'[b][q] = own[b][q]
    BY <1>3, <2>1
  <2>8. Orphan => own[a]["collector"] = None
    BY <2>1, <2>2 DEF OrphansBare, Orphan
  <2>9. CollectorReady'
    <3>1. ASSUME own'[a]["collector"] # None, NEW x \in Base PROVE own'[a][x] # None
      <4>1. CASE Job = Ensure("collector")
        <5>1. ~Orphan
          BY <2>6, <3>1, <4>1
        <5>2. own[a][x] # None
          BY <2>1, <2>5, <4>1, <5>1 DEF Ready
        <5>3. Job # Ensure(x) /\ Job # Delete(x)
          BY <1>1, <4>1, JobFacts
        <5> QED
          BY <2>6, <5>2, <5>3
      <4>2. CASE Job # Ensure("collector")
        <5>1. own[a]["collector"] # None
          BY <2>6, <3>1, <4>2
        <5>2. own[a][x] # None /\ ~Orphan
          BY <1>1, <2>8, <5>1 DEF CollectorReady
        <5>3. Job # Delete(x)
          BY <2>1, <2>5, <5>1 DEF Away
        <5> QED
          BY <2>6, <5>2, <5>3
      <4> QED
        BY <4>1, <4>2
    <3> QED
      BY <1>1, <2>7, <3>1 DEF CollectorReady
  <2>10. OrphansBare'
    <3>1. ASSUME NEW b \in round.orphans PROVE own'[b]["collector"] = None
      <4>1. b \in Aggregator /\ own[b]["collector"] = None
        BY <1>2, <2>2 DEF OrphansBare
      <4>2. CASE b = a
        BY <2>1, <2>6, <4>1, <4>2 DEF Orphan
      <4>3. CASE b # a
        BY <1>1, <2>7, <4>1, <4>3
      <4> QED
        BY <4>2, <4>3
    <3> QED
      BY <2>2, <3>1 DEF OrphansBare
  <2>11. CollectorPlanned'
    <3>1. /\ Ready' = {x \in Base : Orphan \/ own'[a][x] # None}
          /\ Away' = {x \in {"collector"} : own'[a][x] = None}
      BY <2>1, <2>2 DEF Ready, Away, Orphan
    <3>2. \A x \in Base : x \in Ready => x \in Ready' \/ round.plan[1] = Delete(x)
      BY <2>1, <2>3, <2>6, <3>1 DEF Ready
    <3>3. \A x \in Base : round.plan[1] = Ensure(x) => x \in Ready'
      BY <2>3, <2>6, <3>1
    <3>4. "collector" \in Away => "collector" \in Away' \/ round.plan[1] = Ensure("collector")
      BY <2>1, <2>3, <2>6, <3>1 DEF Away
    <3>5. round.plan[1] = Delete("collector") => "collector" \in Away'
      BY <2>3, <2>6, <3>1
    <3>6. Ordered(Tail(round.plan), Ready', Away')
      BY <2>3, <2>4, <3>2, <3>3, <3>4, <3>5, TailOrdered
    <3> QED
      BY <2>2, <3>6 DEF CollectorPlanned
  <2> QED
    BY <2>9, <2>10, <2>11
<1>4. ASSUME EnsureObject
      PROVE  CollectorInv'
  <2> DEFINE o == Job.obj
             v == IF Orphan /\ o \in Own THEN None ELSE Content(round.of, round.spec, o)
  <2>1. InRound /\ Job.op = "ensure" /\ o \in Own \cup Shared /\ Put(o, v) /\ Done
    BY <1>4 DEF EnsureObject
  <2>2. /\ o \in Own => v \in {None, "set", "Deployment", "StatefulSet"} /\ (v = None <=> Orphan)
    BY <2>1, JobAtHand, ContentType DEF None
  <2>3. Job = Ensure(o) /\ round.of \in Aggregator
    BY <2>1, JobAtHand, JobFacts
  <2> HIDE DEF v
  <2>4. /\ \A b \in Aggregator, q \in Own : b # round.of \/ q # o => own'[b][q] = own[b][q]
        /\ o \in Own => own'[round.of][o] = v
    BY <2>1, <2>3, PutOwn
  <2>5. \A x : Job = Ensure(x) \/ Job = Delete(x) => o = x
    BY <2>3, JobFacts
  <2> HIDE DEF o
  <2>6. \A x \in Base \cup {"collector"} :
          /\ Job = Ensure(x) \/ Job = Delete(x) \/ own'[round.of][x] = own[round.of][x]
          /\ Job = Ensure(x) => (own'[round.of][x] = None <=> Orphan)
          /\ Job # Delete(x)
    BY <1>1, <2>2, <2>3, <2>4, <2>5, JobFacts
  <2> QED
    BY <1>3, <2>1, <2>4, <2>6
<1>5. ASSUME DeleteObject
      PROVE  CollectorInv'
  <2> DEFINE o == Job.obj
  <2>1. InRound /\ Job.op = "delete" /\ o \in Own \cup Shared /\ Put(o, None)
    BY <1>5 DEF DeleteObject
  <2>2. Job = Delete(o) /\ round.of \in Aggregator
    BY <2>1, JobAtHand, JobFacts
  <2>3. /\ \A b \in Aggregator, q \in Own : b # round.of \/ q # o => own'[b][q] = own[b][q]
        /\ o \in Own => own'[round.of][o] = None
    BY <2>1, <2>2, PutOwn
  <2>4. \A x : Job = Ensure(x) \/ Job = Delete(x) => o = x
    BY <2>2, JobFacts
  <2>5. CASE Done
    <3> HIDE DEF o
    <3>1. \A x \in Base \cup {"collector"} :
            /\ Job = Ensure(x) \/ Job = Delete(x) \/ own'[round.of][x] = own[round.of][x]
            /\ Job # Ensure(x)
            /\ Job = Delete(x) => own'[round.of][x] = None
      BY <1>1, <2>2, <2>3, <2>4, JobFacts
    <3> QED
      BY <1>3, <2>1, <2>3, <2>5, <3>1
  <2>6. CASE ~Done
    <3>1. round.deletion /\ round' = [round EXCEPT !.plan = DeleteAll(<<"finalizer">>)]
      BY <1>5, <2>6 DEF DeleteObject
    <3>2. /\ round' # Idle /\ round'.plan = DeleteAll(<<"finalizer">>)
          /\ round'.orphans = round.orphans
      BY <2>1, <3>1, PlanChange, DeletePlanFacts
    <3>3. o \notin Own
      <4>1. o \in {"role", "binding", "finalizer"}
        BY <2>1, <3>1, JobOfRound
      <4> QED
        BY <4>1 DEF Own, Service, Collector
    <3>4. own' = own
      BY <2>1, <3>3, PutFacts
    <3> QED
      BY <2>1, <3>2, <3>4, DeletionOrdered DEF CollectorReady, OrphansBare, CollectorPlanned, InRound
  <2> QED
    BY <2>5, <2>6
<1>6. ASSUME WriteWorkload
      PROVE  CollectorInv'
  <2>1. InRound /\ Done /\ own' = own /\ Job.obj \in Kind
    BY <1>6 DEF WriteWorkload
  <2>2. \A x \in Base \cup {"collector"} : Job # Ensure(x) /\ Job # Delete(x)
    <3>1. \A x \in Base \cup {"collector"} : x \notin Kind
      BY DEF Base, Kind
    <3> QED
      BY <2>1, <3>1, JobFacts
  <2> QED
    BY <1>3, <2>1, <2>2
<1>7. ASSUME ListServices
      PROVE  CollectorInv'
  <2> DEFINE p == EnsureServices(round.of, round.spec)
             q == Tail(round.plan)
  <2>1. InRound /\ Job = Ensure("services") /\ own' = own /\ round # Idle
    BY <1>7 DEF ListServices, objects, InRound
  <2>2. /\ round' # Idle /\ round'.plan = p \o q /\ round'.of = round.of
        /\ round'.orphans = round.orphans
    BY <1>7, ListChange
  <2>3. CollectorReady' /\ OrphansBare'
    BY <2>1, <2>2 DEF CollectorReady, OrphansBare
  <2>4. Ready' = Ready /\ Away' = Away
    BY <2>1, <2>2 DEF Ready, Away, Orphan
  <2>5. Ordered(q, Ready, Away)
    <3>1. /\ round.plan \in Seq(Jobs) /\ round.plan # <<>> /\ Job = round.plan[1]
      BY <2>1, JobAtHand DEF InRound
    <3>2. \A x \in Base \cup {"collector"} : x # "services"
      BY DEF Base
    <3>3. \A x \in Base \cup {"collector"} : round.plan[1] # Ensure(x) /\ round.plan[1] # Delete(x)
      BY <2>1, <3>1, <3>2, JobFacts
    <3>4. Ordered(round.plan, Ready, Away)
      BY <2>1 DEF CollectorPlanned
    <3> QED
      BY <3>1, <3>3, <3>4, TailOrdered
  <2>6. p \in Seq(Jobs) /\ NoCollector(p) /\ q \in Seq(Jobs)
    BY <2>1, ServicesFacts, JobAtHand
  <2> HIDE DEF p, q
  <2>7. Ordered(p \o q, Ready, Away)
    BY <2>5, <2>6, ConcatOrdered
  <2>8. CollectorPlanned'
    BY <2>2, <2>4, <2>7 DEF CollectorPlanned
  <2> QED
    BY <2>3, <2>8
<1>8. ASSUME RemoveFinalizer
      PROVE  CollectorInv'
  <2>1. PICK a \in Aggregator : a = round.of
    BY <1>8, JobAtHand DEF RemoveFinalizer
  <2>2. /\ InRound /\ Done /\ Job = Delete("finalizer")
        /\ own' = [own EXCEPT ![a] = [o \in Own |-> None]]
    BY <1>8, <2>1 DEF RemoveFinalizer
  <2>3. /\ \A o \in Own : own'[a][o] = None
        /\ \A b \in Aggregator \ {a} : own'[b] = own[b]
    BY <2>2 DEF TypeOK
  <2>4. /\ round' # Idle /\ round'.plan = <<>> /\ round'.orphans = round.orphans
    BY <2>2, DoneChange, JobOfRound, JobFacts
  <2>5. CollectorReady'
    BY <1>1, <2>3 DEF CollectorReady
  <2>6. OrphansBare'
    BY <1>1, <1>2, <2>2, <2>3, <2>4 DEF OrphansBare, InRound
  <2>7. CollectorPlanned'
    BY <2>4, DeletionOrdered DEF CollectorPlanned
  <2> QED
    BY <2>5, <2>6, <2>7
<1>9. ASSUME own' = own,
             \/ round' = Idle
             \/ /\ round' # Idle /\ round'.orphans = round.orphans
                /\ round.orphans = {} \/ round # Idle
                /\ \/ round'.plan = DeletePlan
                   \/ \E a, s : round'.plan = EnsurePlan(a, s)
      PROVE  CollectorInv'
  <2>1. CollectorReady' /\ OrphansBare'
    BY <1>9 DEF CollectorReady, OrphansBare
  <2>2. ASSUME NEW a, NEW s PROVE Ordered(EnsurePlan(a, s), Ready', Away')
    <3>1. Ordered(EnsurePlan(a, s), {}, {})
      BY PlanFacts
    <3> QED
      BY <3>1, OrderedMore
  <2>3. CollectorPlanned'
    BY <1>9, <2>2, DeletionOrdered DEF CollectorPlanned
  <2> QED
    BY <2>1, <2>3
<1>10. ASSUME FinishRound
       PROVE  CollectorInv'
  <2>1. round # Idle /\ Continue(round.request, round.rest) /\ own' = own
    BY <1>10 DEF FinishRound, objects
  <2>2. /\ round.request \in Aggregator \cup {ByName}
        /\ round.rest \in SUBSET (Aggregator \X Specs)
    BY <2>1 DEF TypeOK, Rounds
  <2>3. \/ round' = Idle
        \/ \E x \in round.rest : /\ round' # Idle /\ round'.orphans = round.orphans
                                 /\ round'.plan = EnsurePlan(x[1], x[2])
    BY <2>1, <2>2, ContinueFacts
  <2> QED
    BY <1>9, <2>1, <2>3
<1>11. ASSUME NEW a \in Aggregator, AddFinalizer(a) \/ StartRound(a)
       PROVE  CollectorInv'
  <2>1. own' = own /\ (AddFinalizer(a) => round' = Idle)
    BY <1>11 DEF AddFinalizer, StartRound, Take, objects
  <2> QED
    BY <1>9, <1>11, <2>1, StartFacts
<1>12. ASSUME StartNamedRound
       PROVE  CollectorInv'
  <2>1. own' = own
    BY <1>12 DEF StartNamedRound, objects
  <2>2. round = Idle /\ round.orphans = {}
    BY <1>12, NamedFacts
  <2>3. \/ round' = Idle
        \/ \E a, s : /\ round' # Idle /\ round'.orphans = {}
                     /\ round'.plan = EnsurePlan(a, s)
    BY <1>12, NamedFacts
  <2> QED
    BY <1>9, <2>1, <2>2, <2>3
<1>13. ASSUME FailRound \/ Restart
       PROVE  CollectorInv'
  BY <1>9, <1>13 DEF FailRound, Abandon, Restart, objects
<1> QED
  BY <1>4, <1>5, <1>6, <1>7, <1>8, <1>10, <1>11, <1>12, <1>13 DEF Step, Start

(* As long as nobody but the operator removes the configuration or the     *)
(* account of the event collector, its Deployment is there only together   *)
(* with both, after every step of every round, whichever is the last       *)
(* before an error or a restart (ensureEventCollector and                  *)
(* cleanupEventCollector).                                                 *)
THEOREM CollectorNeverAlone ==
    ASSUME Fragile \cap Base = {}
    PROVE  Spec => []CollectorReady
<1>1. Init => CollectorInv
  <2> SUFFICES ASSUME Init PROVE CollectorInv
    OBVIOUS
  <2>1. "collector" \in Own
    BY DEF Own, Collector
  <2> QED
    BY <2>1 DEF Init, CollectorInv, CollectorReady, CollectorPlanned, OrphansBare
<1>2. TypeOK /\ LeftInv /\ CollectorInv /\ [Next]_vars => CollectorInv'
  <2> SUFFICES ASSUME TypeOK, LeftInv, CollectorInv, [Next]_vars PROVE CollectorInv'
    OBVIOUS
  <2>1. ASSUME UNCHANGED vars PROVE CollectorInv'
    BY <2>1 DEF vars, objects, CollectorInv, CollectorReady, CollectorPlanned, OrphansBare,
                Ready, Away, Orphan
  <2> QED
    BY <2>1, CollectorUsers, CollectorOperator DEF Next, Rest
<1>3. CollectorInv => CollectorReady
  BY DEF CollectorInv
<1> QED
  BY <1>1, <1>2, <1>3, LeftInvariant, PTL DEF Spec

-----------------------------------------------------------------------------

(* No reconcile that runs with autoscaling on changes the replicas of a    *)
(* workload that stays, for any spec and any bounds of the autoscaler      *)
(* (aggregatorReplicas and the two createOrUpdate functions).              *)
THEOREM ReplicasAreTheAutoscalers == Spec => RespectsAutoscaler
<1> DEFINE A == \A a \in Aggregator, k \in Kind :
                  (/\ round # Idle /\ round.of = a /\ round.spec.autoscaling /\ UNCHANGED edits
                   /\ workload[a][k] # Absent /\ workload'[a][k] # Absent)
                     => workload'[a][k].replicas = workload[a][k].replicas
<1>1. ASSUME TypeOK, [Next]_vars PROVE [A]_vars
  <2>1. CASE UNCHANGED vars
    BY <2>1
  <2>2. CASE Users
    <3>1. UserStep
      BY <2>2 DEF Users, Create, Edit, Withdraw, Scale, Tamper
    <3>2. edits' # edits
      BY <1>1, <3>1 DEF UserStep, TypeOK
    <3> QED
      BY <3>2
  <2>3. CASE WriteWorkload
    BY <1>1, <2>3, WriteFacts
  <2>4. CASE RemoveFinalizer
    <3>1. PICK a \in Aggregator : a = round.of
      BY <1>1, <2>4, JobAtHand DEF RemoveFinalizer
    <3>2. workload' = [workload EXCEPT ![a] = Nothing]
      BY <2>4, <3>1 DEF RemoveFinalizer
    <3>3. \A k \in Kind : workload'[a][k] = Absent
      BY <1>1, <3>2 DEF TypeOK, Nothing
    <3> QED
      BY <3>1, <3>3
  <2>5. CASE UNCHANGED workload
    BY <2>5
  <2>6. \/ UNCHANGED vars \/ Users \/ WriteWorkload \/ RemoveFinalizer \/ UNCHANGED workload
    BY <1>1 DEF Next, Step, Start, Rest, EnsureObject, ListServices, DeleteObject, FinishRound,
                AddFinalizer, StartRound, StartNamedRound, FailRound, Abandon, Restart, objects
  <2> QED
    BY <2>1, <2>2, <2>3, <2>4, <2>5, <2>6
<1> QED
  BY <1>1, TypeCorrect, PTL DEF Spec, RespectsAutoscaler
-----------------------------------------------------------------------------
(* The operator does not rest too early.                                   *)

(* Nothing is being reconciled, and nothing is going to be unless          *)
(* something happens.                                                      *)
AtRest == round = Idle /\ queue = {}

(* An operator at rest has given every live aggregator what it asks for,   *)
(* but for one that only has its finalizer (EnsureVectorAggregator).       *)
NeverStuck ==
    AtRest => \A a \in Aggregator : Live(a) /\ a \notin waiting => AsWanted(a)

(* An object is as the spec s of aggregator a asks for.                    *)
OwnRight(a, s, o) ==
    IF o \in WantedOwn(s) THEN own[a][o] = Content(a, s, o)
    ELSE o = "podmonitor" \/ own[a][o] = None

SharedRight(a, s, o) == o \in WantedShared(s) => shared[o] = Content(a, s, o)

KindRight(a, s, k) ==
    IF k = KindOf(s)
    THEN workload[a][k] # Absent /\ (ReplicasOf(s) # 0 => workload[a][k].replicas = s.replicas)
    ELSE workload[a][k] = Absent

(* The plan p has the job.                                                 *)
In(p, job) == \E i \in DOMAIN p : p[i] = job

(* What a round for the spec s does about an object.                       *)
JobFor(s, o) ==
    IF o \in WantedOwn(s) \cup WantedShared(s) \cup {KindOf(s)} THEN Ensure(o) ELSE Delete(o)

(* What is not right yet is in the plan; and the disruption budget, which  *)
(* nobody watches, has no other job than the right one.                    *)
PlanCovers(a, s, p) ==
    /\ \A o \in Own : \/ OwnRight(a, s, o) \/ In(p, JobFor(s, o))
                      \/ o \in Service /\ In(p, Ensure("services"))
    /\ \A o \in Shared : SharedRight(a, s, o) \/ In(p, JobFor(s, o))
    /\ \A k \in Kind : KindRight(a, s, k) \/ In(p, JobFor(s, k))
    /\ \A i \in DOMAIN p : p[i].obj = "pdb" => p[i] = JobFor(s, "pdb")

(* A live aggregator without a request of its own: the round that is, or   *)
(* is going to be, for it works on its spec, and it has been there since   *)
(* the round began.                                                        *)
OfCurrent ==
    round # Idle /\ Live(round.of) /\ round.of \notin queue =>
        round.spec = cr[round.of].spec /\ ~round.deletion /\ round.of \notin round.orphans

RestCurrent ==
    \A x \in round.rest :
        Live(x[1]) /\ x[1] \notin queue =>
            x[2] = cr[x[1]].spec /\ x[1] \notin round.orphans

(* Who is asked again when the round fails.                                *)
Requested ==
    round # Idle => /\ round.request \in {round.of, ByName}
                    /\ round.rest # {} => round.request = ByName

(* What the round still has to do: it changes nothing that it does not     *)
(* hear of, so what is not right is in its plan.                           *)
Covered ==
    \A a \in Aggregator, s \in Specs, p \in Seq(Jobs) :
        /\ round # Idle /\ round.of = a /\ round.spec = s /\ round.plan = p
        /\ Live(a) /\ a \notin queue /\ ByName \notin queue
        => PlanCovers(a, s, p)

(* Its turn has come or will come in this round.                           *)
Ahead(a) == round # Idle /\ (round.of = a \/ \E s \in Specs : <<a, s>> \in round.rest)

OthersRight ==
    \A a \in Aggregator :
        /\ Live(a) /\ a \notin waiting /\ ~Ahead(a)
        /\ a \notin queue /\ ByName \notin queue
        => AsWanted(a)

QuietInv == OfCurrent /\ RestCurrent /\ Requested /\ Covered /\ OthersRight

(* All objects are right, then the aggregator is.                          *)
LEMMA RightIsWanted ==
    ASSUME NEW a, NEW s, s = cr[a].spec,
           \A o \in Own : OwnRight(a, s, o), \A o \in Shared : SharedRight(a, s, o),
           \A k \in Kind : KindRight(a, s, k)
    PROVE  AsWanted(a)
<1>1. \A o \in WantedShared(s) : o \in Shared
  BY DEF WantedShared, Shared
<1>2. \A k \in Kind : (workload[a][k] # Absent) = (k = KindOf(s))
  BY DEF KindRight
<1>3. ReplicasOf(s) # 0 => workload[a][KindOf(s)].replicas = s.replicas
  BY KindFacts DEF KindRight
<1> QED
  BY <1>1, <1>2, <1>3 DEF AsWanted, OwnRight, SharedRight

(* A plan that is done leaves everything right.                            *)
LEMMA NothingToDo ==
    ASSUME NEW a, NEW s, s = cr[a].spec, PlanCovers(a, s, <<>>)
    PROVE  AsWanted(a)
<1>1. \A job : ~In(<<>>, job)
  BY DEF In
<1> QED
  BY <1>1, RightIsWanted DEF PlanCovers

-----------------------------------------------------------------------------
(* What a plan has.                                                        *)

LEMMA InConcat ==
    ASSUME NEW p \in Seq(Jobs), NEW q \in Seq(Jobs)
    PROVE  \A job : In(p \o q, job) <=> In(p, job) \/ In(q, job)
<1> SUFFICES ASSUME NEW job PROVE In(p \o q, job) <=> In(p, job) \/ In(q, job)
  OBVIOUS
<1>1. In(p, job) => In(p \o q, job)
  <2> SUFFICES ASSUME NEW i \in DOMAIN p, p[i] = job PROVE In(p \o q, job)
    BY DEF In
  <2>1. i \in 1..Len(p) /\ i \in DOMAIN (p \o q) /\ (p \o q)[i] = job
    BY ConcatIndex
  <2> QED
    BY <2>1 DEF In
<1>2. In(q, job) => In(p \o q, job)
  <2> SUFFICES ASSUME NEW i \in DOMAIN q, q[i] = job PROVE In(p \o q, job)
    BY DEF In
  <2>1. Len(p) + i \in DOMAIN (p \o q) /\ (p \o q)[Len(p) + i] = job
    BY ConcatIndex
  <2> QED
    BY <2>1 DEF In
<1>3. In(p \o q, job) => In(p, job) \/ In(q, job)
  BY ConcatIndex DEF In
<1> QED
  BY <1>1, <1>2, <1>3

(* Lists of names as jobs.                                                 *)
LEMMA InAll ==
    ASSUME NEW os \in Seq(Names)
    PROVE  /\ \A job : In(EnsureAll(os), job) <=> \E i \in 1..Len(os) : job = Ensure(os[i])
           /\ \A job : In(DeleteAll(os), job) <=> \E i \in 1..Len(os) : job = Delete(os[i])
<1>1. /\ DOMAIN EnsureAll(os) = 1..Len(os) /\ DOMAIN DeleteAll(os) = 1..Len(os)
      /\ \A i \in 1..Len(os) : EnsureAll(os)[i] = Ensure(os[i]) /\ DeleteAll(os)[i] = Delete(os[i])
  BY AllFacts
<1> QED
  BY <1>1 DEF In

(* The first job of a plan and the others.                                 *)
LEMMA InTail ==
    ASSUME NEW p \in Seq(Jobs), p # <<>>
    PROVE  /\ \A job : In(p, job) => job = Head(p) \/ In(Tail(p), job)
           /\ \A job : In(Tail(p), job) => In(p, job)
<1> DEFINE q == Tail(p)
<1>1. /\ q \in Seq(Jobs) /\ DOMAIN p = 1..Len(p) /\ Len(p) \in Nat /\ Len(p) > 0
      /\ DOMAIN q = 1..(Len(p) - 1) /\ Head(p) = p[1]
      /\ \A i \in DOMAIN q : q[i] = p[i + 1]
  OBVIOUS
<1> HIDE DEF q
<1>2. ASSUME NEW job, In(p, job) PROVE job = Head(p) \/ In(q, job)
  <2>1. PICK i \in DOMAIN p : p[i] = job
    BY <1>2 DEF In
  <2>2. CASE i = 1
    BY <1>1, <2>1, <2>2
  <2>3. CASE i # 1
    <3>1. i - 1 \in DOMAIN q /\ q[i - 1] = job
      BY <1>1, <2>1, <2>3
    <3> QED
      BY <3>1 DEF In
  <2> QED
    BY <2>2, <2>3
<1>3. ASSUME NEW job, In(q, job) PROVE In(p, job)
  <2>1. PICK i \in DOMAIN q : q[i] = job
    BY <1>3 DEF In
  <2>2. i + 1 \in DOMAIN p /\ p[i + 1] = job
    BY <1>1, <2>1
  <2> QED
    BY <2>2 DEF In
<1> QED
  BY <1>2, <1>3 DEF q

(* The job at the head of a plan is done, and what it was for is right.    *)
LEMMA TailCovers ==
    ASSUME NEW a, NEW s, NEW p \in Seq(Jobs), p # <<>>, PlanCovers(a, s, p),
           Head(p) # Ensure("services"),
           \A o \in Own : OwnRight(a, s, o) \/ Head(p) = JobFor(s, o) => OwnRight(a, s, o)',
           \A o \in Shared :
               SharedRight(a, s, o) \/ Head(p) = JobFor(s, o) => SharedRight(a, s, o)',
           \A k \in Kind : KindRight(a, s, k) \/ Head(p) = JobFor(s, k) => KindRight(a, s, k)'
    PROVE  PlanCovers(a, s, Tail(p))'
<1> DEFINE q == Tail(p)
<1>1. /\ DOMAIN q = 1..(Len(p) - 1) /\ \A i \in DOMAIN q : i + 1 \in DOMAIN p /\ q[i] = p[i + 1]
  OBVIOUS
<1>2. \A job : In(p, job) => job = Head(p) \/ In(q, job)
  BY InTail
<1> HIDE DEF q
<1>3. \A o \in Own : \/ OwnRight(a, s, o)' \/ In(q, JobFor(s, o))
                     \/ o \in Service /\ In(q, Ensure("services"))
  BY <1>2 DEF PlanCovers
<1>4. \A o \in Shared : SharedRight(a, s, o)' \/ In(q, JobFor(s, o))
  BY <1>2 DEF PlanCovers
<1>5. \A k \in Kind : KindRight(a, s, k)' \/ In(q, JobFor(s, k))
  BY <1>2 DEF PlanCovers
<1>6. \A i \in DOMAIN q : q[i].obj = "pdb" => q[i] = JobFor(s, "pdb")
  BY <1>1 DEF PlanCovers
<1> QED
  BY <1>3, <1>4, <1>5, <1>6 DEF PlanCovers, q

(* The parts of EnsureVectorAggregator.                                    *)
LEMMA PartsHave ==
    ASSUME NEW a, NEW s
    PROVE  /\ \A job : In(RBAC, job) <=> \E o \in {"account", "role", "binding"} : job = Ensure(o)
           /\ \A job : In(EnsureAll(<<"services">>), job) <=> job = Ensure("services")
           /\ \A job : In(EnsurePodMonitor(s), job) <=> s.metrics /\ job = Ensure("podmonitor")
           /\ \A job : In(EnsureHPA(s), job) <=>
                          job = IF s.autoscaling THEN Ensure("hpa") ELSE Delete("hpa")
           /\ \A job : In(EnsureBudget(s), job) <=>
                          job = IF BudgetWanted(s) THEN Ensure("pdb") ELSE Delete("pdb")
           /\ \A job : In(EnsureCollector(s), job) <=>
                          \E o \in Collector \cup {"collector-role", "collector-binding"} :
                              job = IF s.events THEN Ensure(o) ELSE Delete(o)
           /\ \A job : In(EnsureWorkload(a, s), job) <=>
                          \/ job = Ensure(KindOf(s))
                          \/ job = Delete(OtherKind(s)) /\ workload[a][OtherKind(s)] # Absent
<1>1. ASSUME NEW o \in Names
      PROVE  /\ \A job : In(EnsureAll(<<o>>), job) <=> job = Ensure(o)
             /\ \A job : In(DeleteAll(<<o>>), job) <=> job = Delete(o)
             /\ \A job : ~In(EnsureAll(<<>>), job) /\ ~In(DeleteAll(<<>>), job)
  <2>1. /\ EnsureAll(<<o>>) = <<Ensure(o)>> /\ DeleteAll(<<o>>) = <<Delete(o)>>
        /\ EnsureAll(<<>>) = <<>> /\ DeleteAll(<<>>) = <<>>
    BY ShortFacts
  <2>2. \A j, job : In(<<j>>, job) <=> job = j
    BY DEF In
  <2>3. \A job : ~In(<<>>, job)
    BY DEF In
  <2> QED
    BY <2>1, <2>2, <2>3
<1>2. /\ "services" \in Names /\ "podmonitor" \in Names /\ "hpa" \in Names /\ "pdb" \in Names
      /\ KindOf(s) \in Names /\ OtherKind(s) \in Names
  BY KindFacts DEF Names, Own
<1>3. \A job : In(RBAC, job) <=> \E o \in {"account", "role", "binding"} : job = Ensure(o)
  <2> DEFINE os == <<"account", "role", "binding">>
  <2>1. os \in Seq(Names) /\ Len(os) = 3 /\ RBAC = EnsureAll(os)
    BY DEF Names, Own, Shared, RBAC
  <2>2. os[1] = "account" /\ os[2] = "role" /\ os[3] = "binding"
    OBVIOUS
  <2> HIDE DEF os
  <2>3. \A job : In(RBAC, job) <=> \E i \in 1..3 : job = Ensure(os[i])
    BY <2>1, InAll
  <2> QED
    BY <2>2, <2>3
<1>4. \A job : In(EnsureAll(<<"services">>), job) <=> job = Ensure("services")
  BY <1>1, <1>2
<1>5. \A job : In(EnsurePodMonitor(s), job) <=> s.metrics /\ job = Ensure("podmonitor")
  BY <1>1, <1>2 DEF EnsurePodMonitor, If
<1>6. \A job : In(EnsureHPA(s), job) <=>
                   job = IF s.autoscaling THEN Ensure("hpa") ELSE Delete("hpa")
  BY <1>1, <1>2 DEF EnsureHPA
<1>7. \A job : In(EnsureBudget(s), job) <=>
                   job = IF BudgetWanted(s) THEN Ensure("pdb") ELSE Delete("pdb")
  BY <1>1, <1>2 DEF EnsureBudget
<1>8. \A job : In(EnsureCollector(s), job) <=>
                   \E o \in Collector \cup {"collector-role", "collector-binding"} :
                       job = IF s.events THEN Ensure(o) ELSE Delete(o)
  <2> DEFINE up == <<"collector-config", "collector-account", "collector-role",
                     "collector-binding", "collector-service", "collector">>
             down == <<"collector", "collector-service", "collector-binding",
                       "collector-role", "collector-account", "collector-config">>
             all == Collector \cup {"collector-role", "collector-binding"}
  <2>1. up \in Seq(Names) /\ Len(up) = 6 /\ down \in Seq(Names) /\ Len(down) = 6
    BY DEF Names, Own, Shared, Collector
  <2>2. /\ up[1] = "collector-config" /\ up[2] = "collector-account" /\ up[3] = "collector-role"
        /\ up[4] = "collector-binding" /\ up[5] = "collector-service" /\ up[6] = "collector"
        /\ down[6] = "collector-config" /\ down[5] = "collector-account"
        /\ down[4] = "collector-role" /\ down[3] = "collector-binding"
        /\ down[2] = "collector-service" /\ down[1] = "collector"
    OBVIOUS
  <2>3. EnsureCollector(s) = IF s.events THEN EnsureAll(up) ELSE DeleteAll(down)
    BY DEF EnsureCollector
  <2> HIDE DEF up, down
  <2>4. \A o : o \in all <=> \E i \in 1..6 : o = up[i]
    BY <2>2 DEF Collector
  <2>5. \A o : o \in all <=> \E i \in 1..6 : o = down[i]
    BY <2>2 DEF Collector
  <2> HIDE DEF all
  <2>6. CASE s.events
    <3>1. \A job : In(EnsureCollector(s), job) <=> \E i \in 1..6 : job = Ensure(up[i])
      BY <2>1, <2>3, <2>6, InAll
    <3>2. \A job : (\E i \in 1..6 : job = Ensure(up[i])) <=> \E o \in all : job = Ensure(o)
      BY <2>4
    <3> QED
      BY <2>6, <3>1, <3>2 DEF all
  <2>7. CASE ~s.events
    <3>1. \A job : In(EnsureCollector(s), job) <=> \E i \in 1..6 : job = Delete(down[i])
      BY <2>1, <2>3, <2>7, InAll
    <3>2. \A job : (\E i \in 1..6 : job = Delete(down[i])) <=> \E o \in all : job = Delete(o)
      BY <2>5
    <3> QED
      BY <2>7, <3>1, <3>2 DEF all
  <2> QED
    BY <2>6, <2>7
<1>9. \A job : In(EnsureWorkload(a, s), job) <=>
                   \/ job = Ensure(KindOf(s))
                   \/ job = Delete(OtherKind(s)) /\ workload[a][OtherKind(s)] # Absent
  <2> DEFINE p == EnsureAll(<<KindOf(s)>>)
             q == DeleteAll(If(workload[a][OtherKind(s)] # Absent, <<OtherKind(s)>>))
  <2>1. \A job : In(p, job) <=> job = Ensure(KindOf(s))
    BY <1>1, <1>2
  <2>2. \A job : In(q, job) <=>
                    job = Delete(OtherKind(s)) /\ workload[a][OtherKind(s)] # Absent
    BY <1>1, <1>2 DEF If
  <2>3. p \in Seq(Jobs) /\ q \in Seq(Jobs)
    <3>1. <<KindOf(s)>> \in Seq(Names) /\ <<OtherKind(s)>> \in Seq(Names) /\ <<>> \in Seq(Names)
      BY <1>2
    <3> QED
      BY <3>1, AllFacts DEF If
  <2>4. EnsureWorkload(a, s) = p \o q
    BY DEF EnsureWorkload
  <2> HIDE DEF p, q
  <2> QED
    BY <2>1, <2>2, <2>3, <2>4, InConcat
<1> QED
  BY <1>3, <1>4, <1>5, <1>6, <1>7, <1>8, <1>9

(* Their order does not matter here.                                       *)
LEMMA PlanHas ==
    ASSUME NEW a, NEW s, NEW job
    PROVE  In(EnsurePlan(a, s), job) <=>
               \/ In(EnsureWorkload(a, s), job) \/ In(RBAC, job)
               \/ In(EnsureAll(<<"services">>), job) \/ In(EnsurePodMonitor(s), job)
               \/ In(EnsureCollector(s), job) \/ In(EnsureHPA(s), job) \/ In(EnsureBudget(s), job)
<1> DEFINE q1 == EnsureWorkload(a, s)
           q2 == RBAC
           q3 == EnsureAll(<<"services">>)
           q4 == EnsurePodMonitor(s)
           q5 == EnsureCollector(s)
           q6 == EnsureHPA(s)
           q7 == EnsureBudget(s)
<1>1. q1 \in Seq(Jobs) /\ q2 \in Seq(Jobs) /\ q3 \in Seq(Jobs) /\ q4 \in Seq(Jobs)
      /\ q5 \in Seq(Jobs) /\ q6 \in Seq(Jobs) /\ q7 \in Seq(Jobs)
  BY WorkloadPart, OtherParts, CollectorPart
<1>2. EnsurePlan(a, s) = q1 \o q2 \o q3 \o q4 \o q5 \o q6 \o q7
  BY DEF EnsurePlan
<1> HIDE DEF q1, q2, q3, q4, q5, q6, q7
<1>3. q1 \o q2 \in Seq(Jobs) /\ (In(q1 \o q2, job) <=> In(q1, job) \/ In(q2, job))
  BY <1>1, InConcat, ConcatIndex
<1>4. /\ q1 \o q2 \o q3 \in Seq(Jobs)
      /\ In(q1 \o q2 \o q3, job) <=> In(q1 \o q2, job) \/ In(q3, job)
  BY <1>1, <1>3, InConcat, ConcatIndex
<1>5. /\ q1 \o q2 \o q3 \o q4 \in Seq(Jobs)
      /\ In(q1 \o q2 \o q3 \o q4, job) <=> In(q1 \o q2 \o q3, job) \/ In(q4, job)
  BY <1>1, <1>4, InConcat, ConcatIndex
<1>6. /\ q1 \o q2 \o q3 \o q4 \o q5 \in Seq(Jobs)
      /\ In(q1 \o q2 \o q3 \o q4 \o q5, job) <=> In(q1 \o q2 \o q3 \o q4, job) \/ In(q5, job)
  BY <1>1, <1>5, InConcat, ConcatIndex
<1>7. /\ q1 \o q2 \o q3 \o q4 \o q5 \o q6 \in Seq(Jobs)
      /\ In(q1 \o q2 \o q3 \o q4 \o q5 \o q6, job) <=>
            In(q1 \o q2 \o q3 \o q4 \o q5, job) \/ In(q6, job)
  BY <1>1, <1>6, InConcat, ConcatIndex
<1>8. In(q1 \o q2 \o q3 \o q4 \o q5 \o q6 \o q7, job) <=>
          In(q1 \o q2 \o q3 \o q4 \o q5 \o q6, job) \/ In(q7, job)
  BY <1>1, <1>7, InConcat
<1> QED
  BY <1>2, <1>3, <1>4, <1>5, <1>6, <1>7, <1>8 DEF q1, q2, q3, q4, q5, q6, q7

(* What is wanted of each object.                                          *)
LEMMA WantedFacts ==
    ASSUME NEW s
    PROVE  /\ "account" \in WantedOwn(s)
           /\ "podmonitor" \in WantedOwn(s) <=> s.metrics
           /\ "hpa" \in WantedOwn(s) <=> s.autoscaling
           /\ "pdb" \in WantedOwn(s) <=> BudgetWanted(s)
           /\ \A o \in Service : o \in WantedOwn(s) <=> o \in ServicesOf(s)
           /\ \A o \in Collector : o \in WantedOwn(s) <=> s.events
           /\ {"role", "binding"} \subseteq WantedShared(s)
           /\ \A o \in {"collector-role", "collector-binding"} :
                 o \in WantedShared(s) <=> s.events
           /\ WantedOwn(s) \subseteq Own /\ WantedShared(s) \subseteq Shared
           /\ Own \cap Shared = {} /\ Own \cap Kind = {} /\ Shared \cap Kind = {}
<1>1. Own \cap Shared = {} /\ Own \cap Kind = {} /\ Shared \cap Kind = {}
  BY DEF Own, Shared, Kind, Service, Collector
<1>2. ServicesOf(s) \subseteq Service
  BY DEF ServicesOf
<1>3. /\ "account" \in WantedOwn(s)
      /\ "podmonitor" \in WantedOwn(s) <=> s.metrics
      /\ "hpa" \in WantedOwn(s) <=> s.autoscaling
      /\ "pdb" \in WantedOwn(s) <=> BudgetWanted(s)
  BY <1>2 DEF WantedOwn, Service, Collector
<1>4. \A o \in Service : o \in WantedOwn(s) <=> o \in ServicesOf(s)
  BY DEF WantedOwn, Service, Collector
<1>5. \A o \in Collector : o \in WantedOwn(s) <=> s.events
  BY <1>2 DEF WantedOwn, Service, Collector
<1>6. /\ {"role", "binding"} \subseteq WantedShared(s)
      /\ \A o \in {"collector-role", "collector-binding"} : o \in WantedShared(s) <=> s.events
      /\ WantedShared(s) \subseteq Shared
  BY DEF WantedShared, Shared
<1>7. WantedOwn(s) \subseteq Own
  BY <1>2 DEF WantedOwn, Own
<1> QED
  BY <1>1, <1>3, <1>4, <1>5, <1>6, <1>7

LEMMA JobForFacts ==
    ASSUME NEW s
    PROVE  /\ \A o \in Own : JobFor(s, o) = IF o \in WantedOwn(s) THEN Ensure(o) ELSE Delete(o)
           /\ \A o \in Shared : JobFor(s, o) = IF o \in WantedShared(s) THEN Ensure(o) ELSE Delete(o)
           /\ \A k \in Kind : JobFor(s, k) = IF k = KindOf(s) THEN Ensure(k) ELSE Delete(k)
BY WantedFacts, KindFacts DEF JobFor

(* A new plan has a job for everything that is not right.                  *)
LEMMA NewPlanCovers ==
    ASSUME NEW a, NEW s
    PROVE  PlanCovers(a, s, EnsurePlan(a, s))
<1> DEFINE p == EnsurePlan(a, s)
<1>1. \A job : In(p, job) <=>
               \/ In(EnsureWorkload(a, s), job) \/ In(RBAC, job)
               \/ In(EnsureAll(<<"services">>), job) \/ In(EnsurePodMonitor(s), job)
               \/ In(EnsureCollector(s), job) \/ In(EnsureHPA(s), job) \/ In(EnsureBudget(s), job)
  BY PlanHas
<1> HIDE DEF p
<1>2. ASSUME NEW o \in Own
      PROVE  \/ OwnRight(a, s, o) \/ In(p, JobFor(s, o))
             \/ o \in Service /\ In(p, Ensure("services"))
  <2>1. CASE o = "account"
    BY <1>1, <2>1, PartsHave, WantedFacts, JobForFacts
  <2>2. CASE o = "podmonitor"
    BY <1>1, <2>2, PartsHave, WantedFacts, JobForFacts DEF OwnRight
  <2>3. CASE o = "hpa"
    BY <1>1, <2>3, PartsHave, WantedFacts, JobForFacts
  <2>4. CASE o = "pdb"
    BY <1>1, <2>4, PartsHave, WantedFacts, JobForFacts
  <2>5. CASE o \in Service
    BY <1>1, <2>5, PartsHave
  <2>6. CASE o \in Collector
    BY <1>1, <2>6, PartsHave, WantedFacts, JobForFacts
  <2> QED
    BY <2>1, <2>2, <2>3, <2>4, <2>5, <2>6 DEF Own
<1>3. ASSUME NEW o \in Shared
      PROVE  SharedRight(a, s, o) \/ In(p, JobFor(s, o))
  <2>1. CASE o \in {"role", "binding"}
    BY <1>1, <2>1, PartsHave, WantedFacts, JobForFacts
  <2>2. CASE o \in {"collector-role", "collector-binding"}
    BY <1>1, <2>2, PartsHave, WantedFacts, JobForFacts DEF SharedRight
  <2> QED
    BY <2>1, <2>2 DEF Shared
<1>4. ASSUME NEW k \in Kind
      PROVE  KindRight(a, s, k) \/ In(p, JobFor(s, k))
  <2>1. CASE k = KindOf(s)
    BY <1>1, <2>1, PartsHave, JobForFacts
  <2>2. CASE k = OtherKind(s)
    BY <1>1, <2>2, PartsHave, KindFacts, JobForFacts DEF KindRight
  <2> QED
    BY <2>1, <2>2, KindFacts
<1>5. ASSUME NEW job, In(p, job), job.obj = "pdb"
      PROVE  job = JobFor(s, "pdb")
  <2>1. /\ "pdb" \in Own /\ "pdb" \notin Kind /\ "pdb" \notin Collector
        /\ \A o : o # "pdb" => job # Ensure(o) /\ job # Delete(o)
    BY <1>5, JobFacts DEF Own, Kind, Collector
  <2>2. ~In(EnsureWorkload(a, s), job)
    <3>1. KindOf(s) # "pdb" /\ OtherKind(s) # "pdb"
      BY KindFacts
    <3>2. In(EnsureWorkload(a, s), job) => job = Ensure(KindOf(s)) \/ job = Delete(OtherKind(s))
      BY PartsHave
    <3> QED
      BY <2>1, <3>1, <3>2
  <2>3. ~In(RBAC, job) /\ ~In(EnsureAll(<<"services">>), job) /\ ~In(EnsurePodMonitor(s), job)
    BY <2>1, PartsHave
  <2>4. ~In(EnsureCollector(s), job)
    <3>1. \A o \in Collector \cup {"collector-role", "collector-binding"} : o # "pdb"
      BY <2>1
    <3>2. In(EnsureCollector(s), job) =>
             \E o \in Collector \cup {"collector-role", "collector-binding"} :
                 job = IF s.events THEN Ensure(o) ELSE Delete(o)
      BY PartsHave, Zenon
    <3> QED
      BY <2>1, <3>1, <3>2
  <2>5. ~In(EnsureHPA(s), job)
    BY <2>1, PartsHave
  <2>6. In(EnsureBudget(s), job)
    BY <1>1, <1>5, <2>2, <2>3, <2>4, <2>5
  <2>7. job = IF BudgetWanted(s) THEN Ensure("pdb") ELSE Delete("pdb")
    BY <2>6, PartsHave
  <2>8. "pdb" \in WantedOwn(s) <=> BudgetWanted(s)
    BY WantedFacts
  <2> QED
    BY <2>1, <2>7, <2>8, JobForFacts
<1>6. \A i \in DOMAIN p : p[i].obj = "pdb" => p[i] = JobFor(s, "pdb")
  BY <1>5 DEF In
<1> QED
  BY <1>2, <1>3, <1>4, <1>6 DEF PlanCovers, p

(* The Services of a set, each in the list.                                *)
LEMMA ListedHas ==
    ASSUME NEW os
    PROVE  /\ Listed(os) \in Seq(Names)
           /\ \A i \in 1..Len(Listed(os)) : Listed(os)[i] \in Service
           /\ \A o \in Service \cap os : \E i \in 1..Len(Listed(os)) : Listed(os)[i] = o
<1>1. Service = {"service", "headless"} /\ Service \subseteq Names
  BY DEF Service, Names, Own
<1>2. CASE "service" \in os /\ "headless" \in os
  <2> DEFINE p == <<"service">>
             q == <<"headless">>
  <2>1. Listed(os) = p \o q
    BY <1>2 DEF Listed, If
  <2>2. /\ p \in Seq(Names) /\ Len(p) = 1 /\ p[1] = "service"
        /\ q \in Seq(Names) /\ Len(q) = 1 /\ q[1] = "headless"
    BY <1>1
  <2> HIDE DEF p, q
  <2>3. ASSUME NEW x \in Seq(Names), NEW y \in Seq(Names)
        PROVE  /\ x \o y \in Seq(Names) /\ Len(x \o y) = Len(x) + Len(y)
               /\ \A i \in 1..Len(x) : (x \o y)[i] = x[i]
               /\ \A i \in 1..Len(y) : (x \o y)[Len(x) + i] = y[i]
    OBVIOUS
  <2>4. /\ p \o q \in Seq(Names) /\ Len(p \o q) = 2
        /\ (p \o q)[1] = "service" /\ (p \o q)[2] = "headless"
    BY <2>2, <2>3
  <2> QED
    BY <1>1, <2>1, <2>4
<1>3. CASE "service" \in os /\ "headless" \notin os
  <2>1. Listed(os) = <<"service">>
    BY <1>3 DEF Listed, If
  <2>2. LET l == <<"service">> IN l \in Seq(Names) /\ Len(l) = 1 /\ l[1] = "service"
    BY <1>1
  <2> QED
    BY <1>1, <1>3, <2>1, <2>2
<1>4. CASE "service" \notin os /\ "headless" \in os
  <2>1. Listed(os) = <<"headless">>
    BY <1>4 DEF Listed, If
  <2>2. LET l == <<"headless">> IN l \in Seq(Names) /\ Len(l) = 1 /\ l[1] = "headless"
    BY <1>1
  <2> QED
    BY <1>1, <1>4, <2>1, <2>2
<1>5. CASE "service" \notin os /\ "headless" \notin os
  <2>1. Listed(os) = <<>>
    BY <1>5 DEF Listed, If
  <2> QED
    BY <1>1, <1>5, <2>1
<1> QED
  BY <1>2, <1>3, <1>4, <1>5

(* The Services that are not right are among the jobs that take the place  *)
(* of their listing, and nothing else is.                                  *)
LEMMA ServicesCover ==
    ASSUME NEW a, NEW s
    PROVE  /\ \A o \in Service : OwnRight(a, s, o) \/ In(EnsureServices(a, s), JobFor(s, o))
           /\ \A job : In(EnsureServices(a, s), job) => job.obj \in Service
<1> DEFINE stale == {o \in Service \ ServicesOf(s) : own[a][o] # None}
           l == Listed(ServicesOf(s))
           m == Listed(stale)
           p == EnsureAll(l)
           q == DeleteAll(m)
<1>1. /\ l \in Seq(Names) /\ \A i \in 1..Len(l) : l[i] \in Service
      /\ \A o \in Service \cap ServicesOf(s) : \E i \in 1..Len(l) : l[i] = o
  BY ListedHas
<1>2. /\ m \in Seq(Names) /\ \A i \in 1..Len(m) : m[i] \in Service
      /\ \A o \in Service \cap stale : \E i \in 1..Len(m) : m[i] = o
  BY ListedHas
<1>3. EnsureServices(a, s) = p \o q
  BY DEF EnsureServices
<1>4. \A o \in Service : o \in Own /\ (o \in WantedOwn(s) <=> o \in ServicesOf(s))
  BY WantedFacts DEF Own
<1> HIDE DEF l, m
<1>5. p \in Seq(Jobs) /\ q \in Seq(Jobs)
  BY <1>1, <1>2, AllFacts
<1>6. \A job : In(p, job) <=> \E i \in 1..Len(l) : job = Ensure(l[i])
  BY <1>1, InAll
<1>7. \A job : In(q, job) <=> \E i \in 1..Len(m) : job = Delete(m[i])
  BY <1>2, InAll
<1> HIDE DEF p, q
<1>8. \A job : In(EnsureServices(a, s), job) <=> In(p, job) \/ In(q, job)
  BY <1>3, <1>5, InConcat
<1>9. ASSUME NEW o \in Service
      PROVE  OwnRight(a, s, o) \/ In(EnsureServices(a, s), JobFor(s, o))
  <2>1. CASE o \in ServicesOf(s)
    <3>1. JobFor(s, o) = Ensure(o)
      BY <1>4, <2>1, JobForFacts
    <3>2. In(p, Ensure(o))
      BY <1>1, <1>6, <2>1
    <3> QED
      BY <1>8, <3>1, <3>2
  <2>2. CASE o \in stale
    <3>1. JobFor(s, o) = Delete(o)
      BY <1>4, <2>2, JobForFacts
    <3>2. In(q, Delete(o))
      BY <1>2, <1>7, <2>2
    <3> QED
      BY <1>8, <3>1, <3>2
  <2>3. CASE o \notin ServicesOf(s) /\ own[a][o] = None
    BY <1>4, <2>3 DEF OwnRight
  <2> QED
    BY <2>1, <2>2, <2>3
<1>10. ASSUME NEW job, In(EnsureServices(a, s), job) PROVE job.obj \in Service
  <2>1. CASE In(p, job)
    BY <1>1, <1>6, <2>1, JobFacts
  <2>2. CASE In(q, job)
    BY <1>2, <1>7, <2>2, JobFacts
  <2> QED
    BY <1>8, <1>10, <2>1, <2>2
<1> QED
  BY <1>9, <1>10

(* The listing of the Services gives way to their jobs.                    *)
LEMMA ListingCovers ==
    ASSUME NEW a, NEW s, NEW p \in Seq(Jobs), p # <<>>, Head(p) = Ensure("services"),
           PlanCovers(a, s, p)
    PROVE  PlanCovers(a, s, EnsureServices(a, s) \o Tail(p))
<1> DEFINE l == EnsureServices(a, s)
           q == Tail(p)
           r == l \o q
<1>1. l \in Seq(Jobs) /\ q \in Seq(Jobs)
  BY ServicesFacts
<1>2. /\ \A o \in Service : OwnRight(a, s, o) \/ In(l, JobFor(s, o))
      /\ \A job : In(l, job) => job.obj \in Service
  BY ServicesCover
<1>3. /\ \A job : In(p, job) => job = Ensure("services") \/ In(q, job)
      /\ \A job : In(q, job) => In(p, job)
  BY InTail
<1> HIDE DEF l, q
<1>4. \A job : In(r, job) <=> In(l, job) \/ In(q, job)
  BY <1>1, InConcat
<1> HIDE DEF r
<1>5. \A o \in Own \cup Shared \cup Kind : JobFor(s, o) # Ensure("services")
  <2>1. "services" \notin Own \cup Shared \cup Kind
    BY DEF Own, Shared, Kind, Service, Collector
  <2> QED
    BY <2>1, JobFacts DEF JobFor
<1>6. \A o \in Own : OwnRight(a, s, o) \/ In(r, JobFor(s, o))
  BY <1>2, <1>3, <1>4, <1>5 DEF PlanCovers
<1>7. \A o \in Shared : SharedRight(a, s, o) \/ In(r, JobFor(s, o))
  BY <1>3, <1>4, <1>5 DEF PlanCovers
<1>8. \A k \in Kind : KindRight(a, s, k) \/ In(r, JobFor(s, k))
  BY <1>3, <1>4, <1>5 DEF PlanCovers
<1>9. ASSUME NEW i \in DOMAIN r, r[i].obj = "pdb" PROVE r[i] = JobFor(s, "pdb")
  <2>1. "pdb" \notin Service
    BY DEF Service
  <2>2. In(r, r[i])
    BY <1>9 DEF In
  <2>3. In(p, r[i])
    BY <1>2, <1>3, <1>4, <1>9, <2>1, <2>2
  <2> QED
    BY <1>9, <2>3 DEF In, PlanCovers
<1> QED
  BY <1>6, <1>7, <1>8, <1>9 DEF PlanCovers, r, l, q

-----------------------------------------------------------------------------
(* Nothing is disturbed that is not heard of.                              *)

(* The round stays, and whoever changes is queued; the aggregator of the   *)
(* round may change its objects.                                           *)
Heard ==
    /\ queue \subseteq queue'
    /\ \/ round = Idle /\ round' = Idle
       \/ /\ round # Idle /\ round' # Idle /\ round'.of = round.of /\ round'.spec = round.spec
          /\ round'.deletion = round.deletion /\ round'.rest = round.rest
          /\ round'.request = round.request /\ round'.orphans \subseteq round.orphans \cup queue'
    /\ \A b \in Aggregator \ queue' :
          /\ cr'[b] = cr[b] /\ (b \in waiting => b \in waiting')
          /\ \/ round # Idle /\ round.of = b
             \/ own'[b] = own[b] /\ workload'[b] = workload[b]
    /\ shared' = shared \/ ByName \in queue'

LEMMA HeardKeeps ==
    ASSUME TypeOK, QuietInv, Heard
    PROVE  OfCurrent' /\ RestCurrent' /\ Requested' /\ OthersRight'
<1> USE DEF QuietInv
<1>1. round # Idle => round.of \in Aggregator /\ \A x \in round.rest : x[1] \in Aggregator
  BY DEF TypeOK, Rounds
<1>2. Idle.rest = {}
  BY DEF Idle
<1>3. OfCurrent'
  BY <1>1 DEF Heard, OfCurrent, Live
<1>4. RestCurrent'
  BY <1>1, <1>2 DEF Heard, RestCurrent, Live
<1>5. Requested'
  BY DEF Heard, Requested
<1>6. OthersRight'
  <2> SUFFICES ASSUME NEW a \in Aggregator, Live(a)', a \notin waiting', ~Ahead(a)',
                      a \notin queue', ByName \notin queue'
               PROVE  AsWanted(a)'
    BY DEF OthersRight
  <2>1. /\ cr'[a] = cr[a] /\ a \notin waiting /\ shared' = shared
        /\ a \notin queue /\ ByName \notin queue
    BY DEF Heard
  <2>2. ~Ahead(a)
    BY DEF Heard, Ahead
  <2>3. own'[a] = own[a] /\ workload'[a] = workload[a]
    BY <2>2 DEF Heard, Ahead
  <2>4. AsWanted(a)
    BY <2>1, <2>2 DEF OthersRight, Live
  <2> QED
    BY <2>1, <2>3, <2>4 DEF AsWanted
<1> QED
  BY <1>3, <1>4, <1>5, <1>6

(* Objects that stay are as right as they were.                            *)
LEMMA SameCovers ==
    ASSUME NEW a, NEW s, NEW p, PlanCovers(a, s, p),
           own'[a] = own[a], workload'[a] = workload[a], shared' = shared
    PROVE  PlanCovers(a, s, p)'
BY DEF PlanCovers, OwnRight, SharedRight, KindRight

(* A step of a user or of the autoscaler: the plan stays too, and nobody   *)
(* changes unheard, the aggregator of the round included.                  *)
LEMMA UnheardStays ==
    ASSUME TypeOK, QuietInv, Heard, round # Idle => round'.plan = round.plan,
           \A b \in Aggregator \ queue' : own'[b] = own[b] /\ workload'[b] = workload[b]
    PROVE  QuietInv'
<1>1. Covered'
  <2> SUFFICES ASSUME NEW a \in Aggregator, NEW s \in Specs, NEW p \in Seq(Jobs),
                      round' # Idle, round'.of = a, round'.spec = s, round'.plan = p,
                      Live(a)', a \notin queue', ByName \notin queue'
               PROVE  PlanCovers(a, s, p)'
    BY DEF Covered
  <2>1. round # Idle /\ round.of = a /\ round.spec = s /\ round.plan = p
    BY DEF Heard
  <2>2. /\ a \notin queue /\ ByName \notin queue /\ cr'[a] = cr[a]
        /\ shared' = shared /\ own'[a] = own[a] /\ workload'[a] = workload[a]
    BY DEF Heard
  <2>3. PlanCovers(a, s, p)
    BY <2>1, <2>2 DEF QuietInv, Covered, Live
  <2> QED
    BY <2>2, <2>3, SameCovers
<1> QED
  BY <1>1, HeardKeeps DEF QuietInv

LEMMA QuietUsers ==
    ASSUME TypeOK, QuietInv, "pdb" \notin Fragile, Users
    PROVE  QuietInv'
<1>1. ASSUME NEW a \in Aggregator, NEW s \in Specs, Create(a, s)
      PROVE  QuietInv'
  <2>1. /\ Request(a) /\ UNCHANGED <<round, own, shared, workload>>
        /\ cr' = [cr EXCEPT ![a] = [there |-> TRUE, finalizer |-> FALSE, deleting |-> FALSE, spec |-> s]]
    BY <1>1 DEF Create, objects
  <2>2. a \in queue' /\ \A b \in Aggregator \ {a} : cr'[b] = cr[b]
    BY <2>1 DEF Request, TypeOK
  <2>3. Heard
    BY <2>1, <2>2 DEF Heard, Request
  <2> QED
    BY <2>1, <2>3, UnheardStays
<1>2. ASSUME NEW a \in Aggregator, NEW s \in Specs, Edit(a, s)
      PROVE  QuietInv'
  <2>1. /\ Request(a) /\ UNCHANGED <<round, own, shared, workload>>
        /\ cr' = [cr EXCEPT ![a].spec = s]
    BY <1>2 DEF Edit, objects
  <2>2. a \in queue' /\ \A b \in Aggregator \ {a} : cr'[b] = cr[b]
    BY <2>1 DEF Request, TypeOK
  <2>3. Heard
    BY <2>1, <2>2 DEF Heard, Request
  <2> QED
    BY <2>1, <2>3, UnheardStays
<1>3. ASSUME NEW a \in Aggregator, Withdraw(a), cr[a].finalizer
      PROVE  QuietInv'
  <2>1. /\ Request(a) /\ UNCHANGED <<round, own, shared, workload>>
        /\ cr' = [cr EXCEPT ![a].deleting = TRUE]
    BY <1>3 DEF Withdraw, objects
  <2>2. a \in queue' /\ \A b \in Aggregator \ {a} : cr'[b] = cr[b]
    BY <2>1 DEF Request, TypeOK
  <2>3. Heard
    BY <2>1, <2>2 DEF Heard, Request
  <2> QED
    BY <2>1, <2>3, UnheardStays
<1>4. ASSUME NEW a \in Aggregator, Withdraw(a), ~cr[a].finalizer
      PROVE  QuietInv'
  <2>1. /\ cr' = [cr EXCEPT ![a] = Gone]
        /\ own' = [own EXCEPT ![a] = [o \in Own |-> None]]
        /\ workload' = [workload EXCEPT ![a] = Nothing]
        /\ round' = [round EXCEPT !.orphans = IF round = Idle THEN {} ELSE @ \cup {a}]
        /\ shared' = shared /\ Request(a)
    BY <1>4 DEF Withdraw
  <2>2. /\ a \in queue'
        /\ \A b \in Aggregator \ {a} : cr'[b] = cr[b] /\ own'[b] = own[b] /\ workload'[b] = workload[b]
    BY <2>1 DEF Request, TypeOK
  <2>3. /\ round = Idle => round' = Idle
        /\ round # Idle =>
              /\ round' # Idle /\ round'.plan = round.plan
              /\ round'.of = round.of /\ round'.spec = round.spec
              /\ round'.deletion = round.deletion /\ round'.rest = round.rest
              /\ round'.orphans = round.orphans \cup {a} /\ round'.request = round.request
    BY <2>1, OrphanChange
  <2>4. queue' = queue \cup {a} /\ waiting' = waiting \ {a}
    BY <2>1 DEF Request
  <2>5. Heard
    BY <2>1, <2>2, <2>3, <2>4 DEF Heard
  <2> QED
    BY <2>2, <2>3, <2>5, UnheardStays
<1>5. ASSUME NEW a \in Aggregator, Scale(a)
      PROVE  QuietInv'
  <2>1. Request(a) /\ UNCHANGED <<round, cr, own, shared>>
    BY <1>5 DEF Scale
  <2>2. a \in queue' /\ \A b \in Aggregator \ {a} : workload'[b] = workload[b]
    BY <1>5, <2>1 DEF Request, Scale, TypeOK
  <2>3. Heard
    BY <2>1, <2>2 DEF Heard, Request
  <2> QED
    BY <2>1, <2>2, <2>3, UnheardStays
<1>6. ASSUME NEW a \in Aggregator, NEW o \in Own \cup Shared, Tamper(a, o)
      PROVE  QuietInv'
  <2>1. o \in Fragile /\ Watched(o) /\ UNCHANGED <<round, cr, workload>>
    BY <1>6 DEF Tamper, Watched
  <2>2. CASE o \in Own
    <3>1. own' = [own EXCEPT ![a][o] = None] /\ Request(a) /\ UNCHANGED shared
      BY <1>6, <2>1, <2>2 DEF Tamper
    <3>2. a \in queue' /\ \A b \in Aggregator \ {a} : own'[b] = own[b]
      BY <3>1 DEF Request, TypeOK
    <3>3. Heard
      BY <2>1, <3>1, <3>2 DEF Heard, Request
    <3> QED
      BY <2>1, <3>2, <3>3, UnheardStays
  <2>3. CASE o \notin Own
    <3>1. Request(ByName) /\ UNCHANGED own
      BY <1>6, <2>3 DEF Tamper
    <3>2. Heard
      BY <2>1, <3>1, ObjectsAssumption DEF Heard, Request
    <3> QED
      BY <2>1, <3>1, <3>2, UnheardStays
  <2> QED
    BY <2>2, <2>3
<1> QED
  BY <1>1, <1>2, <1>3, <1>4, <1>5, <1>6 DEF Users

(* A job that writes an object beside the workload.                        *)
LEMMA QuietPut ==
    ASSUME TypeOK, QuietInv, InRound, NEW o \in Own \cup Shared, NEW v, Put(o, v), Job.obj = o,
           UNCHANGED <<cr, workload>>,
           round' # Idle, round'.of = round.of, round'.spec = round.spec,
           round'.deletion = round.deletion, round'.rest = round.rest,
           round'.request = round.request, round'.orphans = round.orphans,
           ~round.deletion => round'.plan = Tail(round.plan),
           Job.op = "ensure" => v = IF Orphan /\ o \in Own THEN None
                                    ELSE Content(round.of, round.spec, o),
           Job.op = "delete" => v = None
    PROVE  QuietInv'
<1>1. /\ round \in Rounds /\ round.plan \in Seq(Jobs) /\ round.of \in Aggregator
      /\ round.spec \in Specs /\ Job \in Jobs
  BY JobAtHand
<1>2. round # Idle /\ round.plan # <<>>
  BY DEF InRound
<1>3. /\ \A b \in Aggregator, q \in Own : b # round.of \/ q # o => own'[b][q] = own[b][q]
      /\ o \in Own => own'[round.of][o] = v
  BY PutOwn
<1>4. /\ o \in Shared => shared' = [shared EXCEPT ![o] = v] /\ own' = own
      /\ o \notin Shared => own' = [own EXCEPT ![round.of][o] = v] /\ shared' = shared
  BY PutFacts
<1>5. \A b \in Aggregator : b # round.of => own'[b] = own[b]
  BY <1>1, <1>4 DEF TypeOK
<1>6. /\ queue \subseteq queue'
      /\ \A b \in waiting : b \in waiting' \/ b \in queue'
  BY DEF Put, Request
<1>7. /\ o \in Shared /\ ByName \notin queue' => shared[o] = v
      /\ o \in Own /\ Watched(o) /\ round.of \notin queue' => own[round.of][o] = v
  <2>1. Own \cap Shared = {}
    BY WantedFacts
  <2> QED
    BY <2>1 DEF Put, Request
<1>8. shared' = shared \/ ByName \in queue'
  BY <1>4, <1>7 DEF TypeOK
<1>9. Heard
  BY <1>1, <1>2, <1>5, <1>6, <1>8 DEF Heard
<1>10. Covered'
  <2> SUFFICES ASSUME NEW a \in Aggregator, NEW s \in Specs, NEW r \in Seq(Jobs),
                      round' # Idle, round'.of = a, round'.spec = s, round'.plan = r,
                      Live(a)', a \notin queue', ByName \notin queue'
               PROVE  PlanCovers(a, s, r)'
    BY DEF Covered
  <2>1. PICK p \in Seq(Jobs) : p = round.plan
    BY <1>1
  <2>2. /\ round.of = a /\ round.spec = s /\ a \notin queue /\ ByName \notin queue
        /\ Live(a) /\ shared' = shared
    BY <1>6, <1>8 DEF Live
  <2>3. ~round.deletion /\ ~Orphan
    BY <1>2, <2>2 DEF QuietInv, OfCurrent, Orphan
  <2>4. r = Tail(p) /\ p # <<>> /\ Head(p) = Job
    BY <1>2, <2>1, <2>3 DEF Job
  <2>5. PlanCovers(a, s, p)
    BY <1>2, <2>1, <2>2 DEF QuietInv, Covered
  <2>6. PICK job \in Jobs : job = Job
    BY <1>1
  <2>7. job = Ensure(o) \/ job = Delete(o)
    BY <2>6, JobFacts
  <2>8. /\ Own \cap Shared = {} /\ Own \cap Kind = {} /\ Shared \cap Kind = {}
        /\ "services" \notin Own \cup Shared
    BY WantedFacts DEF Own, Shared, Service, Collector
  <2>9. job # Ensure("services")
    BY <2>7, <2>8, JobFacts
  <2>10. /\ job = Ensure(o) => v = Content(a, s, o)
         /\ job = Delete(o) => v = None
    BY <2>2, <2>3, <2>6, JobFacts
  <2>11. \A q \in Own \cup Shared \cup Kind : job = JobFor(s, q) => q = o
    BY <2>7, JobFacts DEF JobFor
  <2>12. ASSUME NEW q \in Own, OwnRight(a, s, q) \/ job = JobFor(s, q)
         PROVE  OwnRight(a, s, q)'
    <3>1. CASE job = JobFor(s, q)
      <4>1. q = o /\ own'[a][q] = v
        BY <1>3, <2>2, <2>11, <3>1
      <4>2. IF q \in WantedOwn(s) THEN job = Ensure(o) ELSE job = Delete(o)
        BY <3>1, <4>1, JobForFacts
      <4> QED
        BY <2>10, <4>1, <4>2 DEF OwnRight
    <3>2. CASE job # JobFor(s, q) /\ own'[a][q] = own[a][q]
      BY <2>12, <3>2 DEF OwnRight
    <3>3. CASE job # JobFor(s, q) /\ own'[a][q] # own[a][q]
      <4>1. q = o /\ own'[a][o] = v /\ own[a][o] # v
        BY <1>3, <2>2, <3>3
      <4>2. q = "pdb"
        BY <1>7, <2>2, <4>1 DEF Watched
      <4>3. 1 \in DOMAIN p /\ p[1] = job
        BY <2>4, <2>6
      <4>4. job.obj = "pdb"
        BY <2>6, <4>1, <4>2
      <4>5. job = JobFor(s, "pdb")
        BY <2>5, <4>3, <4>4 DEF PlanCovers
      <4> QED
        BY <3>3, <4>2, <4>5
    <3> QED
      BY <3>1, <3>2, <3>3
  <2>13. ASSUME NEW q \in Shared, SharedRight(a, s, q) \/ job = JobFor(s, q)
         PROVE  SharedRight(a, s, q)'
    <3>1. CASE SharedRight(a, s, q)
      BY <2>2, <3>1 DEF SharedRight
    <3>2. CASE job = JobFor(s, q)
      <4>1. q = o /\ shared'[q] = v
        <5>1. q = o
          BY <2>11, <3>2
        <5> QED
          BY <1>7, <2>2, <5>1
      <4>2. IF q \in WantedShared(s) THEN job = Ensure(o) ELSE job = Delete(o)
        BY <3>2, <4>1, JobForFacts
      <4> QED
        BY <2>10, <4>1, <4>2 DEF SharedRight
    <3> QED
      BY <2>13, <3>1, <3>2
  <2>14. ASSUME NEW k \in Kind, KindRight(a, s, k) \/ job = JobFor(s, k)
         PROVE  KindRight(a, s, k)'
    <3>1. job # JobFor(s, k)
      BY <2>8, <2>11
    <3> QED
      BY <2>14, <3>1 DEF KindRight
  <2>15. PlanCovers(a, s, Tail(p))'
    BY <2>4, <2>5, <2>6, <2>9, <2>12, <2>13, <2>14, TailCovers
  <2> QED
    BY <2>4, <2>15
<1> QED
  BY <1>9, <1>10, HeardKeeps DEF QuietInv

(* A workload that is written without a change is right.                   *)
LEMMA QuietWrite ==
    ASSUME TypeOK, QuietInv, WriteWorkload
    PROVE  QuietInv'
<1> DEFINE k == Job.obj
           w == workload[round.of][k]
<1>1. /\ InRound /\ k \in Kind /\ Done /\ UNCHANGED <<cr, own, shared>>
  BY DEF WriteWorkload
<1>2. /\ round \in Rounds /\ round.plan \in Seq(Jobs) /\ round.of \in Aggregator
      /\ round.spec \in Specs /\ Job \in Jobs
  BY <1>1, JobAtHand
<1>3. round # Idle /\ round.plan # <<>>
  BY <1>1 DEF InRound
<1>4. /\ round' # Idle /\ round'.plan = Tail(round.plan)
      /\ round'.of = round.of /\ round'.spec = round.spec
      /\ round'.deletion = round.deletion /\ round'.rest = round.rest
      /\ round'.orphans = round.orphans /\ round'.request = round.request
  BY <1>1, DoneChange
<1>5. /\ queue \subseteq queue'
      /\ \A b \in waiting : b \in waiting' \/ b \in queue'
  BY DEF WriteWorkload, Request
<1>6. \A b \in Aggregator : b # round.of => workload'[b] = workload[b]
  BY <1>2 DEF WriteWorkload, TypeOK
<1>7. Heard
  BY <1>1, <1>2, <1>3, <1>4, <1>5, <1>6 DEF Heard
<1>8. ASSUME round.of \notin queue', ~Orphan
      PROVE  /\ workload' = workload
             /\ Job.op = "delete" => w = Absent
             /\ Job.op = "ensure" => /\ w # Absent
                                     /\ ReplicasOf(round.spec) # 0 => w.replicas = round.spec.replicas
  <2> DEFINE v == IF Job.op = "delete" THEN Absent
                  ELSE IF w = Absent THEN Fresh(round.spec) ELSE Update(w, round.spec)
  <2>1. /\ workload' = [workload EXCEPT ![round.of][k] = v]
        /\ IF v # w THEN Request(round.of) ELSE UNCHANGED <<queue, waiting>>
    BY <1>8 DEF WriteWorkload
  <2>2. v = w
    BY <1>8, <2>1 DEF Request
  <2>3. workload' = workload
    <3> HIDE DEF v, k
    <3>1. k \in Kind /\ w = workload[round.of][k]
      BY <1>1 DEF k
    <3> HIDE DEF w
    <3> QED
      BY <1>2, <2>1, <2>2, <3>1 DEF TypeOK
  <2>4. w \in [replicas : Nat, size : Nat]
    BY <1>1, <1>2 DEF TypeOK
  <2>5. ASSUME Job.op = "ensure"
        PROVE  /\ w # Absent
               /\ ReplicasOf(round.spec) # 0 => w.replicas = round.spec.replicas
    <3>1. Fresh(round.spec) # Absent
      BY <1>2, <2>4, WorkloadType
    <3>2. w # Absent
      BY <2>2, <2>5, <3>1
    <3>3. w = Update(w, round.spec)
      BY <2>2, <2>5, <3>2
    <3>4. ReplicasOf(round.spec) # 0 => Update(w, round.spec).replicas = round.spec.replicas
      BY DEF Update, ReplicasOf
    <3> QED
      BY <3>2, <3>3, <3>4
  <2> QED
    BY <2>2, <2>3, <2>5
<1>9. Covered'
  <2> SUFFICES ASSUME NEW a \in Aggregator, NEW s \in Specs, NEW r \in Seq(Jobs),
                      round' # Idle, round'.of = a, round'.spec = s, round'.plan = r,
                      Live(a)', a \notin queue', ByName \notin queue'
               PROVE  PlanCovers(a, s, r)'
    BY DEF Covered
  <2>1. PICK p \in Seq(Jobs), job \in Jobs : p = round.plan /\ job = Job
    BY <1>2
  <2>2. /\ round.of = a /\ round.spec = s /\ a \notin queue /\ ByName \notin queue /\ Live(a)
    BY <1>1, <1>4, <1>5 DEF Live
  <2>3. ~round.deletion /\ ~Orphan
    BY <1>3, <2>2 DEF QuietInv, OfCurrent, Orphan
  <2>4. r = Tail(p) /\ p # <<>> /\ Head(p) = job
    BY <1>3, <1>4, <2>1 DEF Job
  <2>5. PlanCovers(a, s, p)
    BY <1>3, <2>1, <2>2 DEF QuietInv, Covered
  <2>6. PICK x \in Kind : x = k
    BY <1>1
  <2>7. job = Ensure(x) \/ job = Delete(x)
    BY <2>1, <2>6, JobFacts
  <2>8. /\ Own \cap Kind = {} /\ Shared \cap Kind = {} /\ "services" \notin Kind
    BY WantedFacts DEF Kind
  <2>9. job # Ensure("services")
    BY <2>7, <2>8, JobFacts
  <2>10. \A q \in Own \cup Shared \cup Kind : job = JobFor(s, q) => q = x
    BY <2>7, JobFacts DEF JobFor
  <2>11. /\ workload' = workload
         /\ job = Delete(x) => workload[a][x] = Absent
         /\ job = Ensure(x) => /\ workload[a][x] # Absent
                               /\ ReplicasOf(s) # 0 => workload[a][x].replicas = s.replicas
    BY <1>8, <2>1, <2>2, <2>3, <2>6, JobFacts
  <2>12. \A q \in Own : OwnRight(a, s, q) \/ job = JobFor(s, q) => OwnRight(a, s, q)'
    BY <1>1, <2>8, <2>10 DEF OwnRight
  <2>13. \A q \in Shared : SharedRight(a, s, q) \/ job = JobFor(s, q) => SharedRight(a, s, q)'
    BY <1>1, <2>8, <2>10 DEF SharedRight
  <2>14. ASSUME NEW q \in Kind, KindRight(a, s, q) \/ job = JobFor(s, q)
         PROVE  KindRight(a, s, q)'
    <3>1. CASE KindRight(a, s, q)
      BY <2>11, <3>1 DEF KindRight
    <3>2. CASE job = JobFor(s, q)
      <4>1. q = x
        BY <2>10, <3>2
      <4>2. IF q = KindOf(s) THEN job = Ensure(x) ELSE job = Delete(x)
        BY <3>2, <4>1, JobForFacts
      <4> QED
        BY <2>11, <4>1, <4>2 DEF KindRight
    <3> QED
      BY <2>14, <3>1, <3>2
  <2>15. PlanCovers(a, s, Tail(p))'
    BY <2>4, <2>5, <2>9, <2>12, <2>13, <2>14, TailCovers
  <2> QED
    BY <2>4, <2>15
<1> QED
  BY <1>7, <1>9, HeardKeeps DEF QuietInv

(* A round that goes on with the next aggregator: those that are ahead of  *)
(* it stay ahead, and the next has a plan with all that is not right.      *)
LEMMA QuietContinue ==
    ASSUME TypeOK, NEW r \in Aggregator \cup {ByName},
           NEW rest \in SUBSET (Aggregator \X Specs), Continue(r, rest), rest # {} => r = ByName,
           UNCHANGED <<cr, own, shared, workload>>,
           \A x \in rest : Live(x[1]) /\ x[1] \notin queue' =>
               x[2] = cr[x[1]].spec /\ x[1] \notin round.orphans
    PROVE  /\ OfCurrent' /\ RestCurrent' /\ Requested' /\ Covered'
           /\ \A a \in Aggregator, s \in Specs : <<a, s>> \in rest => Ahead(a)'
<1>1. CASE rest = {}
  <2>1. round' = Idle /\ Idle.rest = {}
    BY <1>1 DEF Continue, Idle
  <2> QED
    BY <1>1, <2>1 DEF OfCurrent, RestCurrent, Requested, Covered
<1>2. CASE rest # {}
  <2>1. PICK x \in rest :
           /\ x[1] \in Aggregator /\ x[2] \in Specs /\ round' # Idle
           /\ round'.of = x[1] /\ round'.spec = x[2] /\ round'.deletion = FALSE
           /\ round'.rest = rest \ {x} /\ round'.orphans = round.orphans
           /\ round'.plan = EnsurePlan(x[1], x[2])
    BY <1>2, ContinueFacts
  <2>2. round'.request = ByName
    BY <1>2, <2>1, ContinueRequest
  <2>3. OfCurrent'
    BY <2>1 DEF OfCurrent, Live
  <2>4. RestCurrent'
    BY <2>1 DEF RestCurrent, Live
  <2>5. Requested'
    BY <2>1, <2>2 DEF Requested
  <2>6. Covered'
    <3> SUFFICES ASSUME NEW a \in Aggregator, NEW s \in Specs, NEW p \in Seq(Jobs),
                        round'.of = a, round'.spec = s, round'.plan = p
                 PROVE  PlanCovers(a, s, p)'
      BY DEF Covered
    <3>1. PlanCovers(a, s, p)
      BY <2>1, NewPlanCovers
    <3> QED
      BY <3>1, SameCovers
  <2>7. ASSUME NEW a \in Aggregator, NEW s \in Specs, <<a, s>> \in rest
        PROVE  Ahead(a)'
    <3>1. CASE x = <<a, s>>
      BY <2>1, <3>1 DEF Ahead
    <3>2. CASE x # <<a, s>>
      BY <2>1, <2>7, <3>2 DEF Ahead
    <3> QED
      BY <3>1, <3>2
  <2> QED
    BY <2>3, <2>4, <2>5, <2>6, <2>7
<1> QED
  BY <1>1, <1>2

LEMMA QuietOperator ==
    ASSUME TypeOK, QuietInv, Step \/ Start \/ FailRound \/ Restart
    PROVE  QuietInv'
<1>1. ASSUME EnsureObject
      PROVE  QuietInv'
  <2> DEFINE o == Job.obj
             v == IF Orphan /\ o \in Own THEN None ELSE Content(round.of, round.spec, o)
  <2>1. /\ InRound /\ Job.op = "ensure" /\ o \in Own \cup Shared /\ Put(o, v) /\ Done
        /\ UNCHANGED <<cr, workload>>
    BY <1>1 DEF EnsureObject
  <2>2. /\ round' # Idle /\ round'.plan = Tail(round.plan)
        /\ round'.of = round.of /\ round'.spec = round.spec
        /\ round'.deletion = round.deletion /\ round'.rest = round.rest
        /\ round'.orphans = round.orphans /\ round'.request = round.request
    BY <2>1, DoneChange
  <2> QED
    BY <2>1, <2>2, QuietPut
<1>2. ASSUME ListServices
      PROVE  QuietInv'
  <2>1. /\ InRound /\ Job = Ensure("services")
        /\ UNCHANGED <<cr, own, shared, workload, queue, waiting>>
    BY <1>2 DEF ListServices, objects, history
  <2>2. /\ round' # Idle
        /\ round'.plan = EnsureServices(round.of, round.spec) \o Tail(round.plan)
        /\ round'.of = round.of /\ round'.spec = round.spec
        /\ round'.deletion = round.deletion /\ round'.rest = round.rest
        /\ round'.orphans = round.orphans /\ round'.request = round.request
    BY <1>2, ListChange
  <2>3. round # Idle /\ round.plan # <<>> /\ round.plan \in Seq(Jobs)
    BY <2>1, JobAtHand DEF InRound
  <2>4. Heard
    BY <2>1, <2>2, <2>3 DEF Heard
  <2>5. Covered'
    <3> SUFFICES ASSUME NEW a \in Aggregator, NEW s \in Specs, NEW r \in Seq(Jobs),
                        round' # Idle, round'.of = a, round'.spec = s, round'.plan = r,
                        Live(a)', a \notin queue', ByName \notin queue'
                 PROVE  PlanCovers(a, s, r)'
      BY DEF Covered
    <3>1. PICK p \in Seq(Jobs) : p = round.plan
      BY <2>3
    <3>2. PlanCovers(a, s, p)
      BY <2>1, <2>2, <2>3, <3>1 DEF QuietInv, Covered, Live
    <3>3. Head(p) = Ensure("services") /\ p # <<>> /\ r = EnsureServices(a, s) \o Tail(p)
      BY <2>1, <2>2, <2>3, <3>1 DEF Job
    <3>4. PlanCovers(a, s, r)
      BY <3>2, <3>3, ListingCovers
    <3> QED
      BY <2>1, <3>4, SameCovers
  <2> QED
    BY <2>4, <2>5, HeardKeeps DEF QuietInv
<1>3. ASSUME DeleteObject
      PROVE  QuietInv'
  <2> DEFINE o == Job.obj
  <2>1. /\ InRound /\ Job.op = "delete" /\ o \in Own \cup Shared /\ Put(o, None)
        /\ UNCHANGED <<cr, workload>>
        /\ \/ round.deletion /\ round' = [round EXCEPT !.plan = DeleteAll(<<"finalizer">>)]
           \/ Done
    BY <1>3 DEF DeleteObject
  <2>2. /\ round' # Idle
        /\ round'.of = round.of /\ round'.spec = round.spec
        /\ round'.deletion = round.deletion /\ round'.rest = round.rest
        /\ round'.orphans = round.orphans /\ round'.request = round.request
        /\ ~round.deletion => round'.plan = Tail(round.plan)
    <3>1. CASE Done
      BY <2>1, <3>1, DoneChange
    <3>2. CASE round.deletion /\ round' = [round EXCEPT !.plan = DeleteAll(<<"finalizer">>)]
      BY <2>1, <3>2, PlanChange, DeletePlanFacts
    <3> QED
      BY <2>1, <3>1, <3>2
  <2> QED
    BY <2>1, <2>2, QuietPut
<1>4. ASSUME WriteWorkload
      PROVE  QuietInv'
  BY <1>4, QuietWrite
<1>5. ASSUME RemoveFinalizer
      PROVE  QuietInv'
  <2>1. /\ InRound /\ Done /\ Request(round.of) /\ round.of \in Aggregator
        /\ cr' = [cr EXCEPT ![round.of] = Gone]
        /\ own' = [own EXCEPT ![round.of] = [o \in Own |-> None]]
        /\ workload' = [workload EXCEPT ![round.of] = Nothing]
        /\ UNCHANGED shared
    BY <1>5, JobAtHand DEF RemoveFinalizer
  <2>2. /\ round # Idle /\ round' # Idle
        /\ round'.of = round.of /\ round'.spec = round.spec
        /\ round'.deletion = round.deletion /\ round'.rest = round.rest
        /\ round'.orphans = round.orphans /\ round'.request = round.request
    BY <2>1, DoneChange DEF InRound
  <2>3. \A b \in Aggregator \ {round.of} :
           cr'[b] = cr[b] /\ own'[b] = own[b] /\ workload'[b] = workload[b]
    BY <2>1 DEF TypeOK
  <2>4. queue' = queue \cup {round.of} /\ waiting' = waiting \ {round.of}
    BY <2>1 DEF Request
  <2>5. Heard
    BY <2>1, <2>2, <2>3, <2>4 DEF Heard
  <2>6. Covered'
    BY <2>2, <2>4 DEF Covered
  <2> QED
    BY <2>5, <2>6, HeardKeeps DEF QuietInv
<1>6. ASSUME FinishRound
      PROVE  QuietInv'
  <2>1. /\ round # Idle /\ round.plan = <<>> /\ Continue(round.request, round.rest)
        /\ UNCHANGED <<cr, own, shared, workload, queue, waiting>>
    BY <1>6 DEF FinishRound, objects, history
  <2>2. /\ round.request \in Aggregator \cup {ByName} /\ round.of \in Aggregator
        /\ round.rest \in SUBSET (Aggregator \X Specs) /\ round.spec \in Specs
    BY <2>1 DEF TypeOK, Rounds
  <2>3. /\ OfCurrent' /\ RestCurrent' /\ Requested' /\ Covered'
        /\ \A a \in Aggregator, s \in Specs : <<a, s>> \in round.rest => Ahead(a)'
    BY <2>1, <2>2, QuietContinue DEF QuietInv, RestCurrent, Requested
  <2>4. OthersRight'
    <3> SUFFICES ASSUME NEW a \in Aggregator, Live(a)', a \notin waiting', ~Ahead(a)',
                        a \notin queue', ByName \notin queue'
                 PROVE  AsWanted(a)'
      BY DEF OthersRight
    <3>1. Live(a) /\ a \notin waiting /\ a \notin queue /\ ByName \notin queue
      BY <2>1 DEF Live
    <3>2. AsWanted(a)
      <4>1. CASE Ahead(a)
        <5>1. round.of = a
          BY <2>3, <4>1 DEF Ahead
        <5>2. round.spec = cr[a].spec
          BY <2>1, <3>1, <5>1 DEF QuietInv, OfCurrent
        <5>3. PlanCovers(a, round.spec, <<>>)
          <6>1. <<>> \in Seq(Jobs)
            OBVIOUS
          <6> QED
            BY <2>1, <2>2, <3>1, <5>1, <6>1 DEF QuietInv, Covered
        <5> QED
          BY <5>2, <5>3, NothingToDo
      <4>2. CASE ~Ahead(a)
        BY <3>1, <4>2 DEF QuietInv, OthersRight
      <4> QED
        BY <4>1, <4>2
    <3> QED
      BY <2>1, <3>2 DEF AsWanted
  <2> QED
    BY <2>3, <2>4 DEF QuietInv
<1>7. ASSUME NEW a \in Aggregator, AddFinalizer(a)
      PROVE  QuietInv'
  <2>1. /\ round = Idle /\ round' = Idle /\ queue' = queue \ {a}
        /\ cr' = [cr EXCEPT ![a].finalizer = TRUE] /\ waiting' = waiting \cup {a}
        /\ UNCHANGED <<own, shared, workload>>
    BY <1>7 DEF AddFinalizer, Take, objects
  <2>2. a # ByName /\ Idle.rest = {} /\ \A b \in Aggregator \ {a} : cr'[b] = cr[b]
    BY <2>1, ObjectsAssumption DEF TypeOK, Idle
  <2>3. OfCurrent' /\ RestCurrent' /\ Requested' /\ Covered'
    BY <2>1, <2>2 DEF OfCurrent, RestCurrent, Requested, Covered
  <2>4. OthersRight'
    <3> SUFFICES ASSUME NEW b \in Aggregator, Live(b)', b \notin waiting',
                        b \notin queue', ByName \notin queue'
                 PROVE  AsWanted(b)'
      BY DEF OthersRight
    <3>1. b # a /\ cr'[b] = cr[b]
      BY <2>1, <2>2
    <3>2. AsWanted(b)
      BY <2>1, <2>2, <3>1 DEF QuietInv, OthersRight, Live, Ahead
    <3> QED
      BY <2>1, <3>1, <3>2 DEF AsWanted
  <2> QED
    BY <2>3, <2>4 DEF QuietInv
<1>8. ASSUME NEW a \in Aggregator, StartRound(a)
      PROVE  QuietInv'
  <2>1. /\ round = Idle /\ queue' = queue \ {a} /\ waiting' = waiting \ {a}
        /\ UNCHANGED <<cr, own, shared, workload>> /\ a # ByName
    BY <1>8, ObjectsAssumption DEF StartRound, Take, objects
  <2>2. CASE ~cr[a].there
    <3>1. round' = Idle /\ Idle.rest = {}
      BY <1>8, <2>2 DEF StartRound, Idle
    <3>2. OfCurrent' /\ RestCurrent' /\ Requested' /\ Covered'
      BY <3>1 DEF OfCurrent, RestCurrent, Requested, Covered
    <3>3. OthersRight'
      BY <2>1, <2>2 DEF QuietInv, OthersRight, Live, Ahead, AsWanted
    <3> QED
      BY <3>2, <3>3 DEF QuietInv
  <2>3. CASE cr[a].there
    <3>1. round' # Idle
      BY <1>8, <2>3, CrFacts, NewRound DEF StartRound
    <3>2. /\ round'.of = a /\ round'.spec = cr[a].spec /\ round'.request = a
          /\ round'.deletion = cr[a].deleting
          /\ round'.rest = {} /\ round'.orphans = {}
          /\ round'.plan = IF cr[a].deleting THEN DeletePlan ELSE EnsurePlan(a, cr[a].spec)
      BY <1>8, <3>1, StartFacts
    <3>3. OfCurrent' /\ RestCurrent' /\ Requested'
      BY <2>1, <3>1, <3>2 DEF OfCurrent, RestCurrent, Requested, Live
    <3>4. Covered'
      <4> SUFFICES ASSUME NEW b \in Aggregator, NEW s \in Specs, NEW p \in Seq(Jobs),
                          round'.of = b, round'.spec = s, round'.plan = p, Live(b)'
                   PROVE  PlanCovers(b, s, p)'
        BY DEF Covered
      <4>1. p = EnsurePlan(b, s)
        BY <2>1, <3>2 DEF Live
      <4>2. PlanCovers(b, s, p)
        BY <4>1, NewPlanCovers
      <4> QED
        BY <2>1, <4>2, SameCovers
    <3>5. OthersRight'
      <4> SUFFICES ASSUME NEW b \in Aggregator, Live(b)', b \notin waiting', ~Ahead(b)',
                          b \notin queue', ByName \notin queue'
                   PROVE  AsWanted(b)'
        BY DEF OthersRight
      <4>1. b # a
        BY <3>1, <3>2 DEF Ahead
      <4>2. AsWanted(b)
        BY <2>1, <4>1 DEF QuietInv, OthersRight, Live, Ahead
      <4> QED
        BY <2>1, <4>2 DEF AsWanted
    <3> QED
      BY <3>3, <3>4, <3>5 DEF QuietInv
  <2> QED
    BY <2>2, <2>3
<1>9. ASSUME StartNamedRound
      PROVE  QuietInv'
  <2> DEFINE rest == {<<a, cr[a].spec>> : a \in {b \in Aggregator : Live(b)}}
  <2>1. /\ Continue(ByName, rest) /\ round = Idle /\ round.orphans = {}
        /\ UNCHANGED <<cr, own, shared, workload, waiting>>
    BY <1>9, RoundFacts DEF StartNamedRound, Take, objects, history
  <2>2. /\ rest \in SUBSET (Aggregator \X Specs)
        /\ \A x \in rest : x[2] = cr[x[1]].spec
        /\ \A a \in Aggregator : Live(a) => cr[a].spec \in Specs /\ <<a, cr[a].spec>> \in rest
    BY CrFacts
  <2> HIDE DEF rest
  <2>3. /\ OfCurrent' /\ RestCurrent' /\ Requested' /\ Covered'
        /\ \A a \in Aggregator, s \in Specs : <<a, s>> \in rest => Ahead(a)'
    BY <2>1, <2>2, QuietContinue
  <2>4. OthersRight'
    BY <2>1, <2>2, <2>3 DEF OthersRight, Live
  <2> QED
    BY <2>3, <2>4 DEF QuietInv
<1>10. ASSUME FailRound
       PROVE  QuietInv'
  <2>1. /\ round # Idle /\ round' = Idle /\ Idle.rest = {} /\ Request(round.request)
        /\ UNCHANGED <<cr, own, shared, workload>>
    BY <1>10 DEF FailRound, InRound, Abandon, objects, Idle
  <2>2. OfCurrent' /\ RestCurrent' /\ Requested' /\ Covered'
    BY <2>1 DEF OfCurrent, RestCurrent, Requested, Covered
  <2>3. OthersRight'
    <3> SUFFICES ASSUME NEW a \in Aggregator, Live(a)', a \notin waiting',
                        a \notin queue', ByName \notin queue'
                 PROVE  AsWanted(a)'
      BY DEF OthersRight
    <3>1. queue' = queue \cup {round.request} /\ waiting' = waiting \ {round.request}
      BY <2>1 DEF Request
    <3>2. round.request = round.of /\ round.rest = {}
      BY <2>1, <3>1 DEF QuietInv, Requested
    <3>3. ~Ahead(a) /\ a \notin waiting
      BY <3>1, <3>2 DEF Ahead
    <3>4. AsWanted(a)
      BY <2>1, <3>1, <3>3 DEF QuietInv, OthersRight, Live
    <3> QED
      BY <2>1, <3>4 DEF AsWanted
  <2> QED
    BY <2>2, <2>3 DEF QuietInv
<1>11. ASSUME Restart
       PROVE  QuietInv'
  <2>1. /\ round' = Idle /\ Idle.rest = {} /\ cr' = cr
        /\ \A a \in Aggregator : cr[a].there => a \in queue'
    BY <1>11 DEF Restart, Idle
  <2>2. OfCurrent' /\ RestCurrent' /\ Requested' /\ Covered' /\ OthersRight'
    BY <2>1 DEF OfCurrent, RestCurrent, Requested, Covered, OthersRight, Live
  <2> QED
    BY <2>2 DEF QuietInv
<1> QED
  BY <1>1, <1>2, <1>3, <1>4, <1>5, <1>6, <1>7, <1>8, <1>9, <1>10, <1>11 DEF Step, Start

(* The operator never stops half way: when it has no request and no round  *)
(* left, every aggregator that is there and has been asked for since its   *)
(* finalizer was added has exactly the objects its spec asks for, whatever *)
(* was edited, tampered with or restarted in whatever round, and also      *)
(* while it shares the cluster-wide objects with namesakes                 *)
(* (EnsureVectorAggregator).  It is the half of Converges that needs no    *)
(* fairness.  SetupWithManager does not watch disruption budgets, so one   *)
(* that a user deletes would not come back by itself.                      *)
THEOREM RestsOnlyWhenWanted == "pdb" \notin Fragile => (Spec => []NeverStuck)
<1> SUFFICES ASSUME "pdb" \notin Fragile PROVE Spec => []NeverStuck
  OBVIOUS
<1>1. Init => QuietInv
  <2> SUFFICES ASSUME Init PROVE QuietInv
    OBVIOUS
  <2>1. /\ round = Idle /\ Idle.rest = {} /\ \A a \in Aggregator : ~cr[a].there
    BY DEF Init, Idle, Gone
  <2> QED
    BY <2>1 DEF QuietInv, OfCurrent, RestCurrent, Requested, Covered, OthersRight, Live
<1>2. TypeOK /\ QuietInv /\ [Next]_vars => QuietInv'
  <2> SUFFICES ASSUME TypeOK, QuietInv, [Next]_vars PROVE QuietInv'
    OBVIOUS
  <2>1. ASSUME UNCHANGED vars PROVE QuietInv'
    <3>1. UNCHANGED <<cr, own, shared, workload, queue, round, waiting>>
      BY <2>1 DEF vars, objects, history
    <3>2. Heard
      BY <3>1 DEF Heard
    <3> QED
      BY <3>1, <3>2, UnheardStays
  <2> QED
    BY <2>1, QuietUsers, QuietOperator DEF Next, Rest
<1>3. QuietInv => NeverStuck
  BY ObjectsAssumption DEF QuietInv, OthersRight, NeverStuck, AtRest, Ahead
<1> QED
  BY <1>1, <1>2, <1>3, TypeCorrect, PTL DEF Spec

=============================================================================
