-------------------------- MODULE AggregatorObjects --------------------------
(***************************************************************************)
(* The objects the operator keeps for a VectorAggregator beside its        *)
(* configuration: the workload's replicas and claims, RBAC, Services, the  *)
(* PodMonitor, the event collector, the autoscaler and the disruption      *)
(* budget (EnsureVectorAggregator, internal/vector/aggregator), written    *)
(* through CreateOrUpdateResource (internal/utils/k8s), and the life of    *)
(* the VectorAggregator from its finalizer to its deletion                 *)
(* (internal/controller/vectoraggregator_controller.go).                   *)
(*                                                                         *)
(* Cluster-wide objects are named after the aggregator without its         *)
(* namespace, so the module is about the aggregators of one name.  They    *)
(* cannot be garbage-collected, the others are, with their owner.          *)
(***************************************************************************)
EXTENDS Naturals, Sequences

CONSTANTS
    Aggregator,  \* VectorAggregators of one name, in different namespaces
    Specs,       \* the specs users give them, their pipelines included
    Fragile,     \* objects that users may delete
    MaxEdits,    \* bound: what users and the autoscaler do
    MaxFaults    \* bound: failed requests and restarts

VARIABLES
    cr,        \* cr[a]: the VectorAggregator
    own,       \* own[a][o]: an object in the aggregator's namespace
    shared,    \* shared[o]: a cluster-wide object
    workload,  \* workload[a][k]: its workload of kind k
    queue,     \* requests: an aggregator, or ByName from a cluster-wide object
    round,     \* the reconcile in progress
    waiting,   \* history: got the finalizer and no request since
    excused,   \* history: a path of the code that leaves objects behind
    edits, faults

objects == <<own, shared, workload>>
history == <<waiting, excused>>
vars == <<cr, objects, queue, round, history, edits, faults>>

-----------------------------------------------------------------------------

None == "none"

Kind == {"Deployment", "StatefulSet"}

Absent == [replicas |-> 0, size |-> 0]

ByName == "by name"

Service == {"service", "headless"}

Collector == {"collector-config", "collector-account", "collector-service", "collector"}

Own == {"account", "podmonitor", "hpa", "pdb"} \cup Service \cup Collector

Shared == {"role", "binding", "collector-role", "collector-binding"}

Spec_ == [sources : BOOLEAN, size : Nat, metrics : BOOLEAN, events : BOOLEAN,
          autoscaling : BOOLEAN, replicas : Nat, maxReplicas : Nat, budget : BOOLEAN]

ASSUME ObjectsAssumption ==
    /\ Specs \subseteq Spec_ /\ Fragile \subseteq Own \cup Shared
    /\ MaxEdits \in Nat /\ MaxFaults \in Nat
    /\ Aggregator \cap {None, ByName} = {}

(* persistenceEnabled; a size of zero stands for no claim.                 *)
KindOf(s) == IF s.size = 0 THEN "Deployment" ELSE "StatefulSet"

OtherKind(s) == IF s.size = 0 THEN "StatefulSet" ELSE "Deployment"

(* ensureVectorAggregatorPodDisruptionBudget: an unset replica count, 0    *)
(* here, is one replica.                                                   *)
BudgetWanted(s) ==
    s.budget /\ (IF s.autoscaling THEN s.maxReplicas ELSE s.replicas) > 1

(* What each create function puts into its object, as far as two specs     *)
(* differ in it: the autoscaler its target, a binding its subject.  The    *)
(* receivers and ports, which the code lists in the order of a map, count  *)
(* as equal however they are ordered.                                      *)
Content(a, s, o) ==
    CASE o = "hpa" -> KindOf(s)
      [] o \in {"binding", "collector-binding"} -> a
      [] OTHER -> "set"

(* createVectorAggregatorServices.                                         *)
ServicesOf(s) ==
    {o \in Service : IF o = "service" THEN s.sources ELSE KindOf(s) = "StatefulSet"}

WantedOwn(s) ==
    {"account"} \cup ServicesOf(s)
    \cup (IF s.metrics THEN {"podmonitor"} ELSE {})
    \cup (IF s.events THEN Collector ELSE {})
    \cup (IF s.autoscaling THEN {"hpa"} ELSE {})
    \cup (IF BudgetWanted(s) THEN {"pdb"} ELSE {})

WantedShared(s) ==
    {"role", "binding"} \cup (IF s.events THEN {"collector-role", "collector-binding"} ELSE {})

-----------------------------------------------------------------------------
(* A round is a sequence of requests.                                      *)

Ensure(o) == [op |-> "ensure", obj |-> o]

Delete(o) == [op |-> "delete", obj |-> o]

EnsureAll(os) == [i \in DOMAIN os |-> Ensure(os[i])]

DeleteAll(os) == [i \in DOMAIN os |-> Delete(os[i])]

RBAC == EnsureAll(<<"account", "role", "binding">>)

If(b, os) == IF b THEN os ELSE <<>>

(* Some of the Services, in the order of createVectorAggregatorServices.   *)
Listed(os) == If("service" \in os, <<"service">>) \o If("headless" \in os, <<"headless">>)

(* ensureVectorAggregatorService: the Services it lists under the          *)
(* aggregator's labels and does not want are stale.                        *)
EnsureServices(a, s) ==
    EnsureAll(Listed(ServicesOf(s)))
    \o DeleteAll(Listed({o \in Service \ ServicesOf(s) : own[a][o] # None}))

(* internalMetrics turned off leaves the PodMonitor where it is.           *)
EnsurePodMonitor(s) == EnsureAll(If(s.metrics, <<"podmonitor">>))

(* Plausible bug: the deployment goes last, as it came last.               *)
EnsureCollectorInOrder(s) ==
    LET order == <<"collector-config", "collector-account", "collector-role",
                   "collector-binding", "collector-service", "collector">>
    IN  IF s.events THEN EnsureAll(order) ELSE DeleteAll(order)

(* ensureEventCollector, and cleanupEventCollector in its own order.       *)
EnsureCollector(s) ==
    IF s.events
    THEN EnsureAll(<<"collector-config", "collector-account", "collector-role",
                     "collector-binding", "collector-service", "collector">>)
    ELSE DeleteAll(<<"collector", "collector-service", "collector-binding",
                     "collector-role", "collector-account", "collector-config">>)

EnsureHPA(s) == IF s.autoscaling THEN EnsureAll(<<"hpa">>) ELSE DeleteAll(<<"hpa">>)

EnsureBudget(s) == IF BudgetWanted(s) THEN EnsureAll(<<"pdb">>) ELSE DeleteAll(<<"pdb">>)

(* The workload of the other kind goes if the round saw one.               *)
EnsureWorkload(a, s) ==
    EnsureAll(<<KindOf(s)>>)
    \o DeleteAll(If(workload[a][OtherKind(s)] # Absent, <<OtherKind(s)>>))

(* EnsureVectorAggregator; the Services are listed when their turn comes.  *)
EnsurePlan(a, s) ==
    EnsureWorkload(a, s) \o RBAC \o EnsureAll(<<"services">>) \o EnsurePodMonitor(s)
    \o EnsureCollector(s) \o EnsureHPA(s) \o EnsureBudget(s)

(* Plausible bug: the binding is left to the garbage collector.            *)
DeletePlanRoleOnly == DeleteAll(<<"role", "finalizer">>)

(* DeleteVectorAggregator, then the finalizer.                             *)
DeletePlan == DeleteAll(<<"role", "binding", "finalizer">>)

Idle == [request |-> None, of |-> None, plan |-> <<>>, rest |-> {}, orphans |-> {}]

Jobs ==
    [op : {"ensure", "delete"},
     obj : Own \cup Shared \cup Kind \cup {"services", "finalizer"}]

Rounds ==
    [request : Aggregator \cup {ByName}, of : Aggregator, plan : Seq(Jobs),
     spec : Specs, deletion : BOOLEAN, rest : SUBSET (Aggregator \X Specs),
     orphans : SUBSET Aggregator]

Nothing == [k \in Kind |-> Absent]

Gone == [there |-> FALSE, finalizer |-> FALSE, deleting |-> FALSE]

Live(a) == cr[a].there /\ ~cr[a].deleting

TypeOK ==
    /\ cr \in [Aggregator -> {Gone} \cup [there : {TRUE}, finalizer : BOOLEAN,
                                          deleting : BOOLEAN, spec : Specs]]
    /\ \A a \in Aggregator : cr[a].deleting => cr[a].finalizer
    /\ workload \in [Aggregator -> [Kind -> [replicas : Nat, size : Nat]]]
    /\ own \in [Aggregator -> [Own -> {None, "set", "Deployment", "StatefulSet"}]]
    /\ shared \in [Shared -> Aggregator \cup {None, "set"}]
    /\ queue \subseteq Aggregator \cup {ByName}
    /\ round = Idle \/ round \in Rounds
    /\ waiting \subseteq Aggregator /\ excused \in BOOLEAN
    /\ edits \in 0..MaxEdits /\ faults \in 0..MaxFaults

Init ==
    /\ cr = [a \in Aggregator |-> Gone]
    /\ own = [a \in Aggregator |-> [o \in Own |-> None]]
    /\ shared = [o \in Shared |-> None]
    /\ workload = [a \in Aggregator |-> Nothing]
    /\ queue = {}
    /\ round = Idle
    /\ waiting = {} /\ excused = FALSE
    /\ edits = 0 /\ faults = 0

-----------------------------------------------------------------------------
(* The users and the cluster.                                              *)

Request(r) ==
    /\ queue' = queue \cup {r}
    /\ waiting' = waiting \ {r}

UserStep == edits < MaxEdits /\ edits' = edits + 1 /\ UNCHANGED faults

Create(a, s) ==
    /\ UserStep
    /\ ~cr[a].there
    /\ cr' = [cr EXCEPT ![a] = [there |-> TRUE, finalizer |-> FALSE, deleting |-> FALSE, spec |-> s]]
    /\ Request(a)
    /\ UNCHANGED <<round, objects, excused>>

(* An edit of the spec changes the generation; a change of the pipelines   *)
(* comes through the event channel.                                        *)
Edit(a, s) ==
    /\ UserStep
    /\ Live(a) /\ s # cr[a].spec
    /\ cr' = [cr EXCEPT ![a].spec = s]
    /\ Request(a)
    /\ UNCHANGED <<round, objects, excused>>

(* Without a finalizer the object is gone at once, with what it owns in    *)
(* its namespace; with one it waits for the operator.                      *)
Withdraw(a) ==
    /\ UserStep
    /\ Live(a)
    /\ IF cr[a].finalizer
       THEN /\ cr' = [cr EXCEPT ![a].deleting = TRUE]
            /\ UNCHANGED <<objects, round, excused>>
       ELSE /\ cr' = [cr EXCEPT ![a] = Gone]
            /\ own' = [own EXCEPT ![a] = [o \in Own |-> None]]
            /\ workload' = [workload EXCEPT ![a] = Nothing]
            /\ excused' = (excused \/ workload[a] # Nothing)
            /\ round' = [round EXCEPT !.orphans = IF round = Idle THEN {} ELSE @ \cup {a}]
            /\ UNCHANGED shared
    /\ Request(a)

Watched(o) == o # "pdb"

(* A watched object that goes away is reported to the controller.          *)
Tamper(a, o) ==
    /\ UserStep
    /\ o \in Fragile
    /\ IF o \in Own
       THEN /\ own[a][o] # None
            /\ own' = [own EXCEPT ![a][o] = None]
            /\ IF Watched(o) THEN Request(a) ELSE UNCHANGED <<queue, waiting>>
            /\ UNCHANGED shared
       ELSE /\ shared[o] # None
            /\ shared' = [shared EXCEPT ![o] = None]
            /\ Request(ByName)
            /\ UNCHANGED own
    /\ UNCHANGED <<round, cr, workload, excused>>

(* The autoscaler, within the bounds of its object.                        *)
Scale(a) ==
    /\ UserStep
    /\ Live(a) /\ own[a]["hpa"] # None
    /\ LET k == own[a]["hpa"]
       IN  /\ workload[a][k] # Absent
           /\ \E n \in 1..cr[a].spec.maxReplicas \ {workload[a][k].replicas} :
                workload' = [workload EXCEPT ![a][k].replicas = n]
    /\ Request(a)
    /\ UNCHANGED <<round, cr, own, shared, excused>>

-----------------------------------------------------------------------------
(* Reconcile.                                                              *)

RoundOf(r, a, s, deletion, rest) ==
    [request |-> r, of |-> a, spec |-> s, deletion |-> deletion, rest |-> rest,
     orphans |-> round.orphans,
     plan |-> IF deletion THEN DeletePlan ELSE EnsurePlan(a, s)]

Take(r) == round = Idle /\ r \in queue /\ queue' = queue \ {r}

(* The first round only adds the finalizer.  If the update changes nothing *)
(* of the spec, it changes no generation and does not queue the aggregator *)
(* again.  This is the harsher case: an update that also writes zero       *)
(* values which the user left out of the spec is seen.                     *)
AddFinalizer(a) ==
    /\ Take(a)
    /\ Live(a) /\ ~cr[a].finalizer
    /\ cr' = [cr EXCEPT ![a].finalizer = TRUE]
    /\ waiting' = waiting \cup {a}
    /\ UNCHANGED <<objects, round, excused, edits, faults>>

StartRound(a) ==
    /\ Take(a)
    /\ cr[a].there => cr[a].finalizer
    /\ round' = IF cr[a].there THEN RoundOf(a, a, cr[a].spec, cr[a].deleting, {}) ELSE Idle
    /\ waiting' = waiting \ {a}
    /\ UNCHANGED <<cr, objects, excused, edits, faults>>

(* A round for several aggregators goes on with the specs it listed.       *)
Continue(r, rest) ==
    IF rest = {} THEN round' = Idle
    ELSE \E x \in rest : round' = RoundOf(r, x[1], x[2], FALSE, rest \ {x})

(* reconcileVectorAggregators: a request without a namespace is for all    *)
(* aggregators of the name, with or without finalizer.                     *)
StartNamedRound ==
    /\ Take(ByName)
    /\ Continue(ByName, {<<a, cr[a].spec>> : a \in {b \in Aggregator : Live(b)}})
    /\ UNCHANGED <<cr, objects, history, edits, faults>>

InRound == round # Idle /\ round.plan # <<>>

Job == Head(round.plan)

Done == round' = [round EXCEPT !.plan = Tail(@)]

(* A watched object that changes is reported.                              *)
Put(o, v) ==
    IF o \in Shared
    THEN /\ shared' = [shared EXCEPT ![o] = v]
         /\ IF shared[o] # v THEN Request(ByName) ELSE UNCHANGED <<queue, waiting>>
         /\ UNCHANGED own
    ELSE /\ own' = [own EXCEPT ![round.of][o] = v]
         /\ IF own[round.of][o] # v /\ Watched(o) THEN Request(round.of)
            ELSE UNCHANGED <<queue, waiting>>
         /\ UNCHANGED shared

(* What is created for an owner that went during the round goes too, if    *)
(* it can, even when the owner has come again: it has another identity.    *)
Orphan == round.of \in round.orphans

(* createOrUpdate... of the objects beside the workload.                   *)
EnsureObject ==
    /\ InRound /\ Job.op = "ensure" /\ Job.obj \in Own \cup Shared
    /\ Put(Job.obj, IF Orphan /\ Job.obj \in Own THEN None
                    ELSE Content(round.of, round.spec, Job.obj))
    /\ Done
    /\ excused' = (excused \/ Orphan)
    /\ UNCHANGED <<cr, workload, edits, faults>>

ListServices ==
    /\ InRound /\ Job = Ensure("services")
    /\ round' = [round EXCEPT !.plan = EnsureServices(round.of, round.spec) \o Tail(@)]
    /\ UNCHANGED <<cr, objects, queue, history, edits, faults>>

(* Nothing to delete is an error for a stale Service only.                 *)
Missing == Job.op = "delete" /\ Job.obj \in Service /\ own[round.of][Job.obj] = None

(* A role that is not there ends DeleteVectorAggregator, and the finalizer *)
(* is next: the binding may stay.                                          *)
DeleteObject ==
    /\ InRound /\ Job.op = "delete" /\ Job.obj \in Own \cup Shared /\ ~Missing
    /\ Put(Job.obj, None)
    /\ IF round.deletion /\ shared[Job.obj] = None
       THEN /\ round' = [round EXCEPT !.plan = DeleteAll(<<"finalizer">>)]
            /\ excused' = (excused \/ shared["binding"] # None)
       ELSE Done /\ UNCHANGED excused
    /\ UNCHANGED <<cr, workload, edits, faults>>

ReplicasOf(s) == IF s.autoscaling THEN 0 ELSE s.replicas

(* The API server's default for a replica count that is not set.           *)
Defaulted(n) == IF n = 0 THEN 1 ELSE n

(* Plausible bug: the update sends the spec as it is wanted, claims and    *)
(* all, which the API server refuses.                                      *)
UpdateWhole(w, s) ==
    [size |-> s.size, replicas |-> IF ReplicasOf(s) = 0 THEN w.replicas ELSE ReplicasOf(s)]

(* Plausible bug: a count that is not set is left to the API server.       *)
UpdateReplicas(w, s) ==
    [size |-> w.size, replicas |-> Defaulted(ReplicasOf(s))]

(* createOrUpdateDeployment and createOrUpdateStatefulSet of a live        *)
(* object: its claims stay, and so does a replica count the spec leaves    *)
(* open.                                                                   *)
Update(w, s) ==
    [size |-> w.size, replicas |-> IF ReplicasOf(s) = 0 THEN w.replicas ELSE ReplicasOf(s)]

Fresh(s) == [size |-> s.size, replicas |-> Defaulted(ReplicasOf(s))]

(* The API server refuses a change of the claims.                          *)
Refused ==
    /\ Job.op = "ensure" /\ Job.obj \in Kind
    /\ LET w == workload[round.of][Job.obj]
       IN  w # Absent /\ Update(w, round.spec).size # w.size

(* The live object is read and updated in one step: an update between the  *)
(* two changes its resourceVersion, and the conflict is a FailRound.       *)
WriteWorkload ==
    /\ InRound /\ Job.obj \in Kind /\ ~Refused
    /\ LET w == workload[round.of][Job.obj]
           v == IF Job.op = "delete" \/ Orphan THEN Absent
                ELSE IF w = Absent THEN Fresh(round.spec) ELSE Update(w, round.spec)
       IN  /\ workload' = [workload EXCEPT ![round.of][Job.obj] = v]
           /\ IF v # w THEN Request(round.of) ELSE UNCHANGED <<queue, waiting>>
    /\ Done
    /\ UNCHANGED <<cr, own, shared, excused, edits, faults>>

(* Plausible bug: the finalizer goes while another one keeps the object.   *)
RemoveFinalizerOnly ==
    /\ InRound /\ Job = Delete("finalizer")
    /\ cr' = [cr EXCEPT ![round.of].finalizer = FALSE]
    /\ Request(round.of)
    /\ Done
    /\ UNCHANGED <<objects, excused, edits, faults>>

(* The aggregator is gone, and the garbage collector follows.              *)
RemoveFinalizer ==
    /\ InRound /\ Job = Delete("finalizer")
    /\ LET a == round.of
       IN  /\ cr' = [cr EXCEPT ![a] = Gone]
           /\ own' = [own EXCEPT ![a] = [o \in Own |-> None]]
           /\ workload' = [workload EXCEPT ![a] = Nothing]
           /\ Request(a)
    /\ Done
    /\ UNCHANGED <<shared, excused, edits, faults>>

FinishRound ==
    /\ round # Idle /\ round.plan = <<>>
    /\ Continue(round.request, round.rest)
    /\ UNCHANGED <<cr, objects, queue, history, edits, faults>>

(* The round ends with an error and its request is queued again.           *)
Abandon ==
    /\ round' = Idle
    /\ Request(round.request)
    /\ UNCHANGED <<cr, objects, excused, edits>>

FailRound ==
    /\ InRound
    /\ IF Missing \/ Refused THEN UNCHANGED faults
       ELSE faults < MaxFaults /\ faults' = faults + 1
    /\ Abandon

(* The process stops and starts again: the informers report every object,  *)
(* the cluster-wide ones too.                                              *)
Restart ==
    /\ faults < MaxFaults
    /\ faults' = faults + 1
    /\ round' = Idle
    /\ queue' = {a \in Aggregator : cr[a].there}
                \cup (IF \E o \in Shared : shared[o] # None THEN {ByName} ELSE {})
    /\ waiting' = {}
    /\ UNCHANGED <<cr, objects, excused, edits>>

-----------------------------------------------------------------------------

Users ==
    \/ \E a \in Aggregator, s \in Specs : Create(a, s) \/ Edit(a, s)
    \/ \E a \in Aggregator : Withdraw(a) \/ Scale(a)
    \/ \E a \in Aggregator, o \in Own \cup Shared : Tamper(a, o)

Step ==
    \/ EnsureObject \/ ListServices \/ DeleteObject \/ WriteWorkload \/ RemoveFinalizer
    \/ FinishRound

Start ==
    \/ \E a \in Aggregator : AddFinalizer(a) \/ StartRound(a)
    \/ StartNamedRound

Quiet == round = Idle /\ queue = {} /\ edits = MaxEdits /\ faults = MaxFaults

(* With nothing queued and no user left, the operator waits.               *)
Rest == Quiet /\ UNCHANGED vars

Next == Users \/ Step \/ Start \/ FailRound \/ Restart \/ Rest

Spec == Init /\ [][Next]_vars

(* The worker runs, and the work queue serves requests in their order.     *)
Fairness ==
    /\ WF_vars(Step) /\ WF_vars(InRound /\ (Missing \/ Refused) /\ FailRound)
    /\ \A a \in Aggregator : SF_vars(AddFinalizer(a) \/ StartRound(a))
    /\ SF_vars(StartNamedRound)

FairSpec == Spec /\ Fairness

-----------------------------------------------------------------------------

(* The collector's Deployment is there only together with the              *)
(* configuration and the account its pods use: both the order in which     *)
(* ensureEventCollector creates and the order in which                     *)
(* cleanupEventCollector deletes see to it, whichever step is the last     *)
(* before an error or a restart.                                           *)
CollectorReady ==
    \A a \in Aggregator :
        own[a]["collector"] # None =>
            own[a]["collector-config"] # None /\ own[a]["collector-account"] # None

(* When the last aggregator of the name goes, no cluster-wide object stays *)
(* but those of the event collector, which DeleteVectorAggregator leaves   *)
(* on the cluster for good, whatever the order of edits, faults and        *)
(* namesakes was: the ClusterRole and the ClusterRoleBinding have gone,    *)
(* unless an aggregator was built before its finalizer or a role was       *)
(* missing when the deletion came (Reconcile).                             *)
OnlyCollectorRBACStays ==
    (~excused /\ \A a \in Aggregator : ~cr[a].there) =>
        \A o \in Shared : shared[o] # None => o \in {"collector-role", "collector-binding"}

(* The replicas of a workload the operator has created are the             *)
(* autoscaler's: a reconcile that runs while autoscaling is on never       *)
(* changes them (aggregatorReplicas and the two createOrUpdate functions). *)
RespectsAutoscaler ==
    [][\A a \in Aggregator, k \in Kind :
        (/\ round # Idle /\ round.of = a /\ round.spec.autoscaling /\ UNCHANGED edits
         /\ workload[a][k] # Absent /\ workload'[a][k] # Absent)
            => workload'[a][k].replicas = workload[a][k].replicas]_vars

AsWanted(a) ==
    LET s == cr[a].spec
    IN  /\ \A o \in Own :
            IF o \in WantedOwn(s) THEN own[a][o] = Content(a, s, o)
            ELSE o = "podmonitor" \/ own[a][o] = None
        /\ \A o \in WantedShared(s) : shared[o] = Content(a, s, o)
        /\ \A k \in Kind : (workload[a][k] # Absent) = (k = KindOf(s))
        /\ ReplicasOf(s) # 0 => workload[a][KindOf(s)].replicas = s.replicas

Alone(a) == Live(a) /\ \A b \in Aggregator \ {a} : ~cr[b].there

(* An aggregator that has the name for itself, and has seen a request      *)
(* since its finalizer was added, ends with exactly the objects its spec   *)
(* asks for: its claims may be refused, its namesakes may have removed the *)
(* cluster-wide objects on their way out, and a restart may have cut a     *)
(* round anywhere (EnsureVectorAggregator as a whole).  What a namesake    *)
(* has left on the cluster goes, too; only a PodMonitor of earlier days    *)
(* may remain.                                                             *)
Converges ==
    \A a \in Aggregator :
        <>[](Alone(a) /\ a \notin waiting =>
                /\ AsWanted(a)
                /\ \A o \in Shared \ WantedShared(cr[a].spec) : shared[o] = None)
=============================================================================
