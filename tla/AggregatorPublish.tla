-------------------------- MODULE AggregatorPublish --------------------------
(***************************************************************************)
(* Publication of an aggregator's configuration:                           *)
(* createOrUpdateVectorAggregator                                          *)
(* (internal/controller/vectoraggregator_controller.go; that of the        *)
(* ClusterVectorAggregator differs in the pipelines it selects) and        *)
(* EnsureVectorAggregator (internal/vector/aggregator).                    *)
(*                                                                         *)
(* There is one assets Secret, but the workload may be a Deployment or,    *)
(* with persistence, a StatefulSet.  A change of persistence writes the    *)
(* new kind before it deletes the old one, so both may be alive, for long  *)
(* if the operator stops in between.                                       *)
(*                                                                         *)
(* Time is relative: every duration is an age that saturates at Grace.     *)
(***************************************************************************)
EXTENDS SecretAssets

CONSTANTS
    Selections,    \* the sets of pipelines the users may arrive at
    Invalid,       \* the pipeline sets whose merged config is rejected
    Persistences,  \* the values spec.persistence may have
    Grace,         \* SecretAssetsPruneGracePeriod
    Latency,       \* bound: ticks between the publish mark and the config write
    MaxEdits,      \* bound: changes of pipelines, values and persistence
    MaxFaults      \* bound: failed requests and crashes

ASSUME AggregatorAssumption ==
    /\ Selections \subseteq SUBSET Pipeline /\ Invalid \subseteq SUBSET Pipeline
    /\ Persistences \subseteq {"off", "on", "invalid"}
    /\ Grace \in Nat /\ Latency \in Nat /\ Grace > Latency
    /\ MaxEdits \in Nat /\ MaxFaults \in Nat

VARIABLES
    wanted,       \* the pipelines that are valid and selected
    values,       \* the current length of every secret value
    persistence,  \* spec.persistence: off, on, or on without a data claim
    assets,       \* Data of the assets Secret
    config,       \* the pipelines the config Secret was built from, or NoConfig
    workload,     \* workload[k]: the pod template of the workload of kind k
    mark,         \* age of status.lastConfigPublishedAt, or NoMark
    cachedMark,   \* the same field as the informer cache shows it
    unused,       \* unused[k]: time since the config last referenced k
    queued,       \* the aggregator is in the work queue
    timer,        \* time left until RequeueAfter expires, or NoTimer
    round,        \* the reconcile in progress
    edits, faults

inputs  == <<wanted, values, persistence>>
cluster == <<assets, config, workload, unused>>
status  == <<mark, cachedMark>>
vars == <<inputs, cluster, status, queued, timer, round, edits, faults>>

-----------------------------------------------------------------------------

NoMark  == -1
NoTimer == -1

Kind == {"Deployment", "StatefulSet"}

(* persistenceEnabled: a data claim is missing only where claims are given. *)
KindOf(p) == IF p = "off" THEN "Deployment" ELSE "StatefulSet"

OtherKind(k) == IF k = "Deployment" THEN "StatefulSet" ELSE "Deployment"

NoConfig == [absent |-> TRUE, pipes |-> {}]

Published(pipes) == [absent |-> FALSE, pipes |-> pipes]

Referenced == KeysOf(config.pipes)

Live == {k \in Kind : workload[k] # "absent"}

(* secretAssetsMountState: losing the mount asks anyMounted, gaining it    *)
(* asks allMounted.                                                        *)
AnyMounted == \E k \in Live : workload[k] = "mounted"

AllMounted == Live # {} /\ \A k \in Live : workload[k] = "mounted"

(* The switch of EnsureVectorAggregator, by what the round will mount.     *)
WriteOrder(data) ==
    IF data # NoData /\ ~AllMounted THEN "gaining"
    ELSE IF data = NoData /\ AnyMounted THEN "losing" ELSE "keeping"

Steps == {"check", "assets", "stamp", "config", "workload", "obsolete", "status"}

Orders == {"gaining", "losing", "keeping"}

NextStep ==
    [gaining |-> [check |-> "assets", assets |-> "workload", workload |-> "obsolete",
                  obsolete |-> "stamp", stamp |-> "config", config |-> "status"],
     losing  |-> [check |-> "stamp", stamp |-> "config", config |-> "workload",
                  workload |-> "obsolete", obsolete |-> "assets", assets |-> "status"],
     keeping |-> [check |-> "assets", assets |-> "stamp", stamp |-> "config",
                  config |-> "workload", workload |-> "obsolete", obsolete |-> "status"]]

Idle == [pc |-> "idle"]

(* stale is a history: the round decided on a mark that was out of date.   *)
Round ==
    [pc : Steps, pipes : SUBSET Pipeline, persistence : Persistences, data : Data,
     publishing : BOOLEAN, order : Orders, obsolete : BOOLEAN, marked : BOOLEAN, stale : BOOLEAN,
     requeue : 0..Grace, late : 0..Latency]

(* generateVectorAggregatorVolume and generateVectorAggregatorVolumeMounts: *)
(* the template mounts the assets iff the round has some.                  *)
Template(data) == IF data = NoData THEN "plain" ELSE "mounted"

(* A namespace without any of the aggregator's objects, or one where a     *)
(* version without the publish mark has published the pipelines in pipes.  *)
NothingPublished ==
    /\ assets = NoData
    /\ config = NoConfig
    /\ workload = [k \in Kind |-> "absent"]
    /\ unused = [k \in Key |-> Grace]

PublishedUnmarked(pipes) ==
    /\ persistence # "invalid" /\ pipes \notin Invalid
    /\ assets = Stage(NoData, values, pipes) /\ Fits(assets)
    /\ config = Published(pipes)
    /\ workload = [k \in Kind |-> IF k = KindOf(persistence) THEN Template(assets)
                                  ELSE "absent"]
    /\ unused = [k \in Key |-> IF k \in KeysOf(pipes) THEN 0 ELSE Grace]

Init ==
    /\ wanted \in Selections
    /\ values \in {f \in [Key -> Length] : \A k \in Key : f[k] \in Lengths[k]}
    /\ persistence \in Persistences
    /\ NothingPublished \/ \E pipes \in Selections : PublishedUnmarked(pipes)
    /\ mark = NoMark
    /\ cachedMark = NoMark
    /\ queued = TRUE
    /\ timer = NoTimer
    /\ round = Idle
    /\ edits = 0
    /\ faults = 0

-----------------------------------------------------------------------------
(* The users.                                                              *)

Edit ==
    /\ edits < MaxEdits
    /\ edits' = edits + 1
    /\ queued' = TRUE
    /\ UNCHANGED <<cluster, status, timer, round, faults>>

ChangePipelines ==
    /\ Edit
    /\ wanted' \in Selections \ {wanted}
    /\ UNCHANGED <<values, persistence>>

RotateValue ==
    /\ Edit
    /\ \E k \in Key : \E s \in Lengths[k] \ {values[k]} : values' = [values EXCEPT ![k] = s]
    /\ UNCHANGED <<wanted, persistence>>

ChangePersistence ==
    /\ Edit
    /\ persistence' \in Persistences \ {persistence}
    /\ UNCHANGED <<wanted, values>>

-----------------------------------------------------------------------------
(* The round.                                                              *)

(* secretAssetsPruneDecision: whether to prune, and when to come back, on  *)
(* the status of the object that Reconcile read through the cache.         *)
MayPrune(unchanged) == unchanged /\ cachedMark # NoMark /\ cachedMark >= Grace

(* Plausible bugs: a missing mark taken for a time; no wakeup at all.      *)
RequeueAfterMark(unchanged) ==
    IF ~unchanged \/ MayPrune(unchanged) THEN 0 ELSE Grace - cachedMark

NoRequeue(unchanged) == 0

RequeueAfter(unchanged) ==
    IF ~unchanged \/ MayPrune(unchanged) THEN 0
    ELSE IF cachedMark = NoMark THEN Grace ELSE Grace - cachedMark

(* What createOrUpdateVectorAggregator decides from PublishedConfigMatches *)
(* on, which does not go through the cache, for the pipelines the bridge   *)
(* leaves and the data it stages.                                          *)
PlannedRound(pipes, bridged) ==
    LET exact     == Stage(NoData, values, pipes)
        unchanged == config = Published(pipes)
        wouldDrop == WouldDropAKey(assets, exact)
        data      == IF ~wouldDrop \/ MayPrune(unchanged) THEN exact ELSE bridged
    IN  [pc |-> "check", pipes |-> pipes, persistence |-> persistence, data |-> data,
         publishing |-> ~unchanged, order |-> WriteOrder(data),
         obsolete |-> OtherKind(KindOf(persistence)) \in Live,
         marked |-> cachedMark # NoMark, stale |-> cachedMark # mark,
         requeue |-> IF wouldDrop THEN RequeueAfter(unchanged) ELSE 0,
         late |-> 0]

(* With one variant both passes of planSecretAssetsBridge admit the same   *)
(* pipelines.                                                              *)
StartRound ==
    /\ round = Idle
    /\ queued
    /\ \E target \in SUBSET wanted : \E bridge \in SUBSET target :
          /\ Greedy(NoData, values, wanted, target)
          /\ Greedy(assets, values, target, bridge)
          /\ round' = PlannedRound(bridge, Stage(assets, values, bridge))
    /\ queued' = FALSE
    /\ UNCHANGED <<inputs, cluster, status, timer, edits, faults>>

Advance == round' = [round EXCEPT !.pc = NextStep[round.order][round.pc]]

(* The build or the configcheck rejects the merged config.                 *)
RejectConfig ==
    /\ round.pc = "check" /\ round.pipes \in Invalid
    /\ round' = Idle
    /\ UNCHANGED <<inputs, cluster, status, queued, timer, edits, faults>>

AcceptConfig ==
    /\ round.pc = "check" /\ round.pipes \notin Invalid
    /\ Advance
    /\ UNCHANGED <<inputs, cluster, status, queued, timer, edits, faults>>

(* A write of an owned object that changes it comes back as a watch event. *)
Notify(changed) == queued' = (queued \/ changed)

(* ensureVectorAggregatorSecretAssets: no key, no Secret.                  *)
WriteAssets ==
    /\ round.pc = "assets"
    /\ assets' = round.data
    /\ Notify(assets # round.data)
    /\ Advance
    /\ UNCHANGED <<inputs, config, workload, unused, status, timer, edits, faults>>

(* A status patch that sets lastConfigPublishedAt to now; the cache shows  *)
(* it at once or after SyncCache.                                          *)
PatchMark ==
    /\ mark' = 0
    /\ cachedMark' \in {0, cachedMark}

(* Plausible bug: the mark is left to SetSuccessStatus.                    *)
SkipStamp ==
    /\ round.pc = "stamp"
    /\ Advance
    /\ UNCHANGED <<inputs, cluster, status, queued, timer, edits, faults>>

(* StampConfigPublishing, when this round publishes.                       *)
StampPublishing ==
    /\ round.pc = "stamp"
    /\ IF round.publishing THEN PatchMark ELSE UNCHANGED status
    /\ Advance
    /\ UNCHANGED <<inputs, cluster, queued, timer, edits, faults>>

(* ensureVectorAggregatorConfig.                                           *)
WriteConfig ==
    /\ round.pc = "config"
    /\ config' = Published(round.pipes)
    /\ unused' = [k \in Key |-> IF k \in Referenced \cup KeysOf(round.pipes)
                                THEN 0 ELSE unused[k]]
    /\ Notify(config # config')
    /\ Advance
    /\ UNCHANGED <<inputs, assets, workload, status, timer, edits, faults>>

(* ensureVectorAggregatorDeployment or ensureVectorAggregatorStatefulSet.  *)
WriteWorkload ==
    /\ round.pc = "workload" /\ round.persistence # "invalid"
    /\ LET kind == KindOf(round.persistence)
           new  == Template(round.data)
       IN  /\ workload' = [workload EXCEPT ![kind] = new]
           /\ Notify(workload[kind] # new)
    /\ Advance
    /\ UNCHANGED <<inputs, assets, config, unused, status, timer, edits, faults>>

(* validatePersistence: the round fails, and so do its retries.            *)
RejectPersistence ==
    /\ round.pc = "workload" /\ round.persistence = "invalid"
    /\ round' = Idle
    /\ queued' = TRUE
    /\ UNCHANGED <<inputs, cluster, status, timer, edits, faults>>

(* deleteObsoleteWorkload, if the round saw one when it began.             *)
DeleteObsolete ==
    /\ round.pc = "obsolete"
    /\ LET kind == OtherKind(KindOf(round.persistence))
       IN  IF round.obsolete
           THEN /\ workload' = [workload EXCEPT ![kind] = "absent"]
                /\ Notify(workload[kind] # "absent")
           ELSE UNCHANGED <<workload, queued>>
    /\ Advance
    /\ UNCHANGED <<inputs, assets, config, unused, status, timer, edits, faults>>

(* SetSuccessStatus, and the requeue of the result.  A key that is already *)
(* waiting keeps its earlier deadline.                                     *)
FinishRound ==
    /\ round.pc = "status"
    /\ IF round.publishing \/ ~round.marked THEN PatchMark ELSE UNCHANGED status
    /\ timer' = IF round.requeue = 0 THEN timer
                ELSE IF timer = NoTimer \/ round.requeue < timer THEN round.requeue
                ELSE timer
    /\ round' = Idle
    /\ UNCHANGED <<inputs, cluster, queued, edits, faults>>

(* A request fails, before or instead of the step's write.  The writes of  *)
(* EnsureVectorAggregator after the workload, from RBAC to the             *)
(* PodDisruptionBudget, fail at the last step.                             *)
FailRound ==
    /\ round # Idle
    /\ faults < MaxFaults
    /\ faults' = faults + 1
    /\ round' = Idle
    /\ queued' = TRUE
    /\ UNCHANGED <<inputs, cluster, status, timer, edits>>

(* The operator stops at any point and another process starts.             *)
Restart ==
    /\ faults < MaxFaults
    /\ faults' = faults + 1
    /\ round' = Idle
    /\ queued' = TRUE
    /\ timer' = NoTimer
    /\ cachedMark' = mark
    /\ UNCHANGED <<inputs, cluster, mark, edits>>

-----------------------------------------------------------------------------
(* The informer cache and time.                                            *)

SyncCache ==
    /\ cachedMark # mark
    /\ cachedMark' = mark
    /\ UNCHANGED <<inputs, cluster, mark, queued, timer, round, edits, faults>>

Aged(a) == IF a = NoMark THEN NoMark ELSE IF a < Grace THEN a + 1 ELSE Grace

Publishing == round.pc = "config" /\ round.publishing

Tick ==
    /\ Publishing => round.late < Latency
    /\ round' = IF Publishing THEN [round EXCEPT !.late = @ + 1] ELSE round
    /\ mark' = Aged(mark) /\ cachedMark' = Aged(cachedMark)
    /\ unused' = [k \in Key |-> IF k \in Referenced THEN 0 ELSE Aged(unused[k])]
    /\ timer' = IF timer > 0 THEN timer - 1 ELSE timer
    /\ UNCHANGED <<inputs, assets, config, workload, queued, edits, faults>>

RequeueExpires ==
    /\ timer = 0
    /\ timer' = NoTimer
    /\ queued' = TRUE
    /\ UNCHANGED <<inputs, cluster, status, round, edits, faults>>

-----------------------------------------------------------------------------

Step ==
    \/ StartRound \/ RejectConfig \/ AcceptConfig \/ WriteAssets \/ StampPublishing
    \/ WriteConfig \/ WriteWorkload \/ RejectPersistence \/ DeleteObsolete \/ FinishRound

Next ==
    \/ ChangePipelines \/ RotateValue \/ ChangePersistence
    \/ Step \/ FailRound \/ Restart \/ SyncCache \/ Tick \/ RequeueExpires

Spec == Init /\ [][Next]_vars

(* The work queue hands out a queued key, a started round runs on, time    *)
(* passes, timers expire and watch events arrive.                          *)
Fairness ==
    WF_vars(Step) /\ WF_vars(Tick) /\ WF_vars(RequeueExpires) /\ WF_vars(SyncCache)

FairSpec == Spec /\ Fairness

-----------------------------------------------------------------------------
(* Properties.                                                             *)

(* Types: ages and timers stay within the grace period and a round always  *)
(* has a step of EnsureVectorAggregator to take next.                      *)
TypeOK ==
    /\ wanted \in SUBSET Pipeline
    /\ values \in [Key -> Length]
    /\ persistence \in Persistences
    /\ assets \in Data
    /\ config \in [absent : BOOLEAN, pipes : SUBSET Pipeline]
    /\ workload \in [Kind -> {"absent", "plain", "mounted"}]
    /\ mark \in NoMark..Grace /\ cachedMark \in NoMark..Grace
    /\ unused \in [Key -> 0..Grace]
    /\ queued \in BOOLEAN
    /\ timer \in NoTimer..Grace
    /\ round \in Round \cup {Idle}
    /\ edits \in 0..MaxEdits /\ faults \in 0..MaxFaults

Contract == INSTANCE Publication
    WITH Workload <- Kind, stored <- DOMAIN assets, referenced <- Referenced,
         template <- workload

(* The aggregator implements the publication contract: one object at a     *)
(* time, and in between every live workload, of the new kind and of the    *)
(* obsolete one, can start a pod (EnsureVectorAggregator).                 *)
Publishes == Contract!Spec

(* A key leaves the assets Secret before the config has been without it    *)
(* for the grace period, the time between the publish mark and the config  *)
(* write granted.                                                          *)
LeavesEarly(k) == k \in DOMAIN assets \ DOMAIN assets' /\ unused[k] < Grace - Latency

(* Whatever fails and wherever the operator stops, a key leaves early only *)
(* in a round that read, through the cache, a publish mark that had been   *)
(* replaced (SecretAssetsPruneGracePeriod, StampConfigPublishing).         *)
GraceHonoured == [][\A k \in Key : LeavesEarly(k) => round.stale]_vars

Settled ==
    \E target \in SUBSET wanted :
        /\ Greedy(NoData, values, wanted, target)
        /\ config = Published(target)
        /\ assets = Stage(NoData, values, target)
        /\ workload = [k \in Kind |-> IF k # KindOf(persistence) THEN "absent"
                                     ELSE IF KeysOf(target) = {} THEN "plain" ELSE "mounted"]

(* What the users have left cannot be published.                           *)
Unpublishable ==
    \/ persistence = "invalid"
    \/ \E target \in Invalid : Greedy(NoData, values, wanted, target)

(* Once users and faults have stopped, what is published is what is asked  *)
(* for, and the workload of the other kind is gone, unless a rejected      *)
(* config or persistence is what they ask for (docs/secrets.md,            *)
(* deleteObsoleteWorkload).                                                *)
Converges == <>[](Unpublishable \/ Settled)

=============================================================================
