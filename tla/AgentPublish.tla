---------------------------- MODULE AgentPublish ----------------------------
(***************************************************************************)
(* Publication of an agent's configuration: createOrUpdateVector           *)
(* (internal/controller/vector_controller.go) and the ordered writes of    *)
(* EnsureVectorAgent (internal/vector/vectoragent).                        *)
(*                                                                         *)
(* One reconcile is a round.  It reads the cluster, plans what the assets  *)
(* and config Secrets should hold, and then writes object after object;    *)
(* any write may fail, the operator may crash between any two of them, and *)
(* the pipelines, their secret values and the optimization mode may change *)
(* while the round runs.  With checkpoint migration on there are two       *)
(* variants of each Secret, one per optimization mode; the DaemonSet       *)
(* mounts the variant of the current mode.                                 *)
(*                                                                         *)
(* Time is relative: every duration is an age that saturates at Grace.     *)
(***************************************************************************)
EXTENDS SecretAssets

CONSTANTS
    Selections,   \* the sets of pipelines the users may arrive at
    Invalid,      \* the pipeline sets whose merged config the build or the
                  \*   configcheck rejects
    Flags,        \* the values --enable-checkpoint-migration may have
    Modes,        \* the values the optimization mode may have
    AltMayFail,   \* may the build of the standby config fail?
    CacheLag,     \* may the informer cache lag behind the Vector's status?
    Upgrade,      \* may there be objects of a version that kept no publish mark?
    Grace,        \* SecretAssetsPruneGracePeriod
    Latency,      \* bound: ticks between the publish mark and the config writes
    MaxEdits,     \* bound: changes of pipelines, values and mode
    MaxFaults     \* bound: failed requests and crashes

ASSUME PublishAssumption ==
    /\ Selections \subseteq SUBSET Pipeline
    /\ Invalid \subseteq SUBSET Pipeline
    /\ Flags \subseteq BOOLEAN /\ Modes \subseteq BOOLEAN
    /\ AltMayFail \in BOOLEAN /\ CacheLag \in BOOLEAN /\ Upgrade \in BOOLEAN
    /\ Grace \in Nat /\ Latency \in Nat /\ Grace > Latency
    /\ MaxEdits \in Nat /\ MaxFaults \in Nat

VARIABLES
    wanted,      \* the pipelines that are valid and selected by the Vector
    values,      \* the current length of every secret value
    optimize,    \* the optimization mode of the Vector
    migration,   \* the operator runs with checkpoint migration
    assets,      \* assets[v]: Data of the assets Secret of variant v
    config,      \* config[v]: what the config Secret of variant v was built from
    daemonSet,   \* the pod template: which variant it mounts, with assets or not
    mark,        \* age of status.lastConfigPublishedAt, or NoMark
    cachedMark,  \* the same field as the informer cache shows it
    unused,      \* unused[v][k]: time since config[v] last referenced k
    queued,      \* the Vector is in the work queue
    timer,       \* time left until RequeueAfter expires, or NoTimer
    round,       \* the reconcile in progress
    edits,       \* changes made so far
    faults       \* faults so far

inputs  == <<wanted, values, optimize>>
cluster == <<assets, config, daemonSet, unused>>
vars == <<inputs, migration, cluster, mark, cachedMark, queued, timer, round,
          edits, faults>>

-----------------------------------------------------------------------------

NoMark  == -1
NoTimer == -1

Variant == {"legacy", "opt"}

(* getConfigSecretName and getAltConfigSecretName; the assets Secret is     *)
(* named after the config Secret (getSecretAssetsName).                    *)
Primary(opt) == IF migration /\ opt THEN "opt" ELSE "legacy"
Standby(opt) == IF migration /\ opt THEN "legacy" ELSE "opt"

(* The variants whose contents ExistingSecretAssets reads.                 *)
Managed == IF migration THEN Variant ELSE {"legacy"}

(* A config Secret: the pipelines it was built from and the mode.  Its     *)
(* bytes are a function of the two.                                        *)
Config   == [pipes : SUBSET Pipeline, opt : BOOLEAN]
NoConfig == [pipes |-> {}, opt |-> FALSE, absent |-> TRUE]

NoDaemonSet == [variant |-> "none", mount |-> FALSE]

(* The flat keys the config Secret of variant v references.                *)
Referenced(v) == KeysOf(config[v].pipes)

(* The steps of a round after planning, in the three orders of             *)
(* EnsureVectorAgent.                                                      *)
Steps == {"check", "assets", "altAssets", "stamp", "config", "altConfig",
          "daemonSet", "status"}

Orders == {"gaining", "losing", "keeping"}

(* A plausible bug: the config is always written before the assets.        *)
ConfigFirst ==
    LET losing == [check |-> "stamp", stamp |-> "config", config |-> "altConfig",
                   altConfig |-> "daemonSet", daemonSet |-> "assets",
                   assets |-> "altAssets", altAssets |-> "status"]
    IN  [gaining |-> losing, losing |-> losing, keeping |-> losing]

NextStep ==
    [gaining |-> [check |-> "assets", assets |-> "altAssets",
                  altAssets |-> "daemonSet", daemonSet |-> "stamp",
                  stamp |-> "config", config |-> "altConfig",
                  altConfig |-> "status"],
     losing  |-> [check |-> "stamp", stamp |-> "config",
                  config |-> "altConfig", altConfig |-> "daemonSet",
                  daemonSet |-> "assets", assets |-> "altAssets",
                  altAssets |-> "status"],
     keeping |-> [check |-> "assets", assets |-> "altAssets",
                  altAssets |-> "stamp", stamp |-> "config",
                  config |-> "altConfig", altConfig |-> "daemonSet",
                  daemonSet |-> "status"]]

Idle == [pc |-> "idle"]

(* stale is a history: the round decided on a mark that was out of date.   *)
Round ==
    [pc : Steps, opt : BOOLEAN, pipes : SUBSET Pipeline, altBuilt : BOOLEAN,
     data : [Variant -> Data], publishing : BOOLEAN, order : Orders,
     marked : BOOLEAN, stale : BOOLEAN, requeue : 0..Grace, late : 0..Latency]

-----------------------------------------------------------------------------

(* A namespace without any of the agent's objects, or one where a version  *)
(* without the publish mark has published the pipelines in pipes.          *)
NothingPublished ==
    /\ assets = [v \in Variant |-> NoData]
    /\ config = [v \in Variant |-> NoConfig]
    /\ daemonSet = NoDaemonSet
    /\ unused = [v \in Variant |-> [k \in Key |-> Grace]]

PublishedUnmarked(pipes) ==
    /\ Upgrade /\ ~migration
    /\ Fits(Stage(NoData, values, pipes))
    /\ assets = [v \in Variant |-> IF v = "legacy" THEN Stage(NoData, values, pipes)
                                  ELSE NoData]
    /\ config = [v \in Variant |-> IF v = "legacy" THEN [pipes |-> pipes, opt |-> optimize]
                                  ELSE NoConfig]
    /\ daemonSet = [variant |-> "legacy", mount |-> KeysOf(pipes) # {}]
    /\ unused = [v \in Variant |-> [k \in Key |-> IF v = "legacy" /\ k \in KeysOf(pipes)
                                                 THEN 0 ELSE Grace]]

Init ==
    /\ wanted \in Selections
    /\ values \in {f \in [Key -> Length] : \A k \in Key : f[k] \in Lengths[k]}
    /\ optimize \in Modes
    /\ migration \in Flags
    /\ NothingPublished \/ \E pipes \in Selections : PublishedUnmarked(pipes)
    /\ mark = NoMark
    /\ cachedMark = NoMark
    /\ queued = TRUE
    /\ timer = NoTimer
    /\ round = Idle
    /\ edits = 0
    /\ faults = 0

-----------------------------------------------------------------------------
(* The users.  A pipeline or a rotated value reaches the Vector through    *)
(* the pipeline controller's event, a mode through the Vector itself.      *)

Edit ==
    /\ edits < MaxEdits
    /\ edits' = edits + 1
    /\ queued' = TRUE
    /\ UNCHANGED <<migration, cluster, mark, cachedMark, timer, round, faults>>

ChangePipelines ==
    /\ Edit
    /\ wanted' \in Selections \ {wanted}
    /\ UNCHANGED <<values, optimize>>

RotateValue ==
    /\ Edit
    /\ \E k \in Key : \E s \in Lengths[k] \ {values[k]} :
          values' = [values EXCEPT ![k] = s]
    /\ UNCHANGED <<wanted, optimize>>

SwitchMode ==
    /\ Edit
    /\ optimize' \in Modes \ {optimize}
    /\ UNCHANGED <<wanted, values>>

-----------------------------------------------------------------------------
(* The round.                                                              *)

(* secretAssetsPruneDecision, on the status that                           *)
(* findVectorCustomResourceInstance read through the cache.                *)
MayPrune(unchanged) == unchanged /\ cachedMark # NoMark /\ cachedMark >= Grace

(* Plausible bugs: a missing mark taken for a time; no wakeup at all.      *)
RequeueAfterMark(unchanged) ==
    IF ~unchanged \/ MayPrune(unchanged) THEN 0 ELSE Grace - cachedMark

NoRequeue(unchanged) == 0

RequeueAfter(unchanged) ==
    IF ~unchanged \/ MayPrune(unchanged) THEN 0
    ELSE IF cachedMark = NoMark THEN Grace ELSE Grace - cachedMark

(* A plausible bug: a mount that appears is not treated apart.             *)
WriteOrderWithoutGain(opt, data) ==
    IF daemonSet = [variant |-> Primary(opt), mount |-> TRUE] /\ data = NoData
    THEN "losing" ELSE "keeping"

(* hasSecretAssetsMount against what this round will mount.                *)
WriteOrder(opt, data) ==
    LET had  == daemonSet = [variant |-> Primary(opt), mount |-> TRUE]
        will == data # NoData
    IN  IF ~had /\ will THEN "gaining"
        ELSE IF had /\ ~will THEN "losing" ELSE "keeping"

(* planSecretAssetsBridge: pass 1 gives every variant the pipelines it has *)
(* room for, and a pipeline is admitted when every variant has room; pass  *)
(* 2 stages the admitted ones in each variant.                             *)
Bridge(target, room) == {p \in target : \A v \in Managed : p \in room[v]}

BridgeData(staged) ==
    [v \in Variant |-> IF v \in Managed
                       THEN Stage(assets[v], values, staged[v]) ELSE NoData]

(* A plausible bug: only the config Secret the DaemonSet mounts is compared. *)
ActiveConfigUnchanged(pipes, altBuilt) ==
    config[Primary(optimize)] = [pipes |-> pipes, opt |-> optimize]

(* PublishedConfigMatches, and AltPublishedConfigMatches if there is a     *)
(* standby config to compare.                                              *)
AllConfigsUnchanged(pipes, altBuilt) ==
    /\ config[Primary(optimize)] = [pipes |-> pipes, opt |-> optimize]
    /\ migration =>
          /\ altBuilt
          /\ config[Standby(optimize)] = [pipes |-> pipes, opt |-> ~optimize]

(* What the round will write, once the pipelines, the alternate build and  *)
(* the bridge data are known: createOrUpdateVector from                    *)
(* PublishedConfigMatches to the call of EnsureVectorAgent.                *)
PlannedRound(pipes, altBuilt, bridged) ==
    LET exact     == Stage(NoData, values, pipes)
        unchanged == AllConfigsUnchanged(pipes, altBuilt)
        wouldDrop == \E v \in Managed : WouldDropAKey(assets[v], exact)
        prune     == ~wouldDrop \/ MayPrune(unchanged)
        data      == IF prune THEN [v \in Variant |-> exact] ELSE bridged
    IN  [pc |-> "check", opt |-> optimize, pipes |-> pipes, altBuilt |-> altBuilt,
         data |-> data, publishing |-> ~unchanged,
         order |-> WriteOrder(optimize, data[Primary(optimize)]),
         marked |-> cachedMark # NoMark, stale |-> cachedMark # mark,
         requeue |-> IF wouldDrop THEN RequeueAfter(unchanged) ELSE 0,
         late |-> 0]

(* The reads and decisions of a round, up to the configcheck.  target is   *)
(* what resolveWorkloadPipelines leaves after DetectSecretSizeOverflow.  A *)
(* Vector in a namespace that is being deleted is not reconciled at all    *)
(* and has no round here.                                                  *)
StartRound ==
    /\ round = Idle
    /\ queued
    /\ \E target \in SUBSET wanted :
          /\ Greedy(NoData, values, wanted, target)
          /\ \E room \in [Managed -> SUBSET target] :
                /\ \A v \in Managed : Greedy(assets[v], values, target, room[v])
                /\ \E staged \in [Managed -> SUBSET Bridge(target, room)],
                      altBuilt \in IF AltMayFail THEN BOOLEAN ELSE {TRUE} :
                      /\ \A v \in Managed :
                            Greedy(assets[v], values, Bridge(target, room), staged[v])
                      /\ round' = PlannedRound(Bridge(target, room),
                                               migration /\ altBuilt,
                                               BridgeData(staged))
    /\ queued' = FALSE
    /\ UNCHANGED <<inputs, migration, cluster, mark, cachedMark, timer, edits, faults>>

Advance == round' = [round EXCEPT !.pc = NextStep[round.order][round.pc]]

(* The build or the configcheck rejects the merged config: SetFailedStatus *)
(* and no retry.                                                           *)
RejectConfig ==
    /\ round.pc = "check"
    /\ round.pipes \in Invalid
    /\ round' = Idle
    /\ UNCHANGED <<inputs, migration, cluster, mark, cachedMark, queued, timer,
                   edits, faults>>

AcceptConfig ==
    /\ round.pc = "check"
    /\ round.pipes \notin Invalid
    /\ Advance
    /\ UNCHANGED <<inputs, migration, cluster, mark, cachedMark, queued, timer,
                   edits, faults>>

(* A write of an owned object that changes it comes back as a watch event. *)
Notify(changed) == queued' = (queued \/ changed)

PutAssets(v, data) ==
    /\ assets' = [assets EXCEPT ![v] = data]
    /\ Notify(assets[v] # data)

(* ensureVectorAgentSecretAssets, the active variant: no key, no Secret.   *)
WriteAssets ==
    /\ round.pc = "assets"
    /\ PutAssets(Primary(round.opt), round.data[Primary(round.opt)])
    /\ Advance
    /\ UNCHANGED <<inputs, migration, config, daemonSet, unused, mark, cachedMark,
                   timer, edits, faults>>

(* ensureVectorAgentSecretAssets, the standby variant: dropped without     *)
(* migration, left alone when its config was not built.                    *)
WriteAltAssets ==
    /\ round.pc = "altAssets"
    /\ LET v == Standby(round.opt)
       IN  PutAssets(v, IF ~migration THEN NoData
                        ELSE IF round.altBuilt THEN round.data[v] ELSE assets[v])
    /\ Advance
    /\ UNCHANGED <<inputs, migration, config, daemonSet, unused, mark, cachedMark,
                   timer, edits, faults>>

(* A status patch that sets lastConfigPublishedAt to now; the cache shows  *)
(* it at once or, if it lags, only after SyncCache.                        *)
PatchMark ==
    /\ mark' = 0
    /\ cachedMark' \in {0} \cup (IF CacheLag THEN {cachedMark} ELSE {})

(* A plausible bug: the mark is left to SetSuccessStatus.                  *)
SkipStamp ==
    /\ round.pc = "stamp"
    /\ Advance
    /\ UNCHANGED <<inputs, migration, cluster, mark, cachedMark, queued, timer,
                   edits, faults>>

(* StampConfigPublishing, when this round publishes.                       *)
StampPublishing ==
    /\ round.pc = "stamp"
    /\ IF round.publishing THEN PatchMark ELSE UNCHANGED <<mark, cachedMark>>
    /\ Advance
    /\ UNCHANGED <<inputs, migration, cluster, queued, timer, edits, faults>>

PutConfig(v, cfg) ==
    /\ config' = [config EXCEPT ![v] = cfg]
    /\ unused' = [unused EXCEPT ![v] =
                    [k \in Key |-> IF k \in Referenced(v) \cup KeysOf(cfg.pipes)
                                   THEN 0 ELSE unused[v][k]]]
    /\ Notify(config[v] # cfg)

(* ensureVectorAgentConfig, the active variant.                            *)
WriteConfig ==
    /\ round.pc = "config"
    /\ PutConfig(Primary(round.opt), [pipes |-> round.pipes, opt |-> round.opt])
    /\ Advance
    /\ UNCHANGED <<inputs, migration, assets, daemonSet, mark, cachedMark, timer,
                   edits, faults>>

(* ensureVectorAgentConfig, the standby variant: without migration the     *)
(* leftover Secret is deleted.                                             *)
WriteAltConfig ==
    /\ round.pc = "altConfig"
    /\ LET v == Standby(round.opt)
       IN  PutConfig(v, IF ~migration THEN NoConfig
                        ELSE IF round.altBuilt
                             THEN [pipes |-> round.pipes, opt |-> ~round.opt]
                             ELSE config[v])
    /\ Advance
    /\ UNCHANGED <<inputs, migration, assets, daemonSet, mark, cachedMark, timer,
                   edits, faults>>

(* A failed deletion of the leftover Secret is only logged.                *)
KeepLeftoverConfig ==
    /\ round.pc = "altConfig"
    /\ ~migration /\ config["opt"] # NoConfig
    /\ faults < MaxFaults
    /\ faults' = faults + 1
    /\ Advance
    /\ UNCHANGED <<inputs, migration, cluster, mark, cachedMark, queued, timer, edits>>

(* generateVectorAgentVolume and generateVectorAgentVolumeMounts: the      *)
(* template mounts the config and, iff the round has some, the assets.     *)
Template(v, data) == [variant |-> v, mount |-> data # NoData]

(* ensureVectorAgentDaemonSet.                                             *)
WriteDaemonSet ==
    /\ round.pc = "daemonSet"
    /\ LET ds == Template(Primary(round.opt), round.data[Primary(round.opt)])
       IN  /\ daemonSet' = ds
           /\ Notify(daemonSet # ds)
    /\ Advance
    /\ UNCHANGED <<inputs, migration, assets, config, unused, mark, cachedMark,
                   timer, edits, faults>>

(* SetSuccessStatus, and the requeue of the result.  A key that is already *)
(* waiting keeps its earlier deadline.                                     *)
FinishRound ==
    /\ round.pc = "status"
    /\ IF round.publishing \/ ~round.marked
       THEN PatchMark ELSE UNCHANGED <<mark, cachedMark>>
    /\ timer' = IF round.requeue = 0 THEN timer
                ELSE IF timer = NoTimer THEN round.requeue
                ELSE IF timer < round.requeue THEN timer ELSE round.requeue
    /\ round' = Idle
    /\ UNCHANGED <<inputs, migration, cluster, queued, edits, faults>>

(* A request fails, before or instead of the step's write: the round       *)
(* returns the error and the key is queued again.  RBAC, Service,          *)
(* PodMonitor and the reinstatements fail at the last step.                *)
FailRound ==
    /\ round # Idle
    /\ faults < MaxFaults
    /\ faults' = faults + 1
    /\ round' = Idle
    /\ queued' = TRUE
    /\ UNCHANGED <<inputs, migration, cluster, mark, cachedMark, timer, edits>>

(* The operator stops at any point and another process starts, perhaps     *)
(* with another flag: its caches are fresh and every Vector is queued.     *)
Restart ==
    /\ faults < MaxFaults
    /\ faults' = faults + 1
    /\ migration' \in Flags
    /\ round' = Idle
    /\ queued' = TRUE
    /\ timer' = NoTimer
    /\ cachedMark' = mark
    /\ UNCHANGED <<inputs, cluster, mark, edits>>

-----------------------------------------------------------------------------
(* The environment.                                                        *)

SyncCache ==
    /\ CacheLag
    /\ cachedMark # mark
    /\ cachedMark' = mark
    /\ UNCHANGED <<inputs, migration, cluster, mark, queued, timer, round, edits, faults>>

Older1(age) == IF age = NoMark THEN NoMark ELSE IF age < Grace THEN age + 1 ELSE Grace

Publishing == round.pc \in {"config", "altConfig"} /\ round.publishing

Tick ==
    /\ Publishing => round.late < Latency
    /\ round' = IF Publishing THEN [round EXCEPT !.late = @ + 1] ELSE round
    /\ mark' = Older1(mark)
    /\ cachedMark' = Older1(cachedMark)
    /\ unused' = [v \in Variant |-> [k \in Key |->
                    IF k \in Referenced(v) THEN 0 ELSE Older1(unused[v][k])]]
    /\ timer' = IF timer > 0 THEN timer - 1 ELSE timer
    /\ UNCHANGED <<inputs, migration, assets, config, daemonSet, queued, edits, faults>>

RequeueExpires ==
    /\ timer = 0
    /\ timer' = NoTimer
    /\ queued' = TRUE
    /\ UNCHANGED <<inputs, migration, cluster, mark, cachedMark, round, edits, faults>>

-----------------------------------------------------------------------------

Step ==
    \/ StartRound \/ RejectConfig \/ AcceptConfig
    \/ WriteAssets \/ WriteAltAssets \/ StampPublishing
    \/ WriteConfig \/ WriteAltConfig \/ WriteDaemonSet \/ FinishRound

Next ==
    \/ ChangePipelines \/ RotateValue \/ SwitchMode
    \/ Step \/ KeepLeftoverConfig \/ FailRound \/ Restart
    \/ SyncCache \/ Tick \/ RequeueExpires

Spec == Init /\ [][Next]_vars

(* The work queue hands out a queued key, a started round runs on, time    *)
(* passes, timers expire and watch events arrive.                          *)
Fairness ==
    /\ WF_vars(Step)
    /\ WF_vars(Tick)
    /\ WF_vars(RequeueExpires)
    /\ WF_vars(SyncCache)

FairSpec == Spec /\ Fairness

-----------------------------------------------------------------------------
(* Properties.                                                             *)

(* Types: ages and timers stay within the grace period and a round always  *)
(* has a step of EnsureVectorAgent to take next.                           *)
TypeOK ==
    /\ wanted \in SUBSET Pipeline
    /\ values \in [Key -> Length]
    /\ optimize \in BOOLEAN
    /\ migration \in BOOLEAN
    /\ assets \in [Variant -> Data]
    /\ config \in [Variant -> Config \cup {NoConfig}]
    /\ daemonSet \in [variant : Variant, mount : BOOLEAN] \cup {NoDaemonSet}
    /\ mark \in NoMark..Grace
    /\ cachedMark \in NoMark..Grace
    /\ unused \in [Variant -> [Key -> 0..Grace]]
    /\ queued \in BOOLEAN
    /\ timer \in NoTimer..Grace
    /\ round \in Round \cup {Idle}
    /\ edits \in 0..MaxEdits
    /\ faults \in 0..MaxFaults

(* A published config never references a flat key that the assets Secret   *)
(* of its variant does not hold, whatever write failed and wherever the    *)
(* operator stopped: a pod that starts on it would not come up             *)
(* (ensureVectorAgentSecretAssets, docs/secrets.md).                       *)
NoDanglingReference ==
    \A v \in Variant : Referenced(v) \subseteq DOMAIN assets[v]

(* The pod template mounts the assets before the config it mounts          *)
(* references any of them (the gaining order of EnsureVectorAgent).        *)
MountCoversReferences ==
    daemonSet # NoDaemonSet /\ Referenced(daemonSet.variant) # {} => daemonSet.mount

(* The pod template never mounts an assets Secret that does not exist (the *)
(* losing order of EnsureVectorAgent): a pod created then could not start. *)
MountedSecretExists ==
    daemonSet.mount => assets[daemonSet.variant] # NoData

(* What is staged can be written: the union of a transition stays within   *)
(* both budgets of a Secret (BridgeAssets).                                *)
StagedDataFits == \A v \in Variant : Fits(assets[v])

(* A key leaves an assets Secret before the config of that variant has     *)
(* been without it for the grace period.  The time that passed between the *)
(* publish mark and the config write it was taken for is granted.          *)
LeavesEarly(v, k) ==
    k \in DOMAIN assets[v] \ DOMAIN assets'[v] /\ unused[v][k] < Grace - Latency

(* Whatever fails and wherever the operator stops, a key leaves early only *)
(* in a round that read, through the cache, a publish mark that had been   *)
(* replaced (SecretAssetsPruneGracePeriod, StampConfigPublishing).         *)
GraceHonoured ==
    [][\A v \in Variant : \A k \in Key : LeavesEarly(v, k) => round.stale]_vars

(***************************************************************************)
(* Why the three orders are safe with one variant.  What the round writes  *)
(* covers the config it finds and the config it will publish (PlanCovers); *)
(* a step that relies on the assets comes after the step that wrote them   *)
(* (StagedBeforeUse); the mount changes only on its side of the assets     *)
(* (MountFollowsOrder).                                                    *)
(***************************************************************************)
SingleVariant ==
    /\ ~migration
    /\ config["opt"] = NoConfig
    /\ assets["opt"] = NoData
    /\ daemonSet.variant # "opt"

PlanCovers ==
    round # Idle =>
        Referenced("legacy") \cup KeysOf(round.pipes) \subseteq DOMAIN round.data["legacy"]

StagedBeforeUse ==
    round # Idle =>
        \/ round.pc \in {"check", "assets"}
        \/ round.order = "losing" /\ round.pc \notin {"altAssets", "status"}
        \/ assets["legacy"] = round.data["legacy"]

MountFollowsOrder ==
    round # Idle =>
        /\ round.order = "gaining" =>
              /\ round.data["legacy"] # NoData
              /\ round.pc \in {"stamp", "config", "altConfig", "status"} => daemonSet.mount
        /\ round.order = "losing" =>
              /\ round.data["legacy"] = NoData
              /\ round.pc \in {"assets", "altAssets", "status"} => ~daemonSet.mount
        /\ round.order = "keeping" =>
              (daemonSet.mount <=> round.data["legacy"] # NoData)

(* The inductive invariant behind the three write orders of                *)
(* EnsureVectorAgent, for an operator without checkpoint migration.        *)
PublishInv ==
    /\ SingleVariant
    /\ NoDanglingReference
    /\ MountCoversReferences
    /\ MountedSecretExists
    /\ PlanCovers
    /\ StagedBeforeUse
    /\ MountFollowsOrder

(* The pod template of the DaemonSet, as the publication contract sees it. *)
PodTemplate ==
    IF daemonSet = NoDaemonSet THEN "absent"
    ELSE IF daemonSet.mount THEN "mounted" ELSE "plain"

Contract == INSTANCE Publication
    WITH Workload <- {"DaemonSet"}, stored <- DOMAIN assets["legacy"],
         referenced <- Referenced("legacy"),
         template <- [w \in {"DaemonSet"} |-> PodTemplate]

(* Without checkpoint migration the agent implements the publication       *)
(* contract that the aggregator implements: one object at a time, and in   *)
(* between a pod that starts on the DaemonSet finds what it needs          *)
(* (EnsureVectorAgent).                                                    *)
Publishes == Contract!Spec

(* Everything published is what the pipelines, values and mode ask for.    *)
Settled ==
    \E target \in SUBSET wanted :
        /\ Greedy(NoData, values, wanted, target)
        /\ \A v \in Managed :
              /\ config[v] = [pipes |-> target,
                              opt |-> IF v = Primary(optimize) THEN optimize ELSE ~optimize]
              /\ assets[v] = Stage(NoData, values, target)
        /\ daemonSet = [variant |-> Primary(optimize), mount |-> KeysOf(target) # {}]

(* Once users and faults have stopped, the agent converges on its own,     *)
(* through any bridge round and grace period that is needed                *)
(* (docs/secrets.md: "it always converges on its own").                    *)
Converges == <>[]Settled

=============================================================================
