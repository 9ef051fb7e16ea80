# A TLA+ model of vector-operator

vector-operator is a Kubernetes operator: users declare Vector agents,
aggregators and pipelines as custom resources, and the operator keeps the
Vector workloads of the cluster configured accordingly. This directory models
the parts of it where order, failure and staleness matter, checks them with TLC
on small instances, and proves with TLAPS, for every instance, every safety
property that the passing runs check, where needed under hypotheses that section 5
names and justifies. Liveness stays with TLC; what a system at rest has done, the
safety half of it, is proved for the publication, the event collector and the
objects of an aggregator.

## 1. Inventory

| component | code | state | operations | hard behaviour |
|---|---|---|---|---|
| agent publication | `internal/controller/vector_controller.go`, `internal/vector/vectoragent/` | config and assets Secret per optimization variant, DaemonSet, `status.lastConfigPublishedAt` | `createOrUpdateVector`, `EnsureVectorAgent` | a round writes up to six objects; any write may fail, the operator may stop between any two; the plan is computed from reads that age |
| secret assets | `internal/config/secrets.go`, `internal/controller/secrets.go` | contents of the assets Secrets | collision and size attribution, `BridgeAssets`, `planSecretAssetsBridge`, prune decision | two size budgets, old and new keys at once, a grace period against kubelet's delay |
| pipeline controller | `internal/controller/pipeline_controller.go`, `internal/pipeline/` | `.status` of every pipeline, the secret index | reconcile, validate, patch, retry, poll | the same status has a second writer, the workload controllers; both patch against old copies |
| configcheck | `internal/config/configcheck/` | temporary Secrets and a pod per check | `Run`, `getCheckResult`, `cleanup`, `SweepOrphans` | timeout against verdict, crash before cleanup, sweepers of overlapping processes |
| aggregator controllers | `internal/controller/*aggregator*.go`, `internal/vector/aggregator/` | config and assets Secret, a Deployment or a StatefulSet, the publish mark, event collector objects | `createOrUpdateVectorAggregator`, `EnsureVectorAggregator`, deletion with a finalizer | as the agent, and both kinds of workload alive while persistence changes |
| debouncing | `cmd/manager/main.go` (`reconcileWithDelay`) | a window of keys, bounded channels | collect, flush | back pressure between controllers |
| event collector | `internal/evcollector/`, `cmd/event_collector/` | a collector with a batch per receiver host | watch, batch, send, apply a config | lost answers, a receiver replaced while its sender is anywhere in its loop |
| checkpoint merger | `internal/checkpoint/`, `cmd/checkpoint_merger/` | checkpoint files on the node | consolidate | killed between two files, unreadable directories, sources that are at different positions in one file |
| source optimization | `internal/config/agent_optimize.go` | none | group sources, name the groups, route per namespace | renamed sources in a running vector, hash collisions |
| objects of an aggregator | `internal/vector/aggregator/`, `internal/utils/k8s/k8s.go` | RBAC, Services, PodMonitor, autoscaler, disruption budget, event collector | create, update, delete, finalizer | cluster-wide objects that aggregators of one name share, an autoscaler writing the same workload, rounds that stop anywhere |
| API types, pod templates, generated code | `api/v1alpha1/`, `internal/vector/gen/`, ... | none | none | none |

How they interact: a pipeline event makes the pipeline controller validate the
pipeline (its own configcheck), write its status and announce it through the
debouncer to the workload controllers. A workload round lists the valid
pipelines, attributes conflicts by writing the status of the losers, builds the
merged config, runs a second configcheck, plans and writes the Secrets and the
workload, and marks pipelines valid again that an earlier round had failed.
Secret events come back to the pipelines through the secret index; everything
else comes back through watches, requeues and the periodic resync.

What makes each component right:

* publication: no published config references a key that its assets Secret does
  not hold; the pod template mounts what its config needs and never what does
  not exist; a key is not dropped while pods may still use it; everything
  converges;
* pipeline status: no broken spec hides behind a valid status; a Secret that could
  not be read is tried again; in the end exactly the deserving pipelines are
  published;
* configcheck: no verdict "valid" without a validation; nobody takes the Secrets
  of a running check; nothing is left on the cluster for good;
* debouncing: no verdict on a pipeline gets lost on its way to a workload, however
  full the channels are, and a stream of events does not hold a workload up;
* objects of an aggregator: they end as the spec says, the autoscaler keeps its
  replicas, and a deleted aggregator takes its ClusterRole and ClusterRoleBinding
  with it (those of its event collector it leaves behind, see section 3);
* optimization and checkpoints: every consumer gets the stream of its own source;
  the merger never loses a position, never skips a line of a file with one reader
  and never keeps the agent from starting;
* event collector: failed pushes lose and reorder nothing, an unchanged receiver
  keeps its collector, no collector runs that nobody can stop, every receiver is
  served in the end, unless the change that asked for it came before the watch.

The hazards behind these properties are listed line by line in `PROJECT.json`.

## 2. Modules

| module | models | instance |
|---|---|---|
| `SecretAssets` | contents and budgets of an assets Secret, the greedy attribution pass | (used by the two below) |
| `AgentPublish` | a round of the agent controller against the cluster | `MCAgentPublish` |
| `AgentPublish_proofs` | theorems about `SecretAssets` and `AgentPublish`, the refinement of `Publication` among them | |
| `Publication` | the contract of a publication, abstract | (instantiated by `AgentPublish` and `AggregatorPublish`) |
| `AggregatorPublish` | a round of an aggregator controller against the cluster | `MCAggregatorPublish` |
| `AggregatorPublish_proofs` | its theorems, the refinement of `Publication` among them | |
| `PipelineStatus` | pipeline controller and workload controller on one status | `MCPipelineStatus` |
| `PipelineStatus_proofs` | theorems about `PipelineStatus` | |
| `ConfigCheck` | a configcheck, operator processes and their orphan sweepers | `MCConfigCheck` |
| `ConfigCheck_proofs` | theorems about `ConfigCheck` | |
| `EventCollector` | applyConfig and the collectors of the event collector process | `MCEventCollector` |
| `EventCollector_proofs` | theorems about `EventCollector` | |
| `Debounce` | the lane from the reconciles of pipelines to the rounds of workloads | `MCDebounce` |
| `Debounce_proofs` | theorems about `Debounce` | |
| `AggregatorObjects` | life of an aggregator and its objects, with namesakes and an autoscaler | `MCAggregatorObjects` |
| `AggregatorObjects_proofs` | theorems about `AggregatorObjects` | |
| `SourceGroups` | the optimization of the agent's sources, as operators | (used by the next) |
| `CheckpointMerge` | an agent pod: its config, vector, checkpoints and the merger | `MCCheckpointMerge` |
| `CheckpointMerge_proofs` | theorems about `SourceGroups` and `CheckpointMerge` | |

`PROJECT.json` maps every definition to its source lines. Definitions commented
as a *plausible bug* are not used by any specification: each is a defective
variant of the definition after it, kept to show that a property notices it.

### SecretAssets

A pipeline is the set of flat keys it references, a value its length (nothing
else of it is looked at), `Data` a function from keys to lengths; an empty one
stands for "no Secret", as in the code. `Greedy(existing, values, P, A)` says
that `A` is the outcome of an oldest-first pass: the code's loop is deterministic,
and so is this characterisation, because ages are distinct (`PassHasOneOutcome`
in section 5). From `NoData` it is
`DetectSecretSizeOverflow`, from the live contents it is `BridgeAssets`. Both
budgets are there: values alone (`corev1.MaxSecretSize`) and the object with a
cost per entry.

### AgentPublish

`StartRound` is everything `createOrUpdateVector` does up to the configcheck: the
overflow attribution, pass 1 and pass 2 of `planSecretAssetsBridge`, the
comparison with the published configs, the prune decision, and the write order
that `EnsureVectorAgent` picks from the DaemonSet it read. These reads are one
step; between the steps after it anything may happen. `RejectConfig`,
`AcceptConfig`, `WriteAssets`, `WriteAltAssets`, `StampPublishing`,
`WriteConfig`, `WriteAltConfig`, `WriteDaemonSet` and `FinishRound` are the
ordered writes; `NextStep` holds the three orders (mount gained, lost, kept).
`FailRound` is a failed request at any step, `Restart` a crash with a new
process, possibly with another `--enable-checkpoint-migration`. A write that
changes an owned object queues the Vector again.

Time is relative: ages of the mark, of the cached mark and of the last reference
to a key, all saturating at `Grace`. A round reads the cached mark, which may lag
(`CacheLag`) until `SyncCache`; the published configs it compares are read fresh.
`round.stale` records that the mark it read had been replaced. `Latency` bounds the time between stamp and
config write; `GraceHonoured` subtracts it, which is the precision the mark has.
Config bytes are a function of pipelines and mode, so they are compared as that
pair; the references of a pipeline are not edited in place (an edit is a change
of `wanted`).

### Publication and AggregatorPublish

`Publication` says what a publisher promises, without rounds: one object changes
at a time, and a pod that starts on any live workload finds every key its config
references in a mounted Secret that exists. Both publishers are shown to implement
it (`Publishes`, with `stored` the keys of the assets Secret, `referenced` those of
the published pipelines and `template` the DaemonSet, or the two workloads of an
aggregator); every other step of a round is a stutter. The agent does so without
checkpoint migration: with it there are two configs and two assets Secrets, and a
mode switch can delete a mounted one (*Mode switch* in section 3).

A round of an aggregator is the one of the agent with a single variant, but the workload is a
Deployment or, with persistence, a StatefulSet, and a change of persistence
writes the new kind before it deletes the other one. So `WriteOrder` asks
`AnyMounted` and `AllMounted` over both kinds, as `secretAssetsMountState` does,
and whether there is an obsolete workload is decided in the same snapshot.
Persistence without a data claim (`invalid`) fails at the workload step.
`Init` includes an aggregator that a version without the publish mark has
published. The mark is read through a cache that may lag, as in `AgentPublish`.

### PipelineStatus

Two controllers, one status per pipeline. A status has the four fields both
writers touch; a spec and a Secret are version numbers. `MergePatch` is what a
JSON merge patch does: only the fields that differ from the writer's base
travel, and the server applies them to whatever it holds. `ReadPipeline` to
`PatchPipeline` and `AnnouncePipeline` are one reconcile of `pipeline_controller.go`,
`StartRound` to `FinishRound` one of a workload; the operator may stop between any
two of them. `options` are the settings of a behaviour: the two flags of the
operator, whether a round may run while a pipeline is being reconciled (`Overlap`;
nothing in the code prevents it), and two bounds. The history `raced` has the
pipelines whose status a merge patch put together from two verdicts, or that were
reinstated on account of such a one.

Collisions stand for all three attributions (collision, size, waiting): they
share the write path, the reasons and the reinstatement. Pipeline lists are
fresh. The minute and hour timers (`PollPipeline`, `WakeWorkload`) fire when the
short ones are done, unless reconciles may overlap anyway.

### ConfigCheck

Processes, checks with an owner each, one sweeper per process. Time is in ticks;
the budget of a check counts down from the timeout of its owner, and time waits
for a deadline that has passed: context deadlines and timers fire promptly.
Requests fail, are cancelled by the deadline or the shutdown, and the write of a
request that was given up may land later (`late`). `Exit` ends a process also in
the middle of a cleanup. The garbage collector follows the owner reference from
the pod and the assets Secret to the root Secret. `GetPodLogs` gets the caller's
context and not the one with the deadline, so a check may read its logs past its
budget. The watch ends by itself when the deadline has passed. Checks have random names, so they meet only in the
sweepers. A sweep starts at any time (the ticker's period does not matter).

### EventCollector

`BeginApply`, `SetupCollector`, `StopObsolete` and `EndApply` are `applyConfig`,
host by host: senders run between any two of its steps. The first application is
under way when the process starts; `StartWatching` comes after it, and a change of
the file before that sets `missed` and is noticed by nobody. `collectors` keeps also
the stopped ones, because their goroutines go on for a while. A collector is at
its inner select (`Take`, `Flush`, `StopInSelect`), in a push (`Push`,
`PushFails`) or in the pause after a failure (`Wake`); the outer select, which
only looks whether the stop channel is closed, is folded into the step before it
(`Turn`). A push that fails may have reached the aggregator. `Take` is the
rendezvous of the informer's handler and the sender on their unbuffered channel;
an event is delivered once, in any order. Time is in instants, `Second` of which
make a second: an event has an exact time or one cut to the second.

### Debounce

`StartReconcile` to `Send` are a reconcile of a pipeline as far as workloads are
concerned: it lists them, returns if there are none or nothing has changed, runs
its check, writes the verdict and sends one event per listed workload to a bounded
channel, where it may block. `Receive`, `TickerFires` and `Flush` are
`reconcileWithDelay`, which receives nothing while it flushes; `Enqueue` is the
channel source of the workload controller, `StartRound`, `FinishRound` and
`FailRound` its rounds. `Restart` empties everything in memory and queues every
object. The three lanes of the program (agents, aggregators, cluster aggregators)
are alike and never wait for one another, so one of them is modelled. Edits,
failures and restarts are unbounded: a spec moves among finitely many versions,
one of them broken.

A round takes the *current* spec of a pipeline whose last verdict is good, which
is what `GetValidPipelines` does, so it may publish an edit before its verdict.
`missed` records the two cases in which the code tells a workload nothing: it
appeared between a reconcile's list and its verdict, or its round took an edit
that was then taken back before the reconcile of the pipeline looked.

### AggregatorObjects

The other half of `EnsureVectorAggregator`: everything but assets and config. A
round is a plan of jobs (`EnsurePlan`, `DeletePlan`) that `EnsureObject`,
`ListServices`, `DeleteObject`, `WriteWorkload` and `RemoveFinalizer` take in
order; it may fail at any of them. Objects in the namespace are owned and
garbage-collected; the cluster-wide ones are shared by all aggregators of the
name, and their events queue a round for all of them (`StartNamedRound`), which
does not ask for the finalizer. A workload is its replicas and the size of its
claims: `Update` is what the two `createOrUpdate` functions send, `Refused` the API
server's answer to a change of claims. Users create, edit, withdraw and tamper,
the autoscaler scales.

Histories name what the code does not promise: `waiting` is an aggregator that got
its finalizer and no request since (the write changes no generation, so its event
is filtered out and a new aggregator is built only when something else queues
it, unless the write also fills in fields the user left out, which the model leaves
aside as the easier case); `excused` is an aggregator that was built before its finalizer, or deleted
after its ClusterRole had gone, whose binding then stays. The live workload is read
and updated in one step: a change in between makes the update fail with a conflict,
which is a `FailRound`. Contents that differ only in the order of a map count as
equal (`Content`).

### SourceGroups and CheckpointMerge

`SourceGroups` is `optimizeAgentSources` and `collapseSourceGroup` as operators:
groups of sources of equal settings, names from a hash with an "x" per clash,
chunks of namespaces, flat or two-level routes. A stream is the set of namespaces
whose events it carries; how often an event comes is not counted (two sources of one
pipeline with equal settings deliver it twice, their collapsed one once). Names are records, so that two of them are equal exactly
when the code's strings are.

`CheckpointMerge` puts a pod around it. vector is external: `Read` delivers the
next line of a file to the consumers of a source, `Save` writes the position, an
opt-out of a pipeline reloads the config in place. `SwitchMode` and `Kill` start a
new pod, in which the merger runs first: `Collect`, then per target `PassTarget`,
or `WriteTemporary` and `Rename` (or `SkipTarget`), then `Finish`; `SkipMerge` is
an unreadable config or data directory. A namespace has one file on the node, a
position counts its lines.

## 3. Runs

All runs use the modules as they are; a `.cfg` only gives constants their values.

| run | bounds | result |
|---|---|---|
| `agent_single` | 2 pipelines, a key each, lengths 1-2, one variant, start also from an unmarked older version, a prompt cache, 2 edits, 2 faults, grace 2, latency 1 | `TypeOK`, `PublishInv`, `Publishes`, `GraceHonoured` hold (1 533 230 states) |
| `agent_dual` | both variants, mode switches, a failing standby build, a rejected selection, a lagging cache, one value of two lengths, both budgets bind, 2 edits, 1 fault | `NoDanglingReference`, `MountCoversReferences`, `StagedDataFits`, `GraceHonoured` hold (3 057 752 states) |
| `agent_live` | flag may change, cache may lag, 1 edit, 2 faults | `Converges` holds |
| `pipeline_status` | 2 pipelines that collide, 2 specs, 2 Secret versions, 2 edits; without overlap 1 fault, scoped, merged check and retries both on or both off; with overlap no fault, merged check on, retries off | `TypeOK`, `OutagesAreRetried`, `HiddenOnlyByRace`, `Settles` hold (476 504 states) |
| `check_sweep` | 2 processes, timeouts 3 and 2, minimum age 3, 3 faults | `TypeOK`, `NoFalseSuccess`, `RunningKeepsSecrets`, `NoLeftovers` hold (306 381 states) |
| `aggregator` | 2 pipelines, a key each, three selections, one of them rejected when both pipelines fit, all three values of persistence, a lagging cache, 2 edits, 1 fault, grace 2, latency 1 | `TypeOK`, `Publishes`, `GraceHonoured`, `Converges` hold (1 023 610 states) |
| `aggregator_objects` | 2 aggregators of one name, 3 specs, 3 steps of users or the autoscaler, 1 fault | `TypeOK`, `CollectorReady`, `OnlyCollectorRBACStays`, `RespectsAutoscaler`, `Converges` hold (347 167 states) |
| `event_collector` | 2 hosts, 3 targets, 2 namespaces, 2 events, batches of 2, 1 change of the config, 1 failed push | `TypeOK`, `NoGap`, `StoreOwnsRunning`, `Served`, `Delivered` hold |
| `debounce` | 1 pipeline with a good and a broken version, 2 workloads, channels of 1 event, a deleted pipeline stays deleted, no other bound | `TypeOK`, `NoLostWakeup`, `WorkloadIsServed` hold (742 744 states) |
| `checkpoint` | 4 sources in 3 namespaces, 2 groups with equal hashes, 1 namespace per source, files of 2 and 1 lines, 3 edits, 1 fault | `TypeOK`, `NothingSkipped`, `ConfigFaithful`, `NeverLowers`, `ResumesAtHighest`, `AgentStarts` hold (394 931 states) |
| `pipeline_overlap_valid` | 2 edits, no fault, overlapping reconciles | `NoHiddenBadSpec` is violated |
| `checkpoint_skip` | as `checkpoint`, 1 edit | `NoLineLost` is violated |

Why the bounds are enough for the cases that matter:

* With two pipelines whose values fit together or not depending on a rotation,
  the younger one is excluded, admitted, or made to wait; a bridge holds old and
  new keys; the last reference appears and disappears, so all three write orders
  occur. Two faults put a crash into a round and a failure into its retry; with both
  variants one fault and a standby build that fails when it likes do. Grace 2 with latency 1 tells "marked", "ageing" and "expired" apart.
* Two pipelines are an owner and a victim of a collision; two edits suffice for
  "fail, edit while failed, edit back". The `young` pipeline has a spec that is
  bad and references nothing. `OutagesAreRetried` and `HiddenOnlyByRace` were also
  checked with overlap and a fault (1.3 million states) and are proved (section 5).
* A single check is enough in `ConfigCheck` because checks do not interact. The
  successor's timeout is the shorter one, and its window, by `minOrphanAge`, just as
  long as the check may take. The theorems in section 5 remove the bound, but for `NoLeftovers`.
* Two edits of an aggregator change persistence and the references in either
  order, also while a round that a fault ended has left both kinds behind.
* One change of the event collector's config replaces, adds or removes a
  receiver, before the watch or after; two events make a full batch, or a batch that only the ticker sends;
  one failure is retried, finds the collector stopped, or repeats what arrived.
* Channels of one event are full most of the time, so every send of the lane
  blocks; two workloads make a flush that is interrupted by a full channel. Without
  the pipeline's return after a deletion (`MayReturn`) the state space is half as
  large; TLC finds the invariants to hold with it, too.
  `NoLostWakeup` is proved for all sizes (section 5). Blocked reconciles that
  compete for a slot need two pipelines; the fairness of that is assumed.
* The three specs of an aggregator differ in the kind of the workload, the claims,
  the autoscaler and every optional object; three user steps are a creation, an
  edit or a namesake, and a deletion. `Converges` asks of an aggregator that is alone
  that no other cluster-wide object is there, so what a namesake has left has to go.
* A limit of one namespace per source splits both groups, the flat threshold of
  zero makes all routing two-level, and three edits switch the mode on, off and on
  again, or with an opt-out in between; s2 and s3 share a file, s1 has one alone.
  `ConfigFaithful` is proved for all sizes. `MCCheckpointMerge` also assumes, for
  TLC to evaluate, that `bucketCount` gives the number of buckets with the fewest
  conditions for every group of up to 1000 namespaces, as its comment says;
  `BucketsAreBest` proves it for every size.

`CHECK_DEADLOCK FALSE` appears in the runs of `PipelineStatus` and
`EventCollector` only: with its bounds used up and no timers armed the operator
is idle, and a collector without events waits for some; that is where they should
end.

### What the violations show

1. *Overlap.* Two merge patches against different copies combine into "valid,
   hash of the broken spec", which the "no changes" return then skips.
   `HiddenOnlyByRace` says that nothing but such a mixture hides a bad spec.
2. *Skipped lines.* Two pipelines with different settings read the same file, each
   through its own source. When the pod restarts the merger lifts both sources to
   the higher of their positions, and the pipeline of the slower one never gets
   the lines in between. The documentation calls a redelivery the worst case.
   `NothingSkipped` says that a file with a single reader is safe.

More behaviours of the code that disagree with its documentation, or that one would
not expect, have no run of their own. The properties of the passing runs name the
first five as exceptions; other constants show the rest.

* *Stale mark.* (agents and aggregators) The prune decision reads the publish mark
  through the informer cache, next to a fresh comparison of the published config. A
  round publishes a config without a key; the next one comes before the cache has
  caught up, sees its config published and the mark of an earlier publication, and
  prunes the key at once, where `docs/secrets.md:161` promises a grace period since
  the publication. `GraceHonoured` grants exactly the rounds that read a replaced mark
  (`round.stale`); without that exception it is violated with the constants of
  `agent_dual`.
* *Rollback.* A switch back to the legacy config runs the merger, too, which lifts the
  legacy sources to the highest position that the optimized ones have saved
  (`ResumesAtHighest`). `docs/config-optimization.md:96` says that the saved
  per-source positions are restored and files that appeared since are read again.
* *Change before the watch.* The event collector reads and applies its file before it
  watches it. A change in between is never applied; `Served` names it (`missed`).
* *RBAC that stays.* `DeleteVectorAggregator` removes the ClusterRole and the
  ClusterRoleBinding of an aggregator, but not those of its event collector, which
  `cleanupEventCollector` removes only while the aggregator is alive. They stay until
  another aggregator of the name cleans up; `OnlyCollectorRBACStays` names them. If a
  round fails after it has removed the ClusterRole, the next one takes its absence for
  success and the binding stays as well (`excused`).
* *Slow logs, shorter timeout.* A sweeper deletes the Secrets of a check that is still
  reading its logs after its deadline, and a process with a shorter
  `--configcheck-timeout`, whose window is then shorter, those of a check that is in
  time: with `MinOrphanAge = 2` in `check_sweep` `Outwaited` fails for the check.
  `RunningKeepsSecrets` is about the other checks.
* *Bridge.* The second pass of the bridge plan runs on fewer pipelines than the
  first and can refuse one that the first admitted, because a pipeline that now
  has to wait no longer replaces its own stale, longer value. The refusal is
  ignored and the config published. It takes two variants whose contents have
  drifted apart through failed rounds: four pipelines, four edits and two faults
  in `AgentPublish` with both variants violate `NoDanglingReference`.
* *Mode switch.* (`agent_dual`) `hasSecretAssetsMount` looks for the assets of the current mode
  only. If a mode switch and the removal of the last reference meet in one round,
  the mounted Secret is deleted before the mount: with both variants and without
  any fault `MountedSecretExists` is violated, which is why `agent_dual` does not
  list it.
* *Migration off.* (`agent_dual`) The first round of a process without checkpoint migration
  deletes the standby assets before the standby config while the DaemonSet mounts
  both: with `Flags = {TRUE, FALSE}`, no edit and one fault (the restart)
  `NoDanglingReference` is violated.

## 4. Fairness

* `AgentPublish`: weak fairness of the round (the work queue hands out what is
  queued and a started reconcile runs on), of time, of the requeue and of the
  cache (watch events arrive). Faults, edits and restarts are bounded, not fair.
* `PipelineStatus`: weak fairness of the steps of each reconcile and of the
  retry; strong fairness of the poll, of the resync and of the start of a round,
  which others can disable for a moment again and again without stopping them
  for good. `Settles` is about the settings without overlap and with
  `--enable-reconciliation-invalid-pipelines`: without the flag a pipeline that failed because a configcheck broke down stays failed
  until it is edited. A rotation between the read of the Secret and
  `SecretIndex.Set` after a restart is repaired only by the resync.
  The status of the loser of a collision flickers on every poll (its own check
  passes, the next round fails it again): so `Settles` asks that the published
  set stays right and that the status is right again and again.
* `AggregatorPublish`: weak fairness of the round, of time, of the requeue and of
  the cache.
* `AggregatorObjects`: weak fairness of the steps of a round, strong fairness of
  its start per request: the controller has one worker, and its work queue serves
  requests in their order.
* `Debounce`: weak fairness of reconciles, of the debouncing loop, of its ticker
  and of the channel source; strong fairness of a blocked send and of the start of
  a round, since the Go runtime serves blocked senders and the work queue serves
  requests in the order of their arrival. Restarts and failures may go on for
  ever, but a queued workload then still gets its round now and then. The run uses
  `MCFairSpec`, which asks for less: nothing of the checks, and strong fairness
  only for the rounds of the workload in question.
* `CheckpointMerge`: weak fairness of the merger. vector need not do anything.
* `EventCollector`: weak fairness of applyConfig, of the start of the watch and of
  every sender: goroutines run on, the informer delivers, the ticker fires, a push
  succeeds when no fault is left. Time, events and changes of the config are bounded, not fair.
* `ConfigCheck`: weak fairness of started checks, of the garbage collector, of
  the sweepers, of the end of a shutdown and of time, and of a restart when no
  process is left (the Deployment of the operator).

## 5. Proofs

Everything is proved from the assumptions named in the modules (`RefsAssumption`,
`BornAssumption`, `FiniteAssumption`, `BudgetAssumption`, `PublishAssumption`,
`CheckAssumption`, `LongestAssumption`, `DebounceAssumption`, `SourceAssumption`,
`MergeAssumption`, `EventCollectorAssumption`, `ObjectsAssumption`,
`StatusAssumption`, `AggregatorAssumption`): types of the constants, distinct ages
of the pipelines, finitely many pipelines and keys, a grace period longer than the latency of a round, channels that
hold something, finitely many sources, a process with the longest timeout. TLC
evaluates them in every run of their modules. Where a theorem needs more, it says
so in its statement, and the list below says why.

A property is seldom inductive as it stands: a round that has only planned its
writes can break it later. What each proof adds is what a round, a task or a
sender carries with it between its steps.

**AgentPublish**

* `TypeCorrect` (`Spec => []TypeOK`). One step per action; the lemmas about `Stage`
  say that staging yields `Data`, those about `RequeueAfter` and `NextStep` that
  the requeue stays within the grace period and a round always has a next step.
* `PublishSafe` (`Flags = {FALSE} => (Spec => []PublishInv)`), and from it
  `ReferencesAreStaged` (`NoDanglingReference`), `MountsFollowOrders`
  (`MountCoversReferences` and `MountedSecretExists`) and `ImplementsPublication`
  (`Publishes`: each write is a step of `Publication`, made when its guard holds). `PublishInv` adds to the
  three: the staged data cover both the config a round found and the config it
  will publish (`PlanCovers`), a step that relies on the assets comes after the
  step that wrote them (`StagedBeforeUse`), and the mount changes on its side of
  them (`MountFollowsOrder`). `PlanCovers` is where the prune decision and the
  bridge enter: a round that may prune has found its own config published, a round
  that may not keeps every key. With one variant pass 2 of the bridge runs on
  exactly what pass 1 admitted and admits it again; that step is an argument by
  the oldest pipeline the passes disagree on (`OldestExists`).
  `Flags = {FALSE}` is the operator without `--enable-checkpoint-migration`; with
  it the statements are false (*Bridge* and *Mode switch* in section 3).
* `MountBeforeReference` (`Spec => []MountCoversReferences`), for every flag, also
  one that changes at a restart. `MountInv` does without the assets: a round that
  plans no key publishes no reference (`EmptyPlan`), one that gains the mount
  writes the DaemonSet before the config (`MountedFirst`), one that loses it after
  (`UnmountedLast`).
* `BothVariantsAreStaged` (`Flags = {TRUE} => (Spec /\ []PlanIsComplete =>
  []NoDanglingReference)`). With both variants the plan has to cover two configs
  with two Secrets, whichever of them a failed round or a failed standby build left
  behind (`BothCovered`, `BothStaged`). `PlanIsComplete` says that pass 2 of the
  bridge leaves out no pipeline that is published: for values of any lengths that
  refusal is the only thing that can leave a reference without its key (*Bridge*).
  With a flag that changes the statement is false (*Migration off*).
* `GrowingValuesAreStaged` (`Flags = {TRUE} => (Spec /\ [][NoShorterValue]_vars =>
  []NoDanglingReference)`): pass 2 refuses nothing while no rotation makes a value
  shorter. A pass over part of what an earlier pass accepted accepts all of it, if
  nothing in the Secret is longer than its current value (`GreedySteady`), and
  `GrowthInv` keeps it so.
* `StagedDataAlwaysFits` (`Spec => []StagedDataFits`), for every flag. The sizes of
  a Secret are folds over its keys. `SizesAreSums` shows that a fold is a sum in the
  usual sense, by a smallest counterexample among the finite sets (`MinimalSubset`)
  where induction is not to be had; then less data fit (`SmallerFits`), and what a
  greedy pass accepts fits (`GreedyFits`). `FitsInv` adds the data a round is about
  to write.
* `PassHasOneOutcome`: for any Secret, values and pipelines `Greedy` has exactly one
  solution, as the loops of the code have one result.
* `GracePeriodHonoured` (`FlagStays => (Spec => GraceHonoured)`), for one variant or
  both, with a cache that lags or not. `GraceInv` follows the age of a key from the config write that dropped it to the
  round that prunes it: the mark vouches for every key the config does not
  reference (`MarkVouches`), because a config that may differ is written soon after
  the mark (`MarkBeforeConfig`); and what a round is going to drop is old enough
  (`DropsAreOld`), unless it decided on a mark that had been replaced, and it
  publishes nothing (`UnchangedConfig`). Such a round is the exception that the
  property names (*Stale mark* in section 3); a process that starts without migration
  drops the standby assets at once (*Migration off*), hence `FlagStays`.
* `RestsOnlyWhenSettled` (`~AltMayFail => (Spec => []NeverStuck)`): an agent with no
  round, no event and no requeue is where `Converges` wants it to end, or its config
  was rejected, for every flag, with a lagging cache, faults and restarts. `RestInv`
  adds that a round which is going to end without a wakeup is working on the current
  inputs (`PlanCurrent`) and has changed nothing (`NothingChanged`), so that the
  cluster is already as planned. That nobody waits for room then is `NobodyWaits`:
  pipelines that fit together also fit on top of the exact data of some of them. A
  standby build that fails is retried only when something else queues the Vector,
  which is why `AltMayFail` is excluded.

**AggregatorPublish**

* `TypeCorrect`, and `ImplementsPublication` (`Spec => Publishes`): every initial
  state maps to an initial state of `Publication`, every step to one of its steps
  or a stutter. `Publication!Next` guards each write with what makes it safe, so
  the proof has to show that a round makes each write only when it is: `PublishInv`
  is the agent's invariant for two kinds of workload at once (`MountsFollowOrder`
  over both), and says that a kind nobody saw alive when the round began has not
  come to life since (`ObsoleteSeen`).
* `GracePeriodHonoured` (`Spec => GraceHonoured`). The argument of the agent, with
  the same exception for a replaced mark and without its hypothesis: there is one
  variant and no flag.
* `RestsOnlyWhenPublished` (`Spec => []NeverStuck`): at rest an aggregator has
  published what it has room for, with exactly the keys of that and one workload of
  the right kind, or its config was rejected. That nobody waits for room for ever is
  left to `Converges`.

**PipelineStatus**

* `TypeCorrect`, with and without overlap.
* `BadSpecsStayVisible` (`Spec => []HiddenOnlyByRace`), with and without overlap.
  `SoundInv` says that every verdict a task or a round is about to write is `Sound`,
  and every status, too, that no merge patch has mixed (`raced`): a valid status of a
  spec that does not pass its own check has no token, so the next reconcile does not
  take it for unchanged. A round writes such a status when it reinstates the loser of
  a collision. `TurnsInv` says that without overlap nothing is mixed: what a task or a
  round has read is still there when it writes (`FreshTask`, `RoundFresh`). The run
  `pipeline_overlap_valid` shows that the exception is real.
* `OutagesGetAnotherAttempt` (`Spec => []OutagesAreRetried`), with and without overlap.
  `OutageInv` follows the reason "secret" from the failed read to the next attempt:
  whoever writes over it takes the reason away, and until then the token is empty and
  the pipeline is queued, waiting for its retry or being reconciled (`Retried`). A
  victim of a collision always gets the name of a survivor (`SurvivorIsAccepted`).

**ConfigCheck**

* `TypeCorrect` and `VerdictsAreTrue` (`NoFalseSuccess`), for any number of
  processes and checks. `VerdictInv` adds that a pod succeeds only with a good
  config. `LongestAssumption` makes the bound on the ages a number.
* `SweepersSpareChecks` (`Spec => []RunningKeepsSecrets`), whatever the timeouts and
  however long the logs take. The invariant (`SweepInv`) says that the age of a Secret
  and the budget left add up to at most the timeout, and that neither a late write nor
  the list of a sweep under way mentions a Secret of a check that is within its budget
  and whose timeout is within every sweeper's window. The two conditions are part of
  the property, check by check: the code guarantees neither (*Slow logs, shorter
  timeout* in section 3).

**EventCollector**, for any hosts, targets, events and batch sizes

* `TypeCorrect` and `NothingLost` (`NoGap`). Of every collector, also the stopped
  ones, the batch is the end of what it accepted, and there is room in it whenever
  its sender is at the inner select (`Good`).
* `NoCollectorEscapes` (`StoreOwnsRunning`) and `UnchangedReceiversServed`
  (`OnlyObsoleteStopped`). `StoreInv` adds that the store keeps a collector under
  its own host, `ApplyOK` that a host applyConfig has not met is in the store and
  is obsolete or still to be set up.
* `AppliedConfigIsServed`: whenever applyConfig has returned and no change of the file
  is pending or was missed before the watch, `ServesConfig` holds, the state that `Served` wants in
  the end. `AppliedInv` says how far applyConfig is: the hosts it has set up are
  served, and a collector the file does not ask for is one it has yet to stop.

**Debounce**

* `TypeCorrect` and `WakeupsArrive` (`Spec => []NoLostWakeup`), for any number of
  pipelines and workloads and any capacities. The invariant `Inv` adds to
  `NoLostWakeup` that a worker without a workload has read nothing (`RoundOK`).
  Each step of the lane moves an event without dropping it (`Awaited` is carried
  over, with `ToSetAppend` and `ToSetTail` for the channels), and the verdicts,
  deletions and rounds start one or make up for it.

**AggregatorObjects**, for any number of namesakes and any specs

* `TypeCorrect` and `ReplicasAreTheAutoscalers` (`RespectsAutoscaler`).
* `LastOneCleansUp` (`OnlyCollectorRBACStays`). `LeftInv` says that the ClusterRole and
  the ClusterRoleBinding always have an owner that will remove them or be noticed when it cannot
  (`SharedOwned`). That needs the order of a plan: the workload is written first,
  so an aggregator that a round has built RBAC for is a built one
  (`WorkloadFirst`); a deletion has removed what its plan no longer lists
  (`DeletionPlanned`); and the aggregators of a round are there, or went without a
  finalizer while it ran (`OwnersThere`).
* `CollectorNeverAlone` (`CollectorReady`), if users do not delete the collector's
  configuration or account themselves (`Fragile \cap Base = {}`; the statement is
  about what the operator does). In what is left of a plan nothing the collector
  uses is removed before it, nor created after it (`CollectorPlanned`).
* `RestsOnlyWhenWanted` (`"pdb" \notin Fragile => (Spec => []NeverStuck)`): the half
  of `Converges` that needs no fairness, and for namesakes that live side by side
  too. When no request and no round is left, every live aggregator that was asked
  for since its finalizer is as wanted. `QuietInv` says why: what is not right is
  still a job of the plan (`Covered`), or its aggregator is later in the round
  (`Ahead`), or a request is queued. So every change has to be heard of (`Heard`),
  by the aggregator itself or by name; a job that changes nothing found its object
  right; and a failed round asks again for all it was going to do (`Requested`).
  The hypothesis is there because nobody watches a PodDisruptionBudget
  (`SetupWithManager`): one that a user deletes is missing until another event.

**SourceGroups and CheckpointMerge**, for any sources, hash, digest and limits

* `ConfigsAreFaithful` (`ConfigFaithful`). The heart is `NamesTellSignatures`: two
  groups of the same hash differ in the number of clashes before them, because the
  later one has strictly more of them (`LaterHasMoreClashes`, a fact about finite
  sets); `StreamPreserved` says that the route behind the bucket of a namespace
  passes exactly its events.
* `BucketsAreBest`: `bucketCount` doubles a power of two until its square reaches the
  number of namespaces, or the maximum is reached, and then compares it with its
  half; by `MoreIsBetter` and `LessIsBetter` the number of conditions does not rise
  up to there and does not fall beyond.
* `TypeCorrect`, `MergerNeverLowers` (`NeverLowers`) and `ResumesHighest`
  (`ResumesAtHighest`). `MergeInv`: from `Collect` to `Finish` the positions
  collected stay the highest of all readable directories, although these are being
  written, and a target that was done without a fault has them.
* `NothingIsSkipped` (`NothingSkipped`). `DeliveryInv` extends the property from
  saved and reached positions to those the merger holds, and to every name, in use
  or not.

Only model-checked:

* all liveness properties (`Converges`, `Settles`, `NoLeftovers`, `Served`,
  `Delivered`, `WorkloadIsServed`, `AgentStarts`): fairness and ENABLED are out of
  the prover's reach;
* `NoDanglingReference` with both variants and values that get shorter: it holds in
  `agent_dual` and is false in larger instances (*Bridge*);
* that an aggregator alone ends without cluster-wide objects it does not want (part of
  `Converges`).

## 6. Not modelled

* RBAC, Service and PodMonitor of an agent: idempotent writes that can only fail
  (part of `FailRound`); the deletion of a Vector.
* What the controller of `ClusterVectorAggregator` does differently: it selects
  cluster pipelines and looks after the resource namespace.
* The goroutine of a stopped collector's informer handler, events delivered again
  by a relist or an update, receivers that share a host, the assignment of ports
  to `kubernetes_events` sources. A failing `grpc.NewClient`: it only parses the
  address, and a collector with an address it refuses would try again every five
  seconds and not look at its stop channel.
* The syntax of `SECRET[...]` tokens, flat-key names, and the YAML of the merged
  config: data that no property here tells apart. Component names that two
  pipelines may share because their parts are joined with dashes, and specs that
  share a CRC32.
* Selection of pipelines by labels, roles and namespaces. Workloads in a namespace
  that is being deleted: their rounds return at once.
* Two operator processes in a round at the same time (leader election is off by
  default); the truncation of creation timestamps to seconds, which makes a Secret
  look up to a second older to a sweeper.
* That the VRL expression of a bucket computes what the Go function does; the JSON
  of a checkpoint file.
* API types, generated code and the rest of the pod templates, which have no state
  of their own.

## 7. Plan

1. Receivers that share a host, and ports, in `EventCollector`; the order of maps in
   the contents of `AggregatorObjects`.
2. `PipelineStatus` with lists that lag and a second workload; `AgentPublish` with
   the rounds of two processes.
