--------------------------- MODULE PipelineStatus ---------------------------
(***************************************************************************)
(* The status of pipelines: one object, two writers.                       *)
(*                                                                         *)
(* The pipeline controller (internal/controller/pipeline_controller.go)    *)
(* validates a pipeline on its own and writes the verdict; a workload      *)
(* controller (resolveWorkloadPipelines and reinstatePipelines in          *)
(* internal/controller/secrets.go) merges the valid pipelines, marks the   *)
(* younger of two that collide as failed and marks it valid again once it  *)
(* has published it.  Both write with a merge patch against the status     *)
(* they read when they started, and neither holds anything in between.     *)
(*                                                                         *)
(* A pipeline references one Secret, of which only the version counts, or  *)
(* none; a spec is a version too.  Zero stands for absent.                 *)
(***************************************************************************)
EXTENDS Integers, FiniteSets

CONSTANTS
    Pipeline,
    Born,          \* Born[p]: rank by (creationTimestamp, id)
    Good,          \* Good[p]: the specs of p that build and pass the configcheck
    Clash,         \* the sets {<<p, s>>, <<q, t>>} of specs with a common flat
                   \*   key for different Secret keys
    Bare,          \* the pairs <<p, s>> of specs without a Secret reference
    MaxSpec,       \* bound: specs a pipeline goes through
    MaxVersion,    \* bound: versions of its Secret
    Options,       \* the settings the operator may run with, and a bound for each:
                   \*   its failed requests and restarts
    MaxEdits       \* bound: edits of specs and Secrets

ASSUME StatusAssumption ==
    /\ {"none", "own", "secret", "empty"} \cap Pipeline = {}
    /\ Born \in [Pipeline -> Nat]
    /\ \A p, q \in Pipeline : Born[p] = Born[q] => p = q
    /\ MaxSpec \in Nat \ {0} /\ MaxVersion \in Nat \ {0}
    /\ Good \in [Pipeline -> SUBSET (1..MaxSpec)]
    /\ Clash \subseteq SUBSET (Pipeline \X (1..MaxSpec))
    /\ Bare \subseteq Pipeline \X (1..MaxSpec) /\ \A c \in Clash : c \cap Bare = {}
    /\ Options \subseteq [retryInvalid : BOOLEAN, mergedCheck : BOOLEAN, scoped : BOOLEAN,
                         overlap : BOOLEAN, maxFaults : Nat]
    /\ MaxEdits \in Nat

VARIABLES
    spec,       \* spec[p]: the current spec, 0 when the pipeline is deleted
    secret,     \* secret[p]: the current version of its Secret
    status,     \* status[p]: .status on the API server
    indexed,    \* the pipelines in the SecretIndex
    queue,      \* the pipelines queued for the pipeline controller
    retry,      \* the pipelines with a RequeueAfter running
    task,       \* task[p]: the reconcile of p in progress
    wqueued,    \* the workload is queued
    round,      \* the workload's reconcile in progress
    published,  \* published[p]: the spec and Secret version in the workload
    options,    \* the settings, which stay what they are
    raced,      \* history: the pipelines whose status mixes two verdicts
    edits, faults

users == <<spec, secret, options, edits>>
vars == <<users, status, raced, indexed, queue, retry, task, wqueued, round, published, faults>>

-----------------------------------------------------------------------------

(* --enable-reconciliation-invalid-pipelines.                              *)
RetryInvalid == options.retryInvalid

(* The configcheck of the workload is not disabled.                        *)
MergedCheck == options.mergedCheck

(* setupCustomCache: the operator is scoped, so that rotations may escape  *)
(* the watch and the rotation poll is armed.                               *)
Scoped == options.scoped

MaxFaults == options.maxFaults

(* Does a workload round overlap the reconcile of a pipeline?  Nothing in  *)
(* the code keeps them apart; where they do not overlap more can be said.  *)
Overlap == options.overlap

None == [spec |-> 0, version |-> 0]

(* A status: configCheckResult, reason, lastAppliedPipelineHash (the spec  *)
(* it was computed from) and relatedSecretsHash (the Secret version).  The *)
(* reason tells a failed check, a Secret that cannot be read and a         *)
(* collision, named by the pipeline that survived it, apart.               *)
Status == [result : {"unset", "valid", "failed"},
           reason : {"none", "own", "secret"} \cup Pipeline,
           hash : 0..MaxSpec, related : 0..MaxVersion]

Fresh == [result |-> "unset", reason |-> "none", hash |-> 0, related |-> 0]

Idle == [pc |-> "idle"]

Exists(p) == spec[p] # 0

(* UsedSecretBackends finds a reference in the spec.                       *)
References(p, s) == s # 0 /\ <<p, s>> \notin Bare

(* resolveRelatedSecrets: the token is nil for a pipeline that references  *)
(* nothing.                                                                *)
Token(p) == IF References(p, spec[p]) THEN secret[p] ELSE 0

(* SecretIndex.Set with the references of the pipeline read as spec s.     *)
Index(p, s) == IF References(p, s) THEN indexed \cup {p} ELSE indexed \ {p}

(* isSecretAttributionReason.                                              *)
Attributed(st) == st.reason \in Pipeline

IsValid(st) == st.result = "valid"

(* k8s.PatchStatus: a merge patch carries the fields that differ from the  *)
(* base, whatever the server holds by now.                                 *)
Patched(current, base, obj) == IF obj # base THEN obj ELSE current

MergePatch(current, base, obj) ==
    [result |-> Patched(current.result, base.result, obj.result),
     reason |-> Patched(current.reason, base.reason, obj.reason),
     hash |-> Patched(current.hash, base.hash, obj.hash),
     related |-> Patched(current.related, base.related, obj.related)]

(* Plausible bug: the empty reason is written instead of clearing it.      *)
SuccessEmptyReason(base, s, token) ==
    [base |-> base,
     obj |-> [result |-> "valid", reason |-> "empty", hash |-> s, related |-> token]]

(* pipeline.SetSuccessStatus, of an object read as base: the reason is     *)
(* always part of the patch.                                               *)
Success(base, s, token) ==
    [base |-> [base EXCEPT !.reason = "empty"],
     obj |-> [result |-> "valid", reason |-> "none", hash |-> s, related |-> token]]

(* pipeline.SetFailedStatus.                                               *)
Failure(base, reason, s, token) ==
    [base |-> base,
     obj |-> [result |-> "failed", reason |-> reason, hash |-> s, related |-> token]]

(* The patch.  The history notes a status that is not the one its writer   *)
(* meant, or that rests on such a one (~sure).                             *)
Apply(p, write, sure) ==
    LET result == MergePatch(status[p], write.base, write.obj)
    IN  /\ status' = [status EXCEPT ![p] = result]
        /\ raced' = IF sure /\ result = write.obj THEN raced \ {p} ELSE raced \cup {p}

(* DetectSecretCollisions: oldest first, a pipeline is accepted unless it  *)
(* clashes with an accepted one.                                           *)
Clashes(specs, p, q) == {<<p, specs[p]>>, <<q, specs[q]>>} \in Clash

Accepted(specs, pool, A) ==
    /\ A \subseteq pool
    /\ \A p \in pool :
          p \in A <=> ~ \E q \in A : Born[q] < Born[p] /\ Clashes(specs, p, q)

Survivor(specs, A, p) ==
    CHOOSE q \in A : /\ Born[q] < Born[p] /\ Clashes(specs, p, q)
                     /\ \A r \in A : Clashes(specs, p, r) => Born[q] =< Born[r]

-----------------------------------------------------------------------------

(* The operator starts on pipelines nobody has looked at yet.              *)
Init ==
    /\ spec \in [Pipeline -> {1}]
    /\ secret \in [Pipeline -> {1}]
    /\ status = [p \in Pipeline |-> Fresh]
    /\ indexed = {}
    /\ queue = Pipeline
    /\ retry = {}
    /\ task = [p \in Pipeline |-> Idle]
    /\ wqueued = TRUE
    /\ round = Idle
    /\ published = [p \in Pipeline |-> None]
    /\ options \in Options
    /\ raced = {}
    /\ edits = 0
    /\ faults = 0

-----------------------------------------------------------------------------
(* The users.                                                              *)

Edit ==
    /\ edits < MaxEdits
    /\ edits' = edits + 1
    /\ UNCHANGED <<options, status, raced, indexed, retry, task, wqueued, round, published,
                   faults>>

(* A generation or annotation change, or the deletion of the pipeline.     *)
EditSpec(p) ==
    /\ Edit
    /\ Exists(p)
    /\ \E s \in 0..MaxSpec \ {spec[p]} : spec' = [spec EXCEPT ![p] = s]
    /\ queue' = queue \cup {p}
    /\ UNCHANGED secret

(* setupCustomCache: the informer of a scoped operator may not hold the    *)
(* Secret, and its watch then says nothing.                                *)
Reported(p) == {{p}} \cup (IF Scoped THEN {{}} ELSE {})

(* A rotation.  mapSecretToPipelines queues the pipelines the index knows. *)
RotateSecret(p) ==
    /\ Edit
    /\ secret[p] < MaxVersion
    /\ secret' = [secret EXCEPT ![p] = @ + 1]
    /\ \E seen \in Reported(p) : queue' = queue \cup (seen \cap indexed)
    /\ UNCHANGED spec

-----------------------------------------------------------------------------
(* The pipeline controller.                                                *)

(* getPipeline and resolveRelatedSecrets.                                  *)
ReadPipeline(p) ==
    /\ p \in queue /\ task[p] = Idle
    /\ Overlap \/ round = Idle
    /\ queue' = queue \ {p}
    /\ task' = [task EXCEPT ![p] = [pc |-> "index", spec |-> spec[p], base |-> status[p],
                                    token |-> Token(p)]]
    /\ UNCHANGED <<users, status, raced, indexed, retry, wqueued, round, published, faults>>

(* The pipeline is gone: the index forgets it, the workloads are told.     *)
ForgetPipeline(p) ==
    /\ task[p].pc = "index" /\ task[p].spec = 0
    /\ indexed' = Index(p, 0)
    /\ wqueued' = TRUE
    /\ task' = [task EXCEPT ![p] = Idle]
    /\ UNCHANGED <<users, status, raced, queue, retry, round, published, faults>>

(* Plausible bug: a failed verdict is as good as a valid one.              *)
UnchangedWhateverTheVerdict(p) ==
    /\ task[p].base.hash = task[p].spec
    /\ task[p].base.related = task[p].token

(* A failed pipeline is looked at again if invalid pipelines are retried.  *)
Unchanged(p) ==
    /\ ~RetryInvalid \/ IsValid(task[p].base)
    /\ task[p].base.hash = task[p].spec
    /\ task[p].base.related = task[p].token

(* The "no changes" return.                                                *)
SkipPipeline(p) ==
    /\ task[p].pc = "index" /\ task[p].spec # 0
    /\ Unchanged(p)
    /\ indexed' = Index(p, task[p].spec)
    /\ task' = [task EXCEPT ![p] = Idle]
    /\ UNCHANGED <<users, status, raced, queue, retry, wqueued, round, published, faults>>

IndexPipeline(p) ==
    /\ task[p].pc = "index" /\ task[p].spec # 0
    /\ ~Unchanged(p)
    /\ indexed' = Index(p, task[p].spec)
    /\ task' = [task EXCEPT ![p].pc = "check"]
    /\ UNCHANGED <<users, status, raced, queue, retry, wqueued, round, published, faults>>

Patching(p, write, again) ==
    [task EXCEPT ![p] = [pc |-> "patch", write |-> write, again |-> again]]

(* The build and the configcheck of the pipeline on its own: a spec that   *)
(* does not build is not retried, one that the configcheck rejects may be. *)
CheckPipeline(p) ==
    /\ task[p].pc = "check"
    /\ LET t == task[p]
       IN  IF t.spec \in Good[p]
           THEN task' = Patching(p, Success(t.base, t.spec, t.token), FALSE)
           ELSE \E again \in {FALSE, RetryInvalid} :
                   task' = Patching(p, Failure(t.base, "own", t.spec, t.token), again)
    /\ UNCHANGED <<users, status, raced, indexed, queue, retry, wqueued, round, published, faults>>

(* The configcheck fails for a reason that is not the config: the pipeline *)
(* is marked failed all the same.                                          *)
CheckFault(p) ==
    /\ task[p].pc = "check"
    /\ faults < MaxFaults
    /\ faults' = faults + 1
    /\ LET t == task[p]
       IN  task' = Patching(p, Failure(t.base, "own", t.spec, t.token), RetryInvalid)
    /\ UNCHANGED <<users, status, raced, indexed, queue, retry, wqueued, round, published>>

(* Plausible bug: the token of the attempt is kept.                        *)
SecretFaultKeepsToken(p) ==
    /\ task[p].pc \in {"index", "check"} /\ References(p, task[p].spec)
    /\ faults < MaxFaults
    /\ faults' = faults + 1
    /\ indexed' = Index(p, task[p].spec)
    /\ LET t == task[p]
       IN  task' = Patching(p, Failure(t.base, "secret", t.spec, t.token), TRUE)
    /\ UNCHANGED <<users, status, raced, queue, retry, wqueued, round, published>>

(* The Secret cannot be read, for the token or later for the build: no     *)
(* token is kept, even of a pipeline that has not changed, and a retry is  *)
(* due.                                                                    *)
SecretFault(p) ==
    /\ task[p].pc \in {"index", "check"} /\ References(p, task[p].spec)
    /\ faults < MaxFaults
    /\ faults' = faults + 1
    /\ indexed' = Index(p, task[p].spec)
    /\ LET t == task[p]
       IN  task' = Patching(p, Failure(t.base, "secret", t.spec, 0), TRUE)
    /\ UNCHANGED <<users, status, raced, queue, retry, wqueued, round, published>>

Announcing == [pc |-> "announce"]

(* The status write.  A success is still to be announced to the workloads, *)
(* a failure never is.                                                     *)
PatchPipeline(p) ==
    /\ task[p].pc = "patch"
    /\ Apply(p, task[p].write, TRUE)
    /\ retry' = IF task[p].again THEN retry \cup {p} ELSE retry
    /\ task' = [task EXCEPT ![p] = IF IsValid(@.write.obj) THEN Announcing ELSE Idle]
    /\ UNCHANGED <<users, indexed, queue, wqueued, round, published, faults>>

(* The events for the workloads.                                           *)
AnnouncePipeline(p) ==
    /\ task[p].pc = "announce"
    /\ wqueued' = TRUE
    /\ task' = [task EXCEPT ![p] = Idle]
    /\ UNCHANGED <<users, status, raced, indexed, queue, retry, round, published, faults>>

(* RequeueAfter expires.  It is longer than a reconcile.                   *)
RetryPipeline(p) ==
    /\ p \in retry /\ task[p] = Idle
    /\ queue' = queue \cup {p}
    /\ retry' = retry \ {p}
    /\ UNCHANGED <<users, status, raced, indexed, task, wqueued, round, published, faults>>

(* The long timers run in minutes and hours.  If reconciles do not         *)
(* overlap they end first.                                                 *)
LongTimer ==
    \/ Overlap
    \/ /\ queue = {} /\ ~wqueued
       /\ round = Idle /\ \A q \in Pipeline : task[q] = Idle

(* The rotation poll, which a scoped operator arms for a pipeline with     *)
(* references on every reconcile that does not arm an earlier retry.       *)
PollPipeline(p) ==
    /\ Scoped /\ References(p, spec[p])
    /\ p \notin queue /\ p \notin retry
    /\ LongTimer
    /\ queue' = queue \cup {p}
    /\ UNCHANGED <<users, status, raced, indexed, retry, task, wqueued, round, published, faults>>

-----------------------------------------------------------------------------
(* The workload controller.                                                *)

(* An event of an object the workload owns, at the latest the resync of    *)
(* the informers: Owns filters neither.                                    *)
WakeWorkload ==
    /\ ~wqueued
    /\ LongTimer
    /\ wqueued' = TRUE
    /\ UNCHANGED <<users, status, raced, indexed, queue, retry, task, round, published, faults>>

(* Plausible bug: the edit made while the pipeline was failed is trusted.  *)
NeverEdited(p) == FALSE

(* resolveWorkloadPipelines: the valid pipelines and the ones a workload   *)
(* failed, but those edited since only as rivals; the statuses of the      *)
(* victims are written one by one.                                         *)
Candidates == {p \in Pipeline : Exists(p) /\ (IsValid(status[p]) \/ Attributed(status[p]))}

EditedWhileFailed(p) == ~IsValid(status[p]) /\ status[p].hash # spec[p]

StartRound ==
    /\ wqueued /\ round = Idle
    /\ Overlap \/ \A p \in Pipeline : task[p] = Idle
    /\ \E A \in SUBSET Candidates :
             /\ Accepted(spec, Candidates, A)
             /\ round' = [pc |-> "mark", tainted |-> raced,
                          specs |-> spec, seen |-> status, versions |-> [p \in Pipeline |-> Token(p)],
                          owner |-> [p \in Candidates \ A |-> Survivor(spec, A, p)],
                          todo |-> {p \in Candidates \ A : status[p].reason # Survivor(spec, A, p)},
                          target |-> {p \in A : ~EditedWhileFailed(p)}]
    /\ wqueued' = FALSE
    /\ UNCHANGED <<users, status, raced, indexed, queue, retry, task, published, faults>>

(* writeAttributionReasonIfChanged.                                        *)
MarkVictim(p) ==
    /\ round.pc = "mark" /\ p \in round.todo
    /\ Apply(p, Failure(round.seen[p], round.owner[p], round.specs[p], 0), TRUE)
    /\ round' = [round EXCEPT !.todo = @ \ {p}]
    /\ UNCHANGED <<users, indexed, queue, retry, task, wqueued, published, faults>>

(* A bad spec is one that only a configcheck rejects if that of the        *)
(* workload is disabled.                                                   *)
Broken(p) == MergedCheck /\ round.specs[p] \notin Good[p]

(* The merged build or its configcheck fails: nothing is published, nobody *)
(* is reinstated.                                                          *)
RejectRound ==
    /\ round.pc = "mark" /\ round.todo = {}
    /\ \E p \in round.target : Broken(p)
    /\ round' = Idle
    /\ UNCHANGED <<users, status, raced, indexed, queue, retry, task, wqueued, published, faults>>

(* The config and the assets are published.                                *)
PublishRound ==
    /\ round.pc = "mark" /\ round.todo = {}
    /\ ~ \E p \in round.target : Broken(p)
    /\ published' = [p \in Pipeline |-> IF p \in round.target
                       THEN [spec |-> round.specs[p], version |-> round.versions[p]] ELSE None]
    /\ round' = [round EXCEPT !.pc = "reinstate",
                              !.todo = {p \in round.target : ~IsValid(round.seen[p])}]
    /\ UNCHANGED <<users, status, raced, indexed, queue, retry, task, wqueued, faults>>

(* reinstatePipelines: the hash is the snapshot's, the token untouched.    *)
Reinstate(p) ==
    /\ round.pc = "reinstate" /\ p \in round.todo
    /\ Apply(p, Success(round.seen[p], round.specs[p], round.seen[p].related),
             p \notin round.tainted)
    /\ round' = [round EXCEPT !.todo = @ \ {p}]
    /\ UNCHANGED <<users, indexed, queue, retry, task, wqueued, published, faults>>

FinishRound ==
    /\ round.pc = "reinstate" /\ round.todo = {}
    /\ round' = Idle
    /\ UNCHANGED <<users, status, raced, indexed, queue, retry, task, wqueued, published, faults>>

(* A request fails: the key is queued again.  The lists of workloads are   *)
(* no requests: the informers, synced before the first reconcile, answer   *)
(* them, so their error return without a retry is not taken.               *)
FailPipeline(p) ==
    /\ task[p].pc \in {"index", "check", "patch"}
    /\ faults < MaxFaults
    /\ faults' = faults + 1
    /\ task' = [task EXCEPT ![p] = Idle]
    /\ queue' = queue \cup {p}
    /\ UNCHANGED <<users, status, raced, indexed, retry, wqueued, round, published>>

FailRound ==
    /\ round # Idle
    /\ faults < MaxFaults
    /\ faults' = faults + 1
    /\ round' = Idle
    /\ wqueued' = TRUE
    /\ UNCHANGED <<users, status, raced, indexed, queue, retry, task, published>>

(* A new operator process: everything is queued, the index is empty.       *)
Restart ==
    /\ faults < MaxFaults
    /\ faults' = faults + 1
    /\ indexed' = {}
    /\ queue' = {p \in Pipeline : Exists(p)}
    /\ retry' = {}
    /\ task' = [p \in Pipeline |-> Idle]
    /\ wqueued' = TRUE
    /\ round' = Idle
    /\ UNCHANGED <<users, status, raced, published>>

-----------------------------------------------------------------------------

PipelineStep(p) ==
    \/ ReadPipeline(p) \/ ForgetPipeline(p) \/ SkipPipeline(p) \/ IndexPipeline(p)
    \/ CheckPipeline(p) \/ PatchPipeline(p) \/ AnnouncePipeline(p)

RoundStep ==
    \/ StartRound \/ RejectRound \/ PublishRound \/ FinishRound
    \/ \E p \in Pipeline : MarkVictim(p) \/ Reinstate(p)

Next ==
    \/ \E p \in Pipeline :
          \/ EditSpec(p) \/ RotateSecret(p) \/ PipelineStep(p) \/ RetryPipeline(p)
          \/ PollPipeline(p)
          \/ CheckFault(p) \/ SecretFault(p) \/ FailPipeline(p)
    \/ WakeWorkload \/ RoundStep \/ FailRound \/ Restart

Spec == Init /\ [][Next]_vars

(* Both work queues hand out what is queued, a started reconcile runs on   *)
(* and timers expire.  The long timers and a round that waits for running  *)
(* reconciles get their turn although others keep coming back.             *)
Fairness ==
    /\ \A p \in Pipeline : /\ WF_vars(PipelineStep(p)) /\ WF_vars(RetryPipeline(p))
                            /\ SF_vars(PollPipeline(p))
    /\ SF_vars(WakeWorkload) /\ WF_vars(RoundStep) /\ SF_vars(StartRound)

FairSpec == Spec /\ Fairness

-----------------------------------------------------------------------------
(* Properties.                                                             *)

(* Types: every status that the merge patches of the two writers produce   *)
(* is a status, with a reason that is nil or a text (SetSuccessStatus).    *)
TypeOK ==
    /\ spec \in [Pipeline -> 0..MaxSpec]
    /\ secret \in [Pipeline -> 0..MaxVersion]
    /\ status \in [Pipeline -> Status]
    /\ indexed \subseteq Pipeline /\ queue \subseteq Pipeline /\ retry \subseteq Pipeline
    /\ raced \subseteq Pipeline
    /\ \A p \in Pipeline : task[p].pc \in {"idle", "index", "check", "patch", "announce"}
    /\ wqueued \in BOOLEAN
    /\ round.pc \in {"idle", "mark", "reinstate"}
    /\ published \in [Pipeline -> [spec : 0..MaxSpec, version : 0..MaxVersion]]
    /\ options \in Options
    /\ edits \in 0..MaxEdits /\ faults \in 0..MaxFaults

(* A pipeline that failed because its Secret could not be read for a       *)
(* moment is on its way to another attempt, whatever the retry of invalid  *)
(* pipelines says and whatever a workload writes in between: nothing else  *)
(* would wake it, since the Secret has not changed (SetRelatedSecretsHash  *)
(* and the RequeueAfter of pipeline_controller.go).                        *)
OutagesAreRetried ==
    \A p \in Pipeline :
        Exists(p) /\ status[p].reason = "secret" =>
            p \in queue \/ p \in retry \/ task[p] # Idle

(* The status claims a spec valid that does not pass its own check, and    *)
(* the "no changes" return hides it for good.                              *)
HiddenBadSpec(p) ==
    /\ Exists(p) /\ IsValid(status[p])
    /\ status[p].hash = spec[p] /\ status[p].related = Token(p)
    /\ spec[p] \notin Good[p]

(* No status hides a bad spec (reinstatePipelines).  The overlap of a      *)
(* round with a reconcile violates it.                                     *)
NoHiddenBadSpec == \A p \in Pipeline : ~HiddenBadSpec(p)

(* Nothing else violates it: where reconciles and rounds take turns no     *)
(* status hides a bad spec, and where they overlap only one that a merge   *)
(* patch put together from two verdicts, or a reinstatement that trusted   *)
(* such a one (PatchStatus).                                               *)
HiddenOnlyByRace == \A p \in Pipeline : HiddenBadSpec(p) => Overlap /\ p \in raced

(* What should be published, from the specs alone.                         *)
Deserving ==
    LET good == {p \in Pipeline : Exists(p) /\ spec[p] \in Good[p]}
    IN  CHOOSE A \in SUBSET good : Accepted(spec, good, A)

PublishedRight ==
    published = [p \in Pipeline |-> IF p \in Deserving
                    THEN [spec |-> spec[p], version |-> Token(p)] ELSE None]

StatusRight ==
    \A p \in Pipeline :
        Exists(p) => status[p].result = IF p \in Deserving THEN "valid" ELSE "failed"

(* Once users and faults stop, an operator that retries invalid pipelines  *)
(* and whose rounds and reconciles take turns ends up with a workload of   *)
(* exactly the good pipelines that lose no collision, at their current     *)
(* specs and Secret values, and every status keeps coming back to the      *)
(* truth: the loser of a collision may flicker, it does not stick          *)
(* (resolveWorkloadPipelines).                                             *)
Settles == RetryInvalid /\ ~Overlap => <>[]PublishedRight /\ []<>StatusRight

=============================================================================
