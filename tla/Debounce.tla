------------------------------ MODULE Debounce ------------------------------
(***************************************************************************)
(* How a verdict on a pipeline reaches the workloads: the reconciles of    *)
(* the pipelines (internal/controller/pipeline_controller.go) send an      *)
(* event per workload to a bounded channel, reconcileWithDelay             *)
(* (cmd/manager/main.go) coalesces the events of a window and sends them   *)
(* to a second bounded channel, and the controller of the workloads takes  *)
(* them into its work queue.                                               *)
(*                                                                         *)
(* The program has this lane three times, for agents, aggregators and      *)
(* cluster aggregators.  Nothing behind a channel ever waits for a         *)
(* reconcile of a pipeline, so the lanes only share the order in which a   *)
(* reconcile fills them, and one lane stands for the three.                *)
(*                                                                         *)
(* A spec has a version that users change for ever and may change back.    *)
(***************************************************************************)
EXTENDS Naturals, Sequences, SequencesExt

CONSTANTS
    Pipeline,
    Workload,
    Version,      \* the contents a pipeline's spec may have
    Bad,          \* the contents that a config check rejects
    MayReturn,    \* bound: pipelines that are created again once deleted
    InCapacity,   \* capacity of the channel the pipelines send to
    OutCapacity   \* capacity of the channel the workload controller reads

ASSUME DebounceAssumption ==
    /\ InCapacity \in Nat \ {0} /\ OutCapacity \in Nat \ {0}
    /\ Bad \subseteq Version /\ MayReturn \subseteq Pipeline
    /\ "absent" \notin Version \cup Workload

VARIABLES
    spec,     \* spec[p]: the version of the pipeline, or Absent
    verdict,  \* verdict[p]: the version .status speaks of, or Absent
    pqueue,   \* work queue of the pipeline controller
    worker,   \* worker[p]: the reconcile of p in progress
    exists,   \* the workloads there are
    in,       \* the channel reconcileWithDelay receives from
    store,    \* the events of the window
    phase,    \* where reconcileWithDelay is: in its select or in its flush
    out,      \* the channel it sends to
    queue,    \* work queue of the workload controller
    round,    \* the reconcile of a workload in progress
    built,    \* built[k][p]: the version of p in the config of k, or Absent
    missed    \* history: <<k, p>> where k may never hear of the last verdict

pipes == <<spec, verdict, pqueue, worker>>
lane  == <<in, store, phase, out>>
vars  == <<pipes, exists, lane, queue, round, built, missed>>

-----------------------------------------------------------------------------

Absent == "absent"

Content == Version \cup {Absent}

(* What GetValidPipelines gives a round: a pipeline whose last verdict is  *)
(* good, as it is now.                                                     *)
Valid(p) == IF verdict[p] \in Version \ Bad THEN spec[p] ELSE Absent

(* What the last verdict vouches for.                                      *)
Vouched(p) == IF verdict[p] \in Version \ Bad THEN verdict[p] ELSE Absent

Idle == [step |-> "idle", version |-> Absent, todo |-> {}]

Sending(todo) == [step |-> "send", version |-> Absent, todo |-> todo]

Worker == [step : {"idle", "check", "send"}, version : Content, todo : SUBSET Workload]

NoRound == [of |-> Absent, read |-> [p \in Pipeline |-> Absent]]

Round == [of : Workload \cup {Absent}, read : [Pipeline -> Content]]

TypeOK ==
    /\ spec \in [Pipeline -> Content] /\ verdict \in [Pipeline -> Content]
    /\ pqueue \subseteq Pipeline
    /\ worker \in [Pipeline -> Worker]
    /\ exists \subseteq Workload
    /\ in \in Seq(Workload) /\ Len(in) <= InCapacity
    /\ store \subseteq Workload
    /\ phase \in {"select", "flush"}
    /\ out \in Seq(Workload) /\ Len(out) <= OutCapacity
    /\ queue \subseteq Workload
    /\ round \in Round
    /\ built \in [Workload -> [Pipeline -> Content]]
    /\ missed \subseteq Workload \X Pipeline

(* The process starts in a cluster with some pipelines and workloads: the  *)
(* first lists of the informers queue every object there is.               *)
Init ==
    /\ spec \in [Pipeline -> Version]
    /\ verdict = [p \in Pipeline |-> Absent]
    /\ pqueue = Pipeline
    /\ worker = [p \in Pipeline |-> Idle]
    /\ exists \in SUBSET Workload
    /\ in = <<>> /\ store = {} /\ phase = "select" /\ out = <<>>
    /\ queue = exists
    /\ round = NoRound
    /\ built = [k \in Workload |-> [p \in Pipeline |-> Absent]]
    /\ missed = {}

-----------------------------------------------------------------------------
(* The users.                                                              *)

(* A new spec, of a pipeline that may have been deleted before.            *)
Edit(p) ==
    /\ spec[p] # Absent \/ p \in MayReturn
    /\ \E v \in Version \ {spec[p]} : spec' = [spec EXCEPT ![p] = v]
    /\ pqueue' = pqueue \cup {p}
    /\ UNCHANGED <<verdict, worker, exists, lane, queue, round, built, missed>>

(* A deleted pipeline is out of every later list at once.                  *)
Delete(p) ==
    /\ spec[p] # Absent
    /\ spec' = [spec EXCEPT ![p] = Absent]
    /\ verdict' = [verdict EXCEPT ![p] = Absent]
    /\ pqueue' = pqueue \cup {p}
    /\ UNCHANGED <<worker, exists, lane, queue, round, built, missed>>

CreateWorkload(k) ==
    /\ k \notin exists
    /\ exists' = exists \cup {k}
    /\ queue' = queue \cup {k}
    /\ UNCHANGED <<pipes, lane, round, built, missed>>

-----------------------------------------------------------------------------
(* Reconcile of a pipeline.  The work queue never gives a pipeline to two  *)
(* of the workers, so a worker is named after its pipeline.                *)

(* The workloads are listed before the check.  Without any the reconcile   *)
(* ends, and so it does when .status speaks of this spec already; the      *)
(* deletion of the pipeline goes to the workloads without a check.         *)
StartReconcile(p) ==
    /\ p \in pqueue /\ worker[p].step = "idle"
    /\ pqueue' = pqueue \ {p}
    /\ worker' =
        [worker EXCEPT ![p] =
            IF exists = {} THEN Idle
            ELSE IF spec[p] = Absent
                 THEN Sending(exists)
            ELSE IF verdict[p] = spec[p] THEN Idle
            ELSE [step |-> "check", version |-> spec[p], todo |-> exists]]
    /\ UNCHANGED <<spec, verdict, exists, lane, queue, round, built, missed>>

(* SetSuccessStatus, then the events; a workload that has appeared since   *)
(* the list gets none.                                                     *)
Accept(p) ==
    /\ worker[p].step = "check" /\ spec[p] # Absent
    /\ worker[p].version \notin Bad
    /\ verdict' = [verdict EXCEPT ![p] = worker[p].version]
    /\ worker' = [worker EXCEPT ![p] = Sending(@.todo)]
    /\ missed' = (missed \ (worker[p].todo \X {p})) \cup ((exists \ worker[p].todo) \X {p})
    /\ UNCHANGED <<spec, pqueue, exists, lane, queue, round, built>>

(* SetFailedStatus: no workload hears of it.                               *)
Reject(p) ==
    /\ worker[p].step = "check" /\ spec[p] # Absent
    /\ worker[p].version \in Bad
    /\ verdict' = [verdict EXCEPT ![p] = worker[p].version]
    /\ worker' = [worker EXCEPT ![p] = Idle]
    /\ UNCHANGED <<spec, pqueue, exists, lane, queue, round, built, missed>>

(* The pipeline has gone: the patch of its status fails and is retried.    *)
PatchFails(p) ==
    /\ worker[p].step = "check" /\ spec[p] = Absent
    /\ worker' = [worker EXCEPT ![p] = Idle]
    /\ pqueue' = pqueue \cup {p}
    /\ UNCHANGED <<spec, verdict, exists, lane, queue, round, built, missed>>

(* Plausible bug: the channel takes any number of events.                  *)
SendUnbounded(p) ==
    /\ worker[p].step = "send"
    /\ \E k \in worker[p].todo :
        /\ in' = Append(in, k)
        /\ worker' = [worker EXCEPT ![p] =
                        IF @.todo = {k} THEN Idle ELSE Sending(@.todo \ {k})]
    /\ UNCHANGED <<spec, verdict, pqueue, exists, store, phase, out, queue, round,
                   built, missed>>

(* A send blocks while the channel is full.                                *)
Send(p) ==
    /\ worker[p].step = "send"
    /\ Len(in) < InCapacity
    /\ \E k \in worker[p].todo :
        /\ in' = Append(in, k)
        /\ worker' = [worker EXCEPT ![p] =
                        IF @.todo = {k} THEN Idle ELSE Sending(@.todo \ {k})]
    /\ UNCHANGED <<spec, verdict, pqueue, exists, store, phase, out, queue, round,
                   built, missed>>

-----------------------------------------------------------------------------
(* reconcileWithDelay.                                                     *)

Receive ==
    /\ phase = "select" /\ in # <<>>
    /\ in' = Tail(in)
    /\ store' = store \cup {Head(in)}
    /\ UNCHANGED <<pipes, exists, phase, out, queue, round, built, missed>>

(* Plausible bug: every event resets the ticker.                           *)
TickerAfterSilence ==
    /\ phase = "select" /\ store # {} /\ in = <<>>
    /\ phase' = "flush"
    /\ UNCHANGED <<pipes, exists, in, store, out, queue, round, built, missed>>

(* The ticker runs on whatever arrives.                                    *)
TickerFires ==
    /\ phase = "select" /\ store # {}
    /\ phase' = "flush"
    /\ UNCHANGED <<pipes, exists, in, store, out, queue, round, built, missed>>

(* Plausible bug: an event that finds the channel full is dropped.         *)
FlushOrDrop ==
    /\ phase = "flush"
    /\ \E k \in store :
        /\ out' = IF Len(out) < OutCapacity THEN Append(out, k) ELSE out
        /\ store' = store \ {k}
        /\ phase' = IF store = {k} THEN "select" ELSE "flush"
    /\ UNCHANGED <<pipes, exists, in, queue, round, built, missed>>

(* One event of the flush; a send to a full channel blocks, and with it    *)
(* the input.                                                              *)
Flush ==
    /\ phase = "flush" /\ Len(out) < OutCapacity
    /\ \E k \in store :
        /\ out' = Append(out, k)
        /\ store' = store \ {k}
        /\ phase' = IF store = {k} THEN "select" ELSE "flush"
    /\ UNCHANGED <<pipes, exists, in, queue, round, built, missed>>

-----------------------------------------------------------------------------
(* The controller of the workloads, which has one worker.  The workload's  *)
(* own configcheck, an option, is off: PipelineStatus has it.              *)

(* source.Channel: the event becomes a request, unless there is one.       *)
Enqueue ==
    /\ out # <<>>
    /\ out' = Tail(out)
    /\ queue' = queue \cup {Head(out)}
    /\ UNCHANGED <<pipes, exists, in, store, phase, round, built, missed>>

(* A round lists the valid pipelines first.  One that is edited after its  *)
(* verdict comes with the edit; if the edit is taken back before its own   *)
(* reconcile, that finds nothing changed and no event follows.             *)
StartRound(k) ==
    /\ round = NoRound /\ k \in queue
    /\ queue' = queue \ {k}
    /\ round' = [of |-> k, read |-> [p \in Pipeline |-> Valid(p)]]
    /\ missed' = (missed \ ({k} \X Pipeline)) \cup ({k} \X {p \in Pipeline : Valid(p) # Vouched(p)})
    /\ UNCHANGED <<pipes, exists, lane, built>>

FinishRound ==
    /\ round # NoRound
    /\ built' = [built EXCEPT ![round.of] = round.read]
    /\ round' = NoRound
    /\ UNCHANGED <<pipes, exists, lane, queue, missed>>

(* A round that fails is queued again.                                     *)
FailRound ==
    /\ round # NoRound
    /\ queue' = queue \cup {round.of}
    /\ round' = NoRound
    /\ UNCHANGED <<pipes, exists, lane, built, missed>>

(* The process stops at any point and starts again.                        *)
Restart ==
    /\ pqueue' = {p \in Pipeline : spec[p] # Absent}
    /\ worker' = [p \in Pipeline |-> Idle]
    /\ in' = <<>> /\ store' = {} /\ phase' = "select" /\ out' = <<>>
    /\ queue' = exists
    /\ round' = NoRound
    /\ UNCHANGED <<spec, verdict, exists, built, missed>>

-----------------------------------------------------------------------------

Users == \E p \in Pipeline : Edit(p) \/ Delete(p)

System ==
    \/ \E p \in Pipeline : \/ StartReconcile(p) \/ Accept(p) \/ Reject(p)
                           \/ PatchFails(p) \/ Send(p)
    \/ Receive \/ TickerFires \/ Flush \/ Enqueue
    \/ \E k \in Workload : StartRound(k)
    \/ FinishRound

Next ==
    \/ Users \/ (\E k \in Workload : CreateWorkload(k))
    \/ System
    \/ FailRound \/ Restart

Spec == Init /\ [][Next]_vars

(* Goroutines run, the ticker fires, and the runtime serves those blocked  *)
(* on a channel in the order of their arrival, as the work queue does its  *)
(* requests: a reconcile that waits for a slot gets one although others    *)
(* wait too.  Restarts and failures may go on for ever, but not so fast    *)
(* that no round is ever started.                                          *)
Fairness ==
    /\ \A p \in Pipeline : /\ WF_vars(StartReconcile(p) \/ Accept(p) \/ Reject(p) \/ PatchFails(p))
                           /\ SF_vars(Send(p))
    /\ WF_vars(Receive) /\ WF_vars(TickerFires) /\ WF_vars(Flush) /\ WF_vars(Enqueue)
    /\ \A k \in Workload : SF_vars(StartRound(k))
    /\ WF_vars(FinishRound)

FairSpec == Spec /\ Fairness

-----------------------------------------------------------------------------
(* Properties.                                                             *)

(* An event for k is on its way.                                           *)
Awaited(k) ==
    \/ \E p \in Pipeline : worker[p].step = "send" /\ k \in worker[p].todo
    \/ k \in ToSet(in) \/ k \in store \/ k \in ToSet(out)
    \/ k \in queue

(* The config of k, or the one its round is about to write, has p as the   *)
(* last verdict wants it.                                                  *)
UpToDate(k, p) ==
    Vouched(p) = IF round.of = k THEN round.read[p] ELSE built[k][p]

(* The workloads are told of good verdicts and of deletions.               *)
Told(p) ==
    \/ verdict[p] \in Version \ Bad
    \/ spec[p] = Absent /\ p \notin pqueue

(* No wakeup is lost: when the last good verdict on a pipeline, or its     *)
(* deletion, is not in the config of a workload, an event for the workload *)
(* is in the hands of a blocked reconcile, in a channel, in the window or  *)
(* in the work queue, through coalescing, blocking sends, failed rounds    *)
(* and restarts.  The exceptions are the code's: a workload that appeared  *)
(* between a reconcile's list and its verdict, and one whose round took an *)
(* edit for the spec the verdict was about, until the next verdict or      *)
(* round (pipeline_controller.go, reconcile; main.go, reconcileWithDelay). *)
NoLostWakeup ==
    \A k \in exists, p \in Pipeline :
        Told(p) /\ <<k, p>> \notin missed /\ ~UpToDate(k, p) => Awaited(k)

(* Under a stream of edits that never ends, with both channels full again  *)
(* and again, an event that is waiting leads to a round of its workload:   *)
(* neither the coalescing window nor the two bounded channels starve or    *)
(* block for ever (main.go, reconcileWithDelay, "Do NOT reset the ticker").*)
EventReachesRound(k) == Awaited(k) ~> round.of = k
=============================================================================
