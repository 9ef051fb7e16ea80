----------------------------- MODULE ConfigCheck -----------------------------
(***************************************************************************)
(* The configcheck (internal/config/configcheck): a Run writes the config  *)
(* and, if there are any, the secret values into temporary Secrets, starts *)
(* a pod that validates them, waits for its verdict and cleans up.  The    *)
(* process may stop at any point; the orphan sweeper of every operator     *)
(* process deletes the Secrets that are older than any check can be.  Two  *)
(* processes overlap during a rolling update.                              *)
(*                                                                         *)
(* Names are random, so checks meet only in the sweepers.                  *)
(***************************************************************************)
EXTENDS Integers, FiniteSets, FiniteSetsExt

CONSTANTS
    Process,       \* the operator processes
    Check,         \* the checks: bound, each runs once
    Owner,         \* Owner[c]: the process that runs c
    Timeout,       \* Timeout[o]: --configcheck-timeout of process o
    MinOrphanAge,  \* minOrphanAge
    MaxFaults      \* bound: failed requests, lost pods and processes

ASSUME CheckAssumption ==
    /\ Owner \in [Check -> Process]
    /\ Timeout \in [Process -> Nat \ {0}]
    /\ MinOrphanAge \in Nat /\ MaxFaults \in Nat

(* There are processes, and not so many that none has the longest timeout. *)
ASSUME LongestAssumption ==
    \E m \in Process : \A o \in Process : Timeout[o] =< Timeout[m]

VARIABLES
    process,   \* process[o]: up, stopping after SIGTERM, or down
    check,     \* check[c]: is its config good, does it reference secret
               \*   values, where Run is, its budget, its outcome
    age,       \* age[c][s]: age of the Secret, or Absent
    pod,       \* pod[c]: the pod of the check
    late,      \* the writes <<c, s>> that were given up but may still land
    sweep,     \* sweep[o]: the sweeper of process o
    faults

vars == <<process, check, age, pod, late, sweep, faults>>

-----------------------------------------------------------------------------

Absent == -1

Temporary == {"root", "assets"}

(* SweepOrphans: the window is the timeout of the sweeping process.        *)
Window(o) == IF Timeout[o] < MinOrphanAge THEN MinOrphanAge ELSE Timeout[o]

(* bound: no sweeper tells ages apart beyond this one                      *)
MaxAge == Max({Window(o) : o \in Process}) + 1

Outcome == {"none", "valid", "invalid", "skipped", "timeout", "error"}

(* A blind check watches a pod that was gone before.                       *)
Steps == {"new", "prepare", "root", "assets", "pod", "watch", "wait", "blind",
          "logs", "cleanRoot", "cleanAssets", "done"}

Phase == {"none", "pending", "succeeded", "failed", "unstartable", "deleted"}

(* The steps that the deadline of Run bounds.  GetPodLogs gets the         *)
(* caller's context instead, and has no bound of its own.                  *)
Bounded == {"prepare", "root", "assets", "pod", "watch", "wait", "blind"}

Overdue(c) == check[c].pc \in Bounded /\ check[c].budget = 0

At(c, step) == check[c].pc = step

Waiting(c) == At(c, "wait") \/ At(c, "blind")

(* A request of c under the budget goes through.                           *)
InTime(c) == process[Owner[c]] = "up" /\ check[c].budget > 0

Go(c, step) == check' = [check EXCEPT ![c].pc = step]

End(c, step, outcome) ==
    check' = [check EXCEPT ![c].pc = step, ![c].outcome = outcome]

Fault ==
    /\ faults < MaxFaults
    /\ faults' = faults + 1

Init ==
    /\ process = [o \in Process |-> "up"]
    /\ check \in [Check -> [good : BOOLEAN, assets : BOOLEAN, pc : {"new"},
                           budget : {0}, outcome : {"none"}]]
    /\ age = [c \in Check |-> [s \in Temporary |-> Absent]]
    /\ pod = [c \in Check |-> "none"]
    /\ late = {}
    /\ sweep = [o \in Process |-> [pc |-> "start", todo |-> {}]]
    /\ faults = 0

-----------------------------------------------------------------------------
(* Run.                                                                    *)

Begin(c) ==
    /\ process[Owner[c]] = "up" /\ check[c].pc = "new"
    /\ check' = [check EXCEPT ![c].pc = "prepare", ![c].budget = Timeout[Owner[c]]]
    /\ UNCHANGED <<process, age, pod, late, sweep, faults>>

(* The namespace is terminating.                                           *)
SkipCheck(c) ==
    /\ At(c, "prepare") /\ InTime(c)
    /\ End(c, "done", "skipped")
    /\ UNCHANGED <<process, age, pod, late, sweep, faults>>

(* The namespace is there, the service account exists.                     *)
Prepare(c) ==
    /\ At(c, "prepare") /\ InTime(c)
    /\ Go(c, "root")
    /\ UNCHANGED <<process, age, pod, late, sweep, faults>>

CreateRoot(c) ==
    /\ At(c, "root") /\ InTime(c)
    /\ age' = [age EXCEPT ![c]["root"] = 0]
    /\ Go(c, IF check[c].assets THEN "assets" ELSE "pod")
    /\ UNCHANGED <<process, pod, late, sweep, faults>>

CreateAssets(c) ==
    /\ At(c, "assets") /\ InTime(c)
    /\ age' = [age EXCEPT ![c]["assets"] = 0]
    /\ Go(c, "pod")
    /\ UNCHANGED <<process, pod, late, sweep, faults>>

CreatePod(c) ==
    /\ At(c, "pod") /\ InTime(c)
    /\ pod' = [pod EXCEPT ![c] = "pending"]
    /\ Go(c, "watch")
    /\ UNCHANGED <<process, age, late, sweep, faults>>

(* Plausible bugs: the timeout is added to the deadline; the timer of      *)
(* getCheckResult starts over.                                             *)
WatchAddsTimeout(c) ==
    /\ At(c, "watch") /\ InTime(c)
    /\ check' = [check EXCEPT ![c].pc = "wait", ![c].budget = @ + Timeout[Owner[c]]]
    /\ UNCHANGED <<process, age, pod, late, sweep, faults>>

WatchRestartsTimer(c) ==
    /\ At(c, "watch") /\ InTime(c)
    /\ check' = [check EXCEPT ![c].pc = "wait", ![c].budget = Timeout[Owner[c]]]
    /\ UNCHANGED <<process, age, pod, late, sweep, faults>>

(* getCheckResult: the watch is established.                               *)
Watch(c) ==
    /\ At(c, "watch") /\ InTime(c)
    /\ Go(c, IF pod[c] = "deleted" THEN "blind" ELSE "wait")
    /\ UNCHANGED <<process, age, pod, late, sweep, faults>>

(* A request of the preparation fails, or the deadline or the shutdown     *)
(* cancels it.  Cancelled or not, its write may still arrive.              *)
GiveUp(c) ==
    /\ check[c].pc \in {"prepare", "root", "assets", "pod", "watch"}
    /\ IF InTime(c) THEN Fault ELSE UNCHANGED faults
    /\ End(c, IF check[c].pc = "prepare" THEN "done" ELSE "cleanRoot", "error")
    /\ late' \in {late} \cup (IF check[c].pc \in Temporary
                              THEN {late \cup {<<c, check[c].pc>>}} ELSE {})
    /\ UNCHANGED <<process, age, pod, sweep>>

(* An event for a pod that has come to an end or cannot start.             *)
Observe(c) ==
    /\ At(c, "wait")
    /\ \/ pod[c] = "succeeded" /\ End(c, "cleanRoot", "valid")
       \/ pod[c] = "failed" /\ Go(c, "logs")
       \/ pod[c] = "unstartable" /\ End(c, "cleanRoot", "invalid")
       \/ pod[c] = "deleted" /\ End(c, "cleanRoot", "error")
    /\ UNCHANGED <<process, age, pod, late, sweep, faults>>

(* Plausible bug: a watch that ends without an event is no error.          *)
ClosedIsNoError(c) ==
    /\ Waiting(c)
    /\ Fault
    /\ End(c, "cleanRoot", "valid")
    /\ UNCHANGED <<process, age, pod, late, sweep>>

(* The watch ends: its connection breaks, or its context, which has the    *)
(* deadline of the check, is done before the timer is.                     *)
WatchCloses(c) ==
    /\ Waiting(c)
    /\ IF InTime(c) THEN Fault ELSE UNCHANGED faults
    /\ End(c, "cleanRoot", "error")
    /\ UNCHANGED <<process, age, pod, late, sweep>>

(* The context of the caller is done.                                      *)
Cancelled(c) ==
    /\ Waiting(c) /\ process[Owner[c]] = "stopping"
    /\ End(c, "cleanRoot", "error")
    /\ UNCHANGED <<process, age, pod, late, sweep, faults>>

TimeOut(c) ==
    /\ Waiting(c) /\ check[c].budget = 0
    /\ End(c, "cleanRoot", "timeout")
    /\ UNCHANGED <<process, age, pod, late, sweep, faults>>

(* GetPodLogs: with the logs the check has failed, without them it has     *)
(* only broken down.                                                       *)
ReadLogs(c) ==
    /\ At(c, "logs")
    /\ \/ pod[c] = "failed" /\ process[Owner[c]] = "up" /\ End(c, "cleanRoot", "invalid")
       \/ pod[c] = "deleted" /\ End(c, "cleanRoot", "error")
       \/ process[Owner[c]] = "stopping" /\ End(c, "cleanRoot", "error")
    /\ UNCHANGED <<process, age, pod, late, sweep, faults>>

(* The request for the logs fails.                                         *)
LogsFail(c) ==
    /\ At(c, "logs")
    /\ Fault
    /\ End(c, "cleanRoot", "error")
    /\ UNCHANGED <<process, age, pod, late, sweep>>

CleaningStep(s) == IF s = "root" THEN "cleanRoot" ELSE "cleanAssets"

AfterCleaning(s) == IF s = "root" THEN "cleanAssets" ELSE "done"

(* cleanup, one Secret after the other, on a context of its own.           *)
Clean(c, s) ==
    /\ At(c, CleaningStep(s))
    /\ age' = [age EXCEPT ![c][s] = Absent]
    /\ Go(c, AfterCleaning(s))
    /\ UNCHANGED <<process, pod, late, sweep, faults>>

(* A failed deletion does not stop the next one; a check that passed       *)
(* returns the error of its cleanup.                                       *)
CleanFails(c, s) ==
    /\ At(c, CleaningStep(s))
    /\ Fault
    /\ End(c, AfterCleaning(s),
           IF check[c].outcome = "valid" THEN "error" ELSE check[c].outcome)
    /\ UNCHANGED <<process, age, pod, late, sweep>>

-----------------------------------------------------------------------------
(* The cluster.                                                            *)

(* vector validate comes to an end.  Only a good config passes; a pod may  *)
(* fail for other reasons.                                                 *)
FinishPod(c) ==
    /\ pod[c] = "pending"
    /\ \E phase \in {"failed", "unstartable"} \cup (IF check[c].good THEN {"succeeded"} ELSE {}) :
          pod' = [pod EXCEPT ![c] = phase]
    /\ UNCHANGED <<process, check, age, late, sweep, faults>>

(* Somebody else deletes the pod.                                          *)
LosePod(c) ==
    /\ pod[c] \notin {"none", "deleted"}
    /\ Fault
    /\ pod' = [pod EXCEPT ![c] = "deleted"]
    /\ UNCHANGED <<process, check, age, late, sweep>>

(* The garbage collector follows the ownerReference to the root Secret.    *)
CollectGarbage(c) ==
    /\ age[c]["root"] = Absent
    /\ age[c]["assets"] # Absent \/ pod[c] \notin {"none", "deleted"}
    /\ age' = [age EXCEPT ![c]["assets"] = Absent]
    /\ pod' = [pod EXCEPT ![c] = IF @ = "none" THEN @ ELSE "deleted"]
    /\ UNCHANGED <<process, check, late, sweep, faults>>

LandLate(c, s) ==
    /\ <<c, s>> \in late
    /\ late' = late \ {<<c, s>>}
    /\ age' = [age EXCEPT ![c][s] = 0]
    /\ UNCHANGED <<process, check, pod, sweep, faults>>

-----------------------------------------------------------------------------
(* The processes and their sweepers.                                       *)

Shutdown(o) ==
    /\ process[o] = "up"
    /\ Fault
    /\ process' = [process EXCEPT ![o] = "stopping"]
    /\ sweep' = [sweep EXCEPT ![o] = [pc |-> "start", todo |-> {}]]
    /\ UNCHANGED <<check, age, pod, late>>

(* The end of a shutdown, in the middle of a cleanup if it takes too long: *)
(* nobody resumes a check.                                                 *)
Exit(o) ==
    /\ process[o] = "stopping"
    /\ process' = [process EXCEPT ![o] = "down"]
    /\ check' = [c \in Check |-> IF Owner[c] = o /\ ~At(c, "new")
                    THEN [check[c] EXCEPT !.pc = "done"] ELSE check[c]]
    /\ UNCHANGED <<age, pod, late, sweep, faults>>

(* The next process.                                                       *)
Restart(o) ==
    /\ process[o] = "down"
    /\ process' = [process EXCEPT ![o] = "up"]
    /\ UNCHANGED <<check, age, pod, late, sweep, faults>>

Orphans(o) == {x \in Check \X Temporary : age[x[1]][x[2]] > Window(o)}

(* Plausible bug: one pass, when the process starts.                       *)
SweepAtStart(o) ==
    /\ process[o] = "up" /\ sweep[o].pc = "start"
    /\ sweep' = [sweep EXCEPT ![o] = [pc |-> "pass", todo |-> Orphans(o)]]
    /\ UNCHANGED <<process, check, age, pod, late, faults>>

(* RunOrphanSweeper: a pass at the start and at every tick of the ticker.  *)
StartSweep(o) ==
    /\ process[o] = "up" /\ sweep[o].pc \in {"start", "ticker"}
    /\ sweep' = [sweep EXCEPT ![o] = [pc |-> "pass", todo |-> Orphans(o)]]
    /\ UNCHANGED <<process, check, age, pod, late, faults>>

SweepSecret(o, c, s) ==
    /\ sweep[o].pc = "pass" /\ <<c, s>> \in sweep[o].todo
    /\ sweep' = [sweep EXCEPT ![o].todo = @ \ {<<c, s>>}]
    /\ \/ age' = [age EXCEPT ![c][s] = Absent] /\ UNCHANGED faults
       \/ Fault /\ UNCHANGED age
    /\ UNCHANGED <<process, check, pod, late>>

EndSweep(o) ==
    /\ sweep[o].pc = "pass" /\ sweep[o].todo = {}
    /\ sweep' = [sweep EXCEPT ![o].pc = "ticker"]
    /\ UNCHANGED <<process, check, age, pod, late, faults>>

Older(a) == IF a = Absent THEN Absent ELSE IF a < MaxAge THEN a + 1 ELSE a

(* Time.  A deadline that has passed takes effect before it moves on.      *)
Tick ==
    /\ ~ \E c \in Check : Overdue(c)
    /\ age' = [c \in Check |-> [s \in Temporary |-> Older(age[c][s])]]
    /\ check' = [c \in Check |-> IF check[c].budget > 0
                    THEN [check[c] EXCEPT !.budget = @ - 1] ELSE check[c]]
    /\ UNCHANGED <<process, pod, late, sweep, faults>>

-----------------------------------------------------------------------------

RunStep(c) ==
    \/ SkipCheck(c) \/ Prepare(c) \/ CreateRoot(c) \/ CreateAssets(c) \/ CreatePod(c)
    \/ Watch(c) \/ GiveUp(c) \/ Observe(c) \/ Cancelled(c) \/ TimeOut(c) \/ ReadLogs(c)
    \/ \E s \in Temporary : Clean(c, s)

SweepStep(o) ==
    \/ StartSweep(o) \/ EndSweep(o)
    \/ \E c \in Check, s \in Temporary : SweepSecret(o, c, s)

Next ==
    \/ \E c \in Check :
          \/ Begin(c) \/ RunStep(c) \/ WatchCloses(c) \/ LogsFail(c) \/ FinishPod(c) \/ LosePod(c)
          \/ CollectGarbage(c)
          \/ \E s \in Temporary : CleanFails(c, s) \/ LandLate(c, s)
    \/ \E o \in Process : Shutdown(o) \/ Exit(o) \/ Restart(o) \/ SweepStep(o)
    \/ Tick

Spec == Init /\ [][Next]_vars

(* A started check runs on, the collector and the sweepers work, time      *)
(* passes, a shutdown ends, and there is never no process for good.        *)
Fairness ==
    /\ \A c \in Check : WF_vars(RunStep(c)) /\ WF_vars(CollectGarbage(c))
    /\ \A o \in Process : WF_vars(SweepStep(o)) /\ WF_vars(Exit(o))
    /\ WF_vars(Tick)
    /\ WF_vars((\A o \in Process : process[o] = "down") /\ \E o \in Process : Restart(o))

FairSpec == Spec /\ Fairness

-----------------------------------------------------------------------------
(* Properties.                                                             *)

(* Types: what is left of the budget never exceeds the timeout (the        *)
(* deadline of Run is never reset).                                        *)
TypeOK ==
    /\ process \in [Process -> {"up", "stopping", "down"}]
    /\ check \in [Check -> [good : BOOLEAN, assets : BOOLEAN, pc : Steps,
                           budget : Nat, outcome : Outcome]]
    /\ \A c \in Check : check[c].budget =< Timeout[Owner[c]]
    /\ age \in [Check -> [Temporary -> Absent..MaxAge]]
    /\ pod \in [Check -> Phase]
    /\ late \subseteq Check \X Temporary
    /\ sweep \in [Process -> [pc : {"start", "pass", "ticker"}, todo : SUBSET (Check \X Temporary)]]
    /\ faults \in 0..MaxFaults

(* A check reports a config valid only if the validation passed: not when  *)
(* it lost sight of the pod, was cancelled or ran out of time              *)
(* (getCheckResult).                                                       *)
NoFalseSuccess == \A c \in Check : check[c].outcome = "valid" => check[c].good

(* The check has a Secret and has not reached its cleanup.                 *)
Running(c) == check[c].pc \in {"assets", "pod", "watch", "wait", "blind", "logs"}

(* Nor is it held up past its deadline by the logs of the pod.             *)
WithinBudget(c) == Running(c) /\ (At(c, "logs") => check[c].budget > 0)

(* Every sweeper waits as long as the check may take, because of its own   *)
(* timeout or of minOrphanAge.                                             *)
Outwaited(c) == \A o \in Process : Timeout[Owner[c]] =< Window(o)

KeepsSecrets(c) ==
    WithinBudget(c) /\ Outwaited(c) =>
        /\ age[c]["root"] # Absent
        /\ check[c].assets /\ check[c].pc # "assets" => age[c]["assets"] # Absent

(* No sweeper, of this or of an overlapping process, deletes a Secret that *)
(* a running check still needs, unless the logs of its pod outlast its     *)
(* deadline or the timeout of another process is too short for it          *)
(* (SweepOrphans, cmd/manager/main.go).                                    *)
RunningKeepsSecrets == \A c \in Check : KeepsSecrets(c)

(* Whatever fails or stops, no copy of a config or of secret values stays  *)
(* behind for good (cleanup, SweepOrphans, RunOrphanSweeper).              *)
NoLeftovers ==
    \A c \in Check : \A s \in Temporary : <>[](age[c][s] = Absent)

=============================================================================
