------------------------ MODULE PipelineStatus_proofs ------------------------
(***************************************************************************)
(* Theorems about the status of pipelines, for any pipelines, specs,       *)
(* collisions, settings and bounds.                                        *)
(*                                                                         *)
(* They hold whether rounds and reconciles overlap or take turns.  Every   *)
(* verdict is sound as its writer means it; a status is sound if its last  *)
(* patch left what was meant; and if rounds and reconciles take turns,     *)
(* every patch lands on the status it was computed from and does.          *)
(***************************************************************************)
EXTENDS PipelineStatus, WellFoundedInduction, TLAPS

LEMMA LeastExists ==
    ASSUME NEW T \in SUBSET Nat, T # {}
    PROVE  \E p \in T : \A q \in T : p <= q
<1>1. IsWellFoundedOn(OpToRel(<, Nat), Nat)
  BY NatLessThanWellFounded
<1>2. PICK p \in T : \A q \in T : ~ (<<q, p>> \in OpToRel(<, Nat))
  BY <1>1, WFMin
<1>3. \A q \in T : ~(q < p)
  BY <1>2 DEF OpToRel
<1> QED
  BY <1>3

(* The pipeline that DetectSecretCollisions names to a victim exists: of   *)
(* the accepted ones that collide with it the oldest is older than it.     *)
LEMMA SurvivorIsAccepted ==
    ASSUME NEW specs, NEW pool \in SUBSET Pipeline, NEW A, Accepted(specs, pool, A),
           NEW p \in pool \ A
    PROVE  Survivor(specs, A, p) \in A /\ Clashes(specs, p, Survivor(specs, A, p))
<1> DEFINE Rivals == {q \in A : Clashes(specs, p, q)}
           Ranks == {Born[q] : q \in Rivals}
<1>1. /\ A \subseteq Pipeline /\ p \in Pipeline
      /\ \A q \in Pipeline : Born[q] \in Nat
  BY StatusAssumption DEF Accepted
<1>2. PICK q \in A : Born[q] < Born[p] /\ Clashes(specs, p, q)
  BY DEF Accepted
<1>3. Ranks \in SUBSET Nat /\ Ranks # {}
  BY <1>1, <1>2
<1>4. PICK b \in Ranks : \A c \in Ranks : b <= c
  BY <1>3, LeastExists
<1>5. PICK o \in Rivals : b = Born[o]
  OBVIOUS
<1>6. \A r \in A : Clashes(specs, p, r) => Born[o] =< Born[r]
  BY <1>4, <1>5
<1>7. Born[o] < Born[p]
  <2>1. Born[o] <= Born[q]
    BY <1>2, <1>6
  <2> QED
    BY <1>1, <1>2, <1>5, <2>1
<1> QED
  BY <1>5, <1>6, <1>7 DEF Survivor

(* A spec that loses a collision has references.                           *)
LEMMA VictimHasReferences ==
    ASSUME NEW A, Accepted(spec, Candidates, A), NEW p \in Candidates \ A
    PROVE  References(p, spec[p])
<1>1. Candidates \in SUBSET Pipeline
  BY DEF Candidates
<1>2. Clashes(spec, p, Survivor(spec, A, p))
  BY <1>1, SurvivorIsAccepted
<1>3. <<p, spec[p]>> \notin Bare
  BY <1>2, StatusAssumption DEF Clashes
<1>4. spec[p] # 0
  BY DEF Candidates, Exists
<1> QED
  BY <1>3, <1>4 DEF References

-----------------------------------------------------------------------------
(* Types.                                                                  *)

(* The base of a patch, whose reason SetSuccessStatus may have replaced.   *)
Base == [result : {"unset", "valid", "failed"},
         reason : {"none", "own", "secret", "empty"} \cup Pipeline,
         hash : 0..MaxSpec, related : 0..MaxVersion]

Write == [base : Base, obj : Status]

Task == {Idle, Announcing}
    \cup [pc : {"index", "check"}, spec : 0..MaxSpec, base : Status, token : 0..MaxVersion]
    \cup [pc : {"patch"}, write : Write, again : BOOLEAN]

Owners == UNION {[S -> Pipeline] : S \in SUBSET Pipeline}

Round == {Idle}
    \cup [pc : {"mark", "reinstate"}, tainted : SUBSET Pipeline, specs : [Pipeline -> 0..MaxSpec],
          seen : [Pipeline -> Status], versions : [Pipeline -> 0..MaxVersion],
          owner : Owners, todo : SUBSET Pipeline, target : SUBSET Pipeline]

(* The victims of a round have an owner.                                   *)
Owned == round.pc = "mark" => \A p \in round.todo : round.owner[p] \in Pipeline

Typed ==
    /\ spec \in [Pipeline -> 0..MaxSpec]
    /\ secret \in [Pipeline -> 1..MaxVersion]
    /\ status \in [Pipeline -> Status] /\ raced \subseteq Pipeline
    /\ indexed \subseteq Pipeline /\ queue \subseteq Pipeline /\ retry \subseteq Pipeline
    /\ task \in [Pipeline -> Task]
    /\ wqueued \in BOOLEAN
    /\ round \in Round /\ Owned
    /\ published \in [Pipeline -> [spec : 0..MaxSpec, version : 0..MaxVersion]]
    /\ options \in Options
    /\ edits \in 0..MaxEdits /\ faults \in 0..MaxFaults

LEMMA OwnersTyped ==
    ASSUME NEW S \in SUBSET Pipeline, NEW f \in [S -> Pipeline]
    PROVE  f \in Owners
BY DEF Owners

LEMMA TokenTyped ==
    ASSUME Typed, NEW p \in Pipeline
    PROVE  Token(p) \in 0..MaxVersion
BY StatusAssumption DEF Typed, Token

LEMMA PatchTyped ==
    ASSUME NEW st \in Status, NEW w \in Write
    PROVE  MergePatch(st, w.base, w.obj) \in Status
BY DEF MergePatch, Patched, Status, Write

LEMMA SuccessTyped ==
    ASSUME NEW st \in Status, NEW s \in 0..MaxSpec, NEW v \in 0..MaxVersion
    PROVE  Success(st, s, v) \in Write
BY DEF Success, Write, Base, Status

LEMMA FailureTyped ==
    ASSUME NEW st \in Status, NEW r \in {"own", "secret"} \cup Pipeline,
           NEW s \in 0..MaxSpec, NEW v \in 0..MaxVersion
    PROVE  Failure(st, r, s, v) \in Write
BY DEF Failure, Write, Base, Status

LEMMA TaskCases ==
    ASSUME Typed, NEW p \in Pipeline
    PROVE  /\ task[p].pc = "patch" => task[p] \in [pc : {"patch"}, write : Write, again : BOOLEAN]
           /\ task[p].pc \in {"index", "check"} =>
                task[p] \in [pc : {"index", "check"}, spec : 0..MaxSpec, base : Status, token : 0..MaxVersion]
BY DEF Typed, Task, Idle, Announcing

LEMMA RoundCases ==
    ASSUME Typed, round.pc # "idle"
    PROVE  round \in [pc : {"mark", "reinstate"}, tainted : SUBSET Pipeline, specs : [Pipeline -> 0..MaxSpec],
                      seen : [Pipeline -> Status], versions : [Pipeline -> 0..MaxVersion],
                      owner : Owners, todo : SUBSET Pipeline, target : SUBSET Pipeline]
BY DEF Typed, Round, Idle

LEMMA FaultTyped ==
    ASSUME Typed, faults < MaxFaults, faults' = faults + 1
    PROVE  faults' \in 0..MaxFaults
<1>1. MaxFaults \in Nat
  BY StatusAssumption DEF Typed, MaxFaults
<1> QED
  BY <1>1 DEF Typed

LEMMA OptionsStay == [Next]_vars => options' = options
BY DEF Next, vars, users, PipelineStep, RoundStep, EditSpec, RotateSecret, Edit, ReadPipeline,
       ForgetPipeline, SkipPipeline, IndexPipeline, CheckPipeline, CheckFault, SecretFault,
       PatchPipeline, AnnouncePipeline, RetryPipeline, PollPipeline, WakeWorkload, StartRound,
       MarkVictim, RejectRound, PublishRound, Reinstate, FinishRound, FailPipeline, FailRound,
       Restart

LEMMA TypedInductive == Typed /\ [Next]_vars => Typed'
<1> SUFFICES ASSUME Typed, [Next]_vars
             PROVE  Typed'
  OBVIOUS
<1> USE StatusAssumption
<1>0. Idle \in Task /\ Idle \in Round /\ Announcing \in Task
  BY DEF Task, Round
<1> MaxFaults' = MaxFaults
  BY OptionsStay DEF MaxFaults
<1>1. ASSUME NEW p \in Pipeline, EditSpec(p)
      PROVE  Typed'
  <2>1. edits' \in 0..MaxEdits
    BY <1>1 DEF EditSpec, Edit, Typed
  <2>2. spec' \in [Pipeline -> 0..MaxSpec]
    BY <1>1 DEF EditSpec, Typed
  <2> QED
    BY <1>1, <2>1, <2>2 DEF EditSpec, Edit, Typed, Owned
<1>2. ASSUME NEW p \in Pipeline, RotateSecret(p)
      PROVE  Typed'
  <2>1. edits' \in 0..MaxEdits
    BY <1>2 DEF RotateSecret, Edit, Typed
  <2>2. secret' \in [Pipeline -> 1..MaxVersion]
    BY <1>2 DEF RotateSecret, Typed
  <2>3. queue' \subseteq Pipeline
    BY <1>2 DEF RotateSecret, Typed
  <2> QED
    BY <1>2, <2>1, <2>2, <2>3 DEF RotateSecret, Edit, Typed, Owned
<1>3. ASSUME NEW p \in Pipeline, ReadPipeline(p)
      PROVE  Typed'
  <2>1. [pc |-> "index", spec |-> spec[p], base |-> status[p], token |-> Token(p)] \in Task
    BY TokenTyped DEF Typed, Task
  <2> QED
    BY <1>3, <2>1 DEF ReadPipeline, users, Typed, Owned
<1>4. ASSUME NEW p \in Pipeline, ForgetPipeline(p)
      PROVE  Typed'
  BY <1>0, <1>4 DEF ForgetPipeline, users, Typed, Owned, Index
<1>5. ASSUME NEW p \in Pipeline, SkipPipeline(p)
      PROVE  Typed'
  BY <1>0, <1>5 DEF SkipPipeline, users, Typed, Owned, Index
<1>6. ASSUME NEW p \in Pipeline, IndexPipeline(p)
      PROVE  Typed'
  <2>1. task' \in [Pipeline -> Task]
    <3>1. task[p] \in [pc : {"index", "check"}, spec : 0..MaxSpec, base : Status, token : 0..MaxVersion]
      BY <1>6, TaskCases DEF IndexPipeline
    <3>2. [task[p] EXCEPT !.pc = "check"] \in Task
      BY <3>1 DEF Task
    <3>3. task' = [task EXCEPT ![p] = [task[p] EXCEPT !.pc = "check"]]
      BY <1>6 DEF IndexPipeline
    <3> QED
      BY <3>2, <3>3 DEF Typed
  <2> QED
    BY <1>6, <2>1 DEF IndexPipeline, users, Typed, Owned, Index
<1>7. ASSUME NEW p \in Pipeline, NEW w \in Write, NEW again \in BOOLEAN,
             task' = Patching(p, w, again)
      PROVE  task' \in [Pipeline -> Task]
  <2>1. [pc |-> "patch", write |-> w, again |-> again] \in Task
    BY DEF Task
  <2> QED
    BY <1>7, <2>1 DEF Patching, Typed
<1>8. RetryInvalid \in BOOLEAN
  BY DEF Typed, RetryInvalid
<1>9. ASSUME NEW p \in Pipeline, CheckPipeline(p)
      PROVE  Typed'
  <2>1. task[p] \in [pc : {"index", "check"}, spec : 0..MaxSpec, base : Status, token : 0..MaxVersion]
    BY <1>9, TaskCases DEF CheckPipeline
  <2>2. /\ Success(task[p].base, task[p].spec, task[p].token) \in Write
        /\ Failure(task[p].base, "own", task[p].spec, task[p].token) \in Write
    BY <2>1, SuccessTyped, FailureTyped
  <2>3. task' \in [Pipeline -> Task]
    BY <1>7, <1>8, <1>9, <2>2 DEF CheckPipeline
  <2> QED
    BY <1>9, <2>3 DEF CheckPipeline, users, Typed, Owned
<1>10. ASSUME NEW p \in Pipeline, CheckFault(p)
       PROVE  Typed'
  <2>1. task[p] \in [pc : {"index", "check"}, spec : 0..MaxSpec, base : Status, token : 0..MaxVersion]
    BY <1>10, TaskCases DEF CheckFault
  <2>2. Failure(task[p].base, "own", task[p].spec, task[p].token) \in Write
    BY <2>1, FailureTyped
  <2>3. task' \in [Pipeline -> Task]
    BY <1>7, <1>8, <1>10, <2>2 DEF CheckFault
  <2>4. faults' \in 0..MaxFaults
    BY <1>10, FaultTyped DEF CheckFault
  <2> QED
    BY <1>10, <2>3, <2>4 DEF CheckFault, users, Typed, Owned
<1>11. ASSUME NEW p \in Pipeline, SecretFault(p)
       PROVE  Typed'
  <2>1. task[p] \in [pc : {"index", "check"}, spec : 0..MaxSpec, base : Status, token : 0..MaxVersion]
    BY <1>11, TaskCases DEF SecretFault
  <2>2. Failure(task[p].base, "secret", task[p].spec, 0) \in Write
    BY <2>1, FailureTyped
  <2>3. task' \in [Pipeline -> Task]
    BY <1>7, <1>11, <2>2 DEF SecretFault
  <2>4. faults' \in 0..MaxFaults
    BY <1>11, FaultTyped DEF SecretFault
  <2> QED
    BY <1>11, <2>3, <2>4 DEF SecretFault, users, Typed, Owned, Index
<1>12. ASSUME NEW p \in Pipeline, NEW w \in Write, NEW sure, Apply(p, w, sure)
       PROVE  status' \in [Pipeline -> Status] /\ raced' \subseteq Pipeline
  BY <1>12, PatchTyped DEF Apply, Typed
<1>13. ASSUME NEW p \in Pipeline, PatchPipeline(p)
       PROVE  Typed'
  <2>1. task[p] \in [pc : {"patch"}, write : Write, again : BOOLEAN]
    BY <1>13, TaskCases DEF PatchPipeline
  <2>2. status' \in [Pipeline -> Status] /\ raced' \subseteq Pipeline
    BY <1>12, <1>13, <2>1 DEF PatchPipeline
  <2> QED
    BY <1>0, <1>13, <2>2 DEF PatchPipeline, users, Typed, Owned
<1>13a. ASSUME NEW p \in Pipeline, AnnouncePipeline(p)
        PROVE  Typed'
  BY <1>0, <1>13a DEF AnnouncePipeline, users, Typed, Owned
<1>14. ASSUME NEW p \in Pipeline, RetryPipeline(p) \/ PollPipeline(p)
       PROVE  Typed'
  BY <1>14 DEF RetryPipeline, PollPipeline, users, Typed, Owned
<1>15. CASE WakeWorkload
  BY <1>15 DEF WakeWorkload, users, Typed, Owned
<1>16. CASE StartRound
  <2> DEFINE Started(A) ==
               [pc |-> "mark", tainted |-> raced,
                specs |-> spec, seen |-> status, versions |-> [p \in Pipeline |-> Token(p)],
                owner |-> [p \in Candidates \ A |-> Survivor(spec, A, p)],
                todo |-> {p \in Candidates \ A : status[p].reason # Survivor(spec, A, p)},
                target |-> {p \in A : ~EditedWhileFailed(p)}]
  <2>1. PICK A \in SUBSET Candidates : Accepted(spec, Candidates, A) /\ round' = Started(A)
    BY <1>16 DEF StartRound
  <2>2. Candidates \in SUBSET Pipeline
    BY DEF Candidates
  <2>3. \A p \in Candidates \ A : Survivor(spec, A, p) \in Pipeline
    BY <2>1, <2>2, SurvivorIsAccepted
  <2>4. Started(A).owner \in Owners
    <3>1. Started(A).owner \in [(Candidates \ A) -> Pipeline]
      BY <2>3
    <3> QED
      BY <2>2, <3>1, OwnersTyped
  <2>5. Started(A).versions \in [Pipeline -> 0..MaxVersion]
    BY TokenTyped
  <2>6. round' \in Round
    BY <2>1, <2>2, <2>4, <2>5 DEF Typed, Round
  <2>7. Owned'
    BY <2>1, <2>3 DEF Owned
  <2> QED
    BY <1>16, <2>6, <2>7 DEF StartRound, users, Typed
<1>17. ASSUME NEW p \in Pipeline, MarkVictim(p)
       PROVE  Typed'
  <2>1. /\ round.pc # "idle" /\ round.pc = "mark" /\ p \in round.todo
        /\ round' = [round EXCEPT !.todo = @ \ {p}]
    BY <1>17 DEF MarkVictim
  <2>2. round \in [pc : {"mark", "reinstate"}, tainted : SUBSET Pipeline, specs : [Pipeline -> 0..MaxSpec],
                   seen : [Pipeline -> Status], versions : [Pipeline -> 0..MaxVersion],
                   owner : Owners, todo : SUBSET Pipeline, target : SUBSET Pipeline]
    BY <2>1, RoundCases
  <2>3. round.owner[p] \in Pipeline
    BY <2>1 DEF Typed, Owned
  <2>4. Failure(round.seen[p], round.owner[p], round.specs[p], 0) \in Write
    <3>1. round.seen[p] \in Status /\ round.specs[p] \in 0..MaxSpec /\ 0 \in 0..MaxVersion
      BY <2>2
    <3> QED
      BY <2>3, <3>1, FailureTyped
  <2>5. status' \in [Pipeline -> Status] /\ raced' \subseteq Pipeline
    BY <1>12, <1>17, <2>4 DEF MarkVictim
  <2>6. round' \in Round
    BY <2>1, <2>2 DEF Round
  <2>7. Owned'
    BY <2>1, <2>2 DEF Typed, Owned
  <2> QED
    BY <1>17, <2>5, <2>6, <2>7 DEF MarkVictim, users, Typed
<1>18. ASSUME round' = Idle, UNCHANGED <<users, status, raced, indexed, queue, retry, task, published>>,
              wqueued' \in BOOLEAN, faults' \in 0..MaxFaults
       PROVE  Typed'
  <2>1. round' \in Round /\ Owned'
    BY <1>0, <1>18 DEF Owned, Idle
  <2> QED
    BY <1>18, <2>1 DEF users, Typed
<1>19. CASE RejectRound \/ FinishRound
  BY <1>18, <1>19 DEF RejectRound, FinishRound, Typed
<1>20. CASE PublishRound
  <2>1. round.pc # "idle"
    BY <1>20 DEF PublishRound
  <2>2. round \in [pc : {"mark", "reinstate"}, tainted : SUBSET Pipeline, specs : [Pipeline -> 0..MaxSpec],
                   seen : [Pipeline -> Status], versions : [Pipeline -> 0..MaxVersion],
                   owner : Owners, todo : SUBSET Pipeline, target : SUBSET Pipeline]
    BY <2>1, RoundCases
  <2>3. published' \in [Pipeline -> [spec : 0..MaxSpec, version : 0..MaxVersion]]
    BY <1>20, <2>2 DEF PublishRound, None
  <2>4. round' \in Round /\ Owned'
    BY <1>20, <2>2 DEF PublishRound, Round, Owned
  <2> QED
    BY <1>20, <2>3, <2>4 DEF PublishRound, users, Typed
<1>21. ASSUME NEW p \in Pipeline, Reinstate(p)
       PROVE  Typed'
  <2>1. round.pc # "idle" /\ round.pc = "reinstate" /\ round' = [round EXCEPT !.todo = @ \ {p}]
    BY <1>21 DEF Reinstate
  <2>2. round \in [pc : {"mark", "reinstate"}, tainted : SUBSET Pipeline, specs : [Pipeline -> 0..MaxSpec],
                   seen : [Pipeline -> Status], versions : [Pipeline -> 0..MaxVersion],
                   owner : Owners, todo : SUBSET Pipeline, target : SUBSET Pipeline]
    BY <2>1, RoundCases
  <2>3. round.seen[p].related \in 0..MaxVersion
    BY <2>2 DEF Status
  <2>4. Success(round.seen[p], round.specs[p], round.seen[p].related) \in Write
    BY <2>2, <2>3, SuccessTyped
  <2>5. status' \in [Pipeline -> Status] /\ raced' \subseteq Pipeline
    BY <1>12, <1>21, <2>4 DEF Reinstate
  <2>6. round' \in Round /\ Owned'
    BY <2>1, <2>2 DEF Round, Owned
  <2> QED
    BY <1>21, <2>5, <2>6 DEF Reinstate, users, Typed
<1>22. ASSUME NEW p \in Pipeline, FailPipeline(p)
       PROVE  Typed'
  <2>1. faults' \in 0..MaxFaults
    BY <1>22, FaultTyped DEF FailPipeline
  <2> QED
    BY <1>0, <1>22, <2>1 DEF FailPipeline, users, Typed, Owned
<1>23. CASE FailRound
  <2>1. faults' \in 0..MaxFaults
    BY <1>23, FaultTyped DEF FailRound
  <2> QED
    BY <1>18, <1>23, <2>1 DEF FailRound
<1>24. CASE Restart
  <2>1. faults' \in 0..MaxFaults
    BY <1>24, FaultTyped DEF Restart
  <2>2. round' \in Round /\ Owned'
    BY <1>0, <1>24 DEF Restart, Owned, Idle
  <2>3. task' \in [Pipeline -> Task]
    BY <1>0, <1>24 DEF Restart
  <2> QED
    BY <1>24, <2>1, <2>2, <2>3 DEF Restart, users, Typed
<1>25. CASE UNCHANGED vars
  BY <1>25 DEF vars, users, Typed, Owned
<1> QED
  BY <1>1, <1>2, <1>3, <1>4, <1>5, <1>6, <1>9, <1>10, <1>11, <1>13, <1>13a, <1>14, <1>15, <1>16,
     <1>17, <1>19, <1>20, <1>21, <1>22, <1>23, <1>24, <1>25
  DEF Next, PipelineStep, RoundStep

LEMMA TypedInitially == Init => Typed
<1> SUFFICES ASSUME Init
             PROVE  Typed
  OBVIOUS
<1> USE StatusAssumption
<1>1. spec \in [Pipeline -> 0..MaxSpec] /\ secret \in [Pipeline -> 1..MaxVersion]
  BY DEF Init
<1>2. Fresh \in Status /\ None \in [spec : 0..MaxSpec, version : 0..MaxVersion]
  BY DEF Fresh, Status, None
<1>3. task \in [Pipeline -> Task] /\ round \in Round /\ Owned
  BY DEF Init, Task, Round, Owned, Idle
<1>4. edits \in 0..MaxEdits /\ faults \in 0..MaxFaults
  BY DEF Init, MaxFaults
<1> QED
  BY <1>1, <1>2, <1>3, <1>4 DEF Init, Typed

(* For any pipelines, specs, collisions and settings, whatever overlaps:   *)
(* the merge patches of the two writers leave a status with a reason that  *)
(* is nil or a text, and every collision has a surviving pipeline to name  *)
(* (PatchStatus, SetSuccessStatus and DetectSecretCollisions).             *)
THEOREM TypeCorrect == Spec => []TypeOK
<1>1. Typed => TypeOK
  <2> SUFFICES ASSUME Typed
               PROVE  TypeOK
    OBVIOUS
  <2>1. \A p \in Pipeline : task[p].pc \in {"idle", "index", "check", "patch", "announce"}
    BY DEF Typed, Task, Idle, Announcing
  <2>2. round.pc \in {"idle", "mark", "reinstate"}
    BY DEF Typed, Round, Idle
  <2>3. secret \in [Pipeline -> 0..MaxVersion]
    BY StatusAssumption DEF Typed
  <2> QED
    BY <2>1, <2>2, <2>3 DEF Typed, TypeOK
<1> QED
  BY <1>1, TypedInitially, TypedInductive, PTL DEF Spec

-----------------------------------------------------------------------------
(* Verdicts, however they overlap.                                         *)

(* A verdict on p that sticks to nothing false: a collision is recorded    *)
(* for a spec with references and without a token; a valid spec passes its *)
(* own check, or has references and no token, so that the next reconcile   *)
(* of p does not take it for unchanged.                                    *)
Unsettled(p, st) == st.related = 0 /\ References(p, st.hash)

Sound(p, st) ==
    /\ Attributed(st) => Unsettled(p, st)
    /\ IsValid(st) => st.hash \in Good[p] \/ Unsettled(p, st)

(* A target of a round that is not valid lost a collision with the spec it *)
(* has; its verdict is sound unless the round found it mixed.              *)
MayReinstate(p) ==
    /\ Attributed(round.seen[p]) /\ round.seen[p].hash = round.specs[p]
    /\ p \notin round.tainted => Unsettled(p, round.seen[p])

RoundSound ==
    /\ round.pc = "mark" =>
          /\ \A p \in round.todo : References(p, round.specs[p])
          /\ \A p \in round.target : IsValid(round.seen[p]) \/ MayReinstate(p)
    /\ round.pc = "reinstate" => \A p \in round.todo : MayReinstate(p)

SoundInv ==
    /\ \A p \in Pipeline \ raced : Sound(p, status[p])
    /\ \A p \in Pipeline : task[p].pc = "patch" => Sound(p, task[p].write.obj)
    /\ RoundSound

(* Whatever a patch leaves, the history knows it or it is sound.           *)
LEMMA ApplySound ==
    ASSUME Typed, SoundInv, NEW p \in Pipeline, NEW w, NEW sure, Apply(p, w, sure),
           sure => Sound(p, w.obj)
    PROVE  \A q \in Pipeline \ raced' : Sound(q, status'[q])
BY DEF Apply, Typed, SoundInv

(* A failure of the pipeline's own, and of its Secret.                     *)
LEMMA FailureSound ==
    ASSUME NEW p \in Pipeline, NEW b, NEW r \in {"own", "secret"}, NEW s, NEW v
    PROVE  Sound(p, Failure(b, r, s, v).obj)
BY StatusAssumption DEF Failure, Sound, Attributed, IsValid

(* A step of the reconcile of p that writes no status.                     *)
LEMMA TaskStepSound ==
    ASSUME Typed, SoundInv, NEW p \in Pipeline, NEW t,
           task' = [task EXCEPT ![p] = t], UNCHANGED <<status, raced, round>>,
           t.pc = "patch" => Sound(p, t.write.obj)
    PROVE  SoundInv'
<1>1. \A q \in Pipeline : task'[q] = IF q = p THEN t ELSE task[q]
  BY DEF Typed
<1>2. RoundSound'
  BY DEF SoundInv, RoundSound, MayReinstate
<1> QED
  BY <1>1, <1>2 DEF SoundInv

LEMMA SoundInductive == Typed /\ SoundInv /\ [Next]_vars => SoundInv'
<1> SUFFICES ASSUME Typed, SoundInv, [Next]_vars
             PROVE  SoundInv'
  OBVIOUS
<1>0. ASSUME UNCHANGED <<status, raced, task, round>>
      PROVE  SoundInv'
  BY <1>0 DEF SoundInv, RoundSound, MayReinstate
<1>1. ASSUME NEW p \in Pipeline, EditSpec(p) \/ RotateSecret(p) \/ RetryPipeline(p) \/ PollPipeline(p)
      PROVE  SoundInv'
  BY <1>0, <1>1 DEF EditSpec, RotateSecret, Edit, RetryPipeline, PollPipeline
<1>2. ASSUME NEW p \in Pipeline, ReadPipeline(p)
      PROVE  SoundInv'
  <2> DEFINE t == [pc |-> "index", spec |-> spec[p], base |-> status[p], token |-> Token(p)]
  <2>1. task' = [task EXCEPT ![p] = t] /\ UNCHANGED <<status, raced, round>> /\ t.pc # "patch"
    BY <1>2 DEF ReadPipeline
  <2> HIDE DEF t
  <2> QED
    BY <2>1, TaskStepSound
<1>3. ASSUME NEW p \in Pipeline,
             ForgetPipeline(p) \/ SkipPipeline(p) \/ AnnouncePipeline(p) \/ FailPipeline(p)
      PROVE  SoundInv'
  <2>1. task' = [task EXCEPT ![p] = Idle] /\ UNCHANGED <<status, raced, round>> /\ Idle.pc # "patch"
    BY <1>3 DEF ForgetPipeline, SkipPipeline, AnnouncePipeline, FailPipeline, Idle
  <2> QED
    BY <2>1, TaskStepSound
<1>4. ASSUME NEW p \in Pipeline, IndexPipeline(p)
      PROVE  SoundInv'
  <2> DEFINE t == [task[p] EXCEPT !.pc = "check"]
  <2>1. /\ task' = [task EXCEPT ![p] = t] /\ UNCHANGED <<status, raced, round>>
        /\ task[p].pc = "index"
    BY <1>4 DEF IndexPipeline
  <2>2. task[p] \in [pc : {"index", "check"}, spec : 0..MaxSpec, base : Status, token : 0..MaxVersion]
    BY <2>1, TaskCases
  <2>3. t.pc # "patch"
    BY <2>2
  <2> HIDE DEF t
  <2> QED
    BY <2>1, <2>3, TaskStepSound
<1>5. ASSUME NEW p \in Pipeline, NEW w, NEW again, task' = Patching(p, w, again),
             UNCHANGED <<status, raced, round>>, Sound(p, w.obj)
      PROVE  SoundInv'
  <2> DEFINE t == [pc |-> "patch", write |-> w, again |-> again]
  <2>1. task' = [task EXCEPT ![p] = t] /\ t.write = w
    BY <1>5 DEF Patching
  <2> HIDE DEF t
  <2> QED
    BY <1>5, <2>1, TaskStepSound
<1>6. ASSUME NEW p \in Pipeline, CheckPipeline(p)
      PROVE  SoundInv'
  <2> DEFINE w == Success(task[p].base, task[p].spec, task[p].token)
             f == Failure(task[p].base, "own", task[p].spec, task[p].token)
  <2>1. UNCHANGED <<status, raced, round>>
    BY <1>6 DEF CheckPipeline
  <2>2. CASE task[p].spec \in Good[p]
    <3>1. Sound(p, w.obj)
      BY <2>2, StatusAssumption DEF Success, Sound, Attributed
    <3>2. task' = Patching(p, w, FALSE)
      BY <1>6, <2>2 DEF CheckPipeline
    <3> HIDE DEF w
    <3> QED
      BY <1>5, <2>1, <3>1, <3>2
  <2>3. CASE task[p].spec \notin Good[p]
    <3>1. PICK again \in {FALSE, RetryInvalid} : task' = Patching(p, f, again)
      BY <1>6, <2>3 DEF CheckPipeline
    <3>2. Sound(p, f.obj)
      BY FailureSound
    <3> HIDE DEF f
    <3> QED
      BY <1>5, <2>1, <3>1, <3>2
  <2> QED
    BY <2>2, <2>3
<1>7. ASSUME NEW p \in Pipeline, CheckFault(p)
      PROVE  SoundInv'
  <2> DEFINE f == Failure(task[p].base, "own", task[p].spec, task[p].token)
  <2>1. task' = Patching(p, f, RetryInvalid) /\ UNCHANGED <<status, raced, round>>
    BY <1>7 DEF CheckFault
  <2>2. Sound(p, f.obj)
    BY FailureSound
  <2> HIDE DEF f
  <2> QED
    BY <1>5, <2>1, <2>2
<1>8. ASSUME NEW p \in Pipeline, SecretFault(p)
      PROVE  SoundInv'
  <2> DEFINE f == Failure(task[p].base, "secret", task[p].spec, 0)
  <2>1. task' = Patching(p, f, TRUE) /\ UNCHANGED <<status, raced, round>>
    BY <1>8 DEF SecretFault
  <2>2. Sound(p, f.obj)
    BY FailureSound
  <2> HIDE DEF f
  <2> QED
    BY <1>5, <2>1, <2>2
<1>9. ASSUME NEW p \in Pipeline, PatchPipeline(p)
      PROVE  SoundInv'
  <2>1. /\ Apply(p, task[p].write, TRUE) /\ Sound(p, task[p].write.obj)
        /\ round' = round
    BY <1>9 DEF PatchPipeline, SoundInv
  <2>2. \A q \in Pipeline \ raced' : Sound(q, status'[q])
    BY <2>1, ApplySound
  <2>3. /\ task'[p] \in {Idle, Announcing}
        /\ \A q \in Pipeline \ {p} : task'[q] = task[q]
    BY <1>9 DEF PatchPipeline, Typed
  <2>4. \A q \in Pipeline : task'[q].pc = "patch" => Sound(q, task'[q].write.obj)
    BY <2>3 DEF SoundInv, Idle, Announcing
  <2>5. RoundSound'
    BY <2>1 DEF SoundInv, RoundSound, MayReinstate
  <2> QED
    BY <2>2, <2>4, <2>5 DEF SoundInv
<1>10. CASE WakeWorkload
  BY <1>0, <1>10 DEF WakeWorkload
<1>11. CASE StartRound
  <2>1. UNCHANGED <<status, raced, task>>
    BY <1>11 DEF StartRound
  <2>2. PICK A \in SUBSET Candidates :
             /\ Accepted(spec, Candidates, A)
             /\ round' = [pc |-> "mark", tainted |-> raced,
                          specs |-> spec, seen |-> status, versions |-> [p \in Pipeline |-> Token(p)],
                          owner |-> [p \in Candidates \ A |-> Survivor(spec, A, p)],
                          todo |-> {p \in Candidates \ A : status[p].reason # Survivor(spec, A, p)},
                          target |-> {p \in A : ~EditedWhileFailed(p)}]
    BY <1>11 DEF StartRound
  <2>3. Candidates \in SUBSET Pipeline
    BY DEF Candidates
  <2>4. ASSUME NEW p \in Candidates \ A
        PROVE  References(p, spec[p])
    BY <2>2, <2>3, <2>4, VictimHasReferences
  <2>5. /\ round'.pc = "mark" /\ round'.tainted = raced
        /\ round'.todo \subseteq Candidates \ A /\ round'.target \subseteq A
        /\ round'.seen = status /\ round'.specs = spec
        /\ \A p \in round'.target : ~EditedWhileFailed(p)
    BY <2>2
  <2>6. ASSUME NEW p \in round'.target, ~IsValid(status[p])
        PROVE  /\ Attributed(status[p]) /\ status[p].hash = spec[p]
               /\ p \notin raced => Unsettled(p, status[p])
    BY <2>2, <2>3, <2>5, <2>6 DEF Candidates, EditedWhileFailed, SoundInv, Sound
  <2>7. RoundSound'
    BY <2>1, <2>4, <2>5, <2>6 DEF RoundSound, MayReinstate
  <2> QED
    BY <2>1, <2>7 DEF SoundInv
<1>12. ASSUME NEW p \in Pipeline, NEW w, NEW sure, round.pc # "idle",
              round' = [round EXCEPT !.todo = @ \ {p}], task' = task,
              Apply(p, w, sure), sure => Sound(p, w.obj)
       PROVE  SoundInv'
  <2>1. round \in [pc : {"mark", "reinstate"}, tainted : SUBSET Pipeline, specs : [Pipeline -> 0..MaxSpec],
                   seen : [Pipeline -> Status], versions : [Pipeline -> 0..MaxVersion],
                   owner : Owners, todo : SUBSET Pipeline, target : SUBSET Pipeline]
    BY <1>12, RoundCases
  <2>2. /\ round'.pc = round.pc /\ round'.specs = round.specs /\ round'.seen = round.seen
        /\ round'.todo = round.todo \ {p} /\ round'.target = round.target
        /\ round'.tainted = round.tainted
    BY <1>12, <2>1
  <2>3. RoundSound'
    BY <2>2 DEF RoundSound, SoundInv, MayReinstate
  <2>4. \A q \in Pipeline \ raced' : Sound(q, status'[q])
    BY <1>12, ApplySound
  <2> QED
    BY <1>12, <2>3, <2>4 DEF SoundInv
<1>13. ASSUME NEW p \in Pipeline, MarkVictim(p)
       PROVE  SoundInv'
  <2> DEFINE w == Failure(round.seen[p], round.owner[p], round.specs[p], 0)
  <2>1. /\ round.pc = "mark" /\ round.pc # "idle" /\ p \in round.todo
        /\ round' = [round EXCEPT !.todo = @ \ {p}] /\ task' = task
        /\ Apply(p, w, TRUE)
    BY <1>13 DEF MarkVictim
  <2>2. References(p, round.specs[p])
    BY <2>1 DEF SoundInv, RoundSound
  <2>3. Sound(p, w.obj)
    BY <2>2 DEF Sound, Unsettled, IsValid, Failure
  <2> HIDE DEF w
  <2> QED
    BY <1>12, <2>1, <2>3
<1>14. ASSUME NEW p \in Pipeline, Reinstate(p)
       PROVE  SoundInv'
  <2> DEFINE w == Success(round.seen[p], round.specs[p], round.seen[p].related)
  <2>1. /\ round.pc = "reinstate" /\ round.pc # "idle" /\ p \in round.todo
        /\ round' = [round EXCEPT !.todo = @ \ {p}] /\ task' = task
        /\ Apply(p, w, p \notin round.tainted)
    BY <1>14 DEF Reinstate
  <2>2. p \notin round.tainted =>
          /\ round.seen[p].related = 0 /\ References(p, round.specs[p])
    BY <2>1 DEF SoundInv, RoundSound, MayReinstate, Unsettled
  <2>3. p \notin round.tainted => Sound(p, w.obj)
    BY <2>2, StatusAssumption DEF Sound, Unsettled, Attributed, Success
  <2> HIDE DEF w
  <2> QED
    BY <1>12, <2>1, <2>3
<1>15. CASE RejectRound \/ FinishRound \/ FailRound
  <2>1. round' = Idle /\ UNCHANGED <<status, raced, task>>
    BY <1>15 DEF RejectRound, FinishRound, FailRound
  <2> QED
    BY <2>1 DEF SoundInv, RoundSound, Idle
<1>16. CASE PublishRound
  <2>1. round.pc # "idle" /\ round.pc = "mark" /\ UNCHANGED <<status, raced, task>>
    BY <1>16 DEF PublishRound
  <2>2. round \in [pc : {"mark", "reinstate"}, tainted : SUBSET Pipeline, specs : [Pipeline -> 0..MaxSpec],
                   seen : [Pipeline -> Status], versions : [Pipeline -> 0..MaxVersion],
                   owner : Owners, todo : SUBSET Pipeline, target : SUBSET Pipeline]
    BY <2>1, RoundCases
  <2>3. /\ round'.pc = "reinstate" /\ round'.specs = round.specs /\ round'.seen = round.seen
        /\ round'.todo = {p \in round.target : ~IsValid(round.seen[p])}
        /\ round'.tainted = round.tainted
    BY <1>16, <2>2 DEF PublishRound
  <2>4. RoundSound'
    BY <2>1, <2>3 DEF SoundInv, RoundSound, MayReinstate
  <2> QED
    BY <2>1, <2>4 DEF SoundInv
<1>17. CASE Restart
  <2>1. /\ round' = Idle /\ UNCHANGED <<status, raced>> /\ \A p \in Pipeline : task'[p] = Idle
    BY <1>17 DEF Restart
  <2> QED
    BY <2>1 DEF SoundInv, RoundSound, Idle
<1>18. CASE UNCHANGED vars
  BY <1>0, <1>18 DEF vars
<1> QED
  BY <1>1, <1>2, <1>3, <1>4, <1>6, <1>7, <1>8, <1>9, <1>10, <1>11, <1>13, <1>14, <1>15,
     <1>16, <1>17, <1>18
  DEF Next, PipelineStep, RoundStep

-----------------------------------------------------------------------------
(* If rounds and reconciles take turns, no status is mixed.                *)

TakeTurns == round = Idle \/ \A p \in Pipeline : task[p] = Idle

(* What a reconcile of p read is still its status st, so that its patch    *)
(* will leave what it means to write.                                      *)
FreshTask(t, st) ==
    /\ t.pc \in {"index", "check"} => t.base = st
    /\ t.pc = "patch" => MergePatch(st, t.write.base, t.write.obj) = t.write.obj

(* The same of the pipelines a round has yet to write: the victims are     *)
(* disjoint from the targets.                                              *)
RoundFresh ==
    /\ round.pc # "idle" =>
          /\ round.tainted = {}
          /\ \A p \in round.todo : round.seen[p] = status[p]
    /\ round.pc = "mark" =>
          /\ round.todo \cap round.target = {}
          /\ \A p \in round.target : round.seen[p] = status[p]

TurnsInv ==
    /\ raced = {}
    /\ TakeTurns
    /\ \A p \in Pipeline : FreshTask(task[p], status[p])
    /\ RoundFresh

(* A patch against the status it finds leaves what was meant.              *)
LEMMA FailureLands ==
    ASSUME NEW st \in Status, NEW r, NEW s, NEW v, NEW w, w = Failure(st, r, s, v)
    PROVE  MergePatch(st, w.base, w.obj) = w.obj
BY DEF MergePatch, Patched, Failure, Status

LEMMA SuccessLands ==
    ASSUME NEW st \in Status, NEW s, NEW v, NEW w, w = Success(st, s, v)
    PROVE  MergePatch(st, w.base, w.obj) = w.obj
BY DEF MergePatch, Patched, Success, Status

LEMMA IdleFresh == ASSUME NEW st PROVE FreshTask(Idle, st) /\ FreshTask(Announcing, st)
BY DEF FreshTask, Idle, Announcing

(* A step of the reconcile of p that writes no status.                     *)
LEMMA TaskStepTurns ==
    ASSUME Typed, TurnsInv, NEW p \in Pipeline, NEW t,
           round = Idle \/ t = Idle,
           task' = [task EXCEPT ![p] = t],
           UNCHANGED <<status, raced, round>>,
           FreshTask(t, status[p])
    PROVE  TurnsInv'
<1>1. \A q \in Pipeline : task'[q] = IF q = p THEN t ELSE task[q]
  BY DEF Typed
<1>2. TakeTurns'
  BY <1>1 DEF TurnsInv, TakeTurns
<1>3. RoundFresh'
  BY DEF TurnsInv, RoundFresh
<1> QED
  BY <1>1, <1>2, <1>3 DEF TurnsInv

LEMMA TurnsInductive ==
    ASSUME Typed, ~Overlap, TurnsInv, [Next]_vars
    PROVE  TurnsInv'
<1>0. ASSUME UNCHANGED <<status, raced, task, round>>
      PROVE  TurnsInv'
  BY <1>0 DEF TurnsInv, TakeTurns, RoundFresh
<1>1. ASSUME NEW p \in Pipeline, EditSpec(p) \/ RotateSecret(p) \/ RetryPipeline(p) \/ PollPipeline(p)
      PROVE  TurnsInv'
  BY <1>0, <1>1 DEF EditSpec, RotateSecret, Edit, RetryPipeline, PollPipeline
<1>2. ASSUME NEW p \in Pipeline, ReadPipeline(p)
      PROVE  TurnsInv'
  <2> DEFINE t == [pc |-> "index", spec |-> spec[p], base |-> status[p], token |-> Token(p)]
  <2>1. round = Idle /\ task' = [task EXCEPT ![p] = t] /\ UNCHANGED <<status, raced, round>>
    BY <1>2 DEF ReadPipeline
  <2>2. FreshTask(t, status[p])
    BY DEF FreshTask
  <2> HIDE DEF t
  <2> QED
    BY <2>1, <2>2, TaskStepTurns
<1>3. ASSUME NEW p \in Pipeline,
             ForgetPipeline(p) \/ SkipPipeline(p) \/ AnnouncePipeline(p) \/ FailPipeline(p)
      PROVE  TurnsInv'
  <2>1. task' = [task EXCEPT ![p] = Idle] /\ UNCHANGED <<status, raced, round>>
    BY <1>3 DEF ForgetPipeline, SkipPipeline, AnnouncePipeline, FailPipeline
  <2> QED
    BY <2>1, IdleFresh, TaskStepTurns
<1>4. ASSUME NEW p \in Pipeline, task[p].pc # "idle"
      PROVE  round = Idle
  BY <1>4 DEF TurnsInv, TakeTurns, Idle
<1>5. ASSUME NEW p \in Pipeline, IndexPipeline(p)
      PROVE  TurnsInv'
  <2> DEFINE t == [task[p] EXCEPT !.pc = "check"]
  <2>1. /\ round = Idle /\ task' = [task EXCEPT ![p] = t] /\ UNCHANGED <<status, raced, round>>
        /\ task[p].pc = "index"
    BY <1>4, <1>5 DEF IndexPipeline
  <2>2. task[p] \in [pc : {"index", "check"}, spec : 0..MaxSpec, base : Status, token : 0..MaxVersion]
    BY <2>1, TaskCases
  <2>3. t.pc = "check" /\ t.base = task[p].base
    BY <2>2
  <2>4. FreshTask(t, status[p])
    BY <2>1, <2>3 DEF FreshTask, TurnsInv
  <2> HIDE DEF t
  <2> QED
    BY <2>1, <2>4, TaskStepTurns
<1>6. ASSUME NEW p \in Pipeline, NEW w, NEW again, task[p].pc # "idle",
             task' = Patching(p, w, again), UNCHANGED <<status, raced, round>>,
             MergePatch(status[p], w.base, w.obj) = w.obj
      PROVE  TurnsInv'
  <2> DEFINE t == [pc |-> "patch", write |-> w, again |-> again]
  <2>1. task' = [task EXCEPT ![p] = t] /\ round = Idle
    BY <1>4, <1>6 DEF Patching
  <2>2. FreshTask(t, status[p])
    BY <1>6 DEF FreshTask
  <2> HIDE DEF t
  <2> QED
    BY <1>6, <2>1, <2>2, TaskStepTurns
<1>7. ASSUME NEW p \in Pipeline, task[p].pc \in {"index", "check"}, UNCHANGED <<status, raced, round>>,
             NEW r, NEW v, NEW again,
             \/ task' = Patching(p, Failure(task[p].base, r, task[p].spec, v), again)
             \/ task' = Patching(p, Success(task[p].base, task[p].spec, v), again)
      PROVE  TurnsInv'
  <2> DEFINE f == Failure(task[p].base, r, task[p].spec, v)
             w == Success(task[p].base, task[p].spec, v)
  <2>1. task[p].base = status[p] /\ status[p] \in Status /\ task[p].pc # "idle"
    BY <1>7 DEF TurnsInv, FreshTask, Typed
  <2>2. MergePatch(status[p], f.base, f.obj) = f.obj
    <3>1. f = Failure(status[p], r, task[p].spec, v)
      BY <2>1
    <3> HIDE DEF f
    <3> QED
      BY <2>1, <3>1, FailureLands
  <2>3. MergePatch(status[p], w.base, w.obj) = w.obj
    <3>1. w = Success(status[p], task[p].spec, v)
      BY <2>1
    <3> HIDE DEF w
    <3> QED
      BY <2>1, <3>1, SuccessLands
  <2>4. task' = Patching(p, f, again) \/ task' = Patching(p, w, again)
    BY <1>7
  <2> HIDE DEF f, w
  <2> QED
    BY <1>6, <1>7, <2>1, <2>2, <2>3, <2>4
<1>8. ASSUME NEW p \in Pipeline, CheckPipeline(p) \/ CheckFault(p) \/ SecretFault(p)
      PROVE  TurnsInv'
  <2>1. task[p].pc \in {"index", "check"} /\ UNCHANGED <<status, raced, round>>
    BY <1>8 DEF CheckPipeline, CheckFault, SecretFault
  <2>2. \E r, v, again :
             \/ task' = Patching(p, Failure(task[p].base, r, task[p].spec, v), again)
             \/ task' = Patching(p, Success(task[p].base, task[p].spec, v), again)
    <3>1. CASE CheckPipeline(p)
      BY <3>1 DEF CheckPipeline
    <3>2. CASE CheckFault(p)
      BY <3>2 DEF CheckFault
    <3>3. CASE SecretFault(p)
      BY <3>3 DEF SecretFault
    <3> QED
      BY <1>8, <3>1, <3>2, <3>3
  <2> QED
    BY <1>7, <2>1, <2>2
<1>9. ASSUME NEW p \in Pipeline, PatchPipeline(p)
      PROVE  TurnsInv'
  <2>1. task[p].pc = "patch" /\ round = Idle /\ round' = Idle
    BY <1>4, <1>9 DEF PatchPipeline
  <2>2. /\ task'[p] \in {Idle, Announcing}
        /\ \A q \in Pipeline \ {p} : task'[q] = task[q] /\ status'[q] = status[q]
    BY <1>9 DEF PatchPipeline, Apply, Typed
  <2>3. MergePatch(status[p], task[p].write.base, task[p].write.obj) = task[p].write.obj
    BY <2>1 DEF TurnsInv, FreshTask
  <2>4. raced' = {}
    BY <1>9, <2>3 DEF PatchPipeline, Apply, TurnsInv
  <2>5. \A q \in Pipeline : FreshTask(task'[q], status'[q])
    BY <2>2, IdleFresh DEF TurnsInv
  <2>6. TakeTurns' /\ RoundFresh'
    BY <2>1 DEF TakeTurns, RoundFresh, Idle
  <2> QED
    BY <2>4, <2>5, <2>6 DEF TurnsInv
<1>10. CASE WakeWorkload
  BY <1>0, <1>10 DEF WakeWorkload
<1>11. CASE StartRound
  <2>1. /\ \A p \in Pipeline : task[p] = Idle
        /\ UNCHANGED <<status, raced, task>>
    BY <1>11 DEF StartRound
  <2>2. PICK A \in SUBSET Candidates :
             round' = [pc |-> "mark", tainted |-> raced,
                       specs |-> spec, seen |-> status, versions |-> [p \in Pipeline |-> Token(p)],
                       owner |-> [p \in Candidates \ A |-> Survivor(spec, A, p)],
                       todo |-> {p \in Candidates \ A : status[p].reason # Survivor(spec, A, p)},
                       target |-> {p \in A : ~EditedWhileFailed(p)}]
    BY <1>11 DEF StartRound
  <2>3. RoundFresh'
    BY <2>1, <2>2 DEF RoundFresh, TurnsInv
  <2> QED
    BY <2>1, <2>3 DEF TurnsInv, TakeTurns
<1>12. ASSUME NEW p \in Pipeline, NEW w, round.pc # "idle", p \in round.todo,
              round' = [round EXCEPT !.todo = @ \ {p}], task' = task,
              Apply(p, w, TRUE), MergePatch(status[p], w.base, w.obj) = w.obj
       PROVE  TurnsInv'
  <2>1. \A q \in Pipeline : task[q] = Idle /\ task'[q] = Idle
    BY <1>12 DEF TurnsInv, TakeTurns, Idle
  <2>2. round \in [pc : {"mark", "reinstate"}, tainted : SUBSET Pipeline, specs : [Pipeline -> 0..MaxSpec],
                   seen : [Pipeline -> Status], versions : [Pipeline -> 0..MaxVersion],
                   owner : Owners, todo : SUBSET Pipeline, target : SUBSET Pipeline]
    BY <1>12, RoundCases
  <2>3. /\ round'.pc = round.pc /\ round'.tainted = round.tainted /\ round'.seen = round.seen
        /\ round'.todo = round.todo \ {p} /\ round'.target = round.target
    BY <1>12, <2>2
  <2>4. raced' = {} /\ \A q \in Pipeline \ {p} : status'[q] = status[q]
    BY <1>12 DEF Apply, TurnsInv, Typed
  <2>5. RoundFresh'
    BY <1>12, <2>2, <2>3, <2>4 DEF RoundFresh, TurnsInv
  <2> QED
    BY <2>1, <2>4, <2>5, IdleFresh DEF TurnsInv, TakeTurns
<1>13. ASSUME NEW p \in Pipeline, MarkVictim(p) \/ Reinstate(p)
       PROVE  TurnsInv'
  <2> DEFINE f == Failure(round.seen[p], round.owner[p], round.specs[p], 0)
             w == Success(round.seen[p], round.specs[p], round.seen[p].related)
  <2>1. /\ round.pc # "idle" /\ p \in round.todo
        /\ round' = [round EXCEPT !.todo = @ \ {p}] /\ task' = task
    BY <1>13 DEF MarkVictim, Reinstate
  <2>2. round.tainted = {} /\ round.seen[p] = status[p] /\ status[p] \in Status
    BY <2>1 DEF TurnsInv, RoundFresh, Typed
  <2>3. Apply(p, f, TRUE) \/ Apply(p, w, TRUE)
    <3>1. (p \notin round.tainted) = TRUE
      BY <2>2
    <3>2. CASE MarkVictim(p)
      BY <3>2 DEF MarkVictim
    <3>3. CASE Reinstate(p)
      BY <3>1, <3>3 DEF Reinstate
    <3> QED
      BY <1>13, <3>2, <3>3
  <2>4. MergePatch(status[p], f.base, f.obj) = f.obj
    <3>1. f = Failure(status[p], round.owner[p], round.specs[p], 0)
      BY <2>2
    <3> HIDE DEF f
    <3> QED
      BY <2>2, <3>1, FailureLands
  <2>5. MergePatch(status[p], w.base, w.obj) = w.obj
    <3>1. w = Success(status[p], round.specs[p], round.seen[p].related)
      BY <2>2
    <3> HIDE DEF w
    <3> QED
      BY <2>2, <3>1, SuccessLands
  <2> HIDE DEF f, w
  <2> QED
    BY <1>12, <2>1, <2>3, <2>4, <2>5
<1>14. CASE RejectRound \/ FinishRound \/ FailRound
  <2>1. round' = Idle /\ UNCHANGED <<status, raced, task>>
    BY <1>14 DEF RejectRound, FinishRound, FailRound
  <2> QED
    BY <2>1 DEF TurnsInv, TakeTurns, RoundFresh, Idle
<1>15. CASE PublishRound
  <2>1. round.pc # "idle" /\ round.pc = "mark" /\ UNCHANGED <<status, raced, task>>
    BY <1>15 DEF PublishRound
  <2>2. round \in [pc : {"mark", "reinstate"}, tainted : SUBSET Pipeline, specs : [Pipeline -> 0..MaxSpec],
                   seen : [Pipeline -> Status], versions : [Pipeline -> 0..MaxVersion],
                   owner : Owners, todo : SUBSET Pipeline, target : SUBSET Pipeline]
    BY <2>1, RoundCases
  <2>3. /\ round'.pc = "reinstate" /\ round'.tainted = round.tainted /\ round'.seen = round.seen
        /\ round'.todo \subseteq round.target
    BY <1>15, <2>2 DEF PublishRound
  <2>4. RoundFresh'
    BY <2>1, <2>3 DEF TurnsInv, RoundFresh
  <2>5. TakeTurns'
    BY <2>1 DEF TurnsInv, TakeTurns, Idle
  <2> QED
    BY <2>1, <2>4, <2>5 DEF TurnsInv
<1>16. CASE Restart
  <2>1. /\ round' = Idle /\ UNCHANGED <<status, raced>> /\ \A p \in Pipeline : task'[p] = Idle
    BY <1>16 DEF Restart
  <2> QED
    BY <2>1, IdleFresh DEF TurnsInv, TakeTurns, RoundFresh, Idle
<1>17. CASE UNCHANGED vars
  BY <1>0, <1>17 DEF vars
<1> QED
  BY <1>1, <1>2, <1>3, <1>5, <1>8, <1>9, <1>10, <1>11, <1>13, <1>14, <1>15, <1>16, <1>17
  DEF Next, PipelineStep, RoundStep

(* For any pipelines, collisions and settings, with the configcheck of the *)
(* workload disabled too, whatever is edited, rotated, fails or restarts:  *)
(* a status hides a spec that fails its own check behind the "no changes"  *)
(* return only if a round overlapped a reconcile and a patch mixed their   *)
(* verdicts, or a reinstatement trusted one.  A victim that was never      *)
(* checked may be reinstated, but without a token, so its next reconcile   *)
(* checks it (Reconcile in pipeline_controller.go, reinstatePipelines and  *)
(* PatchStatus).                                                           *)
THEOREM BadSpecsStayVisible == Spec => []HiddenOnlyByRace
<1> DEFINE Inv == Typed /\ SoundInv /\ (~Overlap => TurnsInv)
<1>1. Init => Inv
  <2> SUFFICES ASSUME Init
               PROVE  SoundInv /\ TurnsInv
    BY TypedInitially
  <2>1. \A p \in Pipeline : Sound(p, Fresh)
    BY StatusAssumption DEF Sound, Fresh, Attributed, IsValid
  <2>2. RoundSound /\ RoundFresh /\ TakeTurns
    BY DEF Init, RoundSound, RoundFresh, TakeTurns, Idle
  <2>3. \A p \in Pipeline : task[p].pc # "patch" /\ FreshTask(task[p], status[p])
    BY IdleFresh DEF Init, Idle
  <2> QED
    BY <2>1, <2>2, <2>3 DEF Init, SoundInv, TurnsInv
<1>2. Inv /\ [Next]_vars => Inv'
  <2> SUFFICES ASSUME Inv, [Next]_vars
               PROVE  Inv'
    OBVIOUS
  <2>1. Typed' /\ SoundInv'
    BY TypedInductive, SoundInductive
  <2>2. Overlap' = Overlap
    BY OptionsStay DEF Overlap
  <2>3. ~Overlap => TurnsInv'
    BY TurnsInductive
  <2> QED
    BY <2>1, <2>2, <2>3
<1>3. Inv => HiddenOnlyByRace
  <2> SUFFICES ASSUME Inv, NEW p \in Pipeline, HiddenBadSpec(p)
               PROVE  Overlap /\ p \in raced
    BY DEF HiddenOnlyByRace
  <2>1. ~Sound(p, status[p])
    <3>1. References(p, spec[p]) => Token(p) # 0
      BY DEF Token, Typed
    <3> QED
      BY <3>1 DEF HiddenBadSpec, Sound, Unsettled
  <2>2. p \in raced
    BY <2>1 DEF SoundInv
  <2>3. Overlap
    BY <2>2 DEF TurnsInv
  <2> QED
    BY <2>2, <2>3
<1> QED
  BY <1>1, <1>2, <1>3, PTL DEF Spec

-----------------------------------------------------------------------------
(* An unreadable Secret is retried, however reconciles and rounds overlap. *)

(* What the rounds do to a status st of p that a reconcile read as b:      *)
(* they overwrite an outage, write no token and no spec without            *)
(* references.                                                             *)
Kept(p, b, st) ==
    /\ st.reason = "secret" => b = st
    /\ b.related = 0 => st.related = 0
    /\ References(p, b.hash) => References(p, st.hash)

(* A patch that reports an outage brings a retry and leaves no token; any  *)
(* other one leaves no report of an outage.                                *)
PatchKept(p, t, st) ==
    IF t.write.obj.reason = "secret"
    THEN /\ Kept(p, t.write.base, st) /\ t.again /\ ~IsValid(t.write.obj)
         /\ t.write.obj.related = 0 /\ References(p, t.write.obj.hash)
    ELSE t.write.obj.reason # t.write.base.reason \/ st.reason # "secret"

TaskKept(p, t, st) ==
    /\ t.pc \in {"index", "check"} =>
          Kept(p, t.base, st) /\ (References(p, t.spec) => t.token # 0)
    /\ t.pc = "patch" => PatchKept(p, t, st)
    /\ t.pc = "announce" => st.reason # "secret"

Retried(p) == p \in queue \/ p \in retry \/ task[p] # Idle

OutageKept(p) ==
    status[p].reason = "secret" =>
        status[p].related = 0 /\ References(p, status[p].hash) /\ (Exists(p) => Retried(p))

(* A pipeline that was gone when it was read is gone.                      *)
GoneIsGone(p) == task[p].pc \in {"index", "check"} /\ task[p].spec = 0 => spec[p] = 0

RoundKept ==
    /\ round.pc = "mark" =>
          /\ \A p \in round.todo :
                round.seen[p].reason # round.owner[p] /\ References(p, round.specs[p])
          /\ \A p \in round.target :
                IsValid(round.seen[p]) \/ round.seen[p].hash = round.specs[p]
    /\ round.pc = "reinstate" =>
          \A p \in round.todo : round.seen[p].hash = round.specs[p]

OutageInv ==
    /\ \A p \in Pipeline : TaskKept(p, task[p], status[p]) /\ OutageKept(p) /\ GoneIsGone(p)
    /\ RoundKept

(* A step of the reconcile of p that writes no status.                     *)
LEMMA TaskStepKept ==
    ASSUME Typed, OutageInv, NEW p \in Pipeline, NEW t,
           task' = [task EXCEPT ![p] = t], UNCHANGED <<spec, status, round>>,
           TaskKept(p, t, status[p]),
           status[p].reason = "secret" /\ Exists(p) => p \in queue' \/ p \in retry' \/ t # Idle,
           \A q \in Pipeline \ {p} : (q \in queue' <=> q \in queue) /\ (q \in retry' <=> q \in retry),
           t.pc \in {"index", "check"} /\ t.spec = 0 => spec[p] = 0
    PROVE  OutageInv'
<1>1. \A q \in Pipeline : task'[q] = IF q = p THEN t ELSE task[q]
  BY DEF Typed
<1>2. RoundKept'
  BY DEF OutageInv, RoundKept
<1>3. \A q \in Pipeline : OutageKept(q)'
  BY <1>1 DEF OutageInv, OutageKept, Exists, Retried
<1>4. \A q \in Pipeline : TaskKept(q, task'[q], status'[q]) /\ GoneIsGone(q)'
  BY <1>1 DEF OutageInv, GoneIsGone
<1> QED
  BY <1>2, <1>3, <1>4 DEF OutageInv

(* A write of a round.                                                     *)
LEMMA RoundWriteKept ==
    ASSUME Typed, OutageInv, NEW p \in Pipeline, NEW st,
           status' = [status EXCEPT ![p] = st], UNCHANGED <<spec, task, queue, retry>>,
           round.pc # "idle", round' = [round EXCEPT !.todo = @ \ {p}],
           st.reason # "secret",
           status[p].related = 0 => st.related = 0,
           References(p, status[p].hash) => References(p, st.hash)
    PROVE  OutageInv'
<1>1. \A q \in Pipeline : status'[q] = IF q = p THEN st ELSE status[q]
  BY DEF Typed
<1>2. round \in [pc : {"mark", "reinstate"}, tainted : SUBSET Pipeline, specs : [Pipeline -> 0..MaxSpec],
                 seen : [Pipeline -> Status], versions : [Pipeline -> 0..MaxVersion],
                 owner : Owners, todo : SUBSET Pipeline, target : SUBSET Pipeline]
  BY RoundCases
<1>3. /\ round'.pc = round.pc /\ round'.specs = round.specs /\ round'.seen = round.seen
      /\ round'.todo = round.todo \ {p} /\ round'.target = round.target
      /\ round'.owner = round.owner
  BY <1>2
<1>4. RoundKept'
  BY <1>3 DEF OutageInv, RoundKept
<1>5. TaskKept(p, task[p], st)
  BY DEF OutageInv, TaskKept, PatchKept, Kept
<1>6. \A q \in Pipeline : TaskKept(q, task'[q], status'[q])
  BY <1>1, <1>5 DEF OutageInv
<1>7. \A q \in Pipeline : OutageKept(q)' /\ GoneIsGone(q)'
  BY <1>1 DEF OutageInv, OutageKept, GoneIsGone, Exists, Retried
<1> QED
  BY <1>4, <1>6, <1>7 DEF OutageInv

(* What the patch of a reconcile leaves.                                   *)
LEMMA PatchLeaves ==
    ASSUME NEW p \in Pipeline, NEW t, NEW st \in Status, PatchKept(p, t, st), NEW res,
           res = MergePatch(st, t.write.base, t.write.obj), res.reason = "secret"
    PROVE  /\ res.related = 0 /\ References(p, res.hash) /\ t.again
           /\ ~IsValid(t.write.obj)
BY DEF PatchKept, Kept, MergePatch, Patched

LEMMA OutageInductive == Typed /\ OutageInv /\ [Next]_vars => OutageInv'
<1> SUFFICES ASSUME Typed, OutageInv, [Next]_vars
             PROVE  OutageInv'
  OBVIOUS
<1>0. ASSUME UNCHANGED <<status, task, round>>,
             \A p \in Pipeline : (p \in queue \/ p \in retry) => (p \in queue' \/ p \in retry'),
             \A p \in Pipeline : spec[p] = 0 => spec'[p] = 0
      PROVE  OutageInv'
  <2>1. RoundKept'
    BY <1>0 DEF OutageInv, RoundKept
  <2>2. \A p \in Pipeline : TaskKept(p, task[p], status[p])' /\ OutageKept(p)' /\ GoneIsGone(p)'
    BY <1>0 DEF OutageInv, OutageKept, GoneIsGone, Retried, Exists
  <2> QED
    BY <2>1, <2>2 DEF OutageInv
<1>1. ASSUME NEW p \in Pipeline, EditSpec(p)
      PROVE  OutageInv'
  <2>1. /\ \A q \in Pipeline : spec[q] = 0 => spec'[q] = 0
        /\ UNCHANGED <<status, task, round, retry>> /\ queue \subseteq queue'
    BY <1>1 DEF EditSpec, Edit, Exists, Typed
  <2> QED
    BY <1>0, <2>1
<1>2. ASSUME NEW p \in Pipeline, RotateSecret(p) \/ RetryPipeline(p) \/ PollPipeline(p)
      PROVE  OutageInv'
  <2>1. /\ UNCHANGED <<spec, status, task, round>>
        /\ \A q \in Pipeline : (q \in queue \/ q \in retry) => (q \in queue' \/ q \in retry')
    BY <1>2 DEF RotateSecret, Edit, RetryPipeline, PollPipeline, users
  <2> QED
    BY <1>0, <2>1
<1>3. CASE WakeWorkload
  BY <1>0, <1>3 DEF WakeWorkload, users
<1>4. ASSUME NEW p \in Pipeline, ReadPipeline(p)
      PROVE  OutageInv'
  <2> DEFINE t == [pc |-> "index", spec |-> spec[p], base |-> status[p], token |-> Token(p)]
  <2>1. /\ task' = [task EXCEPT ![p] = t] /\ UNCHANGED <<spec, status, round, retry>>
        /\ queue' = queue \ {p}
    BY <1>4 DEF ReadPipeline, users
  <2>2. TaskKept(p, t, status[p])
    BY DEF TaskKept, Kept, Token, Typed
  <2>3. t # Idle /\ t.spec = spec[p]
    BY DEF Idle
  <2> HIDE DEF t
  <2> QED
    BY <2>1, <2>2, <2>3, TaskStepKept
<1>5. ASSUME NEW p \in Pipeline, task' = [task EXCEPT ![p] = Idle],
             UNCHANGED <<spec, status, round, queue, retry>>,
             status[p].reason = "secret" => ~Exists(p)
      PROVE  OutageInv'
  <2>1. TaskKept(p, Idle, status[p])
    BY DEF TaskKept, Idle
  <2>2. Idle.pc = "idle"
    BY DEF Idle
  <2> QED
    BY <1>5, <2>1, <2>2, TaskStepKept
<1>6. ASSUME NEW p \in Pipeline, ForgetPipeline(p)
      PROVE  OutageInv'
  <2>1. ~Exists(p)
    BY <1>6 DEF ForgetPipeline, OutageInv, GoneIsGone, Exists
  <2> QED
    BY <1>5, <1>6, <2>1 DEF ForgetPipeline, users
<1>7. ASSUME NEW p \in Pipeline, SkipPipeline(p)
      PROVE  OutageInv'
  <2>1. /\ task[p].base.hash = task[p].spec /\ task[p].base.related = task[p].token
        /\ Kept(p, task[p].base, status[p]) /\ (References(p, task[p].spec) => task[p].token # 0)
    BY <1>7 DEF SkipPipeline, Unchanged, OutageInv, TaskKept
  <2>2. status[p].reason # "secret"
    BY <2>1 DEF OutageInv, OutageKept, Kept
  <2> QED
    BY <1>5, <1>7, <2>2 DEF SkipPipeline, users
<1>8. ASSUME NEW p \in Pipeline, AnnouncePipeline(p)
      PROVE  OutageInv'
  <2>1. status[p].reason # "secret"
    BY <1>8 DEF AnnouncePipeline, OutageInv, TaskKept
  <2> QED
    BY <1>5, <1>8, <2>1 DEF AnnouncePipeline, users
<1>9. ASSUME NEW p \in Pipeline, FailPipeline(p)
      PROVE  OutageInv'
  <2>1. /\ task' = [task EXCEPT ![p] = Idle] /\ UNCHANGED <<spec, status, round, retry>>
        /\ queue' = queue \cup {p}
    BY <1>9 DEF FailPipeline, users
  <2>2. TaskKept(p, Idle, status[p]) /\ Idle.pc = "idle"
    BY DEF TaskKept, Idle
  <2> QED
    BY <2>1, <2>2, TaskStepKept
<1>10. ASSUME NEW p \in Pipeline, IndexPipeline(p)
       PROVE  OutageInv'
  <2> DEFINE t == [task[p] EXCEPT !.pc = "check"]
  <2>1. /\ task' = [task EXCEPT ![p] = t] /\ UNCHANGED <<spec, status, round, queue, retry>>
        /\ task[p].pc = "index" /\ task[p].spec # 0
    BY <1>10 DEF IndexPipeline, users
  <2>2. task[p] \in [pc : {"index", "check"}, spec : 0..MaxSpec, base : Status, token : 0..MaxVersion]
    BY <2>1, TaskCases
  <2>3. /\ t.pc = "check" /\ t.base = task[p].base /\ t.spec = task[p].spec
        /\ t.token = task[p].token /\ t # Idle
    BY <2>2 DEF Idle
  <2>4. TaskKept(p, t, status[p])
    BY <2>1, <2>3 DEF TaskKept, OutageInv
  <2> HIDE DEF t
  <2> QED
    BY <2>1, <2>3, <2>4, TaskStepKept
<1>11. ASSUME NEW p \in Pipeline, NEW w, NEW again, task' = Patching(p, w, again),
              UNCHANGED <<spec, status, round, queue, retry>>,
              PatchKept(p, [pc |-> "patch", write |-> w, again |-> again], status[p])
       PROVE  OutageInv'
  <2> DEFINE t == [pc |-> "patch", write |-> w, again |-> again]
  <2>1. task' = [task EXCEPT ![p] = t]
    BY <1>11 DEF Patching
  <2>2. TaskKept(p, t, status[p]) /\ t.pc = "patch" /\ t # Idle
    BY <1>11 DEF TaskKept, Idle
  <2> HIDE DEF t
  <2> QED
    BY <1>11, <2>1, <2>2, TaskStepKept
<1>12. ASSUME NEW p \in Pipeline, task[p].pc \in {"index", "check"}, NEW v, NEW again
       PROVE  PatchKept(p, [pc |-> "patch", write |-> Failure(task[p].base, "own", task[p].spec, v),
                            again |-> again], status[p])
  <2>1. Kept(p, task[p].base, status[p])
    BY <1>12 DEF OutageInv, TaskKept
  <2> QED
    BY <2>1 DEF PatchKept, Kept, Failure
<1>13. ASSUME NEW p \in Pipeline, CheckPipeline(p)
       PROVE  OutageInv'
  <2> DEFINE w == Success(task[p].base, task[p].spec, task[p].token)
             f == Failure(task[p].base, "own", task[p].spec, task[p].token)
  <2>1. UNCHANGED <<spec, status, round, queue, retry>> /\ task[p].pc \in {"index", "check"}
    BY <1>13 DEF CheckPipeline, users
  <2>2. CASE task[p].spec \in Good[p]
    <3>1. PatchKept(p, [pc |-> "patch", write |-> w, again |-> FALSE], status[p])
      <4>1. task[p].base \in Status
        BY <2>1, TaskCases
      <4>2. w.obj.reason = "none" /\ w.base.reason = "empty"
        BY <4>1 DEF Success, Status
      <4> HIDE DEF w
      <4> QED
        BY <4>2 DEF PatchKept
    <3>2. task' = Patching(p, w, FALSE)
      BY <1>13, <2>2 DEF CheckPipeline
    <3> HIDE DEF w
    <3> QED
      BY <1>11, <2>1, <3>1, <3>2
  <2>3. CASE task[p].spec \notin Good[p]
    <3>1. PICK again \in {FALSE, RetryInvalid} : task' = Patching(p, f, again)
      BY <1>13, <2>3 DEF CheckPipeline
    <3>2. PatchKept(p, [pc |-> "patch", write |-> f, again |-> again], status[p])
      BY <1>12, <2>1
    <3> HIDE DEF f
    <3> QED
      BY <1>11, <2>1, <3>1, <3>2
  <2> QED
    BY <2>2, <2>3
<1>14. ASSUME NEW p \in Pipeline, CheckFault(p)
       PROVE  OutageInv'
  <2> DEFINE f == Failure(task[p].base, "own", task[p].spec, task[p].token)
  <2>1. /\ UNCHANGED <<spec, status, round, queue, retry>> /\ task[p].pc \in {"index", "check"}
        /\ task' = Patching(p, f, RetryInvalid)
    BY <1>14 DEF CheckFault, users
  <2>2. PatchKept(p, [pc |-> "patch", write |-> f, again |-> RetryInvalid], status[p])
    BY <1>12, <2>1
  <2> HIDE DEF f
  <2> QED
    BY <1>11, <2>1, <2>2
<1>15. ASSUME NEW p \in Pipeline, SecretFault(p)
       PROVE  OutageInv'
  <2> DEFINE f == Failure(task[p].base, "secret", task[p].spec, 0)
  <2>1. /\ UNCHANGED <<spec, status, round, queue, retry>> /\ task[p].pc \in {"index", "check"}
        /\ task' = Patching(p, f, TRUE) /\ References(p, task[p].spec)
    BY <1>15 DEF SecretFault, users
  <2>2. Kept(p, task[p].base, status[p])
    BY <2>1 DEF OutageInv, TaskKept
  <2>3. PatchKept(p, [pc |-> "patch", write |-> f, again |-> TRUE], status[p])
    BY <2>1, <2>2 DEF PatchKept, Failure, IsValid
  <2> HIDE DEF f
  <2> QED
    BY <1>11, <2>1, <2>3
<1>16. ASSUME NEW p \in Pipeline, PatchPipeline(p)
       PROVE  OutageInv'
  <2> DEFINE res == MergePatch(status[p], task[p].write.base, task[p].write.obj)
  <2>1. /\ PatchKept(p, task[p], status[p]) /\ status[p] \in Status
        /\ UNCHANGED <<spec, round, queue>>
        /\ retry' = IF task[p].again THEN retry \cup {p} ELSE retry
        /\ task'[p] = IF IsValid(task[p].write.obj) THEN Announcing ELSE Idle
        /\ \A q \in Pipeline \ {p} : task'[q] = task[q] /\ status'[q] = status[q]
        /\ status'[p] = res
    BY <1>16 DEF PatchPipeline, Apply, users, Typed, OutageInv, TaskKept
  <2>2. res.reason = "secret" => /\ res.related = 0 /\ References(p, res.hash) /\ task[p].again
                                 /\ ~IsValid(task[p].write.obj)
    <3> HIDE DEF res
    <3> QED
      BY <2>1, PatchLeaves DEF res
  <2> HIDE DEF res
  <2>3. /\ TaskKept(p, task'[p], status'[p]) /\ OutageKept(p)' /\ GoneIsGone(p)'
    BY <2>1, <2>2 DEF TaskKept, OutageKept, Retried, GoneIsGone, Idle, Announcing
  <2>4. \A q \in Pipeline \ {p} : TaskKept(q, task'[q], status'[q]) /\ OutageKept(q)' /\ GoneIsGone(q)'
    BY <2>1 DEF OutageInv, OutageKept, Exists, Retried, GoneIsGone
  <2>5. RoundKept'
    BY <2>1 DEF OutageInv, RoundKept
  <2> QED
    BY <2>3, <2>4, <2>5 DEF OutageInv
<1>17. CASE StartRound
  <2>1. UNCHANGED <<spec, status, task, queue, retry>>
    BY <1>17 DEF StartRound, users
  <2>2. PICK A \in SUBSET Candidates :
             /\ Accepted(spec, Candidates, A)
             /\ round' = [pc |-> "mark", tainted |-> raced,
                          specs |-> spec, seen |-> status, versions |-> [p \in Pipeline |-> Token(p)],
                          owner |-> [p \in Candidates \ A |-> Survivor(spec, A, p)],
                          todo |-> {p \in Candidates \ A : status[p].reason # Survivor(spec, A, p)},
                          target |-> {p \in A : ~EditedWhileFailed(p)}]
    BY <1>17 DEF StartRound
  <2>3. ASSUME NEW p \in Candidates \ A
        PROVE  References(p, spec[p])
    BY <2>2, <2>3, VictimHasReferences
  <2>4. /\ round'.pc = "mark" /\ round'.seen = status /\ round'.specs = spec
        /\ \A p \in round'.todo : p \in Candidates \ A /\ status[p].reason # round'.owner[p]
        /\ \A p \in round'.target : ~EditedWhileFailed(p)
    BY <2>2
  <2>5. RoundKept'
    BY <2>3, <2>4 DEF RoundKept, EditedWhileFailed
  <2>6. \A p \in Pipeline : TaskKept(p, task[p], status[p])' /\ OutageKept(p)' /\ GoneIsGone(p)'
    BY <2>1 DEF OutageInv, OutageKept, GoneIsGone, Retried, Exists
  <2> QED
    BY <2>5, <2>6 DEF OutageInv
<1>18. ASSUME NEW p \in Pipeline, MarkVictim(p)
       PROVE  OutageInv'
  <2> DEFINE w == Failure(round.seen[p], round.owner[p], round.specs[p], 0)
             st == MergePatch(status[p], w.base, w.obj)
  <2>1. /\ round.pc = "mark" /\ round.pc # "idle" /\ p \in round.todo
        /\ round' = [round EXCEPT !.todo = @ \ {p}]
        /\ UNCHANGED <<spec, task, queue, retry>> /\ status' = [status EXCEPT ![p] = st]
    BY <1>18 DEF MarkVictim, Apply, users
  <2>2. /\ round.seen[p].reason # round.owner[p] /\ References(p, round.specs[p])
        /\ round.owner[p] \in Pipeline
    BY <2>1 DEF OutageInv, RoundKept, Typed, Owned
  <2>3. /\ w.base = round.seen[p] /\ w.obj.reason = round.owner[p] /\ w.obj.related = 0
        /\ w.obj.hash = round.specs[p]
    BY DEF Failure
  <2>4. /\ st.reason # "secret" /\ (status[p].related = 0 => st.related = 0)
        /\ (References(p, status[p].hash) => References(p, st.hash))
    <3> HIDE DEF w
    <3> QED
      BY <2>2, <2>3, StatusAssumption DEF MergePatch, Patched
  <2> HIDE DEF st
  <2> QED
    BY <2>1, <2>4, RoundWriteKept
<1>19. ASSUME NEW p \in Pipeline, Reinstate(p)
       PROVE  OutageInv'
  <2> DEFINE w == Success(round.seen[p], round.specs[p], round.seen[p].related)
             st == MergePatch(status[p], w.base, w.obj)
  <2>1. /\ round.pc = "reinstate" /\ round.pc # "idle" /\ p \in round.todo
        /\ round' = [round EXCEPT !.todo = @ \ {p}]
        /\ UNCHANGED <<spec, task, queue, retry>> /\ status' = [status EXCEPT ![p] = st]
    BY <1>19 DEF Reinstate, Apply, users
  <2>2. round.seen[p].hash = round.specs[p]
    BY <2>1 DEF OutageInv, RoundKept
  <2>3. round.seen[p] \in Status
    BY <2>1, RoundCases
  <2>4. /\ w.base.reason = "empty" /\ w.obj.reason = "none"
        /\ w.base.related = w.obj.related /\ w.base.hash = w.obj.hash
    BY <2>2, <2>3 DEF Success, Status
  <2>5. st.reason # "secret" /\ st.related = status[p].related /\ st.hash = status[p].hash
    <3> HIDE DEF w
    <3> QED
      BY <2>4 DEF MergePatch, Patched
  <2> HIDE DEF st
  <2> QED
    BY <2>1, <2>5, RoundWriteKept
<1>20. ASSUME UNCHANGED <<spec, status, task, queue, retry>>, RoundKept'
       PROVE  OutageInv'
  BY <1>20 DEF OutageInv, OutageKept, GoneIsGone, Retried, Exists
<1>21. CASE RejectRound \/ FinishRound \/ FailRound
  <2>1. RoundKept'
    BY <1>21 DEF RejectRound, FinishRound, FailRound, RoundKept, Idle
  <2> QED
    BY <1>20, <1>21, <2>1 DEF RejectRound, FinishRound, FailRound, users
<1>22. CASE PublishRound
  <2>1. round.pc # "idle" /\ round.pc = "mark"
    BY <1>22 DEF PublishRound
  <2>2. round \in [pc : {"mark", "reinstate"}, tainted : SUBSET Pipeline, specs : [Pipeline -> 0..MaxSpec],
                   seen : [Pipeline -> Status], versions : [Pipeline -> 0..MaxVersion],
                   owner : Owners, todo : SUBSET Pipeline, target : SUBSET Pipeline]
    BY <2>1, RoundCases
  <2>3. /\ round'.pc = "reinstate" /\ round'.specs = round.specs /\ round'.seen = round.seen
        /\ round'.todo = {p \in round.target : ~IsValid(round.seen[p])}
    BY <1>22, <2>2 DEF PublishRound
  <2>4. RoundKept'
    BY <2>1, <2>3 DEF OutageInv, RoundKept
  <2> QED
    BY <1>20, <1>22, <2>4 DEF PublishRound, users
<1>23. CASE Restart
  <2>1. /\ round' = Idle /\ UNCHANGED <<spec, status>>
        /\ \A p \in Pipeline : task'[p] = Idle /\ (Exists(p) => p \in queue')
    BY <1>23 DEF Restart, users
  <2>2. RoundKept'
    BY <2>1 DEF RoundKept, Idle
  <2>3. \A p \in Pipeline : TaskKept(p, task'[p], status'[p]) /\ GoneIsGone(p)'
    BY <2>1 DEF TaskKept, GoneIsGone, Idle
  <2>4. \A p \in Pipeline : OutageKept(p)'
    BY <2>1 DEF OutageInv, OutageKept, Exists, Retried
  <2> QED
    BY <2>2, <2>3, <2>4 DEF OutageInv
<1>24. CASE UNCHANGED vars
  BY <1>0, <1>24 DEF vars, users
<1> QED
  BY <1>1, <1>2, <1>3, <1>4, <1>6, <1>7, <1>8, <1>9, <1>10, <1>13, <1>14, <1>15, <1>16,
     <1>17, <1>18, <1>19, <1>21, <1>22, <1>23, <1>24
  DEF Next, PipelineStep, RoundStep

(* For any pipelines and settings, however reconciles and rounds overlap:  *)
(* a pipeline that failed because its Secret could not be read is queued,  *)
(* waits for its retry or is being looked at again.  No other patch that   *)
(* lands in between gives such a status a token that the "no changes"      *)
(* return would trust (reconcile in pipeline_controller.go).               *)
THEOREM OutagesGetAnotherAttempt == Spec => []OutagesAreRetried
<1>1. Init => OutageInv
  <2> SUFFICES ASSUME Init
               PROVE  OutageInv
    OBVIOUS
  <2>1. \A p \in Pipeline : task[p] = Idle /\ status[p] = Fresh
    BY DEF Init
  <2>2. \A p \in Pipeline : TaskKept(p, task[p], status[p]) /\ OutageKept(p) /\ GoneIsGone(p)
    BY <2>1 DEF TaskKept, OutageKept, GoneIsGone, Idle, Fresh
  <2>3. RoundKept
    BY DEF Init, RoundKept, Idle
  <2> QED
    BY <2>2, <2>3 DEF OutageInv
<1>2. OutageInv => OutagesAreRetried
  BY DEF OutageInv, OutageKept, Retried, OutagesAreRetried
<1> QED
  BY <1>1, <1>2, TypedInitially, TypedInductive, OutageInductive, PTL DEF Spec
=============================================================================
