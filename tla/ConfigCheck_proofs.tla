-------------------------- MODULE ConfigCheck_proofs --------------------------
(***************************************************************************)
(* Why the sweepers spare running checks: a Secret is never older than the *)
(* part of the budget that is spent, so while there is budget left it is   *)
(* younger than the timeout, and no list of orphans of a process that      *)
(* waits that long contains it.                                            *)
(***************************************************************************)
EXTENDS ConfigCheck, TLAPS

CheckRecord ==
    [good : BOOLEAN, assets : BOOLEAN, pc : Steps, budget : Nat, outcome : Outcome]

CheckTypes ==
    /\ check \in [Check -> CheckRecord]
    /\ age \in [Check -> [Temporary -> Nat \cup {Absent}]]
    /\ late \in SUBSET (Check \X Temporary)
    /\ sweep \in [Process -> [pc : {"start", "pass", "ticker"},
                              todo : SUBSET (Check \X Temporary)]]

(* The check has not created a Secret yet.                                 *)
Fresh(c) == check[c].pc \in {"new", "prepare", "root"}

(* No sweeper may have listed its Secrets.                                 *)
Spared(c) == Fresh(c) \/ (WithinBudget(c) /\ Outwaited(c))

YoungEnough(c) ==
    /\ Fresh(c) => \A s \in Temporary : age[c][s] = Absent
    /\ Fresh(c) \/ Running(c) => \A s \in Temporary : <<c, s>> \notin late
    /\ Fresh(c) \/ WithinBudget(c) =>
          /\ check[c].budget =< Timeout[Owner[c]]
          /\ \A s \in Temporary : age[c][s] + check[c].budget =< Timeout[Owner[c]]
    /\ Spared(c) => \A s \in Temporary, o \in Process : <<c, s>> \notin sweep[o].todo

SweepInv ==
    /\ CheckTypes
    /\ \A c \in Check : YoungEnough(c)
    /\ RunningKeepsSecrets

-----------------------------------------------------------------------------

(* SweepOrphans never lists a Secret of a check within its budget, if the  *)
(* process waits that long.                                                *)
LEMMA OrphansAreOld ==
    ASSUME SweepInv, NEW o \in Process, NEW c \in Check, NEW s \in Temporary, Spared(c)
    PROVE  <<c, s>> \notin Orphans(o)
<1>1. Timeout[Owner[c]] \in Nat /\ Timeout[o] \in Nat /\ MinOrphanAge \in Nat
  BY CheckAssumption
<1>2. Fresh(c) => age[c][s] = -1
  BY DEF SweepInv, YoungEnough, Absent
<1>3. ~Fresh(c) => /\ Timeout[Owner[c]] =< Window(o)
                   /\ age[c][s] + check[c].budget =< Timeout[Owner[c]]
  BY DEF SweepInv, YoungEnough, Spared, Outwaited
<1>4. check[c].budget \in Nat /\ age[c][s] \in Nat \cup {-1} /\ Window(o) \in Nat
  BY <1>1 DEF SweepInv, CheckTypes, CheckRecord, Absent, Window
<1>5. ~(age[c][s] > Window(o))
  BY <1>1, <1>2, <1>3, <1>4
<1> QED
  BY <1>5 DEF Orphans

(* At the start no check has begun (the state of a fresh cluster).         *)
LEMMA SweepInit == Init => SweepInv
<1> SUFFICES ASSUME Init PROVE SweepInv
  OBVIOUS
<1>1. CheckTypes
  BY DEF Init, CheckTypes, CheckRecord, Steps, Outcome, Temporary, Absent
<1>2. ASSUME NEW c \in Check PROVE YoungEnough(c)
  <2>1. check[c].pc = "new" /\ check[c].budget = 0 /\ \A s \in Temporary : age[c][s] = -1
    BY DEF Init, Absent
  <2>2. Timeout[Owner[c]] \in Nat
    BY CheckAssumption
  <2> QED
    BY <2>1, <2>2 DEF Init, YoungEnough, Fresh, Spared, WithinBudget, Running, Absent
<1>3. RunningKeepsSecrets
  BY DEF Init, RunningKeepsSecrets, KeepsSecrets, WithinBudget, Running
<1> QED
  BY <1>1, <1>2, <1>3 DEF SweepInv

(* A step that concerns one check: the others keep their Secrets.          *)
LEMMA OneCheck ==
    ASSUME SweepInv, NEW c \in Check, CheckTypes',
           \A d \in Check \ {c} : check'[d] = check[d] /\ age'[d] = age[d],
           \A d \in Check \ {c} : \A s \in Temporary : <<d, s>> \in late' => <<d, s>> \in late,
           \A s \in Temporary, o \in Process : \A d \in Check :
              <<d, s>> \in sweep'[o].todo => <<d, s>> \in sweep[o].todo,
           YoungEnough(c)', KeepsSecrets(c)'
    PROVE  SweepInv'
<1>1. ASSUME NEW d \in Check PROVE YoungEnough(d)' /\ KeepsSecrets(d)'
  <2>1. CASE d = c
    BY <2>1
  <2>2. CASE d # c
    BY <2>2 DEF SweepInv, RunningKeepsSecrets, YoungEnough, KeepsSecrets, Fresh, Spared, WithinBudget, Running, At
  <2> QED
    BY <2>1, <2>2
<1> QED
  BY <1>1 DEF SweepInv, RunningKeepsSecrets

(* A check that is past its last use of the Secrets: whatever happens to   *)
(* them is allowed.                                                        *)
LEMMA PastUse ==
    ASSUME NEW c, check'[c].pc \in {"cleanRoot", "cleanAssets", "done"}
    PROVE  YoungEnough(c)' /\ KeepsSecrets(c)'
BY DEF YoungEnough, KeepsSecrets, Fresh, Spared, WithinBudget, Running

(* What Go and End leave of a check (the assignments of Run).              *)
LEMMA Moves ==
    ASSUME CheckTypes, NEW c \in Check, NEW step \in Steps, NEW outcome \in Outcome,
           Go(c, step) \/ End(c, step, outcome)
    PROVE  /\ check' \in [Check -> CheckRecord]
           /\ \A d \in Check \ {c} : check'[d] = check[d]
           /\ check'[c].pc = step
           /\ check'[c].assets = check[c].assets
           /\ check'[c].budget = check[c].budget
<1> DEFINE gone  == [check[c] EXCEPT !.pc = step]
           ended == [check[c] EXCEPT !.pc = step, !.outcome = outcome]
<1>1. check \in [Check -> CheckRecord] /\ check[c] \in CheckRecord
  BY DEF CheckTypes
<1>2. /\ gone \in CheckRecord /\ gone.pc = step
      /\ gone.assets = check[c].assets /\ gone.budget = check[c].budget
  BY <1>1 DEF CheckRecord
<1>3. /\ ended \in CheckRecord /\ ended.pc = step
      /\ ended.assets = check[c].assets /\ ended.budget = check[c].budget
  BY <1>1 DEF CheckRecord
<1>4. check' = [check EXCEPT ![c] = gone] \/ check' = [check EXCEPT ![c] = ended]
  BY DEF Go, End
<1> HIDE DEF gone, ended
<1> QED
  BY <1>1, <1>2, <1>3, <1>4

(* A check gives up or comes to its verdict and turns to its cleanup.      *)
LEMMA Leaving ==
    ASSUME SweepInv, NEW c \in Check, NEW outcome \in Outcome,
           NEW step \in {"cleanRoot", "cleanAssets", "done"},
           Go(c, step) \/ End(c, step, outcome),
           age' \in [Check -> [Temporary -> Nat \cup {Absent}]],
           \A d \in Check \ {c} : age'[d] = age[d],
           late' \in SUBSET (Check \X Temporary),
           \A d \in Check \ {c} : \A s \in Temporary : <<d, s>> \in late' => <<d, s>> \in late,
           UNCHANGED sweep
    PROVE  SweepInv'
<1>1. step \in Steps
  BY DEF Steps
<1>2. CheckTypes
  BY DEF SweepInv
<1>3. /\ check' \in [Check -> CheckRecord]
      /\ \A d \in Check \ {c} : check'[d] = check[d]
      /\ check'[c].pc = step
  BY <1>1, <1>2, Moves
<1>4. CheckTypes'
  BY <1>2, <1>3 DEF CheckTypes
<1>5. YoungEnough(c)' /\ KeepsSecrets(c)'
  BY <1>3, PastUse
<1> QED
  BY <1>3, <1>4, <1>5, OneCheck

(* A check takes a step that leaves its Secrets as they are, or creates    *)
(* one of age zero.                                                        *)
LEMMA Moving ==
    ASSUME SweepInv, NEW c \in Check, NEW step \in Steps, Go(c, step),
           Fresh(c) \/ Running(c), check[c].pc # "logs",
           age' \in [Check -> [Temporary -> Nat \cup {Absent}]],
           \A d \in Check \ {c} : age'[d] = age[d],
           \A s \in Temporary : age'[c][s] \in {age[c][s], 0},
           step \in {"new", "prepare", "root"} => Fresh(c) /\ UNCHANGED age,
           KeepsSecrets(c)',
           UNCHANGED <<late, sweep>>
    PROVE  SweepInv'
<1>1. CheckTypes
  BY DEF SweepInv
<1>2. /\ check' \in [Check -> CheckRecord]
      /\ \A d \in Check \ {c} : check'[d] = check[d]
      /\ check'[c].pc = step
      /\ check'[c].budget = check[c].budget
  BY <1>1, Moves DEF Outcome
<1>3. CheckTypes'
  BY <1>1, <1>2 DEF CheckTypes
<1>4. YoungEnough(c)
  BY DEF SweepInv
<1>5. ASSUME NEW s \in Temporary
      PROVE  /\ check'[c].budget =< Timeout[Owner[c]]
             /\ age'[c][s] + check'[c].budget =< Timeout[Owner[c]]
             /\ <<c, s>> \notin late'
  <2>0. Fresh(c) \/ WithinBudget(c)
    BY DEF WithinBudget, At
  <2>1. /\ age[c][s] + check[c].budget =< Timeout[Owner[c]]
        /\ <<c, s>> \notin late
    BY <1>4, <2>0 DEF YoungEnough
  <2>2. Timeout[Owner[c]] \in Nat /\ check[c].budget \in Nat
    BY <1>1, CheckAssumption DEF CheckTypes, CheckRecord
  <2>3. 0 + check[c].budget =< Timeout[Owner[c]]
    BY <1>4, <2>0, <2>2 DEF YoungEnough
  <2>4. check'[c].budget =< Timeout[Owner[c]]
    BY <1>2, <2>2, <2>3
  <2>5. age'[c][s] + check'[c].budget =< Timeout[Owner[c]]
    <3>1. age'[c][s] = age[c][s] \/ age'[c][s] = 0
      OBVIOUS
    <3> QED
      BY <1>2, <2>1, <2>3, <3>1
  <2>6. <<c, s>> \notin late'
    BY <2>1
  <2> QED
    BY <2>4, <2>5, <2>6
<1>6. Fresh(c)' => \A s \in Temporary : age'[c][s] = Absent
  BY <1>2, <1>4 DEF Fresh, YoungEnough
<1>7. YoungEnough(c)'
  <2>1. check'[c].budget =< Timeout[Owner[c]]
    BY <1>5 DEF Temporary
  <2>2. \A s \in Temporary : age'[c][s] + check'[c].budget =< Timeout[Owner[c]]
    BY <1>5
  <2>3. \A s \in Temporary : <<c, s>> \notin late'
    BY <1>5
  <2>4. Spared(c)' => Spared(c)
    BY <1>2 DEF Spared, Fresh, WithinBudget, Running, At, Outwaited
  <2>5. Spared(c)' => \A s \in Temporary, o \in Process : <<c, s>> \notin sweep'[o].todo
    BY <1>4, <2>4 DEF YoungEnough
  <2> QED
    BY <1>6, <2>1, <2>2, <2>3, <2>5, Zenon DEF YoungEnough
<1> QED
  BY <1>2, <1>3, <1>7, OneCheck

(* A step of one check keeps the invariant (Run and getCheckResult).       *)
LEMMA RunStepKeeps ==
    ASSUME SweepInv, NEW c \in Check,
           Begin(c) \/ RunStep(c) \/ WatchCloses(c) \/ LogsFail(c)
             \/ \E s \in Temporary : CleanFails(c, s)
    PROVE  SweepInv'
<1>1. CheckTypes /\ YoungEnough(c) /\ KeepsSecrets(c)
  BY DEF SweepInv, RunningKeepsSecrets
<1>2. /\ age \in [Check -> [Temporary -> Nat \cup {Absent}]]
      /\ late \in SUBSET (Check \X Temporary)
      /\ check[c].outcome \in Outcome
  BY <1>1 DEF CheckTypes, CheckRecord
<1>3. "root" \in Temporary /\ "assets" \in Temporary
  BY DEF Temporary
<1>4. CASE Begin(c)
  <2>1. Timeout[Owner[c]] \in Nat
    BY CheckAssumption
  <2> DEFINE begun == [check[c] EXCEPT !.pc = "prepare", !.budget = Timeout[Owner[c]]]
  <2>2. /\ begun \in CheckRecord /\ begun.pc = "prepare"
        /\ begun.budget = Timeout[Owner[c]]
    <3>1. check[c] \in CheckRecord
      BY <1>1 DEF CheckTypes
    <3> QED
      BY <2>1, <3>1 DEF CheckRecord, Steps
  <2>3. check' = [check EXCEPT ![c] = begun] /\ UNCHANGED <<age, late, sweep>> /\ Fresh(c)
    BY <1>4 DEF Begin, Fresh
  <2> HIDE DEF begun
  <2>6. /\ CheckTypes'
        /\ check'[c].pc = "prepare" /\ check'[c].budget = Timeout[Owner[c]]
        /\ \A d \in Check \ {c} : check'[d] = check[d]
    BY <1>1, <2>2, <2>3 DEF CheckTypes
  <2>4. \A s \in Temporary : age[c][s] = -1
    BY <1>1, <2>3 DEF YoungEnough, Absent
  <2>5. YoungEnough(c)' /\ KeepsSecrets(c)'
    BY <1>1, <2>1, <2>3, <2>4, <2>6 DEF YoungEnough, KeepsSecrets, Fresh, Spared, WithinBudget, Running, Absent
  <2> QED
    BY <2>3, <2>5, <2>6, OneCheck
<1>5. CASE SkipCheck(c)
  BY <1>2, <1>5, Leaving DEF SkipCheck, Outcome
<1>6. CASE Prepare(c)
  <2>1. Fresh(c) /\ Go(c, "root") /\ "root" \in Steps /\ check[c].pc # "logs"
    BY <1>6 DEF Prepare, At, Fresh, Steps
  <2>2. KeepsSecrets(c)'
    BY <1>1, <2>1, Moves DEF KeepsSecrets, WithinBudget, Running, Outcome
  <2> QED
    BY <1>2, <1>6, <2>1, <2>2, Moving DEF Prepare
<1>7. CASE CreateRoot(c)
  <2>1. PICK step \in {"assets", "pod"} :
           Go(c, step) /\ (check[c].assets => step = "assets")
    BY <1>7 DEF CreateRoot
  <2>2. Fresh(c) /\ step \in Steps /\ check[c].pc # "logs"
    BY <1>7, <2>1 DEF CreateRoot, At, Fresh, Steps
  <2>3. /\ age' \in [Check -> [Temporary -> Nat \cup {Absent}]]
        /\ \A d \in Check \ {c} : age'[d] = age[d]
        /\ age'[c]["root"] = 0
        /\ \A s \in Temporary : age'[c][s] \in {age[c][s], 0}
    BY <1>2, <1>3, <1>7 DEF CreateRoot
  <2>4. check'[c].pc = step /\ check'[c].assets = check[c].assets
    BY <1>1, <2>1, <2>2, Moves DEF Outcome
  <2>5. KeepsSecrets(c)'
    BY <2>1, <2>3, <2>4 DEF KeepsSecrets, Absent
  <2> QED
    BY <1>7, <2>1, <2>2, <2>3, <2>5, Moving DEF CreateRoot
<1>8. CASE CreateAssets(c)
  <2>1. Running(c) /\ Go(c, "pod") /\ "pod" \in Steps /\ check[c].pc # "logs"
    BY <1>8 DEF CreateAssets, At, Running, Steps
  <2>2. /\ age' \in [Check -> [Temporary -> Nat \cup {Absent}]]
        /\ \A d \in Check \ {c} : age'[d] = age[d]
        /\ age'[c]["assets"] = 0
        /\ \A s \in Temporary : age'[c][s] \in {age[c][s], 0}
    BY <1>2, <1>3, <1>8 DEF CreateAssets
  <2>3. Outwaited(c) => age'[c]["root"] # Absent
    BY <1>1, <1>3, <2>1, <2>2 DEF KeepsSecrets, WithinBudget, At, Absent
  <2>4. KeepsSecrets(c)'
    BY <2>2, <2>3 DEF KeepsSecrets, Absent, Outwaited
  <2> QED
    BY <1>8, <2>1, <2>2, <2>4, Moving DEF CreateAssets
<1>9. ASSUME Running(c), check[c].pc \notin {"assets", "logs"}, UNCHANGED <<age, late, sweep>>,
             NEW step \in {"watch", "wait", "blind", "logs"}, Go(c, step)
      PROVE  SweepInv'
  <2>1. step \in Steps
    BY DEF Steps
  <2>2. check'[c].assets = check[c].assets
    BY <1>1, <1>9, <2>1, Moves DEF Outcome
  <2>3. KeepsSecrets(c)'
    BY <1>1, <1>9, <2>2 DEF KeepsSecrets, WithinBudget, At, Outwaited
  <2> QED
    BY <1>2, <1>9, <2>1, <2>3, Moving
<1>10. CASE CreatePod(c) \/ Watch(c)
  BY <1>9, <1>10 DEF CreatePod, Watch, At, Running
<1>11. CASE GiveUp(c)
  <2>1. PICK step \in {"cleanRoot", "done"} : End(c, step, "error")
    BY <1>11 DEF GiveUp
  <2>2. /\ UNCHANGED <<age, sweep>>
        /\ late' \in SUBSET (Check \X Temporary)
        /\ \A d \in Check \ {c} : \A s \in Temporary : <<d, s>> \in late' => <<d, s>> \in late
    BY <1>2, <1>11 DEF GiveUp
  <2> QED
    BY <1>2, <2>1, <2>2, Leaving DEF Outcome
<1>12. CASE Observe(c)
  <2>1. UNCHANGED <<age, late, sweep>> /\ Running(c) /\ check[c].pc \notin {"assets", "logs"}
    BY <1>12 DEF Observe, At, Running
  <2>2. Go(c, "logs") \/ \E o \in {"valid", "invalid", "error"} : End(c, "cleanRoot", o)
    BY <1>12 DEF Observe
  <2>3. CASE Go(c, "logs")
    BY <1>9, <2>1, <2>3
  <2>4. ASSUME NEW o \in {"valid", "invalid", "error"}, End(c, "cleanRoot", o)
        PROVE  SweepInv'
    BY <1>2, <2>1, <2>4, Leaving DEF Outcome
  <2> QED
    BY <2>2, <2>3, <2>4
<1>13. CASE Cancelled(c) \/ TimeOut(c) \/ WatchCloses(c) \/ ReadLogs(c) \/ LogsFail(c)
  <2>1. \E o \in {"timeout", "invalid", "error"} : End(c, "cleanRoot", o)
    BY <1>13 DEF Cancelled, TimeOut, WatchCloses, ReadLogs, LogsFail
  <2>2. UNCHANGED <<age, late, sweep>>
    BY <1>13 DEF Cancelled, TimeOut, WatchCloses, ReadLogs, LogsFail
  <2> QED
    BY <1>2, <2>1, <2>2, Leaving DEF Outcome
<1>14. ASSUME NEW s \in Temporary, Clean(c, s) PROVE SweepInv'
  <2>1. /\ age' \in [Check -> [Temporary -> Nat \cup {Absent}]]
        /\ \A d \in Check \ {c} : age'[d] = age[d]
    BY <1>2, <1>14 DEF Clean
  <2> QED
    BY <1>2, <1>14, <2>1, Leaving DEF Clean, AfterCleaning, Outcome
<1>15. ASSUME NEW s \in Temporary, CleanFails(c, s) PROVE SweepInv'
  <2>1. PICK o \in Outcome : End(c, AfterCleaning(s), o)
    BY <1>2, <1>15 DEF CleanFails, Outcome
  <2> QED
    BY <1>2, <1>15, <2>1, Leaving DEF CleanFails, AfterCleaning
<1> QED
  BY <1>4, <1>5, <1>6, <1>7, <1>8, <1>10, <1>11, <1>12, <1>13, <1>14, <1>15 DEF RunStep

(* Every step keeps the invariant: the cluster and the sweepers touch only *)
(* what belongs to no running check, and time uses up the budget as fast   *)
(* as it ages the Secrets (SweepOrphans, Run).                             *)
LEMMA SweepStepKeeps == SweepInv /\ [Next]_vars => SweepInv'
<1> SUFFICES ASSUME SweepInv, [Next]_vars PROVE SweepInv'
  OBVIOUS
<1>1. ASSUME NEW c \in Check,
             Begin(c) \/ RunStep(c) \/ WatchCloses(c) \/ LogsFail(c)
               \/ \E s \in Temporary : CleanFails(c, s)
      PROVE  SweepInv'
  BY <1>1, RunStepKeeps
<1>2. ASSUME UNCHANGED <<check, age, late>>,
             sweep' \in [Process -> [pc : {"start", "pass", "ticker"},
                                     todo : SUBSET (Check \X Temporary)]],
             \A o \in Process : \A c \in Check : \A s \in Temporary :
                 Spared(c) => <<c, s>> \notin sweep'[o].todo
      PROVE  SweepInv'
  <2>1. CheckTypes'
    BY <1>2 DEF SweepInv, CheckTypes
  <2>2. ASSUME NEW c \in Check PROVE YoungEnough(c)' /\ KeepsSecrets(c)'
    <3>1. YoungEnough(c) /\ KeepsSecrets(c)
      BY DEF SweepInv, RunningKeepsSecrets
    <3> QED
      BY <1>2, <3>1 DEF YoungEnough, KeepsSecrets, Fresh, Spared, WithinBudget, Running, At, Outwaited
  <2> QED
    BY <2>1, <2>2 DEF SweepInv, RunningKeepsSecrets
<1>3. /\ sweep \in [Process -> [pc : {"start", "pass", "ticker"},
                                todo : SUBSET (Check \X Temporary)]]
      /\ \A o \in Process : \A c \in Check : \A s \in Temporary :
             Spared(c) => <<c, s>> \notin sweep[o].todo
  BY DEF SweepInv, CheckTypes, YoungEnough
<1>4. ASSUME NEW c \in Check, NEW s \in Temporary, ~Spared(c),
             NEW a \in Nat \cup {Absent}, a = Absent \/ ~Running(c),
             age' = [age EXCEPT ![c][s] = a], UNCHANGED check,
             late' \in SUBSET late,
             sweep' \in [Process -> [pc : {"start", "pass", "ticker"},
                                     todo : SUBSET (Check \X Temporary)]],
             \A o \in Process : sweep'[o].todo \in SUBSET sweep[o].todo
      PROVE  SweepInv'
  <2>1. CheckTypes
    BY DEF SweepInv
  <2>2. CheckTypes' /\ \A d \in Check \ {c} : age'[d] = age[d]
    BY <1>4, <2>1 DEF CheckTypes
  <2>3. YoungEnough(c)' /\ KeepsSecrets(c)'
    <3>1. /\ YoungEnough(c) /\ ~Fresh(c) /\ ~(WithinBudget(c) /\ Outwaited(c))
          /\ check[c].budget \in Nat /\ Timeout[Owner[c]] \in Nat
      BY <1>4, <2>1, CheckAssumption DEF SweepInv, Spared, CheckTypes, CheckRecord
    <3>2. /\ Fresh(c)' = Fresh(c) /\ Running(c)' = Running(c)
          /\ WithinBudget(c)' = WithinBudget(c) /\ Outwaited(c)' = Outwaited(c)
      BY <1>4 DEF Fresh, Running, WithinBudget, At, Outwaited
    <3>3. WithinBudget(c) => Running(c)
      BY DEF WithinBudget
    <3>4. WithinBudget(c) => \A t \in Temporary : age'[c][t] + check[c].budget =< Timeout[Owner[c]]
      <4>1. ASSUME WithinBudget(c), NEW t \in Temporary
            PROVE  age'[c][t] + check[c].budget =< Timeout[Owner[c]]
        <5>1. /\ check[c].budget =< Timeout[Owner[c]]
              /\ age[c][t] + check[c].budget =< Timeout[Owner[c]]
          BY <3>1, <4>1 DEF YoungEnough
        <5>2. age'[c][t] = age[c][t] \/ age'[c][t] = -1
          BY <1>4, <2>1, <3>3, <4>1 DEF CheckTypes, Absent
        <5> QED
          BY <3>1, <5>1, <5>2
      <4> QED
        BY <4>1
    <3>5. YoungEnough(c)'
      BY <1>4, <3>1, <3>2, <3>4 DEF YoungEnough, Spared
    <3>6. KeepsSecrets(c)'
      BY <3>1, <3>2 DEF KeepsSecrets
    <3> QED
      BY <3>5, <3>6
  <2> QED
    BY <1>4, <2>2, <2>3, OneCheck
<1>5. ASSUME NEW c \in Check, CollectGarbage(c) PROVE SweepInv'
  <2>1. ~(WithinBudget(c) /\ Outwaited(c))
    BY <1>5 DEF CollectGarbage, SweepInv, RunningKeepsSecrets, KeepsSecrets
  <2>2. "assets" \in Temporary
    BY DEF Temporary
  <2>3. CheckTypes /\ YoungEnough(c)
    BY DEF SweepInv
  <2>4. CheckTypes' /\ \A d \in Check \ {c} : age'[d] = age[d]
    BY <1>5, <2>2, <2>3 DEF CollectGarbage, CheckTypes
  <2>5. \A s \in Temporary : age'[c][s] = age[c][s] \/ age'[c][s] = Absent
    BY <1>5, <2>2, <2>3 DEF CollectGarbage, CheckTypes
  <2>6. UNCHANGED <<check, late, sweep>>
    BY <1>5 DEF CollectGarbage
  <2>7. KeepsSecrets(c)'
    BY <2>1, <2>6 DEF KeepsSecrets, WithinBudget, Running, At, Outwaited
  <2>8. Fresh(c) => \A s \in Temporary : age'[c][s] = age[c][s]
    BY <2>3, <2>5 DEF YoungEnough
  <2>9. YoungEnough(c)'
    <3>1. check[c].budget \in Nat /\ Timeout[Owner[c]] \in Nat
      BY <2>3, CheckAssumption DEF CheckTypes, CheckRecord
    <3>2. /\ Fresh(c)' = Fresh(c) /\ Running(c)' = Running(c) /\ Spared(c)' = Spared(c)
          /\ WithinBudget(c)' = WithinBudget(c)
      BY <2>6 DEF Fresh, Running, Spared, WithinBudget, At, Outwaited
    <3>3. ASSUME Fresh(c) \/ WithinBudget(c), NEW s \in Temporary
          PROVE  age'[c][s] + check[c].budget =< Timeout[Owner[c]]
      <4>1. /\ check[c].budget =< Timeout[Owner[c]]
            /\ age[c][s] + check[c].budget =< Timeout[Owner[c]]
        BY <2>3, <3>3 DEF YoungEnough
      <4> QED
        BY <2>5, <3>1, <4>1 DEF Absent
    <3> QED
      BY <2>3, <2>6, <2>8, <3>2, <3>3 DEF YoungEnough
  <2> QED
    BY <2>4, <2>6, <2>7, <2>9, OneCheck
<1>6. ASSUME NEW c \in Check, NEW s \in Temporary, LandLate(c, s) PROVE SweepInv'
  <2>1. ~Running(c) /\ ~Fresh(c)
    BY <1>6 DEF LandLate, SweepInv, YoungEnough
  <2>2. ~Spared(c)
    BY <2>1 DEF Spared, WithinBudget
  <2> QED
    BY <1>3, <1>4, <1>6, <2>1, <2>2 DEF LandLate
<1>7. ASSUME NEW o \in Process, Exit(o) PROVE SweepInv'
  <2>1. CheckTypes
    BY DEF SweepInv
  <2>2. ASSUME NEW c \in Check
        PROVE  /\ check'[c] \in CheckRecord
               /\ check'[c] = check[c] \/ check'[c].pc = "done"
    <3>1. check[c] \in CheckRecord
      BY <2>1 DEF CheckTypes
    <3>2. [check[c] EXCEPT !.pc = "done"] \in CheckRecord
      BY <3>1 DEF CheckRecord, Steps
    <3>3. [check[c] EXCEPT !.pc = "done"].pc = "done"
      BY <3>1 DEF CheckRecord
    <3>4. check'[c] = check[c] \/ check'[c] = [check[c] EXCEPT !.pc = "done"]
      BY <1>7 DEF Exit
    <3> QED
      BY <3>1, <3>2, <3>3, <3>4
  <2>3. CheckTypes' /\ UNCHANGED <<age, late, sweep>>
    BY <1>7, <2>1, <2>2 DEF Exit, CheckTypes
  <2>4. ASSUME NEW c \in Check PROVE YoungEnough(c)' /\ KeepsSecrets(c)'
    <3>1. YoungEnough(c) /\ KeepsSecrets(c)
      BY DEF SweepInv, RunningKeepsSecrets
    <3>2. CASE check'[c] = check[c]
      BY <2>3, <3>1, <3>2 DEF YoungEnough, KeepsSecrets, Fresh, Spared, WithinBudget, Running, At, Outwaited
    <3>3. CASE check'[c].pc = "done"
      BY <3>3, PastUse
    <3> QED
      BY <2>2, <3>2, <3>3
  <2> QED
    BY <2>3, <2>4 DEF SweepInv, RunningKeepsSecrets
<1>8. ASSUME NEW o \in Process, StartSweep(o) PROVE SweepInv'
  <2>1. \A c \in Check : \A s \in Temporary :
            Spared(c) => <<c, s>> \notin Orphans(o)
    BY OrphansAreOld
  <2>2. Orphans(o) \in SUBSET (Check \X Temporary)
    BY DEF Orphans
  <2>3. /\ sweep' = [sweep EXCEPT ![o] = [pc |-> "pass", todo |-> Orphans(o)]]
        /\ UNCHANGED <<check, age, late>>
    BY <1>8 DEF StartSweep
  <2> HIDE DEF Orphans
  <2> QED
    BY <1>2, <1>3, <2>1, <2>2, <2>3
<1>9. ASSUME NEW o \in Process, Shutdown(o) \/ EndSweep(o) PROVE SweepInv'
  <2>1. UNCHANGED <<check, age, late>>
    BY <1>9 DEF Shutdown, EndSweep
  <2>2. \/ sweep' = [sweep EXCEPT ![o] = [pc |-> "start", todo |-> {}]]
        \/ sweep' = [sweep EXCEPT ![o].pc = "ticker"]
    BY <1>9 DEF Shutdown, EndSweep
  <2> QED
    BY <1>2, <1>3, <2>1, <2>2
<1>10. ASSUME NEW o \in Process, NEW c \in Check, NEW s \in Temporary, SweepSecret(o, c, s)
       PROVE  SweepInv'
  <2>1. ~Spared(c)
    BY <1>3, <1>10 DEF SweepSecret
  <2>2. /\ sweep' \in [Process -> [pc : {"start", "pass", "ticker"},
                                   todo : SUBSET (Check \X Temporary)]]
        /\ \A q \in Process : sweep'[q].todo \in SUBSET sweep[q].todo
        /\ UNCHANGED <<check, late>>
    BY <1>3, <1>10 DEF SweepSecret
  <2>3. age' = [age EXCEPT ![c][s] = Absent] \/ UNCHANGED age
    BY <1>10 DEF SweepSecret
  <2>4. CASE age' = [age EXCEPT ![c][s] = Absent]
    BY <1>4, <2>1, <2>2, <2>4
  <2>5. CASE UNCHANGED age
    BY <1>2, <1>3, <2>2, <2>5
  <2> QED
    BY <2>3, <2>4, <2>5
<1>11. CASE Tick
  <2>1. CheckTypes
    BY DEF SweepInv
  <2>2. ASSUME NEW c \in Check
        PROVE  /\ check'[c] \in CheckRecord
               /\ check'[c].pc = check[c].pc /\ check'[c].assets = check[c].assets
               /\ check[c].budget > 0 => check'[c].budget = check[c].budget - 1
               /\ check[c].budget = 0 => check'[c].budget = 0
    <3>1. check[c] \in CheckRecord
      BY <2>1 DEF CheckTypes
    <3>2. check'[c] = IF check[c].budget > 0
                      THEN [check[c] EXCEPT !.budget = @ - 1] ELSE check[c]
      BY <1>11 DEF Tick
    <3> QED
      BY <3>1, <3>2 DEF CheckRecord
  <2>3. ASSUME NEW c \in Check, NEW s \in Temporary
        PROVE  /\ age'[c][s] \in Nat \cup {-1}
               /\ age'[c][s] = -1 <=> age[c][s] = -1
               /\ age'[c][s] =< age[c][s] + 1
               /\ age[c][s] = -1 => age'[c][s] =< age[c][s]
    <3>1. age'[c][s] = Older(age[c][s]) /\ age[c][s] \in Nat \cup {-1}
      BY <1>11, <2>1 DEF Tick, CheckTypes, Absent
    <3> QED
      BY <3>1 DEF Older, Absent
  <2>4. UNCHANGED <<late, sweep>>
    BY <1>11 DEF Tick
  <2>5. CheckTypes'
    BY <1>11, <2>1, <2>2, <2>3, <2>4 DEF Tick, CheckTypes, Absent
  <2>6. ASSUME NEW c \in Check PROVE YoungEnough(c)' /\ KeepsSecrets(c)'
    <3>1. YoungEnough(c) /\ KeepsSecrets(c)
      BY DEF SweepInv, RunningKeepsSecrets
    <3>2. check[c].budget \in Nat /\ Timeout[Owner[c]] \in Nat
      BY <2>1, CheckAssumption DEF CheckTypes, CheckRecord
    <3>3. check[c].pc = "new" \/ check[c].budget > 0 \/ ~(Fresh(c) \/ WithinBudget(c))
      BY <1>11, <3>2 DEF Tick, Overdue, Fresh, WithinBudget, Running, At, Bounded
    <3>4. /\ Fresh(c)' = Fresh(c) /\ Running(c)' = Running(c)
          /\ (WithinBudget(c)' => WithinBudget(c)) /\ (Spared(c)' => Spared(c))
      BY <2>2, <3>2 DEF Fresh, Running, WithinBudget, At, Spared, Outwaited
    <3>5. ASSUME Fresh(c) \/ WithinBudget(c), NEW s \in Temporary
          PROVE  /\ check'[c].budget =< Timeout[Owner[c]]
                 /\ age'[c][s] + check'[c].budget =< Timeout[Owner[c]]
      <4>1. /\ check[c].budget =< Timeout[Owner[c]]
            /\ age[c][s] + check[c].budget =< Timeout[Owner[c]]
            /\ check[c].pc = "new" => age[c][s] = -1
        BY <3>1, <3>5 DEF YoungEnough, Fresh, Absent
      <4>2. age[c][s] \in Nat \cup {-1}
        BY <2>1 DEF CheckTypes, Absent
      <4> QED
        BY <2>2, <2>3, <3>2, <3>3, <3>5, <4>1, <4>2
    <3>6. Fresh(c)' => \A s \in Temporary : age'[c][s] = Absent
      BY <2>2, <2>3, <3>1 DEF YoungEnough, Fresh, Absent
    <3>7. "root" \in Temporary /\ "assets" \in Temporary
      BY DEF Temporary
    <3>8. YoungEnough(c)'
      BY <2>4, <3>1, <3>4, <3>5, <3>6, <3>7 DEF YoungEnough
    <3>9. KeepsSecrets(c)'
      BY <2>2, <2>3, <3>1, <3>4, <3>7 DEF KeepsSecrets, Absent, Outwaited
    <3> QED
      BY <3>8, <3>9
  <2> QED
    BY <2>5, <2>6 DEF SweepInv, RunningKeepsSecrets
<1>12. ASSUME NEW c \in Check, FinishPod(c) \/ LosePod(c) PROVE SweepInv'
  BY <1>2, <1>3, <1>12 DEF FinishPod, LosePod
<1>13. ASSUME NEW o \in Process, Restart(o) PROVE SweepInv'
  BY <1>2, <1>3, <1>13 DEF Restart
<1>14. CASE UNCHANGED vars
  BY <1>2, <1>3, <1>14 DEF vars
<1> QED
  BY <1>1, <1>5, <1>6, <1>7, <1>8, <1>9, <1>10, <1>11, <1>12, <1>13, <1>14
     DEF Next, SweepStep

(* For any number of processes and checks and any timeouts: a check keeps  *)
(* its Secrets while it runs, unless the logs of its pod outlast its       *)
(* deadline or another process waits less than the check may take, whose   *)
(* timeout and minOrphanAge are shorter (SweepOrphans).                    *)
THEOREM SweepersSpareChecks == Spec => []RunningKeepsSecrets
<1>1. Init => SweepInv
  BY SweepInit
<1>2. SweepInv /\ [Next]_vars => SweepInv'
  BY SweepStepKeeps
<1>3. SweepInv => RunningKeepsSecrets
  BY DEF SweepInv
<1> QED
  BY <1>1, <1>2, <1>3, PTL DEF Spec

-----------------------------------------------------------------------------
(* Type correctness, and the verdicts.                                     *)

(* The largest window is a number.                                         *)
LEMMA MaxAgeIsNat == MaxAge \in Nat
<1>1. PICK m \in Process : \A o \in Process : Timeout[o] =< Timeout[m]
  BY LongestAssumption
<1>2. \A o \in Process : Window(o) \in Nat
  BY CheckAssumption DEF Window
<1>3. \A o \in Process : Window(m) >= Window(o)
  BY <1>1, CheckAssumption DEF Window
<1> DEFINE windows == {Window(o) : o \in Process}
<1>4. \E x \in windows : \A y \in windows : x >= y
  BY <1>1, <1>3
<1>5. Max(windows) \in windows
  BY <1>4 DEF Max
<1>6. Max(windows) \in Nat
  BY <1>2, <1>5
<1> QED
  BY <1>6 DEF MaxAge

(* A validation passes only for a good config, and a verdict is that of    *)
(* the validation.                                                         *)
VerdictInv ==
    \A c \in Check : /\ check[c].outcome = "valid" => check[c].good
                     /\ pod[c] = "succeeded" => check[c].good

(* A Secret is created with age zero, or deleted.                          *)
LEMMA AgeTypes ==
    ASSUME TypeOK, NEW c \in Check, NEW s \in Temporary, NEW a \in {0, Absent}
    PROVE  [age EXCEPT ![c][s] = a] \in [Check -> [Temporary -> Absent..MaxAge]]
<1>1. age \in [Check -> [Temporary -> Absent..MaxAge]]
  BY DEF TypeOK
<1>2. a \in Absent..MaxAge
  BY MaxAgeIsNat DEF Absent
<1> QED
  BY <1>1, <1>2

(* What moving one check leaves of the types and of the verdicts.          *)
LEMMA MoveTypes ==
    ASSUME TypeOK, NEW c \in Check, NEW step \in Steps, NEW outcome \in Outcome,
           Go(c, step) \/ End(c, step, outcome)
    PROVE  /\ check' \in [Check -> CheckRecord]
           /\ \A d \in Check : check'[d].budget =< Timeout[Owner[d]]
           /\ \A d \in Check : check'[d].good = check[d].good
           /\ \A d \in Check \ {c} : check'[d] = check[d]
           /\ check'[c].outcome \in {check[c].outcome, outcome}
           /\ Go(c, step) => check'[c].outcome = check[c].outcome
<1> DEFINE gone  == [check[c] EXCEPT !.pc = step]
           ended == [check[c] EXCEPT !.pc = step, !.outcome = outcome]
<1>1. check \in [Check -> CheckRecord] /\ check[c] \in CheckRecord
  BY DEF TypeOK, CheckRecord
<1>2. /\ gone \in CheckRecord /\ gone.good = check[c].good
      /\ gone.budget = check[c].budget /\ gone.outcome = check[c].outcome
  BY <1>1 DEF CheckRecord
<1>3. /\ ended \in CheckRecord /\ ended.good = check[c].good
      /\ ended.budget = check[c].budget /\ ended.outcome = outcome
  BY <1>1 DEF CheckRecord
<1>4. /\ check' = [check EXCEPT ![c] = gone] \/ check' = [check EXCEPT ![c] = ended]
      /\ Go(c, step) => check' = [check EXCEPT ![c] = gone]
  BY DEF Go, End
<1>5. \A d \in Check : check[d].budget =< Timeout[Owner[d]]
  BY DEF TypeOK
<1> HIDE DEF gone, ended
<1>6. /\ check' \in [Check -> CheckRecord]
      /\ \A d \in Check \ {c} : check'[d] = check[d]
      /\ check'[c] = gone \/ check'[c] = ended
      /\ Go(c, step) => check'[c] = gone
  BY <1>1, <1>2, <1>3, <1>4
<1> QED
  BY <1>2, <1>3, <1>5, <1>6

(* The initial states.                                                     *)
LEMMA CheckTypeInit == Init => TypeOK /\ VerdictInv
<1> SUFFICES ASSUME Init PROVE TypeOK /\ VerdictInv
  OBVIOUS
<1>1. check \in [Check -> CheckRecord]
  BY DEF Init, CheckRecord, Steps, Outcome
<1>2. \A c \in Check : check[c].budget =< Timeout[Owner[c]]
  <2>1. \A c \in Check : check[c].budget = 0 /\ Timeout[Owner[c]] \in Nat
    BY CheckAssumption DEF Init
  <2> QED
    BY <2>1
<1>3. age \in [Check -> [Temporary -> Absent..MaxAge]]
  BY MaxAgeIsNat DEF Init, Absent
<1>4. VerdictInv
  BY DEF Init, VerdictInv
<1> QED
  BY <1>1, <1>2, <1>3, <1>4, CheckAssumption DEF Init, TypeOK, CheckRecord, Phase

(* A step that moves one check and keeps the pods: types and verdicts      *)
(* stay, if it calls no config valid without a validation that passed.     *)
LEMMA MoveKeeps ==
    ASSUME TypeOK, VerdictInv, NEW c \in Check, NEW step \in Steps, NEW outcome \in Outcome,
           Go(c, step) \/ (End(c, step, outcome) /\ (outcome = "valid" => check[c].good)),
           age' \in [Check -> [Temporary -> Absent..MaxAge]],
           late' \in SUBSET (Check \X Temporary), faults' \in 0..MaxFaults,
           pod' = pod \/ pod' = [pod EXCEPT ![c] = "pending"],
           UNCHANGED <<process, sweep>>
    PROVE  TypeOK' /\ VerdictInv'
<1>1. /\ check' \in [Check -> CheckRecord]
      /\ \A d \in Check : check'[d].budget =< Timeout[Owner[d]]
      /\ \A d \in Check : check'[d].good = check[d].good
      /\ \A d \in Check \ {c} : check'[d] = check[d]
      /\ check'[c].outcome \in {check[c].outcome, outcome}
      /\ Go(c, step) => check'[c].outcome = check[c].outcome
  BY MoveTypes
<1>2. pod' \in [Check -> Phase]
  BY DEF TypeOK, Phase
<1>3. TypeOK'
  BY <1>1, <1>2 DEF TypeOK, CheckRecord
<1>4. \A d \in Check : pod'[d] = "succeeded" => pod[d] = "succeeded"
  BY DEF TypeOK
<1>5. \A d \in Check : check'[d].outcome = "valid" => check[d].good
  BY <1>1 DEF VerdictInv
<1> QED
  BY <1>1, <1>3, <1>4, <1>5 DEF VerdictInv

(* The steps of a check (Run, getCheckResult, cleanup).                    *)
LEMMA RunStepTypes ==
    ASSUME TypeOK, VerdictInv, NEW c \in Check,
           RunStep(c) \/ WatchCloses(c) \/ LogsFail(c) \/ \E s \in Temporary : CleanFails(c, s)
    PROVE  TypeOK' /\ VerdictInv'
<1>1. /\ age \in [Check -> [Temporary -> Absent..MaxAge]]
      /\ late \in SUBSET (Check \X Temporary) /\ faults \in 0..MaxFaults
      /\ MaxFaults \in Nat /\ 0 \in Absent..MaxAge /\ Absent \in Absent..MaxAge
  BY CheckAssumption, MaxAgeIsNat DEF TypeOK, Absent
<1>2. Fault => faults' \in 0..MaxFaults
  BY <1>1 DEF Fault
<1>3. \A s \in Temporary, a \in {0, Absent} :
         [age EXCEPT ![c][s] = a] \in [Check -> [Temporary -> Absent..MaxAge]]
  BY AgeTypes
<1>4. "root" \in Temporary /\ "assets" \in Temporary
  BY DEF Temporary
<1> USE DEF Steps, Outcome
<1>5. CASE SkipCheck(c) \/ Cancelled(c) \/ TimeOut(c) \/ WatchCloses(c) \/ LogsFail(c)
  <2>1. PICK step \in {"done", "cleanRoot"}, outcome \in {"skipped", "error", "timeout"} :
           End(c, step, outcome)
    BY <1>5 DEF SkipCheck, Cancelled, TimeOut, WatchCloses, LogsFail
  <2>2. UNCHANGED <<age, late, pod, process, sweep>> /\ faults' \in 0..MaxFaults
    BY <1>1, <1>2, <1>5 DEF SkipCheck, Cancelled, TimeOut, WatchCloses, LogsFail
  <2> QED
    BY <1>1, <2>1, <2>2, MoveKeeps
<1>6. CASE Prepare(c) \/ Watch(c)
  <2>1. PICK step \in {"root", "blind", "wait"} : Go(c, step)
    BY <1>6 DEF Prepare, Watch
  <2>2. UNCHANGED <<age, late, pod, process, sweep, faults>>
    BY <1>6 DEF Prepare, Watch
  <2> QED
    BY <1>1, <2>1, <2>2, MoveKeeps
<1>7. CASE CreateRoot(c) \/ CreateAssets(c)
  <2>1. PICK step \in {"assets", "pod"} : Go(c, step)
    BY <1>7 DEF CreateRoot, CreateAssets
  <2>2. age' \in [Check -> [Temporary -> Absent..MaxAge]]
    BY <1>3, <1>4, <1>7 DEF CreateRoot, CreateAssets
  <2>3. UNCHANGED <<late, pod, process, sweep, faults>>
    BY <1>7 DEF CreateRoot, CreateAssets
  <2> QED
    BY <1>1, <2>1, <2>2, <2>3, MoveKeeps
<1>8. CASE CreatePod(c)
  BY <1>1, <1>8, MoveKeeps DEF CreatePod
<1>9. CASE GiveUp(c)
  <2>1. PICK step \in {"done", "cleanRoot"} : End(c, step, "error")
    BY <1>9 DEF GiveUp
  <2>2. late' \in SUBSET (Check \X Temporary)
    BY <1>1, <1>9 DEF GiveUp
  <2>3. UNCHANGED <<age, pod, process, sweep>> /\ faults' \in 0..MaxFaults
    BY <1>1, <1>2, <1>9 DEF GiveUp
  <2> QED
    BY <1>1, <2>1, <2>2, <2>3, MoveKeeps
<1>10. CASE Observe(c)
  <2>1. UNCHANGED <<age, late, pod, process, sweep, faults>>
    BY <1>10 DEF Observe
  <2>2. \/ Go(c, "logs")
        \/ \E o \in {"valid", "invalid", "error"} :
              End(c, "cleanRoot", o) /\ (o = "valid" => pod[c] = "succeeded")
    BY <1>10 DEF Observe
  <2>3. CASE Go(c, "logs")
    BY <1>1, <2>1, <2>3, MoveKeeps
  <2>4. ASSUME NEW o \in {"valid", "invalid", "error"}, End(c, "cleanRoot", o),
               o = "valid" => pod[c] = "succeeded"
        PROVE  TypeOK' /\ VerdictInv'
    <3>1. o = "valid" => check[c].good
      BY <2>4 DEF VerdictInv
    <3> QED
      BY <1>1, <2>1, <2>4, <3>1, MoveKeeps
  <2> QED
    BY <2>2, <2>3, <2>4
<1>11. CASE ReadLogs(c)
  <2>1. PICK o \in {"invalid", "error"} : End(c, "cleanRoot", o)
    BY <1>11 DEF ReadLogs
  <2>2. UNCHANGED <<age, late, pod, process, sweep, faults>>
    BY <1>11 DEF ReadLogs
  <2> QED
    BY <1>1, <2>1, <2>2, MoveKeeps
<1>12. ASSUME NEW s \in Temporary, Clean(c, s) PROVE TypeOK' /\ VerdictInv'
  <2>1. PICK step \in {"cleanAssets", "done"} : Go(c, step)
    BY <1>12 DEF Clean, AfterCleaning
  <2>2. /\ age' \in [Check -> [Temporary -> Absent..MaxAge]]
        /\ UNCHANGED <<late, pod, process, sweep, faults>>
    BY <1>3, <1>12 DEF Clean
  <2> QED
    BY <1>1, <2>1, <2>2, MoveKeeps
<1>13. ASSUME NEW s \in Temporary, CleanFails(c, s) PROVE TypeOK' /\ VerdictInv'
  <2>1. PICK step \in {"cleanAssets", "done"} :
           End(c, step, IF check[c].outcome = "valid" THEN "error" ELSE check[c].outcome)
    BY <1>13 DEF CleanFails, AfterCleaning
  <2>2. PICK o \in Outcome \ {"valid"} : End(c, step, o)
    BY <2>1 DEF TypeOK
  <2>3. UNCHANGED <<age, late, pod, process, sweep>> /\ faults' \in 0..MaxFaults
    BY <1>2, <1>13 DEF CleanFails
  <2> QED
    BY <1>1, <2>2, <2>3, MoveKeeps
<1> QED
  BY <1>5, <1>6, <1>7, <1>8, <1>9, <1>10, <1>11, <1>12, <1>13 DEF RunStep

(* Every step keeps types and verdicts.                                    *)
LEMMA CheckTypeStep == TypeOK /\ VerdictInv /\ [Next]_vars => TypeOK' /\ VerdictInv'
<1> SUFFICES ASSUME TypeOK, VerdictInv, [Next]_vars PROVE TypeOK' /\ VerdictInv'
  OBVIOUS
<1>1. /\ MaxFaults \in Nat /\ MaxAge \in Nat
      /\ 0 \in Absent..MaxAge /\ Absent \in Absent..MaxAge
  BY CheckAssumption, MaxAgeIsNat DEF Absent
<1>2. Fault => faults' \in 0..MaxFaults
  BY <1>1 DEF Fault, TypeOK
<1>3. ASSUME NEW c \in Check,
             RunStep(c) \/ WatchCloses(c) \/ LogsFail(c) \/ \E s \in Temporary : CleanFails(c, s)
      PROVE  TypeOK' /\ VerdictInv'
  BY <1>3, RunStepTypes
<1>4. ASSUME check' \in [Check -> CheckRecord],
             \A c \in Check : /\ check'[c].budget =< Timeout[Owner[c]]
                              /\ check'[c].good = check[c].good
                              /\ check'[c].outcome = check[c].outcome,
             UNCHANGED <<pod, late, faults, sweep>>,
             process' \in [Process -> {"up", "stopping", "down"}],
             age' \in [Check -> [Temporary -> Absent..MaxAge]]
      PROVE  TypeOK' /\ VerdictInv'
  BY <1>4 DEF TypeOK, VerdictInv, CheckRecord
<1>5. check \in [Check -> CheckRecord]
  BY DEF TypeOK, CheckRecord
<1>6. ASSUME NEW c \in Check, Begin(c) PROVE TypeOK' /\ VerdictInv'
  <2> DEFINE new == [check[c] EXCEPT !.pc = "prepare", !.budget = Timeout[Owner[c]]]
  <2>1. Timeout[Owner[c]] \in Nat /\ check[c] \in CheckRecord
    BY <1>5, CheckAssumption
  <2>2. /\ new \in CheckRecord /\ new.budget = Timeout[Owner[c]]
        /\ new.good = check[c].good /\ new.outcome = check[c].outcome
    BY <2>1 DEF CheckRecord, Steps
  <2>3. check' = [check EXCEPT ![c] = new]
    BY <1>6 DEF Begin
  <2> HIDE DEF new
  <2>4. /\ check' \in [Check -> CheckRecord]
        /\ \A d \in Check : IF d = c THEN check'[d] = new ELSE check'[d] = check[d]
    BY <1>5, <2>2, <2>3
  <2>5. \A d \in Check : check[d].budget =< Timeout[Owner[d]]
    BY DEF TypeOK
  <2>6. \A d \in Check : /\ check'[d].budget =< Timeout[Owner[d]]
                         /\ check'[d].good = check[d].good
                         /\ check'[d].outcome = check[d].outcome
    BY <2>1, <2>2, <2>4, <2>5
  <2> QED
    BY <1>4, <1>6, <2>4, <2>6 DEF Begin, TypeOK
<1>7. ASSUME NEW c \in Check, FinishPod(c) PROVE TypeOK' /\ VerdictInv'
  <2>1. PICK phase \in {"failed", "unstartable"} \cup (IF check[c].good THEN {"succeeded"} ELSE {}) :
           pod' = [pod EXCEPT ![c] = phase]
    BY <1>7 DEF FinishPod
  <2>2. phase \in Phase /\ (phase = "succeeded" => check[c].good)
    BY DEF Phase
  <2>3. UNCHANGED <<process, check, age, late, sweep, faults>>
    BY <1>7 DEF FinishPod
  <2>4. TypeOK'
    BY <2>1, <2>2, <2>3 DEF TypeOK
  <2>5. \A d \in Check : pod'[d] = "succeeded" => check[d].good
    BY <2>1, <2>2 DEF VerdictInv, TypeOK
  <2> QED
    BY <2>3, <2>4, <2>5 DEF VerdictInv
<1>8. ASSUME NEW c \in Check, LosePod(c) \/ CollectGarbage(c) PROVE TypeOK' /\ VerdictInv'
  <2>1. "assets" \in Temporary
    BY DEF Temporary
  <2>2. /\ age' = [age EXCEPT ![c]["assets"] = Absent] \/ age' = age
        /\ faults' \in 0..MaxFaults /\ UNCHANGED <<process, check, late, sweep>>
    BY <1>2, <1>8 DEF LosePod, CollectGarbage, TypeOK
  <2>3. pod' \in [Check -> Phase] /\ \A d \in Check : pod'[d] \in {pod[d], "deleted"}
    BY <1>8 DEF LosePod, CollectGarbage, TypeOK, Phase
  <2>4. age' \in [Check -> [Temporary -> Absent..MaxAge]]
    <3>1. [age EXCEPT ![c]["assets"] = Absent] \in [Check -> [Temporary -> Absent..MaxAge]]
      BY <2>1, AgeTypes
    <3>2. age \in [Check -> [Temporary -> Absent..MaxAge]]
      BY DEF TypeOK
    <3> QED
      BY <2>2, <3>1, <3>2
  <2>5. TypeOK'
    BY <2>2, <2>3, <2>4 DEF TypeOK
  <2> QED
    BY <2>2, <2>3, <2>5 DEF VerdictInv
<1>9. ASSUME NEW c \in Check, NEW s \in Temporary, LandLate(c, s)
      PROVE  TypeOK' /\ VerdictInv'
  <2>1. TypeOK'
    BY <1>1, <1>9 DEF LandLate, TypeOK
  <2> QED
    BY <1>9, <2>1 DEF LandLate, VerdictInv
<1>10. ASSUME NEW o \in Process, Shutdown(o) \/ StartSweep(o) \/ EndSweep(o)
       PROVE  TypeOK' /\ VerdictInv'
  <2>1. Orphans(o) \in SUBSET (Check \X Temporary)
    BY DEF Orphans
  <2>2. sweep' \in [Process -> [pc : {"start", "pass", "ticker"},
                                todo : SUBSET (Check \X Temporary)]]
    BY <1>10, <2>1 DEF Shutdown, StartSweep, EndSweep, TypeOK
  <2>3. /\ process' \in [Process -> {"up", "stopping", "down"}]
        /\ faults' \in 0..MaxFaults /\ UNCHANGED <<check, age, pod, late>>
    BY <1>2, <1>10 DEF Shutdown, StartSweep, EndSweep, TypeOK
  <2>4. TypeOK'
    BY <2>2, <2>3 DEF TypeOK
  <2> QED
    BY <2>3, <2>4 DEF VerdictInv
<1>11. ASSUME NEW o \in Process, Exit(o) PROVE TypeOK' /\ VerdictInv'
  <2>1. ASSUME NEW c \in Check
        PROVE  /\ check'[c] \in CheckRecord
               /\ check'[c].budget = check[c].budget
               /\ check'[c].good = check[c].good /\ check'[c].outcome = check[c].outcome
    <3>1. check[c] \in CheckRecord
      BY <1>5
    <3>2. check'[c] = check[c] \/ check'[c] = [check[c] EXCEPT !.pc = "done"]
      BY <1>11 DEF Exit
    <3> QED
      BY <3>1, <3>2 DEF CheckRecord, Steps
  <2>2. check' \in [Check -> CheckRecord]
    BY <1>11, <2>1 DEF Exit
  <2>3. \A c \in Check : check'[c].budget =< Timeout[Owner[c]]
    BY <2>1 DEF TypeOK
  <2> QED
    BY <1>4, <1>11, <2>1, <2>2, <2>3 DEF Exit, TypeOK
<1>12. ASSUME NEW o \in Process, Restart(o) PROVE TypeOK' /\ VerdictInv'
  BY <1>4, <1>5, <1>12 DEF Restart, TypeOK
<1>13. ASSUME NEW o \in Process, NEW c \in Check, NEW s \in Temporary, SweepSecret(o, c, s)
       PROVE  TypeOK' /\ VerdictInv'
  <2>1. /\ age' = [age EXCEPT ![c][s] = Absent] \/ age' = age
        /\ faults' \in 0..MaxFaults /\ UNCHANGED <<process, check, pod, late>>
    BY <1>2, <1>13 DEF SweepSecret, TypeOK
  <2>2. sweep' \in [Process -> [pc : {"start", "pass", "ticker"},
                                todo : SUBSET (Check \X Temporary)]]
    BY <1>13 DEF SweepSecret, TypeOK
  <2>3. age' \in [Check -> [Temporary -> Absent..MaxAge]]
    <3>1. [age EXCEPT ![c][s] = Absent] \in [Check -> [Temporary -> Absent..MaxAge]]
      BY AgeTypes
    <3>2. age \in [Check -> [Temporary -> Absent..MaxAge]]
      BY DEF TypeOK
    <3> QED
      BY <2>1, <3>1, <3>2
  <2>4. TypeOK'
    BY <2>1, <2>2, <2>3 DEF TypeOK
  <2> QED
    BY <2>1, <2>4 DEF VerdictInv
<1>14. CASE Tick
  <2>1. ASSUME NEW c \in Check
        PROVE  /\ check'[c] \in CheckRecord
               /\ check'[c].budget =< check[c].budget
               /\ check'[c].good = check[c].good /\ check'[c].outcome = check[c].outcome
    <3>1. check[c] \in CheckRecord
      BY <1>5
    <3>2. check'[c] = IF check[c].budget > 0
                      THEN [check[c] EXCEPT !.budget = @ - 1] ELSE check[c]
      BY <1>14 DEF Tick
    <3> QED
      BY <3>1, <3>2 DEF CheckRecord
  <2>2. check' \in [Check -> CheckRecord]
    BY <1>14, <2>1 DEF Tick
  <2>3. ASSUME NEW c \in Check PROVE check'[c].budget =< Timeout[Owner[c]]
    <3>1. /\ check'[c].budget \in Nat /\ check[c].budget \in Nat
          /\ Timeout[Owner[c]] \in Nat /\ check[c].budget =< Timeout[Owner[c]]
      BY <1>5, <2>2, CheckAssumption DEF CheckRecord, TypeOK
    <3> QED
      BY <2>1, <3>1
  <2>4. \A a \in Absent..MaxAge : Older(a) \in Absent..MaxAge
    BY <1>1 DEF Older, Absent
  <2>5. age' \in [Check -> [Temporary -> Absent..MaxAge]]
    BY <1>14, <2>4 DEF Tick, TypeOK
  <2> QED
    BY <1>4, <1>14, <2>1, <2>2, <2>3, <2>5 DEF Tick, TypeOK
<1>15. CASE UNCHANGED vars
  BY <1>4, <1>5, <1>15 DEF vars, TypeOK
<1> QED
  BY <1>3, <1>6, <1>7, <1>8, <1>9, <1>10, <1>11, <1>12, <1>13, <1>14, <1>15
     DEF Next, SweepStep

(* Every reachable state has the declared types: the budget of a check     *)
(* never exceeds its timeout again, and no Secret grows older than any     *)
(* sweeper can tell.                                                       *)
THEOREM TypeCorrect == Spec => []TypeOK
<1>1. Init => TypeOK /\ VerdictInv
  BY CheckTypeInit
<1>2. TypeOK /\ VerdictInv /\ [Next]_vars => TypeOK' /\ VerdictInv'
  BY CheckTypeStep
<1> QED
  BY <1>1, <1>2, PTL DEF Spec

(* For any number of processes and checks, whatever is lost, cancelled or  *)
(* late: a check that reports its config valid has seen the validation of  *)
(* that config pass (getCheckResult).                                      *)
THEOREM VerdictsAreTrue == Spec => []NoFalseSuccess
<1>1. Init => TypeOK /\ VerdictInv
  BY CheckTypeInit
<1>2. TypeOK /\ VerdictInv /\ [Next]_vars => TypeOK' /\ VerdictInv'
  BY CheckTypeStep
<1>3. VerdictInv => NoFalseSuccess
  BY DEF VerdictInv, NoFalseSuccess
<1> QED
  BY <1>1, <1>2, <1>3, PTL DEF Spec

=============================================================================
