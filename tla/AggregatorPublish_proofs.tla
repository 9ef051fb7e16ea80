---------------------- MODULE AggregatorPublish_proofs -----------------------
(***************************************************************************)
(* Proofs about AggregatorPublish, for every set of pipelines, keys and    *)
(* values, every grace period and every bound: type correctness, the       *)
(* refinement of Publication, and the grace period.                        *)
(***************************************************************************)
EXTENDS AggregatorPublish, TLAPS

-----------------------------------------------------------------------------
(* What the operators of SecretAssets return.                              *)

(* The empty Secret is a Secret, and the only one without keys.            *)
LEMMA NoDataFacts ==
    /\ NoData \in Data
    /\ DOMAIN NoData = {}
    /\ \A d \in Data : DOMAIN d = {} => d = NoData
BY DEF NoData, Data

(* Staging the values of some pipelines adds exactly the keys they         *)
(* reference.                                                              *)
LEMMA StageFacts ==
    ASSUME NEW e \in Data, NEW vals \in [Key -> Length], NEW P \in SUBSET Pipeline
    PROVE  /\ Stage(e, vals, P) \in Data
           /\ DOMAIN Stage(e, vals, P) = DOMAIN e \cup KeysOf(P)
           /\ KeysOf(P) \subseteq Key
<1>1. KeysOf(P) \subseteq Key
  BY RefsAssumption DEF KeysOf
<1>2. DOMAIN e \subseteq Key /\ \A k \in DOMAIN e : e[k] \in Length
  BY DEF Data
<1>3. DOMAIN Stage(e, vals, P) = DOMAIN e \cup KeysOf(P)
  BY DEF Stage
<1>4. Stage(e, vals, P) \in [DOMAIN e \cup KeysOf(P) -> Length]
  BY <1>1, <1>2 DEF Stage
<1>5. Stage(e, vals, P) \in Data
  BY <1>1, <1>2, <1>4 DEF Data
<1> QED
  BY <1>1, <1>3, <1>5

(* The exact target of a set of pipelines holds their keys and no other.   *)
LEMMA ExactFacts ==
    ASSUME NEW vals \in [Key -> Length], NEW P \in SUBSET Pipeline
    PROVE  /\ Stage(NoData, vals, P) \in Data
           /\ DOMAIN Stage(NoData, vals, P) = KeysOf(P)
<1>1. Stage(NoData, vals, P) \in Data
  BY StageFacts, NoDataFacts
<1>2. DOMAIN Stage(NoData, vals, P) = DOMAIN NoData \cup KeysOf(P)
  BY StageFacts, NoDataFacts
<1>3. DOMAIN Stage(NoData, vals, P) = KeysOf(P)
  BY <1>2, NoDataFacts
<1> QED
  BY <1>1, <1>3

-----------------------------------------------------------------------------
(* Type correctness.                                                       *)

(* Every step but the last has a successor in each of the three orders.    *)
LEMMA NextStepType ==
    \A o \in Orders : \A s \in Steps \ {"status"} : NextStep[o][s] \in Steps
BY DEF Orders, Steps, NextStep

(* While a round runs, Advance changes its step and nothing else.          *)
LEMMA AdvanceFields ==
    ASSUME TypeOK, round.pc \in Steps \ {"status"}, Advance
    PROVE  /\ round \in Round /\ round # Idle
           /\ round' \in Round /\ round' # Idle
           /\ round'.pc = NextStep[round.order][round.pc]
           /\ round'.order = round.order /\ round'.data = round.data
           /\ round'.pipes = round.pipes /\ round'.persistence = round.persistence
           /\ round'.obsolete = round.obsolete /\ round'.publishing = round.publishing
           /\ round'.late = round.late /\ round'.requeue = round.requeue
           /\ round'.stale = round.stale
<1>1. round \in Round /\ round.pc # "idle"
  BY DEF TypeOK, Idle, Steps
<1>2. NextStep[round.order][round.pc] \in Steps
  BY <1>1, NextStepType DEF Round
<1>3. round' \in Round
  BY <1>1, <1>2 DEF Advance, Round
<1>4. round # Idle /\ round' # Idle
  BY <1>1, <1>3 DEF Round, Idle, Steps
<1>5. /\ round'.pc = NextStep[round.order][round.pc]
      /\ round'.order = round.order /\ round'.data = round.data
      /\ round'.pipes = round.pipes /\ round'.persistence = round.persistence
      /\ round'.obsolete = round.obsolete /\ round'.publishing = round.publishing
      /\ round'.late = round.late /\ round'.requeue = round.requeue
      /\ round'.stale = round.stale
  BY <1>1 DEF Advance, Round
<1> QED
  BY <1>1, <1>3, <1>4, <1>5

(* Time passes for a round only between its publish mark and its config    *)
(* write.                                                                  *)
LEMMA TickRound ==
    ASSUME TypeOK, Tick
    PROVE  /\ round' \in Round \cup {Idle}
           /\ ~Publishing => round' = round
           /\ Publishing =>
                /\ round \in Round /\ round # Idle /\ round' # Idle
                /\ round'.pc = round.pc
                /\ round'.order = round.order /\ round'.data = round.data
                /\ round'.pipes = round.pipes /\ round'.persistence = round.persistence
                /\ round'.obsolete = round.obsolete
                /\ round'.publishing = round.publishing
                /\ round'.late = round.late + 1 /\ round'.requeue = round.requeue
                /\ round'.stale = round.stale
<1>1. CASE ~Publishing
  BY <1>1 DEF Tick, TypeOK
<1>2. CASE Publishing
  <2>1. round \in Round
    BY <1>2 DEF Publishing, TypeOK, Idle
  <2>2. round.late + 1 \in 0..Latency
    BY <1>2, <2>1, AggregatorAssumption DEF Tick, Round
  <2>3. round' = [round EXCEPT !.late = round.late + 1]
    BY <1>2 DEF Tick
  <2>4. round' \in Round
    BY <2>1, <2>2, <2>3 DEF Round
  <2>5. round # Idle /\ round' # Idle
    BY <2>1, <2>4 DEF Round, Idle, Steps
  <2> QED
    BY <1>2, <2>1, <2>3, <2>4, <2>5 DEF Round
<1> QED
  BY <1>1, <1>2

(* What a round plans has the type of a round.                             *)
LEMMA PlannedRoundType ==
    ASSUME TypeOK, NEW pipes \in SUBSET Pipeline, NEW bridged \in Data
    PROVE  PlannedRound(pipes, bridged) \in Round
<1> DEFINE exact == Stage(NoData, values, pipes)
           unchanged == config = Published(pipes)
           wouldDrop == WouldDropAKey(assets, exact)
           data == IF ~wouldDrop \/ MayPrune(unchanged) THEN exact ELSE bridged
           requeue == IF wouldDrop THEN RequeueAfter(unchanged) ELSE 0
           obsolete == OtherKind(KindOf(persistence)) \in Live
           order == WriteOrder(data)
<1>1. exact \in Data
  BY ExactFacts DEF TypeOK
<1>2. data \in Data
  BY <1>1
<1>3. requeue \in 0..Grace
  BY AggregatorAssumption DEF RequeueAfter, MayPrune, TypeOK, NoMark
<1>4. order \in Orders
  BY DEF WriteOrder, Orders
<1>5. persistence \in Persistences /\ 0 \in 0..Latency
  BY AggregatorAssumption DEF TypeOK
<1>6. PlannedRound(pipes, bridged) =
        [pc |-> "check", pipes |-> pipes, persistence |-> persistence, data |-> data,
         publishing |-> ~unchanged, order |-> order, obsolete |-> obsolete,
         marked |-> cachedMark # NoMark, stale |-> cachedMark # mark, requeue |-> requeue,
         late |-> 0]
  BY DEF PlannedRound
<1>7. unchanged \in BOOLEAN /\ obsolete \in BOOLEAN
  OBVIOUS
<1> HIDE DEF data, unchanged, requeue, order, obsolete
<1> QED
  BY <1>2, <1>3, <1>4, <1>5, <1>6, <1>7 DEF Round, Steps

(* The initial states, with or without objects of an earlier version.      *)
LEMMA TypeInit == Init => TypeOK
<1> SUFFICES ASSUME Init PROVE TypeOK
  OBVIOUS
<1>1. wanted \in SUBSET Pipeline /\ persistence \in Persistences
  BY AggregatorAssumption DEF Init
<1>2. values \in [Key -> Length]
  BY DEF Init
<1>3. /\ mark \in NoMark..Grace /\ cachedMark \in NoMark..Grace /\ queued \in BOOLEAN /\ timer \in NoTimer..Grace
      /\ edits \in 0..MaxEdits /\ faults \in 0..MaxFaults
      /\ round \in Round \cup {Idle}
  BY AggregatorAssumption DEF Init, NoMark, NoTimer
<1>4. /\ assets \in Data
      /\ config \in [absent : BOOLEAN, pipes : SUBSET Pipeline]
      /\ workload \in [Kind -> {"absent", "plain", "mounted"}]
      /\ unused \in [Key -> 0..Grace]
  <2>1. CASE NothingPublished
    BY <2>1, NoDataFacts, AggregatorAssumption DEF NothingPublished, NoConfig
  <2>2. ASSUME NEW pipes \in Selections, PublishedUnmarked(pipes)
        PROVE  <1>4!1 /\ <1>4!2 /\ <1>4!3 /\ <1>4!4
    <3>1. pipes \in SUBSET Pipeline
      BY AggregatorAssumption
    <3>2. Stage(NoData, values, pipes) \in Data
      BY <3>1, <1>2, ExactFacts
    <3> QED
      BY <2>2, <3>1, <3>2, AggregatorAssumption
         DEF PublishedUnmarked, Published, Template
  <2> QED
    BY <2>1, <2>2 DEF Init
<1> QED
  BY <1>1, <1>2, <1>3, <1>4 DEF TypeOK

(* One step per action.                                                    *)
LEMMA TypeStep == TypeOK /\ [Next]_vars => TypeOK'
<1> SUFFICES ASSUME TypeOK, [Next]_vars PROVE TypeOK'
  OBVIOUS
<1> USE AggregatorAssumption
<1>1. CASE ChangePipelines
  BY <1>1 DEF ChangePipelines, Edit, TypeOK, cluster, status
<1>2. CASE RotateValue
  BY <1>2 DEF RotateValue, Edit, TypeOK, cluster, status, Length
<1>3. CASE ChangePersistence
  BY <1>3 DEF ChangePersistence, Edit, TypeOK, cluster, status
<1>4. CASE StartRound
  <2>1. PICK target \in SUBSET wanted, bridge \in SUBSET wanted :
           round' = PlannedRound(bridge, Stage(assets, values, bridge))
    BY <1>4 DEF StartRound
  <2>2. bridge \in SUBSET Pipeline
    BY DEF TypeOK
  <2>3. Stage(assets, values, bridge) \in Data
    BY <2>2, StageFacts DEF TypeOK
  <2>4. round' \in Round
    BY <2>1, <2>2, <2>3, PlannedRoundType
  <2> QED
    BY <2>4, <1>4 DEF StartRound, TypeOK, inputs, cluster, status
<1>5. CASE RejectConfig
  BY <1>5 DEF RejectConfig, TypeOK, inputs, cluster, status
<1>6. CASE AcceptConfig
  <2>1. round' \in Round
    BY <1>6, AdvanceFields DEF AcceptConfig, Steps
  <2> QED
    BY <1>6, <2>1 DEF AcceptConfig, TypeOK, inputs, cluster, status
<1>7. CASE WriteAssets
  <2>1. round \in Round /\ round' \in Round
    BY <1>7, AdvanceFields DEF WriteAssets, Steps
  <2>2. assets' \in Data /\ queued' \in BOOLEAN
    BY <1>7, <2>1 DEF WriteAssets, Notify, Round, TypeOK
  <2> QED
    BY <1>7, <2>1, <2>2 DEF WriteAssets, TypeOK, inputs, status
<1>8. CASE StampPublishing
  <2>1. round' \in Round
    BY <1>8, AdvanceFields DEF StampPublishing, Steps
  <2>2. mark' \in NoMark..Grace /\ cachedMark' \in NoMark..Grace
    BY <1>8 DEF StampPublishing, PatchMark, status, TypeOK, NoMark
  <2> QED
    BY <1>8, <2>1, <2>2 DEF StampPublishing, TypeOK, inputs, cluster, status
<1>9. CASE WriteConfig
  <2>1. round \in Round /\ round' \in Round
    BY <1>9, AdvanceFields DEF WriteConfig, Steps
  <2>2. config' \in [absent : BOOLEAN, pipes : SUBSET Pipeline] /\ queued' \in BOOLEAN
    BY <1>9, <2>1 DEF WriteConfig, Published, Round, Notify, TypeOK
  <2>3. unused' \in [Key -> 0..Grace]
    BY <1>9 DEF WriteConfig, TypeOK
  <2> QED
    BY <1>9, <2>1, <2>2, <2>3 DEF WriteConfig, TypeOK, inputs, status
<1>10. CASE WriteWorkload
  <2>1. round' \in Round
    BY <1>10, AdvanceFields DEF WriteWorkload, Steps
  <2>2. /\ workload' \in [Kind -> {"absent", "plain", "mounted"}]
        /\ queued' \in BOOLEAN
    BY <1>10 DEF WriteWorkload, Template, Notify, TypeOK
  <2> QED
    BY <1>10, <2>1, <2>2 DEF WriteWorkload, TypeOK, inputs, status
<1>11. CASE RejectPersistence
  BY <1>11 DEF RejectPersistence, TypeOK, inputs, cluster, status
<1>12. CASE DeleteObsolete
  <2>1. round' \in Round
    BY <1>12, AdvanceFields DEF DeleteObsolete, Steps
  <2>2. /\ workload' \in [Kind -> {"absent", "plain", "mounted"}]
        /\ queued' \in BOOLEAN
    BY <1>12 DEF DeleteObsolete, Notify, TypeOK
  <2> QED
    BY <1>12, <2>1, <2>2 DEF DeleteObsolete, TypeOK, inputs, status
<1>13. CASE FinishRound
  <2>1. round \in Round
    BY <1>13 DEF FinishRound, TypeOK, Idle
  <2>2. mark' \in NoMark..Grace /\ cachedMark' \in NoMark..Grace
    BY <1>13 DEF FinishRound, PatchMark, status, TypeOK, NoMark
  <2>3. timer' \in NoTimer..Grace
    BY <1>13, <2>1 DEF FinishRound, TypeOK, Round, NoTimer
  <2> QED
    BY <1>13, <2>2, <2>3 DEF FinishRound, TypeOK, inputs, cluster, status
<1>14. CASE FailRound
  BY <1>14 DEF FailRound, TypeOK, inputs, cluster, status
<1>15. CASE Restart
  BY <1>15 DEF Restart, TypeOK, inputs, cluster, status, NoTimer
<1>16. CASE Tick
  <2>1. mark' \in NoMark..Grace /\ cachedMark' \in NoMark..Grace
    BY <1>16 DEF Tick, TypeOK, Aged, NoMark
  <2>2. \A a \in 0..Grace : Aged(a) \in 0..Grace
    BY DEF Aged, NoMark
  <2>3. unused' \in [Key -> 0..Grace]
    BY <1>16, <2>2 DEF Tick, TypeOK
  <2>4. timer' \in NoTimer..Grace
    BY <1>16 DEF Tick, TypeOK, NoTimer
  <2>5. round' \in Round \cup {Idle}
    BY <1>16, TickRound
  <2> QED
    BY <1>16, <2>1, <2>3, <2>4, <2>5 DEF Tick, TypeOK, inputs
<1>17. CASE RequeueExpires
  BY <1>17 DEF RequeueExpires, TypeOK, inputs, cluster, status, NoTimer
<1>18. CASE SyncCache
  BY <1>18 DEF SyncCache, TypeOK, inputs, cluster, status
<1>19. CASE UNCHANGED vars
  BY <1>19 DEF vars, inputs, cluster, status, TypeOK
<1> QED
  BY <1>1, <1>2, <1>3, <1>4, <1>5, <1>6, <1>7, <1>8, <1>9, <1>10, <1>11, <1>12,
     <1>13, <1>14, <1>15, <1>16, <1>17, <1>18, <1>19 DEF Next, Step

(* Every reachable state has the declared types: ages and timers stay      *)
(* within the grace period, and a round always has a step of               *)
(* EnsureVectorAggregator to take next.                                    *)
THEOREM TypeCorrect == Spec => []TypeOK
BY TypeInit, TypeStep, PTL DEF Spec

-----------------------------------------------------------------------------
(* The inductive invariant of the write orders.                            *)

NoneMounted == \A k \in Kind : workload[k] # "mounted"
NonePlain   == \A k \in Kind : workload[k] # "plain"

(* The data a round will write holds the keys of the config in place and   *)
(* of the one it is about to write.                                        *)
PlanCovers ==
    round # Idle => Referenced \cup KeysOf(round.pipes) \subseteq DOMAIN round.data

(* Past its assets step a round finds in the Secret what it has written    *)
(* there.                                                                  *)
StagedBeforeUse ==
    \/ round = Idle
    \/ round.pc \in {"check", "assets"}
    \/ round.order = "losing" /\ round.pc # "status"
    \/ assets = round.data

(* A kind of workload that was not alive when the round began is not       *)
(* created by anybody else.                                                *)
ObsoleteSeen ==
    round # Idle /\ ~round.obsolete =>
        workload[OtherKind(KindOf(round.persistence))] = "absent"

(* How far each of the three orders has come with the mounts.              *)
MountsFollowOrder ==
    round # Idle =>
      LET own == workload[KindOf(round.persistence)]
      IN  /\ round.order = "gaining" =>
                /\ round.data # NoData
                /\ round.pc \in {"obsolete", "stamp", "config", "status"} => own = "mounted"
                /\ round.pc \in {"stamp", "config", "status"} => NonePlain
          /\ round.order = "losing" =>
                /\ round.data = NoData
                /\ round.pc \in {"obsolete", "assets", "status"} => own = "plain"
                /\ round.pc \in {"assets", "status"} => NoneMounted
          /\ round.order = "keeping" =>
                IF round.data = NoData THEN NoneMounted ELSE NonePlain

PublishInv ==
    /\ Contract!Safe
    /\ PlanCovers
    /\ StagedBeforeUse
    /\ ObsoleteSeen
    /\ MountsFollowOrder

-----------------------------------------------------------------------------
(* The write orders keep the contract.                                     *)

(* The successor of every step, order by order.                            *)
LEMMA NextStepValues ==
    /\ NextStep["gaining"]["check"] = "assets" /\ NextStep["gaining"]["assets"] = "workload"
    /\ NextStep["gaining"]["workload"] = "obsolete"
    /\ NextStep["gaining"]["obsolete"] = "stamp"
    /\ NextStep["gaining"]["stamp"] = "config" /\ NextStep["gaining"]["config"] = "status"
    /\ NextStep["losing"]["check"] = "stamp" /\ NextStep["losing"]["stamp"] = "config"
    /\ NextStep["losing"]["config"] = "workload"
    /\ NextStep["losing"]["workload"] = "obsolete"
    /\ NextStep["losing"]["obsolete"] = "assets" /\ NextStep["losing"]["assets"] = "status"
    /\ NextStep["keeping"]["check"] = "assets" /\ NextStep["keeping"]["assets"] = "stamp"
    /\ NextStep["keeping"]["stamp"] = "config" /\ NextStep["keeping"]["config"] = "workload"
    /\ NextStep["keeping"]["workload"] = "obsolete"
    /\ NextStep["keeping"]["obsolete"] = "status"
BY DEF NextStep

(* The two kinds, and which of them a round writes.                        *)
LEMMA KindFacts ==
    /\ Kind = {"Deployment", "StatefulSet"}
    /\ \A p : KindOf(p) \in Kind /\ OtherKind(KindOf(p)) \in Kind
    /\ \A p : \A k \in Kind : k = KindOf(p) \/ k = OtherKind(KindOf(p))
    /\ \A p : KindOf(p) # OtherKind(KindOf(p))
BY DEF Kind, KindOf, OtherKind

(* The data of a round: the exact target if nothing is dropped or pruning  *)
(* is allowed, else the bridge; it covers the old config and the new.      *)
LEMMA PlannedData ==
    ASSUME TypeOK, PublishInv, NEW pipes \in SUBSET Pipeline,
           round' = PlannedRound(pipes, Stage(assets, values, pipes))
    PROVE  /\ round' \in Round /\ round' # Idle
           /\ round'.pc = "check" /\ round'.pipes = pipes
           /\ round'.persistence = persistence
           /\ round'.obsolete <=> OtherKind(KindOf(persistence)) \in Live
           /\ round'.publishing <=> config # Published(pipes)
           /\ round'.late = 0 /\ round'.stale = (cachedMark # mark)
           /\ round'.order = WriteOrder(round'.data)
           /\ Referenced \cup KeysOf(pipes) \subseteq DOMAIN round'.data
           /\ \/ DOMAIN assets \subseteq DOMAIN round'.data
              \/ /\ config = Published(pipes) /\ cachedMark # NoMark /\ cachedMark >= Grace
                 /\ DOMAIN round'.data = KeysOf(pipes)
<1> DEFINE exact == Stage(NoData, values, pipes)
           bridged == Stage(assets, values, pipes)
           unchanged == config = Published(pipes)
           wouldDrop == WouldDropAKey(assets, exact)
           data == IF ~wouldDrop \/ MayPrune(unchanged) THEN exact ELSE bridged
<1>1. exact \in Data /\ DOMAIN exact = KeysOf(pipes)
  BY ExactFacts DEF TypeOK
<1>2. bridged \in Data /\ DOMAIN bridged = DOMAIN assets \cup KeysOf(pipes)
  BY StageFacts DEF TypeOK
<1>3. Referenced \subseteq DOMAIN assets
  BY DEF PublishInv, Contract!Safe
<1>4. /\ round'.pc = "check" /\ round'.pipes = pipes /\ round'.data = data
      /\ round'.persistence = persistence
      /\ round'.obsolete <=> OtherKind(KindOf(persistence)) \in Live
      /\ round'.publishing <=> config # Published(pipes)
      /\ round'.late = 0 /\ round'.stale = (cachedMark # mark)
      /\ round'.order = WriteOrder(data)
  BY DEF PlannedRound
<1>5. round' \in Round /\ round' # Idle
  <2>1. round' \in Round
    BY <1>2, PlannedRoundType
  <2> QED
    BY <2>1 DEF Round, Idle, Steps
<1>6. CASE ~wouldDrop
  <2>1. data = exact /\ DOMAIN assets \subseteq DOMAIN data
    BY <1>6 DEF WouldDropAKey
  <2> QED
    BY <1>1, <1>3, <1>4, <1>5, <2>1
<1>7. CASE wouldDrop /\ MayPrune(unchanged)
  <2>1. data = exact /\ unchanged /\ cachedMark # NoMark /\ cachedMark >= Grace
    BY <1>7 DEF MayPrune
  <2>2. Referenced = KeysOf(pipes)
    BY <2>1 DEF Referenced, Published
  <2> QED
    BY <1>1, <1>4, <1>5, <2>1, <2>2
<1>8. CASE wouldDrop /\ ~MayPrune(unchanged)
  <2>1. data = bridged
    BY <1>8
  <2> QED
    BY <1>2, <1>3, <1>4, <1>5, <2>1
<1> QED
  BY <1>6, <1>7, <1>8

(* The initial states: nothing is published, or a whole config is.         *)
LEMMA PublishInit == Init => Contract!Init /\ PublishInv
<1> SUFFICES ASSUME Init PROVE Contract!Init /\ PublishInv
  OBVIOUS
<1>1. TypeOK
  BY TypeInit
<1>2. Contract!Safe
  <2>1. CASE NothingPublished
    BY <2>1, NoDataFacts
       DEF NothingPublished, NoConfig, Contract!Safe, Referenced, KeysOf
  <2>2. ASSUME NEW pipes \in Selections, PublishedUnmarked(pipes)
        PROVE  Contract!Safe
    <3>1. /\ DOMAIN assets = KeysOf(pipes) /\ Referenced = KeysOf(pipes)
      <4>1. pipes \in SUBSET Pipeline
        BY AggregatorAssumption
      <4>2. assets = Stage(NoData, values, pipes) /\ config.pipes = pipes
        BY <2>2 DEF PublishedUnmarked, Published
      <4> QED
        BY <1>1, <4>1, <4>2, ExactFacts DEF TypeOK, Referenced
    <3>2. \A k \in Kind : workload[k] \in {Template(assets), "absent"}
      BY <2>2 DEF PublishedUnmarked
    <3>3. CASE assets = NoData
      BY <3>1, <3>2, <3>3, NoDataFacts DEF Contract!Safe, Template
    <3>4. CASE assets # NoData
      <4>1. DOMAIN assets # {}
        BY <1>1, <3>4, NoDataFacts DEF TypeOK
      <4> QED
        BY <3>1, <3>2, <3>4, <4>1 DEF Contract!Safe, Template
    <3> QED
      BY <3>3, <3>4
  <2> QED
    BY <2>1, <2>2 DEF Init
<1>3. Contract!Init
  <2>1. DOMAIN assets \in SUBSET Key
    BY <1>1 DEF TypeOK, Data
  <2>2. Referenced \in SUBSET Key
    BY <1>2, <2>1 DEF Contract!Safe
  <2> QED
    BY <1>1, <1>2, <2>1, <2>2 DEF Contract!Init, Contract!Template, TypeOK
<1>4. round = Idle
  BY DEF Init
<1> QED
  BY <1>2, <1>3, <1>4 DEF PublishInv, PlanCovers, StagedBeforeUse, ObsoleteSeen,
                          MountsFollowOrder

(* The objects stay as they are: a stuttering step of the contract.        *)
LEMMA SafeKept ==
    ASSUME PublishInv, UNCHANGED <<assets, config, workload>>
    PROVE  /\ Contract!Safe'
           /\ UNCHANGED Contract!vars
           /\ Referenced' = Referenced
<1>1. Referenced' = Referenced
  BY DEF Referenced
<1>2. UNCHANGED Contract!vars
  BY <1>1 DEF Contract!vars
<1>3. Contract!Safe'
  BY <1>1 DEF PublishInv, Contract!Safe
<1> QED
  BY <1>1, <1>2, <1>3

(* Steps that touch neither the objects nor the round, or end it.          *)
LEMMA QuietStep ==
    ASSUME PublishInv, UNCHANGED <<assets, config, workload>>,
           round' = round \/ round' = Idle
    PROVE  PublishInv' /\ UNCHANGED Contract!vars
<1>1. Contract!Safe' /\ UNCHANGED Contract!vars /\ Referenced' = Referenced
  BY SafeKept
<1>2. CASE round' = Idle
  BY <1>1, <1>2 DEF PublishInv, PlanCovers, StagedBeforeUse, ObsoleteSeen,
                    MountsFollowOrder, Idle
<1>3. CASE round' = round
  BY <1>1, <1>3 DEF PublishInv, PlanCovers, StagedBeforeUse, ObsoleteSeen,
                    MountsFollowOrder, NoneMounted, NonePlain, Idle
<1> QED
  BY <1>2, <1>3

(* A round begins.                                                         *)
LEMMA PublishStart ==
    ASSUME TypeOK, PublishInv, StartRound
    PROVE  PublishInv' /\ UNCHANGED Contract!vars
<1>1. PICK pipes \in SUBSET wanted :
         round' = PlannedRound(pipes, Stage(assets, values, pipes))
  BY DEF StartRound
<1>2. pipes \in SUBSET Pipeline
  BY DEF TypeOK
<1>3. UNCHANGED <<assets, config, workload>>
  BY DEF StartRound, cluster
<1>4. Contract!Safe' /\ UNCHANGED Contract!vars /\ Referenced' = Referenced
  BY <1>3, SafeKept
<1>5. /\ round' # Idle /\ round'.pc = "check" /\ round'.pipes = pipes
      /\ round'.persistence = persistence
      /\ round'.obsolete <=> OtherKind(KindOf(persistence)) \in Live
      /\ round'.order = WriteOrder(round'.data)
      /\ Referenced \cup KeysOf(pipes) \subseteq DOMAIN round'.data
  BY <1>1, <1>2, PlannedData
<1>6. PlanCovers' /\ StagedBeforeUse'
  BY <1>4, <1>5 DEF PlanCovers, StagedBeforeUse
<1>7. ObsoleteSeen'
  BY <1>3, <1>5, KindFacts DEF ObsoleteSeen, Live, TypeOK
<1>8. MountsFollowOrder'
  <2>1. AnyMounted <=> ~NoneMounted
    BY DEF AnyMounted, NoneMounted, Live
  <2>2. AllMounted => NonePlain
    BY DEF AllMounted, NonePlain, Live
  <2>3. NoneMounted' = NoneMounted /\ NonePlain' = NonePlain
    BY <1>3 DEF NoneMounted, NonePlain
  <2> QED
    BY <1>5, <2>1, <2>2, <2>3 DEF MountsFollowOrder, WriteOrder
<1> QED
  BY <1>4, <1>6, <1>7, <1>8 DEF PublishInv

(* Steps of a round that write none of the three objects.                  *)
LEMMA PublishPass ==
    ASSUME TypeOK, PublishInv, UNCHANGED <<assets, config, workload>>,
           round.pc \in {"check", "stamp"}, Advance
    PROVE  PublishInv' /\ UNCHANGED Contract!vars
<1>1. round.pc \in Steps \ {"status"}
  BY DEF Steps
<1>2. Contract!Safe' /\ UNCHANGED Contract!vars /\ Referenced' = Referenced
  BY SafeKept
<1>3. round.order \in Orders
  BY <1>1, AdvanceFields DEF Round
<1>4. PlanCovers'
  BY <1>1, <1>2, AdvanceFields DEF PublishInv, PlanCovers
<1>5. StagedBeforeUse'
  BY <1>1, <1>3, AdvanceFields, NextStepValues DEF PublishInv, StagedBeforeUse, Orders
<1>6. ObsoleteSeen'
  BY <1>1, AdvanceFields DEF PublishInv, ObsoleteSeen
<1>7. MountsFollowOrder'
  BY <1>1, <1>3, AdvanceFields, NextStepValues
     DEF PublishInv, MountsFollowOrder, NoneMounted, NonePlain, Orders
<1> QED
  BY <1>2, <1>4, <1>5, <1>6, <1>7 DEF PublishInv

(* The assets are replaced by data that covers every reference, and go     *)
(* only when nothing mounts them.                                          *)
LEMMA PublishAssets ==
    ASSUME TypeOK, PublishInv, WriteAssets
    PROVE  PublishInv' /\ Contract!WriteAssets
<1>1. round.pc \in Steps \ {"status"} /\ Advance /\ round.pc = "assets"
  BY DEF WriteAssets, Steps
<1>2. assets' = round.data /\ UNCHANGED <<config, workload>>
  BY DEF WriteAssets
<1>3. round.order \in Orders /\ round.data \in Data
  BY <1>1, AdvanceFields DEF Round
<1>4. Referenced' = Referenced /\ NoneMounted' = NoneMounted /\ NonePlain' = NonePlain
  BY <1>2 DEF Referenced, NoneMounted, NonePlain
<1>5. PlanCovers'
  BY <1>1, <1>4, AdvanceFields DEF PublishInv, PlanCovers
<1>6. Referenced \subseteq DOMAIN assets'
  BY <1>1, <1>2, AdvanceFields DEF PublishInv, PlanCovers
<1>7. DOMAIN assets' = {} => NoneMounted
  <2>1. DOMAIN assets' = {} => round.data = NoData
    BY <1>2, <1>3, NoDataFacts
  <2> QED
    BY <1>1, <1>3, <2>1, AdvanceFields DEF PublishInv, MountsFollowOrder, Orders
<1>8. Contract!WriteAssets
  <2>1. DOMAIN assets' \in SUBSET Key
    BY <1>2, <1>3 DEF Data
  <2> QED
    BY <1>2, <1>4, <1>6, <1>7, <2>1 DEF Contract!WriteAssets, NoneMounted
<1>9. Contract!Safe'
  BY <1>2, <1>4, <1>6, <1>7 DEF PublishInv, Contract!Safe, NoneMounted
<1>10. StagedBeforeUse'
  BY <1>1, <1>2, AdvanceFields DEF StagedBeforeUse
<1>11. ObsoleteSeen'
  BY <1>1, <1>2, AdvanceFields DEF PublishInv, ObsoleteSeen
<1>12. MountsFollowOrder'
  BY <1>1, <1>2, <1>3, <1>4, AdvanceFields, NextStepValues
     DEF PublishInv, MountsFollowOrder, Orders
<1> QED
  BY <1>5, <1>8, <1>9, <1>10, <1>11, <1>12 DEF PublishInv

(* The new config finds its keys staged, and mounted by every live         *)
(* workload if there are any.                                              *)
LEMMA PublishConfig ==
    ASSUME TypeOK, PublishInv, WriteConfig
    PROVE  PublishInv' /\ Contract!WriteConfig
<1>1. round.pc \in Steps \ {"status"} /\ Advance /\ round.pc = "config"
  BY DEF WriteConfig, Steps
<1>2. config' = Published(round.pipes) /\ UNCHANGED <<assets, workload>>
  BY DEF WriteConfig
<1>3. round.order \in Orders /\ round.data \in Data
  BY <1>1, AdvanceFields DEF Round
<1>4. Referenced' = KeysOf(round.pipes)
  BY <1>2 DEF Referenced, Published
<1>5. NoneMounted' = NoneMounted /\ NonePlain' = NonePlain
  BY <1>2 DEF NoneMounted, NonePlain
<1>6. KeysOf(round.pipes) \subseteq DOMAIN round.data
  BY <1>1, AdvanceFields DEF PublishInv, PlanCovers
<1>7. Referenced' \subseteq DOMAIN assets
  <2>1. CASE round.order = "losing"
    <3>1. round.data = NoData
      BY <1>1, <2>1, AdvanceFields DEF PublishInv, MountsFollowOrder
    <3> QED
      BY <3>1, <1>4, <1>6, NoDataFacts
  <2>2. CASE round.order # "losing"
    <3>1. assets = round.data
      BY <1>1, <2>2, AdvanceFields DEF PublishInv, StagedBeforeUse
    <3> QED
      BY <3>1, <1>4, <1>6
  <2> QED
    BY <2>1, <2>2
<1>8. Referenced' # {} => NonePlain
  <2>1. Referenced' # {} => round.data # NoData
    BY <1>4, <1>6, NoDataFacts
  <2> QED
    BY <1>1, <1>3, <2>1, AdvanceFields DEF PublishInv, MountsFollowOrder, Orders
<1>9. Contract!WriteConfig
  BY <1>2, <1>7, <1>8 DEF Contract!WriteConfig, NonePlain
<1>10. Contract!Safe'
  BY <1>2, <1>7, <1>8 DEF PublishInv, Contract!Safe, NonePlain
<1>11. PlanCovers'
  BY <1>1, <1>4, <1>6, AdvanceFields DEF PlanCovers
<1>12. StagedBeforeUse'
  BY <1>1, <1>2, <1>3, AdvanceFields, NextStepValues
     DEF PublishInv, StagedBeforeUse, Orders
<1>13. ObsoleteSeen'
  BY <1>1, <1>2, AdvanceFields DEF PublishInv, ObsoleteSeen
<1>14. MountsFollowOrder'
  BY <1>1, <1>2, <1>3, <1>5, AdvanceFields, NextStepValues
     DEF PublishInv, MountsFollowOrder, Orders
<1> QED
  BY <1>9, <1>10, <1>11, <1>12, <1>13, <1>14 DEF PublishInv

(* The workload of the round's kind mounts what the order has already      *)
(* staged, or stops mounting before the Secret goes.                       *)
LEMMA PublishWorkload ==
    ASSUME TypeOK, PublishInv, WriteWorkload
    PROVE  PublishInv' /\ \E k \in Kind : Contract!WriteWorkload(k)
<1> DEFINE kind == KindOf(round.persistence)
           new  == Template(round.data)
<1>1. round.pc \in Steps \ {"status"} /\ Advance /\ round.pc = "workload"
  BY DEF WriteWorkload, Steps
<1>2. workload' = [workload EXCEPT ![kind] = new] /\ UNCHANGED <<assets, config>>
  BY DEF WriteWorkload
<1>3. round.order \in Orders /\ round.data \in Data
  BY <1>1, AdvanceFields DEF Round
<1>4. kind \in Kind /\ workload'[kind] = new
      /\ \A k \in Kind \ {kind} : workload'[k] = workload[k]
  BY <1>2, KindFacts DEF TypeOK
<1>5. Referenced' = Referenced
  BY <1>2 DEF Referenced
<1>6. Referenced \subseteq DOMAIN round.data
  BY <1>1, AdvanceFields DEF PublishInv, PlanCovers
<1>7. new \in {"plain", "mounted"} /\ (new = "plain" <=> round.data = NoData)
  BY DEF Template
<1>8. new = "plain" => Referenced = {}
  BY <1>6, <1>7, NoDataFacts
<1>9. new = "mounted" => DOMAIN assets # {}
  <2>1. CASE round.order = "losing"
    BY <1>1, <1>7, <2>1, AdvanceFields DEF PublishInv, MountsFollowOrder
  <2>2. CASE round.order # "losing"
    <3>1. assets = round.data
      BY <1>1, <2>2, AdvanceFields DEF PublishInv, StagedBeforeUse
    <3> QED
      BY <1>3, <1>7, <3>1, NoDataFacts
  <2> QED
    BY <2>1, <2>2
<1>10. Contract!WriteWorkload(kind)
  BY <1>2, <1>5, <1>7, <1>8, <1>9 DEF Contract!WriteWorkload, Contract!Template
<1>11. Contract!Safe'
  BY <1>2, <1>4, <1>5, <1>7, <1>8, <1>9 DEF PublishInv, Contract!Safe
<1>12. PlanCovers'
  BY <1>1, <1>5, AdvanceFields DEF PublishInv, PlanCovers
<1>13. StagedBeforeUse'
  BY <1>1, <1>2, <1>3, AdvanceFields, NextStepValues
     DEF PublishInv, StagedBeforeUse, Orders
<1>14. ObsoleteSeen'
  BY <1>1, <1>4, AdvanceFields, KindFacts DEF PublishInv, ObsoleteSeen
<1>15. MountsFollowOrder'
  <2>1. round.order = "gaining" => round.data # NoData
    BY <1>1, AdvanceFields DEF PublishInv, MountsFollowOrder
  <2>2. round.order = "losing" => round.data = NoData
    BY <1>1, AdvanceFields DEF PublishInv, MountsFollowOrder
  <2>3. round.order = "keeping" =>
          IF round.data = NoData THEN NoneMounted ELSE NonePlain
    BY <1>1, AdvanceFields DEF PublishInv, MountsFollowOrder
  <2>4. round.order = "keeping" =>
          IF round.data = NoData THEN NoneMounted' ELSE NonePlain'
    BY <1>4, <1>7, <2>3 DEF NoneMounted, NonePlain
  <2>5. round'.pc = "obsolete"
    BY <1>1, <1>3, AdvanceFields, NextStepValues DEF Orders
  <2> QED
    BY <1>1, <1>4, <1>7, <2>1, <2>2, <2>4, <2>5, AdvanceFields DEF MountsFollowOrder
<1> QED
  BY <1>4, <1>10, <1>11, <1>12, <1>13, <1>14, <1>15 DEF PublishInv

(* Deleting the workload of the other kind leaves only the new one.        *)
LEMMA PublishDelete ==
    ASSUME TypeOK, PublishInv, DeleteObsolete
    PROVE  PublishInv' /\ \E k \in Kind : Contract!WriteWorkload(k)
<1> DEFINE own   == KindOf(round.persistence)
           other == OtherKind(own)
<1>1. round.pc \in Steps \ {"status"} /\ Advance /\ round.pc = "obsolete"
  BY DEF DeleteObsolete, Steps
<1>2. UNCHANGED <<assets, config>>
  BY DEF DeleteObsolete
<1>3. round.order \in Orders /\ round.data \in Data
  BY <1>1, AdvanceFields DEF Round
<1>4. own \in Kind /\ other \in Kind /\ own # other
  BY KindFacts
<1>5. workload' = [workload EXCEPT ![other] = "absent"]
  <2>1. CASE round.obsolete
    BY <2>1 DEF DeleteObsolete
  <2>2. CASE ~round.obsolete
    <3>1. workload[other] = "absent"
      BY <1>1, <2>2, AdvanceFields DEF PublishInv, ObsoleteSeen
    <3> QED
      BY <2>2, <3>1, <1>4 DEF DeleteObsolete, TypeOK
  <2> QED
    BY <2>1, <2>2
<1>6. /\ workload'[other] = "absent" /\ workload'[own] = workload[own]
      /\ \A k \in Kind : k = own \/ k = other
  BY <1>4, <1>5, KindFacts DEF TypeOK
<1>7. Referenced' = Referenced
  BY <1>2 DEF Referenced
<1>8. Contract!WriteWorkload(other)
  BY <1>2, <1>5, <1>7 DEF Contract!WriteWorkload, Contract!Template
<1>9. Contract!Safe'
  BY <1>2, <1>4, <1>6, <1>7 DEF PublishInv, Contract!Safe
<1>10. PlanCovers'
  BY <1>1, <1>7, AdvanceFields DEF PublishInv, PlanCovers
<1>11. StagedBeforeUse'
  BY <1>1, <1>2, <1>3, AdvanceFields, NextStepValues
     DEF PublishInv, StagedBeforeUse, Orders
<1>12. ObsoleteSeen'
  BY <1>1, <1>6, AdvanceFields DEF ObsoleteSeen
<1>13. MountsFollowOrder'
  <2>1. /\ workload'[own] # "plain" => NonePlain'
        /\ workload'[own] # "mounted" => NoneMounted'
    BY <1>6 DEF NonePlain, NoneMounted
  <2>2. round.order = "gaining" => round.data # NoData /\ workload[own] = "mounted"
    BY <1>1, AdvanceFields DEF PublishInv, MountsFollowOrder
  <2>3. round.order = "losing" => round.data = NoData /\ workload[own] = "plain"
    BY <1>1, AdvanceFields DEF PublishInv, MountsFollowOrder
  <2>4. round.order = "keeping" =>
          IF round.data = NoData THEN NoneMounted ELSE NonePlain
    BY <1>1, AdvanceFields DEF PublishInv, MountsFollowOrder
  <2>5. round.order = "keeping" =>
          IF round.data = NoData THEN NoneMounted' ELSE NonePlain'
    BY <1>4, <1>6, <2>4 DEF NoneMounted, NonePlain
  <2> QED
    BY <1>1, <1>3, <1>6, <2>1, <2>2, <2>3, <2>5, AdvanceFields
       DEF MountsFollowOrder, Orders
<1> QED
  BY <1>4, <1>8, <1>9, <1>10, <1>11, <1>12, <1>13 DEF PublishInv

(* Time passes.                                                            *)
LEMMA PublishTick ==
    ASSUME TypeOK, PublishInv, Tick
    PROVE  PublishInv' /\ UNCHANGED Contract!vars
<1>1. UNCHANGED <<assets, config, workload>>
  BY DEF Tick
<1>2. CASE ~Publishing
  BY <1>1, <1>2, TickRound, QuietStep
<1>3. CASE Publishing
  <2>1. Contract!Safe' /\ UNCHANGED Contract!vars /\ Referenced' = Referenced
    BY <1>1, SafeKept
  <2>2. PlanCovers' /\ StagedBeforeUse' /\ ObsoleteSeen'
    BY <1>1, <1>3, <2>1, TickRound
       DEF PublishInv, PlanCovers, StagedBeforeUse, ObsoleteSeen
  <2>3. MountsFollowOrder'
    BY <1>1, <1>3, TickRound
       DEF PublishInv, MountsFollowOrder, NoneMounted, NonePlain
  <2> QED
    BY <2>1, <2>2, <2>3 DEF PublishInv
<1> QED
  BY <1>2, <1>3

(* Every action keeps the invariant, and is a step of the contract or none. *)
LEMMA PublishStep ==
    TypeOK /\ PublishInv /\ [Next]_vars
        => PublishInv' /\ [Contract!Next]_(Contract!vars)
<1> SUFFICES ASSUME TypeOK, PublishInv, [Next]_vars
             PROVE  PublishInv' /\ (Contract!Next \/ UNCHANGED Contract!vars)
  OBVIOUS
<1>1. CASE ChangePipelines \/ RotateValue \/ ChangePersistence
  BY <1>1, QuietStep DEF ChangePipelines, RotateValue, ChangePersistence, Edit, cluster
<1>2. CASE StartRound
  BY <1>2, PublishStart
<1>3. CASE RejectConfig \/ RejectPersistence \/ FinishRound
  BY <1>3, QuietStep DEF RejectConfig, RejectPersistence, FinishRound, cluster
<1>4. CASE AcceptConfig
  BY <1>4, PublishPass DEF AcceptConfig, cluster
<1>5. CASE WriteAssets
  BY <1>5, PublishAssets DEF Contract!Next
<1>6. CASE StampPublishing
  BY <1>6, PublishPass DEF StampPublishing, cluster
<1>7. CASE WriteConfig
  BY <1>7, PublishConfig DEF Contract!Next
<1>8. CASE WriteWorkload
  BY <1>8, PublishWorkload DEF Contract!Next
<1>9. CASE DeleteObsolete
  BY <1>9, PublishDelete DEF Contract!Next
<1>10. CASE FailRound \/ Restart
  BY <1>10, QuietStep DEF FailRound, Restart, cluster
<1>11. CASE Tick
  BY <1>11, PublishTick
<1>12. CASE RequeueExpires
  BY <1>12, QuietStep DEF RequeueExpires, cluster
<1>13. CASE SyncCache
  BY <1>13, QuietStep DEF SyncCache, cluster
<1>14. CASE UNCHANGED vars
  BY <1>14, QuietStep DEF vars, cluster
<1> QED
  BY <1>1, <1>2, <1>3, <1>4, <1>5, <1>6, <1>7, <1>8, <1>9, <1>10, <1>11, <1>12,
     <1>13, <1>14 DEF Next, Step

(* The aggregator implements the publication contract, whatever the        *)
(* pipelines, the values, the budgets, the changes of persistence and the  *)
(* faults: EnsureVectorAggregator writes one object at a time, and in      *)
(* between a pod that starts on any live workload finds every key its      *)
(* config references in a mounted Secret that exists.                      *)
THEOREM ImplementsPublication == Spec => Publishes
<1>1. Init => Contract!Init /\ PublishInv
  BY PublishInit
<1>2. TypeOK /\ PublishInv /\ [Next]_vars => PublishInv' /\ [Contract!Next]_(Contract!vars)
  BY PublishStep
<1> QED
  BY <1>1, <1>2, TypeCorrect, PTL DEF Spec, Publishes, Contract!Spec

-----------------------------------------------------------------------------
(* The inductive invariant of the grace period.                            *)

(* A round that does not publish leaves the config as it is.               *)
UnchangedConfig ==
    round # Idle /\ ~round.publishing => config = Published(round.pipes)

(* Between the publish mark and the config write the mark is no older than *)
(* the time that has passed.                                               *)
MarkBeforeConfig ==
    round # Idle /\ round.pc = "config" /\ round.publishing => mark =< round.late

(* A mark vouches for every key the config does not reference.             *)
MarkVouches ==
    mark # NoMark => \A k \in Key \ Referenced : unused[k] >= mark - Latency

(* What a round will drop is not what its own config write uses, and, if   *)
(* the mark it read was the current one, has been unused long enough.      *)
DropsAreOld ==
    round # Idle =>
        \A k \in DOMAIN assets \ DOMAIN round.data :
            /\ ~round.publishing
            /\ k \notin Referenced
            /\ ~round.stale => unused[k] >= Grace - Latency

GraceInv ==
    /\ UnchangedConfig
    /\ MarkBeforeConfig
    /\ MarkVouches
    /\ DropsAreOld

-----------------------------------------------------------------------------
(* The grace period is honoured.                                           *)

(* There is no mark and no round to begin with.                            *)
LEMMA GraceInit == Init => GraceInv
BY DEF Init, GraceInv, UnchangedConfig, MarkBeforeConfig, MarkVouches, DropsAreOld

(* Steps that touch neither the objects, the ages nor the round, or end it. *)
LEMMA GraceQuiet ==
    ASSUME GraceInv, UNCHANGED <<assets, config, unused, mark>>,
           round' = round \/ round' = Idle
    PROVE  GraceInv'
<1>1. Referenced' = Referenced
  BY DEF Referenced
<1>2. MarkVouches'
  BY <1>1 DEF GraceInv, MarkVouches
<1>3. CASE round' = Idle
  BY <1>2, <1>3 DEF GraceInv, UnchangedConfig, MarkBeforeConfig, DropsAreOld, Idle
<1>4. CASE round' = round
  BY <1>1, <1>2, <1>4 DEF GraceInv, UnchangedConfig, MarkBeforeConfig, DropsAreOld, Idle
<1> QED
  BY <1>3, <1>4

(* A round plans to drop a key only when the mark vouches for it.          *)
LEMMA GraceStart ==
    ASSUME TypeOK, PublishInv, GraceInv, StartRound
    PROVE  GraceInv'
<1>1. PICK pipes \in SUBSET wanted :
         round' = PlannedRound(pipes, Stage(assets, values, pipes))
  BY DEF StartRound
<1>2. pipes \in SUBSET Pipeline
  BY DEF TypeOK
<1>3. UNCHANGED <<assets, config, unused, mark>>
  BY DEF StartRound, cluster, status
<1>4. Referenced' = Referenced
  BY <1>3 DEF Referenced
<1>5. /\ round' # Idle /\ round'.pc = "check" /\ round'.pipes = pipes
      /\ round'.publishing <=> config # Published(pipes)
      /\ round'.stale = (cachedMark # mark)
      /\ \/ DOMAIN assets \subseteq DOMAIN round'.data
         \/ /\ config = Published(pipes) /\ cachedMark # NoMark /\ cachedMark >= Grace
            /\ DOMAIN round'.data = KeysOf(pipes)
  BY <1>1, <1>2, PlannedData
<1>6. UnchangedConfig' /\ MarkBeforeConfig'
  BY <1>3, <1>5 DEF UnchangedConfig, MarkBeforeConfig
<1>7. MarkVouches'
  BY <1>3, <1>4 DEF GraceInv, MarkVouches
<1>8. DropsAreOld'
  <2>1. SUFFICES ASSUME NEW k \in DOMAIN assets \ DOMAIN round'.data
                 PROVE  /\ ~round'.publishing
                        /\ k \notin Referenced
                        /\ cachedMark = mark => unused[k] >= Grace - Latency
    BY <1>3, <1>4, <1>5 DEF DropsAreOld
  <2>2. /\ config = Published(pipes) /\ cachedMark # NoMark /\ cachedMark >= Grace
        /\ DOMAIN round'.data = KeysOf(pipes)
    BY <1>5, <2>1
  <2>3. k \notin Referenced
    BY <2>1, <2>2 DEF Referenced, Published
  <2>4. k \in Key
    BY <2>1 DEF TypeOK, Data
  <2>5. /\ mark # NoMark => unused[k] >= mark - Latency
        /\ unused[k] \in Int /\ mark \in Int
    BY <2>2, <2>3, <2>4 DEF GraceInv, MarkVouches, TypeOK, NoMark
  <2> QED
    BY <1>5, <2>2, <2>3, <2>5, AggregatorAssumption
<1> QED
  BY <1>6, <1>7, <1>8 DEF GraceInv

(* Steps of a round that change neither the config nor the ages: those     *)
(* that write the assets change what is still to be dropped to nothing.    *)
LEMMA GracePass ==
    ASSUME TypeOK, GraceInv, UNCHANGED <<config, unused, mark>>,
           assets' = assets \/ assets' = round.data,
           round.pc \in {"check", "assets", "workload", "obsolete"}, Advance
    PROVE  GraceInv'
<1>1. round.pc \in Steps \ {"status"}
  BY DEF Steps
<1>2. Referenced' = Referenced
  BY DEF Referenced
<1>3. round.order \in Orders
  BY <1>1, AdvanceFields DEF Round
<1>4. UnchangedConfig'
  BY <1>1, AdvanceFields DEF GraceInv, UnchangedConfig
<1>5. MarkBeforeConfig'
  <2>1. round'.pc = NextStep[round.order][round.pc]
    BY <1>1, AdvanceFields
  <2>2. round'.pc # "config"
    BY <1>3, <2>1, NextStepValues DEF Orders
  <2> QED
    BY <2>2 DEF MarkBeforeConfig
<1>6. MarkVouches'
  BY <1>2 DEF GraceInv, MarkVouches
<1>7. DropsAreOld'
  BY <1>1, <1>2, AdvanceFields DEF GraceInv, DropsAreOld
<1> QED
  BY <1>4, <1>5, <1>6, <1>7 DEF GraceInv

(* The mark is set before the config is written.                           *)
LEMMA GraceStamp ==
    ASSUME TypeOK, GraceInv, StampPublishing
    PROVE  GraceInv'
<1>1. round.pc \in Steps \ {"status"} /\ Advance
  BY DEF StampPublishing, Steps
<1>2. UNCHANGED <<assets, config, unused>>
  BY DEF StampPublishing, cluster
<1>3. Referenced' = Referenced
  BY <1>2 DEF Referenced
<1>4. mark' = IF round.publishing THEN 0 ELSE mark
  BY DEF StampPublishing, PatchMark, status
<1>5. UnchangedConfig' /\ DropsAreOld'
  BY <1>1, <1>2, <1>3, AdvanceFields DEF GraceInv, UnchangedConfig, DropsAreOld
<1>6. MarkBeforeConfig'
  <2>1. round'.late >= 0 /\ round'.publishing = round.publishing
    BY <1>1, AdvanceFields, AggregatorAssumption DEF Round
  <2> QED
    BY <1>4, <2>1 DEF MarkBeforeConfig
<1>7. MarkVouches'
  <2>1. \A k \in Key : unused[k] \in Nat
    BY AggregatorAssumption DEF TypeOK
  <2> QED
    BY <1>2, <1>3, <1>4, <2>1, AggregatorAssumption DEF GraceInv, MarkVouches
<1> QED
  BY <1>5, <1>6, <1>7 DEF GraceInv

(* The config write starts the clock of the keys it stops referencing.     *)
LEMMA GraceConfig ==
    ASSUME TypeOK, GraceInv, WriteConfig
    PROVE  GraceInv'
<1>1. round.pc \in Steps \ {"status"} /\ Advance /\ round.pc = "config"
  BY DEF WriteConfig, Steps
<1>2. /\ config' = Published(round.pipes) /\ UNCHANGED <<assets, mark>>
      /\ unused' = [k \in Key |-> IF k \in Referenced \cup KeysOf(round.pipes)
                                  THEN 0 ELSE unused[k]]
  BY DEF WriteConfig, status
<1>3. round.order \in Orders /\ round.late \in 0..Latency /\ mark \in Int
      /\ \A k \in Key : unused[k] \in Nat
  BY <1>1, AdvanceFields, AggregatorAssumption DEF Round, TypeOK, NoMark
<1>4. Referenced' = KeysOf(round.pipes)
  BY <1>2 DEF Referenced, Published
<1>5. UnchangedConfig'
  BY <1>1, <1>2, AdvanceFields DEF UnchangedConfig
<1>6. MarkBeforeConfig'
  BY <1>1, <1>3, AdvanceFields, NextStepValues DEF MarkBeforeConfig, Orders
<1>7. MarkVouches'
  <2>1. SUFFICES ASSUME mark # NoMark, NEW k \in Key \ KeysOf(round.pipes)
                 PROVE  unused'[k] >= mark - Latency
    BY <1>2, <1>4 DEF MarkVouches
  <2>2. CASE k \notin Referenced
    BY <1>2, <2>1, <2>2 DEF GraceInv, MarkVouches
  <2>3. CASE k \in Referenced
    <3>1. unused'[k] = 0
      BY <1>2, <2>1, <2>3
    <3>2. round.publishing
      BY <1>1, <2>1, <2>3, AdvanceFields
         DEF GraceInv, UnchangedConfig, Referenced, Published
    <3>3. mark =< round.late
      BY <1>1, <3>2, AdvanceFields DEF GraceInv, MarkBeforeConfig
    <3> QED
      BY <1>3, <3>1, <3>3, AggregatorAssumption
  <2> QED
    BY <2>2, <2>3
<1>8. DropsAreOld'
  <2>1. SUFFICES ASSUME NEW k \in DOMAIN assets \ DOMAIN round.data
                 PROVE  /\ ~round.publishing
                        /\ k \notin Referenced'
                        /\ ~round.stale => unused'[k] >= Grace - Latency
    BY <1>1, <1>2, AdvanceFields DEF DropsAreOld
  <2>2. /\ ~round.publishing /\ k \notin Referenced
        /\ ~round.stale => unused[k] >= Grace - Latency
    BY <1>1, <2>1, AdvanceFields DEF GraceInv, DropsAreOld
  <2>3. config = Published(round.pipes)
    BY <1>1, <2>2, AdvanceFields DEF GraceInv, UnchangedConfig
  <2>4. k \notin KeysOf(round.pipes)
    BY <2>2, <2>3 DEF Referenced, Published
  <2>5. k \in Key
    BY <2>1 DEF TypeOK, Data
  <2> QED
    BY <1>2, <1>4, <2>2, <2>4, <2>5
<1> QED
  BY <1>5, <1>6, <1>7, <1>8 DEF GraceInv

(* A finished round may set the mark, never back.                          *)
LEMMA GraceFinish ==
    ASSUME TypeOK, GraceInv, FinishRound
    PROVE  GraceInv'
<1>1. round' = Idle /\ UNCHANGED <<config, unused>> /\ mark' \in {0, mark}
  BY DEF FinishRound, PatchMark, status, cluster
<1>2. \A k \in Key : unused[k] \in Nat
  BY AggregatorAssumption DEF TypeOK
<1>3. Referenced' = Referenced
  BY <1>1 DEF Referenced
<1>4. MarkVouches'
  BY <1>1, <1>2, <1>3, AggregatorAssumption DEF GraceInv, MarkVouches
<1> QED
  BY <1>1, <1>4 DEF GraceInv, UnchangedConfig, MarkBeforeConfig, DropsAreOld

(* Marks and keys grow older together, up to the grace period.             *)
LEMMA GraceTick ==
    ASSUME TypeOK, GraceInv, Tick
    PROVE  GraceInv'
<1>1. /\ UNCHANGED <<assets, config>> /\ mark' = Aged(mark)
      /\ unused' = [k \in Key |-> IF k \in Referenced THEN 0 ELSE Aged(unused[k])]
  BY DEF Tick
<1>2. Referenced' = Referenced
  BY <1>1 DEF Referenced
<1>3. mark \in NoMark..Grace /\ \A k \in Key : unused[k] \in 0..Grace
  BY DEF TypeOK
<1>4. \A k \in Key \ Referenced :
         /\ unused'[k] \in Int /\ unused'[k] >= unused[k]
         /\ unused'[k] = IF unused[k] < Grace THEN unused[k] + 1 ELSE Grace
  BY <1>1, <1>3, AggregatorAssumption DEF Aged, NoMark
<1>5. /\ mark' # NoMark => mark # NoMark
      /\ mark # NoMark => mark' = IF mark < Grace THEN mark + 1 ELSE Grace
      /\ mark' =< mark + 1
  BY <1>1, <1>3, AggregatorAssumption DEF Aged, NoMark
<1>6. MarkVouches'
  <2>1. SUFFICES ASSUME mark' # NoMark, NEW k \in Key \ Referenced
                 PROVE  unused'[k] >= mark' - Latency
    BY <1>2 DEF MarkVouches
  <2>2. unused[k] >= mark - Latency /\ unused[k] \in 0..Grace
    BY <1>3, <1>5, <2>1 DEF GraceInv, MarkVouches
  <2> QED
    BY <1>3, <1>4, <1>5, <2>1, <2>2, AggregatorAssumption DEF NoMark
<1>7. UnchangedConfig'
  BY <1>1, TickRound DEF GraceInv, UnchangedConfig, Published
<1>8. MarkBeforeConfig'
  <2>1. CASE ~Publishing
    BY <2>1, TickRound DEF MarkBeforeConfig, Publishing
  <2>2. CASE Publishing
    <3>1. mark =< round.late /\ round.late \in Int
      BY <2>2, TickRound, AggregatorAssumption
         DEF GraceInv, MarkBeforeConfig, Publishing, Round
    <3>2. mark' =< round.late + 1
      BY <1>1, <1>3, <3>1, AggregatorAssumption DEF Aged, NoMark
    <3> QED
      BY <2>2, <3>2, TickRound DEF MarkBeforeConfig
  <2> QED
    BY <2>1, <2>2
<1>9. DropsAreOld'
  <2>1. SUFFICES ASSUME round' # Idle, NEW k \in DOMAIN assets \ DOMAIN round'.data
                 PROVE  /\ ~round'.publishing
                        /\ k \notin Referenced
                        /\ ~round'.stale => unused'[k] >= Grace - Latency
    BY <1>1, <1>2 DEF DropsAreOld
  <2>2. /\ round # Idle /\ round'.data = round.data /\ round'.publishing = round.publishing
        /\ round'.stale = round.stale
    BY <2>1, TickRound
  <2>3. /\ ~round.publishing /\ k \notin Referenced
        /\ ~round.stale => unused[k] >= Grace - Latency
    BY <2>1, <2>2 DEF GraceInv, DropsAreOld
  <2>4. k \in Key
    BY <2>1 DEF TypeOK, Data
  <2> QED
    BY <1>3, <1>4, <2>2, <2>3, <2>4, AggregatorAssumption
<1> QED
  BY <1>6, <1>7, <1>8, <1>9 DEF GraceInv

(* Every action keeps the invariant.                                       *)
LEMMA GraceStep == TypeOK /\ PublishInv /\ GraceInv /\ [Next]_vars => GraceInv'
<1> SUFFICES ASSUME TypeOK, PublishInv, GraceInv, [Next]_vars PROVE GraceInv'
  OBVIOUS
<1>1. CASE ChangePipelines \/ RotateValue \/ ChangePersistence
  BY <1>1, GraceQuiet DEF ChangePipelines, RotateValue, ChangePersistence, Edit, cluster, status
<1>2. CASE StartRound
  BY <1>2, GraceStart
<1>3. CASE RejectConfig \/ RejectPersistence
  BY <1>3, GraceQuiet DEF RejectConfig, RejectPersistence, cluster, status
<1>4. CASE AcceptConfig
  BY <1>4, GracePass DEF AcceptConfig, cluster, status
<1>5. CASE WriteAssets
  BY <1>5, GracePass DEF WriteAssets, status
<1>6. CASE StampPublishing
  BY <1>6, GraceStamp
<1>7. CASE WriteConfig
  BY <1>7, GraceConfig
<1>8. CASE WriteWorkload
  BY <1>8, GracePass DEF WriteWorkload, status
<1>9. CASE DeleteObsolete
  BY <1>9, GracePass DEF DeleteObsolete, status
<1>10. CASE FinishRound
  BY <1>10, GraceFinish
<1>11. CASE FailRound \/ Restart
  BY <1>11, GraceQuiet DEF FailRound, Restart, cluster, status
<1>12. CASE Tick
  BY <1>12, GraceTick
<1>13. CASE RequeueExpires
  BY <1>13, GraceQuiet DEF RequeueExpires, cluster, status
<1>14. CASE SyncCache
  BY <1>14, GraceQuiet DEF SyncCache, cluster
<1>15. CASE UNCHANGED vars
  BY <1>15, GraceQuiet DEF vars, cluster, status
<1> QED
  BY <1>1, <1>2, <1>3, <1>4, <1>5, <1>6, <1>7, <1>8, <1>9, <1>10, <1>11, <1>12,
     <1>13, <1>14, <1>15 DEF Next, Step

(* Only the assets step drops keys, and those it drops are old if the mark *)
(* was current.                                                            *)
LEMMA DropStep ==
    ASSUME TypeOK, GraceInv, [Next]_vars
    PROVE  \A k \in Key : LeavesEarly(k) => round.stale
<1>1. CASE WriteAssets
  <2>1. round # Idle /\ assets' = round.data
    BY <1>1, AdvanceFields DEF WriteAssets, Steps
  <2>2. round.stale \in BOOLEAN /\ \A k \in Key : unused[k] \in Int
    BY <1>1, AdvanceFields DEF WriteAssets, Steps, Round, TypeOK
  <2> QED
    BY <2>1, <2>2, AggregatorAssumption DEF GraceInv, DropsAreOld, LeavesEarly
<1>2. CASE ~WriteAssets
  <2>1. assets' = assets
    BY <1>2 DEF Next, Step, vars, cluster, ChangePipelines, RotateValue,
                ChangePersistence, Edit, StartRound, RejectConfig, AcceptConfig,
                StampPublishing, WriteConfig, WriteWorkload, RejectPersistence,
                DeleteObsolete, FinishRound, FailRound, Restart, SyncCache, Tick,
                RequeueExpires
  <2> QED
    BY <2>1 DEF LeavesEarly
<1> QED
  BY <1>1, <1>2

(* A key leaves the assets Secret only when the config has not referenced  *)
(* it for the grace period, less the time between the publish mark and the *)
(* config write, however rounds fail, restart and publish in between, or   *)
(* else in a round that the cache gave a mark that had been replaced       *)
(* (SecretAssetsPruneGracePeriod, StampConfigPublishing).                  *)
THEOREM GracePeriodHonoured == Spec => GraceHonoured
<1>1. Init => PublishInv /\ GraceInv
  BY PublishInit, GraceInit
<1>2. TypeOK /\ PublishInv /\ [Next]_vars => PublishInv'
  BY PublishStep
<1>3. TypeOK /\ PublishInv /\ GraceInv /\ [Next]_vars => GraceInv'
  BY GraceStep
<1>4. TypeOK /\ GraceInv /\ [Next]_vars
        => [\A k \in Key : LeavesEarly(k) => round.stale]_vars
  BY DropStep
<1> QED
  BY <1>1, <1>2, <1>3, <1>4, TypeCorrect, PTL DEF Spec, GraceHonoured

-----------------------------------------------------------------------------
(* The safety that convergence rests on.                                   *)

(* Nothing is going on: no round, no event and no requeue will bring the   *)
(* aggregator back before somebody edits something.                        *)
Resting == round = Idle /\ ~queued /\ timer = NoTimer

(* The pipelines that a round would publish now: those of the resolved     *)
(* ones that the assets Secret has room for.                               *)
Admitted(pipes) ==
    \E target \in SUBSET wanted :
        Greedy(NoData, values, wanted, target) /\ Greedy(assets, values, target, pipes)

(* Their config is one that the build or the configcheck rejects.          *)
Rejected == \E pipes \in Invalid : Admitted(pipes)

(* They are published: the config is theirs, the assets Secret holds their *)
(* keys and no other, with the current values, and the workload of the     *)
(* right kind is alone and mounts it iff there is something in it.         *)
PublishedExactly(pipes) ==
    /\ persistence # "invalid"
    /\ config = Published(pipes)
    /\ assets = Stage(NoData, values, pipes)
    /\ \A k \in Kind :
          workload[k] = IF k = KindOf(persistence) THEN Template(assets) ELSE "absent"

(* The aggregator never rests too early.                                   *)
NeverStuck ==
    Resting => Rejected \/ \E pipes \in SUBSET Pipeline : Admitted(pipes) /\ PublishedExactly(pipes)

(* The writes a round has behind it, in its order.                         *)
AssetsDone ==
    \/ round.pc = "status"
    \/ round.order # "losing" /\ round.pc \notin {"check", "assets"}

ConfigDone ==
    \/ round.pc = "status"
    \/ round.order # "gaining" /\ round.pc \in {"workload", "obsolete"}
    \/ round.order = "losing" /\ round.pc = "assets"

WorkloadDone ==
    \/ round.pc \in {"obsolete", "status"}
    \/ round.order = "gaining" /\ round.pc \in {"stamp", "config"}
    \/ round.order = "losing" /\ round.pc = "assets"

(* While no event has come in, a round works on what is still the case.    *)
PlanCurrent ==
    /\ round.persistence = persistence
    /\ round.obsolete <=> workload[OtherKind(KindOf(persistence))] # "absent"
    /\ Admitted(round.pipes)
    /\ \/ config # Published(round.pipes)
       \/ round.data = Stage(NoData, values, round.pipes)
       \/ round.requeue > 0

(* And what it has written so far had been there before: a write that      *)
(* changes an object comes back as an event.                               *)
NothingChanged ==
    /\ AssetsDone => assets = round.data
    /\ ConfigDone => config = Published(round.pipes)
    /\ WorkloadDone =>
          /\ round.persistence # "invalid"
          /\ workload[KindOf(round.persistence)] = Template(round.data)
          /\ round.pc # "obsolete" => workload[OtherKind(KindOf(round.persistence))] = "absent"

QuietRound == round # Idle /\ ~queued => PlanCurrent /\ NothingChanged

RestInv == NeverStuck /\ QuietRound

(* What the three look at.                                                 *)
LEMMA AdmittedStays ==
    ASSUME UNCHANGED <<inputs, assets, config, workload>>
    PROVE  /\ \A pipes : Admitted(pipes) <=> (\E target \in SUBSET wanted' :
                            /\ Greedy(NoData, values', wanted', target)
                            /\ Greedy(assets', values', target, pipes))
           /\ Rejected => Rejected'
           /\ NeverStuck /\ (Resting' => Resting) => NeverStuck'
<1>1. UNCHANGED <<wanted, values, persistence>>
  BY DEF inputs
<1>2. \A pipes : Admitted(pipes) <=> (\E target \in SUBSET wanted' :
                    /\ Greedy(NoData, values', wanted', target)
                    /\ Greedy(assets', values', target, pipes))
  BY <1>1 DEF Admitted
<1>3. Rejected => Rejected'
  BY <1>1 DEF Rejected, Admitted
<1>4. NeverStuck /\ (Resting' => Resting) => NeverStuck'
  BY <1>1, <1>3 DEF NeverStuck, Admitted, PublishedExactly
<1> QED
  BY <1>2, <1>3, <1>4

LEMMA RestInit == Init => RestInv
BY DEF Init, RestInv, NeverStuck, Resting, QuietRound

(* A round starts from what is the case.                                   *)
LEMMA RestStart ==
    ASSUME TypeOK, StartRound
    PROVE  round' # Idle /\ PlanCurrent' /\ NothingChanged'
<1>1. UNCHANGED <<wanted, values, persistence, assets, config, workload>>
  BY DEF StartRound, inputs, cluster
<1>2. PICK target \in SUBSET wanted : \E bridge \in SUBSET target :
         /\ Greedy(NoData, values, wanted, target)
         /\ Greedy(assets, values, target, bridge)
         /\ round' = PlannedRound(bridge, Stage(assets, values, bridge))
  BY DEF StartRound
<1>3. PICK bridge \in SUBSET target :
         /\ Greedy(NoData, values, wanted, target)
         /\ Greedy(assets, values, target, bridge)
         /\ round' = PlannedRound(bridge, Stage(assets, values, bridge))
  BY <1>2
<1> DEFINE exact == Stage(NoData, values, bridge)
           unchanged == config = Published(bridge)
           wouldDrop == WouldDropAKey(assets, exact)
<1>4. /\ round'.pc = "check" /\ round'.pipes = bridge /\ round'.persistence = persistence
      /\ round'.data = IF ~wouldDrop \/ MayPrune(unchanged) THEN exact
                       ELSE Stage(assets, values, bridge)
      /\ round'.order = WriteOrder(round'.data)
      /\ round'.obsolete = (OtherKind(KindOf(persistence)) \in Live)
      /\ round'.requeue = IF wouldDrop THEN RequeueAfter(unchanged) ELSE 0
      /\ round' # Idle
  BY <1>3 DEF PlannedRound, Idle
<1>5. Admitted(round.pipes)'
  BY <1>1, <1>3, <1>4 DEF Admitted
<1>6. unchanged /\ ~MayPrune(unchanged) => RequeueAfter(unchanged) > 0
  <2>1. cachedMark \in NoMark..Grace /\ Grace \in Nat /\ Grace > 0
    BY AggregatorAssumption DEF TypeOK
  <2> HIDE DEF unchanged
  <2> QED
    BY <2>1 DEF MayPrune, RequeueAfter, NoMark
<1>7. \/ config' # Published(round'.pipes)
      \/ round'.data = Stage(NoData, values', round'.pipes)
      \/ round'.requeue > 0
  <2>1. CASE ~unchanged
    BY <1>1, <1>4, <2>1
  <2>2. CASE unchanged /\ (~wouldDrop \/ MayPrune(unchanged))
    BY <1>1, <1>4, <2>2
  <2>3. CASE unchanged /\ wouldDrop /\ ~MayPrune(unchanged)
    BY <1>4, <1>6, <2>3
  <2> QED
    BY <2>1, <2>2, <2>3
<1>8. round'.obsolete <=> workload'[OtherKind(KindOf(persistence'))] # "absent"
  BY <1>1, <1>4, KindFacts DEF Live
<1>9. PlanCurrent'
  BY <1>1, <1>4, <1>5, <1>7, <1>8 DEF PlanCurrent
<1>10. NothingChanged'
  <2>1. round'.order \in Orders
    BY <1>4 DEF WriteOrder, Orders
  <2>2. ~AssetsDone' /\ ~ConfigDone' /\ ~WorkloadDone'
    BY <1>4, <2>1 DEF AssetsDone, ConfigDone, WorkloadDone, Orders
  <2> QED
    BY <2>2 DEF NothingChanged
<1> QED
  BY <1>4, <1>9, <1>10

(* A plan stays current while nothing it was made from changes.            *)
LEMMA PlanStays ==
    ASSUME UNCHANGED <<inputs, assets, config, workload>>,
           round'.persistence = round.persistence, round'.obsolete = round.obsolete,
           round'.pipes = round.pipes, round'.data = round.data,
           round'.requeue = round.requeue, PlanCurrent
    PROVE  PlanCurrent'
<1>1. UNCHANGED <<wanted, values, persistence>>
  BY DEF inputs
<1>2. Admitted(round.pipes)'
  BY <1>1 DEF PlanCurrent, Admitted
<1> QED
  BY <1>1, <1>2 DEF PlanCurrent

(* A step of a round that changes nothing takes the round on.              *)
LEMMA RestAdvance ==
    ASSUME TypeOK, QuietRound, ~queued, round.pc \in Steps \ {"status"}, Advance,
           UNCHANGED <<inputs, assets, config, workload>>,
           round.pc = "assets" => assets = round.data,
           round.pc = "config" => config = Published(round.pipes),
           round.pc = "workload" =>
              /\ round.persistence # "invalid"
              /\ workload[KindOf(round.persistence)] = Template(round.data),
           round.pc = "obsolete" =>
              workload[OtherKind(KindOf(round.persistence))] = "absent"
    PROVE  PlanCurrent' /\ NothingChanged'
<1>1. /\ round # Idle /\ round.order \in Orders
      /\ round'.order = round.order /\ round'.data = round.data
      /\ round'.pipes = round.pipes /\ round'.pc = NextStep[round.order][round.pc]
      /\ round'.persistence = round.persistence /\ round'.obsolete = round.obsolete
      /\ round'.requeue = round.requeue
  BY AdvanceFields DEF Round
<1>2. PlanCurrent /\ NothingChanged
  BY <1>1 DEF QuietRound
<1>3. PlanCurrent'
  BY <1>1, <1>2, PlanStays
<1>4. AssetsDone' => AssetsDone \/ round.pc = "assets"
  BY <1>1, NextStepValues DEF AssetsDone, Orders, Steps
<1>5. ConfigDone' => ConfigDone \/ round.pc = "config"
  BY <1>1, NextStepValues DEF ConfigDone, Orders, Steps
<1>6. /\ WorkloadDone' => WorkloadDone \/ round.pc = "workload"
      /\ round.pc = "workload" => round'.pc = "obsolete"
  BY <1>1, NextStepValues DEF WorkloadDone, Orders, Steps
<1>7. /\ AssetsDone' => assets = round.data
      /\ ConfigDone' => config = Published(round.pipes)
  BY <1>2, <1>4, <1>5 DEF NothingChanged
<1>8. WorkloadDone' =>
        /\ round.persistence # "invalid"
        /\ workload[KindOf(round.persistence)] = Template(round.data)
        /\ round'.pc # "obsolete" => workload[OtherKind(KindOf(round.persistence))] = "absent"
  BY <1>2, <1>6 DEF NothingChanged
<1>9. NothingChanged'
  BY <1>1, <1>7, <1>8 DEF NothingChanged
<1> QED
  BY <1>3, <1>9

LEMMA RestStep == TypeOK /\ RestInv /\ [Next]_vars => RestInv'
<1> SUFFICES ASSUME TypeOK, RestInv, [Next]_vars PROVE RestInv'
  OBVIOUS
<1>0. ASSUME queued' PROVE RestInv'
  BY <1>0 DEF RestInv, NeverStuck, Resting, QuietRound
<1>2. ASSUME ~queued', ~queued, round.pc \in Steps \ {"status"}, Advance,
             UNCHANGED <<inputs, assets, config, workload>>,
             round.pc = "assets" => assets = round.data,
             round.pc = "config" => config = Published(round.pipes),
             round.pc = "workload" =>
                /\ round.persistence # "invalid"
                /\ workload[KindOf(round.persistence)] = Template(round.data),
             round.pc = "obsolete" =>
                workload[OtherKind(KindOf(round.persistence))] = "absent"
      PROVE  RestInv'
  <2>1. round' # Idle
    BY <1>2, AdvanceFields
  <2>2. PlanCurrent' /\ NothingChanged'
    BY <1>2, RestAdvance DEF RestInv
  <2> QED
    BY <2>1, <2>2 DEF RestInv, NeverStuck, Resting, QuietRound
<1>3. CASE StartRound
  BY <1>3, RestStart DEF RestInv, NeverStuck, Resting, QuietRound
<1>4. CASE RejectConfig
  <2>1. /\ round.pc = "check" /\ round.pipes \in Invalid /\ round' = Idle
        /\ UNCHANGED <<inputs, assets, config, workload, queued>>
    BY <1>4 DEF RejectConfig, cluster
  <2>2. ~queued => Rejected
    BY <2>1 DEF RestInv, QuietRound, PlanCurrent, Idle, Rejected
  <2>3. ~queued => Rejected'
    BY <2>1, <2>2, AdmittedStays
  <2> QED
    BY <2>1, <2>3 DEF RestInv, NeverStuck, Resting, QuietRound
<1>5. CASE AcceptConfig \/ StampPublishing
  <2>1. /\ Advance /\ round.pc \in {"check", "stamp"}
        /\ UNCHANGED <<inputs, assets, config, workload, queued>>
    BY <1>5 DEF AcceptConfig, StampPublishing, cluster
  <2> QED
    BY <1>0, <1>2, <2>1 DEF Steps
<1>6. CASE WriteAssets
  <2>1. /\ round.pc = "assets" /\ Advance /\ assets' = round.data
        /\ queued' = (queued \/ assets # round.data)
        /\ UNCHANGED <<inputs, config, workload>>
    BY <1>6 DEF WriteAssets, Notify
  <2>2. CASE ~queued'
    BY <1>2, <2>1, <2>2 DEF Steps
  <2> QED
    BY <1>0, <2>2
<1>7. CASE WriteConfig
  <2>1. /\ round.pc = "config" /\ Advance /\ config' = Published(round.pipes)
        /\ queued' = (queued \/ config # config')
        /\ UNCHANGED <<inputs, assets, workload>>
    BY <1>7 DEF WriteConfig, Notify
  <2>2. CASE ~queued'
    BY <1>2, <2>1, <2>2 DEF Steps
  <2> QED
    BY <1>0, <2>2
<1>8. CASE WriteWorkload
  <2> DEFINE kind == KindOf(round.persistence)
             new == Template(round.data)
  <2>1. /\ round.pc = "workload" /\ round.persistence # "invalid" /\ Advance
        /\ workload' = [workload EXCEPT ![kind] = new]
        /\ queued' = (queued \/ workload[kind] # new)
        /\ UNCHANGED <<inputs, assets, config>>
    BY <1>8 DEF WriteWorkload, Notify
  <2>2. CASE ~queued'
    <3>1. workload[kind] = new /\ ~queued
      BY <2>1, <2>2
    <3>2. workload' = workload
      BY <2>1, <3>1 DEF TypeOK
    <3> QED
      BY <1>2, <2>1, <2>2, <3>1, <3>2 DEF Steps
  <2> QED
    BY <1>0, <2>2
<1>9. CASE DeleteObsolete
  <2> DEFINE kind == OtherKind(KindOf(round.persistence))
  <2>1. /\ round.pc = "obsolete" /\ Advance
        /\ IF round.obsolete
           THEN /\ workload' = [workload EXCEPT ![kind] = "absent"]
                /\ queued' = (queued \/ workload[kind] # "absent")
           ELSE UNCHANGED <<workload, queued>>
        /\ UNCHANGED <<inputs, assets, config>>
    BY <1>9 DEF DeleteObsolete, Notify
  <2>2. CASE ~queued'
    <3>1. ~queued
      BY <2>1, <2>2
    <3>2. round.obsolete <=> workload[kind] # "absent"
      BY <2>1, <3>1 DEF RestInv, QuietRound, PlanCurrent, Idle
    <3>3. workload[kind] = "absent" /\ workload' = workload
      BY <2>1, <2>2, <3>2
    <3> QED
      BY <1>2, <2>1, <2>2, <3>1, <3>3 DEF Steps
  <2> QED
    BY <1>0, <2>2
<1>10. CASE FinishRound
  <2>1. /\ round.pc = "status" /\ round' = Idle
        /\ timer' = IF round.requeue = 0 THEN timer
                    ELSE IF timer = NoTimer \/ round.requeue < timer THEN round.requeue
                    ELSE timer
        /\ UNCHANGED <<inputs, assets, config, workload, queued>>
    BY <1>10 DEF FinishRound, cluster
  <2>2. ASSUME ~queued, timer' = NoTimer
        PROVE  Admitted(round.pipes) /\ PublishedExactly(round.pipes)
               /\ round.pipes \in SUBSET Pipeline
    <3>1. /\ round.requeue \in 0..Grace /\ timer \in NoTimer..Grace /\ Grace \in Nat
          /\ round.pipes \in SUBSET Pipeline
      BY <2>1, AggregatorAssumption DEF TypeOK, Round, Idle
    <3>2. ~(round.requeue > 0)
      BY <2>1, <2>2, <3>1 DEF NoTimer
    <3>3. PlanCurrent /\ NothingChanged
      BY <2>1, <2>2 DEF RestInv, QuietRound, Idle
    <3>4. /\ assets = round.data /\ config = Published(round.pipes)
          /\ persistence # "invalid"
          /\ workload[KindOf(persistence)] = Template(assets)
          /\ workload[OtherKind(KindOf(persistence))] = "absent"
      BY <2>1, <3>3 DEF PlanCurrent, NothingChanged, AssetsDone, ConfigDone, WorkloadDone
    <3>5. assets = Stage(NoData, values, round.pipes)
      BY <3>2, <3>3, <3>4 DEF PlanCurrent
    <3>6. PublishedExactly(round.pipes)
      BY <3>4, <3>5, KindFacts DEF PublishedExactly
    <3> QED
      BY <3>1, <3>3, <3>6 DEF PlanCurrent
  <2>3. NeverStuck'
    BY <2>1, <2>2 DEF NeverStuck, Resting, Admitted, PublishedExactly, inputs
  <2> QED
    BY <2>1, <2>3 DEF RestInv, QuietRound
<1>11. CASE Tick
  <2>1. UNCHANGED <<inputs, assets, config, workload, queued>>
    BY <1>11 DEF Tick
  <2>2. timer' = NoTimer => timer = NoTimer
    <3>1. timer \in NoTimer..Grace /\ Grace \in Nat
      BY AggregatorAssumption DEF TypeOK
    <3> QED
      BY <1>11, <3>1 DEF Tick, NoTimer
  <2>3. round' = Idle <=> round = Idle
    BY <1>11, TickRound
  <2>4. NeverStuck'
    BY <2>1, <2>2, <2>3, AdmittedStays DEF RestInv, Resting
  <2>5. ASSUME round # Idle, ~queued PROVE PlanCurrent' /\ NothingChanged'
    <3>1. PlanCurrent /\ NothingChanged
      BY <2>5 DEF RestInv, QuietRound
    <3>2. /\ round'.pc = round.pc /\ round'.order = round.order /\ round'.data = round.data
          /\ round'.pipes = round.pipes /\ round'.persistence = round.persistence
          /\ round'.obsolete = round.obsolete /\ round'.requeue = round.requeue
      BY <1>11, TickRound
    <3>3. PlanCurrent'
      BY <2>1, <3>1, <3>2, PlanStays
    <3>4. NothingChanged'
      BY <2>1, <3>1, <3>2 DEF NothingChanged, AssetsDone, ConfigDone, WorkloadDone
    <3> QED
      BY <3>3, <3>4
  <2> QED
    BY <2>1, <2>3, <2>4, <2>5 DEF RestInv, QuietRound
<1>12. CASE ChangePipelines \/ RotateValue \/ ChangePersistence \/ RejectPersistence
            \/ FailRound \/ Restart \/ RequeueExpires
  BY <1>0, <1>12 DEF ChangePipelines, RotateValue, ChangePersistence, Edit, RejectPersistence,
                     FailRound, Restart, RequeueExpires
<1>13. CASE SyncCache \/ UNCHANGED vars
  <2>1. UNCHANGED <<inputs, assets, config, workload, queued, timer, round>>
    BY <1>13 DEF vars, SyncCache, cluster
  <2>2. NeverStuck'
    BY <2>1, AdmittedStays DEF RestInv, Resting
  <2>3. ASSUME round # Idle, ~queued PROVE PlanCurrent' /\ NothingChanged'
    <3>1. PlanCurrent /\ NothingChanged
      BY <2>3 DEF RestInv, QuietRound
    <3>2. PlanCurrent'
      BY <2>1, <3>1, PlanStays
    <3>3. NothingChanged'
      BY <2>1, <3>1 DEF NothingChanged, AssetsDone, ConfigDone, WorkloadDone
    <3> QED
      BY <3>2, <3>3
  <2> QED
    BY <2>1, <2>2, <2>3 DEF RestInv, QuietRound
<1> QED
  BY <1>3, <1>4, <1>5, <1>6, <1>7, <1>8, <1>9, <1>10, <1>11, <1>12, <1>13 DEF Next, Step

(* The safety half of convergence, for any pipelines, budgets, values of   *)
(* persistence, failed writes and restarts: an aggregator that waits for   *)
(* no event and no requeue has published the pipelines there is room for,  *)
(* with exactly their keys and with one workload, of the right kind, or    *)
(* has had them rejected.  No key, no workload of the other kind and no    *)
(* invalid persistence is left without a wakeup on its way (the requeue of *)
(* secretAssetsPruneDecision, the watch events of the owned objects).      *)
THEOREM RestsOnlyWhenPublished == Spec => []NeverStuck
<1>1. RestInv => NeverStuck
  BY DEF RestInv
<1> QED
  BY <1>1, RestInit, RestStep, TypeCorrect, PTL DEF Spec

=============================================================================
