--------------------------- MODULE Debounce_proofs ---------------------------
(***************************************************************************)
(* No wakeup is lost between the verdict on a pipeline and the rounds of   *)
(* the workloads, for any number of pipelines and workloads and for        *)
(* channels of any capacity.                                               *)
(***************************************************************************)
EXTENDS Debounce, TLAPS

(* A workload has a round exactly when the worker is busy with one.        *)
RoundOK == round.of = Absent => round = NoRound

(* The inductive invariant: NoLostWakeup needs to know that a round in     *)
(* progress is the round of a workload, or FinishRound would not tell      *)
(* whose config it replaces.                                               *)
Inv == TypeOK /\ RoundOK /\ NoLostWakeup

-----------------------------------------------------------------------------
(* Channels.                                                               *)

LEMMA ToSetAppend ==
    ASSUME NEW S, NEW s \in Seq(S), NEW k \in S
    PROVE  /\ Append(s, k) \in Seq(S)
           /\ Len(Append(s, k)) = Len(s) + 1
           /\ ToSet(Append(s, k)) = ToSet(s) \cup {k}
<1>1. /\ Append(s, k) \in Seq(S)
      /\ Len(s) \in Nat /\ Len(Append(s, k)) = Len(s) + 1
      /\ \A i \in 1..Len(s) : Append(s, k)[i] = s[i]
      /\ Append(s, k)[Len(s) + 1] = k
      /\ DOMAIN s = 1..Len(s) /\ DOMAIN Append(s, k) = 1..(Len(s) + 1)
  OBVIOUS
<1>2. ToSet(Append(s, k)) = {Append(s, k)[i] : i \in 1..(Len(s) + 1)}
  BY <1>1 DEF ToSet
<1>3. ToSet(s) = {s[i] : i \in 1..Len(s)}
  BY <1>1 DEF ToSet
<1> QED BY <1>1, <1>2, <1>3

LEMMA ToSetTail ==
    ASSUME NEW S, NEW s \in Seq(S), s # <<>>
    PROVE  /\ Head(s) \in S /\ Tail(s) \in Seq(S)
           /\ Len(Tail(s)) = Len(s) - 1
           /\ ToSet(s) = ToSet(Tail(s)) \cup {Head(s)}
<1>1. /\ Head(s) \in S /\ Tail(s) \in Seq(S)
      /\ Len(s) \in Nat \ {0} /\ Len(Tail(s)) = Len(s) - 1
      /\ Head(s) = s[1]
      /\ \A i \in 1..Len(Tail(s)) : Tail(s)[i] = s[i + 1]
  OBVIOUS
<1>2. /\ DOMAIN s = 1..Len(s) /\ DOMAIN Tail(s) = 1..Len(Tail(s))
  OBVIOUS
<1>3. ToSet(s) \subseteq ToSet(Tail(s)) \cup {Head(s)}
  <2> SUFFICES ASSUME NEW i \in 1..Len(s)
               PROVE  s[i] \in ToSet(Tail(s)) \cup {Head(s)}
    BY <1>2 DEF ToSet
  <2>1. CASE i = 1
    BY <2>1, <1>1
  <2>2. CASE i # 1
    <3>1. i - 1 \in 1..Len(Tail(s)) /\ Tail(s)[i - 1] = s[i]
      BY <2>2, <1>1
    <3> QED BY <3>1, <1>2 DEF ToSet
  <2> QED BY <2>1, <2>2
<1>4. ToSet(Tail(s)) \cup {Head(s)} \subseteq ToSet(s)
  <2>1. Head(s) \in ToSet(s)
    BY <1>1, <1>2 DEF ToSet
  <2>2. ASSUME NEW i \in 1..Len(Tail(s))
        PROVE  Tail(s)[i] \in ToSet(s)
    <3>1. i + 1 \in 1..Len(s) /\ Tail(s)[i] = s[i + 1]
      BY <1>1
    <3> QED BY <3>1, <1>2 DEF ToSet
  <2> QED BY <2>1, <2>2, <1>2 DEF ToSet
<1> QED BY <1>1, <1>3, <1>4

-----------------------------------------------------------------------------
(* Type correctness.                                                       *)

LEMMA TypeInit == Init => TypeOK
BY DebounceAssumption DEF Init, TypeOK, Content, Worker, Idle, NoRound, Round, Absent

LEMMA TypeStep == TypeOK /\ RoundOK /\ [Next]_vars => TypeOK'
<1> SUFFICES ASSUME TypeOK, RoundOK, [Next]_vars PROVE TypeOK'
  OBVIOUS
<1> USE DebounceAssumption DEF TypeOK, Content, Absent
<1>1. ASSUME NEW p \in Pipeline, Edit(p) PROVE TypeOK'
  BY <1>1 DEF Edit, lane
<1>2. ASSUME NEW p \in Pipeline, Delete(p) PROVE TypeOK'
  BY <1>2 DEF Delete, lane
<1>3. ASSUME NEW k \in Workload, CreateWorkload(k) PROVE TypeOK'
  BY <1>3 DEF CreateWorkload, lane, pipes
<1>4. ASSUME NEW p \in Pipeline, StartReconcile(p) PROVE TypeOK'
  BY <1>4 DEF StartReconcile, lane, Worker, Idle, Sending
<1>5. ASSUME NEW p \in Pipeline, Accept(p) PROVE TypeOK'
  BY <1>5 DEF Accept, lane, Worker, Sending
<1>6. ASSUME NEW p \in Pipeline, Reject(p) PROVE TypeOK'
  BY <1>6 DEF Reject, lane, Worker, Idle
<1>7. ASSUME NEW p \in Pipeline, PatchFails(p) PROVE TypeOK'
  BY <1>7 DEF PatchFails, lane, Worker, Idle
<1>8. ASSUME NEW p \in Pipeline, Send(p) PROVE TypeOK'
  <2>1. PICK k \in worker[p].todo :
            /\ in' = Append(in, k)
            /\ worker' = [worker EXCEPT ![p] =
                            IF @.todo = {k} THEN Idle ELSE Sending(@.todo \ {k})]
    BY <1>8 DEF Send
  <2>2. k \in Workload
    BY <2>1 DEF Worker
  <2>3. in' \in Seq(Workload) /\ Len(in') <= InCapacity
    <3>1. Len(in) \in Nat /\ Len(in) < InCapacity
      BY <1>8 DEF Send
    <3>2. in' \in Seq(Workload) /\ Len(in') = Len(in) + 1
      BY <2>1, <2>2, ToSetAppend
    <3> QED BY <3>1, <3>2
  <2>4. worker' \in [Pipeline -> Worker]
    BY <2>1, <2>2 DEF Worker, Idle, Sending
  <2> QED BY <1>8, <2>3, <2>4 DEF Send
<1>9. ASSUME Receive PROVE TypeOK'
  <2>1. Head(in) \in Workload /\ in' \in Seq(Workload) /\ Len(in') <= InCapacity
    BY <1>9, ToSetTail DEF Receive
  <2> QED BY <1>9, <2>1 DEF Receive, pipes
<1>10. ASSUME TickerFires PROVE TypeOK'
  BY <1>10 DEF TickerFires, pipes
<1>11. ASSUME Flush PROVE TypeOK'
  <2>1. PICK k \in store :
            /\ out' = Append(out, k)
            /\ store' = store \ {k}
            /\ phase' = IF store = {k} THEN "select" ELSE "flush"
    BY <1>11 DEF Flush
  <2>2. out' \in Seq(Workload) /\ Len(out') <= OutCapacity
    BY <2>1, <1>11, ToSetAppend DEF Flush
  <2> QED BY <1>11, <2>1, <2>2 DEF Flush, pipes
<1>12. ASSUME Enqueue PROVE TypeOK'
  <2>1. Head(out) \in Workload /\ out' \in Seq(Workload) /\ Len(out') <= OutCapacity
    BY <1>12, ToSetTail DEF Enqueue
  <2> QED BY <1>12, <2>1 DEF Enqueue, pipes
<1>13. ASSUME NEW k \in Workload, StartRound(k) PROVE TypeOK'
  BY <1>13 DEF StartRound, lane, pipes, Round, Valid
<1>14. ASSUME FinishRound PROVE TypeOK'
  BY <1>14 DEF FinishRound, lane, pipes, Round, NoRound
<1>15. ASSUME FailRound PROVE TypeOK'
  BY <1>15 DEF FailRound, lane, pipes, Round, NoRound, RoundOK
<1>16. ASSUME Restart PROVE TypeOK'
  BY <1>16 DEF Restart, Worker, Idle, Round, NoRound
<1>17. ASSUME UNCHANGED vars PROVE TypeOK'
  BY <1>17 DEF vars, lane, pipes
<1> QED
  BY <1>1, <1>2, <1>3, <1>4, <1>5, <1>6, <1>7, <1>8, <1>9, <1>10, <1>11, <1>12,
     <1>13, <1>14, <1>15, <1>16, <1>17 DEF Next, Users, System

-----------------------------------------------------------------------------
(* No lost wakeup.                                                         *)

LEMMA RoundStep == TypeOK /\ RoundOK /\ [Next]_vars => RoundOK'
<1> SUFFICES ASSUME TypeOK, RoundOK, [Next]_vars PROVE RoundOK'
  OBVIOUS
<1>1. ASSUME NEW k \in Workload, StartRound(k) PROVE RoundOK'
  BY <1>1, DebounceAssumption DEF StartRound, RoundOK, Absent
<1>2. CASE round' = round
  BY <1>2 DEF RoundOK, NoRound
<1>3. CASE round' = NoRound
  BY <1>3 DEF RoundOK, NoRound
<1> QED
  BY <1>1, <1>2, <1>3 DEF Next, Users, System, Edit, Delete, CreateWorkload, StartReconcile,
     Accept, Reject, PatchFails, Send, Receive, TickerFires, Flush, Enqueue, FinishRound,
     FailRound, Restart, vars

(* A step that leaves verdicts, configs and rounds alone and takes nobody  *)
(* out of the hands of those who hold an event for it.                     *)
LEMMA KeepsAwaited ==
    ASSUME NoLostWakeup,
           UNCHANGED <<spec, verdict, round, built>>,
           exists' \subseteq exists \cup queue',
           missed \subseteq missed',
           \A p \in Pipeline : Told(p)' => Told(p) \/ \A k \in exists : Awaited(k)',
           \A k \in exists : Awaited(k) => Awaited(k)'
    PROVE  NoLostWakeup'
<1> SUFFICES ASSUME NEW k \in exists', NEW p \in Pipeline,
                    Told(p)', <<k, p>> \notin missed', ~UpToDate(k, p)'
             PROVE  Awaited(k)'
  BY DEF NoLostWakeup
<1>1. ~UpToDate(k, p) /\ <<k, p>> \notin missed
  BY DEF UpToDate, Vouched
<1>2. CASE k \in queue'
  BY <1>2 DEF Awaited
<1>3. CASE k \in exists
  BY <1>1, <1>3 DEF NoLostWakeup
<1> QED BY <1>2, <1>3

LEMMA WakeupStep == Inv /\ [Next]_vars => NoLostWakeup'
<1> SUFFICES ASSUME Inv, [Next]_vars PROVE NoLostWakeup'
  OBVIOUS
<1> USE DebounceAssumption DEF Inv, TypeOK
<1>1. ASSUME NEW p \in Pipeline, Edit(p) PROVE NoLostWakeup'
  <2> SUFFICES ASSUME NEW k \in exists', NEW q \in Pipeline,
                      Told(q)', <<k, q>> \notin missed', ~UpToDate(k, q)'
               PROVE  Awaited(k)'
    BY DEF NoLostWakeup
  <2>1. Told(q) /\ k \in exists /\ <<k, q>> \notin missed /\ ~UpToDate(k, q)
    BY <1>1 DEF Edit, Told, UpToDate, Vouched, Absent
  <2> QED BY <1>1, <2>1 DEF Edit, NoLostWakeup, Awaited, lane
<1>2. ASSUME NEW p \in Pipeline, Delete(p) PROVE NoLostWakeup'
  <2> SUFFICES ASSUME NEW k \in exists', NEW q \in Pipeline,
                      Told(q)', <<k, q>> \notin missed', ~UpToDate(k, q)'
               PROVE  Awaited(k)'
    BY DEF NoLostWakeup
  <2>1. q # p
    BY <1>2 DEF Delete, Told, Absent
  <2>2. Told(q) /\ k \in exists /\ <<k, q>> \notin missed /\ ~UpToDate(k, q)
    BY <1>2, <2>1 DEF Delete, Told, UpToDate, Vouched
  <2> QED BY <1>2, <2>2 DEF Delete, NoLostWakeup, Awaited, lane
<1>3. ASSUME NEW k \in Workload, CreateWorkload(k) PROVE NoLostWakeup'
  BY <1>3, KeepsAwaited DEF CreateWorkload, lane, pipes, Awaited, Told
<1>4. ASSUME NEW p \in Pipeline, StartReconcile(p) PROVE NoLostWakeup'
  <2>1. \A k \in exists : Awaited(k) => Awaited(k)'
    BY <1>4 DEF StartReconcile, Awaited, lane
  <2>2. ASSUME NEW q \in Pipeline, Told(q)', ~Told(q), NEW k \in exists
        PROVE  Awaited(k)'
    <3>1. q = p /\ spec[p] = Absent
      BY <1>4, <2>2 DEF StartReconcile, Told
    <3>2. worker'[p] = Sending(exists)
      BY <1>4, <3>1, <2>2 DEF StartReconcile
    <3> QED BY <3>2 DEF Sending, Awaited
  <2> QED BY <1>4, <2>1, <2>2, KeepsAwaited DEF StartReconcile, lane
<1>5. ASSUME NEW p \in Pipeline, Accept(p) PROVE NoLostWakeup'
  <2> SUFFICES ASSUME NEW k \in exists', NEW q \in Pipeline,
                      Told(q)', <<k, q>> \notin missed', ~UpToDate(k, q)'
               PROVE  Awaited(k)'
    BY DEF NoLostWakeup
  <2>1. worker'[p] = Sending(worker[p].todo)
    BY <1>5 DEF Accept
  <2>2. CASE q = p
    <3>1. k \in worker[p].todo
      BY <1>5, <2>2 DEF Accept
    <3> QED BY <3>1, <2>1 DEF Awaited, Sending
  <2>3. CASE q # p
    <3>1. Told(q) /\ k \in exists /\ <<k, q>> \notin missed /\ ~UpToDate(k, q)
      BY <1>5, <2>3 DEF Accept, Told, UpToDate, Vouched
    <3>2. Awaited(k)
      BY <3>1 DEF NoLostWakeup
    <3> QED BY <1>5, <3>2 DEF Accept, Awaited, lane
  <2> QED BY <2>2, <2>3
<1>6. ASSUME NEW p \in Pipeline, Reject(p) PROVE NoLostWakeup'
  <2> SUFFICES ASSUME NEW k \in exists', NEW q \in Pipeline,
                      Told(q)', <<k, q>> \notin missed', ~UpToDate(k, q)'
               PROVE  Awaited(k)'
    BY DEF NoLostWakeup
  <2>1. q # p
    BY <1>6 DEF Reject, Told
  <2>2. Told(q) /\ k \in exists /\ <<k, q>> \notin missed /\ ~UpToDate(k, q)
    BY <1>6, <2>1 DEF Reject, Told, UpToDate, Vouched
  <2>3. Awaited(k)
    BY <2>2 DEF NoLostWakeup
  <2> QED BY <1>6, <2>3 DEF Reject, Awaited, lane
<1>7. ASSUME NEW p \in Pipeline, PatchFails(p) PROVE NoLostWakeup'
  <2>1. \A k \in exists : Awaited(k) => Awaited(k)'
    BY <1>7 DEF PatchFails, Awaited, lane
  <2>2. \A q \in Pipeline : Told(q)' => Told(q)
    BY <1>7 DEF PatchFails, Told
  <2> QED BY <1>7, <2>1, <2>2, KeepsAwaited DEF PatchFails
<1>8. ASSUME NEW p \in Pipeline, Send(p) PROVE NoLostWakeup'
  <2>1. PICK k \in worker[p].todo :
            /\ in' = Append(in, k)
            /\ worker' = [worker EXCEPT ![p] =
                            IF @.todo = {k} THEN Idle ELSE Sending(@.todo \ {k})]
    BY <1>8 DEF Send
  <2>2. k \in Workload
    BY DEF Worker
  <2>3. ToSet(in') = ToSet(in) \cup {k}
    BY <2>1, <2>2, ToSetAppend
  <2>4. ASSUME NEW j \in exists, Awaited(j) PROVE Awaited(j)'
    <3>1. CASE j = k
      BY <3>1, <2>3 DEF Awaited
    <3>2. CASE j # k
      BY <3>2, <2>1, <2>3, <2>4, <1>8 DEF Awaited, Send, Sending
    <3> QED BY <3>1, <3>2
  <2> QED BY <1>8, <2>4, KeepsAwaited DEF Send, Told
<1>9. ASSUME Receive PROVE NoLostWakeup'
  <2>1. ToSet(in) = ToSet(in') \cup {Head(in)}
    BY <1>9, ToSetTail DEF Receive
  <2>2. \A k \in exists : Awaited(k) => Awaited(k)'
    BY <1>9, <2>1 DEF Receive, Awaited, pipes
  <2> QED BY <1>9, <2>2, KeepsAwaited DEF Receive, pipes, Told
<1>10. ASSUME TickerFires PROVE NoLostWakeup'
  BY <1>10, KeepsAwaited DEF TickerFires, pipes, Told, Awaited
<1>11. ASSUME Flush PROVE NoLostWakeup'
  <2>1. PICK k \in store : out' = Append(out, k) /\ store' = store \ {k}
    BY <1>11 DEF Flush
  <2>2. ToSet(out') = ToSet(out) \cup {k}
    BY <2>1, ToSetAppend
  <2>3. \A j \in exists : Awaited(j) => Awaited(j)'
    BY <1>11, <2>1, <2>2 DEF Flush, Awaited, pipes
  <2> QED BY <1>11, <2>3, KeepsAwaited DEF Flush, pipes, Told
<1>12. ASSUME Enqueue PROVE NoLostWakeup'
  <2>1. ToSet(out) = ToSet(out') \cup {Head(out)}
    BY <1>12, ToSetTail DEF Enqueue
  <2>2. \A k \in exists : Awaited(k) => Awaited(k)'
    BY <1>12, <2>1 DEF Enqueue, Awaited, pipes
  <2> QED BY <1>12, <2>2, KeepsAwaited DEF Enqueue, pipes, Told
<1>13. ASSUME NEW k \in Workload, StartRound(k) PROVE NoLostWakeup'
  <2> SUFFICES ASSUME NEW j \in exists', NEW q \in Pipeline,
                      Told(q)', <<j, q>> \notin missed', ~UpToDate(j, q)'
               PROVE  Awaited(j)'
    BY DEF NoLostWakeup
  <2>1. j # k
    <3> SUFFICES ASSUME j = k PROVE FALSE
      OBVIOUS
    <3>1. round' = [of |-> k, read |-> [r \in Pipeline |-> Valid(r)]]
      BY <1>13 DEF StartRound
    <3>2. Valid(q) = Vouched(q)
      BY <1>13 DEF StartRound
    <3>3. Vouched(q)' = Vouched(q)
      BY <1>13 DEF StartRound, Vouched, pipes
    <3> QED BY <3>1, <3>2, <3>3 DEF UpToDate
  <2>2. Told(q) /\ j \in exists /\ <<j, q>> \notin missed
    BY <1>13, <2>1 DEF StartRound, Told, pipes
  <2>3. ~UpToDate(j, q)
    BY <1>13, <2>1, <2>2 DEF StartRound, UpToDate, Vouched, pipes, NoRound, Absent
  <2>4. Awaited(j)
    BY <2>2, <2>3 DEF NoLostWakeup
  <2> QED BY <1>13, <2>1, <2>4 DEF StartRound, Awaited, pipes, lane
<1>14. ASSUME FinishRound PROVE NoLostWakeup'
  <2> SUFFICES ASSUME NEW j \in exists', NEW q \in Pipeline,
                      Told(q)', <<j, q>> \notin missed', ~UpToDate(j, q)'
               PROVE  Awaited(j)'
    BY DEF NoLostWakeup
  <2>1. round.of \in Workload
    BY <1>14 DEF FinishRound, RoundOK, Round
  <2>2. j \in Workload /\ j # Absent
    BY <1>14 DEF FinishRound, Absent
  <2>3. Told(q) /\ j \in exists /\ <<j, q>> \notin missed /\ ~UpToDate(j, q)
    BY <1>14, <2>1, <2>2 DEF FinishRound, Told, UpToDate, Vouched, pipes, NoRound
  <2>4. Awaited(j)
    BY <2>3 DEF NoLostWakeup
  <2> QED BY <1>14, <2>4 DEF FinishRound, Awaited, pipes, lane
<1>15. ASSUME FailRound PROVE NoLostWakeup'
  <2> SUFFICES ASSUME NEW j \in exists', NEW q \in Pipeline,
                      Told(q)', <<j, q>> \notin missed', ~UpToDate(j, q)'
               PROVE  Awaited(j)'
    BY DEF NoLostWakeup
  <2>1. CASE j = round.of
    BY <1>15, <2>1 DEF FailRound, Awaited
  <2>2. CASE j # round.of
    <3>1. j # Absent
      BY <1>15 DEF FailRound, Absent
    <3>2. Told(q) /\ j \in exists /\ <<j, q>> \notin missed /\ ~UpToDate(j, q)
      BY <1>15, <2>2, <3>1 DEF FailRound, Told, UpToDate, Vouched, pipes, NoRound
    <3>3. Awaited(j)
      BY <3>2 DEF NoLostWakeup
    <3> QED BY <1>15, <3>3 DEF FailRound, Awaited, pipes, lane
  <2> QED BY <2>1, <2>2
<1>16. ASSUME Restart PROVE NoLostWakeup'
  BY <1>16 DEF Restart, NoLostWakeup, Awaited
<1>17. ASSUME UNCHANGED vars PROVE NoLostWakeup'
  BY <1>17, KeepsAwaited DEF vars, lane, pipes, Told, Awaited
<1> QED
  BY <1>1, <1>2, <1>3, <1>4, <1>5, <1>6, <1>7, <1>8, <1>9, <1>10, <1>11, <1>12,
     <1>13, <1>14, <1>15, <1>16, <1>17 DEF Next, Users, System

LEMMA InvInit == Init => Inv
<1> SUFFICES ASSUME Init PROVE Inv
  OBVIOUS
<1>1. RoundOK
  BY DEF Init, RoundOK
<1>2. NoLostWakeup
  BY DEF Init, NoLostWakeup, Awaited
<1> QED BY <1>1, <1>2, TypeInit DEF Inv

(* The channels never hold more than their capacity, and every event and   *)
(* every config is about workloads and pipelines there are.                *)
THEOREM TypeCorrect == Spec => []TypeOK
<1>1. Inv /\ [Next]_vars => Inv'
  BY TypeStep, RoundStep, WakeupStep DEF Inv
<1>2. Inv => TypeOK
  BY DEF Inv
<1> QED BY InvInit, <1>1, <1>2, PTL DEF Spec

(* No wakeup is lost, for any number of pipelines and workloads, channels  *)
(* of any capacity and any number of faults.                               *)
THEOREM WakeupsArrive == Spec => []NoLostWakeup
<1>1. Inv /\ [Next]_vars => Inv'
  BY TypeStep, RoundStep, WakeupStep DEF Inv
<1>2. Inv => NoLostWakeup
  BY DEF Inv
<1> QED BY InvInit, <1>1, <1>2, PTL DEF Spec
=============================================================================
