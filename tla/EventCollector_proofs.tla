------------------------ MODULE EventCollector_proofs ------------------------
(***************************************************************************)
(* Theorems about the event collector, for any hosts, targets, namespaces, *)
(* configs, batch size and bounds.                                         *)
(***************************************************************************)
EXTENDS EventCollector, TLAPS

Event == 1..MaxEvents

-----------------------------------------------------------------------------
(* What accepting and pushing do to the batch b, the accepted events a and *)
(* the received events r of a collector.                                   *)

LEMMA GaplessInitially == Gapless(<< >>, << >>, << >>)
BY DEF Gapless

LEMMA GaplessTake ==
    ASSUME NEW S, NEW b \in Seq(S), NEW a \in Seq(S), NEW r \in Seq(S), NEW e \in S,
           Len(b) <= Len(a), Gapless(b, a, r)
    PROVE  Gapless(Append(b, e), Append(a, e), r)
<1> DEFINE bb == Append(b, e)
           aa == Append(a, e)
           k == Len(a) - Len(b)
<1>1. /\ Len(bb) = Len(b) + 1 /\ Len(aa) = Len(a) + 1
      /\ Len(a) \in Nat /\ Len(b) \in Nat /\ Len(r) \in Nat
      /\ \A j \in 1..Len(a) : aa[j] = a[j]
      /\ \A j \in 1..Len(b) : bb[j] = b[j]
      /\ aa[Len(a) + 1] = e /\ bb[Len(b) + 1] = e
  OBVIOUS
<1> HIDE DEF bb, aa
<1>2. Len(aa) - Len(bb) = k /\ k \in Nat
  BY <1>1
<1>3. ASSUME NEW j \in 1..Len(bb)
      PROVE  bb[j] = aa[k + j]
  <2>1. CASE j = Len(b) + 1
    <3>1. k + j = Len(a) + 1
      BY <1>1, <2>1
    <3> QED
      BY <1>1, <2>1, <3>1
  <2>2. CASE j # Len(b) + 1
    <3>1. j \in 1..Len(b) /\ k + j \in 1..Len(a)
      BY <1>1, <1>2, <2>2
    <3>2. b[j] = a[k + j]
      BY <3>1 DEF Gapless
    <3> QED
      BY <1>1, <3>1, <3>2
  <2> QED
    BY <2>1, <2>2
<1>4. ASSUME NEW j \in 1..k
      PROVE  \E q \in 1..Len(r) : r[q] = aa[j]
  <2>1. j \in 1..Len(a)
    BY <1>1
  <2>2. \E q \in 1..Len(r) : r[q] = a[j]
    BY DEF Gapless
  <2> QED
    BY <1>1, <2>1, <2>2
<1>5. ASSUME NEW t \in 1..Len(r)
      PROVE  \E m \in 1..Len(aa) :
                /\ r[t] = aa[m]
                /\ \A j \in 1..(m - 1) : \E q \in 1..(t - 1) : r[q] = aa[j]
  <2>1. PICK m \in 1..Len(a) :
                /\ r[t] = a[m]
                /\ \A j \in 1..(m - 1) : \E q \in 1..(t - 1) : r[q] = a[j]
    BY DEF Gapless
  <2>2. m \in 1..Len(aa) /\ aa[m] = a[m]
    BY <1>1
  <2>3. \A j \in 1..(m - 1) : aa[j] = a[j]
    BY <1>1
  <2> QED
    BY <2>1, <2>2, <2>3
<1>6. Gapless(bb, aa, r)
  BY <1>2, <1>3, <1>4, <1>5 DEF Gapless
<1> QED
  BY <1>6 DEF bb, aa

(* The aggregator receives the batch.                                      *)
LEMMA GaplessPush ==
    ASSUME NEW S, NEW b \in Seq(S), NEW a \in Seq(S), NEW r \in Seq(S),
           Len(b) <= Len(a), Gapless(b, a, r)
    PROVE  Gapless(b, a, r \o b) /\ Gapless(<< >>, a, r \o b)
<1> DEFINE rr == r \o b
           k == Len(a) - Len(b)
           n == Len(r)
<1>1. /\ Len(a) \in Nat /\ Len(b) \in Nat /\ n \in Nat /\ k \in Nat
      /\ Len(a) = k + Len(b)
  OBVIOUS
<1>2. /\ Len(rr) = n + Len(b)
      /\ \A q \in 1..n : rr[q] = r[q]
      /\ \A j \in 1..Len(b) : rr[n + j] = b[j]
  OBVIOUS
<1>3. /\ \A j \in 1..Len(b) : b[j] = a[k + j]
      /\ \A j \in 1..k : \E q \in 1..n : r[q] = a[j]
      /\ \A t \in 1..n : \E m \in 1..Len(a) :
            /\ r[t] = a[m]
            /\ \A j \in 1..(m - 1) : \E q \in 1..(t - 1) : r[q] = a[j]
  BY DEF Gapless
<1> HIDE DEF rr, k, n
<1>4. ASSUME NEW j \in 1..Len(a), j <= k
      PROVE  \E q \in 1..n : rr[q] = a[j]
  <2>1. j \in 1..k
    BY <1>1, <1>4
  <2> QED
    BY <1>2, <1>3, <2>1
<1>5. ASSUME NEW j \in 1..Len(a), j > k
      PROVE  n + (j - k) \in 1..Len(rr) /\ rr[n + (j - k)] = a[j]
  <2>1. j - k \in 1..Len(b) /\ k + (j - k) = j
    BY <1>1, <1>5
  <2>2. rr[n + (j - k)] = b[j - k] /\ b[j - k] = a[k + (j - k)]
    BY <1>2, <1>3, <2>1
  <2> QED
    BY <1>1, <1>2, <2>1, <2>2
<1>6. ASSUME NEW j \in 1..Len(a)
      PROVE  \E q \in 1..Len(rr) : rr[q] = a[j]
  <2>1. CASE j <= k
    BY <1>1, <1>2, <1>4, <2>1
  <2>2. CASE j > k
    BY <1>5, <2>2
  <2> QED
    BY <1>1, <2>1, <2>2
<1>7. ASSUME NEW t \in 1..Len(rr)
      PROVE  \E m \in 1..Len(a) :
                /\ rr[t] = a[m]
                /\ \A j \in 1..(m - 1) : \E q \in 1..(t - 1) : rr[q] = a[j]
  <2>1. CASE t <= n
    <3>1. t \in 1..n /\ rr[t] = r[t]
      BY <1>1, <1>2, <2>1
    <3>2. PICK m \in 1..Len(a) :
                /\ r[t] = a[m]
                /\ \A j \in 1..(m - 1) : \E q \in 1..(t - 1) : r[q] = a[j]
      BY <1>3, <3>1
    <3>3. \A q \in 1..(t - 1) : rr[q] = r[q]
      BY <1>1, <1>2, <2>1
    <3> QED
      BY <3>1, <3>2, <3>3
  <2>2. CASE t > n
    <3> DEFINE m == k + (t - n)
    <3>1. t - n \in 1..Len(b) /\ n + (t - n) = t /\ m \in 1..Len(a)
      BY <1>1, <1>2, <2>2
    <3>2. rr[t] = a[m]
      <4>1. rr[n + (t - n)] = b[t - n] /\ b[t - n] = a[k + (t - n)]
        BY <1>2, <1>3, <3>1
      <4> QED
        BY <3>1, <4>1
    <3>3. ASSUME NEW j \in 1..(m - 1)
          PROVE  \E q \in 1..(t - 1) : rr[q] = a[j]
      <4>1. j \in 1..Len(a) /\ j < m /\ j \in Int
        BY <1>1, <3>1
      <4>2. CASE j <= k
        <5>1. PICK q \in 1..n : rr[q] = a[j]
          BY <1>4, <4>1, <4>2
        <5>2. q \in 1..(t - 1)
          BY <1>1, <2>2
        <5> QED
          BY <5>1, <5>2
      <4>3. CASE j > k
        <5>1. n + (j - k) \in 1..Len(rr) /\ rr[n + (j - k)] = a[j]
          BY <1>5, <4>1, <4>3
        <5>2. n + (j - k) \in 1..(t - 1)
          BY <1>1, <1>2, <4>1, <5>1
        <5> QED
          BY <5>1, <5>2
      <4> QED
        BY <1>1, <4>1, <4>2, <4>3
    <3> QED
      BY <3>1, <3>2, <3>3
  <2> QED
    BY <1>1, <1>2, <2>1, <2>2
<1>8. Gapless(b, a, rr)
  <2>1. ASSUME NEW j \in 1..k
        PROVE  \E q \in 1..Len(rr) : rr[q] = a[j]
    <3>1. j \in 1..Len(a)
      BY <1>1
    <3> QED
      BY <1>6, <3>1
  <2> QED
    BY <1>3, <1>7, <2>1 DEF Gapless, k
<1>9. Gapless(<< >>, a, rr)
  <2>1. Len(<< >>) = 0 /\ Len(a) - 0 = Len(a)
    BY <1>1
  <2> QED
    BY <1>6, <1>7, <2>1 DEF Gapless
<1> QED
  BY <1>8, <1>9 DEF rr

-----------------------------------------------------------------------------
(* Types.                                                                  *)

(* A collector, its batch of any length.                                   *)
AnyCollector ==
    [host : Host, target : Target, createdAt : 0..MaxTime, stopped : BOOLEAN,
     seen : SUBSET Event, pc : {"select", "push", "sleep", "done"},
     batch : Seq(Event), accepted : Seq(Event), received : Seq(Event)]

(* The batch is part of what was accepted and within the limit, and there  *)
(* is room in it when the inner select is entered.                         *)
Fits(c) ==
    /\ Len(c.batch) <= MaxBatch /\ Len(c.batch) <= Len(c.accepted)
    /\ c.pc = "select" => Len(c.batch) < MaxBatch

Good(c) == Fits(c) /\ Gapless(c.batch, c.accepted, c.received)

(* applyConfig has a target for the hosts it has yet to set up; a host it  *)
(* has not met is in the store, and is obsolete or still to be set up.     *)
ApplyOK ==
    /\ apply \in [cfg : Configs \cup {<< >>}, todo : SUBSET Host, rest : SUBSET Host]
    /\ \A h \in apply.todo : h \in DOMAIN apply.cfg /\ apply.cfg[h] \in Target
    /\ apply.rest \subseteq DOMAIN store
    /\ apply.rest \cap DOMAIN apply.cfg \subseteq apply.todo

Typed ==
    /\ config \in Configs
    /\ watching \in BOOLEAN /\ dirty \in BOOLEAN /\ missed \in BOOLEAN
    /\ ApplyOK
    /\ DOMAIN store \subseteq Host /\ store \in [DOMAIN store -> DOMAIN collectors]
    /\ collectors \in Seq(AnyCollector)
    /\ \A i \in DOMAIN collectors : Good(collectors[i])
    /\ events \in Seq([ts : 0..MaxTime, ns : Namespace]) /\ Len(events) <= MaxEvents
    /\ now \in 0..MaxTime

(* The collector of a host is in the store under that host, as long as it  *)
(* runs.                                                                   *)
StoreInv ==
    /\ StoreOwnsRunning
    /\ \A h \in DOMAIN store : collectors[store[h]].host = h

(* A step that leaves the store and the collectors alone.                  *)
LEMMA StoreStays ==
    ASSUME StoreInv, UNCHANGED <<store, collectors>>
    PROVE  StoreInv'
BY DEF StoreInv, StoreOwnsRunning, Running

(* No collector is stopped.                                                *)
NoneStopped == \A j \in DOMAIN collectors : collectors'[j].stopped = collectors[j].stopped

(* A step of collector i, which becomes c.                                 *)
LEMMA SenderStep ==
    ASSUME Typed, NEW i \in DOMAIN collectors, NEW c \in AnyCollector, Good(c), Becomes(i, c),
           c.host = collectors[i].host, c.stopped = collectors[i].stopped
    PROVE  Typed' /\ (StoreInv => StoreInv') /\ NoneStopped
<1>1. /\ collectors' \in Seq(AnyCollector) /\ DOMAIN collectors' = DOMAIN collectors
      /\ \A j \in DOMAIN collectors : collectors'[j] = IF j = i THEN c ELSE collectors[j]
  BY DEF Typed, Becomes
<1>2. UNCHANGED <<config, watching, dirty, missed, apply, store, events, now>>
  BY DEF Becomes
<1>3. Typed'
  BY <1>1, <1>2 DEF Typed, ApplyOK
<1>4. ASSUME StoreInv
      PROVE  StoreInv'
  <2>1. Running' = Running
    BY <1>1 DEF Running
  <2>2. \A j \in DOMAIN collectors : collectors'[j].host = collectors[j].host
    BY <1>1
  <2>3. StoreOwnsRunning'
    BY <1>2, <1>4, <2>1, <2>2 DEF StoreInv, StoreOwnsRunning, Running
  <2>4. \A h \in DOMAIN store' : collectors'[store'[h]].host = h
    BY <1>2, <1>4, <2>2 DEF StoreInv, Typed
  <2> QED
    BY <2>3, <2>4 DEF StoreInv
<1>5. NoneStopped
  BY <1>1 DEF NoneStopped
<1> QED
  BY <1>3, <1>4, <1>5

(* Stopping collector i.                                                   *)
LEMMA StoppedTyped ==
    ASSUME Typed, NEW i \in DOMAIN collectors
    PROVE  /\ Stopped(collectors, i) \in Seq(AnyCollector)
           /\ DOMAIN Stopped(collectors, i) = DOMAIN collectors
           /\ Len(Stopped(collectors, i)) = Len(collectors)
           /\ \A j \in DOMAIN collectors :
                 /\ Good(Stopped(collectors, i)[j])
                 /\ Stopped(collectors, i)[j].host = collectors[j].host
                 /\ Stopped(collectors, i)[j].target = collectors[j].target
                 /\ Stopped(collectors, i)[j].stopped = (collectors[j].stopped \/ j = i)
<1> DEFINE c == [collectors[i] EXCEPT !.stopped = TRUE]
<1>1. collectors[i] \in AnyCollector
  BY DEF Typed
<1>2. /\ c \in AnyCollector /\ c.stopped = TRUE
      /\ c.host = collectors[i].host /\ c.target = collectors[i].target /\ c.pc = collectors[i].pc
      /\ c.batch = collectors[i].batch /\ c.accepted = collectors[i].accepted
      /\ c.received = collectors[i].received
  BY <1>1 DEF AnyCollector
<1>3. Good(c)
  BY <1>2 DEF Typed, Good, Fits
<1>4. Stopped(collectors, i) = [collectors EXCEPT ![i] = c]
  BY DEF Stopped
<1> HIDE DEF c
<1>5. /\ Stopped(collectors, i) \in Seq(AnyCollector)
      /\ DOMAIN Stopped(collectors, i) = DOMAIN collectors
      /\ Len(Stopped(collectors, i)) = Len(collectors)
      /\ \A j \in DOMAIN collectors : Stopped(collectors, i)[j] = IF j = i THEN c ELSE collectors[j]
  BY <1>2, <1>4 DEF Typed
<1>6. \A j \in DOMAIN collectors : collectors[j].stopped \in BOOLEAN
  <2>1. \A j \in DOMAIN collectors : collectors[j] \in AnyCollector
    BY DEF Typed
  <2> QED
    BY <2>1 DEF AnyCollector
<1> QED
  BY <1>2, <1>3, <1>5, <1>6 DEF Typed

LEMMA NewTyped ==
    ASSUME Typed, NEW h \in Host, NEW t \in Target
    PROVE  /\ New(h, t) \in AnyCollector /\ Good(New(h, t))
           /\ New(h, t).host = h /\ New(h, t).stopped = FALSE
<1>1. New(h, t) \in AnyCollector
  BY DEF Typed, New, AnyCollector
<1>2. Good(New(h, t))
  BY GaplessInitially, EventCollectorAssumption DEF New, Good, Fits
<1> QED
  BY <1>1, <1>2 DEF New

(* A new collector for h at the end of cs, in which that of h is stopped.  *)
LEMMA SetupStep ==
    ASSUME Typed, NEW h \in Host, NEW t \in Target, NEW cs,
           cs = (IF h \in DOMAIN store THEN Stopped(collectors, store[h]) ELSE collectors),
           collectors' = Append(cs, New(h, t)), store' = Put(h, Len(cs) + 1)
    PROVE  /\ collectors' \in Seq(AnyCollector)
           /\ \A i \in DOMAIN collectors' : Good(collectors'[i])
           /\ DOMAIN store' = DOMAIN store \cup {h} /\ store' \in [DOMAIN store' -> DOMAIN collectors']
           /\ StoreInv => StoreInv'
<1>1. ASSUME h \in DOMAIN store
      PROVE  store[h] \in DOMAIN collectors
  BY <1>1 DEF Typed
<1>2. /\ cs \in Seq(AnyCollector) /\ Len(cs) = Len(collectors) /\ DOMAIN cs = DOMAIN collectors
      /\ \A j \in DOMAIN collectors : Good(cs[j]) /\ cs[j].host = collectors[j].host
  BY <1>1, StoppedTyped DEF Typed
<1>3. \A j \in DOMAIN collectors : ~cs[j].stopped =>
          ~collectors[j].stopped /\ (h \in DOMAIN store => j # store[h])
  BY <1>1, StoppedTyped
<1>4. /\ New(h, t) \in AnyCollector /\ Good(New(h, t))
      /\ New(h, t).host = h /\ New(h, t).stopped = FALSE
  BY NewTyped
<1> DEFINE n == Len(cs) + 1
           c == New(h, t)
<1> HIDE DEF c
<1>5. /\ collectors' \in Seq(AnyCollector) /\ DOMAIN collectors' = DOMAIN collectors \cup {n}
      /\ n \notin DOMAIN collectors
      /\ \A j \in DOMAIN collectors : collectors'[j] = cs[j]
      /\ collectors'[n] = c
  BY <1>2, <1>4 DEF c, Typed
<1>6. \A j \in DOMAIN collectors' : Good(collectors'[j])
  BY <1>2, <1>4, <1>5 DEF c
<1>7. /\ DOMAIN store' = DOMAIN store \cup {h} /\ store'[h] = n
      /\ \A g \in DOMAIN store \ {h} : store'[g] = store[g]
      /\ store' \in [DOMAIN store' -> DOMAIN collectors']
  BY <1>5 DEF Put, Typed
<1> HIDE DEF n
<1>8. ASSUME StoreInv
      PROVE  StoreInv'
  <2>1. ASSUME NEW i \in DOMAIN collectors', ~collectors'[i].stopped
        PROVE  collectors'[i].host \in DOMAIN store' /\ store'[collectors'[i].host] = i
    <3>1. CASE i = n
      BY <1>4, <1>5, <1>7, <3>1 DEF c
    <3>2. CASE i \in DOMAIN collectors
      <4>1. ~collectors[i].stopped /\ collectors'[i].host = collectors[i].host
            /\ (h \in DOMAIN store => i # store[h])
        BY <1>2, <1>3, <1>5, <2>1, <3>2
      <4>2. collectors[i].host \in DOMAIN store /\ store[collectors[i].host] = i
        BY <1>8, <3>2, <4>1 DEF StoreInv, StoreOwnsRunning, Running
      <4> QED
        BY <1>7, <4>1, <4>2
    <3> QED
      BY <1>5, <2>1, <3>1, <3>2
  <2>2. ASSUME NEW g \in DOMAIN store'
        PROVE  collectors'[store'[g]].host = g
    <3>1. CASE g = h
      BY <1>4, <1>5, <1>7, <3>1 DEF c
    <3>2. CASE g # h
      <4>1. g \in DOMAIN store /\ store'[g] = store[g] /\ store[g] \in DOMAIN collectors
        BY <1>7, <2>2, <3>2 DEF Typed
      <4> QED
        BY <1>2, <1>5, <1>8, <4>1 DEF StoreInv
    <3> QED
      BY <3>1, <3>2
  <2> QED
    BY <2>1, <2>2 DEF StoreInv, StoreOwnsRunning, Running
<1> QED
  BY <1>5, <1>6, <1>7, <1>8 DEF c

LEMMA StopObsoleteStep ==
    ASSUME Typed, NEW h, StopObsolete(h)
    PROVE  Typed' /\ (StoreInv => StoreInv')
<1>1. /\ apply \in [cfg : Configs \cup {<< >>}, todo : SUBSET Host, rest : SUBSET Host]
      /\ apply.todo = {} /\ h \in apply.rest /\ h \in DOMAIN store /\ store[h] \in DOMAIN collectors
  BY DEF StopObsolete, Typed, ApplyOK
<1> DEFINE cs == Stopped(collectors, store[h])
<1>2. /\ cs \in Seq(AnyCollector) /\ DOMAIN cs = DOMAIN collectors
      /\ \A j \in DOMAIN collectors :
            /\ Good(cs[j]) /\ cs[j].host = collectors[j].host
            /\ cs[j].stopped = (collectors[j].stopped \/ j = store[h])
  BY <1>1, StoppedTyped
<1> HIDE DEF cs
<1>3. /\ collectors' = cs /\ DOMAIN store' = DOMAIN store \ {h}
      /\ \A g \in DOMAIN store \ {h} : store'[g] = store[g]
      /\ store' \in [DOMAIN store' -> DOMAIN collectors]
      /\ UNCHANGED <<config, watching, dirty, missed, events, now>>
      /\ apply' = [apply EXCEPT !.rest = @ \ {h}]
  BY DEF StopObsolete, Typed, cs
<1>4. /\ apply' \in [cfg : Configs \cup {<< >>}, todo : SUBSET Host, rest : SUBSET Host]
      /\ apply'.cfg = apply.cfg /\ apply'.todo = apply.todo /\ apply'.rest = apply.rest \ {h}
  BY <1>1, <1>3
<1>5. ApplyOK'
  BY <1>1, <1>3, <1>4 DEF Typed, ApplyOK
<1>6. Typed'
  BY <1>2, <1>3, <1>5 DEF Typed
<1>7. ASSUME StoreInv
      PROVE  StoreInv'
  <2>1. ASSUME NEW i \in DOMAIN collectors', ~collectors'[i].stopped
        PROVE  collectors'[i].host \in DOMAIN store' /\ store'[collectors'[i].host] = i
    <3>1. /\ i \in DOMAIN collectors /\ ~collectors[i].stopped /\ i # store[h]
          /\ collectors'[i].host = collectors[i].host
      BY <1>2, <1>3, <2>1
    <3>2. collectors[i].host \in DOMAIN store /\ store[collectors[i].host] = i
      BY <1>7, <3>1 DEF StoreInv, StoreOwnsRunning, Running
    <3> QED
      BY <1>3, <3>1, <3>2
  <2>2. ASSUME NEW g \in DOMAIN store'
        PROVE  collectors'[store'[g]].host = g
    <3>1. g \in DOMAIN store /\ store'[g] = store[g] /\ store[g] \in DOMAIN collectors
      BY <1>3, <2>2 DEF Typed
    <3>2. collectors'[store[g]].host = collectors[store[g]].host
      BY <1>2, <1>3, <3>1
    <3> QED
      BY <1>7, <3>1, <3>2 DEF StoreInv
  <2> QED
    BY <2>1, <2>2 DEF StoreInv, StoreOwnsRunning, Running
<1> QED
  BY <1>6, <1>7

LEMMA SetupCollectorStep ==
    ASSUME Typed, NEW h \in Host, SetupCollector(h)
    PROVE  Typed' /\ (StoreInv => StoreInv')
<1>1. /\ apply \in [cfg : Configs \cup {<< >>}, todo : SUBSET Host, rest : SUBSET Host]
      /\ h \in apply.todo /\ h \in DOMAIN apply.cfg /\ apply.cfg[h] \in Target
      /\ apply' = [apply EXCEPT !.todo = @ \ {h}, !.rest = @ \ {h}]
      /\ UNCHANGED <<config, watching, dirty, missed, events, now>>
  BY DEF SetupCollector, Typed, ApplyOK
<1>2. /\ apply' \in [cfg : Configs \cup {<< >>}, todo : SUBSET Host, rest : SUBSET Host]
      /\ apply'.cfg = apply.cfg /\ apply'.todo = apply.todo \ {h} /\ apply'.rest = apply.rest \ {h}
  BY <1>1
<1>3. ASSUME DOMAIN store \subseteq DOMAIN store'
      PROVE  ApplyOK'
  BY <1>1, <1>2, <1>3 DEF Typed, ApplyOK
<1>4. CASE h \in DOMAIN store /\ collectors[store[h]].target = apply.cfg[h]
  <2>1. UNCHANGED <<store, collectors>>
    BY <1>4 DEF SetupCollector
  <2>2. Typed'
    BY <1>1, <1>3, <2>1 DEF Typed
  <2> QED
    BY <2>1, <2>2, StoreStays
<1>5. CASE ~(h \in DOMAIN store /\ collectors[store[h]].target = apply.cfg[h])
  <2> DEFINE cs == IF h \in DOMAIN store THEN Stopped(collectors, store[h]) ELSE collectors
  <2>1. collectors' = Append(cs, New(h, apply.cfg[h])) /\ store' = Put(h, Len(cs) + 1)
    BY <1>5 DEF SetupCollector
  <2> HIDE DEF cs
  <2>2. /\ collectors' \in Seq(AnyCollector)
        /\ \A i \in DOMAIN collectors' : Good(collectors'[i])
        /\ DOMAIN store' = DOMAIN store \cup {h} /\ store' \in [DOMAIN store' -> DOMAIN collectors']
        /\ StoreInv => StoreInv'
    BY <1>1, <2>1, SetupStep DEF cs
  <2>3. Typed'
    BY <1>1, <1>3, <2>2 DEF Typed
  <2> QED
    BY <2>2, <2>3
<1> QED
  BY <1>4, <1>5

LEMMA TakeStep ==
    ASSUME Typed, NEW i \in DOMAIN collectors, Take(i)
    PROVE  Typed' /\ (StoreInv => StoreInv') /\ NoneStopped
<1> DEFINE o == collectors[i]
<1>1. o \in AnyCollector /\ Good(o) /\ o.pc = "select"
  BY DEF Typed, Take
<1>2. PICK e \in Visible(o.target) \ o.seen :
        LET c == [o EXCEPT !.seen = @ \cup {e}]
            b == Append(c.batch, e)
        IN  Becomes(i, IF events[e].ts < c.createdAt THEN [c EXCEPT !.pc = Turn(c)]
                       ELSE [c EXCEPT !.batch = b, !.accepted = Append(@, e),
                                      !.pc = IF Len(b) = MaxBatch THEN "push" ELSE Turn(c)])
  BY DEF Take
<1> DEFINE c == [o EXCEPT !.seen = @ \cup {e}]
           b == Append(o.batch, e)
           skip == [c EXCEPT !.pc = Turn(c)]
           pc == IF Len(b) = MaxBatch THEN "push" ELSE Turn(c)
           keep == [c EXCEPT !.batch = b, !.accepted = Append(@, e), !.pc = pc]
<1>3. e \in Event
  BY EventCollectorAssumption DEF Visible, Typed, Event
<1> HIDE DEF o
<1>4. /\ c \in AnyCollector /\ c.batch = o.batch /\ c.accepted = o.accepted
      /\ c.received = o.received /\ c.host = o.host /\ c.stopped = o.stopped
  BY <1>1, <1>3 DEF AnyCollector
<1>5. Turn(c) \in {"select", "done"}
  BY DEF Turn
<1>6. Becomes(i, skip) \/ Becomes(i, keep)
  BY <1>2, <1>4
<1> HIDE DEF c
<1>7. CASE Becomes(i, skip)
  <2>1. /\ skip \in AnyCollector /\ skip.batch = o.batch /\ skip.accepted = o.accepted
        /\ skip.received = o.received /\ skip.host = o.host /\ skip.stopped = o.stopped
    BY <1>4, <1>5 DEF AnyCollector
  <2>2. Good(skip)
    BY <1>1, <2>1 DEF Good, Fits
  <2> HIDE DEF skip
  <2> QED
    BY <1>7, <2>1, <2>2, SenderStep DEF o
<1>8. CASE Becomes(i, keep)
  <2>1. o.batch \in Seq(Event) /\ o.accepted \in Seq(Event) /\ o.received \in Seq(Event)
    BY <1>1 DEF AnyCollector
  <2>2. b \in Seq(Event) /\ Len(b) = Len(o.batch) + 1 /\ Append(o.accepted, e) \in Seq(Event)
        /\ Len(Append(o.accepted, e)) = Len(o.accepted) + 1
    BY <1>3, <2>1
  <2>3. pc \in {"select", "done", "push"} /\ (pc = "select" => Len(b) # MaxBatch)
    BY <1>5
  <2>4. Gapless(b, Append(o.accepted, e), o.received)
    BY <1>1, <1>3, <2>1, GaplessTake DEF Good, Fits
  <2> HIDE DEF b, pc
  <2>5. /\ keep \in AnyCollector /\ keep.batch = b /\ keep.accepted = Append(o.accepted, e)
        /\ keep.received = o.received /\ keep.host = o.host /\ keep.stopped = o.stopped
        /\ keep.pc = pc
    BY <1>4, <2>2, <2>3 DEF AnyCollector
  <2>6. Len(o.batch) \in Nat /\ Len(o.accepted) \in Nat /\ MaxBatch \in Nat
    BY <2>1, EventCollectorAssumption
  <2>7. Fits(keep)
    BY <1>1, <2>2, <2>3, <2>5, <2>6 DEF Good, Fits
  <2>8. Good(keep)
    BY <2>4, <2>5, <2>7 DEF Good
  <2> HIDE DEF keep
  <2> QED
    BY <1>8, <2>5, <2>8, SenderStep DEF o
<1> QED
  BY <1>6, <1>7, <1>8

(* The other steps of a collector.                                         *)
LEMMA OtherSenderStep ==
    ASSUME Typed, NEW i \in DOMAIN collectors,
           Flush(i) \/ StopInSelect(i) \/ Push(i) \/ PushFails(i) \/ Wake(i)
    PROVE  Typed' /\ (StoreInv => StoreInv') /\ NoneStopped
<1> DEFINE o == collectors[i]
<1>1. /\ o \in AnyCollector /\ Good(o)
      /\ o.batch \in Seq(Event) /\ o.accepted \in Seq(Event) /\ o.received \in Seq(Event)
  <2>1. o \in AnyCollector /\ Good(o)
    BY DEF Typed
  <2> QED
    BY <2>1 DEF AnyCollector
<1> HIDE DEF o
(* Only the program counter moves, not to the select.                      *)
<1>2. ASSUME NEW pc \in {"push", "sleep", "done"}, Becomes(i, [o EXCEPT !.pc = pc])
      PROVE  Typed' /\ (StoreInv => StoreInv') /\ NoneStopped
  <2> DEFINE c == [o EXCEPT !.pc = pc]
  <2>1. /\ c \in AnyCollector /\ c.batch = o.batch /\ c.accepted = o.accepted /\ c.pc = pc
        /\ c.received = o.received /\ c.host = o.host /\ c.stopped = o.stopped
    BY <1>1 DEF AnyCollector
  <2>2. Good(c)
    BY <1>1, <2>1 DEF Good, Fits
  <2> HIDE DEF c
  <2>3. Becomes(i, c)
    BY <1>2 DEF c
  <2> QED
    BY <2>1, <2>2, <2>3, SenderStep DEF o
<1>3. CASE Flush(i) \/ StopInSelect(i) \/ Wake(i)
  BY <1>2, <1>3 DEF Flush, StopInSelect, Wake, o
<1>4. CASE Push(i)
  <2> DEFINE c == [o EXCEPT !.received = @ \o o.batch, !.batch = << >>, !.pc = Turn(o)]
  <2>1. Turn(o) \in {"select", "done"} /\ << >> \in Seq(Event) /\ o.received \o o.batch \in Seq(Event)
    BY <1>1 DEF Turn
  <2>2. /\ c \in AnyCollector /\ c.batch = << >> /\ c.accepted = o.accepted
        /\ c.received = o.received \o o.batch /\ c.host = o.host /\ c.stopped = o.stopped
    BY <1>1, <2>1 DEF AnyCollector
  <2>3. Gapless(<< >>, o.accepted, o.received \o o.batch)
    BY <1>1, GaplessPush DEF Good, Fits
  <2>4. Fits(c)
    BY <1>1, <2>2, EventCollectorAssumption DEF Fits
  <2>5. Becomes(i, c)
    BY <1>4 DEF Push, o
  <2> HIDE DEF c
  <2>6. Good(c)
    BY <2>2, <2>3, <2>4 DEF Good
  <2> QED
    BY <2>2, <2>5, <2>6, SenderStep DEF o
<1>5. CASE PushFails(i)
  <2>1. PICK got \in {<< >>, o.batch} : Becomes(i, [o EXCEPT !.received = @ \o got, !.pc = "sleep"])
    BY <1>5 DEF PushFails, o
  <2> DEFINE c == [o EXCEPT !.received = @ \o got, !.pc = "sleep"]
  <2>2. o.received \o got \in Seq(Event) /\ (got = << >> => o.received \o got = o.received)
    <3>1. << >> \in Seq(Event) /\ o.received \o << >> = o.received
      BY <1>1
    <3>2. o.received \o o.batch \in Seq(Event)
      BY <1>1
    <3> QED
      BY <1>1, <3>1, <3>2
  <2>3. /\ c \in AnyCollector /\ c.batch = o.batch /\ c.accepted = o.accepted /\ c.pc = "sleep"
        /\ c.received = o.received \o got /\ c.host = o.host /\ c.stopped = o.stopped
    BY <1>1, <2>2 DEF AnyCollector
  <2>4. Gapless(o.batch, o.accepted, o.received \o got)
    BY <1>1, <2>2, GaplessPush DEF Good, Fits
  <2> HIDE DEF c
  <2>5. Good(c)
    BY <1>1, <2>3, <2>4 DEF Good, Fits
  <2> QED
    BY <2>1, <2>3, <2>5, SenderStep DEF o, c
<1> QED
  BY <1>3, <1>4, <1>5

LEMMA Inductive ==
    Typed /\ [Next]_vars => Typed' /\ (StoreInv => StoreInv')
<1> SUFFICES ASSUME Typed, [Next]_vars
             PROVE  Typed' /\ (StoreInv => StoreInv')
  OBVIOUS
<1>1. CASE ChangeConfig
  <2>1. Typed'
    BY <1>1 DEF ChangeConfig, Typed, ApplyOK
  <2> QED
    BY <1>1, <2>1, StoreStays DEF ChangeConfig
<1>2. CASE Happen
  <2>1. PICK ts \in {now, now - (now % Second)}, n \in Namespace :
            events' = Append(events, [ts |-> ts, ns |-> n])
    BY <1>2 DEF Happen
  <2>2. now % Second \in 0..(Second - 1) /\ now - (now % Second) \in 0..MaxTime
    <3>1. now \in Nat /\ now <= MaxTime /\ Second \in Nat /\ Second > 0 /\ MaxTime \in Nat
      BY EventCollectorAssumption DEF Typed
    <3>2. now % Second \in 0..(Second - 1) /\ now % Second <= now
      BY <3>1
    <3> QED
      BY <3>1, <3>2
  <2>3. [ts |-> ts, ns |-> n] \in [ts : 0..MaxTime, ns : Namespace]
    BY <2>2 DEF Typed
  <2>4. events' \in Seq([ts : 0..MaxTime, ns : Namespace]) /\ Len(events') <= MaxEvents
    BY <1>2, <2>1, <2>3, EventCollectorAssumption DEF Happen, Typed
  <2>5. Typed'
    BY <1>2, <2>4 DEF Happen, Typed, ApplyOK
  <2> QED
    BY <1>2, <2>5, StoreStays DEF Happen
<1>3. CASE Tick
  <2>1. now' \in 0..MaxTime
    BY <1>3, EventCollectorAssumption DEF Tick, Typed
  <2>2. Typed'
    BY <1>3, <2>1 DEF Tick, Typed, ApplyOK
  <2> QED
    BY <1>3, <2>2, StoreStays DEF Tick
<1>4. CASE BeginApply
  <2>1. apply' = [cfg |-> config, todo |-> DOMAIN config, rest |-> DOMAIN store]
    BY <1>4 DEF BeginApply
  <2>2. ApplyOK'
    BY <1>4, <2>1, EventCollectorAssumption DEF BeginApply, Typed, ApplyOK
  <2>3. Typed'
    BY <1>4, <2>2 DEF BeginApply, Typed
  <2> QED
    BY <1>4, <2>3, StoreStays DEF BeginApply
<1>5. CASE EndApply
  <2>1. ApplyOK'
    BY <1>5 DEF EndApply, NoApply, ApplyOK
  <2>2. Typed'
    BY <1>5, <2>1 DEF EndApply, Typed
  <2> QED
    BY <1>5, <2>2, StoreStays DEF EndApply
<1>6. CASE StartWatching \/ UNCHANGED vars
  BY <1>6, StoreStays DEF StartWatching, vars, Typed, ApplyOK
<1> QED
  BY <1>1, <1>2, <1>3, <1>4, <1>5, <1>6, SetupCollectorStep, StopObsoleteStep, TakeStep,
     OtherSenderStep
  DEF Next, Main, Sender

LEMMA TypedInitially == Init => Typed /\ StoreInv
<1> SUFFICES ASSUME Init
             PROVE  Typed /\ StoreInv
  OBVIOUS
<1>1. DOMAIN store = {} /\ DOMAIN collectors = {} /\ collectors \in Seq(AnyCollector)
      /\ store \in [DOMAIN store -> DOMAIN collectors]
  BY DEF Init
<1>2. events \in Seq([ts : 0..MaxTime, ns : Namespace]) /\ Len(events) <= MaxEvents /\ now \in 0..MaxTime
  BY EventCollectorAssumption DEF Init
<1>3. ApplyOK
  BY EventCollectorAssumption DEF Init, ApplyOK
<1>4. Typed
  BY <1>1, <1>2, <1>3 DEF Init, Typed
<1> QED
  BY <1>1, <1>4 DEF StoreInv, StoreOwnsRunning, Running

LEMMA AlwaysTyped == Spec => [](Typed /\ StoreInv)
BY TypedInitially, Inductive, PTL DEF Spec

LEMMA CollectorTyped ==
    ASSUME NEW c \in AnyCollector, Fits(c)
    PROVE  c \in Collector
<1>1. c.batch \in BoundedSeq(Event, MaxBatch)
  <2>1. Len(c.batch) \in 0..MaxBatch /\ c.batch \in [1..Len(c.batch) -> Event]
    BY EventCollectorAssumption DEF AnyCollector, Fits
  <2> QED
    BY <2>1 DEF BoundedSeq, SeqOf
<1> QED
  BY <1>1 DEF AnyCollector, Collector, Event

(* For any hosts, configs and batch size: no batch exceeds maxBatchSize,   *)
(* through failed pushes and retries too, and the store only names         *)
(* collectors that exist (Collector.Start and applyConfig).                *)
THEOREM TypeCorrect == Spec => []TypeOK
<1>1. Typed => TypeOK
  <2> SUFFICES ASSUME Typed
               PROVE  TypeOK
    OBVIOUS
  <2>1. \A i \in DOMAIN collectors : collectors[i] \in Collector
    BY CollectorTyped DEF Typed, Good
  <2>2. collectors \in Seq(Collector)
    BY <2>1 DEF Typed
  <2> QED
    BY <2>2 DEF Typed, TypeOK
<1> QED
  BY <1>1, AlwaysTyped, PTL

(* For any events, batch size and number of failed pushes, answered or     *)
(* not: the aggregator misses no event that a collector has accepted and   *)
(* no longer holds, and first receives them in that order                  *)
(* (Collector.Start).                                                      *)
THEOREM NothingLost == Spec => []NoGap
<1>1. Typed => NoGap
  BY DEF Typed, Good, NoGap
<1> QED
  BY <1>1, AlwaysTyped, PTL

(* For any configs and orders of them: there is no running collector that  *)
(* the store does not have, and no two for one host (setupCollector and    *)
(* applyConfig).                                                           *)
THEOREM NoCollectorEscapes == Spec => []StoreOwnsRunning
<1>1. StoreInv => StoreOwnsRunning
  BY DEF StoreInv
<1> QED
  BY <1>1, AlwaysTyped, PTL

(* For any configs: applyConfig stops no collector of a receiver that the  *)
(* config it applies has with the same target (setupCollector).            *)
THEOREM UnchangedReceiversServed == Spec => OnlyObsoleteStopped
<1>1. ASSUME Typed, StoreInv, [Next]_vars
      PROVE  [\A i \in Running :
                collectors'[i].stopped =>
                    ~ /\ collectors[i].host \in DOMAIN apply.cfg
                      /\ apply.cfg[collectors[i].host] = collectors[i].target]_vars
  <2> SUFFICES ASSUME NEW i \in DOMAIN collectors, ~collectors[i].stopped, collectors'[i].stopped
               PROVE  ~ /\ collectors[i].host \in DOMAIN apply.cfg
                        /\ apply.cfg[collectors[i].host] = collectors[i].target
    BY DEF Running
  <2>1. ASSUME NEW h \in Host, SetupCollector(h)
        PROVE  i = store[h] /\ h \in DOMAIN store /\ collectors[i].target # apply.cfg[h]
    <3>1. ~(h \in DOMAIN store /\ collectors[store[h]].target = apply.cfg[h])
      BY <2>1 DEF SetupCollector
    <3> DEFINE cs == IF h \in DOMAIN store THEN Stopped(collectors, store[h]) ELSE collectors
    <3>2. collectors' = Append(cs, New(h, apply.cfg[h]))
      BY <2>1, <3>1 DEF SetupCollector
    <3>3. h \in DOMAIN store => store[h] \in DOMAIN collectors
      BY <1>1 DEF Typed
    <3>4. /\ cs \in Seq(AnyCollector) /\ DOMAIN cs = DOMAIN collectors
          /\ cs[i].stopped => h \in DOMAIN store /\ i = store[h]
      BY <1>1, <3>3, StoppedTyped DEF Typed
    <3> HIDE DEF cs
    <3>5. collectors'[i] = cs[i]
      BY <3>2, <3>4
    <3> QED
      BY <3>1, <3>4, <3>5
  <2>2. ASSUME NEW h \in Host, StopObsolete(h)
        PROVE  i = store[h] /\ h \in DOMAIN store /\ h \notin DOMAIN apply.cfg
    <3>1. /\ h \in DOMAIN store /\ store[h] \in DOMAIN collectors /\ h \notin DOMAIN apply.cfg
          /\ collectors' = Stopped(collectors, store[h])
      BY <1>1, <2>2 DEF StopObsolete, Typed, ApplyOK
    <3> QED
      BY <1>1, <3>1, StoppedTyped
  <2>3. ~(ChangeConfig \/ Happen \/ Tick \/ StartWatching \/ BeginApply \/ EndApply
          \/ UNCHANGED vars)
    BY DEF ChangeConfig, Happen, Tick, StartWatching, BeginApply, EndApply, vars
  <2>4. ASSUME NEW j \in DOMAIN collectors, Sender(j)
        PROVE  FALSE
    <3>1. NoneStopped
      BY <1>1, <2>4, TakeStep, OtherSenderStep DEF Sender
    <3> QED
      BY <3>1 DEF NoneStopped
  <2>5. ASSUME NEW h \in DOMAIN store
        PROVE  collectors[store[h]].host = h
    BY <1>1 DEF StoreInv
  <2> QED
    BY <1>1, <2>1, <2>2, <2>3, <2>4, <2>5 DEF Next, Main
<1> QED
  BY <1>1, AlwaysTyped, PTL DEF Spec, OnlyObsoleteStopped
-----------------------------------------------------------------------------
(* What an applied config leaves behind.                                   *)

(* The collector of host g runs for the target that the config file has    *)
(* for it.                                                                 *)
Serves(g) ==
    g \in DOMAIN store /\ store[g] \in Running /\ collectors[store[g]].target = config[g]

(* Unless the config file has changed since, applyConfig works on its      *)
(* content, the hosts it has set up are served, and a collector of a host  *)
(* that the file lacks is one it still has to stop.  Between two calls     *)
(* nothing is left to set up or to stop.                                   *)
AppliedInv ==
    /\ \A h \in DOMAIN store : store[h] \in Running
    /\ ~dirty /\ ~missed =>
          /\ apply # NoApply => apply.cfg = config
          /\ \A h \in DOMAIN config \ apply.todo : Serves(h)
          /\ DOMAIN store \subseteq DOMAIN config \cup apply.rest

(* A step of a collector or of the surroundings disturbs none of it.       *)
LEMMA AppliedStays ==
    ASSUME Typed, AppliedInv, UNCHANGED <<config, dirty, missed, apply, store>>,
           DOMAIN collectors \subseteq DOMAIN collectors',
           \A j \in DOMAIN collectors :
               /\ collectors'[j].stopped = collectors[j].stopped
               /\ collectors'[j].target = collectors[j].target
    PROVE  AppliedInv'
<1>1. \A h \in DOMAIN store : store[h] \in DOMAIN collectors
  BY DEF Typed
<1>2. \A j \in Running : j \in Running'
  BY DEF Running
<1>3. \A h \in DOMAIN store' : store'[h] \in Running'
  BY <1>1, <1>2 DEF AppliedInv
<1>4. \A h : Serves(h) => Serves(h)'
  BY <1>1, <1>2 DEF Serves
<1>5. UNCHANGED NoApply
  BY DEF NoApply
<1> QED
  BY <1>3, <1>4, <1>5 DEF AppliedInv

LEMMA SenderKeepsTarget ==
    ASSUME Typed, NEW i \in DOMAIN collectors, Sender(i)
    PROVE  /\ UNCHANGED <<config, dirty, missed, apply, store>>
           /\ DOMAIN collectors' = DOMAIN collectors
           /\ \A j \in DOMAIN collectors :
                 /\ collectors'[j].stopped = collectors[j].stopped
                 /\ collectors'[j].target = collectors[j].target
<1> DEFINE o == collectors[i]
<1>1. o \in AnyCollector
  BY DEF Typed
<1>2. ASSUME NEW c, Becomes(i, c), c.target = o.target, c.stopped = o.stopped
      PROVE  /\ UNCHANGED <<config, dirty, missed, apply, store>>
             /\ DOMAIN collectors' = DOMAIN collectors
             /\ \A j \in DOMAIN collectors :
                   /\ collectors'[j].stopped = collectors[j].stopped
                   /\ collectors'[j].target = collectors[j].target
  BY <1>2 DEF Becomes
<1>3. \E c : Becomes(i, c) /\ c.target = o.target /\ c.stopped = o.stopped
  <2>1. CASE Take(i)
    <3>1. PICK e \in Visible(o.target) \ o.seen :
            LET d == [o EXCEPT !.seen = @ \cup {e}]
                b == Append(d.batch, e)
            IN  Becomes(i, IF events[e].ts < d.createdAt THEN [d EXCEPT !.pc = Turn(d)]
                           ELSE [d EXCEPT !.batch = b, !.accepted = Append(@, e),
                                          !.pc = IF Len(b) = MaxBatch
                                                 THEN "push" ELSE Turn(d)])
      BY <2>1 DEF Take
    <3> DEFINE d == [o EXCEPT !.seen = @ \cup {e}]
               b == Append(d.batch, e)
               c == IF events[e].ts < d.createdAt THEN [d EXCEPT !.pc = Turn(d)]
                    ELSE [d EXCEPT !.batch = b, !.accepted = Append(@, e),
                                   !.pc = IF Len(b) = MaxBatch THEN "push" ELSE Turn(d)]
    <3>2. c.target = o.target /\ c.stopped = o.stopped
      BY <1>1 DEF AnyCollector
    <3>3. Becomes(i, c)
      BY <3>1
    <3> HIDE DEF c
    <3> QED
      BY <3>2, <3>3
  <2>2. CASE Flush(i)
    BY <1>1, <2>2 DEF Flush, AnyCollector
  <2>3. CASE StopInSelect(i)
    <3> DEFINE c == [o EXCEPT !.pc = "done"]
    <3>1. Becomes(i, c) /\ c.target = o.target /\ c.stopped = o.stopped
      BY <1>1, <2>3 DEF StopInSelect, AnyCollector
    <3> HIDE DEF c
    <3> QED
      BY <3>1
  <2>4. CASE Push(i)
    <3> DEFINE c == [o EXCEPT !.received = @ \o o.batch, !.batch = << >>, !.pc = Turn(o)]
    <3>1. Becomes(i, c) /\ c.target = o.target /\ c.stopped = o.stopped
      BY <1>1, <2>4 DEF Push, AnyCollector
    <3> HIDE DEF c
    <3> QED
      BY <3>1
  <2>5. CASE PushFails(i)
    <3>1. PICK got \in {<< >>, o.batch} :
            Becomes(i, [o EXCEPT !.received = @ \o got, !.pc = "sleep"])
      BY <2>5 DEF PushFails
    <3> DEFINE c == [o EXCEPT !.received = @ \o got, !.pc = "sleep"]
    <3>2. Becomes(i, c) /\ c.target = o.target /\ c.stopped = o.stopped
      BY <1>1, <3>1 DEF AnyCollector
    <3> HIDE DEF c
    <3> QED
      BY <3>2
  <2>6. CASE Wake(i)
    BY <1>1, <2>6 DEF Wake, AnyCollector
  <2> QED
    BY <2>1, <2>2, <2>3, <2>4, <2>5, <2>6 DEF Sender
<1> QED
  BY <1>2, <1>3

(* The step that replaces or stops the collector of h: those of the other  *)
(* hosts run on.                                                           *)
LEMMA OthersRunOn ==
    ASSUME Typed, StoreInv, NEW h \in DOMAIN store
    PROVE  \A g \in DOMAIN store \ {h} :
              /\ store[g] \in DOMAIN collectors
              /\ Stopped(collectors, store[h])[store[g]].stopped = collectors[store[g]].stopped
              /\ Stopped(collectors, store[h])[store[g]].target = collectors[store[g]].target
<1>1. store[h] \in DOMAIN collectors
  BY DEF Typed
<1>2. \A g \in DOMAIN store \ {h} : store[g] \in DOMAIN collectors /\ store[g] # store[h]
  BY DEF Typed, StoreInv
<1>3. \A j \in DOMAIN collectors :
          /\ Stopped(collectors, store[h])[j].target = collectors[j].target
          /\ Stopped(collectors, store[h])[j].stopped = (collectors[j].stopped \/ j = store[h])
  BY <1>1, StoppedTyped
<1>4. \A j \in DOMAIN collectors : collectors[j].stopped \in BOOLEAN
  <2>1. \A j \in DOMAIN collectors : collectors[j] \in AnyCollector
    BY DEF Typed
  <2> QED
    BY <2>1 DEF AnyCollector
<1> QED
  BY <1>2, <1>3, <1>4

LEMMA AppliedSetup ==
    ASSUME Typed, StoreInv, AppliedInv, NEW h \in Host, SetupCollector(h)
    PROVE  AppliedInv'
<1>1. /\ apply \in [cfg : Configs \cup {<< >>}, todo : SUBSET Host, rest : SUBSET Host]
      /\ h \in apply.todo /\ apply # NoApply /\ UNCHANGED <<config, dirty, missed>>
      /\ apply' = [apply EXCEPT !.todo = @ \ {h}, !.rest = @ \ {h}]
      /\ h \in DOMAIN apply.cfg /\ apply.cfg[h] \in Target
  BY DEF SetupCollector, Typed, ApplyOK, NoApply
<1>2. apply'.cfg = apply.cfg /\ apply'.todo = apply.todo \ {h} /\ apply'.rest = apply.rest \ {h}
  BY <1>1
<1>3. ~dirty /\ ~missed => apply.cfg = config
  BY <1>1 DEF AppliedInv
<1> SUFFICES /\ h \in DOMAIN store' /\ DOMAIN store' \subseteq DOMAIN store \cup {h}
             /\ store'[h] \in Running' /\ collectors'[store'[h]].target = apply.cfg[h]
             /\ \A g \in DOMAIN store \ {h} :
                   /\ g \in DOMAIN store' /\ store'[g] = store[g] /\ store[g] \in Running'
                   /\ collectors'[store[g]].target = collectors[store[g]].target
  <2>1. \A g \in DOMAIN store' : store'[g] \in Running'
    OBVIOUS
  <2>2. ASSUME ~dirty, ~missed
        PROVE  /\ \A g \in DOMAIN config \ apply'.todo : Serves(g)'
               /\ DOMAIN store' \subseteq DOMAIN config \cup apply'.rest
    <3>1. h \in DOMAIN config /\ apply.cfg[h] = config[h]
      BY <1>1, <1>3, <2>2
    <3>2. Serves(h)'
      BY <1>1, <3>1 DEF Serves
    <3>3. ASSUME NEW g \in DOMAIN config \ apply.todo
          PROVE  Serves(g)'
      BY <1>1, <2>2 DEF Serves, AppliedInv
    <3> QED
      BY <1>2, <2>2, <3>1, <3>2, <3>3 DEF AppliedInv
  <2> QED
    BY <1>1, <1>2, <1>3, <2>1, <2>2 DEF AppliedInv
<1>4. CASE h \in DOMAIN store /\ collectors[store[h]].target = apply.cfg[h]
  <2>1. UNCHANGED <<store, collectors>>
    BY <1>4 DEF SetupCollector
  <2> QED
    BY <1>4, <2>1 DEF AppliedInv, Running
<1>5. CASE ~(h \in DOMAIN store /\ collectors[store[h]].target = apply.cfg[h])
  <2> DEFINE cs == IF h \in DOMAIN store THEN Stopped(collectors, store[h]) ELSE collectors
             n == Len(cs) + 1
             c == New(h, apply.cfg[h])
  <2>1. collectors' = Append(cs, c) /\ store' = Put(h, n)
    BY <1>5 DEF SetupCollector
  <2>2. h \in DOMAIN store => store[h] \in DOMAIN collectors
    BY DEF Typed
  <2>3. cs \in Seq(AnyCollector) /\ DOMAIN cs = DOMAIN collectors
    BY <2>2, StoppedTyped DEF Typed
  <2>4. \A g \in DOMAIN store \ {h} :
            /\ store[g] \in DOMAIN collectors
            /\ cs[store[g]].stopped = collectors[store[g]].stopped
            /\ cs[store[g]].target = collectors[store[g]].target
    BY OthersRunOn DEF Typed
  <2>5. c \in AnyCollector /\ c.stopped = FALSE /\ c.target = apply.cfg[h]
    BY <1>1, NewTyped DEF New
  <2> HIDE DEF cs, c
  <2>6. /\ DOMAIN collectors' = DOMAIN collectors \cup {n}
        /\ \A j \in DOMAIN collectors : collectors'[j] = cs[j]
        /\ collectors'[n] = c
    BY <2>1, <2>3, <2>5
  <2>7. /\ DOMAIN store' = DOMAIN store \cup {h} /\ store'[h] = n
        /\ \A g \in DOMAIN store \ {h} : store'[g] = store[g]
    BY <2>1 DEF Put
  <2> HIDE DEF n
  <2>8. n \in Running' /\ collectors'[n].target = apply.cfg[h]
    BY <2>5, <2>6 DEF Running
  <2>9. \A g \in DOMAIN store \ {h} :
            store[g] \in Running' /\ collectors'[store[g]].target = collectors[store[g]].target
    BY <2>4, <2>6 DEF AppliedInv, Running
  <2> QED
    BY <2>7, <2>8, <2>9
<1> QED
  BY <1>4, <1>5

LEMMA AppliedStop ==
    ASSUME Typed, StoreInv, AppliedInv, NEW h \in Host, StopObsolete(h)
    PROVE  AppliedInv'
<1>1. /\ apply \in [cfg : Configs \cup {<< >>}, todo : SUBSET Host, rest : SUBSET Host]
      /\ apply.todo = {} /\ h \in apply.rest /\ apply # NoApply /\ UNCHANGED <<config, dirty, missed>>
      /\ apply' = [apply EXCEPT !.rest = @ \ {h}]
      /\ h \in DOMAIN store /\ h \notin DOMAIN apply.cfg
  BY DEF StopObsolete, Typed, ApplyOK, NoApply
<1>2. apply'.cfg = apply.cfg /\ apply'.todo = {} /\ apply'.rest = apply.rest \ {h}
  BY <1>1
<1>3. /\ collectors' = Stopped(collectors, store[h])
      /\ DOMAIN store' = DOMAIN store \ {h}
      /\ \A g \in DOMAIN store \ {h} : store'[g] = store[g]
  BY DEF StopObsolete
<1>4. store[h] \in DOMAIN collectors
  BY <1>1 DEF Typed
<1>5. DOMAIN collectors' = DOMAIN collectors
  BY <1>3, <1>4, StoppedTyped
<1>6. \A g \in DOMAIN store \ {h} :
          store[g] \in Running' /\ collectors'[store[g]].target = collectors[store[g]].target
  BY <1>1, <1>3, <1>5, OthersRunOn DEF AppliedInv, Running
<1>7. ASSUME ~dirty, ~missed
      PROVE  /\ apply'.cfg = config
             /\ \A g \in DOMAIN config \ apply'.todo : Serves(g)'
             /\ DOMAIN store' \subseteq DOMAIN config \cup apply'.rest
  <2>1. apply.cfg = config /\ h \notin DOMAIN config
    BY <1>1, <1>7 DEF AppliedInv
  <2>2. ASSUME NEW g \in DOMAIN config
        PROVE  Serves(g)'
    <3>1. Serves(g) /\ g # h
      BY <1>1, <1>7, <2>1 DEF AppliedInv
    <3> QED
      BY <1>1, <1>3, <1>6, <3>1 DEF Serves
  <2> QED
    BY <1>2, <1>3, <1>7, <2>1, <2>2 DEF AppliedInv
<1> QED
  BY <1>1, <1>3, <1>6, <1>7 DEF AppliedInv

LEMMA AppliedInductive ==
    Typed /\ StoreInv /\ AppliedInv /\ [Next]_vars => AppliedInv'
<1> SUFFICES ASSUME Typed, StoreInv, AppliedInv, [Next]_vars
             PROVE  AppliedInv'
  OBVIOUS
<1>1. CASE ChangeConfig
  BY <1>1 DEF ChangeConfig, AppliedInv, Running
<1>2. CASE Happen \/ Tick \/ StartWatching \/ UNCHANGED vars
  BY <1>2, AppliedStays DEF Happen, Tick, StartWatching, vars
<1>3. CASE BeginApply
  <2>1. /\ apply'.cfg = config /\ apply'.todo = DOMAIN config /\ apply'.rest = DOMAIN store
        /\ UNCHANGED <<config, store, collectors>>
    BY <1>3 DEF BeginApply
  <2> QED
    BY <2>1 DEF AppliedInv, Running
<1>4. CASE EndApply
  <2>1. /\ apply'.todo = apply.todo /\ apply'.rest = apply.rest /\ apply' = NoApply
        /\ UNCHANGED <<config, dirty, missed, store, collectors>>
    BY <1>4 DEF EndApply, NoApply
  <2>2. \A h : Serves(h)' <=> Serves(h)
    BY <2>1 DEF Serves, Running
  <2> QED
    BY <2>1, <2>2 DEF AppliedInv, Running, NoApply
<1>5. ASSUME NEW i \in DOMAIN collectors, Sender(i)
      PROVE  AppliedInv'
  BY <1>5, SenderKeepsTarget, AppliedStays
<1> QED
  BY <1>1, <1>2, <1>3, <1>4, <1>5, AppliedSetup, AppliedStop DEF Next, Main

(* For any configs and any orders of changes: whenever applyConfig has     *)
(* returned and no noticed change waits, exactly the receivers of the file *)
(* have a running collector, each for its own port and namespace, whatever *)
(* changes came while earlier configs were being applied, unless the last  *)
(* change came before main watched the file (applyConfig, setupCollector). *)
THEOREM AppliedConfigIsServed ==
    Spec => [](apply = NoApply /\ ~dirty => missed \/ ServesConfig)
<1>1. Init => AppliedInv
  BY DEF Init, AppliedInv
<1>2. AppliedInv /\ apply = NoApply /\ ~dirty => missed \/ ServesConfig
  <2> SUFFICES ASSUME AppliedInv, apply = NoApply, ~dirty, ~missed
               PROVE  ServesConfig
    OBVIOUS
  <2>1. apply.todo = {} /\ apply.rest = {}
    BY DEF NoApply
  <2> QED
    BY <2>1 DEF AppliedInv, Serves, ServesConfig
<1> QED
  BY <1>1, <1>2, AppliedInductive, AlwaysTyped, PTL DEF Spec

=============================================================================
