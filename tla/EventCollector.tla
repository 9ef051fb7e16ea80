---------------------------- MODULE EventCollector ----------------------------
(***************************************************************************)
(* The event collector (cmd/event_collector/main.go and                    *)
(* internal/evcollector): applyConfig keeps one collector per receiver     *)
(* host, and every collector batches the Kubernetes events of its informer *)
(* and pushes them to the aggregator.                                      *)
(*                                                                         *)
(* A collector is two goroutines joined by an unbuffered channel: the      *)
(* informer, whose handler blocks until its event is taken, and the        *)
(* sender, a loop around two selects.                                      *)
(***************************************************************************)
EXTENDS Integers, Sequences, SequencesExt, FiniteSets

CONSTANTS
    Host,        \* the service hosts a receiver may have
    Target,      \* the pairs of port and watched namespace
    Watched,     \* Watched[t]: the namespaces in which target t watches events
    Namespace,   \* the namespaces in which events happen
    Configs,     \* the configs the operator may write: a target for some hosts
    MaxBatch,    \* maxBatchSize
    Second,      \* instants in a second, the resolution of lastTimestamp
    MaxTime,     \* bound: the last instant
    MaxEvents,   \* bound: events
    MaxChanges,  \* bound: changes of the config
    MaxFaults    \* bound: failed pushes

ASSUME EventCollectorAssumption ==
    /\ \A c \in Configs : DOMAIN c \subseteq Host /\ \A h \in DOMAIN c : c[h] \in Target
    /\ Watched \in [Target -> SUBSET Namespace]
    /\ MaxBatch \in Nat \ {0} /\ Second \in Nat \ {0} /\ MaxTime \in Nat
    /\ MaxEvents \in Nat /\ MaxChanges \in Nat /\ MaxFaults \in Nat

VARIABLES
    config,      \* the config file
    watching,    \* the callback for changes of the file is registered
    dirty,       \* a noticed change of the file has not been applied
    missed,      \* history: the last change of the file was noticed by nobody
    apply,       \* applyConfig: the config it read, the hosts it has to set
                 \* up and those it has not met (notModified)
    store,       \* the collector of every host
    collectors,  \* all collectors there have been, in the order of creation
    events,      \* the events that have happened: time and namespace
    now, changes, faults

vars == <<config, watching, dirty, missed, apply, store, collectors, events, now, changes, faults>>

-----------------------------------------------------------------------------

(* What the informer of a collector for target t lists and watches.        *)
Visible(t) == {e \in DOMAIN events : events[e].ns \in Watched[t]}

NoApply == [cfg |-> << >>, todo |-> {}, rest |-> {}]

(* evcollector.New and Start.                                              *)
New(h, t) ==
    [host |-> h, target |-> t, createdAt |-> now, stopped |-> FALSE,
     seen |-> {}, pc |-> "select", batch |-> << >>,
     accepted |-> << >>, received |-> << >>]

Running == {i \in DOMAIN collectors : ~collectors[i].stopped}

(* main has read the file (ReadInConfig) and calls applyConfig.            *)
Init ==
    /\ config \in Configs
    /\ watching = FALSE
    /\ dirty = FALSE
    /\ missed = FALSE
    /\ apply = [cfg |-> config, todo |-> DOMAIN config, rest |-> {}]
    /\ store = << >>
    /\ collectors = << >>
    /\ events = << >>
    /\ now = 0 /\ changes = 0 /\ faults = 0

-----------------------------------------------------------------------------
(* The surroundings.                                                       *)

(* ensureEventCollector writes another ConfigMap; the watch tells of it    *)
(* once there is one.                                                      *)
ChangeConfig ==
    /\ changes < MaxChanges
    /\ changes' = changes + 1
    /\ config' \in Configs \ {config}
    /\ dirty' = watching
    /\ missed' = ~watching
    /\ UNCHANGED <<watching, apply, store, collectors, events, now, faults>>

(* An event, with an exact eventTime or a lastTimestamp in whole seconds.  *)
Happen ==
    /\ Len(events) < MaxEvents
    /\ \E ts \in {now, now - (now % Second)}, n \in Namespace :
          events' = Append(events, [ts |-> ts, ns |-> n])
    /\ UNCHANGED <<config, watching, dirty, missed, apply, store, collectors, now, changes, faults>>

Tick ==
    /\ now < MaxTime
    /\ now' = now + 1
    /\ UNCHANGED <<config, watching, dirty, missed, apply, store, collectors, events, changes, faults>>

-----------------------------------------------------------------------------
(* applyConfig.                                                            *)

(* main starts the watch and registers its callback after the first        *)
(* applyConfig.                                                            *)
StartWatching ==
    /\ apply = NoApply /\ ~watching
    /\ watching' = TRUE
    /\ UNCHANGED <<config, dirty, missed, apply, store, collectors, events, now, changes, faults>>

(* The watch reads the file again and calls applyConfig.                   *)
BeginApply ==
    /\ apply = NoApply /\ dirty
    /\ apply' = [cfg |-> config, todo |-> DOMAIN config, rest |-> DOMAIN store]
    /\ dirty' = FALSE
    /\ UNCHANGED <<config, watching, missed, store, collectors, events, now, changes, faults>>

Stopped(cs, i) == [cs EXCEPT ![i].stopped = TRUE]

Put(h, i) == [g \in DOMAIN store \cup {h} |-> IF g = h THEN i ELSE store[g]]

(* Plausible bug: the old collector is not stopped.                        *)
SetupWithoutStop(h) ==
    /\ h \in apply.todo
    /\ IF h \in DOMAIN store /\ collectors[store[h]].target = apply.cfg[h]
       THEN UNCHANGED <<store, collectors>>
       ELSE /\ collectors' = Append(collectors, New(h, apply.cfg[h]))
            /\ store' = Put(h, Len(collectors) + 1)
    /\ apply' = [apply EXCEPT !.todo = @ \ {h}, !.rest = @ \ {h}]
    /\ UNCHANGED <<config, watching, dirty, missed, events, now, changes, faults>>

(* setupCollector, for a receiver whose host is h.                         *)
SetupCollector(h) ==
    /\ h \in apply.todo
    /\ IF h \in DOMAIN store /\ collectors[store[h]].target = apply.cfg[h]
       THEN UNCHANGED <<store, collectors>>
       ELSE LET cs == IF h \in DOMAIN store
                      THEN Stopped(collectors, store[h]) ELSE collectors
            IN  /\ collectors' = Append(cs, New(h, apply.cfg[h]))
                /\ store' = Put(h, Len(cs) + 1)
    /\ apply' = [apply EXCEPT !.todo = @ \ {h}, !.rest = @ \ {h}]
    /\ UNCHANGED <<config, watching, dirty, missed, events, now, changes, faults>>

(* Plausible bug: the hosts that are gone are not looked at.               *)
KeepObsolete(h) ==
    /\ apply.todo = {} /\ h \in apply.rest
    /\ apply' = [apply EXCEPT !.rest = @ \ {h}]
    /\ UNCHANGED <<config, watching, dirty, missed, store, collectors, events, now, changes, faults>>

(* The hosts the config no longer has.                                     *)
StopObsolete(h) ==
    /\ apply.todo = {} /\ h \in apply.rest
    /\ collectors' = Stopped(collectors, store[h])
    /\ store' = [g \in DOMAIN store \ {h} |-> store[g]]
    /\ apply' = [apply EXCEPT !.rest = @ \ {h}]
    /\ UNCHANGED <<config, watching, dirty, missed, events, now, changes, faults>>

EndApply ==
    /\ apply # NoApply /\ apply.todo = {} /\ apply.rest = {}
    /\ apply' = NoApply
    /\ UNCHANGED <<config, watching, dirty, missed, store, collectors, events, now, changes, faults>>

-----------------------------------------------------------------------------
(* Collector i.                                                            *)

Becomes(i, c) ==
    /\ collectors' = [collectors EXCEPT ![i] = c]
    /\ UNCHANGED <<config, watching, dirty, missed, apply, store, events, now, changes>>

(* The outer select when nothing is being sent: a closed stop channel ends *)
(* the loop, also if it is closed between the two selects (StopInSelect).  *)
Turn(c) == IF c.stopped THEN "done" ELSE "select"

(* The inner select receives the event with which AddFunc or UpdateFunc    *)
(* waits at the unbuffered channel; the initial list of an informer is not *)
(* in the order of time.  What is older than the collector is skipped.     *)
Take(i) ==
    /\ collectors[i].pc = "select"
    /\ \E e \in Visible(collectors[i].target) \ collectors[i].seen :
          LET c == [collectors[i] EXCEPT !.seen = @ \cup {e}]
              b == Append(c.batch, e)
          IN  Becomes(i, IF events[e].ts < c.createdAt THEN [c EXCEPT !.pc = Turn(c)]
                         ELSE [c EXCEPT !.batch = b, !.accepted = Append(@, e),
                                        !.pc = IF Len(b) = MaxBatch
                                               THEN "push" ELSE Turn(c)])
    /\ UNCHANGED faults

(* Plausible bug: only full batches are sent.                              *)
IgnoreTicker(i) == FALSE

(* The inner select receives from the ticker; without a batch that is a    *)
(* turn of the loop.                                                       *)
Flush(i) ==
    /\ collectors[i].pc = "select" /\ collectors[i].batch # << >>
    /\ Becomes(i, [collectors[i] EXCEPT !.pc = "push"])
    /\ UNCHANGED faults

(* The inner select finds the stop channel closed.                         *)
StopInSelect(i) ==
    /\ collectors[i].pc = "select" /\ collectors[i].stopped
    /\ Becomes(i, [collectors[i] EXCEPT !.pc = "done"])
    /\ UNCHANGED faults

(* PushEvents is answered.  grpc.NewClient only parses the address, which  *)
(* the operator makes of a Service and a port, and does not fail.          *)
Push(i) ==
    /\ collectors[i].pc = "push"
    /\ Becomes(i, [collectors[i] EXCEPT !.received = @ \o collectors[i].batch,
                     !.batch = << >>, !.pc = Turn(collectors[i])])
    /\ UNCHANGED faults

(* Plausible bugs: a batch that could not be sent is given up; it is put   *)
(* back although it is still there.                                        *)
DropBatch(i) ==
    /\ collectors[i].pc = "push"
    /\ faults < MaxFaults
    /\ faults' = faults + 1
    /\ Becomes(i, [collectors[i] EXCEPT !.batch = << >>, !.pc = "sleep"])

PutBack(i) ==
    /\ collectors[i].pc = "push"
    /\ faults < MaxFaults
    /\ faults' = faults + 1
    /\ Becomes(i, [collectors[i] EXCEPT !.batch = @ \o @, !.pc = "sleep"])

(* PushEvents fails, before or after the aggregator has the batch: the     *)
(* connection is closed and the batch is tried again after a pause.        *)
PushFails(i) ==
    /\ collectors[i].pc = "push"
    /\ faults < MaxFaults
    /\ faults' = faults + 1
    /\ \E got \in {<< >>, collectors[i].batch} :
          Becomes(i, [collectors[i] EXCEPT !.received = @ \o got, !.pc = "sleep"])

(* The outer select with a batch to send.                                  *)
Wake(i) ==
    /\ collectors[i].pc = "sleep"
    /\ Becomes(i, [collectors[i] EXCEPT !.pc = IF collectors[i].stopped THEN "done" ELSE "push"])
    /\ UNCHANGED faults

-----------------------------------------------------------------------------

Main ==
    \/ StartWatching \/ BeginApply
    \/ (\E h \in Host : SetupCollector(h) \/ StopObsolete(h))
    \/ EndApply

Sender(i) ==
    Take(i) \/ Flush(i) \/ StopInSelect(i) \/ Push(i) \/ PushFails(i) \/ Wake(i)

Next ==
    \/ ChangeConfig \/ Happen \/ Tick \/ Main
    \/ \E i \in DOMAIN collectors : Sender(i)

Spec == Init /\ [][Next]_vars

(* Goroutines run on, informers deliver, the ticker fires, and a push      *)
(* succeeds once the faults are over.                                      *)
MaxCollectors == Cardinality(Host) * (MaxChanges + 1)

Fairness ==
    /\ WF_vars(Main)
    /\ \A i \in 1..MaxCollectors : WF_vars(i \in DOMAIN collectors /\ Sender(i))

FairSpec == Spec /\ Fairness

-----------------------------------------------------------------------------
(* Properties.                                                             *)

Collector ==
    [host : Host, target : Target, createdAt : 0..MaxTime, stopped : BOOLEAN,
     seen : SUBSET (1..MaxEvents), pc : {"select", "push", "sleep", "done"},
     batch : BoundedSeq(1..MaxEvents, MaxBatch),
     accepted : Seq(1..MaxEvents), received : Seq(1..MaxEvents)]

(* Types: a batch never exceeds maxBatchSize (Collector.Start).            *)
TypeOK ==
    /\ config \in Configs
    /\ watching \in BOOLEAN /\ dirty \in BOOLEAN /\ missed \in BOOLEAN
    /\ DOMAIN store \subseteq Host
    /\ \A h \in DOMAIN store : store[h] \in DOMAIN collectors
    /\ collectors \in Seq(Collector)
    /\ events \in Seq([ts : 0..MaxTime, ns : Namespace])

(* The batch b is the end of what a collector has accepted, the aggregator *)
(* has received all before it, and when it receives an event, for the      *)
(* first time or again, it has received everything accepted earlier.       *)
Gapless(b, accepted, received) ==
    LET settled == Len(accepted) - Len(b)
    IN  /\ \A j \in 1..Len(b) : b[j] = accepted[settled + j]
        /\ \A j \in 1..settled : \E q \in 1..Len(received) : received[q] = accepted[j]
        /\ \A r \in 1..Len(received) : \E m \in 1..Len(accepted) :
              /\ received[r] = accepted[m]
              /\ \A j \in 1..(m - 1) : \E q \in 1..(r - 1) : received[q] = accepted[j]

(* Failed pushes, whether the aggregator has the batch or not, lose and    *)
(* reorder nothing that a collector has accepted (Collector.Start).        *)
NoGap ==
    \A i \in DOMAIN collectors :
        Gapless(collectors[i].batch, collectors[i].accepted, collectors[i].received)

(* Every collector that has not been stopped is in the store, under its    *)
(* host: there is none that nobody can stop, and no two push to one host   *)
(* (setupCollector, applyConfig).                                          *)
StoreOwnsRunning ==
    \A i \in Running :
        collectors[i].host \in DOMAIN store /\ store[collectors[i].host] = i

(* Applying a config stops only collectors whose receiver it does not      *)
(* have, so events for other receivers keep flowing (setupCollector).      *)
OnlyObsoleteStopped ==
    [][\A i \in Running :
          collectors'[i].stopped =>
              ~ /\ collectors[i].host \in DOMAIN apply.cfg
                /\ apply.cfg[collectors[i].host] = collectors[i].target]_vars

(* Exactly the receivers of the config file have a running collector, each *)
(* for its own target.                                                     *)
ServesConfig ==
    /\ DOMAIN store = DOMAIN config
    /\ \A h \in DOMAIN config : /\ store[h] \in Running
                                /\ collectors[store[h]].target = config[h]

(* Once the config stays as it is, exactly its receivers are served,       *)
(* unless its last change came after main had read the file and before it  *)
(* watched it: that one waits for the next change (applyConfig, main).     *)
Served == <>[](missed \/ ServesConfig)

(* In the end every running collector has delivered every event that is    *)
(* not older than itself (Collector.Start).                                *)
Delivered ==
    <>[](\A i \in Running : \A e \in Visible(collectors[i].target) :
            events[e].ts >= collectors[i].createdAt => e \in Range(collectors[i].received))

=============================================================================
