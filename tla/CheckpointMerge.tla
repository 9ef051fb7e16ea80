--------------------------- MODULE CheckpointMerge ---------------------------
(***************************************************************************)
(* An agent pod on one node, its file checkpoints and the init container   *)
(* checkpoint-merger (cmd/checkpoint_merger, internal/checkpoint), which   *)
(* runs before vector in every pod while checkpoint migration is on.       *)
(*                                                                         *)
(* vector keeps a directory per source name with the position it has       *)
(* reached in each file.  Every namespace with logs on the node has one    *)
(* file, so a namespace stands for its file.  A position of zero stands    *)
(* for no entry.  vector itself is external: it reads, delivers to the     *)
(* consumers of a source, saves a position afterwards, reloads its config  *)
(* when it changes, and treats a file it cannot parse as no checkpoints.   *)
(***************************************************************************)
EXTENDS SourceGroups

CONSTANTS
    Logged,      \* the namespaces with a log file on the node
    Lines,       \* Lines[n], bound: the lines of its file
    MayBeBad,    \* sources whose directory may hold an unknown format
    MayOptOut,   \* sources whose pipeline may opt out
    MaxEdits,    \* bound: switches of the mode and of opt-outs
    MaxFaults    \* bound: failed writes, unreadable configs and killed pods

ASSUME MergeAssumption ==
    /\ Logged \subseteq Namespace /\ Lines \in [Logged -> Nat]
    /\ MayBeBad \subseteq Source /\ MayOptOut \subseteq Source
    /\ MaxEdits \in Nat /\ MaxFaults \in Nat

VARIABLES
    optimized,   \* the mode of the mounted config
    out,         \* the sources that opted out
    config,      \* the mounted config
    saved,       \* saved[d][n]: the checkpoint files
    bad,         \* the directories whose checkpoint file cannot be parsed
    phase,       \* of the pod: "start", "merge", "write" or "run"
    merged,      \* merged[n]: the highest position found
    todo,        \* the target directories still to do
    writing,     \* the one being written, as a set
    clean,       \* history: nothing was skipped since the pod started
    reached,     \* reached[d][n]: the position in a running vector
    got,         \* got[s][n]: the lines the consumer of s has received
    edits, faults

disk == <<saved, bad>>
merger == <<merged, todo, writing, clean>>
vars == <<optimized, out, config, disk, phase, merger, reached, got, edits, faults>>

-----------------------------------------------------------------------------

(* BuildAgentConfig, as far as the sources go: the name of the source that *)
(* serves each consumer, and what comes out of it.                         *)
BuildConfig(opt, x) ==
    [s \in Source |->
        [name |-> IF opt THEN NameOf(x, s) ELSE OwnName(s),
         stream |-> IF opt THEN RoutedStream(x, s) ELSE Stream(s)]]

(* KubernetesLogsSources.                                                  *)
SourcesOf(c) == {c[s].name : s \in Source}

Targets == SourcesOf(config)

(* All directories there may ever be.                                      *)
Names == UNION {SourcesOf(BuildConfig(opt, x)) : opt \in BOOLEAN, x \in SUBSET MayOptOut}

Dirs == DOMAIN saved

(* The files a source of the config watches.                               *)
Watches(d, n) == \E s \in Source : config[s].name = d /\ n \in Stream(s)

Nowhere == [n \in Logged |-> 0]

Highest(S) == IF S = {} THEN 0 ELSE CHOOSE p \in S : \A q \in S : q <= p

(* readCheckpoints gives the entries of a directory, or an error for one   *)
(* it cannot parse; one without a file has no entries.                     *)
Readable == Dirs \ bad

(* The highest position that any of them has for a file.                   *)
Known(n) == Highest({saved[d][n] : d \in Readable})

TypeOK ==
    /\ optimized \in BOOLEAN /\ out \subseteq MayOptOut
    /\ Targets \subseteq Dirs
    /\ \A d \in Dirs, n \in Logged :
        saved[d][n] \in 0..Lines[n] /\ reached[d][n] \in 0..Lines[n]
    /\ DOMAIN reached = Dirs /\ bad \subseteq Dirs
    /\ phase \in {"start", "merge", "write", "run"}
    /\ merged \in [Logged -> Nat] /\ todo \subseteq Dirs
    /\ writing \subseteq Dirs /\ clean \in BOOLEAN
    /\ got \in [Source -> [Logged -> SUBSET Nat]]
    /\ edits \in 0..MaxEdits /\ faults \in 0..MaxFaults

(* The node has run without the optimization so far.                       *)
Init ==
    /\ optimized = FALSE /\ out = {}
    /\ config = BuildConfig(FALSE, {})
    /\ saved = [d \in Names |-> Nowhere]
    /\ bad \in SUBSET {OwnName(s) : s \in MayBeBad}
    /\ phase = "run"
    /\ merged = Nowhere /\ todo = {} /\ writing = {} /\ clean = FALSE
    /\ reached = saved
    /\ got = [s \in Source |-> [n \in Logged |-> {}]]
    /\ edits = 0 /\ faults = 0

-----------------------------------------------------------------------------
(* vector.                                                                 *)

Read(d, n) ==
    /\ phase = "run" /\ d \in Targets /\ Watches(d, n)
    /\ reached[d][n] < Lines[n]
    /\ LET p == reached[d][n] + 1
       IN  /\ reached' = [reached EXCEPT ![d][n] = p]
           /\ got' = [s \in Source |->
                        [got[s] EXCEPT ![n] =
                            IF config[s].name = d /\ n \in config[s].stream THEN @ \cup {p} ELSE @]]
    /\ UNCHANGED <<optimized, out, config, disk, phase, merger, edits, faults>>

Save(d) ==
    /\ phase = "run" /\ d \in Targets
    /\ saved[d] # reached[d] \/ d \in bad
    /\ saved' = [saved EXCEPT ![d] = reached[d]]
    /\ bad' = bad \ {d}
    /\ UNCHANGED <<optimized, out, config, phase, merger, reached, got, edits, faults>>

(* A vector that starts takes the positions of its own directory.          *)
Loaded(d) == IF d \in bad THEN Nowhere ELSE saved[d]

-----------------------------------------------------------------------------
(* Changes of the config.                                                  *)

NewPod ==
    /\ phase' = "start" /\ clean' = TRUE
    /\ reached' = [d \in Dirs |-> Nowhere]
    /\ merged' = Nowhere /\ todo' = {} /\ writing' = {}

(* The flag or the annotation of the agent: another config Secret, so the  *)
(* DaemonSet rolls.                                                        *)
SwitchMode ==
    /\ edits < MaxEdits /\ edits' = edits + 1
    /\ optimized' = ~optimized
    /\ config' = BuildConfig(optimized', out)
    /\ NewPod
    /\ UNCHANGED <<out, disk, got, faults>>

(* The annotation of a pipeline: vector reloads the config in place.  The  *)
(* sources that keep their name keep their positions.                      *)
ToggleOptOut(s) ==
    /\ phase = "run" /\ edits < MaxEdits /\ edits' = edits + 1
    /\ s \in MayOptOut
    /\ out' = IF s \in out THEN out \ {s} ELSE out \cup {s}
    /\ config' = BuildConfig(optimized, out')
    /\ reached' = [d \in Dirs |-> IF d \notin SourcesOf(config') THEN Nowhere
                                   ELSE IF d \in Targets THEN reached[d] ELSE Loaded(d)]
    /\ UNCHANGED <<optimized, disk, phase, merger, got, faults>>

Fault == faults < MaxFaults /\ faults' = faults + 1

(* The pod is killed, in whatever it does, and starts again.               *)
Kill ==
    /\ Fault
    /\ NewPod
    /\ UNCHANGED <<optimized, out, config, disk, got, edits>>

-----------------------------------------------------------------------------
(* checkpoint_merger: it fails open.                                       *)

Run ==
    /\ phase' = "run"
    /\ reached' = [d \in Dirs |-> IF d \in Targets THEN Loaded(d) ELSE Nowhere]
    /\ merged' = Nowhere /\ todo' = {} /\ writing' = {} /\ clean' = FALSE
    /\ UNCHANGED <<optimized, out, config, disk, got, edits>>

(* The config or the data directory cannot be read.                        *)
SkipMerge ==
    /\ phase = "start" /\ Fault
    /\ Run

(* Plausible bug: the first position found is kept.                        *)
CollectAny ==
    /\ phase = "start"
    /\ phase' = "merge"
    /\ \E d \in Readable : merged' = saved[d]
    /\ todo' = Targets
    /\ UNCHANGED <<optimized, out, config, disk, writing, clean, reached, got, edits, faults>>

(* The first half of Consolidate.                                          *)
Collect ==
    /\ phase = "start"
    /\ phase' = "merge"
    /\ merged' = [n \in Logged |-> Known(n)]
    /\ todo' = IF merged' = Nowhere THEN {} ELSE Targets
    /\ UNCHANGED <<optimized, out, config, disk, writing, clean, reached, got, edits, faults>>

(* The targets are sorted by name: some order, the same every time.        *)
First(ds) == CHOOSE d \in ds : TRUE

(* What is ahead of the target; an entry that is missing is at zero.       *)
Ahead(d) == {n \in Logged : merged[n] > saved[d][n]}

(* Plausible bug: a target that cannot be read fails the init container,   *)
(* which is started again.                                                 *)
FailOnBad(d) ==
    /\ phase = "merge" /\ todo # {} /\ d = First(todo)
    /\ d \in bad \/ Ahead(d) = {}
    /\ IF d \in bad THEN NewPod
       ELSE todo' = todo \ {d} /\ UNCHANGED <<phase, merged, writing, clean, reached>>
    /\ UNCHANGED <<optimized, out, config, disk, got, edits, faults>>

(* A target that cannot be read, or has nothing to gain, is left alone.    *)
PassTarget(d) ==
    /\ phase = "merge" /\ todo # {} /\ d = First(todo)
    /\ d \notin Readable \/ Ahead(d) = {}
    /\ todo' = todo \ {d}
    /\ UNCHANGED <<optimized, out, config, disk, phase, merged, writing, clean, reached, got, edits, faults>>

(* Plausible bug: the checkpoint file is written in place.                 *)
WriteInPlace(d) ==
    /\ phase = "merge" /\ todo # {} /\ d = First(todo)
    /\ d \notin bad /\ Ahead(d) # {}
    /\ phase' = "write" /\ writing' = {d}
    /\ bad' = bad \cup {d}
    /\ UNCHANGED <<optimized, out, config, saved, merged, todo, clean, reached, got, edits, faults>>

(* writeCheckpoints: the temporary file, which nobody reads ...            *)
WriteTemporary(d) ==
    /\ phase = "merge" /\ todo # {} /\ d = First(todo)
    /\ d \in Readable /\ Ahead(d) # {}
    /\ phase' = "write" /\ writing' = {d}
    /\ UNCHANGED <<optimized, out, config, disk, merged, todo, clean, reached, got, edits, faults>>

(* Plausible bug: the positions of a file are added up.                    *)
RenameSums(d) ==
    /\ phase = "write" /\ d \in writing
    /\ saved' = [saved EXCEPT ![d] = [n \in Logged |-> merged[n] + saved[d][n]]]
    /\ bad' = bad \ {d}
    /\ phase' = "merge" /\ todo' = todo \ {d} /\ writing' = {}
    /\ UNCHANGED <<optimized, out, config, merged, clean, reached, got, edits, faults>>

(* ... and the rename.                                                     *)
Rename(d) ==
    /\ phase = "write" /\ d \in writing
    /\ saved' = [saved EXCEPT ![d] = [n \in Logged |-> IF n \in Ahead(d) THEN merged[n] ELSE saved[d][n]]]
    /\ bad' = bad \ {d}
    /\ phase' = "merge" /\ todo' = todo \ {d} /\ writing' = {}
    /\ UNCHANGED <<optimized, out, config, merged, clean, reached, got, edits, faults>>

(* A target that cannot be written is skipped.                             *)
SkipTarget(d) ==
    /\ phase = "write" /\ d \in writing /\ Fault
    /\ phase' = "merge" /\ todo' = todo \ {d} /\ writing' = {}
    /\ clean' = FALSE
    /\ UNCHANGED <<optimized, out, config, disk, merged, reached, got, edits>>

Finish ==
    /\ phase = "merge" /\ todo = {}
    /\ Run
    /\ UNCHANGED faults

-----------------------------------------------------------------------------

Merger ==
    \/ Collect \/ Finish
    \/ \E d \in Dirs : PassTarget(d) \/ WriteTemporary(d) \/ Rename(d)

Environment ==
    \/ \E d \in Dirs, n \in Logged : Read(d, n)
    \/ \E d \in Dirs : Save(d) \/ SkipTarget(d)
    \/ \E s \in Source : ToggleOptOut(s)
    \/ SwitchMode \/ Kill \/ SkipMerge

(* vector goes on reading a file that grows no further.                    *)
Idle == phase = "run" /\ UNCHANGED vars

Next == Merger \/ Environment \/ Idle

Spec == Init /\ [][Next]_vars

(* The kubelet runs the init container, and the merger runs to its end.    *)
FairSpec == Spec /\ WF_vars(Merger)

-----------------------------------------------------------------------------

(* A step of the merger never loses or lowers a position of a directory,   *)
(* not even the last step before the pod is killed (Consolidate: "never    *)
(* deletes anything").                                                     *)
NeverLowers ==
    [][(phase \in {"merge", "write"}) =>
        \A d \in Dirs \ bad, n \in Logged : d \notin bad' /\ saved'[d][n] >= saved[d][n]]_vars

(* A vector that starts after a merge that skipped nothing resumes every   *)
(* file at the highest position any readable directory has for it, in all  *)
(* sources of the new config, those of a directory that survived from an   *)
(* earlier mode too (Consolidate).  A rollback to the legacy config is no  *)
(* exception: it carries over what the optimized sources have read, where  *)
(* docs/config-optimization.md lets it restore the positions saved before. *)
ResumesAtHighest ==
    [][(phase = "merge" /\ phase' = "run" /\ clean) =>
        \A d \in Targets \ bad, n \in Logged : reached'[d][n] = Known(n)]_vars

(* The only source with an interest in a file.                             *)
Alone(s) ==
    s \notin Wide /\ \A t \in Source \ {s} : NsOf[s] \notin Stream(t)

(* The consumer of a file that no other source reads receives every line   *)
(* of it before any checkpoint or any running source is past that line,    *)
(* through switches of the mode, opt-outs, merges and kills: whatever the  *)
(* merger carries over and the routes pass on, nothing is skipped.         *)
NothingSkipped ==
    \A s \in Source, d \in Dirs :
        LET n == NsOf[s]
        IN  n \in Logged /\ Alone(s) =>
                1..reached[d][n] \subseteq got[s][n] /\ 1..saved[d][n] \subseteq got[s][n]

(* docs/config-optimization.md: whatever the mode and whoever opts out,    *)
(* every consumer receives exactly the events of the source its pipeline   *)
(* declares, and only sources of the same settings share a name            *)
(* (optimizeAgentSources and collapseSourceGroup).                         *)
ConfigFaithful ==
    \A s \in Source :
        /\ config[s].stream = Stream(s)
        /\ \A t \in Source : config[s].name = config[t].name => SigOf[s] = SigOf[t]

(* The agent starts, whatever the merger finds: it fails open.             *)
AgentStarts == []<>(phase = "run")

(* docs/config-optimization.md: the worst case is a redelivery, so every   *)
(* consumer, sharing its file or not, has received what its source is past *)
(* in the checkpoints it starts from.                                      *)
NoLineLost ==
    \A s \in Source :
        LET n == NsOf[s]
        IN  s \notin Wide /\ n \in Logged /\ phase = "run" =>
                1..reached[config[s].name][n] \subseteq got[s][n]
=============================================================================
