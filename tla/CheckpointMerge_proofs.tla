----------------------- MODULE CheckpointMerge_proofs -----------------------
(***************************************************************************)
(* The optimized config serves every consumer what its own source would,   *)
(* and the merger carries the positions over without skipping a line, for  *)
(* any sources, namespaces, files, hash, digest, opt-outs and limits.      *)
(***************************************************************************)
EXTENDS CheckpointMerge, FiniteSetTheorems, WellFoundedInduction, TLAPS

(* A collapsed source is a member of its group, so its namespace is in the *)
(* chunk its route is behind (collapseSourceGroup).                        *)
LEMMA OwnChunk ==
    ASSUME NEW x, NEW s \in Source, Collapsed(x, s)
    PROVE  NsOf[s] \in ChunkNamespaces(x, SigOf[s], Chunk(x, SigOf[s], NsOf[s]))
<1>1. s \in Group(x, SigOf[s])
  BY DEF Collapsed, Group
<1>2. NsOf[s] \in NamespacesOf(x, SigOf[s])
  BY <1>1 DEF NamespacesOf
<1> QED
  BY <1>2 DEF ChunkNamespaces

(* The chunk, the bucket and the route of a collapsed source let exactly   *)
(* the events of its own namespace through, however many buckets there     *)
(* are and wherever the digests put the namespaces.                        *)
LEMMA StreamPreserved ==
    ASSUME NEW x, NEW s \in Source
    PROVE  RoutedStream(x, s) = Stream(s)
<1>1. CASE Collapsed(x, s)
  <2> DEFINE o == RouteOutput(x, s)
  <2>1. /\ NsOf[s] \in o.watched
        /\ o.route = NsOf[s]
        /\ o.bucket = Bucket(NsOf[s], o.buckets)
    BY <1>1, OwnChunk DEF RouteOutput
  <2> HIDE DEF o
  <2>2. \A n : Passes(o, n) <=> n = NsOf[s]
    BY <2>1 DEF Passes
  <2>3. s \notin Wide
    BY <1>1 DEF Collapsed
  <2> QED
    BY <1>1, <2>2, <2>3 DEF RoutedStream, Stream, o
<1>2. CASE ~Collapsed(x, s)
  BY <1>2 DEF RoutedStream
<1> QED
  BY <1>1, <1>2

LEMMA ClashesFinite ==
    ASSUME NEW x, NEW g
    PROVE  IsFiniteSet(Clashes(x, g))
<1>1. Clashes(x, g) \subseteq Signature
  BY DEF Clashes, Grouped
<1> QED
  BY <1>1, FS_Subset, SourceAssumption

(* Of two groups with the same hash the later one has one more "x": it     *)
(* counts the earlier one and everything the earlier one counts.           *)
LEMMA LaterHasMoreClashes ==
    ASSUME NEW x, NEW g \in Grouped(x), NEW h \in Grouped(x),
           Hash[g] = Hash[h], g < h
    PROVE  Cardinality(Clashes(x, g)) # Cardinality(Clashes(x, h))
<1>1. g \in Nat /\ h \in Nat /\ Grouped(x) \subseteq Nat
  BY SourceAssumption DEF Grouped
<1>2. Clashes(x, g) \subseteq Clashes(x, h)
  BY <1>1 DEF Clashes
<1>3. g \in Clashes(x, h) /\ g \notin Clashes(x, g)
  BY <1>1 DEF Clashes
<1>4. Clashes(x, g) # Clashes(x, h)
  BY <1>3
<1> QED
  BY <1>2, <1>4, ClashesFinite, FS_Subset

(* Sources of different settings never share a name, although the hash of  *)
(* their settings may be the same (the loop that appends "x").             *)
LEMMA NamesTellSignatures ==
    ASSUME NEW x, NEW s \in Source, NEW t \in Source, NameOf(x, s) = NameOf(x, t)
    PROVE  SigOf[s] = SigOf[t]
<1>1. CASE ~Collapsed(x, s) /\ ~Collapsed(x, t)
  BY <1>1 DEF NameOf, OwnName
<1>2. CASE Collapsed(x, s) /\ Collapsed(x, t)
  <2> DEFINE g == SigOf[s]
             h == SigOf[t]
  <2>1. g \in Grouped(x) /\ h \in Grouped(x)
    BY <1>2 DEF Collapsed
  <2>2. Hash[g] = Hash[h] /\ Cardinality(Clashes(x, g)) = Cardinality(Clashes(x, h))
    BY <1>2 DEF NameOf, GroupName
  <2>3. g \in Nat /\ h \in Nat
    BY SourceAssumption
  <2>4. ~(g < h) /\ ~(h < g)
    BY <2>1, <2>2, LaterHasMoreClashes
  <2> QED
    BY <2>3, <2>4
<1>3. CASE Collapsed(x, s) # Collapsed(x, t)
  <2>1. NameOf(x, s).own # NameOf(x, t).own
    BY <1>3 DEF NameOf, GroupName, OwnName, Collapsed
  <2> QED
    BY <2>1
<1> QED
  BY <1>1, <1>2, <1>3 DEF Collapsed

LEMMA BuildFaithful ==
    ASSUME NEW opt \in BOOLEAN, NEW x, NEW s \in Source, NEW t \in Source
    PROVE  /\ BuildConfig(opt, x)[s].stream = Stream(s)
           /\ BuildConfig(opt, x)[s].name = BuildConfig(opt, x)[t].name => SigOf[s] = SigOf[t]
<1>1. CASE opt
  BY <1>1, StreamPreserved, NamesTellSignatures DEF BuildConfig
<1>2. CASE ~opt
  BY <1>2 DEF BuildConfig, OwnName
<1> QED
  BY <1>1, <1>2

-----------------------------------------------------------------------------

(* The mounted config is always the one of the current mode and opt-outs.  *)
ConfigCurrent ==
    optimized \in BOOLEAN /\ config = BuildConfig(optimized, out)

LEMMA ConfigFollows == Spec => []ConfigCurrent
<1>1. Init => ConfigCurrent
  BY DEF Init, ConfigCurrent
<1>2. ConfigCurrent /\ [Next]_vars => ConfigCurrent'
  <2> SUFFICES ASSUME ConfigCurrent, [Next]_vars
               PROVE  ConfigCurrent'
    OBVIOUS
  <2> USE DEF ConfigCurrent
  <2>1. CASE SwitchMode
    BY <2>1 DEF SwitchMode
  <2>2. ASSUME NEW s \in Source, ToggleOptOut(s)
        PROVE  ConfigCurrent'
    BY <2>2 DEF ToggleOptOut
  <2>3. CASE Merger
    <3>1. UNCHANGED <<optimized, out, config>>
      BY <2>3 DEF Merger, Collect, Finish, Run, PassTarget, WriteTemporary, Rename
    <3> QED
      BY <3>1
  <2>4. CASE \/ \E d \in Dirs, n \in Logged : Read(d, n)
             \/ \E d \in Dirs : Save(d) \/ SkipTarget(d)
             \/ Kill \/ SkipMerge \/ Idle
    <3>1. UNCHANGED <<optimized, out, config>>
      BY <2>4 DEF Read, Save, SkipTarget, Kill, SkipMerge, Run, Idle, vars
    <3> QED
      BY <3>1
  <2>5. CASE UNCHANGED vars
    BY <2>5 DEF vars
  <2> QED
    BY <2>1, <2>2, <2>3, <2>4, <2>5 DEF Next, Environment
<1> QED
  BY <1>1, <1>2, PTL DEF Spec

(* For every set of sources and every choice of limits: whatever the mode, *)
(* the opt-outs, the chunks and the buckets, each consumer receives        *)
(* exactly the events of the source its pipeline declares, and only        *)
(* sources of the same settings share a name (BuildAgentConfig).           *)
THEOREM ConfigsAreFaithful == Spec => []ConfigFaithful
<1>1. ConfigCurrent => ConfigFaithful
  BY BuildFaithful DEF ConfigCurrent, ConfigFaithful
<1> QED
  BY <1>1, ConfigFollows, PTL

-----------------------------------------------------------------------------
(* The highest of a set of positions.                                      *)

LEMMA LeastExists ==
    ASSUME NEW T \in SUBSET Nat, T # {}
    PROVE  \E p \in T : \A q \in T : p <= q
<1>1. IsWellFoundedOn(OpToRel(<, Nat), Nat)
  BY NatLessThanWellFounded
<1>2. PICK p \in T : \A q \in T : ~ (<<q, p>> \in OpToRel(<, Nat))
  BY <1>1, WFMin
<1>3. \A q \in T : ~(q < p)
  BY <1>2 DEF OpToRel
<1> QED
  BY <1>3

LEMMA GreatestExists ==
    ASSUME NEW b \in Nat, NEW S \in SUBSET (0..b), S # {}
    PROVE  \E p \in S : \A q \in S : q <= p
<1> DEFINE T == {b - q : q \in S}
<1>1. T \in SUBSET Nat /\ T # {}
  <2>1. \A q \in S : b - q \in Nat
    OBVIOUS
  <2>2. PICK q \in S : TRUE
    OBVIOUS
  <2>3. b - q \in T
    OBVIOUS
  <2> QED
    BY <2>1, <2>3
<1>2. PICK t \in T : \A u \in T : t <= u
  BY <1>1, LeastExists
<1>3. PICK p \in S : t = b - p
  OBVIOUS
<1>4. \A q \in S : q <= p
  <2> TAKE q \in S
  <2>1. t <= b - q
    BY <1>2
  <2>2. p \in 0..b /\ q \in 0..b
    OBVIOUS
  <2> QED
    BY <1>3, <2>1, <2>2
<1> QED
  BY <1>4

(* Highest is right: p is the highest of the positions S, or zero when     *)
(* there is none.                                                          *)
IsHighest(p, S) ==
    IF S = {} THEN p = 0 ELSE p \in S /\ \A q \in S : q <= p

LEMMA HighestIsHighest ==
    ASSUME NEW b \in Nat, NEW S \in SUBSET (0..b)
    PROVE  IsHighest(Highest(S), S)
<1>1. CASE S = {}
  BY <1>1 DEF Highest, IsHighest
<1>2. CASE S # {}
  <2>1. \E p \in S : \A q \in S : q <= p
    BY <1>2, GreatestExists
  <2> QED
    BY <1>2, <2>1 DEF Highest, IsHighest
<1> QED
  BY <1>1, <1>2

LEMMA HighestUnique ==
    ASSUME NEW b \in Nat, NEW S \in SUBSET (0..b), NEW p, IsHighest(p, S)
    PROVE  p = Highest(S)
<1>1. IsHighest(Highest(S), S)
  BY HighestIsHighest
<1>2. CASE S = {}
  BY <1>1, <1>2 DEF IsHighest
<1>3. CASE S # {}
  <2>1. PICK h \in S : h = Highest(S) /\ p <= h
    BY <1>1, <1>3 DEF IsHighest
  <2>2. p \in S /\ h <= p
    BY <1>3 DEF IsHighest
  <2>3. h \in 0..b /\ p \in 0..b
    BY <2>2
  <2> QED
    BY <2>1, <2>2, <2>3
<1> QED
  BY <1>2, <1>3

-----------------------------------------------------------------------------
(* Types.                                                                  *)

Positions == [Names -> [Logged -> Nat]]

(* No position is past the end of its file.                                *)
WithinFiles(f) == \A d \in Names, n \in Logged : f[d][n] <= Lines[n]

Typed ==
    /\ ConfigCurrent /\ out \subseteq MayOptOut
    /\ saved \in Positions /\ WithinFiles(saved)
    /\ reached \in Positions /\ WithinFiles(reached)
    /\ bad \subseteq Names
    /\ phase \in {"start", "merge", "write", "run"}
    /\ merged \in [Logged -> Nat] /\ \A n \in Logged : merged[n] <= Lines[n]
    /\ todo \subseteq Names /\ writing \subseteq Readable
    /\ clean \in BOOLEAN
    /\ got \in [Source -> [Logged -> SUBSET Nat]]
    /\ edits \in 0..MaxEdits /\ faults \in 0..MaxFaults

(* Every name a config may have is the name of a directory.                *)
LEMMA NamesCover ==
    ASSUME NEW opt \in BOOLEAN, NEW x \in SUBSET MayOptOut
    PROVE  SourcesOf(BuildConfig(opt, x)) \subseteq Names
BY DEF Names

LEMMA OwnNames ==
    ASSUME NEW s \in Source
    PROVE  OwnName(s) \in Names
<1>1. OwnName(s) \in SourcesOf(BuildConfig(FALSE, {}))
  BY DEF SourcesOf, BuildConfig
<1> QED
  BY <1>1, NamesCover

LEMMA TargetsAreDirs ==
    ASSUME Typed
    PROVE  Targets \subseteq Names /\ Dirs = Names
BY NamesCover DEF Typed, ConfigCurrent, Targets, Dirs, Positions

LEMMA KnownIsHighest ==
    ASSUME Typed, NEW n \in Logged
    PROVE  /\ IsHighest(Known(n), {saved[d][n] : d \in Readable})
           /\ {saved[d][n] : d \in Readable} \in SUBSET (0..Lines[n])
           /\ Known(n) \in 0..Lines[n]
<1> DEFINE S == {saved[d][n] : d \in Readable}
<1>1. Lines[n] \in Nat
  BY MergeAssumption
<1>2. S \in SUBSET (0..Lines[n])
  <2> SUFFICES ASSUME NEW d \in Readable
               PROVE  saved[d][n] \in 0..Lines[n]
    OBVIOUS
  <2>1. d \in Names
    BY TargetsAreDirs DEF Readable
  <2> QED
    BY <1>1, <2>1 DEF Typed, Positions, WithinFiles
<1>3. IsHighest(Known(n), S)
  BY <1>1, <1>2, HighestIsHighest DEF Known
<1>4. Known(n) \in 0..Lines[n]
  <2>1. CASE S = {}
    BY <1>1, <1>3, <2>1 DEF IsHighest
  <2>2. CASE S # {}
    <3>1. Known(n) \in S
      BY <1>3, <2>2 DEF IsHighest
    <3> QED
      BY <1>2, <3>1
  <2> QED
    BY <2>1, <2>2
<1> QED
  BY <1>2, <1>3, <1>4

LEMMA NowhereTyped ==
    /\ Nowhere \in [Logged -> Nat]
    /\ \A n \in Logged : Nowhere[n] = 0 /\ Lines[n] \in Nat /\ Nowhere[n] <= Lines[n]
BY MergeAssumption DEF Nowhere

LEMMA LoadedTyped ==
    ASSUME Typed, NEW d \in Names
    PROVE  /\ Loaded(d) \in [Logged -> Nat]
           /\ \A n \in Logged : Loaded(d)[n] <= Lines[n]
BY NowhereTyped DEF Typed, Loaded, Positions, WithinFiles

(* A pod that starts.                                                      *)
LEMMA NewPodTyped ==
    ASSUME Typed, NewPod
    PROVE  /\ reached' \in Positions /\ WithinFiles(reached)'
           /\ phase' = "start" /\ clean' = TRUE
           /\ merged' \in [Logged -> Nat] /\ \A n \in Logged : merged'[n] <= Lines[n]
           /\ todo' = {} /\ writing' = {}
BY NowhereTyped, TargetsAreDirs DEF NewPod, Positions, WithinFiles

LEMMA RunTyped ==
    ASSUME Typed, Run, faults' \in 0..MaxFaults
    PROVE  Typed'
<1>1. reached' \in Positions /\ WithinFiles(reached)'
  BY NowhereTyped, LoadedTyped, TargetsAreDirs DEF Run, Positions, WithinFiles
<1> QED
  BY <1>1, NowhereTyped DEF Run, Typed, ConfigCurrent, disk, Readable, Dirs

LEMMA TypedInductive == Typed /\ [Next]_vars => Typed'
<1> SUFFICES ASSUME Typed, [Next]_vars
             PROVE  Typed'
  OBVIOUS
<1> USE MergeAssumption
<1>0. Dirs = Names /\ Targets \subseteq Names
  BY TargetsAreDirs
<1>1. ASSUME NEW d \in Dirs, NEW n \in Logged, Read(d, n)
      PROVE  Typed'
  <2>1. reached' \in Positions /\ WithinFiles(reached)'
    BY <1>0, <1>1 DEF Read, Typed, Positions, WithinFiles
  <2>2. got' \in [Source -> [Logged -> SUBSET Nat]]
    BY <1>0, <1>1 DEF Read, Typed, Positions
  <2> QED
    BY <1>1, <2>1, <2>2 DEF Read, Typed, ConfigCurrent, disk, merger, Readable, Dirs
<1>2. ASSUME NEW d \in Dirs, Save(d)
      PROVE  Typed'
  <2>1. saved' \in Positions /\ WithinFiles(saved)'
    BY <1>0, <1>2 DEF Save, Typed, Positions, WithinFiles
  <2>2. writing' \subseteq Readable'
    BY <1>0, <1>2, <2>1 DEF Save, Typed, Positions, merger, Readable, Dirs
  <2> QED
    BY <1>2, <2>1, <2>2 DEF Save, Typed, ConfigCurrent, merger
<1>3. CASE SwitchMode
  <2>1. NewPod
    BY <1>3 DEF SwitchMode
  <2>2. ConfigCurrent' /\ edits' \in 0..MaxEdits
    BY <1>3 DEF SwitchMode, Typed, ConfigCurrent
  <2> QED
    BY <1>3, <2>1, <2>2, NewPodTyped DEF SwitchMode, Typed, disk
<1>4. ASSUME NEW s \in Source, ToggleOptOut(s)
      PROVE  Typed'
  <2>1. reached' \in Positions /\ WithinFiles(reached)'
    BY <1>0, <1>4, NowhereTyped, LoadedTyped DEF ToggleOptOut, Typed, Positions, WithinFiles
  <2>2. out' \subseteq MayOptOut
    BY <1>4 DEF ToggleOptOut, Typed
  <2> QED
    BY <1>4, <2>1, <2>2 DEF ToggleOptOut, Typed, ConfigCurrent, disk, merger, Readable, Dirs
<1>5. CASE Kill
  <2>1. NewPod
    BY <1>5 DEF Kill
  <2>2. faults' \in 0..MaxFaults
    BY <1>5 DEF Kill, Fault, Typed
  <2> QED
    BY <1>5, <2>1, <2>2, NewPodTyped DEF Kill, Typed, ConfigCurrent, disk
<1>6. CASE SkipMerge
  BY <1>6, RunTyped DEF SkipMerge, Fault, Typed
<1>7. CASE Collect
  <2>1. \A n \in Logged : Known(n) \in Nat /\ Known(n) <= Lines[n]
    <3> TAKE n \in Logged
    <3>1. Known(n) \in 0..Lines[n]
      BY KnownIsHighest
    <3> QED
      BY <3>1
  <2>2. merged' \in [Logged -> Nat] /\ \A n \in Logged : merged'[n] <= Lines[n]
    BY <1>7, <2>1 DEF Collect
  <2> QED
    BY <1>0, <1>7, <2>2 DEF Collect, Typed, ConfigCurrent, disk, Readable, Dirs
<1>8. ASSUME NEW d \in Dirs, PassTarget(d)
      PROVE  Typed'
  BY <1>8 DEF PassTarget, Typed, ConfigCurrent, disk, Readable, Dirs
<1>9. ASSUME NEW d \in Dirs, WriteTemporary(d)
      PROVE  Typed'
  BY <1>9 DEF WriteTemporary, Typed, ConfigCurrent, disk, Readable, Dirs
<1>10. ASSUME NEW d \in Dirs, Rename(d)
       PROVE  Typed'
  <2>1. saved' \in Positions /\ WithinFiles(saved)'
    BY <1>0, <1>10 DEF Rename, Typed, Positions, WithinFiles, Ahead
  <2> QED
    BY <1>10, <2>1 DEF Rename, Typed, ConfigCurrent
<1>11. ASSUME NEW d \in Dirs, SkipTarget(d)
       PROVE  Typed'
  <2>1. faults' \in 0..MaxFaults
    BY <1>11 DEF SkipTarget, Fault, Typed
  <2> QED
    BY <1>11, <2>1 DEF SkipTarget, Typed, ConfigCurrent, disk
<1>12. CASE Finish
  BY <1>12, RunTyped DEF Finish, Typed
<1>13. CASE UNCHANGED vars
  BY <1>13 DEF vars, disk, merger, Typed, ConfigCurrent, Readable, Dirs, WithinFiles
<1> QED
  BY <1>1, <1>2, <1>3, <1>4, <1>5, <1>6, <1>7, <1>8, <1>9, <1>10, <1>11, <1>12, <1>13
  DEF Next, Merger, Environment, Idle

LEMMA TypedInitially == Init => Typed
<1> SUFFICES ASSUME Init
             PROVE  Typed
  OBVIOUS
<1>1. saved \in Positions /\ WithinFiles(saved)
  BY NowhereTyped DEF Init, Positions, WithinFiles
<1>2. bad \subseteq Names
  BY OwnNames, MergeAssumption DEF Init
<1>3. got \in [Source -> [Logged -> SUBSET Nat]]
  BY DEF Init
<1>4. ConfigCurrent
  BY DEF Init, ConfigCurrent
<1>5. edits \in 0..MaxEdits /\ faults \in 0..MaxFaults
  BY MergeAssumption DEF Init
<1> QED
  BY <1>1, <1>2, <1>3, <1>4, <1>5, NowhereTyped DEF Init, Typed

LEMMA AlwaysTyped == Spec => []Typed
BY TypedInitially, TypedInductive, PTL DEF Spec

(* For any sources, files, modes and opt-outs: every source of a config    *)
(* has its directory, and no position in a checkpoint file or in a running *)
(* vector is past the end of its file.                                     *)
THEOREM TypeCorrect == Spec => []TypeOK
<1>1. Typed => TypeOK
  <2> SUFFICES ASSUME Typed
               PROVE  TypeOK
    OBVIOUS
  <2>1. Dirs = Names /\ Targets \subseteq Dirs /\ DOMAIN reached = Dirs
    BY TargetsAreDirs DEF Typed, Positions
  <2>2. \A d \in Dirs, n \in Logged :
          saved[d][n] \in 0..Lines[n] /\ reached[d][n] \in 0..Lines[n]
    BY <2>1, MergeAssumption DEF Typed, Positions, WithinFiles
  <2> QED
    BY <2>1, <2>2 DEF Typed, TypeOK, ConfigCurrent, Readable
<1> QED
  BY <1>1, AlwaysTyped, PTL

-----------------------------------------------------------------------------
(* The merge.                                                              *)

(* From Collect to Finish the positions collected stay the highest of all  *)
(* readable directories, although the directories are being written, and a *)
(* target that was done without a fault has them.                          *)
MergeInv ==
    phase \in {"merge", "write"} =>
        /\ \A n \in Logged : IsHighest(merged[n], {saved[d][n] : d \in Readable})
        /\ clean => \A d \in (Targets \cap Readable) \ todo, n \in Logged : saved[d][n] = merged[n]

(* Nothing the merge depends on changes.                                   *)
LEMMA MergeInvStays ==
    ASSUME MergeInv, UNCHANGED <<config, saved, bad, merged>>,
           phase' \in {"merge", "write"}, phase \in {"merge", "write"},
           clean' => /\ clean
                     /\ \A d \in (Targets \cap Readable) \cap (todo \ todo'), n \in Logged :
                            saved[d][n] = merged[n]
    PROVE  MergeInv'
<1>1. Readable' = Readable /\ Targets' = Targets
  BY DEF Readable, Dirs, Targets
<1> QED
  BY <1>1 DEF MergeInv

LEMMA MergeInvInductive == Typed /\ MergeInv /\ [Next]_vars => MergeInv'
<1> SUFFICES ASSUME Typed, MergeInv, [Next]_vars
             PROVE  MergeInv'
  OBVIOUS
<1>0. Dirs = Names /\ Targets \subseteq Names
  BY TargetsAreDirs
<1>1. CASE phase' \notin {"merge", "write"}
  BY <1>1 DEF MergeInv
<1>2. CASE Collect
  <2>1. Readable' = Readable /\ saved' = saved /\ Targets' = Targets
    BY <1>2 DEF Collect, disk, Readable, Dirs, Targets
  <2>2. \A n \in Logged : merged'[n] = Known(n)
    BY <1>2 DEF Collect
  <2>3. \A n \in Logged : IsHighest(merged'[n], {saved[d][n] : d \in Readable})
    BY <2>2, KnownIsHighest
  <2>4. ASSUME NEW d \in (Targets \cap Readable) \ todo', NEW n \in Logged
        PROVE  saved[d][n] = merged'[n]
    <3>1. merged' = Nowhere
      BY <1>2, <2>4 DEF Collect
    <3>2. saved[d][n] <= 0
      BY <2>3, <2>4, <3>1, NowhereTyped DEF IsHighest
    <3>3. saved[d][n] \in Nat
      BY <1>0, <2>4 DEF Typed, Positions
    <3> QED
      BY <3>1, <3>2, <3>3, NowhereTyped
  <2>5. \A n \in Logged : IsHighest(merged'[n], {saved'[d][n] : d \in Readable'})
    BY <2>1, <2>3
  <2>6. \A d \in (Targets' \cap Readable') \ todo', n \in Logged : saved'[d][n] = merged'[n]
    BY <2>1, <2>4
  <2> QED
    BY <2>5, <2>6 DEF MergeInv
<1>3. ASSUME NEW d \in Dirs, PassTarget(d)
      PROVE  MergeInv'
  <2>1. phase = "merge" /\ phase' = "merge" /\ UNCHANGED <<config, saved, bad, merged, clean>>
        /\ todo' = todo \ {d}
    BY <1>3 DEF PassTarget, disk
  <2>2. ASSUME d \in Readable, NEW n \in Logged
        PROVE  saved[d][n] = merged[n]
    <3>1. ~(merged[n] > saved[d][n])
      BY <1>3, <2>2 DEF PassTarget, Ahead
    <3>2. saved[d][n] <= merged[n]
      BY <2>1, <2>2 DEF MergeInv, IsHighest
    <3>3. saved[d][n] \in Nat /\ merged[n] \in Nat
      BY <1>0 DEF Typed, Positions
    <3> QED
      BY <3>1, <3>2, <3>3
  <2> QED
    BY <2>1, <2>2, MergeInvStays
<1>4. ASSUME NEW d \in Dirs, WriteTemporary(d)
      PROVE  MergeInv'
  BY <1>4, MergeInvStays DEF WriteTemporary, disk
<1>5. ASSUME NEW d \in Dirs, Rename(d)
      PROVE  MergeInv'
  <2>1. phase = "write" /\ d \in Readable /\ d \in Names
    BY <1>0, <1>5 DEF Rename, Typed
  <2>2. Readable' = Readable /\ Targets' = Targets /\ UNCHANGED <<merged, clean>> /\ todo' = todo \ {d}
    BY <1>5, <2>1 DEF Rename, Typed, Positions, Readable, Dirs, Targets
  <2>3. ASSUME NEW n \in Logged
        PROVE  /\ saved'[d][n] = merged[n]
               /\ \A e \in Readable \ {d} : saved'[e][n] = saved[e][n]
    <3>1. /\ saved'[d][n] = IF merged[n] > saved[d][n] THEN merged[n] ELSE saved[d][n]
          /\ \A e \in Readable \ {d} : saved'[e][n] = saved[e][n]
      BY <1>0, <1>5, <2>1 DEF Rename, Ahead, Typed, Positions, Readable
    <3>2. saved[d][n] <= merged[n]
      BY <2>1 DEF MergeInv, IsHighest
    <3>3. saved[d][n] \in Nat /\ merged[n] \in Nat
      BY <2>1 DEF Typed, Positions
    <3> QED
      BY <3>1, <3>2, <3>3
  <2>4. ASSUME NEW n \in Logged
        PROVE  IsHighest(merged[n], {saved'[e][n] : e \in Readable})
    <3>1. merged[n] \in {saved'[e][n] : e \in Readable}
      BY <2>1, <2>3
    <3>2. \A e \in Readable : saved'[e][n] <= merged[n]
      <4> TAKE e \in Readable
      <4>1. saved[e][n] <= merged[n]
        BY <2>1 DEF MergeInv, IsHighest
      <4>2. merged[n] \in Nat
        BY DEF Typed
      <4> QED
        BY <2>3, <4>1, <4>2
    <3> QED
      BY <3>1, <3>2 DEF IsHighest
  <2>5. ASSUME clean, NEW e \in (Targets \cap Readable) \ todo', NEW n \in Logged
        PROVE  saved'[e][n] = merged[n]
    BY <2>1, <2>2, <2>3, <2>5 DEF MergeInv
  <2> QED
    BY <2>2, <2>4, <2>5 DEF MergeInv
<1>6. ASSUME NEW d \in Dirs, SkipTarget(d)
      PROVE  MergeInv'
  BY <1>6, MergeInvStays DEF SkipTarget, disk
<1>7. ASSUME NEW s \in Source, ToggleOptOut(s)
      PROVE  MergeInv'
  BY <1>7 DEF ToggleOptOut, MergeInv
<1>8. CASE UNCHANGED vars
  BY <1>8 DEF vars, disk, merger, MergeInv, Readable, Dirs, Targets
<1>9. ASSUME NEW d \in Dirs
      PROVE  /\ Save(d) => MergeInv'
             /\ \A n \in Logged : Read(d, n) => MergeInv'
  BY DEF Save, Read, MergeInv
<1>10. SwitchMode \/ Kill \/ SkipMerge \/ Finish => phase' \in {"start", "run"}
  BY DEF SwitchMode, Kill, NewPod, SkipMerge, Finish, Run
<1> QED
  BY <1>1, <1>2, <1>3, <1>4, <1>5, <1>6, <1>7, <1>8, <1>9, <1>10
  DEF Next, Merger, Environment, Idle

LEMMA MergeIsSound == Spec => [](Typed /\ MergeInv)
<1>1. Init => MergeInv
  BY DEF Init, MergeInv
<1> QED
  BY <1>1, TypedInitially, TypedInductive, MergeInvInductive, PTL DEF Spec

(* For any sources and files: no step of the merger makes a readable       *)
(* directory unreadable or lowers a position in it, whatever is switched,  *)
(* fails or is killed (Consolidate: "never deletes anything").             *)
THEOREM MergerNeverLowers == Spec => NeverLowers
<1>1. ASSUME Typed, [Next]_vars
      PROVE  [(phase \in {"merge", "write"}) =>
                \A d \in Dirs \ bad, n \in Logged :
                    d \notin bad' /\ saved'[d][n] >= saved[d][n]]_vars
  <2> SUFFICES ASSUME phase \in {"merge", "write"}, NEW d \in Dirs \ bad, NEW n \in Logged
               PROVE  d \notin bad' /\ saved'[d][n] >= saved[d][n]
    OBVIOUS
  <2>1. /\ Dirs = Names /\ saved[d][n] \in Nat /\ merged[n] \in Nat
        /\ saved \in Positions
    BY <1>1, TargetsAreDirs DEF Typed, Positions
  <2>2. CASE UNCHANGED disk
    BY <2>1, <2>2 DEF disk
  <2>3. ASSUME NEW e \in Dirs, Rename(e)
        PROVE  d \notin bad' /\ saved'[d][n] >= saved[d][n]
    BY <2>1, <2>3 DEF Rename, Ahead, Positions
  <2>4. CASE UNCHANGED vars
    BY <2>2, <2>4 DEF vars
  <2>5. CASE \/ Collect \/ Finish \/ SwitchMode \/ Kill \/ SkipMerge \/ Idle
             \/ \E e \in Dirs : PassTarget(e) \/ WriteTemporary(e) \/ SkipTarget(e)
    <3>1. UNCHANGED disk
      BY <2>5
      DEF Collect, Finish, Run, SwitchMode, Kill, SkipMerge, Idle, vars,
          PassTarget, WriteTemporary, SkipTarget
    <3> QED
      BY <2>2, <3>1
  <2>6. ASSUME NEW e \in Dirs
        PROVE  ~Save(e) /\ \A m \in Logged : ~Read(e, m)
    BY DEF Save, Read
  <2>7. ASSUME NEW s \in Source
        PROVE  ~ToggleOptOut(s)
    BY DEF ToggleOptOut
  <2> QED
    BY <1>1, <2>3, <2>4, <2>5, <2>6, <2>7 DEF Next, Merger, Environment
<1> QED
  BY <1>1, AlwaysTyped, PTL DEF Spec, NeverLowers

(* For any sources and files: a vector that starts after a merge without a *)
(* fault resumes every file, in every readable target, at the highest      *)
(* position of all readable directories (Consolidate).                     *)
THEOREM ResumesHighest == Spec => ResumesAtHighest
<1>1. ASSUME Typed, MergeInv, [Next]_vars
      PROVE  [(phase = "merge" /\ phase' = "run" /\ clean) =>
                \A d \in Targets \ bad, n \in Logged : reached'[d][n] = Known(n)]_vars
  <2> SUFFICES ASSUME phase = "merge", phase' = "run", clean,
                      NEW d \in Targets \ bad, NEW n \in Logged
               PROVE  reached'[d][n] = Known(n)
    OBVIOUS
  <2>1. todo = {} /\ Run
    <3>1. ASSUME NEW e \in Dirs
          PROVE  /\ ~PassTarget(e) /\ ~WriteTemporary(e) /\ ~Rename(e)
                 /\ ~Save(e) /\ ~SkipTarget(e) /\ \A m \in Logged : ~Read(e, m)
      BY DEF PassTarget, WriteTemporary, Rename, Save, SkipTarget, Read
    <3>2. /\ ~Collect /\ ~SwitchMode /\ ~Kill /\ ~SkipMerge /\ ~Idle
          /\ \A s \in Source : ~ToggleOptOut(s)
      BY DEF Collect, SwitchMode, Kill, NewPod, SkipMerge, Idle, ToggleOptOut
    <3>3. ~UNCHANGED vars
      BY DEF vars
    <3>4. Finish
      BY <1>1, <3>1, <3>2, <3>3 DEF Next, Merger, Environment
    <3> QED
      BY <3>4 DEF Finish
  <2>2. d \in Names /\ d \in Readable
    BY <1>1, TargetsAreDirs DEF Readable
  <2>3. reached'[d][n] = saved[d][n]
    BY <1>1, <2>1, <2>2, TargetsAreDirs DEF Run, Loaded
  <2>4. saved[d][n] = merged[n]
    BY <1>1, <2>1, <2>2 DEF MergeInv
  <2>5. merged[n] = Known(n)
    <3>1. IsHighest(merged[n], {saved[e][n] : e \in Readable})
      BY <1>1 DEF MergeInv
    <3>2. Lines[n] \in Nat /\ {saved[e][n] : e \in Readable} \in SUBSET (0..Lines[n])
      BY <1>1, KnownIsHighest, NowhereTyped
    <3> QED
      BY <3>1, <3>2, HighestUnique DEF Known
  <2> QED
    BY <2>3, <2>4, <2>5
<1> QED
  BY <1>1, MergeIsSound, PTL DEF Spec, ResumesAtHighest

-----------------------------------------------------------------------------
(* Delivery.                                                               *)

(* Of what the consumers got, does that of s have every line of its file   *)
(* up to p?                                                                *)
Delivered(g, s, p) == 1..p \subseteq g[s][NsOf[s]]

(* Wherever a position of the file of a lone source is kept, in a          *)
(* directory, in a running vector or in the merger, its consumer has       *)
(* received every line up to it.                                           *)
DeliveryInv ==
    \A s \in Source :
        NsOf[s] \in Logged /\ Alone(s) =>
            /\ \A d \in Names : /\ Delivered(got, s, saved[d][NsOf[s]])
                                /\ Delivered(got, s, reached[d][NsOf[s]])
            /\ Delivered(got, s, merged[NsOf[s]])

LEMMA NowhereDelivered ==
    ASSUME NEW s \in Source, NsOf[s] \in Logged
    PROVE  Delivered(got, s, Nowhere[NsOf[s]])
BY NowhereTyped DEF Delivered

(* What is known was saved by some directory.                              *)
LEMMA KnownDelivered ==
    ASSUME Typed, DeliveryInv, NEW s \in Source, NsOf[s] \in Logged, Alone(s)
    PROVE  Delivered(got, s, Known(NsOf[s]))
<1> DEFINE n == NsOf[s]
           S == {saved[d][n] : d \in Readable}
<1>1. IsHighest(Known(n), S)
  BY KnownIsHighest
<1>2. CASE S = {}
  <2>1. Known(n) = 0
    BY <1>1, <1>2 DEF IsHighest
  <2> QED
    BY <2>1 DEF Delivered
<1>3. CASE S # {}
  <2>1. PICK d \in Readable : Known(n) = saved[d][n]
    BY <1>1, <1>3 DEF IsHighest
  <2>2. d \in Names
    BY TargetsAreDirs DEF Readable
  <2> QED
    BY <2>1, <2>2 DEF DeliveryInv
<1> QED
  BY <1>2, <1>3

LEMMA DeliveryInductive == Typed /\ DeliveryInv /\ [Next]_vars => DeliveryInv'
<1> SUFFICES ASSUME Typed, DeliveryInv, [Next]_vars,
                    NEW s \in Source, NsOf[s] \in Logged, Alone(s)
             PROVE  /\ \A d \in Names : /\ Delivered(got', s, saved'[d][NsOf[s]])
                                        /\ Delivered(got', s, reached'[d][NsOf[s]])
                    /\ Delivered(got', s, merged'[NsOf[s]])
  BY DEF DeliveryInv
<1> DEFINE n == NsOf[s]
           Saved == \A d \in Names : Delivered(got', s, saved'[d][n])
           Reached == \A d \in Names : Delivered(got', s, reached'[d][n])
           Merged == Delivered(got', s, merged'[n])
<1>a. Dirs = Names /\ Targets \subseteq Names
  BY TargetsAreDirs
<1>b. /\ \A d \in Names : Delivered(got, s, saved[d][n]) /\ Delivered(got, s, reached[d][n])
      /\ Delivered(got, s, merged[n])
  BY DEF DeliveryInv
<1>c. /\ Delivered(got, s, Nowhere[n])
      /\ Delivered(got, s, Known(n))
      /\ \A d \in Names : Delivered(got, s, Loaded(d)[n])
  BY <1>b, NowhereDelivered, KnownDelivered DEF Loaded
<1>1. ASSUME NEW d \in Dirs, NEW m \in Logged, Read(d, m)
      PROVE  Saved /\ Reached /\ Merged
  <2>1. saved' = saved /\ merged' = merged
    BY <1>1 DEF Read, disk, merger
  <2>2. got[s][n] \subseteq got'[s][n]
    BY <1>1 DEF Read, Typed
  <2>3. Saved /\ Merged /\ \A e \in Names : Delivered(got', s, reached[e][n])
    BY <1>b, <2>1, <2>2 DEF Delivered
  <2>4. CASE m # n
    <3>1. \A e \in Names : reached'[e][n] = reached[e][n]
      BY <1>a, <1>1, <2>4 DEF Read, Typed, Positions
    <3> QED
      BY <2>3, <3>1
  <2>5. CASE m = n
    <3>1. config[s].name = d /\ n \in config[s].stream
      <4>1. PICK t \in Source : config[t].name = d /\ n \in Stream(t)
        BY <1>1, <2>5 DEF Read, Watches
      <4>2. t = s
        BY <4>1 DEF Alone
      <4>3. config[s].stream = Stream(s)
        BY BuildFaithful DEF Typed, ConfigCurrent
      <4> QED
        BY <4>1, <4>2, <4>3
    <3>2. got'[s][n] = got[s][n] \cup {reached[d][n] + 1}
      BY <1>1, <2>5, <3>1 DEF Read, Typed
    <3>3. /\ reached'[d][n] = reached[d][n] + 1 /\ reached[d][n] \in Nat
          /\ \A e \in Names \ {d} : reached'[e][n] = reached[e][n]
      BY <1>a, <1>1, <2>5 DEF Read, Typed, Positions
    <3>4. Delivered(got', s, reached'[d][n])
      <4>1. 1..reached[d][n] \subseteq got[s][n]
        BY <1>a, <1>b DEF Delivered
      <4>2. 1..(reached[d][n] + 1) \subseteq got[s][n] \cup {reached[d][n] + 1}
        BY <3>3, <4>1
      <4> QED
        BY <3>2, <3>3, <4>2 DEF Delivered
    <3> QED
      BY <2>3, <3>3, <3>4
  <2> QED
    BY <2>4, <2>5
<1>2. ASSUME NEW d \in Dirs, Save(d)
      PROVE  Saved /\ Reached /\ Merged
  BY <1>a, <1>b, <1>2 DEF Save, merger, Typed, Positions
<1>3. ASSUME NewPod, UNCHANGED <<saved, got>>
      PROVE  Saved /\ Reached /\ Merged
  BY <1>a, <1>b, <1>c, <1>3 DEF NewPod
<1>4. ASSUME NEW t \in Source, ToggleOptOut(t)
      PROVE  Saved /\ Reached /\ Merged
  BY <1>a, <1>b, <1>c, <1>4 DEF ToggleOptOut, disk, merger
<1>5. ASSUME Run
      PROVE  Saved /\ Reached /\ Merged
  BY <1>a, <1>b, <1>c, <1>5 DEF Run, disk
<1>6. CASE Collect
  BY <1>b, <1>c, <1>6 DEF Collect, disk
<1>7. ASSUME NEW d \in Dirs, PassTarget(d) \/ WriteTemporary(d) \/ SkipTarget(d)
      PROVE  Saved /\ Reached /\ Merged
  <2>1. UNCHANGED <<saved, merged, reached, got>>
    BY <1>7 DEF PassTarget, WriteTemporary, SkipTarget, disk
  <2> QED
    BY <1>b, <2>1
<1>8. ASSUME NEW d \in Dirs, Rename(d)
      PROVE  Saved /\ Reached /\ Merged
  BY <1>a, <1>b, <1>8 DEF Rename, Typed, Positions
<1>9. CASE UNCHANGED vars
  BY <1>b, <1>9 DEF vars, disk, merger
<1>10. SwitchMode \/ Kill => NewPod /\ UNCHANGED <<saved, got>>
  BY DEF SwitchMode, Kill, disk
<1>11. SkipMerge \/ Finish => Run
  BY DEF SkipMerge, Finish
<1> QED
  BY <1>1, <1>2, <1>3, <1>4, <1>5, <1>6, <1>7, <1>8, <1>9, <1>10, <1>11
  DEF Next, Merger, Environment, Idle

(* For any sources, files, limits and bounds: through every order of mode  *)
(* switches, opt-outs, merges, failed writes and kills no checkpoint and   *)
(* no running source is past a line that the only consumer of its file has *)
(* not received (Consolidate, writeCheckpoints and collapseSourceGroup).   *)
THEOREM NothingIsSkipped == Spec => []NothingSkipped
<1>1. Init => DeliveryInv
  <2> SUFFICES ASSUME Init, NEW s \in Source, NsOf[s] \in Logged
               PROVE  /\ \A d \in Names : /\ Delivered(got, s, saved[d][NsOf[s]])
                                          /\ Delivered(got, s, reached[d][NsOf[s]])
                      /\ Delivered(got, s, merged[NsOf[s]])
    BY DEF DeliveryInv
  <2> QED
    BY NowhereDelivered DEF Init
<1>2. Typed /\ DeliveryInv => NothingSkipped
  BY TargetsAreDirs DEF DeliveryInv, Delivered, NothingSkipped
<1> QED
  BY <1>1, <1>2, TypedInitially, TypedInductive, DeliveryInductive, PTL DEF Spec

-----------------------------------------------------------------------------
(* The number of buckets.                                                  *)

(* The powers the loop of bucketCount runs through.                        *)
LEMMA PowersAre == Powers = {1, 2, 4, 8, 16, 32, 64, 128, 256}
<1>1. /\ 2^0 = 1 /\ 2^1 = 2 /\ 2^2 = 4 /\ 2^3 = 8 /\ 2^4 = 16
      /\ 2^5 = 32 /\ 2^6 = 64 /\ 2^7 = 128 /\ 2^8 = 256
  OBVIOUS
<1>2. 0..8 = {0, 1, 2, 3, 4, 5, 6, 7, 8}
  OBVIOUS
<1> QED
  BY <1>1, <1>2 DEF Powers

(* As long as the square is below n, a larger number of buckets costs      *)
(* nothing: the loop may go on.                                            *)
LEMMA MoreIsBetter ==
    ASSUME NEW n \in Nat, NEW h \in Powers, NEW b \in Powers, b <= h, h * h < n
    PROVE  h + CeilDiv(n, h) <= b + CeilDiv(n, b)
  BY PowersAre DEF CeilDiv

(* Once the square has reached n, a larger number gains nothing: the loop  *)
(* may stop.                                                               *)
LEMMA LessIsBetter ==
    ASSUME NEW n \in Nat, NEW s \in Powers, NEW b \in Powers, s < b, n <= s * s
    PROVE  s + CeilDiv(n, s) <= b + CeilDiv(n, b)
  BY PowersAre DEF CeilDiv

(* The number the loop stops at.                                           *)
LEMMA SquareRootFacts ==
    ASSUME NEW n \in Nat
    PROVE  /\ SquareRoot(n) \in Powers
           /\ SquareRoot(n) * SquareRoot(n) >= n \/ SquareRoot(n) >= MaxRouteBuckets
           /\ \A c \in Powers : c < SquareRoot(n) => c * c < n /\ c < MaxRouteBuckets
<1> DEFINE fits == {b \in Powers : b * b >= n \/ b >= MaxRouteBuckets}
<1>1. MaxRouteBuckets \in fits
  BY SourceAssumption, PowersAre DEF Powers
<1>2. \E b \in fits : \A c \in fits : b <= c
  BY <1>1, PowersAre
<1>3. SquareRoot(n) \in fits /\ \A c \in fits : SquareRoot(n) <= c
  BY <1>2 DEF SquareRoot
<1>4. \A c \in Powers : c \in Nat
  BY PowersAre
<1>5. MaxRouteBuckets \in Nat
  BY <1>4, <1>1
<1>6. ASSUME NEW c \in Powers, c < SquareRoot(n) PROVE c * c < n /\ c < MaxRouteBuckets
  <2>1. c \notin fits
    BY <1>3, <1>4, <1>6
  <2> QED
    BY <2>1, <1>4, <1>5
<1> QED
  BY <1>3, <1>6

(* bucketCount does what its comment says: for a group of any size no      *)
(* power of two within the maximum makes fewer conditions to evaluate for  *)
(* an event than the number it returns, which is the loop's or, by the     *)
(* last comparison, half of it.                                            *)
THEOREM BucketsAreBest ==
    \A n \in Nat \ {0}, b \in Powers :
        b <= MaxRouteBuckets =>
            BucketCount(n) + CeilDiv(n, BucketCount(n)) <= b + CeilDiv(n, b)
<1> SUFFICES ASSUME NEW n \in Nat \ {0}, NEW b \in Powers, b <= MaxRouteBuckets
             PROVE  BucketCount(n) + CeilDiv(n, BucketCount(n)) <= b + CeilDiv(n, b)
  OBVIOUS
<1> DEFINE s == SquareRoot(n)
           half == s \div 2
<1>1. /\ s \in Powers
      /\ s * s >= n \/ s >= MaxRouteBuckets
      /\ \A c \in Powers : c < s => c * c < n /\ c < MaxRouteBuckets
  BY SquareRootFacts
<1>2. BucketCount(n) = IF half > 0 /\ half + CeilDiv(n, half) <= s + CeilDiv(n, s)
                       THEN half ELSE s
  BY DEF BucketCount
<1> HIDE DEF s
<1>3. /\ s \in Nat \ {0} /\ b \in Nat \ {0} /\ MaxRouteBuckets \in Nat
      /\ half # 0 => half \in Powers /\ half < s
      /\ b < s => half \in Powers /\ b <= half
  BY <1>1, PowersAre, SourceAssumption DEF Powers
<1>4. CeilDiv(n, s) \in Nat /\ CeilDiv(n, b) \in Nat
  BY <1>1, PowersAre DEF CeilDiv
<1>5. half > 0 => CeilDiv(n, half) \in Nat
  BY <1>3, PowersAre DEF CeilDiv
<1>6. CASE s < b
  <2>1. s + CeilDiv(n, s) <= b + CeilDiv(n, b)
    BY <1>1, <1>3, <1>6, LessIsBetter
  <2> QED
    BY <1>2, <1>3, <1>4, <1>5, <2>1
<1>7. CASE s = b
  BY <1>2, <1>3, <1>4, <1>5, <1>7
<1>8. CASE b < s
  <2>1. half + CeilDiv(n, half) <= b + CeilDiv(n, b)
    BY <1>1, <1>3, <1>8, MoreIsBetter
  <2>2. half > 0
    BY <1>3, <1>8
  <2> QED
    BY <1>2, <1>3, <1>4, <1>5, <2>1, <2>2
<1> QED
  BY <1>3, <1>6, <1>7, <1>8

=============================================================================
