------------------------- MODULE SessionCacheProofs -------------------------
(***************************************************************************)
(* What prelink writes and what its cache says, for any files, slots,      *)
(* failures, upgrades and kills, over any number of invocations: a library *)
(* that prelink has written or leaves as it is was prelinked against its   *)
(* dependencies as they are, the cache has the slots of the files that it  *)
(* matches, and what prelink -q takes from it unread is up to date.        *)
(*                                                                         *)
(* And a run that follows a complete, successful prelink -a rewrites       *)
(* nothing when no file has changed, with any options but -f and -u, also  *)
(* when steps of it fail.                                                  *)
(***************************************************************************)
EXTENDS SessionProofs

-----------------------------------------------------------------------------
(* The invariants.                                                         *)

(* A change of a file gives it a version that nobody has seen.             *)
ClockInv ==
  /\ \A f \in File : disk[f].ver <= clock /\ ver[f] <= clock
  /\ \A f \in DOMAIN cache : cache[f].ver <= clock
  /\ raced \subseteq Nat /\ \A v \in raced : v <= clock

(* What is going to be prelinked is not up to date; what was is done and   *)
(* knows the dependencies of its dependencies.                             *)
PrelinkInv ==
  /\ pc = "prelink" => \A f \in todo : done[f] # 2
  /\ pc = "stat" => \A f, g \in todo : done[f] = 2 /\ done[g] = 2 => f = g
  /\ \A f \in rewritten : /\ type[f] \in {"DYN", "EXEC"} /\ done[f] = 2
                          /\ \A d \in needs[f] : needs[d] \subseteq needs[f] \union {f}

(* What prelink has read of a file is so as long as the file is unaltered, *)
(* and what it has written when the entry has the version that it wrote.   *)
ReadInv ==
  /\ \A i \in 1..Len(stack) : Unaltered(stack[i].file) =>
       /\ stamp[stack[i].file] = disk[stack[i].file].stamp
       /\ slot[stack[i].file] = disk[stack[i].file].slot
       /\ stack[i].liblist = disk[stack[i].file].liblist
  /\ \A f \in File : Gathered(f) /\ done[f] = 2 /\ Sure(f) =>
       stamp[f] = disk[f].stamp /\ slot[f] = disk[f].slot

(* A library that is up to date, or a file that was prelinked: then so are *)
(* its dependencies.  (Layout does not take done from an executable.)      *)
Firm(f) == done[f] = 2 /\ (type[f] = "DYN" \/ f \in rewritten)

FirmInv ==
  pc # "idle" /\ ~ mode.undo =>
    /\ \A f \in File : Gathered(f) /\ done[f] = 2 /\ Sure(f) =>
         DOMAIN disk[f].liblist = needs[f] /\ (f \in Lib => disk[f].stamp # 0)
    /\ \A f \in File : Firm(f) => \A d \in needs[f] :
         /\ done[d] = 2
         /\ Sure(f) /\ Sure(d) => disk[f].liblist[d] = disk[d].stamp

(* Between the rename and the stat64 the file is the one that prelink has  *)
(* written, or one that was installed meanwhile; and nothing was prelinked *)
(* against it yet.                                                         *)
Written(f) ==
  /\ stamp[f] = disk[f].stamp /\ slot[f] = disk[f].slot
  /\ DOMAIN disk[f].liblist = needs[f] /\ (f \in Lib => disk[f].stamp # 0)
  /\ \A d \in needs[f] : disk[f].liblist[d] = stamp[d]

StatInv ==
  \A f \in File : Statting(f) =>
    /\ disk[f].ver \in raced \/ Written(f)
    /\ \A g \in File : Firm(g) => f \notin needs[g]

RunInv ==
  /\ GatherInv /\ UndoInv /\ UndoMode /\ ClockInv
  /\ PrelinkInv /\ ReadInv /\ FirmInv /\ StatInv

-----------------------------------------------------------------------------
(* Versions.                                                               *)

LEMMA TypeFacts ==
  ASSUME GatherInv
  PROVE  /\ FilesType /\ EntriesType /\ stack \in Seq(Frames) /\ todo \subseteq File
         /\ EntryInv /\ StackInv /\ DepsInv /\ TypeInv
         /\ needs \in [File -> SUBSET Lib] /\ Lib \subseteq File
         /\ known \subseteq File /\ clock \in Nat
         /\ \A f \in File : disk[f].ver \in Nat /\ ver[f] \in Nat
         /\ \A f \in DOMAIN cache : f \in File /\ cache[f].ver \in Nat
  BY ConstantFacts DEF GatherInv, TypeInv, FilesType, EntriesType, LoopType, FileState, CacheEntry

(* How a step changes the files.                                           *)
LEMMA DiskSteps ==
  ASSUME GatherInv, [Next]_vars
  PROVE  /\ clock' \in {clock, clock + 1}
         /\ \/ disk' = disk
            \/ \E f \in File :
                 /\ PrelinkEnt(f) \/ UndoOne(f) \/ Upgrade(f)
                 /\ clock' = clock + 1 /\ disk'[f].ver = clock + 1
                 /\ \A g \in File : g # f => disk'[g] = disk[g]
<1>1. disk \in [File -> FileState]
  BY TypeFacts DEF FilesType
<1>2. CASE UNCHANGED fs \/ SaveCache
  BY <1>2 DEF fs, SaveCache
<1>3. ASSUME NEW f \in File, PrelinkFails(f) PROVE clock' \in {clock, clock + 1} /\ disk' = disk
  BY <1>3 DEF PrelinkFails
<1>4. ASSUME NEW f \in File, PrelinkEnt(f)
      PROVE  /\ clock' = clock + 1 /\ disk'[f].ver = clock + 1
             /\ \A g \in File : g # f => disk'[g] = disk[g]
  BY <1>1, <1>4 DEF PrelinkEnt
<1>5. ASSUME NEW f \in File, UndoOne(f) \/ Upgrade(f), disk' # disk
      PROVE  /\ clock' = clock + 1 /\ disk'[f].ver = clock + 1
             /\ \A g \in File : g # f => disk'[g] = disk[g]
  <2>1. clock' = clock + 1 /\ disk' = [disk EXCEPT ![f] = Fresh(clock + 1)]
    BY <1>5 DEF UndoOne, Upgrade
  <2> QED BY <1>1, <2>1 DEF Fresh
<1>6. \A f \in File : UndoOne(f) \/ Upgrade(f) => clock' \in {clock, clock + 1}
  BY DEF UndoOne, Upgrade
<1> QED BY <1>2, <1>3, <1>4, <1>5, <1>6, FilesUnchanged

(* The history only grows, by the version that is being installed.         *)
LEMMA RacedSteps ==
  ASSUME [Next]_vars
  PROVE  raced' = raced \/ (raced' = raced \union {clock + 1} /\ clock' = clock + 1
                             /\ \E f \in File : Upgrade(f) /\ Statting(f))
<1>1. UNCHANGED fs \/ SaveCache => raced' = raced
  BY DEF fs, SaveCache
<1>2. \A f \in File : PrelinkFails(f) \/ PrelinkEnt(f) \/ UndoOne(f) => raced' = raced
  BY DEF PrelinkFails, PrelinkEnt, UndoOne
<1>3. \A f \in File : Upgrade(f) => clock' = clock + 1 /\
        raced' = IF Statting(f) THEN raced \union {clock + 1} ELSE raced
  BY DEF Upgrade
<1> QED BY <1>1, <1>2, <1>3, FilesUnchanged

(* The version of an entry changes when the entry is made and after its    *)
(* file was prelinked.                                                     *)
LEMMA VerSteps ==
  ASSUME GatherInv, [Next]_vars, ~ End
  PROVE  /\ known \subseteq known'
         /\ \A f \in File : \/ ver'[f] = ver[f]
                            \/ ver'[f] = disk[f].ver /\ f \notin known
                            \/ StatEnt(f) /\ ver'[f] = disk[f].ver
<1>1. ver \in [File -> Nat]
  BY TypeFacts DEF EntriesType
<1>k. ASSUME NEW S, Know(S)
      PROVE  /\ known \subseteq known'
             /\ \A f \in File : ver'[f] = ver[f] \/ (ver'[f] = disk[f].ver /\ f \notin known)
  BY <1>k DEF Know
<1>2. CASE UNCHANGED <<entries, stack>>
  BY <1>2 DEF entries
<1>3. CASE LoadCache \/ Trace \/ (\E f \in File : Explore(f)) \/ (\E m \in Modes : Start(m))
  BY <1>k, <1>3 DEF LoadCache, Trace, Explore, Start
<1>4. CASE \/ TraceFails \/ GatherFails \/ GatherDone \/ CheckLibs \/ DoLayout
           \/ \E f \in File : \/ Trust(f) \/ Descend(f)
                              \/ PrelinkRefused(f) \/ PrelinkChanged(f) \/ PrelinkFails(f)
                              \/ PrelinkEnt(f)
  BY <1>4 DEF TraceFails, GatherFails, GatherDone, CheckLibs, DoLayout, Trust, Descend,
     PrelinkRefused, PrelinkChanged, PrelinkFails, PrelinkEnt
<1>5. ASSUME NEW f \in File, StatEnt(f)
      PROVE  /\ known \subseteq known' /\ ver'[f] = disk[f].ver
             /\ \A g \in File : g # f => ver'[g] = ver[g]
  BY <1>1, <1>5 DEF StatEnt
<1> QED BY <1>2, <1>3, <1>4, <1>5, StepKinds

LEMMA InitClock == Init => ClockInv
<1> SUFFICES ASSUME Init PROVE ClockInv
  OBVIOUS
<1>1. \A f \in File : disk[f].ver = 0
  BY DEF Init, Fresh
<1> QED BY <1>1 DEF Init, ClockInv

LEMMA ClockInductive == GatherInv /\ ClockInv /\ [Next]_vars => ClockInv'
<1>s. SUFFICES ASSUME GatherInv, ClockInv, [Next]_vars PROVE ClockInv'
  OBVIOUS
<1>1. /\ clock \in Nat /\ \A f \in File : disk[f].ver \in Nat /\ ver[f] \in Nat
      /\ \A f \in DOMAIN cache : f \in File /\ cache[f].ver \in Nat
  BY <1>s, TypeFacts
<1>2. clock' \in {clock, clock + 1}
  BY <1>s, DiskSteps
<1>3. \A f \in File : disk'[f].ver <= clock'
  BY <1>s, <1>1, <1>2, DiskSteps DEF ClockInv
<1>4. \A f \in File : ver'[f] <= clock'
  <2>1. CASE End
    BY <1>1, <1>2, <2>1, EndFacts
  <2>2. CASE ~ End
    BY <1>s, <1>1, <1>2, <2>2, VerSteps DEF ClockInv
  <2> QED BY <2>1, <2>2
<1>6. raced' \subseteq Nat /\ \A v \in raced' : v <= clock'
  <2>1. raced \subseteq Nat /\ \A v \in raced : v <= clock
    BY <1>s DEF ClockInv
  <2>2. clock' >= clock /\ \A v \in Nat : v <= clock => v <= clock'
    BY <1>1, <1>2
  <2>3. raced' = raced \/ (raced' = raced \union {clock + 1} /\ clock' = clock + 1)
    BY <1>s, RacedSteps
  <2>4. \A v \in raced' : v \in raced \/ (v = clock + 1 /\ clock' = clock + 1)
    BY <2>3
  <2>5. clock + 1 \in Nat /\ clock + 1 <= clock + 1
    BY <1>1
  <2>6. ASSUME NEW v \in raced' PROVE v \in Nat /\ v <= clock'
    BY <2>1, <2>2, <2>4, <2>5
  <2> QED BY <2>6
<1>5. \A f \in DOMAIN cache' : cache'[f].ver <= clock'
  <2>1. CASE SaveCache
    <3>1. DOMAIN cache' = Saved /\ \A f \in Saved : cache'[f].ver = ver[f]
      BY <2>1 DEF SaveCache
    <3>2. Saved \subseteq File
      BY DEF Saved
    <3> QED BY <1>s, <1>1, <1>2, <3>1, <3>2 DEF ClockInv
  <2>2. CASE ~ SaveCache
    <3>1. cache' = cache
      BY <1>s, <2>2, FilesUnchanged DEF fs, PrelinkFails, PrelinkEnt, UndoOne, Upgrade
    <3> QED BY <1>s, <1>1, <1>2, <3>1 DEF ClockInv
  <2> QED BY <2>1, <2>2
<1> QED BY <1>3, <1>4, <1>5, <1>6 DEF ClockInv

(* A file that is unaltered after a step was before, and is the same.      *)
LEMMA StillUnaltered ==
  ASSUME GatherInv, ClockInv, [Next]_vars, ~ End, NEW f \in known, Unaltered(f)'
  PROVE  /\ ~ PrelinkEnt(f)
         /\ StatEnt(f) \/ (Unaltered(f) /\ disk'[f] = disk[f] /\ ver'[f] = ver[f])
<1>1. /\ f \in File /\ clock \in Nat /\ disk[f].ver \in Nat /\ ver[f] \in Nat
  BY TypeFacts
<1>2. ver[f] <= clock
  BY <1>1 DEF ClockInv
<1>3. CASE StatEnt(f)
  <2>1. ~ PrelinkEnt(f)
    BY <1>3 DEF StatEnt, Statting, PrelinkEnt, Ready
  <2> QED BY <1>3, <2>1
<1>4. CASE ~ StatEnt(f)
  <2>1. ver'[f] = ver[f]
    BY <1>1, <1>4, VerSteps
  <2>2. disk'[f].ver # clock + 1
    BY <1>1, <1>2, <2>1 DEF Unaltered
  <2>3. disk'[f] = disk[f]
    BY <1>1, <2>2, DiskSteps
  <2>4. ~ PrelinkEnt(f)
    <3>1. PrelinkEnt(f) => disk' = [disk EXCEPT ![f] = [ver |-> clock + 1, slot |-> slot[f],
                               stamp |-> IF f \in Lib THEN clock + 1 ELSE 0,
                               liblist |-> [d \in deps[f] |-> stamp[d]]]]
      BY DEF PrelinkEnt
    <3>2. disk \in [File -> FileState]
      BY TypeFacts DEF FilesType
    <3> QED BY <1>1, <2>2, <3>1, <3>2
  <2> QED BY <2>1, <2>3, <2>4 DEF Unaltered
<1> QED BY <1>3, <1>4

LEMMA StillSure ==
  ASSUME GatherInv, ClockInv, [Next]_vars, ~ End, NEW f \in known, Sure(f)'
  PROVE  /\ ~ PrelinkEnt(f)
         /\ \/ StatEnt(f) /\ disk' = disk /\ disk[f].ver \notin raced
            \/ Sure(f) /\ disk'[f] = disk[f] /\ ver'[f] = ver[f]
<1>1. Unaltered(f)' /\ disk'[f].ver \notin raced'
  BY DEF Sure
<1>2. raced \subseteq raced'
  BY RacedSteps
<1>3. StatEnt(f) => disk' = disk
  BY DEF StatEnt, fs
<1> QED BY <1>1, <1>2, <1>3, StillUnaltered DEF Sure

-----------------------------------------------------------------------------
(* What is done stays done.                                                *)

(* A dependency that is done was gathered.                                 *)
LEMMA DoneDependency ==
  ASSUME GatherInv, NEW f \in File, Gathered(f), NEW d \in needs[f]
  PROVE  /\ d \in known /\ d \in File /\ d \in Lib /\ d # f
         /\ done[d] = 2 => Gathered(d) /\ deps[d] = needs[d] /\ f \notin needs[d]
<1>1. /\ d \in Lib /\ d \in File /\ d \in known /\ type[d] \notin {"NONE", "CACHE_DYN"}
      /\ Gathered(d) => f \notin needs[d]
  BY TypeFacts DEF DepsInv
<1>2. d # f
  BY <1>1
<1>3. type[d] \in Types /\ d \notin Exe
  BY <1>1, TypeFacts, ConstantFacts DEF EntriesType
<1>4. done[d] = 2 => Gathered(d)
  BY <1>1, <1>3, TypeFacts DEF EntryInv, Types, Gathered
<1>5. Gathered(d) => deps[d] = needs[d]
  BY <1>1, TypeFacts DEF DepsInv
<1> QED BY <1>1, <1>2, <1>4, <1>5

(* The file that prelink is about to prelink.                              *)
LEMMA ReadyFacts ==
  ASSUME GatherInv, PrelinkInv, NEW f \in File, Ready(f)
  PROVE  /\ pc = "prelink" /\ f \in todo /\ type[f] \in {"DYN", "EXEC"} /\ Gathered(f)
         /\ done[f] # 2 /\ f \in known /\ f \notin rewritten /\ deps[f] = needs[f]
<1>1. /\ pc = "prelink" /\ f \in todo /\ type[f] \in {"DYN", "EXEC"} /\ done[f] # 2
  BY TypeFacts DEF Ready, PrelinkInv, EntryInv
<1>2. Gathered(f)
  BY <1>1 DEF Gathered
<1> QED BY <1>1, <1>2, TypeFacts DEF PrelinkInv, EntryInv, DepsInv

LEMMA PrelinkInvInductive == GatherInv /\ PrelinkInv /\ [Next]_vars => PrelinkInv'
<1>s. SUFFICES ASSUME GatherInv, PrelinkInv, [Next]_vars PROVE PrelinkInv'
  OBVIOUS
<1>t. EntriesType /\ EntryInv /\ DepsInv /\ needs' = needs /\ rewritten \subseteq File
      /\ (stack # << >> => pc = "gather")
  BY <1>s, TypeFacts, NeedsUnchanged DEF EntriesType, GatherInv, TypeInv, LoopType
<1>1. CASE End
  BY <1>1, EndFacts DEF PrelinkInv
<1>2. CASE /\ pc' \notin {"prelink", "stat"} /\ pc \notin {"prelink", "stat", "aborted"}
           /\ rewritten' = rewritten
  BY <1>t, <1>2 DEF PrelinkInv, EntryInv
<1>3. CASE DoLayout
  <2>1. /\ rewritten' = {} /\ pc' = "prelink" /\ \A f \in todo' : done'[f] # 2
    BY <1>t, <1>3 DEF DoLayout, EntryInv
  <2> QED BY <2>1 DEF PrelinkInv
<1>4. ASSUME NEW f \in File, PrelinkRefused(f) \/ PrelinkChanged(f) \/ PrelinkFails(f)
      PROVE  PrelinkInv'
  <2>1. Ready(f) /\ (\E t : Refused(f, t)) /\ UNCHANGED <<rewritten, pc>>
    BY <1>4 DEF PrelinkRefused, PrelinkChanged, PrelinkFails
  <2>2. f \in todo /\ f \notin rewritten /\ pc = "prelink"
    BY <1>s, <2>1, ReadyFacts
  <2>3. /\ \A g \in File : g # f => type'[g] = type[g] /\ done'[g] = done[g]
        /\ todo' = todo \ {f}
    BY <1>t, <2>1 DEF Refused, EntriesType
  <2>4. todo \subseteq File
    BY <1>s, TypeFacts
  <2> QED BY <1>s, <1>t, <2>1, <2>2, <2>3, <2>4 DEF PrelinkInv
<1>5. ASSUME NEW f \in File, PrelinkEnt(f) PROVE PrelinkInv'
  <2>1. /\ Ready(f) /\ DepsDone(f) /\ DepsKnown(f) /\ UNCHANGED <<todo, type>>
        /\ pc' = "stat" /\ rewritten' = rewritten \union {f}
        /\ done' = [done EXCEPT ![f] = 2]
    BY <1>5 DEF PrelinkEnt
  <2>2. /\ type[f] \in {"DYN", "EXEC"} /\ Gathered(f) /\ deps[f] = needs[f] /\ pc = "prelink"
    BY <1>s, <2>1, ReadyFacts
  <2>3. \A d \in needs[f] : done[d] = 2 /\ deps[d] \subseteq needs[f] \union {f}
    BY <2>1, <2>2 DEF DepsDone, DepsKnown
  <2>4. \A d \in needs[f] : deps[d] = needs[d]
    BY <1>s, <2>2, <2>3, DoneDependency
  <2>5. done'[f] = 2 /\ \A g \in File : g # f => done'[g] = done[g]
    BY <1>t, <2>1 DEF EntriesType
  <2>6. todo \subseteq File
    BY <1>s, TypeFacts
  <2> QED BY <1>s, <1>t, <2>1, <2>2, <2>3, <2>4, <2>5, <2>6 DEF PrelinkInv
<1>9. ASSUME NEW f \in File, Statting(f), todo' = todo \ {f}, pc' = "prelink",
             UNCHANGED <<type, done, rewritten>>
      PROVE  PrelinkInv'
  <2>1. pc = "stat" /\ f \in todo /\ done[f] = 2
    BY <1>s, <1>9 DEF Statting, PrelinkInv
  <2>2. \A g \in todo' : done'[g] # 2
    BY <1>s, <1>9, <2>1 DEF PrelinkInv
  <2> QED BY <1>s, <1>t, <1>9, <2>2 DEF PrelinkInv
<1>6. CASE UNCHANGED <<entries, stack>> /\ ~ End
  <2>1. UNCHANGED <<type, done, rewritten>>
    BY <1>6 DEF entries
  <2>2. \/ pc' = pc /\ todo' \subseteq todo
        \/ pc' \notin {"prelink", "stat"}
        \/ pc' = "prelink" /\ \E f \in File : Statting(f) /\ todo' = todo \ {f}
        \/ DoLayout \/ \E f \in File : PrelinkEnt(f)
    BY <1>s, <1>6, SameKinds DEF LoadCache, CheckLibs, TraceFails, GatherFails, GatherDone,
       Return, Start
  <2>3. CASE pc' = pc /\ todo' \subseteq todo
    BY <1>s, <1>t, <2>1, <2>3 DEF PrelinkInv
  <2>4. CASE pc' \notin {"prelink", "stat"}
    BY <1>s, <1>t, <2>1, <2>4 DEF PrelinkInv
  <2>5. CASE pc' = "prelink" /\ \E f \in File : Statting(f) /\ todo' = todo \ {f}
    BY <1>9, <2>1, <2>5
  <2> QED BY <1>3, <1>5, <2>2, <2>3, <2>4, <2>5
<1>7. CASE LoadCache \/ Trace \/ CheckLibs \/ TraceFails \/ GatherFails \/ GatherDone
  BY <1>2, <1>7 DEF LoadCache, Trace, CheckLibs, TraceFails, GatherFails, GatherDone, Return
<1>8. ASSUME NEW f \in File, Trust(f) \/ Explore(f) \/ Descend(f)
      PROVE  PrelinkInv'
  BY <1>2, <1>8 DEF Trust, Explore, Descend
<1>10. ASSUME NEW f \in File, StatEnt(f) PROVE PrelinkInv'
  BY <1>9, <1>10 DEF StatEnt
<1>11. ASSUME NEW m \in Modes, Start(m) PROVE PrelinkInv'
  BY <1>2, <1>11 DEF Start
<1> QED BY <1>s, <1>1, <1>3, <1>4, <1>5, <1>6, <1>7, <1>8, <1>10, <1>11, StepKinds

(* What is done after a step was done before and is as prelink knew it,    *)
(* has just been gathered, or has just been prelinked.                     *)
LEMMA DoneSteps ==
  ASSUME GatherInv, PrelinkInv, [Next]_vars, ~ End,
         NEW f \in File, Gathered(f)', done'[f] = 2
  PROVE  /\ f \in known
         /\ \/ /\ Gathered(f) /\ done[f] = 2 /\ stamp'[f] = stamp[f] /\ slot'[f] = slot[f]
               /\ type'[f] = type[f] \/ (type'[f] = "BAD" /\ rewritten' = {})
               /\ f \in rewritten' => f \in rewritten
            \/ GatherDone /\ f = Top.file
            \/ PrelinkEnt(f)
<1>t. EntriesType /\ EntryInv /\ TypeInv /\ FilesType
  BY TypeFacts
<1>g. Gathered(f) => f \in known
  BY <1>t DEF EntryInv, Gathered
<1>0. ASSUME type'[f] = type[f], done'[f] = done[f], stamp'[f] = stamp[f], slot'[f] = slot[f],
             f \in rewritten' => f \in rewritten
      PROVE  /\ f \in known
             /\ Gathered(f) /\ done[f] = 2 /\ stamp'[f] = stamp[f] /\ slot'[f] = slot[f]
             /\ type'[f] = type[f] /\ (f \in rewritten' => f \in rewritten)
  BY <1>g, <1>0 DEF Gathered
<1>1. CASE UNCHANGED <<entries, stack>>
  BY <1>0, <1>1 DEF entries
<1>2. CASE LoadCache
  <2>1. UNCHANGED <<done, stamp, rewritten>> /\ (slot'[f] = slot[f] \/ type[f] = "NONE")
    BY <1>2 DEF LoadCache
  <2>2. type'[f] = type[f] \/ (type[f] = "NONE" /\ type'[f] \in {"NONE", "UNPRELINKABLE", "CACHE_EXEC", "CACHE_DYN"})
    BY <1>t, <1>2, LoadTypes
  <2>3. type'[f] = type[f] /\ type[f] # "NONE"
    BY <2>2 DEF Gathered
  <2> QED BY <1>0, <2>1, <2>3
<1>3. CASE Trace
  <2>1. UNCHANGED <<done, stamp, slot, rewritten>> /\ type'[f] \in {"NONE", type[f]}
    BY <1>3 DEF Trace
  <2> QED BY <1>0, <2>1 DEF Gathered
<1>4. CASE TraceFails \/ GatherFails \/ GatherDone
  <2>1. /\ UNCHANGED <<stamp, slot, rewritten>> /\ Top.file \in known
        /\ f # Top.file => type'[f] = type[f] /\ done'[f] = done[f]
        /\ done[Top.file] = 0
    BY <1>4, ReturnFacts
  <2>2. CASE f # Top.file
    BY <1>0, <2>1, <2>2
  <2>3. CASE f = Top.file
    <3>0. TraceFails \/ GatherFails => done' = done
      BY DEF TraceFails, GatherFails
    <3>1. GatherDone
      BY <1>4, <2>1, <2>3, <3>0
    <3> QED BY <2>1, <2>3, <3>1
  <2> QED BY <2>2, <2>3
<1>5. CASE CheckLibs
  <2>1. /\ UNCHANGED <<done, stamp, slot, rewritten>> /\ pc = "gather"
        /\ type'[f] = type[f] \/ (type[f] = "DYN" /\ type'[f] = "BAD")
    BY <1>5 DEF CheckLibs
  <2>2. CASE type[f] = "DYN" /\ type'[f] = "BAD"
    BY <1>g, <1>t, <2>1, <2>2 DEF Gathered, EntryInv
  <2> QED BY <1>0, <2>1, <2>2
<1>6. CASE DoLayout
  <2>1. UNCHANGED <<type, stamp, rewritten>>
    BY <1>6 DEF DoLayout
  <2>2. done[f] = 2
    BY <1>t, <1>6, <2>1, LayoutFacts DEF Gathered
  <2>3. slot'[f] = slot[f]
    <3>1. \E victims : /\ done' = [g \in File |-> IF g \in Lost(victims) THEN 1 ELSE Found[g]]
                       /\ \E s : slot' = [g \in File |-> IF g \in Lost(victims) THEN s[g] ELSE slot[g]]
      BY <1>6 DEF DoLayout
    <3> QED BY <3>1
  <2> QED BY <1>0, <2>1, <2>2, <2>3
<1>7. ASSUME NEW g \in File, Trust(g)
      PROVE  FALSE
  BY <1>t, <1>7 DEF Trust, EntryInv, Gathered, EntriesType
<1>8. ASSUME NEW g \in File, Explore(g) \/ Descend(g)
      PROVE  Gathered(f) /\ done[f] = 2 /\ stamp'[f] = stamp[f] /\ slot'[f] = slot[f]
             /\ type'[f] = type[f] /\ rewritten' = rewritten
  <2>1. CASE \E t : Entered(g) /\ Enter(g, t)
    <3>1. /\ UNCHANGED <<done, rewritten>> /\ done[g] = 0
      BY <1>t, <2>1 DEF Entered, EntryInv
    <3>2. f # g
      BY <3>1
    <3>3. stamp'[f] = stamp[f] /\ slot'[f] = slot[f] /\ type'[f] = type[f]
      BY <1>t, <2>1, <3>2 DEF Entered, Enter, EntriesType
    <3> QED BY <1>0, <3>1, <3>3
  <2>2. CASE UNCHANGED <<type, stamp, slot, done, rewritten>>
    BY <1>0, <2>2
  <2> QED BY <1>8, <2>1, <2>2, ExploreEnters, DescendEnters
<1>9. ASSUME NEW g \in File, PrelinkRefused(g) \/ PrelinkChanged(g) \/ PrelinkFails(g)
      PROVE  Gathered(f) /\ done[f] = 2 /\ stamp'[f] = stamp[f] /\ slot'[f] = slot[f]
             /\ type'[f] = type[f] /\ rewritten' = rewritten
  <2>1. (\E t : Refused(g, t)) /\ UNCHANGED <<slot, rewritten>>
    BY <1>9 DEF PrelinkRefused, PrelinkChanged, PrelinkFails
  <2>2. f # g
    BY <1>t, <2>1 DEF Refused, EntriesType
  <2>3. done'[f] = done[f] /\ type'[f] = type[f]
    BY <1>t, <2>1, <2>2 DEF Refused, EntriesType
  <2>4. stamp'[f] = stamp[f]
    BY <1>t, <1>9, <2>2 DEF PrelinkRefused, PrelinkChanged, PrelinkFails, EntriesType
  <2> QED BY <1>0, <2>1, <2>3, <2>4
<1>10. ASSUME NEW g \in File, PrelinkEnt(g), g # f
       PROVE  Gathered(f) /\ done[f] = 2 /\ stamp'[f] = stamp[f] /\ slot'[f] = slot[f]
             /\ type'[f] = type[f] /\ (f \in rewritten' => f \in rewritten)
  BY <1>t, <1>0, <1>10 DEF PrelinkEnt, EntriesType
<1>11. PrelinkEnt(f) => f \in known
  BY ReadyFacts DEF PrelinkEnt
<1>12. ASSUME NEW g \in File, StatEnt(g)
       PROVE  /\ Gathered(f) /\ done[f] = 2 /\ stamp'[f] = stamp[f] /\ slot'[f] = slot[f]
              /\ type'[f] = type[f] /\ rewritten' = rewritten
  BY <1>0, <1>12 DEF StatEnt
<1>13. ASSUME NEW m \in Modes, Start(m) PROVE FALSE
  BY <1>t, <1>13 DEF Start, EntryInv
<1> QED BY <1>0, <1>g, <1>1, <1>2, <1>3, <1>4, <1>5, <1>6, <1>7, <1>8, <1>9, <1>10, <1>11, <1>12,
   <1>13, StepKinds

(* What is done stays so until the layout, or the end of the process.      *)
LEMMA StaysDone ==
  ASSUME GatherInv, PrelinkInv, [Next]_vars, ~ End, ~ DoLayout,
         NEW f \in File, Gathered(f), done[f] = 2
  PROVE  done'[f] = 2
<1>t. EntriesType
  BY TypeFacts
<1>1. CASE UNCHANGED <<entries, stack>>
  BY <1>1 DEF entries
<1>2. CASE TraceFails \/ GatherFails \/ GatherDone
  BY <1>2, ReturnFacts
<1>3. ASSUME NEW g \in File, PrelinkRefused(g) \/ PrelinkChanged(g) \/ PrelinkFails(g)
      PROVE  done'[f] = 2
  <2>1. Ready(g) /\ \E t : Refused(g, t)
    BY <1>3 DEF PrelinkRefused, PrelinkChanged, PrelinkFails
  <2>2. f # g
    BY <2>1, ReadyFacts
  <2> QED BY <1>t, <2>1, <2>2 DEF Refused, EntriesType
<1>4. ASSUME NEW g \in File, PrelinkEnt(g) PROVE done'[f] = 2
  BY <1>t, <1>4 DEF PrelinkEnt, EntriesType
<1>5. LoadCache \/ Trace \/ CheckLibs \/ (\E m \in Modes : Start(m)) => done' = done
  BY DEF LoadCache, Trace, CheckLibs, Start
<1>6. \A g \in File : Trust(g) \/ Explore(g) \/ Descend(g) \/ StatEnt(g) => done' = done
  BY DEF Trust, Explore, Descend, StatEnt
<1> QED BY <1>1, <1>2, <1>3, <1>4, <1>5, <1>6, StepKinds

-----------------------------------------------------------------------------
(* What prelink knows of the files.                                        *)

LEMMA ReadInvInductive ==
  GatherInv /\ ClockInv /\ PrelinkInv /\ ReadInv /\ StatInv /\ [Next]_vars => ReadInv'
<1>s. SUFFICES ASSUME GatherInv, ClockInv, PrelinkInv, ReadInv, StatInv, [Next]_vars PROVE ReadInv'
  OBVIOUS
<1>t. /\ EntriesType /\ EntryInv /\ StackInv /\ stack \in Seq(Frames) /\ FilesType /\ TypeInv
      /\ Len(stack) \in Nat
  BY <1>s, TypeFacts
<1>f. \A i \in 1..Len(stack) : stack[i].file \in File /\ stack[i].file \in known
  <2>1. \A i \in 1..Len(stack) : stack[i] \in Frames
    BY <1>t
  <2> QED BY <1>t, <2>1 DEF Frames, StackInv
<1>1. CASE End
  BY <1>1, EndFacts DEF ReadInv, Gathered
<1>2. CASE ~ End
  <2>1. ASSUME NEW f \in File, Gathered(f)', done'[f] = 2, Sure(f)'
        PROVE  stamp'[f] = disk'[f].stamp /\ slot'[f] = disk'[f].slot
    <3>k. f \in known
      BY <1>s, <1>2, <2>1, DoneSteps
    <3>p. ~ PrelinkEnt(f)
      BY <1>s, <1>2, <2>1, <3>k, StillSure
    <3>1. CASE StatEnt(f)
      <4>1. Statting(f) /\ UNCHANGED <<disk, raced, stamp, slot>>
        BY <3>1 DEF StatEnt, fs
      <4>2. disk[f].ver \notin raced
        BY <2>1, <4>1 DEF Sure
      <4>3. Written(f)
        BY <1>s, <4>1, <4>2 DEF StatInv
      <4> QED BY <4>1, <4>3 DEF Written
    <3>2. CASE ~ StatEnt(f)
      <4>2. Sure(f) /\ Unaltered(f) /\ disk'[f] = disk[f]
        BY <1>s, <1>2, <2>1, <3>2, <3>k, StillSure DEF Sure
      <4>3. CASE Gathered(f) /\ done[f] = 2 /\ stamp'[f] = stamp[f] /\ slot'[f] = slot[f]
        BY <1>s, <4>2, <4>3 DEF ReadInv
      <4>4. CASE GatherDone /\ f = Top.file
        <5>1. UNCHANGED <<stamp, slot>> /\ stack # << >>
          BY <4>4 DEF GatherDone
        <5>2. Len(stack) \in 1..Len(stack) /\ Top = stack[Len(stack)]
          BY <1>t, <5>1, TopFacts
        <5> QED BY <1>s, <4>2, <4>4, <5>1, <5>2 DEF ReadInv
      <4> QED BY <1>s, <1>2, <2>1, <3>p, <4>3, <4>4, DoneSteps
    <3> QED BY <3>1, <3>2
  <2>2. ASSUME NEW i \in 1..Len(stack'), disk'[stack'[i].file].ver = ver'[stack'[i].file]
        PROVE  /\ stamp'[stack'[i].file] = disk'[stack'[i].file].stamp
               /\ slot'[stack'[i].file] = disk'[stack'[i].file].slot
               /\ stack'[i].liblist = disk'[stack'[i].file].liblist
    <3>1. ASSUME i \in 1..Len(stack), stack'[i].file = stack[i].file,
                 stack'[i].liblist = stack[i].liblist,
                 stamp'[stack[i].file] = stamp[stack[i].file],
                 slot'[stack[i].file] = slot[stack[i].file],
                 ~ StatEnt(stack[i].file)
          PROVE  /\ stamp'[stack'[i].file] = disk'[stack'[i].file].stamp
                 /\ slot'[stack'[i].file] = disk'[stack'[i].file].slot
                 /\ stack'[i].liblist = disk'[stack'[i].file].liblist
      <4>1. PICK f \in known : f = stack[i].file
        BY <1>f, <3>1
      <4>2. Unaltered(f)'
        BY <2>2, <3>1, <4>1 DEF Unaltered
      <4>3. Unaltered(f) /\ disk'[f] = disk[f]
        BY <1>s, <1>2, <3>1, <4>1, <4>2, StillUnaltered
      <4> QED BY <1>s, <3>1, <4>1, <4>3 DEF ReadInv
    <3>2. ASSUME NEW f \in File, NEW t, Entered(f), Enter(f, t), UNCHANGED disk,
                 ~ \E g \in File : StatEnt(g)
          PROVE  /\ stamp'[stack'[i].file] = disk'[stack'[i].file].stamp
                 /\ slot'[stack'[i].file] = disk'[stack'[i].file].slot
                 /\ stack'[i].liblist = disk'[stack'[i].file].liblist
      <4>1. FilesType /\ stack \in Seq(Frames) /\ Enter(f, t)
        BY <1>t, <3>2
      <4>2. /\ Len(stack') = Len(stack) + 1
            /\ \A k \in 1..Len(stack) : stack'[k] = stack[k]
            /\ stack'[Len(stack) + 1] = Frame(f) /\ Frame(f).file = f
            /\ Frame(f).liblist = disk[f].liblist
        BY <4>1, EnterFacts
      <4>3. /\ stamp'[f] = disk[f].stamp /\ slot'[f] = disk[f].slot
            /\ \A g \in File : g # f => stamp'[g] = stamp[g] /\ slot'[g] = slot[g]
        BY <1>t, <3>2 DEF Enter, EntriesType
      <4>4. CASE i = Len(stack) + 1
        BY <3>2, <4>2, <4>3, <4>4
      <4>5. CASE i \in 1..Len(stack)
        <5>1. stack[i].file # f
          BY <3>2, <4>5 DEF Entered
        <5> QED BY <1>f, <3>1, <3>2, <4>2, <4>3, <4>5, <5>1
      <4> QED BY <1>t, <2>2, <4>2, <4>4, <4>5
    <3>3. CASE \E f \in File : Explore(f) \/ Descend(f)
      <4>1. PICK f \in File : Explore(f) \/ Descend(f)
        BY <3>3
      <4>2. UNCHANGED disk /\ pc = "gather" /\ ~ \E g \in File : StatEnt(g)
        BY <4>1 DEF Explore, Descend, fs, StatEnt, Statting
      <4>3. CASE \E t : Entered(f) /\ Enter(f, t)
        BY <3>2, <4>2, <4>3
      <4>4. CASE stack = << >> /\ stack' = stack
        BY <2>2, <4>4
      <4> QED BY <1>s, <4>1, <4>3, <4>4, ExploreEnters, DescendEnters
    <3>4. CASE Trace
      <4>1. UNCHANGED <<stamp, slot>> /\ ~ StatEnt(stack[i].file)
        BY <3>4 DEF Trace, StatEnt, Statting
      <4>2. i \in 1..Len(stack) /\ stack'[i].file = stack[i].file /\ stack'[i].liblist = stack[i].liblist
        BY <1>t, <2>2, <3>4, TraceFacts
      <4> QED BY <3>1, <4>1, <4>2
    <3>5. CASE TraceFails \/ GatherFails \/ GatherDone
      <4>1. UNCHANGED <<stamp, slot>> /\ pc = "gather" /\ stack # << >> /\ \E ok \in BOOLEAN : Return(ok)
        BY <1>s, <3>5, ReturnFacts
      <4>2. /\ Len(stack') = Len(stack) - 1
            /\ stack'[i].file = stack[i].file /\ stack'[i].liblist = stack[i].liblist
        BY <1>t, <2>2, <4>1, PopFacts
      <4>3. i \in 1..Len(stack)
        BY <1>t, <2>2, <4>2
      <4>4. ~ StatEnt(stack[i].file)
        BY <4>1 DEF StatEnt, Statting
      <4> QED BY <3>1, <4>1, <4>2, <4>3, <4>4
    <3>6. CASE UNCHANGED <<entries, stack>>
      <4>1. stack' = stack /\ UNCHANGED <<stamp, slot>>
        BY <3>6 DEF entries
      <4>2. pc = "gather"
        BY <1>t, <2>2, <4>1 DEF TypeInv, LoopType
      <4>3. ~ StatEnt(stack[i].file)
        BY <4>2 DEF StatEnt, Statting
      <4> QED BY <2>2, <3>1, <4>1, <4>3
    <3>7. CASE pc # "gather" /\ stack' = stack
      BY <1>t, <2>2, <3>7 DEF TypeInv, LoopType
    <3>8. CheckLibs => stack = << >> /\ stack' = stack
      BY DEF CheckLibs
    <3>9. LoadCache \/ DoLayout \/ (\E m \in Modes : Start(m)) => pc # "gather" /\ stack' = stack
      BY DEF LoadCache, DoLayout, Start
    <3>10. \A f \in File : \/ Trust(f) \/ PrelinkRefused(f) \/ PrelinkChanged(f) \/ PrelinkFails(f)
                             \/ PrelinkEnt(f) \/ StatEnt(f)
             => pc # "gather" /\ stack' = stack
      BY DEF Trust, PrelinkRefused, PrelinkChanged, PrelinkFails, PrelinkEnt, Ready, StatEnt,
         Statting
    <3> QED BY <1>s, <1>2, <2>2, <3>3, <3>4, <3>5, <3>6, <3>7, <3>8, <3>9, <3>10, StepKinds
  <2> QED BY <2>1, <2>2 DEF ReadInv, Unaltered
<1> QED BY <1>1, <1>2

(* The layout takes done from a library when a dependency loses its slot.  *)
LEMMA LayoutKeepsFirm ==
  ASSUME GatherInv, DoLayout, NEW f \in File, type[f] = "DYN", done'[f] = 2,
         NEW d \in needs[f], done[d] = 2
  PROVE  done'[d] = 2
<1>1. PICK victims : done' = [g \in File |-> IF g \in Lost(victims) THEN 1 ELSE Found[g]]
  BY DEF DoLayout
<1>2. /\ Gathered(f) /\ f \in Lib /\ deps[f] = needs[f]
  BY TypeFacts DEF Gathered, EntryInv, DepsInv
<1>3. /\ d \in File /\ d \in Lib /\ Gathered(d) /\ deps[d] = needs[d]
  BY <1>2, DoneDependency
<1>4. f \notin Lost(victims) /\ Found[f] = 2
  BY <1>1
<1>5. ~ mode.force
  BY <1>4 DEF Found
<1>6. Found[d] = 2
  BY <1>3, <1>5 DEF Found, Gathered
<1> DEFINE gone == victims \union {g \in File : Found[g] = 0}
<1>7. f \notin gone /\ needs[f] \intersect gone = {}
  BY <1>2, <1>4 DEF Lost, LayoutLibs
<1>8. needs[d] \subseteq needs[f] \union {f}
  BY <1>2, TypeFacts, SessionAssumption DEF FilesType
<1>9. d \notin gone /\ deps[d] \intersect gone = {}
  BY <1>3, <1>7, <1>8
<1>10. d \notin Lost(victims)
  BY <1>9 DEF Lost
<1> QED BY <1>1, <1>3, <1>6, <1>10

LEMMA FirmFacts ==
  ASSUME GatherInv, PrelinkInv, NEW f \in File, Firm(f)
  PROVE  Gathered(f) /\ done[f] = 2 /\ f \in known
  BY TypeFacts DEF Firm, Gathered, PrelinkInv, EntryInv

LEMMA FirmInvInductive == RunInv /\ [Next]_vars => FirmInv'
<1>s. SUFFICES ASSUME RunInv, [Next]_vars, pc' # "idle", ~ mode'.undo
               PROVE  /\ \A f \in File : Gathered(f)' /\ done'[f] = 2 /\ Sure(f)' =>
                           DOMAIN disk'[f].liblist = needs[f] /\ (f \in Lib => disk'[f].stamp # 0)
                      /\ \A f \in File : Firm(f)' => \A d \in needs[f] :
                           /\ done'[d] = 2
                           /\ Sure(f)' /\ Sure(d)' => disk'[f].liblist[d] = disk'[d].stamp
  BY NeedsUnchanged DEF FirmInv
<1>r. GatherInv /\ ClockInv /\ PrelinkInv /\ ReadInv /\ FirmInv /\ StatInv /\ ~ End /\ PrelinkInv' /\ needs' = needs
      /\ GatherInv'
  BY <1>s, PrelinkInvInductive, NeedsUnchanged, GatherInvInductive DEF RunInv, End
<1>t. EntriesType /\ EntryInv /\ StackInv /\ DepsInv /\ FilesType /\ stack \in Seq(Frames)
  BY <1>r, TypeFacts
<1>1. CASE \E m \in Modes : Start(m)
  <2>1. pc = "idle" /\ done' = done
    BY <1>1 DEF Start
  <2>2. \A f \in File : done'[f] # 2
    BY <1>t, <2>1 DEF EntryInv
  <2> QED BY <2>2 DEF Firm
<1>2. CASE ~ \E m \in Modes : Start(m)
  <2>m. pc # "idle" /\ ~ mode.undo
    <3>1. UNCHANGED vars => mode' = mode /\ pc' = pc
      BY DEF vars
    <3>2. mode' = mode /\ (pc = "idle" => pc' = "idle")
      <4>1. CASE Gather
        BY <4>1 DEF Gather, Explore, Descend, Trace, TraceFails, GatherFails, GatherDone, CheckLibs,
                    Exit, End
      <4>2. CASE Prelink
        BY <4>2 DEF Prelink, PrelinkRefused, PrelinkChanged, PrelinkFails, PrelinkEnt, Ready,
           StatEnt, StatFails, Statting, UndoOne, UndoFails, UndoEnd, SaveCache, SaveFails,
           Abort, SaveReady, End
      <4> QED BY <1>s, <1>2, <3>1, <4>1, <4>2
          DEF Next, LoadCache, Trust, TrustEnd, DoLayout, NoSlot, Upgrade, Crash, Terminating, End
    <3> QED BY <1>s, <3>2
  <2>i. /\ \A f \in File : Gathered(f) /\ done[f] = 2 /\ Sure(f) =>
             DOMAIN disk[f].liblist = needs[f] /\ (f \in Lib => disk[f].stamp # 0)
        /\ \A f \in File : Firm(f) => \A d \in needs[f] :
             /\ done[d] = 2
             /\ Sure(f) /\ Sure(d) => disk[f].liblist[d] = disk[d].stamp
    BY <1>r, <2>m DEF FirmInv
  \* a file that has just been gathered as up to date
  <2>g. ASSUME GatherDone, NEW f \in File, f = Top.file, done'[f] = 2
        PROVE  /\ UNCHANGED <<disk, ver, raced>> /\ ~ PrelinkEnt(f) /\ f \in known
               /\ DOMAIN Top.liblist = needs[f] /\ (f \in Lib => stamp[f] # 0)
               /\ \A d \in needs[f] : /\ done[d] = 2 /\ Top.liblist[d] = stamp[d]
                                      /\ Gathered(d) /\ d \in File /\ d # f
               /\ Unaltered(f) => Top.liblist = disk[f].liblist /\ stamp[f] = disk[f].stamp
    <3>1. pc = "gather" /\ stack # << >> /\ Top.traced /\ UNCHANGED <<disk, ver, raced>> /\ ~ Cycle(f)
      BY <2>g DEF GatherDone, fs
    <3>2. Len(stack) \in 1..Len(stack) /\ Top = stack[Len(stack)]
      BY <1>t, <3>1, TopFacts
    <3>3. /\ deps[f] = needs[f] /\ f \in known /\ done[f] = 0
          /\ \A d \in needs[f] : type[d] # "CACHE_DYN"
      BY <1>r, <1>t, <2>g, <3>1, <3>2, ReturnFacts DEF StackInv
    <3>4. AsIs(f)
      <4>1. \/ done' = done
            \/ done' = [done EXCEPT ![f] = IF AsIs(f) THEN 2 ELSE 0]
        BY <2>g DEF GatherDone
      <4> QED BY <1>t, <2>g, <3>3, <4>1 DEF EntriesType
    <3>5. Matches(f) /\ (f \in Lib => stamp[f] # 0)
      BY <2>m, <3>4 DEF AsIs
    <3>6. DOMAIN Top.liblist = needs[f] /\ \A d \in needs[f] : Top.liblist[d] = stamp[d] /\ done[d] # 0
      BY <3>3, <3>5 DEF Matches
    <3>7. \A d \in needs[f] : d \in File /\ d \in Lib
      BY <1>r, TypeFacts
    <3>8. \A d \in needs[f] : done[d] = 2
      BY <1>t, <3>1, <3>6, <3>7 DEF EntryInv, EntriesType
    <3>9. \A d \in needs[f] : Gathered(d) /\ d # f
      <4> SUFFICES ASSUME NEW d \in needs[f] PROVE Gathered(d) /\ d # f
        OBVIOUS
      <4>1. type[d] \in Types /\ d \notin Exe
        BY <1>t, <3>7, ConstantFacts DEF EntriesType
      <4> QED BY <1>t, <3>1, <3>3, <3>7, <3>8, <4>1 DEF EntryInv, Types, Gathered
    <3>10. Unaltered(f) => Top.liblist = disk[f].liblist /\ stamp[f] = disk[f].stamp
      BY <1>r, <2>g, <3>2 DEF ReadInv
    <3>11. ~ PrelinkEnt(f)
      BY <3>1 DEF PrelinkEnt, Ready
    <3> QED BY <3>1, <3>3, <3>5, <3>6, <3>7, <3>8, <3>9, <3>10, <3>11
  \* a file that has just been prelinked
  <2>p. ASSUME NEW f \in File, PrelinkEnt(f)
        PROVE  \A d \in needs[f] : done[d] = 2 /\ Gathered(d) /\ d \in File /\ d \in known /\ d # f
    <3>1. Ready(f) /\ DepsDone(f)
      BY <2>p DEF PrelinkEnt
    <3>2. Gathered(f) /\ deps[f] = needs[f]
      BY <1>r, <3>1, ReadyFacts
    <3>5. \A d \in needs[f] : done[d] = 2
      BY <3>1, <3>2 DEF DepsDone
    <3> QED BY <1>r, <3>2, <3>5, DoneDependency
  \* a file whose times have just been read after it was prelinked
  <2>w. ASSUME NEW f \in File, StatEnt(f), Sure(f)'
        PROVE  /\ DOMAIN disk[f].liblist = needs[f] /\ (f \in Lib => disk[f].stamp # 0)
               /\ \A d \in needs[f] : disk[f].liblist[d] = stamp[d]
               /\ UNCHANGED <<disk, raced, done>>
    <3>1. Statting(f) /\ UNCHANGED <<disk, raced, done>>
      BY <2>w DEF StatEnt, fs
    <3>2. disk[f].ver \notin raced
      BY <2>w, <3>1 DEF Sure
    <3> QED BY <1>r, <3>1, <3>2 DEF StatInv, Written
  <2>1. ASSUME NEW f \in File, Gathered(f)', done'[f] = 2, Sure(f)'
        PROVE  DOMAIN disk'[f].liblist = needs[f] /\ (f \in Lib => disk'[f].stamp # 0)
    <3>k. f \in known
      BY <1>s, <1>r, <2>1, DoneSteps
    <3>p. ~ PrelinkEnt(f)
      BY <1>s, <1>r, <2>1, <3>k, StillSure
    <3>1. CASE StatEnt(f)
      BY <2>1, <2>w, <3>1
    <3>2. CASE GatherDone /\ f = Top.file
      BY <2>1, <2>g, <3>2 DEF Sure, Unaltered
    <3>3. CASE Gathered(f) /\ done[f] = 2 /\ ~ StatEnt(f)
      <4>1. Sure(f) /\ disk'[f] = disk[f]
        BY <1>s, <1>r, <2>1, <3>3, <3>k, StillSure
      <4> QED BY <2>i, <3>3, <4>1
    <3> QED BY <1>s, <1>r, <2>1, <3>p, <3>1, <3>2, <3>3, DoneSteps
  <2>2. ASSUME NEW f \in File, Firm(f)', NEW d \in needs[f]
        PROVE  /\ done'[d] = 2
               /\ Sure(f)' /\ Sure(d)' => disk'[f].liblist[d] = disk'[d].stamp
    <3>0. Gathered(f)' /\ done'[f] = 2
      BY <1>r, <2>2 DEF Firm, PrelinkInv, Gathered
    <3>1. CASE PrelinkEnt(f)
      <4>1. done[d] = 2 /\ Gathered(d) /\ d \in File /\ d \in known /\ d # f
        BY <2>p, <3>1
      <4>2. ~ DoLayout /\ f \in known
        BY <1>r, <3>1, ReadyFacts DEF PrelinkEnt, DoLayout, Ready
      <4>3. done'[d] = 2
        BY <1>s, <1>r, <4>1, <4>2, StaysDone
      <4>4. ~ Sure(f)'
        BY <1>s, <1>r, <3>1, <4>2, StillSure
      <4> QED BY <4>3, <4>4
    <3>2. CASE GatherDone /\ f = Top.file
      <4>a. /\ UNCHANGED <<disk, ver, raced>> /\ done[d] = 2 /\ Top.liblist[d] = stamp[d]
            /\ Gathered(d) /\ d \in File
        BY <2>g, <3>0, <3>2
      <4>b. Unaltered(f) => Top.liblist = disk[f].liblist
        BY <2>g, <3>0, <3>2
      <4>2. ~ DoLayout
        BY <3>2 DEF GatherDone, DoLayout
      <4>3. done'[d] = 2
        BY <1>s, <1>r, <4>a, <4>2, StaysDone
      <4>4. Sure(d) => stamp[d] = disk[d].stamp
        BY <1>r, <4>a DEF ReadInv
      <4> QED BY <4>a, <4>b, <4>3, <4>4 DEF Sure, Unaltered
    <3>3. CASE /\ Gathered(f) /\ done[f] = 2 /\ f \in known
               /\ type'[f] = type[f] \/ (type'[f] = "BAD" /\ rewritten' = {})
               /\ f \in rewritten' => f \in rewritten
      <4>1. Firm(f)
        BY <2>2, <3>3 DEF Firm
      <4>2. done[d] = 2 /\ (Sure(f) /\ Sure(d) => disk[f].liblist[d] = disk[d].stamp)
        BY <2>i, <4>1
      <4>3. Gathered(d) /\ d \in File /\ d \in known /\ d # f
        BY <1>r, <3>3, <4>2, DoneDependency
      <4>4. ~ StatEnt(d)
        BY <1>r, <4>1, <4>3 DEF StatEnt, StatInv
      <4>5. done'[d] = 2
        <5>1. CASE ~ DoLayout
          BY <1>s, <1>r, <4>2, <4>3, <5>1, StaysDone
        <5>2. CASE DoLayout
          <6>1. rewritten = {}
            BY <1>t, <5>2 DEF DoLayout, EntryInv
          <6>2. type[f] = "DYN"
            BY <4>1, <6>1 DEF Firm
          <6> QED BY <1>r, <3>0, <4>2, <5>2, <6>2, LayoutKeepsFirm
        <5> QED BY <5>1, <5>2
      <4>7. Sure(d)' => Sure(d) /\ disk'[d] = disk[d]
        BY <1>s, <1>r, <4>3, <4>4, StillSure
      <4>8. CASE StatEnt(f) /\ Sure(f)' /\ Sure(d)'
        <5>1. disk'[f].liblist[d] = stamp[d] /\ Sure(d)
          BY <2>w, <4>7, <4>8
        <5>2. stamp[d] = disk[d].stamp
          BY <1>r, <4>2, <4>3, <5>1 DEF ReadInv
        <5> QED BY <4>5, <4>7, <4>8, <5>1, <5>2
      <4>9. CASE ~ StatEnt(f)
        <5>1. Sure(f)' => Sure(f) /\ disk'[f] = disk[f]
          BY <1>s, <1>r, <3>3, <4>9, StillSure
        <5> QED BY <4>2, <4>5, <4>7, <5>1
      <4> QED BY <4>5, <4>8, <4>9
    <3> QED BY <1>s, <1>r, <3>0, <3>1, <3>2, <3>3, DoneSteps
  <2> QED BY <2>1, <2>2
<1> QED BY <1>1, <1>2

(* The steps after which a file waits for its stat64.                      *)
LEMMA StatSteps ==
  ASSUME [Next]_vars, pc' = "stat"
  PROVE  \/ \E f \in File : PrelinkEnt(f)
         \/ /\ pc = "stat" /\ UNCHANGED <<entries, todo>>
            /\ UNCHANGED fs \/ \E f \in File : Upgrade(f)
<1>1. ~ Gather
  BY DEF Gather, Explore, Descend, Trace, TraceFails, GatherFails, GatherDone, CheckLibs, Return,
     Exit, End
<1>2. Prelink => \E f \in File : PrelinkEnt(f)
  BY DEF Prelink, PrelinkRefused, PrelinkChanged, PrelinkFails, Ready, StatEnt, StatFails, UndoOne,
         UndoFails, UndoEnd, SaveCache, SaveFails, Abort, End
<1>3. \A f \in File : Upgrade(f) => pc' = pc /\ UNCHANGED <<entries, todo>>
  BY DEF Upgrade
<1> QED BY <1>1, <1>2, <1>3
    DEF Next, Start, LoadCache, Trust, TrustEnd, DoLayout, NoSlot, Crash, Terminating, End, vars

LEMMA StatInvInductive == RunInv /\ [Next]_vars => StatInv'
<1>s. SUFFICES ASSUME RunInv, [Next]_vars, NEW f \in File, Statting(f)'
               PROVE  /\ disk'[f].ver \in raced' \/ Written(f)'
                      /\ \A g \in File : Firm(g)' => f \notin needs'[g]
  BY DEF StatInv
<1>r. GatherInv /\ ClockInv /\ PrelinkInv /\ FirmInv /\ StatInv /\ needs' = needs /\ PrelinkInv'
      /\ GatherInv'
  BY <1>s, PrelinkInvInductive, NeedsUnchanged, GatherInvInductive DEF RunInv
<1>t. EntriesType /\ FilesType /\ Lib \subseteq File /\ needs \in [File -> SUBSET Lib]
      /\ clock \in Nat
  BY <1>r, TypeFacts
<1>0. pc' = "stat" /\ f \in todo' /\ f \in rewritten'
  BY <1>s DEF Statting
<1>1. ASSUME NEW g \in File, PrelinkEnt(g)
      PROVE  /\ disk'[f].ver \in raced' \/ Written(f)'
             /\ \A h \in File : Firm(h)' => f \notin needs'[h]
  <2>1. Ready(g) /\ DepsDone(g)
    BY <1>1 DEF PrelinkEnt
  <2>2. /\ pc = "prelink" /\ g \notin rewritten /\ done[g] # 2 /\ deps[g] = needs[g] /\ Gathered(g)
        /\ type[g] \in {"DYN", "EXEC"}
    BY <1>r, <2>1, ReadyFacts
  <2>3. /\ todo' = todo /\ rewritten' = rewritten \union {g} /\ slot' = slot /\ type' = type
        /\ done' = [done EXCEPT ![g] = 2]
        /\ disk' = [disk EXCEPT ![g] =
                       [ver |-> clock + 1, slot |-> slot[g], stamp |-> IF g \in Lib THEN clock + 1 ELSE 0,
                        liblist |-> [d \in deps[g] |-> stamp[d]]]]
        /\ stamp' = [stamp EXCEPT ![g] = IF g \in Lib THEN clock + 1 ELSE 0]
    BY <1>1 DEF PrelinkEnt
  <2>4. f = g
    BY <1>0, <1>r, <2>2, <2>3 DEF PrelinkInv
  <2>5. /\ disk'[g].slot = slot[g] /\ disk'[g].stamp = (IF g \in Lib THEN clock + 1 ELSE 0)
        /\ disk'[g].liblist = [d \in needs[g] |-> stamp[d]]
        /\ stamp'[g] = (IF g \in Lib THEN clock + 1 ELSE 0)
        /\ \A d \in File : d # g => stamp'[d] = stamp[d]
    BY <1>t, <2>2, <2>3 DEF EntriesType, FilesType
  <2>6. \A d \in needs[g] : d \in File /\ d # g
    <3>1. \A d \in needs[g] : done[d] = 2
      BY <2>1, <2>2 DEF DepsDone
    <3> QED BY <1>r, <2>2, <3>1, DoneDependency
  <2>7. clock + 1 # 0
    BY <1>t
  <2>8. Written(g)'
    BY <1>r, <2>3, <2>5, <2>6, <2>7 DEF Written
  <2>9. ASSUME NEW h \in File, Firm(h)' PROVE g \notin needs[h]
    <3>1. CASE h = g
      BY <2>6, <3>1
    <3>2. CASE h # g
      <4>1. Firm(h)
        BY <1>t, <2>3, <2>9, <3>2 DEF Firm, EntriesType
      <4>2. ~ mode.undo /\ pc # "idle"
        BY <1>s, <2>2 DEF RunInv, UndoInv
      <4> QED BY <1>r, <2>2, <4>1, <4>2 DEF FirmInv
    <3> QED BY <3>1, <3>2
  <2> QED BY <1>r, <2>4, <2>8, <2>9
<1>2. ASSUME pc = "stat", UNCHANGED <<entries, todo>>, UNCHANGED fs \/ \E g \in File : Upgrade(g)
      PROVE  /\ disk'[f].ver \in raced' \/ Written(f)'
             /\ \A h \in File : Firm(h)' => f \notin needs'[h]
  <2>1. UNCHANGED <<type, done, rewritten, stamp, slot>>
    BY <1>2 DEF entries
  <2>2. Statting(f)
    BY <1>0, <1>2, <2>1 DEF Statting
  <2>3. /\ disk[f].ver \in raced \/ Written(f)
        /\ \A h \in File : Firm(h) => f \notin needs[h]
    BY <1>r, <2>2 DEF StatInv
  <2>4. \A h \in File : Firm(h)' => f \notin needs'[h]
    BY <1>r, <2>1, <2>3 DEF Firm
  <2>5. CASE disk'[f] = disk[f]
    <3>1. raced \subseteq raced'
      BY <1>s, RacedSteps
    <3> QED BY <1>r, <2>1, <2>3, <2>4, <2>5, <3>1 DEF Written
  <2>6. CASE UNCHANGED fs
    BY <2>5, <2>6 DEF fs
  <2>7. ASSUME NEW g \in File, Upgrade(g)
        PROVE  disk'[f] = disk[f] \/ disk'[f].ver \in raced'
    <3>1. disk' = [disk EXCEPT ![g] = Fresh(clock + 1)]
      BY <2>7 DEF Upgrade
    <3>2. CASE g = f
      <4>1. raced' = raced \union {clock + 1}
        BY <2>2, <2>7, <3>2 DEF Upgrade
      <4>2. disk'[f].ver = clock + 1
        BY <1>t, <3>1, <3>2 DEF FilesType, Fresh
      <4> QED BY <4>1, <4>2
    <3>3. CASE g # f
      BY <1>t, <3>1, <3>3 DEF FilesType
    <3> QED BY <3>2, <3>3
  <2> QED BY <1>2, <2>4, <2>5, <2>6, <2>7
<1> QED BY <1>s, <1>0, <1>1, <1>2, StatSteps

LEMMA RunInvHolds == Spec => []RunInv
<1>1. Init => RunInv
  <2> SUFFICES ASSUME Init PROVE RunInv
    OBVIOUS
  <2>1. GatherInv /\ ClockInv
    BY InitGatherInv, InitClock
  <2>2. UndoInv /\ UndoMode /\ PrelinkInv /\ FirmInv /\ StatInv
    BY DEF Init, UndoInv, UndoMode, PrelinkInv, FirmInv, StatInv, Statting
  <2>3. ReadInv
    BY DEF Init, ReadInv, Gathered
  <2> QED BY <2>1, <2>2, <2>3 DEF RunInv
<1>2. RunInv /\ [Next]_vars => RunInv'
  BY GatherInvInductive, UndoInvInductive, UndoModeInductive, ClockInductive, PrelinkInvInductive,
     ReadInvInductive, FirmInvInductive, StatInvInductive DEF RunInv
<1> QED BY <1>1, <1>2, PTL DEF Spec

(* A file that is firm and unaltered with its dependencies is up to date.  *)
LEMMA FirmUpToDate ==
  ASSUME RunInv, pc # "idle", ~ mode.undo, NEW f \in File, Firm(f), Sure(f),
         \A d \in needs[f] : Sure(d)
  PROVE  UpToDate(f) /\ DOMAIN disk[f].liblist = needs[f]
<1>1. Gathered(f) /\ done[f] = 2
  BY FirmFacts DEF RunInv
<1> QED BY <1>1 DEF RunInv, FirmInv, UpToDate

(* What prelink has written is prelinked against its dependencies as they  *)
(* are, and knows everything that they were prelinked against, unless one  *)
(* of these files was upgraded during the run (prelink_ent), in the middle *)
(* of a run, at its end, and after an abort of save_cache.                 *)
THEOREM WrittenUpToDateHolds == Spec => []WrittenUpToDate
<1>1. RunInv => WrittenUpToDate
  <2> SUFFICES ASSUME RunInv, NEW f \in rewritten, Sure(f), \A d \in deps[f] : Sure(d)
               PROVE  /\ UpToDate(f)
                      /\ \A d \in deps[f] : DOMAIN disk[d].liblist \subseteq DOMAIN disk[f].liblist
    BY DEF WrittenUpToDate
  <2>1. GatherInv /\ PrelinkInv /\ f \in File
    BY DEF RunInv, GatherInv, TypeInv, EntriesType
  <2>2. pc \in {"prelink", "stat", "aborted"} /\ ~ mode.undo
    BY <2>1, TypeFacts DEF EntryInv, RunInv, UndoInv
  <2>3. Firm(f) /\ Gathered(f) /\ deps[f] = needs[f]
    <3>1. Firm(f)
      BY <2>1 DEF Firm, PrelinkInv
    <3>2. Gathered(f)
      BY <2>1, <3>1, FirmFacts
    <3> QED BY <2>1, <3>1, <3>2, TypeFacts DEF DepsInv
  <2>4. UpToDate(f) /\ DOMAIN disk[f].liblist = needs[f]
    BY <2>1, <2>2, <2>3, FirmUpToDate
  <2>5. ASSUME NEW d \in needs[f] PROVE DOMAIN disk[d].liblist \subseteq needs[f]
    <3>1. done[d] = 2
      BY <2>1, <2>2, <2>3 DEF RunInv, FirmInv
    <3>2. d \in File /\ Gathered(d) /\ f \notin needs[d] /\ Sure(d)
      BY <2>1, <2>3, <3>1, DoneDependency
    <3>3. DOMAIN disk[d].liblist = needs[d]
      BY <2>2, <3>1, <3>2 DEF RunInv, FirmInv
    <3>4. needs[d] \subseteq needs[f] \union {f}
      BY <2>1 DEF PrelinkInv
    <3> QED BY <3>2, <3>3, <3>4
  <2> QED BY <2>3, <2>4, <2>5
<1> QED BY <1>1, RunInvHolds, PTL

(* When the cache is saved, every library that prelink leaves as it is or  *)
(* has prelinked is up to date, unless it or a dependency was upgraded     *)
(* during the run: gather_deps compares the stamps, and the layout takes   *)
(* done from a library whose dependency moves.                             *)
THEOREM LibrariesUpToDateHolds == Spec => []LibrariesUpToDate
<1>1. RunInv => LibrariesUpToDate
  <2> SUFFICES ASSUME RunInv, SaveReady, NEW l \in Lib, type[l] = "DYN", done[l] = 2,
                      Sure(l), \A d \in deps[l] : Sure(d)
               PROVE  UpToDate(l)
    BY DEF LibrariesUpToDate
  <2>1. GatherInv /\ l \in File /\ pc = "prelink" /\ ~ mode.undo
    BY ConstantFacts DEF RunInv, SaveReady, UndoInv
  <2>2. Firm(l) /\ Gathered(l)
    BY DEF Firm, Gathered
  <2>3. deps[l] = needs[l]
    BY <2>1, <2>2, TypeFacts DEF DepsInv
  <2> QED BY <2>1, <2>2, <2>3, FirmUpToDate
<1> QED BY <1>1, RunInvHolds, PTL

-----------------------------------------------------------------------------
(* The cache.                                                              *)

(* Every invocation has -a or -q.  Without both, what was not gathered is  *)
(* taken from the cache without a look at the files (prelink_load_cache)   *)
(* and saved again, so that an upgraded library keeps its old slot.        *)
AllOrQuick == \A m \in Modes : m.quick \/ m.all

(* The cache has the dependencies of its libraries; where the versions     *)
(* match, it has their slots, and they are up to date.                     *)
Matched(f) == cache[f].ver = disk[f].ver /\ disk[f].ver \notin raced

CacheInv ==
  \A l \in DOMAIN cache \intersect Lib : ~ cache[l].unprelinkable =>
    /\ cache[l].deps = needs[l]
    /\ Matched(l) => cache[l].slot = disk[l].slot
    /\ Matched(l) /\ (\A d \in needs[l] : Matched(d)) => UpToDate(l)

(* What is blacklisted is never gathered.                                  *)
BannedInv ==
  IF pc = "idle" THEN \A f \in File : deps[f] = {}
  ELSE
    \A f \in mode.banned : /\ type[f] = "BAD" /\ deps[f] = {} /\ f \in known /\ f \in File
                           /\ \A i \in 1..Len(stack) : stack[i].file # f

(* A dependency that keeps its users out of the cache.                     *)
Spoiled(d) == \/ type[d] = "DYN" /\ (done[d] # 2 \/ d \in rewritten)
              \/ type[d] \notin {"DYN", "CACHE_DYN"}

(* What is known of a library that was taken from the cache.               *)
Loaded(l) ==
  /\ mode.quick /\ l \in DOMAIN cache /\ ~ cache[l].unprelinkable
  /\ deps[l] = cache[l].deps /\ ver[l] = cache[l].ver /\ l \notin rewritten
  /\ IF done[l] = 1 THEN \E d \in deps[l] : Spoiled(d) ELSE slot[l] = cache[l].slot
  /\ \/ pc = "trust" /\ l \in todo
     \/ \A d \in deps[l] : /\ d \in known
                           /\ d \in rewritten \/ d \in mode.banned \/ ver[d] = cache[d].ver

LoadedInv ==
  /\ pc \in {"load", "trust"} => mode.quick
  /\ pc # "load_rest"
  /\ pc = "load" => known \subseteq mode.banned
  /\ pc = "trust" => \A f \in File : type[f] # "NONE" =>
                       f \in mode.banned \/ (f \in DOMAIN cache /\ ver[f] = cache[f].ver)
  /\ \A l \in Lib : type[l] = "CACHE_DYN" => Loaded(l)

LEMMA ModeSteps ==
  ASSUME [Next]_vars, ~ End
  PROVE  (\E m \in Modes : Start(m)) \/ mode' = mode
<1>1. CASE Gather
  BY <1>1 DEF Gather, Explore, Descend, Trace, TraceFails, GatherFails, GatherDone, CheckLibs, Exit
<1>2. CASE Prelink
  BY <1>2 DEF Prelink, PrelinkRefused, PrelinkChanged, PrelinkFails, PrelinkEnt, StatEnt,
              StatFails, UndoOne, UndoFails, UndoEnd, SaveCache, SaveFails, Abort
<1>3. CASE ~ Gather /\ ~ Prelink
  BY <1>3 DEF Next, LoadCache, Trust, TrustEnd, DoLayout, NoSlot, Upgrade, Crash, Terminating, vars
<1> QED BY <1>1, <1>2, <1>3

LEMMA InitBanned == Init => BannedInv
  BY DEF Init, BannedInv

LEMMA BannedInvInductive == GatherInv /\ BannedInv /\ [Next]_vars => BannedInv'
<1>i. ASSUME GatherInv, BannedInv, [Next]_vars, pc' = "idle" PROVE BannedInv'
  <2>1. CASE End
    BY <1>i, <2>1, EndFacts DEF BannedInv
  <2>2. CASE ~ End
    <3>1. pc = "idle" /\ deps' = deps
      <4>1. ~ Gather
        BY <1>i, <2>2 DEF Gather, Explore, Descend, Trace, TraceFails, GatherFails, GatherDone,
           CheckLibs, Return, Exit
      <4>2. ~ Prelink
        BY <1>i, <2>2 DEF Prelink, PrelinkRefused, PrelinkChanged, PrelinkFails, PrelinkEnt,
           Ready, StatEnt, StatFails, Statting, UndoOne, UndoFails, UndoEnd, SaveCache,
           SaveFails, Abort, SaveReady
      <4>3. \A g \in File : Upgrade(g) => pc' = pc /\ deps' = deps
        BY DEF Upgrade, entries
      <4> QED BY <1>i, <2>2, <4>1, <4>2, <4>3
          DEF Next, Start, LoadCache, Trust, TrustEnd, DoLayout, NoSlot, Crash, Terminating, vars, entries
    <3> QED BY <1>i, <3>1 DEF BannedInv
  <2> QED BY <2>1, <2>2
<1>s. SUFFICES ASSUME GatherInv, BannedInv, [Next]_vars, pc' # "idle", NEW f \in mode'.banned
               PROVE  /\ type'[f] = "BAD" /\ deps'[f] = {} /\ f \in known' /\ f \in File
                      /\ \A i \in 1..Len(stack') : stack'[i].file # f
  BY <1>i DEF BannedInv
<1>t. /\ EntriesType /\ EntryInv /\ StackInv /\ stack \in Seq(Frames) /\ TypeInv /\ FilesType
      /\ Len(stack) \in Nat /\ (stack # << >> => pc = "gather")
  BY <1>s, TypeFacts DEF TypeInv, LoopType
<1>e. ~ End
  BY <1>s DEF End
<1>1. CASE \E m \in Modes : Start(m)
  <2>1. PICK m \in Modes : Start(m)
    BY <1>1
  <2>2. f \in m.banned /\ f \in File
    BY <1>s, <2>1, SessionAssumption DEF Start, Mode
  <2>3. stack' = << >> /\ type'[f] = "BAD" /\ deps'[f] = {} /\ f \in known'
    BY <1>s, <1>t, <2>1, <2>2 DEF Start, Know, BannedInv
  <2> QED BY <2>2, <2>3
<1>2. CASE ~ \E m \in Modes : Start(m)
  <2>m. mode' = mode
    BY <1>s, <1>e, <1>2, ModeSteps
  <2>p. pc # "idle"
    <3>1. CASE pc = "idle"
      <4>1. ~ Gather
        BY <1>e, <3>1 DEF Gather, Explore, Descend, Trace, TraceFails, GatherFails, GatherDone,
           CheckLibs, Exit
      <4>2. ~ Prelink
        BY <1>e, <3>1 DEF Prelink, PrelinkRefused, PrelinkChanged, PrelinkFails, PrelinkEnt,
           Ready, StatEnt, StatFails, Statting, UndoOne, UndoFails, UndoEnd, SaveCache,
           SaveFails, Abort, SaveReady
      <4> QED BY <1>s, <1>2, <3>1, <4>1, <4>2
          DEF Next, LoadCache, Trust, TrustEnd, DoLayout, NoSlot, Upgrade, Crash, Terminating, vars
    <3> QED BY <3>1
  <2>b. /\ type[f] = "BAD" /\ deps[f] = {} /\ f \in known /\ f \in File
        /\ \A i \in 1..Len(stack) : stack[i].file # f
    BY <1>s, <2>m, <2>p DEF BannedInv
  <2>k. f \in known'
    BY <1>s, <1>e, <2>b, VerSteps
  <2>0. ASSUME stack' = stack, type'[f] = type[f], deps'[f] = deps[f]
        PROVE  type'[f] = "BAD" /\ deps'[f] = {} /\ \A i \in 1..Len(stack') : stack'[i].file # f
    BY <2>b, <2>0
  <2>1. CASE UNCHANGED <<entries, stack>>
    BY <2>b, <2>k, <2>0, <2>1 DEF entries
  <2>2. CASE LoadCache \/ CheckLibs \/ DoLayout
    BY <2>0, <2>b, <2>k, <2>2 DEF LoadCache, CheckLibs, DoLayout
  <2>3. CASE Trace
    <3>0. stack # << >>
      BY <2>3 DEF Trace
    <3>1. type'[f] = type[f] /\ (f # Top.file => deps'[f] = deps[f])
      BY <2>b, <2>3 DEF Trace
    <3>3. f # Top.file
      BY <1>t, <2>b, <3>0, TopFacts
    <3>2. Len(stack') = Len(stack) /\ \A i \in 1..Len(stack) : stack'[i].file = stack[i].file
      BY <1>t, <2>3, TraceFacts
    <3> QED BY <2>b, <2>k, <3>1, <3>2, <3>3
  <2>4. CASE TraceFails \/ GatherFails \/ GatherDone
    <3>1. /\ Top.file \in File /\ stack # << >>
          /\ \A g \in File : g # Top.file => type'[g] = type[g] /\ deps'[g] = deps[g]
      BY <1>s, <2>4, ReturnFacts
    <3>2. Len(stack) \in 1..Len(stack) /\ Top = stack[Len(stack)]
      BY <1>t, <3>1, TopFacts
    <3>3. type'[f] = type[f] /\ deps'[f] = deps[f]
      BY <2>b, <3>1, <3>2
    <3>4. /\ Len(stack') = Len(stack) - 1
          /\ \A i \in 1..Len(stack') : stack'[i].file = stack[i].file
      BY <1>s, <1>t, <2>4, ReturnFacts, PopFacts
    <3>5. \A i \in 1..Len(stack') : i \in 1..Len(stack)
      BY <1>t, <3>4
    <3> QED BY <2>b, <2>k, <3>3, <3>4, <3>5
  <2>5. ASSUME NEW g \in File, NEW t, Entered(g), Enter(g, t)
        PROVE  type'[f] = "BAD" /\ deps'[f] = {} /\ \A i \in 1..Len(stack') : stack'[i].file # f
    <3>1. FilesType /\ stack \in Seq(Frames) /\ Enter(g, t)
      BY <1>t, <2>5
    <3>2. /\ Len(stack') = Len(stack) + 1
          /\ \A k \in 1..Len(stack) : stack'[k] = stack[k]
          /\ stack'[Len(stack) + 1].file = g
      BY <3>1, EnterFacts
    <3>3. /\ type[g] \in {"NONE", "UNPRELINKABLE"} /\ \A h \in File : h # g => type'[h] = type[h] /\ deps'[h] = deps[h]
      BY <1>t, <2>5 DEF Entered, EntriesType
    <3>4. g # f
      BY <2>b, <3>3
    <3>5. \A i \in 1..Len(stack') : i = Len(stack) + 1 \/ i \in 1..Len(stack)
      BY <1>t, <3>2
    <3> QED BY <2>b, <3>2, <3>3, <3>4, <3>5
  <2>6. ASSUME NEW g \in File, Explore(g) \/ Descend(g)
        PROVE  type'[f] = "BAD" /\ deps'[f] = {} /\ \A i \in 1..Len(stack') : stack'[i].file # f
    <3>1. \/ \E t : Entered(g) /\ Enter(g, t)
          \/ stack' = stack /\ UNCHANGED <<type, deps>>
      BY <1>s, <2>6, ExploreEnters, DescendEnters
    <3> QED BY <2>0, <2>5, <3>1
  <2>7. ASSUME NEW g \in File, Trust(g) PROVE stack' = stack /\ type'[f] = type[f] /\ deps'[f] = deps[f]
    <3>1. Trusted(f)
      BY <2>b DEF Trusted
    <3> QED BY <1>t, <2>b, <2>7, <3>1 DEF Trust, EntriesType
  <2>8. ASSUME NEW g \in File, PrelinkRefused(g) \/ PrelinkChanged(g) \/ PrelinkFails(g)
        PROVE  stack' = stack /\ type'[f] = type[f] /\ deps'[f] = deps[f]
    <3>1. Ready(g) /\ (\E t : Refused(g, t)) /\ stack' = stack /\ deps' = deps
      BY <2>8 DEF PrelinkRefused, PrelinkChanged, PrelinkFails
    <3>2. type[g] \in {"DYN", "EXEC"}
      BY <1>t, <3>1 DEF Ready, EntryInv
    <3> QED BY <1>t, <2>b, <3>1, <3>2 DEF Refused, EntriesType
  <2>9. \A g \in File : PrelinkEnt(g) \/ StatEnt(g) => stack' = stack /\ type' = type /\ deps' = deps
    BY DEF PrelinkEnt, StatEnt
  <2> QED BY <1>s, <1>e, <1>2, <2>b, <2>k, <2>0, <2>1, <2>2, <2>3, <2>4, <2>6, <2>7, <2>8, <2>9,
     StepKinds
<1> QED BY <1>1, <1>2

(* A library whose dependency loses its slot or is not prelinkable.        *)
LEMMA LostIsSpoiled ==
  ASSUME GatherInv, DoLayout, NEW l \in Lib, type[l] = "CACHE_DYN"
  PROVE  \/ done'[l] = 1 /\ \E d \in deps[l] : Spoiled(d)'
         \/ done'[l] = 2 /\ slot'[l] = slot[l]
<1>1. PICK victims \in SUBSET {p[1] : p \in Overlaps} :
        /\ done' = [g \in File |-> IF g \in Lost(victims) THEN 1 ELSE Found[g]]
        /\ \E s : slot' = [g \in File |-> IF g \in Lost(victims) THEN s[g] ELSE slot[g]]
  BY DEF DoLayout
<1>2. l \in File /\ type' = type /\ Found[l] = 2
  BY ConstantFacts DEF DoLayout, Found
<1>3. CASE l \notin Lost(victims)
  BY <1>1, <1>2, <1>3
<1>4. CASE l \in Lost(victims)
  <2> DEFINE gone == victims \union {f \in File : Found[f] = 0}
  <2>1. \A v \in victims : v \in Lib /\ type[v] = "DYN"
    BY <1>1 DEF Overlaps
  <2>2. l \notin gone
    BY <1>2, <2>1
  <2>3. PICK d \in deps[l] : d \in gone
    BY <1>4, <2>2 DEF Lost
  <2>4. d \in Lib /\ d \in File
    BY <1>2, TypeFacts DEF EntriesType
  <2>5. type[d] = "DYN" => d \in Lost(victims)
    BY <2>3, <2>4 DEF Lost, LayoutLibs
  <2>6. type[d] = "DYN" => done'[d] = 1
    BY <1>1, <2>4, <2>5
  <2>7. type[d] # "CACHE_DYN"
    BY <2>1, <2>3 DEF Found
  <2>8. Spoiled(d)'
    BY <1>2, <2>6, <2>7 DEF Spoiled
  <2> QED BY <1>1, <1>2, <1>4, <2>8
<1> QED BY <1>3, <1>4

LEMMA LoadedInvInductive ==
  ASSUME AllOrQuick
  PROVE  GatherInv /\ PrelinkInv /\ BannedInv /\ LoadedInv /\ [Next]_vars => LoadedInv'
<1>s. SUFFICES ASSUME GatherInv, PrelinkInv, BannedInv, LoadedInv, [Next]_vars PROVE LoadedInv'
  OBVIOUS
<1>t. /\ EntriesType /\ EntryInv /\ StackInv /\ FilesType /\ TypeInv /\ stack \in Seq(Frames)
      /\ Lib \subseteq File /\ needs \in [File -> SUBSET Lib]
      /\ (pc # "idle" => mode \in Modes) /\ (stack # << >> => pc = "gather")
  BY <1>s, TypeFacts DEF TypeInv, LoopType
<1>1. CASE End
  BY <1>1, <1>t, EndFacts DEF LoadedInv
<1>2. CASE \E m \in Modes : Start(m)
  <2>1. PICK m \in Modes : Start(m)
    BY <1>2
  <2>2. /\ pc = "idle" /\ pc' \in {"load", "gather"} /\ (pc' = "load" => mode'.quick)
        /\ mode' = m /\ known' = known \union m.banned
    BY <2>1 DEF Start, Know
  <2>3. \A f \in File : type'[f] \in {"NONE", "BAD"}
    BY <2>1 DEF Start
  <2>4. known' \subseteq mode'.banned
    BY <1>t, <2>2 DEF EntryInv
  <2> QED BY <1>t, <2>2, <2>3, <2>4 DEF LoadedInv
<1>3. CASE ~ End /\ ~ \E m \in Modes : Start(m)
  <2>m. mode' = mode
    BY <1>s, <1>3, ModeSteps
  <2>c. cache' = cache
    BY <1>s, <1>3, FilesUnchanged DEF fs, SaveCache, PrelinkFails, PrelinkEnt, UndoOne, Upgrade
  <2>v. known \subseteq known' /\ \A f \in known : ver'[f] = ver[f] \/ StatEnt(f)
    BY <1>s, <1>3, <1>t, VerSteps DEF EntriesType
  <2>0. \A l \in Lib : type[l] = "CACHE_DYN" => Loaded(l)
    BY <1>s DEF LoadedInv
  <2>d. pc \in {"trust", "gather"} => rewritten = {} /\ \A l \in Lib : type[l] = "CACHE_DYN" => done[l] # 1
    BY <1>t DEF EntryInv
  \* gathering
  <2>g. ASSUME pc = "gather", pc' \notin {"load", "trust", "load_rest"}, rewritten' = rewritten,
               \A f \in File : ~ StatEnt(f),
               \A l \in Lib : type'[l] = "CACHE_DYN" =>
                 type[l] = "CACHE_DYN" /\ deps'[l] = deps[l] /\ slot'[l] = slot[l] /\ done'[l] = done[l]
        PROVE  LoadedInv'
    <3>1. ASSUME NEW l \in Lib, type'[l] = "CACHE_DYN" PROVE Loaded(l)'
      <4>1. /\ Loaded(l) /\ deps'[l] = deps[l] /\ slot'[l] = slot[l] /\ done'[l] = done[l]
            /\ type[l] = "CACHE_DYN" /\ done[l] # 1 /\ l \in known
        BY <1>t, <2>0, <2>d, <2>g, <3>1 DEF EntryInv
      <4>2. \A f \in known : ver'[f] = ver[f] /\ f \in known'
        BY <1>t, <2>g, <2>v DEF EntriesType
      <4> QED BY <2>m, <2>c, <2>g, <4>1, <4>2 DEF Loaded
    <3> QED BY <2>g, <3>1 DEF LoadedInv
  <2>1. CASE LoadCache
    <3>1. pc = "load" /\ pc' = "trust" /\ mode.quick
      BY <1>s, <2>1 DEF LoadCache, LoadedInv
    <3>2. /\ known \subseteq mode.banned
          /\ \A f \in File : type[f] \in {"NONE", "BAD"} /\ done[f] = 0
          /\ \A f \in File : type[f] # "NONE" => f \in mode.banned
          /\ \A f \in mode.banned : type[f] = "BAD"
      BY <1>s, <1>t, <3>1 DEF EntryInv, LoadedInv, BannedInv
    <3>3. /\ \A f \in File : IF f \in DOMAIN cache /\ f \notin mode.banned
                             THEN /\ type'[f] = LoadedType(f) /\ slot'[f] = cache[f].slot
                                  /\ ver'[f] = disk[f].ver
                                  /\ type'[f] # "NONE" => deps'[f] = cache[f].deps /\ f \in todo'
                             ELSE type'[f] = type[f]
          /\ done' = done /\ rewritten' = rewritten
      BY <1>t, <2>1, <3>1, <3>2 DEF LoadCache, Know, FilesType
    <3>4. ASSUME NEW f \in File, type'[f] # "NONE", f \notin mode.banned
          PROVE  f \in DOMAIN cache /\ ver'[f] = cache[f].ver /\ type'[f] = LoadedType(f)
      BY <3>1, <3>2, <3>3, <3>4 DEF LoadedType, Unchanged
    <3>6. \A l \in Lib : type'[l] = "CACHE_DYN" => l \notin mode.banned
      BY <1>t, <3>2, <3>3
    <3>5. ASSUME NEW l \in Lib, type'[l] = "CACHE_DYN" PROVE Loaded(l)'
      <4>1. l \in DOMAIN cache /\ ver'[l] = cache[l].ver /\ LoadedType(l) = "CACHE_DYN"
        BY <1>t, <3>4, <3>5, <3>6
      <4>2. ~ cache[l].unprelinkable
        BY <4>1 DEF LoadedType
      <4>3. rewritten = {} /\ done[l] = 0
        BY <1>t, <3>1, <3>2 DEF EntryInv
      <4>4. l \in todo' /\ deps'[l] = cache[l].deps /\ slot'[l] = cache[l].slot
        BY <1>t, <3>3, <3>5, <3>6, <4>1
      <4> QED BY <2>m, <2>c, <3>1, <3>3, <4>1, <4>2, <4>3, <4>4 DEF Loaded
    <3> QED BY <2>m, <2>c, <3>1, <3>4, <3>5 DEF LoadedInv
  <2>2. ASSUME NEW f \in File, Trust(f) PROVE LoadedInv'
    <3>1. /\ pc = "trust" /\ pc' = "trust" /\ UNCHANGED <<ver, known, slot, done, rewritten>>
          /\ todo' = todo \ {f}
      BY <2>2 DEF Trust
    <3>2. /\ \A g \in File : g # f => type'[g] = type[g] /\ deps'[g] = deps[g]
          /\ \/ type'[f] = "NONE"
             \/ type'[f] = type[f] /\ deps'[f] = deps[f] /\ \A d \in deps[f] : type[d] # "NONE"
      BY <1>t, <2>2 DEF Trust, Trusted, EntriesType
    <3>3. \A g \in File : type[g] # "NONE" =>
            /\ g \in mode.banned \/ (g \in DOMAIN cache /\ ver[g] = cache[g].ver)
            /\ g \in known
      BY <1>s, <1>t, <3>1 DEF LoadedInv, EntryInv
    <3>4. ASSUME NEW l \in Lib, type'[l] = "CACHE_DYN" PROVE Loaded(l)'
      <4>1. Loaded(l) /\ deps'[l] = deps[l] /\ done[l] # 1
        BY <1>t, <2>0, <2>d, <3>1, <3>2, <3>4
      <4>2. CASE l # f
        BY <2>m, <2>c, <3>1, <4>1, <4>2 DEF Loaded
      <4>3. CASE l = f
        <5>1. \A d \in deps[l] : d \in known /\ (d \in mode.banned \/ ver[d] = cache[d].ver)
          <6>1. \A d \in deps[l] : d \in File /\ type[d] # "NONE"
            BY <1>t, <3>2, <3>4, <4>3 DEF EntriesType
          <6> QED BY <3>3, <6>1
        <5> QED BY <2>m, <2>c, <3>1, <4>1, <5>1 DEF Loaded
      <4> QED BY <4>2, <4>3
    <3>5. \A g \in File : type'[g] # "NONE" => type[g] # "NONE"
      BY <3>2
    <3> QED BY <1>s, <2>m, <2>c, <3>1, <3>3, <3>4, <3>5 DEF LoadedInv
  <2>3. CASE UNCHANGED <<entries, stack>> /\ ~ LoadCache /\ ~ CheckLibs /\ ~ DoLayout
             /\ ~ (TraceFails \/ GatherFails \/ GatherDone)
    <3>1. UNCHANGED <<type, done, deps, ver, slot, rewritten, known>>
      BY <2>3 DEF entries
    <3>2. \/ pc' = pc /\ (pc = "trust" => todo' = todo)
          \/ pc = "trust" /\ todo = {} /\ pc' = "gather"
          \/ pc = "prelink" /\ pc' \in {"stat", "aborted"}
          \/ pc = "stat" /\ pc' = "prelink"
          \/ \E f \in File : Trust(f)
      <4>1. CASE Gather
        BY <1>3, <2>3, <4>1 DEF Gather, Explore, Descend, Trace, Exit
      <4>2. CASE Prelink
        BY <1>3, <4>2 DEF Prelink, PrelinkRefused, PrelinkChanged, PrelinkFails, PrelinkEnt,
           Ready, StatEnt, StatFails, Statting, UndoOne, UndoFails, UndoEnd, SaveCache,
           SaveFails, Abort, SaveReady
      <4>3. CASE ~ Gather /\ ~ Prelink
        BY <1>s, <1>3, <2>3, <4>3 DEF Next, TrustEnd, NoSlot, Crash, Upgrade, Terminating, vars
      <4> QED BY <4>1, <4>2, <4>3
    <3>3. CASE ~ \E f \in File : Trust(f)
      BY <1>s, <2>m, <2>c, <3>1, <3>2, <3>3 DEF LoadedInv, Loaded, Spoiled
    <3> QED BY <2>2, <3>3
  <2>4. CASE Trace
    <3>1. pc = "gather" /\ pc' = "gather" /\ stack # << >> /\ UNCHANGED <<rewritten, slot, done>>
      BY <2>4 DEF Trace
    <3>2. \A l \in Lib : type'[l] = "CACHE_DYN" => type[l] = "CACHE_DYN" /\ deps'[l] = deps[l]
      <4>1. PICK f \in File : f = Top.file
        BY <1>t, <3>1, TopFacts
      <4>2. type[f] # "CACHE_DYN"
        <5>1. Len(stack) \in 1..Len(stack) /\ Top = stack[Len(stack)]
          BY <1>t, <3>1, TopFacts
        <5> QED BY <1>t, <4>1, <5>1 DEF StackInv, InProgress
      <4>3. \A x \in File :
              /\ type'[x] = IF x \in needs[f] /\ type[x] = "CACHE_DYN" THEN "NONE" ELSE type[x]
              /\ x # f /\ ~ (x \in needs[f] /\ type[x] = "CACHE_DYN") => deps'[x] = deps[x]
        BY <2>4, <4>1 DEF Trace
      <4> QED BY <1>t, <4>2, <4>3
    <3>3. \A f \in File : ~ StatEnt(f)
      BY <3>1 DEF StatEnt, Statting
    <3> QED BY <2>g, <3>1, <3>2, <3>3
  <2>5. CASE TraceFails \/ GatherFails \/ GatherDone
    <3>1. PICK f \in File : f = Top.file
      BY <1>s, <2>5, ReturnFacts
    <3>2. /\ pc = "gather" /\ pc' \in {"gather", "exit"} /\ UNCHANGED <<rewritten, slot>>
          /\ \A g \in File : g # f => type'[g] = type[g] /\ done'[g] = done[g] /\ deps'[g] = deps[g]
          /\ f \in Lib => type'[f] \in {"BAD", "UNPRELINKABLE", "DYN"}
      BY <1>s, <2>5, <3>1, ReturnFacts
    <3>3. \A g \in File : ~ StatEnt(g)
      BY <3>2 DEF StatEnt, Statting
    <3>4. \A l \in Lib : type'[l] = "CACHE_DYN" =>
                 type[l] = "CACHE_DYN" /\ deps'[l] = deps[l] /\ slot'[l] = slot[l] /\ done'[l] = done[l]
      BY <1>t, <3>2
    <3> QED BY <2>g, <3>2, <3>3, <3>4
  <2>6. CASE CheckLibs
    <3>1. /\ pc = "gather" /\ pc' \notin {"load", "trust"} /\ UNCHANGED <<rewritten, slot, done, deps>>
          /\ pc' = "load_rest" => ~ mode.all /\ ~ mode.quick
          /\ \A g \in File : type'[g] \in {type[g], "BAD"}
      BY <2>6 DEF CheckLibs
    <3>2. pc' # "load_rest"
      BY <1>t, <3>1 DEF AllOrQuick
    <3>3. \A g \in File : ~ StatEnt(g)
      BY <3>1 DEF StatEnt, Statting
    <3> QED BY <1>t, <2>g, <3>1, <3>2, <3>3
  <2>7. ASSUME NEW f \in File, Explore(f) \/ Descend(f) PROVE LoadedInv'
    <3>1. /\ pc = "gather" /\ pc' = "gather" /\ UNCHANGED <<rewritten, done>>
      BY <2>7 DEF Explore, Descend
    <3>2. CASE \E t : Entered(f) /\ Enter(f, t)
      <4>1. /\ \A g \in File : g # f => type'[g] = type[g] /\ deps'[g] = deps[g] /\ slot'[g] = slot[g]
            /\ type'[f] # "CACHE_DYN"
        BY <1>t, <3>2 DEF Entered, Enter, EntriesType
      <4>2. \A g \in File : ~ StatEnt(g)
        BY <3>1 DEF StatEnt, Statting
      <4> QED BY <1>t, <2>g, <3>1, <4>1, <4>2
    <3>3. CASE UNCHANGED <<type, deps, slot>>
      <4>2. \A g \in File : ~ StatEnt(g)
        BY <3>1 DEF StatEnt, Statting
      <4> QED BY <2>g, <3>1, <3>3, <4>2
    <3> QED BY <1>s, <2>7, <3>2, <3>3, ExploreEnters, DescendEnters
  <2>8. CASE DoLayout
    <3>1. /\ pc = "layout" /\ pc' = "prelink" /\ UNCHANGED <<type, deps, ver, rewritten, known>>
      BY <2>8 DEF DoLayout
    <3>2. ASSUME NEW l \in Lib, type'[l] = "CACHE_DYN" PROVE Loaded(l)'
      <4>1. Loaded(l) /\ type[l] = "CACHE_DYN"
        BY <2>0, <3>1, <3>2
      <4>2. \/ done'[l] = 1 /\ \E d \in deps[l] : Spoiled(d)'
            \/ done'[l] = 2 /\ slot'[l] = slot[l]
        BY <1>s, <2>8, <4>1, LostIsSpoiled
      <4>3. done[l] # 1
        BY <1>t, <3>1 DEF EntryInv
      <4> QED BY <2>m, <2>c, <3>1, <4>1, <4>2, <4>3 DEF Loaded
    <3> QED BY <3>1, <3>2 DEF LoadedInv
  <2>9. ASSUME NEW f \in File, PrelinkRefused(f) \/ PrelinkChanged(f) \/ PrelinkFails(f)
        PROVE  LoadedInv'
    <3>1. /\ Ready(f) /\ (\E t \in {"UNPRELINKABLE", type[f]} : Refused(f, t))
          /\ UNCHANGED <<deps, ver, slot, rewritten, known, pc>>
      BY <2>9 DEF PrelinkRefused, PrelinkChanged, PrelinkFails
    <3>2. type[f] \in {"DYN", "EXEC"} /\ pc = "prelink"
      BY <1>s, <3>1, ReadyFacts
    <3>3. /\ \A g \in File : g # f => type'[g] = type[g] /\ done'[g] = done[g]
          /\ done'[f] = 0 /\ type'[f] \in {"UNPRELINKABLE", type[f]}
      BY <1>t, <3>1 DEF Refused, EntriesType
    <3>4. \A d \in File : Spoiled(d) => Spoiled(d)'
      BY <3>1, <3>2, <3>3 DEF Spoiled
    <3>5. ASSUME NEW l \in Lib, type'[l] = "CACHE_DYN" PROVE Loaded(l)'
      <4>1. Loaded(l) /\ done'[l] = done[l] /\ deps[l] \subseteq File
        BY <1>t, <2>0, <3>2, <3>3, <3>5 DEF EntriesType
      <4> QED BY <2>m, <2>c, <3>1, <3>2, <3>4, <4>1 DEF Loaded
    <3> QED BY <3>1, <3>2, <3>5 DEF LoadedInv
  <2>10. ASSUME NEW f \in File, PrelinkEnt(f) PROVE LoadedInv'
    <3>1. /\ Ready(f) /\ UNCHANGED <<type, deps, slot, known, ver>> /\ rewritten' = rewritten \union {f}
          /\ pc' = "stat" /\ \A g \in File : g # f => done'[g] = done[g]
      BY <1>t, <2>10 DEF PrelinkEnt, EntriesType
    <3>2. type[f] \in {"DYN", "EXEC"} /\ pc = "prelink"
      BY <1>s, <3>1, ReadyFacts
    <3>4. \A d \in File : Spoiled(d) => Spoiled(d)'
      BY <3>1, <3>2 DEF Spoiled
    <3>5. ASSUME NEW l \in Lib, type'[l] = "CACHE_DYN" PROVE Loaded(l)'
      <4>1. Loaded(l) /\ done'[l] = done[l] /\ deps[l] \subseteq File /\ l # f /\ ver'[l] = ver[l]
        BY <1>t, <2>0, <3>1, <3>2, <3>5 DEF EntriesType
      <4>2. \A d \in deps[l] : d \in known' /\ (d \in rewritten' \/ d \in mode.banned \/ ver'[d] = cache[d].ver)
        BY <3>1, <3>2, <4>1 DEF Loaded
      <4> QED BY <2>m, <2>c, <3>1, <3>4, <4>1, <4>2 DEF Loaded
    <3> QED BY <3>1, <3>2, <3>5 DEF LoadedInv
  <2>11. ASSUME NEW f \in File, StatEnt(f) PROVE LoadedInv'
    <3>1. /\ pc = "stat" /\ pc' = "prelink" /\ f \in rewritten
          /\ UNCHANGED <<type, deps, slot, known, done, rewritten>>
          /\ \A g \in File : g # f => ver'[g] = ver[g]
      BY <1>t, <2>11 DEF StatEnt, Statting, EntriesType
    <3>2. \A d \in File : Spoiled(d) => Spoiled(d)'
      BY <3>1 DEF Spoiled
    <3>3. ASSUME NEW l \in Lib, type'[l] = "CACHE_DYN" PROVE Loaded(l)'
      <4>1. Loaded(l) /\ deps[l] \subseteq File /\ l # f
        BY <1>t, <2>0, <3>1, <3>3 DEF EntriesType, Loaded
      <4>2. \A d \in deps[l] : d \in known' /\ (d \in rewritten' \/ d \in mode.banned \/ ver'[d] = cache[d].ver)
        BY <3>1, <4>1 DEF Loaded
      <4> QED BY <1>t, <2>m, <2>c, <3>1, <3>2, <4>1, <4>2 DEF Loaded
    <3> QED BY <3>1, <3>3 DEF LoadedInv
  <2> QED BY <1>s, <1>3, <2>1, <2>2, <2>3, <2>4, <2>5, <2>6, <2>7, <2>8, <2>9, <2>10, <2>11,
     StepKinds
<1> QED BY <1>1, <1>2, <1>3

(* prelink_save_cache_check keeps a library that was not gathered when     *)
(* nothing it depends on was prelinked, moved or failed.                   *)
LEMMA KeepFacts ==
  ASSUME GatherInv, BannedInv, LoadedInv, pc # "idle", NEW l \in Lib, type[l] = "CACHE_DYN", Keep(l)
  PROVE  /\ \A d \in deps[l] : ~ Spoiled(d) /\ d \notin rewritten /\ d \notin mode.banned
         /\ slot[l] = cache[l].slot /\ deps[l] = cache[l].deps /\ ver[l] = cache[l].ver
         /\ l \in DOMAIN cache /\ ~ cache[l].unprelinkable
<1>1. Loaded(l) /\ mode.quick /\ deps[l] \subseteq Lib
  BY TypeFacts DEF LoadedInv, Loaded, EntriesType
<1>2. PICK K \in SUBSET File :
        /\ l \in K
        /\ \A g \in K : \A d \in deps[g] :
             \/ type[d] = "DYN" /\ done[d] = 2 /\ ~ Moved(d)
             \/ type[d] = "CACHE_DYN" /\ d \in K
             \/ type[d] = "UNPRELINKABLE" /\ type[g] = "UNPRELINKABLE" /\ d \in K
  BY DEF Keep
<1>3. \A d \in deps[l] : \/ type[d] = "DYN" /\ done[d] = 2 /\ ~ Moved(d)
                         \/ type[d] = "CACHE_DYN"
  BY <1>2
<1>4. \A d \in deps[l] : ~ Spoiled(d) /\ d \notin rewritten
  BY <1>1, <1>3 DEF Spoiled, Moved, LoadedInv, Loaded
<1>5. \A d \in deps[l] : d \notin mode.banned
  BY <1>3 DEF BannedInv
<1> QED BY <1>1, <1>4, <1>5 DEF Loaded

LEMMA CacheInvInductive == RunInv /\ BannedInv /\ LoadedInv /\ CacheInv /\ [Next]_vars => CacheInv'
<1>s. SUFFICES ASSUME RunInv, BannedInv, LoadedInv, CacheInv, [Next]_vars PROVE CacheInv'
  OBVIOUS
<1>r. GatherInv /\ ClockInv /\ PrelinkInv /\ ReadInv /\ needs' = needs
  BY <1>s, NeedsUnchanged DEF RunInv
<1>t. /\ EntriesType /\ EntryInv /\ DepsInv /\ FilesType /\ Lib \subseteq File
      /\ needs \in [File -> SUBSET Lib]
  BY <1>r, TypeFacts
<1>1. CASE SaveCache
  <2>1. /\ pc = "prelink" /\ disk' = disk /\ raced' = raced /\ \A f \in Saved : deps[f] \subseteq Saved
        /\ DOMAIN cache' = Saved
        /\ \A f \in Saved :
             /\ cache'[f].ver = ver[f] /\ cache'[f].deps = deps[f]
             /\ f \notin Exe /\ type[f] # "UNPRELINKABLE" => cache'[f].slot = slot[f]
             /\ cache'[f].unprelinkable <=> type[f] = "UNPRELINKABLE"
    BY <1>1 DEF SaveCache, SaveReady
  <2>2. ~ mode.undo
    BY <1>s, <2>1 DEF RunInv, UndoInv
  <2>3. ASSUME NEW l \in Saved \intersect Lib, type[l] # "UNPRELINKABLE"
        PROVE  /\ deps[l] = needs[l]
               /\ Sure(l) => slot[l] = disk[l].slot
               /\ Sure(l) /\ (\A d \in needs[l] : Sure(d)) => UpToDate(l)
    <3>1. l \in File /\ l \notin Exe
      BY <1>t, ConstantFacts
    <3>2. CASE type[l] = "DYN" /\ done[l] = 2
      <4>1. Gathered(l) /\ Firm(l)
        BY <3>2 DEF Gathered, Firm
      <4>2. deps[l] = needs[l]
        BY <1>t, <3>1, <4>1 DEF DepsInv
      <4>3. Sure(l) => slot[l] = disk[l].slot
        BY <1>r, <3>1, <3>2, <4>1 DEF ReadInv
      <4>4. Sure(l) /\ (\A d \in needs[l] : Sure(d)) => UpToDate(l)
        BY <1>s, <2>1, <2>2, <3>1, <4>1, FirmUpToDate
      <4> QED BY <4>2, <4>3, <4>4
    <3>3. CASE type[l] = "CACHE_DYN" /\ Keep(l)
      <4>1. /\ \A d \in deps[l] : d \notin rewritten /\ d \notin mode.banned
            /\ slot[l] = cache[l].slot /\ deps[l] = cache[l].deps /\ ver[l] = cache[l].ver
            /\ l \in DOMAIN cache /\ ~ cache[l].unprelinkable
        BY <1>s, <1>r, <2>1, <3>3, KeepFacts
      <4>2. /\ cache[l].deps = needs[l]
            /\ Matched(l) => cache[l].slot = disk[l].slot
            /\ Matched(l) /\ (\A d \in needs[l] : Matched(d)) => UpToDate(l)
        BY <1>s, <4>1 DEF CacheInv
      <4>3. \A d \in deps[l] : ver[d] = cache[d].ver
        BY <1>s, <2>1, <3>3, <4>1 DEF LoadedInv, Loaded
      <4> QED BY <4>1, <4>2, <4>3 DEF Sure, Unaltered, Matched
    <3> QED BY <1>t, <2>3, <3>1, <3>2, <3>3 DEF Saved, EntryInv
  <2>4. \A l \in Lib : UpToDate(l)' <=> UpToDate(l)
    BY <1>r, <2>1 DEF UpToDate
  <2>5. ASSUME NEW l \in DOMAIN cache' \intersect Lib, ~ cache'[l].unprelinkable
        PROVE  /\ cache'[l].deps = needs[l]
               /\ Matched(l)' => cache'[l].slot = disk[l].slot
               /\ Matched(l)' /\ (\A d \in needs[l] : Matched(d)') => UpToDate(l)
    <3>1. l \in Saved /\ l \in Lib /\ type[l] # "UNPRELINKABLE" /\ l \notin Exe
      BY <2>1, <2>5, ConstantFacts
    <3>2. deps[l] = needs[l] /\ needs[l] \subseteq Saved
      BY <2>1, <2>3, <3>1
    <3>3. \A d \in Saved : Matched(d)' => Sure(d)
      BY <2>1 DEF Matched, Sure, Unaltered
    <3> QED BY <2>1, <2>3, <3>1, <3>2, <3>3
  <2> QED BY <1>r, <2>1, <2>4, <2>5 DEF CacheInv
<1>2. CASE ~ SaveCache
  <2>1. cache' = cache
    BY <1>s, <1>2, FilesUnchanged DEF fs, PrelinkFails, PrelinkEnt, UndoOne, Upgrade
  <2>r. raced \subseteq raced'
    BY <1>s, RacedSteps
  <2>2. \A f \in DOMAIN cache : Matched(f)' => Matched(f) /\ disk'[f] = disk[f]
    <3>1. \A f \in DOMAIN cache : f \in File /\ cache[f].ver \in Nat /\ cache[f].ver <= clock
      BY <1>r, TypeFacts DEF ClockInv
    <3>2. clock \in Nat /\ \A v \in Nat : v <= clock => v # clock + 1
      BY <1>r, TypeFacts
    <3>3. \A f \in DOMAIN cache : cache[f].ver = disk'[f].ver => disk'[f] = disk[f]
      BY <1>s, <1>r, <3>1, <3>2, DiskSteps
    <3> QED BY <2>1, <2>r, <3>3 DEF Matched
  <2>3. ASSUME NEW l \in DOMAIN cache \intersect Lib, ~ cache[l].unprelinkable
        PROVE  /\ cache[l].deps = needs[l]
               /\ Matched(l)' => cache[l].slot = disk'[l].slot
               /\ Matched(l)' /\ (\A d \in needs[l] : Matched(d)') => UpToDate(l)'
    <3>1. /\ cache[l].deps = needs[l]
          /\ Matched(l) => cache[l].slot = disk[l].slot
          /\ Matched(l) /\ (\A d \in needs[l] : Matched(d)) => UpToDate(l)
      BY <1>s, <2>3 DEF CacheInv
    <3>2. needs[l] \subseteq DOMAIN cache
      BY <1>t, <2>3, <3>1 DEF FilesType
    <3>3. ASSUME Matched(l)', \A d \in needs[l] : Matched(d)'
          PROVE  UpToDate(l)'
      <4>1. disk'[l] = disk[l] /\ Matched(l) /\ \A d \in needs[l] : disk'[d] = disk[d] /\ Matched(d)
        BY <2>2, <2>3, <3>2, <3>3
      <4>2. UpToDate(l)
        BY <3>1, <3>3, <4>1
      <4> QED BY <1>r, <4>1, <4>2 DEF UpToDate
    <3>4. Matched(l)' => cache[l].slot = disk'[l].slot
      BY <2>2, <2>3, <3>1
    <3> QED BY <3>1, <3>3, <3>4
  <2> QED BY <1>r, <2>1, <2>3 DEF CacheInv
<1> QED BY <1>1, <1>2

LEMMA CacheInvHolds ==
  ASSUME AllOrQuick
  PROVE  Spec => [](RunInv /\ BannedInv /\ LoadedInv /\ CacheInv)
<1>1. Init => LoadedInv /\ CacheInv
  <2> SUFFICES ASSUME Init PROVE LoadedInv /\ CacheInv
    OBVIOUS
  <2>1. DOMAIN cache = {} /\ pc = "idle" /\ \A f \in Lib : type[f] = "NONE"
    BY ConstantFacts DEF Init
  <2> QED BY <2>1 DEF LoadedInv, CacheInv
<1>2. RunInv => GatherInv /\ PrelinkInv
  BY DEF RunInv
<1>3. RunInv /\ BannedInv /\ LoadedInv /\ CacheInv /\ [Next]_vars => BannedInv' /\ LoadedInv' /\ CacheInv'
  BY <1>2, BannedInvInductive, LoadedInvInductive, CacheInvInductive
<1> QED BY <1>1, <1>3, InitBanned, RunInvHolds, PTL DEF Spec

(* The cache has the slots that the files have, wherever its version is    *)
(* the version of the file: after any sequence of runs with -a or -q,      *)
(* blacklists, failures, upgrades and kills (prelink_save_cache), but for  *)
(* a file that was installed between the rename and the stat64 of          *)
(* prelink_ent.  (Runs without -a and -q break it: run SessionNamed.)      *)
THEOREM CacheSlotsHolds ==
  ASSUME AllOrQuick
  PROVE  Spec => []CacheSlots
<1>1. CacheInv => CacheSlots
  BY DEF CacheInv, CacheSlots, Matched
<1> QED BY <1>1, CacheInvHolds, PTL

(* A library that prelink -q takes from the cache without looking at its   *)
(* file is up to date, after any sequence of runs with -a or -q, failures, *)
(* upgrades and kills, unless it or a dependency was upgraded after        *)
(* prelink -q has read its times or, in an earlier run, between the rename *)
(* and the stat64 of prelink_ent, or a dependency is blacklisted in this   *)
(* run, so that its times are not compared (prelink_load_cache and its     *)
(* second pass, prelink_save_cache_check).                                 *)
THEOREM QuickSoundHolds ==
  ASSUME AllOrQuick
  PROVE  Spec => []QuickSound
<1>1. RunInv /\ LoadedInv /\ CacheInv => QuickSound
  <2> SUFFICES ASSUME RunInv, LoadedInv, CacheInv, pc = "trust", todo = {},
                      NEW l \in Lib, type[l] = "CACHE_DYN",
                      Sure(l), \A d \in deps[l] : Sure(d) /\ d \notin mode.banned
               PROVE  UpToDate(l)
    BY DEF QuickSound
  <2>1. Loaded(l)
    BY DEF LoadedInv
  <2>2. rewritten = {}
    BY TypeFacts DEF RunInv, EntryInv
  <2>3. /\ l \in DOMAIN cache /\ ~ cache[l].unprelinkable /\ deps[l] = cache[l].deps
        /\ ver[l] = cache[l].ver /\ \A d \in deps[l] : ver[d] = cache[d].ver
    BY <2>1, <2>2 DEF Loaded
  <2>4. /\ cache[l].deps = needs[l]
        /\ Matched(l) /\ (\A d \in needs[l] : Matched(d)) => UpToDate(l)
    BY <2>3 DEF CacheInv
  <2> QED BY <2>3, <2>4 DEF Sure, Unaltered, Matched
<1> QED BY <1>1, CacheInvHolds, PTL

-----------------------------------------------------------------------------
(* Idempotence: the invariants.                                            *)

(* The calls of gather_deps: all but the last have their dependencies, and *)
(* a library depends on everything that is being gathered for it.          *)
ChainInv ==
  /\ \A i \in 1..Len(stack) : i < Len(stack) => stack[i].traced
  /\ \A i, k \in 1..Len(stack) :
       i < k /\ stack[i].file \in Lib => stack[k].file \in needs[stack[i].file]

(* What a gathered file depends on is not being gathered any more.         *)
ClosedInv ==
  pc = "gather" =>
    \A f \in File : type[f] \in {"DYN", "EXEC"} =>
      \A d \in needs[f] : /\ type[d] \in {"BAD", "DYN"}
                          /\ \A i \in 1..Len(stack) : stack[i].file # d

(* A file that changes under prelink is not prelinked, nor is one that     *)
(* was installed between a rename and its stat64.                          *)
AlteredInv ==
  /\ \A f \in known : \/ Unaltered(f) \/ Bare(f)
                       \/ (f \in rewritten /\ (failed \/ Statting(f)))
  /\ \A f \in File : disk[f].ver \in raced => Bare(f)

(* Why a library is not done at the end, and where the others are.         *)
LaidOutInv ==
  pc \in {"prelink", "stat"} =>
    /\ \A l \in Lib : type[l] = "DYN" => \/ done[l] = 2 \/ l \in todo \/ failed
                                         \/ ~ Unaltered(l)
    /\ \A f \in File : type[f] \in {"DYN", "EXEC"} =>
         \A l, m \in needs[f] : l # m /\ type[l] = "DYN" /\ type[m] = "DYN" => slot[l] # slot[m]

(* Cached dependencies are those that ld.so lists.                         *)
CacheDepsInv ==
  /\ \A f \in DOMAIN cache : ~ cache[f].unprelinkable => cache[f].deps = needs[f]
  /\ \A f \in File : type[f] \in {"CACHE_DYN", "CACHE_EXEC"} => deps[f] = needs[f]

(* What a complete, successful prelink -a leaves.                          *)
SettledInv ==
  settled => \A f \in File :
    /\ UpToDate(f)
    /\ \A l, m \in needs[f] : l # m => disk[l].slot # disk[m].slot

(* After it: a file that is not done has a dependency that is not.         *)
QuietInv ==
  settled /\ pc # "idle" /\ ~ mode.force /\ ~ mode.undo =>
    /\ \A f \in known : Unaltered(f)
    /\ \A f \in File : type[f] \in {"DYN", "EXEC"} /\ done[f] # 2 =>
         \E d \in needs[f] : done[d] # 2

-----------------------------------------------------------------------------
(* Gathering.                                                              *)

(* The steps that do not change the calls.                                 *)
LEMMA SameStack ==
  ASSUME GatherInv, [Next]_vars
  PROVE  \/ stack' = << >>
         \/ stack' = stack
         \/ Trace \/ TraceFails \/ GatherFails \/ GatherDone
         \/ \E f \in File : \E t : Entered(f) /\ Enter(f, t) /\ (Descend(f) \/ stack = << >>)
<1>1. LoadCache \/ CheckLibs \/ DoLayout \/ (\E m \in Modes : Start(m)) => stack' = stack
  BY DEF LoadCache, CheckLibs, DoLayout, Start
<1>2. \A f \in File : \/ Trust(f) \/ PrelinkRefused(f) \/ PrelinkChanged(f) \/ PrelinkFails(f)
                     \/ PrelinkEnt(f) \/ StatEnt(f)
        => stack' = stack
  BY DEF Trust, PrelinkRefused, PrelinkChanged, PrelinkFails, PrelinkEnt, StatEnt
<1>3. End => stack' = << >>
  BY DEF End
<1> DEFINE Enters == \E f \in File : \E t :
                       Entered(f) /\ Enter(f, t) /\ (Descend(f) \/ stack = << >>)
<1>4. ASSUME NEW f \in File, Descend(f) PROVE Enters
  <2>1. Entered(f) /\ Enter(f, type)
    BY <1>4, DescendEnters
  <2> QED BY <1>4, <2>1
<1>5. ASSUME NEW f \in File, Explore(f) PROVE stack' = stack \/ Enters
  <2>1. CASE Entered(f) /\ Enter(f, [type EXCEPT ![f] = "NONE"])
    <3>1. stack = << >>
      BY <1>5, ExploreEnters
    <3> QED BY <2>1, <3>1
  <2> QED BY <1>5, <2>1, ExploreEnters
<1> HIDE DEF Enters
<1>6. stack' = << >> \/ stack' = stack \/ Trace \/ TraceFails \/ GatherFails \/ GatherDone \/ Enters
  <2>1. UNCHANGED <<entries, stack>> => stack' = stack
    OBVIOUS
  <2>2. CASE \E f \in File : Trust(f) \/ Explore(f) \/ Descend(f)
    BY <1>2, <1>4, <1>5, <2>2
  <2>3. CASE \E f \in File : \/ PrelinkRefused(f) \/ PrelinkChanged(f) \/ PrelinkFails(f)
                              \/ PrelinkEnt(f) \/ StatEnt(f)
    BY <1>2, <2>3
  <2> QED BY <1>1, <1>3, <2>1, <2>2, <2>3, StepKinds
<1> QED BY <1>6 DEF Enters

LEMMA FrameFiles ==
  ASSUME GatherInv
  PROVE  \A i \in 1..Len(stack) : stack[i].file \in File /\ stack[i].file \in known
<1>1. stack \in Seq(Frames) /\ StackInv
  BY TypeFacts
<1>2. \A i \in 1..Len(stack) : stack[i] \in Frames
  BY <1>1
<1> QED BY <1>1, <1>2 DEF Frames, StackInv

LEMMA ChainInvInductive == GatherInv /\ ChainInv /\ [Next]_vars => ChainInv'
<1>s. SUFFICES ASSUME GatherInv, ChainInv, [Next]_vars PROVE ChainInv'
  OBVIOUS
<1>t. /\ stack \in Seq(Frames) /\ Len(stack) \in Nat /\ FilesType /\ StackInv /\ needs' = needs /\ TypeInv
      /\ needs \in [File -> SUBSET Lib] /\ Lib \subseteq File
  BY <1>s, TypeFacts, NeedsUnchanged
<1>f. \A i \in 1..Len(stack) : stack[i].file \in File
  BY <1>s, FrameFiles
<1>1. CASE stack' = << >>
  BY <1>1 DEF ChainInv
<1>2. CASE stack' = stack
  BY <1>s, <1>t, <1>2 DEF ChainInv
<1>3. CASE Trace
  BY <1>s, <1>t, <1>3, TraceFacts DEF ChainInv
<1>4. CASE TraceFails \/ GatherFails \/ GatherDone
  <2>1. /\ Len(stack') = Len(stack) - 1
        /\ \A i \in 1..Len(stack') :
             stack'[i].file = stack[i].file /\ stack'[i].traced = stack[i].traced
    BY <1>s, <1>t, <1>4, ReturnFacts, PopFacts
  <2>2. \A i \in 1..Len(stack') : i \in 1..Len(stack) /\ i < Len(stack)
    BY <1>t, <2>1
  <2> QED BY <1>s, <1>t, <2>1, <2>2 DEF ChainInv
<1>5. ASSUME NEW f \in File, NEW t, Entered(f), Enter(f, t), Descend(f) \/ stack = << >>
      PROVE  ChainInv'
  <2>1. FilesType /\ stack \in Seq(Frames) /\ Enter(f, t)
    BY <1>t, <1>5
  <2>2. /\ Len(stack') = Len(stack) + 1
        /\ \A k \in 1..Len(stack) : stack'[k] = stack[k]
        /\ stack'[Len(stack) + 1].file = f
    BY <2>1, EnterFacts
  <2>3. CASE stack = << >>
    <3>1. Len(stack') = 1
      BY <2>2, <2>3
    <3> QED BY <1>t, <3>1 DEF ChainInv
  <2>4. CASE Descend(f) /\ stack # << >>
    <3>1. Top.traced /\ f \in Pending
      BY <2>4 DEF Descend
    <3>2. Len(stack) \in 1..Len(stack) /\ Top = stack[Len(stack)] /\ Top.file \in File
      BY <1>t, <2>4, TopFacts
    <3>3. f \in needs[Top.file]
      <4>1. deps[Top.file] = needs[Top.file] /\ Top.cached \subseteq needs[Top.file]
        BY <1>t, <3>1, <3>2 DEF StackInv
      <4> QED BY <3>1, <4>1 DEF Pending
    <3>4. ASSUME NEW i \in 1..Len(stack), stack[i].file \in Lib PROVE f \in needs[stack[i].file]
      <4>1. CASE i = Len(stack)
        BY <3>2, <3>3, <4>1
      <4>2. CASE i # Len(stack)
        <5>1. Top.file \in needs[stack[i].file]
          BY <1>s, <1>t, <3>2, <3>4, <4>2 DEF ChainInv
        <5>2. needs[Top.file] \subseteq needs[stack[i].file] \union {stack[i].file}
          BY <1>t, <3>4, <5>1, SessionAssumption DEF FilesType
        <5>3. stack[i].file # f
          BY <1>5 DEF Entered
        <5> QED BY <3>3, <5>2, <5>3
      <4> QED BY <4>1, <4>2
    <3>5. \A i \in 1..Len(stack) : stack[i].traced
      BY <1>s, <1>t, <3>1, <3>2 DEF ChainInv
    <3>6. ASSUME NEW i \in 1..Len(stack'), NEW k \in 1..Len(stack'), i < k
          PROVE  /\ stack'[i].traced
                 /\ stack'[i].file \in Lib => stack'[k].file \in needs[stack'[i].file]
      <4>1. i \in 1..Len(stack)
        BY <1>t, <2>2, <3>6
      <4>2. CASE k = Len(stack) + 1
        BY <2>2, <3>4, <3>5, <4>1, <4>2
      <4>3. CASE k \in 1..Len(stack)
        BY <1>s, <2>2, <3>5, <3>6, <4>1, <4>3 DEF ChainInv
      <4> QED BY <1>t, <2>2, <3>6, <4>2, <4>3
    <3>7. \A i \in 1..Len(stack') : i < Len(stack') => stack'[i].traced
      BY <1>t, <2>2, <3>5
    <3> QED BY <1>t, <3>6, <3>7 DEF ChainInv
  <2> QED BY <1>5, <2>3, <2>4
<1> QED BY <1>s, <1>1, <1>2, <1>3, <1>4, <1>5, SameStack

LEMMA ClosedInvInductive == GatherInv /\ ChainInv /\ ClosedInv /\ [Next]_vars => ClosedInv'
<1>s. SUFFICES ASSUME GatherInv, ChainInv, ClosedInv, [Next]_vars, pc' = "gather" PROVE ClosedInv'
  BY DEF ClosedInv
<1>t. /\ EntriesType /\ EntryInv /\ StackInv /\ stack \in Seq(Frames) /\ TypeInv /\ FilesType
      /\ Len(stack) \in Nat /\ needs' = needs /\ needs \in [File -> SUBSET Lib] /\ Lib \subseteq File
  BY <1>s, TypeFacts, NeedsUnchanged
<1>f. \A i \in 1..Len(stack) : stack[i].file \in File
  BY <1>s, FrameFiles
<1>0. ASSUME \A f \in File : type'[f] \notin {"DYN", "EXEC"} PROVE ClosedInv'
  BY <1>0 DEF ClosedInv
<1>c. pc = "gather" => \A f \in File : type[f] \in {"DYN", "EXEC"} =>
        \A d \in needs[f] : /\ type[d] \in {"BAD", "DYN"} /\ d \in File
                            /\ \A i \in 1..Len(stack) : stack[i].file # d
  BY <1>s, <1>t DEF ClosedInv
<1>1. CASE pc # "gather"
  <2>1. \/ \A f \in File : type'[f] \in {"NONE", "BAD"}
        \/ pc = "trust" /\ type' = type
    <3>1. CASE Gather
      BY <1>s, <1>1, <3>1 DEF Gather, Explore, Descend, Trace, TraceFails, GatherFails, GatherDone,
                              CheckLibs, Exit, End
    <3>2. CASE Prelink
      BY <1>s, <1>1, <3>2 DEF Prelink, PrelinkRefused, PrelinkChanged, PrelinkFails, PrelinkEnt,
         StatEnt, StatFails, UndoOne, UndoFails, UndoEnd, SaveCache, SaveFails, Abort, End
    <3>3. CASE ~ Gather /\ ~ Prelink
      BY <1>s, <1>1, <3>3 DEF Next, Start, LoadCache, Trust, TrustEnd, DoLayout, NoSlot, Upgrade,
         Crash, Terminating, End, entries, vars
    <3> QED BY <3>1, <3>2, <3>3
  <2>2. \A f \in File : type'[f] \notin {"DYN", "EXEC"}
    BY <1>t, <2>1 DEF EntryInv, Gathered
  <2> QED BY <1>0, <2>2
<1>2. CASE pc = "gather" /\ stack' = stack /\ type' = type
  BY <1>t, <1>c, <1>2 DEF ClosedInv
<1>3. CASE Trace
  <2>1. pc = "gather" /\ \A x \in File : type'[x] = type[x] \/ (type[x] = "CACHE_DYN" /\ type'[x] = "NONE")
    BY <1>3 DEF Trace
  <2>2. Len(stack') = Len(stack) /\ \A i \in 1..Len(stack) : stack'[i].file = stack[i].file
    BY <1>t, <1>3, TraceFacts
  <2>3. ASSUME NEW f \in File, type'[f] \in {"DYN", "EXEC"}, NEW d \in needs[f]
        PROVE  type'[d] \in {"BAD", "DYN"} /\ \A i \in 1..Len(stack') : stack'[i].file # d
    <3>1. type[f] \in {"DYN", "EXEC"}
      BY <2>1, <2>3
    <3>2. type[d] \in {"BAD", "DYN"} /\ d \in File /\ \A i \in 1..Len(stack) : stack[i].file # d
      BY <1>c, <2>1, <3>1
    <3>3. type'[d] = type[d]
      BY <2>1, <3>2
    <3> QED BY <2>2, <3>2, <3>3
  <2> QED BY <1>t, <2>3 DEF ClosedInv
<1>4. ASSUME NEW f \in File, NEW t, Entered(f), Enter(f, t) PROVE ClosedInv'
  <2>1. FilesType /\ stack \in Seq(Frames) /\ Enter(f, t)
    BY <1>t, <1>4
  <2>2. /\ Len(stack') = Len(stack) + 1
        /\ \A k \in 1..Len(stack) : stack'[k] = stack[k]
        /\ stack'[Len(stack) + 1].file = f
    BY <2>1, EnterFacts
  <2>3. /\ pc = "gather" /\ type[f] \in {"NONE", "UNPRELINKABLE"}
        /\ type'[f] \in {"BAD", "NONE"} /\ \A g \in File : g # f => type'[g] = type[g]
    BY <1>t, <1>4 DEF Entered, EntriesType
  <2>4. ASSUME NEW g \in File, type'[g] \in {"DYN", "EXEC"}, NEW d \in needs[g]
        PROVE  type'[d] \in {"BAD", "DYN"} /\ \A i \in 1..Len(stack') : stack'[i].file # d
    <3>1. type[g] \in {"DYN", "EXEC"}
      BY <2>3, <2>4
    <3>2. type[d] \in {"BAD", "DYN"} /\ d \in File /\ \A i \in 1..Len(stack) : stack[i].file # d
      BY <1>c, <2>3, <3>1
    <3>3. d # f
      BY <2>3, <3>2
    <3>4. \A i \in 1..Len(stack') : stack'[i].file # d
      <4>1. \A i \in 1..Len(stack') : i = Len(stack) + 1 \/ i \in 1..Len(stack)
        BY <1>t, <2>2
      <4> QED BY <2>2, <3>2, <3>3, <4>1
    <3> QED BY <2>3, <3>2, <3>3, <3>4
  <2> QED BY <1>t, <2>4 DEF ClosedInv
<1>5. CASE TraceFails \/ GatherFails \/ GatherDone
  <2>0. PICK f \in File : f = Top.file
    BY <1>s, <1>5, ReturnFacts
  <2>1. /\ pc = "gather" /\ stack # << >> /\ InProgress(f)
        /\ \A g \in File : g # f => type'[g] = type[g]
    BY <1>s, <1>5, <2>0, ReturnFacts
  <2>2. Len(stack) \in 1..Len(stack) /\ Top = stack[Len(stack)]
    BY <1>t, <2>1, TopFacts
  <2>3. /\ Len(stack') = Len(stack) - 1
        /\ \A i \in 1..Len(stack') : stack'[i].file = stack[i].file
    BY <1>s, <1>t, <1>5, ReturnFacts, PopFacts
  <2>4. \A i \in 1..Len(stack') : i \in 1..Len(stack)
    BY <1>t, <2>3
  <2>5. ASSUME NEW g \in File, g # f, type'[g] \in {"DYN", "EXEC"}, NEW d \in needs[g]
        PROVE  type'[d] \in {"BAD", "DYN"} /\ \A i \in 1..Len(stack') : stack'[i].file # d
    <3>1. type[d] \in {"BAD", "DYN"} /\ d \in File /\ \A i \in 1..Len(stack) : stack[i].file # d
      BY <1>c, <2>1, <2>5
    <3>2. d # f
      BY <2>0, <2>2, <3>1
    <3> QED BY <2>1, <2>3, <2>4, <3>1, <3>2
  <2>6. ASSUME type'[f] \in {"DYN", "EXEC"}, NEW d \in needs[f]
        PROVE  type'[d] \in {"BAD", "DYN"} /\ \A i \in 1..Len(stack') : stack'[i].file # d
    <3>1. CASE TraceFails \/ GatherFails
      <4>1. type'[f] \in {type[f], "UNPRELINKABLE"}
        BY <1>t, <2>0, <3>1 DEF TraceFails, GatherFails, EntriesType
      <4> QED BY <2>1, <2>6, <4>1 DEF InProgress
    <3>2. CASE GatherDone
      <4>1. /\ Top.traced /\ Pending = {} /\ ~ Top.failing /\ ~ Cycle(f)
            /\ ~ \E k \in deps[f] : type[k] = "UNPRELINKABLE"
        <5>1. /\ Top.traced /\ Pending = {} /\ ~ Top.failing /\ ~ Cycle(f)
          BY <2>0, <3>2 DEF GatherDone
        <5>2. (\E k \in deps[f] : type[k] = "UNPRELINKABLE") => type' = [type EXCEPT ![f] = "UNPRELINKABLE"]
          BY <2>0, <3>2 DEF GatherDone
        <5>3. type' # [type EXCEPT ![f] = "UNPRELINKABLE"]
          BY <1>t, <2>6 DEF EntriesType
        <5> QED BY <5>1, <5>2, <5>3
      <4>2. deps[f] = needs[f] /\ type[d] # "CACHE_DYN"
        BY <1>t, <2>0, <2>2, <2>6, <4>1 DEF StackInv
      <4>3. type[d] \notin {"NONE", "UNPRELINKABLE"} /\ f \notin deps[d]
        BY <2>0, <2>6, <4>1, <4>2 DEF Pending, Cycle
      <4>4. d \in Lib /\ d \in File /\ type[d] \in Types /\ d \notin Exe
        BY <1>t, <2>6, ConstantFacts DEF EntriesType
      <4>5. type[d] \in {"BAD", "DYN"}
        BY <1>t, <4>2, <4>3, <4>4 DEF EntryInv, Types
      <4>6. d # f
        BY <2>6, <4>2, <4>3
      <4>7. ASSUME NEW i \in 1..Len(stack') PROVE stack'[i].file # d
        <5>1. i \in 1..Len(stack) /\ i < Len(stack) /\ stack'[i].file = stack[i].file
          BY <1>t, <2>3, <4>7
        <5>2. CASE stack[i].file = d
          <6>1. stack[i].traced /\ f \in needs[d]
            BY <1>s, <2>0, <2>2, <4>4, <5>1, <5>2 DEF ChainInv
          <6>2. deps[d] = needs[d]
            BY <1>t, <5>1, <5>2, <6>1 DEF StackInv
          <6> QED BY <4>3, <6>1, <6>2
        <5> QED BY <5>1, <5>2
      <4> QED BY <2>1, <4>4, <4>5, <4>6, <4>7
    <3> QED BY <1>5, <3>1, <3>2
  <2> QED BY <1>t, <2>5, <2>6 DEF ClosedInv
<1>6. CASE pc = "gather" /\ UNCHANGED <<entries, stack>>
  BY <1>2, <1>6 DEF entries
<1>7. \A f \in File : Explore(f) => (stack' = stack /\ type' = type) \/ (\E t : Entered(f) /\ Enter(f, t))
  BY <1>s, ExploreEnters
<1>8. \A f \in File : Descend(f) => \E t : Entered(f) /\ Enter(f, t)
  BY <1>s, DescendEnters
<1>9. pc = "gather" => /\ ~ LoadCache /\ ~ DoLayout /\ ~ CheckLibs /\ ~ End
                       /\ \A f \in File : ~ (\/ Trust(f) \/ PrelinkRefused(f) \/ PrelinkChanged(f)
                                             \/ PrelinkFails(f) \/ PrelinkEnt(f) \/ StatEnt(f))
                       /\ \A m \in Modes : ~ Start(m)
  BY <1>s DEF LoadCache, DoLayout, CheckLibs, End, Trust, PrelinkRefused, PrelinkChanged,
     PrelinkFails, PrelinkEnt, Ready, StatEnt, Statting, Start
<1> QED BY <1>s, <1>1, <1>2, <1>3, <1>4, <1>5, <1>6, <1>7, <1>8, <1>9, StepKinds

-----------------------------------------------------------------------------
(* Files that change.                                                      *)

(* An entry is made with the version of its file.                          *)
LEMMA NewEntries ==
  ASSUME [Next]_vars, NEW f \in File, f \in known', f \notin known
  PROVE  ver'[f] = disk[f].ver
<1>1. known' # known
  OBVIOUS
<1>2. \/ LoadCache \/ Trace \/ (\E g \in File : Explore(g)) \/ (\E m \in Modes : Start(m))
  <2>1. End => known' = {}
    BY DEF End
  <2>2. UNCHANGED <<entries, stack>> => known' = known
    BY DEF entries
  <2>3. TraceFails \/ GatherFails \/ GatherDone \/ CheckLibs \/ DoLayout => known' = known
    BY DEF TraceFails, GatherFails, GatherDone, CheckLibs, DoLayout
  <2>4. \A g \in File : Trust(g) \/ Descend(g) \/ PrelinkRefused(g) \/ PrelinkChanged(g)
                        \/ PrelinkFails(g) \/ PrelinkEnt(g) \/ StatEnt(g) => known' = known
    BY DEF Trust, Descend, PrelinkRefused, PrelinkChanged, PrelinkFails, PrelinkEnt, StatEnt
  <2> QED BY <1>1, <2>1, <2>2, <2>3, <2>4, StepKinds
<1>3. PICK S : Know(S)
  BY <1>2 DEF LoadCache, Trace, Explore, Start
<1> QED BY <1>3 DEF Know

(* Until the process ends, what has failed and what was written is known.  *)
LEMMA KeptInMind ==
  ASSUME [Next]_vars, ~ End
  PROVE  (failed => failed') /\ rewritten \subseteq rewritten'
<1>1. CASE Gather
  <2>1. \A f \in File : Explore(f) \/ Descend(f) => rewritten' = rewritten /\ (failed => failed')
    BY DEF Explore, Descend, bounds
  <2>2. Trace \/ GatherFails \/ GatherDone \/ CheckLibs => rewritten' = rewritten /\ failed' = failed
    BY DEF Trace, GatherFails, GatherDone, CheckLibs, bounds
  <2>e. (failed' = failed) => (failed => failed')
    BY ONLY Zenon
  <2>3. TraceFails => rewritten' = rewritten /\ failed'
    BY DEF TraceFails, Failure
  <2>4. ~ Exit
    BY DEF Exit
  <2>5. rewritten' = rewritten /\ (failed => failed')
    BY ONLY <1>1, <2>1, <2>2, <2>e, <2>3, <2>4 DEF Gather
  <2> QED BY <2>5, Zenon
<1>2. CASE Prelink
  BY <1>2 DEF Prelink, PrelinkRefused, PrelinkChanged, PrelinkFails, PrelinkEnt, StatEnt,
     StatFails, UndoOne, UndoFails, UndoEnd, SaveCache, SaveFails, Abort, entries, bounds, Failure
<1>3. CASE ~ Gather /\ ~ Prelink
  BY <1>3 DEF Next, Start, LoadCache, Trust, TrustEnd, DoLayout, NoSlot, Upgrade, Crash,
     Terminating, vars, entries, bounds
<1> QED BY <1>1, <1>2, <1>3

(* A file is waiting for its stat64 until that is done or has failed.      *)
LEMMA StattingSteps ==
  ASSUME PrelinkInv, [Next]_vars, ~ End, NEW f \in File, Statting(f)
  PROVE  Statting(f)' \/ StatEnt(f) \/ failed'
<1>0. pc = "stat" /\ f \in todo /\ f \in rewritten
  BY DEF Statting
<1>s. UNCHANGED <<pc, todo, rewritten>> => Statting(f)'
  BY <1>0 DEF Statting
<1>1. ~ Gather
  BY <1>0 DEF Gather, Explore, Descend, Trace, TraceFails, GatherFails, GatherDone, CheckLibs, Exit
<1>2. \A g \in File : StatFails(g) => failed'
  BY DEF StatFails, Failure
<1>3. \A g \in File : StatEnt(g) => g = f
  BY <1>0 DEF StatEnt, Statting, PrelinkInv
<1>4. Prelink => \E g \in File : StatEnt(g) \/ StatFails(g)
  BY <1>0 DEF Prelink, PrelinkRefused, PrelinkChanged, PrelinkFails, PrelinkEnt, Ready,
              UndoOne, UndoFails, UndoEnd, SaveCache, SaveFails, Abort, SaveReady
<1>5. CASE ~ Gather /\ ~ Prelink
  <2>1. UNCHANGED <<pc, todo, rewritten>>
    BY <1>0, <1>5 DEF Next, Start, LoadCache, Trust, TrustEnd, DoLayout, NoSlot, Upgrade, Crash,
                      Terminating, vars, entries
  <2> QED BY <1>s, <2>1
<1> QED BY <1>1, <1>2, <1>3, <1>4, <1>5

LEMMA AlteredInvInductive == GatherInv /\ ClockInv /\ PrelinkInv /\ AlteredInv /\ [Next]_vars => AlteredInv'
<1>s. SUFFICES ASSUME GatherInv, ClockInv, PrelinkInv, AlteredInv, [Next]_vars PROVE AlteredInv'
  OBVIOUS
<1>t. FilesType /\ known \subseteq File /\ clock \in Nat /\ \A f \in File : disk[f].ver \in Nat
  BY <1>s, TypeFacts
<1>k. known' \subseteq File
  BY <1>s, GatherInvInductive, TypeFacts DEF GatherInv, TypeInv, EntriesType
<1>b. ASSUME NEW f \in File, UndoOne(f) \/ Upgrade(f), disk' # disk PROVE Bare(f)'
  <2>1. disk' = [disk EXCEPT ![f] = Fresh(clock + 1)]
    BY <1>b DEF UndoOne, Upgrade
  <2> QED BY <1>t, <2>1, FreshIsBare
<1>c. \A f \in File : \/ disk'[f] = disk[f]
                      \/ Bare(f)'
                      \/ PrelinkEnt(f) /\ disk'[f].ver = clock + 1 /\ raced' = raced
  <2>1. \A f \in File : PrelinkEnt(f) => raced' = raced
    BY DEF PrelinkEnt
  <2> QED BY <1>s, <1>b, <2>1, DiskSteps
<1>1. ASSUME NEW f \in File, disk'[f].ver \in raced' PROVE Bare(f)'
  <2>1. clock + 1 \notin raced
    BY <1>s, <1>t DEF ClockInv
  <2>2. CASE disk'[f] = disk[f]
    <3>1. disk[f].ver # clock + 1
      BY <1>s, <1>t DEF ClockInv
    <3>2. disk[f].ver \in raced
      BY <1>s, <1>1, <2>2, <3>1, RacedSteps
    <3> QED BY <1>s, <2>2, <3>2 DEF AlteredInv, Bare
  <2> QED BY <1>1, <1>c, <2>1, <2>2
<1>2. CASE End
  BY <1>1, <1>2, EndFacts DEF AlteredInv
<1>3. ASSUME ~ End, NEW f \in known'
      PROVE  Unaltered(f)' \/ Bare(f)' \/ (f \in rewritten' /\ (failed' \/ Statting(f)'))
  <2>0. f \in File
    BY <1>k
  <2>1. CASE PrelinkEnt(f)
    <3>1. f \in rewritten' /\ pc' = "stat" /\ f \in todo'
      BY <2>1 DEF PrelinkEnt, Ready
    <3> QED BY <3>1 DEF Statting
  <2>2. CASE disk'[f] = disk[f]
    <3>1. CASE f \notin known
      BY <1>s, <1>3, <2>0, <2>2, <3>1, NewEntries DEF Unaltered
    <3>2. CASE f \in known
      <4>1. CASE ver'[f] = disk[f].ver
        BY <2>2, <4>1 DEF Unaltered
      <4>2. CASE ver'[f] = ver[f] /\ (Unaltered(f) \/ Bare(f))
        BY <2>2, <4>2 DEF Unaltered, Bare
      <4>3. CASE f \in rewritten /\ (failed \/ Statting(f)) /\ ~ StatEnt(f)
        <5>1. f \in rewritten' /\ (failed => failed')
          BY <1>s, <1>3, <4>3, KeptInMind
        <5>2. Statting(f) => Statting(f)' \/ failed'
          BY <1>s, <1>3, <2>0, <4>3, StattingSteps
        <5> QED BY <4>3, <5>1, <5>2
      <4>4. StatEnt(f) => ver'[f] = disk[f].ver
        BY <1>s, <1>3, <2>0, <3>2, TypeFacts DEF StatEnt, EntriesType
      <4>5. ver'[f] = ver[f] \/ ver'[f] = disk[f].ver
        BY <1>s, <1>3, <2>0, VerSteps
      <4>6. Unaltered(f) \/ Bare(f) \/ (f \in rewritten /\ (failed \/ Statting(f)))
        BY <1>s, <3>2 DEF AlteredInv
      <4> QED BY <4>1, <4>2, <4>3, <4>4, <4>5, <4>6
    <3> QED BY <3>1, <3>2
  <2> QED BY <1>c, <2>0, <2>1, <2>2
<1>4. CASE ~ End
  BY <1>1, <1>3, <1>4 DEF AlteredInv
<1> QED BY <1>2, <1>4

-----------------------------------------------------------------------------
(* Prelinking.                                                             *)

LEMMA PrelinkingSteps ==
  ASSUME [Next]_vars, pc \in {"prelink", "stat"}, pc' \in {"prelink", "stat"}
  PROVE  \/ UNCHANGED <<entries, todo, failed, mode>>
         \/ \E f \in File : \/ PrelinkRefused(f) \/ PrelinkChanged(f) \/ PrelinkFails(f)
                            \/ PrelinkEnt(f) \/ StatEnt(f) \/ StatFails(f)
<1>1. ~ Gather
  BY DEF Gather, Explore, Descend, Trace, TraceFails, GatherFails, GatherDone, CheckLibs, Exit
<1>2. Prelink => \E f \in File : \/ PrelinkRefused(f) \/ PrelinkChanged(f) \/ PrelinkFails(f)
                                 \/ PrelinkEnt(f) \/ StatEnt(f) \/ StatFails(f)
  BY DEF Prelink, UndoOne, UndoFails, UndoEnd, SaveCache, SaveFails, Abort, End
<1> QED BY <1>1, <1>2 DEF Next, Start, LoadCache, Trust, TrustEnd, DoLayout, NoSlot, Upgrade,
   Crash, Terminating, End, vars, bounds

(* What one of these steps does to the entries.                            *)
LEMMA PrelinkingFacts ==
  ASSUME GatherInv, PrelinkInv, [Next]_vars, pc \in {"prelink", "stat"}, pc' \in {"prelink", "stat"}
  PROVE  /\ UNCHANGED <<slot, deps, known>> /\ mode' = mode /\ (failed => failed')
         /\ \A f \in File :
              /\ type'[f] \in {type[f], "UNPRELINKABLE"}
              /\ \/ done'[f] = done[f] /\ type'[f] = type[f] /\ (f \in todo => f \in todo')
                 \/ /\ f \in todo /\ done[f] # 2 /\ done'[f] = 0
                    /\ type'[f] = "UNPRELINKABLE" \/ failed' \/ ~ Unaltered(f)
                 \/ done'[f] = 2
<1>t. EntriesType
  BY TypeFacts
<1>1. CASE UNCHANGED <<entries, todo, failed, mode>>
  BY <1>1 DEF entries
<1>2. ASSUME NEW g \in File, PrelinkRefused(g) \/ PrelinkChanged(g) \/ PrelinkFails(g)
      PROVE  /\ UNCHANGED <<slot, deps, known, mode>> /\ (failed => failed')
             /\ \A f \in File : f # g =>
                  done'[f] = done[f] /\ type'[f] = type[f] /\ (f \in todo => f \in todo')
             /\ g \in todo /\ done[g] # 2 /\ done'[g] = 0
             /\ type'[g] = "UNPRELINKABLE" \/ failed' \/ ~ Unaltered(g)
             /\ type'[g] \in {type[g], "UNPRELINKABLE"}
  <2>1. PICK t \in {type[g], "UNPRELINKABLE"} : Refused(g, t)
    BY <1>2 DEF PrelinkRefused, PrelinkChanged, PrelinkFails
  <2>2. Ready(g) /\ UNCHANGED <<slot, deps, known, mode>> /\ (failed => failed')
    BY <1>2 DEF PrelinkRefused, PrelinkChanged, PrelinkFails, bounds, Failure
  <2>3. g \in todo /\ done[g] # 2
    BY <2>2, ReadyFacts
  <2>4. /\ \A f \in File : f # g =>
             done'[f] = done[f] /\ type'[f] = type[f] /\ (f \in todo => f \in todo')
        /\ done'[g] = 0 /\ type'[g] = t
    BY <1>t, <2>1 DEF Refused, EntriesType
  <2>5. type'[g] = "UNPRELINKABLE" \/ failed' \/ ~ Unaltered(g)
    <3>1. PrelinkRefused(g) => type' = [type EXCEPT ![g] = "UNPRELINKABLE"]
      BY DEF PrelinkRefused, Refused
    <3>2. PrelinkRefused(g) => type'[g] = "UNPRELINKABLE"
      BY <1>t, <3>1 DEF EntriesType
    <3>3. PrelinkFails(g) => failed'
      BY DEF PrelinkFails, Failure
    <3>4. PrelinkChanged(g) => ~ Unaltered(g)
      BY DEF PrelinkChanged, Unaltered
    <3> QED BY <1>2, <3>2, <3>3, <3>4
  <2> QED BY <2>1, <2>2, <2>3, <2>4, <2>5
<1>3. ASSUME NEW g \in File, PrelinkEnt(g)
      PROVE  /\ UNCHANGED <<slot, deps, known, mode, type, failed>> /\ done'[g] = 2
             /\ \A f \in File : f # g => done'[f] = done[f] /\ (f \in todo => f \in todo')
  BY <1>t, <1>3 DEF PrelinkEnt, EntriesType, bounds
<1>4. CASE \E g \in File : PrelinkRefused(g) \/ PrelinkChanged(g) \/ PrelinkFails(g)
  <2>1. PICK g \in File : PrelinkRefused(g) \/ PrelinkChanged(g) \/ PrelinkFails(g)
    BY <1>4
  <2> QED BY <1>2, <2>1
<1>5. CASE \E g \in File : PrelinkEnt(g)
  <2>1. PICK g \in File : PrelinkEnt(g)
    BY <1>5
  <2> QED BY <1>3, <2>1
<1>6. ASSUME NEW g \in File, StatEnt(g) \/ StatFails(g)
      PROVE  /\ UNCHANGED <<slot, deps, known, mode, type, done>> /\ (failed => failed')
             /\ todo' = todo \ {g} /\ done[g] = 2
  BY <1>6 DEF StatEnt, StatFails, Statting, PrelinkInv, bounds, entries, Failure
<1>7. CASE \E g \in File : StatEnt(g) \/ StatFails(g)
  <2>1. PICK g \in File : StatEnt(g) \/ StatFails(g)
    BY <1>7
  <2> QED BY <1>6, <2>1
<1> QED BY <1>1, <1>4, <1>5, <1>7, PrelinkingSteps

(* The layout gives every library a slot of its own or keeps it where it   *)
(* overlaps nothing.                                                       *)
LEMMA LayoutLaysOut ==
  ASSUME GatherInv, DoLayout
  PROVE  /\ \A l \in Lib : type[l] = "DYN" => done'[l] = 2 \/ l \in todo'
         /\ \A f \in File : type[f] \in {"DYN", "EXEC"} =>
              \A l, m \in needs[f] :
                l # m /\ type[l] = "DYN" /\ type[m] = "DYN" => slot'[l] # slot'[m]
<1>t. EntriesType /\ EntryInv /\ DepsInv /\ Lib \subseteq File /\ needs \in [File -> SUBSET Lib]
  BY TypeFacts
<1>1. PICK victims \in SUBSET {p[1] : p \in Overlaps} :
        /\ \A p \in Overlaps : p[1] \in victims \/ p[2] \in victims
        /\ \E s \in Injection(Lost(victims), Slots \ {slot[l] : l \in LayoutLibs \ Lost(victims)}) :
             slot' = [f \in File |-> IF f \in Lost(victims) THEN s[f] ELSE slot[f]]
        /\ done' = [f \in File |-> IF f \in Lost(victims) THEN 1 ELSE Found[f]]
  BY DEF DoLayout
<1>2. PICK s \in Injection(Lost(victims), Slots \ {slot[l] : l \in LayoutLibs \ Lost(victims)}) :
             slot' = [f \in File |-> IF f \in Lost(victims) THEN s[f] ELSE slot[f]]
  BY <1>1
<1>3. /\ s \in [Lost(victims) -> Slots \ {slot[l] : l \in LayoutLibs \ Lost(victims)}]
      /\ \A g, h \in Lost(victims) : s[g] = s[h] => g = h
  BY <1>2 DEF Injection, IsInjective
<1>4. /\ todo' = {f \in File : \/ type[f] = "DYN" /\ done'[f] = 1
                               \/ type[f] = "EXEC" /\ done'[f] = 0}
      /\ pc = "layout"
  BY DEF DoLayout
<1>5. \A l \in Lib : type[l] = "DYN" => l \in LayoutLibs
  BY DEF LayoutLibs
<1>6. \A l \in Lib : type[l] = "DYN" /\ l \notin Lost(victims) => Found[l] # 0 /\ l \notin victims
  BY <1>t, <1>5 DEF Lost
<1>7. ASSUME NEW l \in Lib, type[l] = "DYN" PROVE done'[l] = 2 \/ l \in todo'
  <2>1. CASE l \in Lost(victims)
    BY <1>t, <1>1, <1>4, <1>7, <2>1
  <2>2. CASE l \notin Lost(victims)
    <3>1. done'[l] = Found[l] /\ Found[l] # 0
      BY <1>t, <1>1, <1>6, <1>7, <2>2
    <3>2. Found[l] = 0 \/ Found[l] = done[l]
      BY <1>t, <1>7 DEF Found
    <3>3. done[l] \in 0..2 /\ done[l] # 1
      BY <1>t, <1>4 DEF EntriesType, EntryInv
    <3> QED BY <3>1, <3>2, <3>3
  <2> QED BY <2>1, <2>2
<1>8. ASSUME NEW f \in File, type[f] \in {"DYN", "EXEC"}, NEW l \in needs[f], NEW m \in needs[f],
             l # m, type[l] = "DYN", type[m] = "DYN"
      PROVE  slot'[l] # slot'[m]
  <2>1. /\ deps[f] = needs[f] /\ l \in Lib /\ m \in Lib /\ l \in File /\ m \in File
        /\ l \in LayoutLibs /\ m \in LayoutLibs
    BY <1>t, <1>5, <1>8 DEF DepsInv, Gathered
  <2>2. ASSUME NEW g \in {l, m}, NEW h \in {l, m}, g \in Lost(victims), h \notin Lost(victims)
        PROVE  slot'[g] # slot'[h]
    <3>1. slot'[g] = s[g] /\ slot'[h] = slot[h]
      BY <1>2, <2>1, <2>2
    <3>2. s[g] \notin {slot[k] : k \in LayoutLibs \ Lost(victims)}
      BY <1>3, <2>2
    <3>3. slot[h] \in {slot[k] : k \in LayoutLibs \ Lost(victims)}
      BY <2>1, <2>2
    <3> QED BY <3>1, <3>2, <3>3
  <2>3. CASE l \in Lost(victims) /\ m \in Lost(victims)
    BY <1>2, <1>3, <1>8, <2>1, <2>3
  <2>4. CASE l \notin Lost(victims) /\ m \notin Lost(victims)
    <3>1. slot'[l] = slot[l] /\ slot'[m] = slot[m]
      BY <1>2, <2>1, <2>4
    <3>2. Found[l] # 0 /\ Found[m] # 0 /\ l \notin victims /\ m \notin victims
      BY <1>6, <1>8, <2>1, <2>4
    <3>3. CASE slot[l] = slot[m]
      <4>1. <<l, m>> \in Overlaps
        BY <1>8, <2>1, <3>2, <3>3 DEF Overlaps
      <4> QED BY <1>1, <3>2, <4>1
    <3> QED BY <3>1, <3>3
  <2> QED BY <2>2, <2>3, <2>4
<1> QED BY <1>7, <1>8

LEMMA LaidOutInvInductive ==
  GatherInv /\ ClockInv /\ PrelinkInv /\ LaidOutInv /\ [Next]_vars => LaidOutInv'
<1>s. SUFFICES ASSUME GatherInv, ClockInv, PrelinkInv, LaidOutInv, [Next]_vars,
                      pc' \in {"prelink", "stat"}
               PROVE  LaidOutInv'
  BY DEF LaidOutInv
<1>t. EntriesType /\ EntryInv /\ Lib \subseteq File /\ needs' = needs /\ needs \in [File -> SUBSET Lib]
  BY <1>s, TypeFacts, NeedsUnchanged
<1>1. CASE DoLayout
  <2>1. type' = type
    BY <1>1 DEF DoLayout
  <2> QED BY <1>s, <1>t, <1>1, <2>1, LayoutLaysOut DEF LaidOutInv
<1>2. CASE pc \in {"prelink", "stat"}
  <2>1. ASSUME NEW l \in Lib, type'[l] = "DYN"
        PROVE  done'[l] = 2 \/ l \in todo' \/ failed' \/ ~ Unaltered(l)'
    <3>1. type[l] = "DYN" /\ l \in File /\ l \in known
      BY <1>s, <1>t, <1>2, <2>1, PrelinkingFacts DEF EntryInv
    <3>2. done[l] = 2 \/ l \in todo \/ failed \/ ~ Unaltered(l)
      BY <1>s, <1>2, <3>1 DEF LaidOutInv
    <3>3. Unaltered(l)' => StatEnt(l) \/ Unaltered(l)
      <4>1. ~ End
        BY <1>s DEF End
      <4> QED BY <1>s, <3>1, <4>1, StillUnaltered
    <3>4. \/ done'[l] = done[l] /\ type'[l] = type[l] /\ (l \in todo => l \in todo')
          \/ /\ l \in todo /\ done[l] # 2 /\ done'[l] = 0
             /\ type'[l] = "UNPRELINKABLE" \/ failed' \/ ~ Unaltered(l)
          \/ done'[l] = 2
      BY <1>s, <1>2, <3>1, PrelinkingFacts
    <3>5. StatEnt(l) => done'[l] = 2
      BY <1>s DEF StatEnt, Statting, PrelinkInv
    <3>6. failed => failed'
      BY <1>s, <1>2, PrelinkingFacts
    <3> QED BY <2>1, <3>2, <3>3, <3>4, <3>5, <3>6
  <2>2. slot' = slot /\ \A f \in File : type'[f] \in {type[f], "UNPRELINKABLE"}
    BY <1>s, <1>2, PrelinkingFacts
  <2>3. ASSUME NEW f \in File, type'[f] \in {"DYN", "EXEC"}, NEW l \in needs[f], NEW m \in needs[f],
               l # m, type'[l] = "DYN", type'[m] = "DYN"
        PROVE  slot'[l] # slot'[m]
    <3>1. type[f] \in {"DYN", "EXEC"} /\ type[l] = "DYN" /\ type[m] = "DYN"
      BY <1>t, <2>2, <2>3
    <3> QED BY <1>s, <1>2, <2>2, <2>3, <3>1 DEF LaidOutInv
  <2> QED BY <1>t, <2>1, <2>3 DEF LaidOutInv
<1>3. pc \in {"prelink", "stat"} \/ DoLayout
  <2>1. CASE Gather
    BY <1>s, <2>1 DEF Gather, Explore, Descend, Trace, TraceFails, GatherFails, GatherDone,
       CheckLibs, Return, Exit, End
  <2>2. CASE Prelink
    BY <1>s, <2>2 DEF Prelink, PrelinkRefused, PrelinkChanged, PrelinkFails, PrelinkEnt, Ready,
                      StatEnt, StatFails, Statting, UndoOne, UndoFails, UndoEnd, SaveCache, SaveFails, Abort, End
  <2> QED BY <1>s, <2>1, <2>2
      DEF Next, Start, LoadCache, Trust, TrustEnd, NoSlot, Upgrade, Crash, Terminating, End, vars
<1> QED BY <1>1, <1>2, <1>3

-----------------------------------------------------------------------------
(* The dependencies in the cache.                                          *)

LEMMA CachedTypes ==
  ASSUME GatherInv, [Next]_vars, NEW f \in File, type'[f] \in {"CACHE_DYN", "CACHE_EXEC"}
  PROVE  \/ type'[f] = type[f] /\ deps'[f] = deps[f]
         \/ deps'[f] = needs[f]
         \/ f \in DOMAIN cache /\ ~ cache[f].unprelinkable /\ deps'[f] = cache[f].deps
<1>t. EntriesType /\ EntryInv /\ TypeInv
  BY TypeFacts
<1>1. CASE End
  BY <1>1, EndFacts
<1>2. CASE UNCHANGED <<entries, stack>>
  BY <1>2 DEF entries
<1>3. CASE LoadCache
  <2>1. \/ type'[f] = type[f] /\ deps'[f] = deps[f]
        \/ /\ f \in DOMAIN cache /\ type'[f] = LoadedType(f)
           /\ type'[f] # "NONE" => deps'[f] = cache[f].deps
    BY <1>3 DEF LoadCache
  <2>2. LoadedType(f) \in {"CACHE_DYN", "CACHE_EXEC"} => ~ cache[f].unprelinkable
    BY DEF LoadedType
  <2> QED BY <2>1, <2>2
<1>4. CASE Trace
  BY <1>4 DEF Trace
<1>5. CASE TraceFails \/ GatherFails \/ GatherDone
  <2>1. /\ Top.file \in File
        /\ \A g \in File : g # Top.file => type'[g] = type[g] /\ deps'[g] = deps[g]
        /\ Top.file \in Lib => type'[Top.file] \in {"BAD", "UNPRELINKABLE", "DYN"}
        /\ Top.file \in Exe => type'[Top.file] \in {"NONE", "UNPRELINKABLE", "EXEC"}
    BY <1>5, ReturnFacts
  <2>2. f # Top.file
    BY <2>1 DEF File
  <2> QED BY <2>1, <2>2
<1>6. CASE CheckLibs \/ DoLayout
  BY <1>6 DEF CheckLibs, DoLayout
<1>7. ASSUME NEW g \in File, Trust(g) PROVE type'[f] = type[f] /\ deps'[f] = deps[f]
  <2>1. \/ type' = type /\ deps' = deps
        \/ type' = [type EXCEPT ![g] = "NONE"] /\ deps' = [deps EXCEPT ![g] = {}]
    BY <1>7 DEF Trust
  <2> QED BY <1>t, <2>1 DEF EntriesType
<1>8. ASSUME NEW g \in File, Explore(g) \/ Descend(g)
      PROVE  type'[f] = type[f] /\ deps'[f] = deps[f]
  <2>1. CASE Entered(g)
    <3>1. f # g
      BY <1>t, <2>1 DEF Entered, EntriesType
    <3> QED BY <1>t, <2>1, <3>1 DEF Entered, EntriesType
  <2>2. CASE UNCHANGED <<type, deps>>
    BY <2>2
  <2> QED BY <1>8, <2>1, <2>2, ExploreEnters, DescendEnters
<1>9. ASSUME NEW g \in File, PrelinkRefused(g) \/ PrelinkChanged(g) \/ PrelinkFails(g)
      PROVE  type'[f] = type[f] /\ deps'[f] = deps[f]
  <2>1. (\E t \in {type[g], "UNPRELINKABLE"} : Refused(g, t)) /\ deps' = deps
    BY <1>9 DEF PrelinkRefused, PrelinkChanged, PrelinkFails
  <2> QED BY <1>t, <2>1 DEF Refused, EntriesType
<1>10. ASSUME NEW g \in File, PrelinkEnt(g) PROVE type'[f] = type[f] /\ deps'[f] = deps[f]
  BY <1>10 DEF PrelinkEnt
<1>11. ASSUME NEW g \in File, StatEnt(g) PROVE type'[f] = type[f] /\ deps'[f] = deps[f]
  BY <1>11 DEF StatEnt
<1>12. ASSUME NEW m \in Modes, Start(m) PROVE FALSE
  BY <1>12 DEF Start
<1> QED BY <1>1, <1>2, <1>3, <1>4, <1>5, <1>6, <1>7, <1>8, <1>9, <1>10, <1>11, <1>12, StepKinds

LEMMA CacheDepsInvInductive == GatherInv /\ CacheDepsInv /\ [Next]_vars => CacheDepsInv'
<1>s. SUFFICES ASSUME GatherInv, CacheDepsInv, [Next]_vars PROVE CacheDepsInv'
  OBVIOUS
<1>t. EntriesType /\ DepsInv /\ needs' = needs /\ FilesType
  BY <1>s, TypeFacts, NeedsUnchanged
<1>1. \A f \in File : type'[f] \in {"CACHE_DYN", "CACHE_EXEC"} => deps'[f] = needs[f]
  BY <1>s, CachedTypes DEF CacheDepsInv
<1>2. \A f \in DOMAIN cache' : ~ cache'[f].unprelinkable => cache'[f].deps = needs[f]
  <2>1. CASE SaveCache
    <3>1. /\ DOMAIN cache' = Saved
          /\ \A f \in Saved : /\ cache'[f].deps = deps[f]
                              /\ cache'[f].unprelinkable = (type[f] = "UNPRELINKABLE")
      BY <2>1 DEF SaveCache
    <3>2. \A f \in Saved : /\ f \in File
                           /\ type[f] \in {"DYN", "EXEC", "CACHE_DYN", "CACHE_EXEC", "UNPRELINKABLE"}
      BY DEF Saved
    <3>3. \A f \in File : type[f] \in {"DYN", "EXEC"} => deps[f] = needs[f]
      BY <1>t DEF DepsInv, Gathered
    <3> QED BY <1>s, <3>1, <3>2, <3>3 DEF CacheDepsInv
  <2>2. CASE ~ SaveCache
    <3>1. cache' = cache
      BY <1>s, <2>2, FilesUnchanged DEF fs, PrelinkFails, PrelinkEnt, UndoOne, Upgrade
    <3> QED BY <1>s, <3>1 DEF CacheDepsInv
  <2> QED BY <2>1, <2>2
<1> QED BY <1>t, <1>1, <1>2 DEF CacheDepsInv

-----------------------------------------------------------------------------
(* After a complete, successful prelink -a.                                *)

LEMMA SettledSteps ==
  ASSUME [Next]_vars, settled'
  PROVE  (SaveCache /\ Success) \/ (settled /\ UNCHANGED <<disk, needs>>)
<1>1. CASE Gather
  BY <1>1 DEF Gather, Explore, Descend, Trace, TraceFails, GatherFails, GatherDone, CheckLibs,
     Exit, fs
<1>2. CASE Prelink
  BY <1>2 DEF Prelink, PrelinkRefused, PrelinkChanged, PrelinkFails, PrelinkEnt, StatEnt,
              StatFails, UndoOne, UndoFails, UndoEnd, SaveCache, SaveFails, Abort, fs
<1>3. CASE ~ Gather /\ ~ Prelink
  BY <1>3 DEF Next, Start, LoadCache, Trust, TrustEnd, DoLayout, NoSlot, Upgrade, Crash,
     Terminating, vars, fs
<1> QED BY <1>1, <1>2, <1>3

LEMMA SettledInvInductive ==
  RunInv /\ AlteredInv /\ LaidOutInv /\ SettledInv /\ [Next]_vars => SettledInv'
<1>s. SUFFICES ASSUME RunInv, AlteredInv, LaidOutInv, SettledInv, [Next]_vars, settled' PROVE SettledInv'
  BY DEF SettledInv
<1>r. GatherInv /\ ReadInv
  BY <1>s DEF RunInv
<1>t. EntriesType /\ EntryInv /\ Lib \subseteq File /\ needs \in [File -> SUBSET Lib]
  BY <1>r, TypeFacts
<1>1. CASE settled /\ UNCHANGED <<disk, needs>>
  BY <1>s, <1>1 DEF SettledInv, UpToDate
<1>2. CASE SaveCache /\ Success
  <2>1. /\ UNCHANGED <<disk, needs>> /\ pc = "prelink" /\ todo = {} /\ ~ failed
        /\ \A l \in Lib : type[l] = "DYN"
        /\ \A f \in File : type[f] \in {"DYN", "EXEC"} /\ UpToDate(f)
    BY <1>2 DEF SaveCache, SaveReady, Success
  <2>2. ASSUME NEW l \in Lib PROVE slot[l] = disk[l].slot
    <3>1. l \in File /\ type[l] = "DYN" /\ l \in known /\ UpToDate(l)
      BY <1>t, <2>1 DEF EntryInv
    <3>2. Unaltered(l) /\ Sure(l)
      BY <1>s, <2>1, <3>1 DEF AlteredInv, Bare, UpToDate, Statting, Sure
    <3>3. done[l] = 2
      BY <1>s, <2>1, <3>1, <3>2 DEF LaidOutInv
    <3> QED BY <1>r, <3>1, <3>2, <3>3 DEF ReadInv, Gathered
  <2>3. ASSUME NEW f \in File, NEW l \in needs[f], NEW m \in needs[f], l # m
        PROVE  disk[l].slot # disk[m].slot
    <3>1. l \in Lib /\ m \in Lib
      BY <1>t
    <3>2. slot[l] # slot[m]
      BY <1>s, <2>1, <2>3, <3>1 DEF LaidOutInv
    <3> QED BY <2>2, <3>1, <3>2
  <2> QED BY <2>1, <2>3 DEF SettledInv, UpToDate
<1> QED BY <1>s, <1>1, <1>2, SettledSteps

(* No two libraries that are up to date overlap.                           *)
LEMMA NoOverlaps ==
  ASSUME RunInv, AlteredInv, CacheDepsInv, SettledInv, settled, pc = "layout", ~ mode.force,
         \A f \in known : Unaltered(f)
  PROVE  Overlaps = {}
<1>r. GatherInv /\ ReadInv
  BY DEF RunInv
<1>t. EntriesType /\ EntryInv /\ DepsInv /\ Lib \subseteq File /\ needs \in [File -> SUBSET Lib]
  BY <1>r, TypeFacts
<1>1. ASSUME NEW l \in Lib, type[l] = "DYN", Found[l] # 0 PROVE slot[l] = disk[l].slot
  <2>1. l \in File /\ l \in known /\ done[l] # 0
    BY <1>t, <1>1 DEF EntryInv, Found
  <2>2. done[l] = 2
    BY <1>t, <2>1 DEF EntriesType, EntryInv
  <2>3. Sure(l)
    BY <1>1, <2>1 DEF SettledInv, UpToDate, AlteredInv, Bare, Sure
  <2> QED BY <1>r, <1>1, <2>1, <2>2, <2>3 DEF ReadInv, Gathered
<1>2. ASSUME NEW p \in Overlaps PROVE FALSE
  <2>1. /\ p[1] \in Lib /\ p[2] \in Lib /\ p[1] # p[2] /\ slot[p[1]] = slot[p[2]]
        /\ type[p[1]] = "DYN" /\ type[p[2]] = "DYN" /\ Found[p[1]] # 0 /\ Found[p[2]] # 0
    BY <1>2 DEF Overlaps
  <2>2. PICK f \in File : /\ type[f] \in {"DYN", "EXEC", "CACHE_DYN", "CACHE_EXEC"}
                          /\ {p[1], p[2]} \subseteq deps[f]
    BY <1>2 DEF Overlaps
  <2>3. deps[f] = needs[f]
    BY <1>t, <2>2 DEF DepsInv, Gathered, CacheDepsInv
  <2>4. disk[p[1]].slot # disk[p[2]].slot
    BY <2>1, <2>2, <2>3 DEF SettledInv
  <2> QED BY <1>1, <2>1, <2>4
<1> QED BY <1>2

(* A file is gathered that is up to date on disk: it is done unless one of *)
(* its dependencies is not.                                                *)
LEMMA QuietGather ==
  ASSUME RunInv, AlteredInv, SettledInv, settled, ~ mode.undo, \A f \in known : Unaltered(f),
         GatherDone, NEW f \in File, f = Top.file, type'[f] \in {"DYN", "EXEC"}, done'[f] # 2
  PROVE  \E d \in needs[f] : done'[d] # 2
<1>r. GatherInv /\ ReadInv
  BY DEF RunInv
<1>t. EntriesType /\ EntryInv /\ StackInv /\ Lib \subseteq File /\ needs \in [File -> SUBSET Lib]
      /\ stack \in Seq(Frames)
  BY <1>r, TypeFacts
<1>1. /\ pc = "gather" /\ stack # << >> /\ f \in known /\ InProgress(f)
      /\ \A g \in File : g # f => done'[g] = done[g]
  BY <1>r, ReturnFacts
<1>2. Len(stack) \in 1..Len(stack) /\ Top = stack[Len(stack)]
  BY <1>t, <1>1, TopFacts
<1>3. /\ stamp[f] = disk[f].stamp /\ Top.liblist = disk[f].liblist
  BY <1>r, <1>1, <1>2 DEF ReadInv
<1>4. deps[f] = needs[f]
  BY <1>t, <1>2 DEF GatherDone, StackInv
<1>5. ~ AsIs(f)
  <2>1. \/ type' = [type EXCEPT ![f] = "UNPRELINKABLE"]
        \/ done' = [done EXCEPT ![f] = IF AsIs(f) THEN 2 ELSE 0]
    BY DEF GatherDone
  <2> QED BY <1>t, <2>1 DEF EntriesType
<1>6. UpToDate(f)
  BY DEF SettledInv
<1>7. ~ Matches(f)
  BY <1>3, <1>5, <1>6 DEF AsIs, UpToDate
<1>8. PICK d \in needs[f] : Top.liblist[d] # stamp[d] \/ done[d] = 0
  BY <1>3, <1>4, <1>6, <1>7 DEF Matches, UpToDate
<1>9. d \in File /\ Top.liblist[d] = disk[d].stamp
  BY <1>t, <1>3, <1>6 DEF UpToDate
<1>10. done[d] # 2
  <2>1. CASE done[d] = 2
    <3>1. type[d] \in {"DYN", "EXEC"} /\ d \in known
      BY <1>t, <1>1, <1>9, <2>1 DEF EntriesType, EntryInv, Types
    <3>3. Sure(d)
      BY <1>t, <1>9, <3>1 DEF SettledInv, UpToDate, AlteredInv, Bare, Sure
    <3>2. stamp[d] = disk[d].stamp
      BY <1>r, <1>9, <2>1, <3>1, <3>3 DEF ReadInv, Gathered
    <3> QED BY <1>8, <1>9, <2>1, <3>2
  <2> QED BY <2>1
<1>11. done'[d] # 2
  BY <1>1, <1>9, <1>10
<1> QED BY <1>11

(* The layout takes done only from what has a dependency that is not done. *)
LEMMA QuietLayout ==
  ASSUME RunInv, AlteredInv, CacheDepsInv, SettledInv, settled, ~ mode.force, \A f \in known : Unaltered(f),
         DoLayout, NEW f \in File, type[f] \in {"DYN", "EXEC"}, done'[f] # 2,
         done[f] # 2 => \E d \in needs[f] : done[d] # 2
  PROVE  \E d \in needs[f] : done'[d] # 2
<1>r. GatherInv /\ TypeInv
  BY TypeFacts DEF RunInv
<1>t. EntriesType /\ DepsInv /\ EntryInv /\ Lib \subseteq File /\ needs \in [File -> SUBSET Lib]
  BY <1>r, TypeFacts
<1>1. Overlaps = {}
  BY NoOverlaps DEF DoLayout
<1>2. PICK victims \in SUBSET {p[1] : p \in Overlaps} :
        done' = [g \in File |-> IF g \in Lost(victims) THEN 1 ELSE Found[g]]
  BY DEF DoLayout
<1>3. \A l \in Lost(victims) : Found[l] = 0 \/ \E d \in deps[l] : Found[d] = 0 /\ d \in File
  BY <1>1, <1>2 DEF Lost
<1>4. deps[f] = needs[f] /\ \A d \in needs[f] : d \in Lib /\ d \in File /\ type[d] # "CACHE_DYN"
  BY <1>t DEF DepsInv, Gathered
<1>5. \A d \in needs[f] : type[d] # "CACHE_EXEC"
  BY <1>t, <1>4, ConstantFacts DEF EntryInv
<1>6. ASSUME NEW d \in needs[f], done[d] # 2 PROVE done'[d] # 2
  BY <1>r, <1>4, <1>5, <1>6, LayoutFacts
<1>7. Found[f] = done[f]
  BY DEF Found
<1>8. CASE done[f] # 2
  BY <1>6, <1>8
<1>9. CASE done[f] = 2
  <2>1. f \in Lost(victims)
    BY <1>2, <1>7, <1>9
  <2>2. PICK d \in deps[f] : Found[d] = 0 /\ d \in File
    BY <1>3, <1>7, <1>9, <2>1
  <2>3. done'[d] # 2
    BY <1>2, <2>2
  <2> QED BY <1>4, <2>2, <2>3
<1> QED BY <1>8, <1>9

LEMMA QuietInvInductive ==
  RunInv /\ AlteredInv /\ ClosedInv /\ CacheDepsInv /\ SettledInv /\ QuietInv /\ [Next]_vars => QuietInv'
<1>s. SUFFICES ASSUME RunInv, AlteredInv, ClosedInv, CacheDepsInv, SettledInv, QuietInv, [Next]_vars,
                      settled', pc' # "idle", ~ mode'.force, ~ mode'.undo
               PROVE  /\ \A f \in known' : Unaltered(f)'
                      /\ \A f \in File : type'[f] \in {"DYN", "EXEC"} /\ done'[f] # 2 =>
                           \E d \in needs'[f] : done'[d] # 2
  BY DEF QuietInv
<1>r. GatherInv /\ PrelinkInv /\ TypeInv
  BY <1>s, TypeFacts DEF RunInv
<1>t. /\ EntriesType /\ EntryInv /\ Lib \subseteq File /\ needs \in [File -> SUBSET Lib]
      /\ stack \in Seq(Frames)
  BY <1>r, TypeFacts
<1>e. ~ End
  BY <1>s DEF End
<1>d. settled /\ UNCHANGED <<disk, needs>>
  <2>1. ~ SaveCache
    BY <1>e DEF SaveCache
  <2> QED BY <1>s, <2>1, SettledSteps
<1>p. \A f \in File : ~ PrelinkEnt(f)
  BY <1>s DEF PrelinkEnt
<1>k. known' \subseteq File
  BY <1>r, <1>s, GatherInvInductive, TypeInvInductive DEF TypeInv, EntriesType
<1>1. CASE pc = "idle"
  <2>1. known = {} /\ \A f \in File : type[f] = "NONE"
    BY <1>t, <1>1 DEF EntryInv
  <2>2. \E m \in Modes : Start(m)
    <3>1. ~ Gather
      BY <1>1 DEF Gather, Explore, Descend, Trace, TraceFails, GatherFails, GatherDone,
         CheckLibs, Exit
    <3>2. ~ Prelink
      BY <1>1 DEF Prelink, PrelinkRefused, PrelinkChanged, PrelinkFails, PrelinkEnt, Ready, StatEnt,
                  StatFails, Statting, UndoOne, UndoFails, UndoEnd, SaveCache, SaveFails, Abort, SaveReady
    <3> QED BY <1>s, <1>1, <3>1, <3>2
        DEF Next, Start, LoadCache, Trust, TrustEnd, DoLayout, NoSlot, Upgrade, Crash, Terminating, vars
  <2>3. \A f \in File : type'[f] \in {"NONE", "BAD"}
    BY <2>2 DEF Start
  <2>4. \A f \in known' : Unaltered(f)'
    BY <1>s, <1>d, <1>k, <2>1, NewEntries DEF Unaltered
  <2> QED BY <2>3, <2>4
<1>2. CASE pc # "idle"
  <2>m. mode' = mode /\ ~ mode.force /\ ~ mode.undo
    <3>1. \A m \in Modes : ~ Start(m)
      BY <1>2 DEF Start
    <3> QED BY <1>s, <1>e, <3>1, ModeSteps
  <2>q. /\ \A f \in known : Unaltered(f)
        /\ \A f \in File : type[f] \in {"DYN", "EXEC"} /\ done[f] # 2 =>
             \E d \in needs[f] : done[d] # 2
    BY <1>s, <1>d, <1>2, <2>m DEF QuietInv
  <2>1. ASSUME NEW f \in known' PROVE Unaltered(f)'
    <3>1. f \in File
      BY <1>k
    <3>2. CASE f \notin known
      BY <1>s, <1>d, <3>1, <3>2, NewEntries DEF Unaltered
    <3>3. CASE f \in known
      <4>1. ver'[f] = ver[f] \/ ver'[f] = disk[f].ver
        BY <1>s, <1>r, <1>e, <1>p, <3>1, <3>3, VerSteps
      <4> QED BY <1>d, <2>q, <3>3, <4>1 DEF Unaltered
    <3> QED BY <3>2, <3>3
  <2>2. ASSUME NEW f \in File, type'[f] \in {"DYN", "EXEC"}, done'[f] # 2
        PROVE  \E d \in needs[f] : done'[d] # 2
    <3>n. needs[f] \subseteq File
      BY <1>t
    <3>0. ASSUME type[f] = type'[f], done[f] # 2, \A d \in needs[f] : done[d] # 2 => done'[d] # 2
          PROVE  \E d \in needs[f] : done'[d] # 2
      BY <2>q, <2>2, <3>0
    <3>1. CASE UNCHANGED <<entries, stack>>
      BY <2>2, <3>0, <3>1 DEF entries
    <3>2. CASE LoadCache
      <4>1. done' = done /\ type'[f] = type[f]
        BY <1>r, <2>2, <3>2, LoadTypes DEF LoadCache
      <4> QED BY <2>2, <3>0, <4>1
    <3>3. CASE Trace
      <4>1. done' = done /\ type'[f] = type[f]
        BY <2>2, <3>3 DEF Trace
      <4> QED BY <2>2, <3>0, <4>1
    <3>4. CASE TraceFails \/ GatherFails \/ GatherDone
      <4>1. PICK h \in File : h = Top.file
        BY <1>r, <3>4, ReturnFacts
      <4>2. /\ pc = "gather" /\ stack # << >> /\ done[h] = 0 /\ InProgress(h)
            /\ \A g \in File : g # h => type'[g] = type[g] /\ done'[g] = done[g]
        BY <1>r, <3>4, <4>1, ReturnFacts
      <4>3. CASE f # h
        <5>1. type[f] = type'[f] /\ done[f] # 2
          BY <2>2, <4>2, <4>3
        <5>2. h \notin needs[f]
          <6>1. Len(stack) \in 1..Len(stack) /\ h = stack[Len(stack)].file
            BY <1>t, <4>1, <4>2, TopFacts
          <6> QED BY <1>s, <2>2, <4>2, <5>1, <6>1 DEF ClosedInv
        <5> QED BY <3>0, <3>n, <4>2, <5>1, <5>2
      <4>4. CASE f = h /\ GatherDone
        BY <1>s, <1>d, <2>m, <2>q, <2>2, <4>1, <4>4, QuietGather
      <4>5. CASE f = h /\ (TraceFails \/ GatherFails)
        <5>1. type'[h] \in {type[h], "UNPRELINKABLE"}
          BY <1>t, <4>1, <4>5 DEF TraceFails, GatherFails, EntriesType
        <5> QED BY <2>2, <4>2, <4>5, <5>1 DEF InProgress
      <4> QED BY <3>4, <4>3, <4>4, <4>5
    <3>5. CASE CheckLibs
      <4>1. done' = done /\ type'[f] = type[f]
        BY <2>2, <3>5 DEF CheckLibs
      <4> QED BY <2>2, <3>0, <4>1
    <3>6. CASE DoLayout
      <4>1. type[f] \in {"DYN", "EXEC"}
        BY <2>2, <3>6 DEF DoLayout
      <4> QED BY <1>s, <1>d, <2>m, <2>q, <2>2, <3>6, <4>1, QuietLayout
    <3>7. ASSUME NEW g \in File, Trust(g) PROVE done' = done /\ type'[f] = type[f]
      <4>1. done' = done /\ (type' = type \/ type' = [type EXCEPT ![g] = "NONE"])
        BY <3>7 DEF Trust
      <4> QED BY <1>t, <2>2, <4>1 DEF EntriesType
    <3>8. ASSUME NEW g \in File, Explore(g) \/ Descend(g) PROVE done' = done /\ type'[f] = type[f]
      <4>1. CASE Entered(g)
        <5>1. f # g
          BY <1>t, <2>2, <4>1 DEF Entered, EntriesType
        <5> QED BY <1>t, <4>1, <5>1 DEF Entered, EntriesType
      <4>2. CASE UNCHANGED <<type, done>>
        BY <4>2
      <4> QED BY <1>r, <3>8, <4>1, <4>2, ExploreEnters, DescendEnters
    <3>9. ASSUME NEW g \in File, PrelinkRefused(g) \/ PrelinkChanged(g) \/ PrelinkFails(g)
          PROVE  /\ type'[f] = type[f] /\ done[f] # 2
                 /\ \A d \in File : done[d] # 2 => done'[d] # 2
      <4>1. Ready(g) /\ \E t \in {type[g], "UNPRELINKABLE"} : Refused(g, t)
        BY <3>9 DEF PrelinkRefused, PrelinkChanged, PrelinkFails
      <4>2. done[g] # 2
        BY <1>r, <4>1, ReadyFacts
      <4>3. /\ done'[g] = 0 /\ \A d \in File : d # g => done'[d] = done[d]
        BY <1>t, <4>1 DEF Refused, EntriesType
      <4>4. type'[f] = type[f]
        BY <1>t, <2>2, <4>1 DEF Refused, EntriesType
      <4> QED BY <2>2, <4>2, <4>3, <4>4
    <3>10. CASE \E g \in File : Trust(g) \/ Explore(g) \/ Descend(g)
      <4>1. done' = done /\ type'[f] = type[f]
        BY <3>7, <3>8, <3>10
      <4> QED BY <2>2, <3>0, <4>1
    <3>11. CASE \E g \in File : PrelinkRefused(g) \/ PrelinkChanged(g) \/ PrelinkFails(g)
      <4>1. /\ type'[f] = type[f] /\ done[f] # 2 /\ \A d \in File : done[d] # 2 => done'[d] # 2
        BY <3>9, <3>11
      <4> QED BY <3>0, <3>n, <4>1
    <3>12. CASE \E g \in File : StatEnt(g)
      <4>1. done' = done /\ type' = type
        BY <3>12 DEF StatEnt
      <4> QED BY <2>2, <3>0, <4>1
    <3>13. \A m \in Modes : ~ Start(m)
      BY <1>2 DEF Start
    <3> QED BY <1>s, <1>e, <1>p, <3>1, <3>2, <3>3, <3>4, <3>5, <3>6, <3>10, <3>11, <3>12, <3>13,
       StepKinds
  <2> QED BY <1>d, <2>1, <2>2
<1> QED BY <1>1, <1>2

-----------------------------------------------------------------------------

IdemInv ==
  /\ RunInv /\ ChainInv /\ ClosedInv /\ AlteredInv /\ LaidOutInv
  /\ CacheDepsInv /\ SettledInv /\ QuietInv

LEMMA IdemInvHolds == Spec => []IdemInv
<1>1. Init => ChainInv /\ ClosedInv /\ AlteredInv /\ LaidOutInv /\ CacheDepsInv /\ SettledInv /\ QuietInv
  <2> SUFFICES ASSUME Init
               PROVE  /\ ChainInv /\ ClosedInv /\ AlteredInv /\ LaidOutInv
                      /\ CacheDepsInv /\ SettledInv /\ QuietInv
    OBVIOUS
  <2>1. /\ stack = << >> /\ pc = "idle" /\ known = {} /\ DOMAIN cache = {} /\ settled = FALSE
        /\ \A f \in File : type[f] = "NONE"
    BY DEF Init
  <2>2. ChainInv
    BY <2>1 DEF ChainInv
  <2>5. AlteredInv
    BY <2>1 DEF AlteredInv, Init
  <2>3. ClosedInv /\ LaidOutInv /\ SettledInv /\ QuietInv
    BY <2>1 DEF ClosedInv, LaidOutInv, SettledInv, QuietInv
  <2>4. CacheDepsInv
    BY <2>1 DEF CacheDepsInv
  <2> QED BY <2>2, <2>3, <2>4, <2>5
<1>2. IdemInv /\ [Next]_vars => ChainInv' /\ ClosedInv' /\ AlteredInv' /\ LaidOutInv'
                                /\ CacheDepsInv' /\ SettledInv' /\ QuietInv'
  <2> SUFFICES ASSUME IdemInv, [Next]_vars
               PROVE  /\ ChainInv' /\ ClosedInv' /\ AlteredInv' /\ LaidOutInv'
                      /\ CacheDepsInv' /\ SettledInv' /\ QuietInv'
    OBVIOUS
  <2>1. /\ RunInv /\ GatherInv /\ ClockInv /\ PrelinkInv /\ ChainInv /\ ClosedInv /\ AlteredInv
        /\ LaidOutInv /\ CacheDepsInv /\ SettledInv /\ QuietInv
    BY DEF IdemInv, RunInv
  <2> QED BY <2>1, ChainInvInductive, ClosedInvInductive, AlteredInvInductive, LaidOutInvInductive,
             CacheDepsInvInductive, SettledInvInductive, QuietInvInductive
<1> QED BY <1>1, <1>2, RunInvHolds, PTL DEF Spec, IdemInv

(* After a complete, successful prelink -a, as long as no file changes, no *)
(* prelink without -f and -u rewrites a file, whatever options the runs    *)
(* have, also when steps of them fail or they are killed: gather_deps      *)
(* finds every file up to date unless it could not gather a dependency,    *)
(* the layout finds no overlap, and prelink_ent refuses what depends on    *)
(* something that is not done.                                             *)
THEOREM IdempotentHolds == Spec => Idempotent
<1>1. IdemInv /\ [Next]_vars =>
        [settled /\ ~ mode.force /\ ~ mode.undo => rewritten' \subseteq rewritten]_vars
  <2> SUFFICES ASSUME IdemInv, [Next]_vars, settled, ~ mode.force, ~ mode.undo
               PROVE  rewritten' \subseteq rewritten
    OBVIOUS
  <2>1. RunInv /\ GatherInv /\ PrelinkInv /\ QuietInv
    BY DEF IdemInv, RunInv
  <2>2. ASSUME NEW f \in File, PrelinkEnt(f) PROVE FALSE
    <3>1. Ready(f) /\ DepsDone(f)
      BY <2>2 DEF PrelinkEnt
    <3>2. pc = "prelink" /\ type[f] \in {"DYN", "EXEC"} /\ done[f] # 2 /\ deps[f] = needs[f]
      BY <2>1, <3>1, ReadyFacts
    <3> QED BY <2>1, <3>1, <3>2 DEF QuietInv, DepsDone
  <2>3. End => rewritten' = {}
    BY DEF End
  <2>4. UNCHANGED <<entries, stack>> => rewritten' = rewritten
    BY DEF entries
  <2>5. LoadCache \/ Trace \/ TraceFails \/ GatherFails \/ GatherDone \/ CheckLibs \/ DoLayout
          => rewritten' = rewritten
    BY DEF LoadCache, Trace, TraceFails, GatherFails, GatherDone, CheckLibs, DoLayout
  <2>6. \A g \in File : \/ Trust(g) \/ Explore(g) \/ Descend(g)
                        \/ PrelinkRefused(g) \/ PrelinkChanged(g) \/ PrelinkFails(g) \/ StatEnt(g)
                        => rewritten' = rewritten
    BY DEF Trust, Explore, Descend, PrelinkRefused, PrelinkChanged, PrelinkFails, StatEnt
  <2>7. \A m \in Modes : Start(m) => rewritten' = rewritten
    BY DEF Start
  <2> QED BY <2>2, <2>3, <2>4, <2>5, <2>6, <2>7, StepKinds
<1> QED BY <1>1, IdemInvHolds, PTL DEF Spec, Idempotent
=============================================================================
