---------------------------- MODULE SessionProofs ----------------------------
(***************************************************************************)
(* Gathering, for any files, dependencies (cycles too), options, failures, *)
(* upgrades and kills, over any number of invocations: the recursion of    *)
(* gather_deps is bounded, what it gathers is free of cycles, and          *)
(* prelink -u leaves nothing prelinked that it has gathered.               *)
(***************************************************************************)
EXTENDS Session, SequenceTheorems, TLAPS

-----------------------------------------------------------------------------
(* The invariants.                                                         *)

LibLists == UNION {[S -> Nat] : S \in SUBSET Lib}

FileState == [ver : Nat, slot : Nat, stamp : Nat, liblist : LibLists]

Frames == [file : File, liblist : LibLists, traced : BOOLEAN, failing : BOOLEAN,
           cached : SUBSET Lib]

CacheEntry == [ver : Nat, slot : Nat, deps : SUBSET Lib, unprelinkable : BOOLEAN]

FilesType ==
  /\ needs \in DepLists /\ clock \in Nat
  /\ disk \in [File -> FileState]
  /\ DOMAIN cache \subseteq File
  /\ \A f \in DOMAIN cache : cache[f] \in CacheEntry /\ cache[f].deps \subseteq DOMAIN cache

EntriesType ==
  /\ type \in [File -> Types] /\ done \in [File -> 0..2] /\ deps \in [File -> SUBSET Lib]
  /\ ver \in [File -> Nat] /\ stamp \in [File -> Nat] /\ slot \in [File -> Nat]
  /\ rewritten \subseteq File /\ explicit \subseteq File /\ known \subseteq File

LoopType ==
  /\ todo \subseteq File /\ stack \in Seq(Frames)
  /\ pc # "idle" => mode \in Modes
  /\ stack # << >> => pc = "gather"

TypeInv == FilesType /\ EntriesType /\ LoopType

(* A file that was gathered to the end (also when it turned out to be in   *)
(* no configured directory afterwards).                                    *)
Gathered(f) == type[f] \in {"DYN", "EXEC"} \/ (type[f] = "BAD" /\ done[f] # 0)

EntryInv ==
  /\ pc = "idle" => known = {} /\ \A f \in File : type[f] = "NONE" /\ done[f] = 0
  /\ pc = "load" => \A f \in File : type[f] \in {"NONE", "BAD"} /\ done[f] = 0
  /\ pc \notin {"prelink", "stat", "aborted"} => rewritten = {} /\ \A f \in File : done[f] # 1
  /\ pc = "trust" => \A f \in File : ~ Gathered(f)
  /\ pc = "gather" => \A f \in File : type[f] = "BAD" => done[f] = 0
  /\ pc \in {"prelink", "stat"} => \A f \in todo : type[f] \in {"DYN", "EXEC"}
  /\ \A f \in File :
       /\ type[f] \in {"DYN", "CACHE_DYN"} => f \in Lib
       /\ type[f] \in {"EXEC", "CACHE_EXEC"} => f \in Exe
       /\ type[f] # "NONE" => f \in known
       /\ type[f] \in {"NONE", "UNPRELINKABLE"} => done[f] = 0
       /\ pc \in {"trust", "gather", "exit", "undo", "load_rest"}
            => (type[f] \in {"CACHE_DYN", "CACHE_EXEC"} => done[f] = 0)

(* The calls of gather_deps: a library that is being gathered is marked    *)
(* bad, an executable has no type yet, and what ld.so has listed for it is *)
(* being gathered or was.                                                  *)
InProgress(f) == type[f] = IF f \in Lib THEN "BAD" ELSE "NONE"

StackInv ==
  /\ \A i, k \in 1..Len(stack) : stack[i].file = stack[k].file => i = k
  /\ \A i \in 1..Len(stack) :
       /\ stack[i].file \in known /\ InProgress(stack[i].file)
       /\ stack[i].traced =>
            /\ deps[stack[i].file] = needs[stack[i].file]
            /\ stack[i].cached \subseteq needs[stack[i].file]
            /\ needs[stack[i].file] \subseteq known
            /\ \A d \in needs[stack[i].file] : type[d] # "CACHE_DYN"

(* What was gathered has its dependencies as ld.so lists them, all of them *)
(* were visited, and none depends on it.                                   *)
DepsInv ==
  \A f \in File : Gathered(f) =>
    /\ deps[f] = needs[f] /\ needs[f] \subseteq known
    /\ \A d \in needs[f] : /\ type[d] \notin {"NONE", "CACHE_DYN"}
                           /\ Gathered(d) => f \notin needs[d]

GatherInv == TypeInv /\ EntryInv /\ StackInv /\ DepsInv

(* With -u: a file that prelink knows is as it was when prelink saw it, or *)
(* not prelinked; one that is not going to be undone is not prelinked.     *)
Bare(f) == disk[f].stamp = 0 /\ disk[f].liblist = NotPrelinked

UndoInv ==
  mode.undo /\ pc # "idle" =>
    /\ pc \notin {"load_rest", "layout", "prelink", "stat", "aborted"}
    /\ \A f \in known : Unaltered(f) \/ Bare(f)
    /\ \A i \in 1..Len(stack) :
         \/ Bare(stack[i].file)
         \/ /\ stamp[stack[i].file] = disk[stack[i].file].stamp
            /\ stack[i].liblist = disk[stack[i].file].liblist
    /\ \A f \in File : type[f] \in {"DYN", "EXEC"} =>
         \/ Bare(f)
         \/ IF pc = "undo" THEN f \in todo \/ failed ELSE done[f] = 2

-----------------------------------------------------------------------------
(* Facts about the constants and the stack.                                *)

LEMMA ConstantFacts ==
  /\ Lib \subseteq File /\ Exe \subseteq File /\ Lib \intersect Exe = {}
  /\ DepLists \subseteq [File -> SUBSET Lib]
  /\ \A f \in File : f \in Lib \/ f \in Exe
  /\ \A m \in Modes : m.named \subseteq File /\ m.banned \in SUBSET File
  BY SessionAssumption DEF File, Mode

LEMMA NoLibList == NotPrelinked \in LibLists /\ DOMAIN NotPrelinked = {}
<1>1. DOMAIN NotPrelinked = {} /\ NotPrelinked = [x \in {} |-> 0]
  BY DEF NotPrelinked
<1>2. NotPrelinked \in [{} -> Nat]
  BY <1>1
<1> QED BY <1>1, <1>2 DEF LibLists

LEMMA FreshFile == \A v \in Nat : Fresh(v) \in FileState
  BY NoLibList DEF Fresh, FileState

(* Append adds a frame on top.                                             *)
LEMMA PushFacts ==
  ASSUME NEW s \in Seq(Frames), NEW e \in Frames
  PROVE  /\ Append(s, e) \in Seq(Frames) /\ Len(Append(s, e)) = Len(s) + 1
         /\ Append(s, e) # << >>
         /\ \A i \in 1..Len(s) : Append(s, e)[i] = s[i]
         /\ Append(s, e)[Len(s) + 1] = e
  OBVIOUS

(* gather_deps returns: the frames below keep all but failing.             *)
LEMMA PopFacts ==
  ASSUME stack \in Seq(Frames), stack # << >>, NEW ok \in BOOLEAN, Return(ok)
  PROVE  /\ stack' \in Seq(Frames) /\ Len(stack') = Len(stack) - 1
         /\ stack' # << >> => pc' = pc
         /\ \A i \in 1..Len(stack') :
              /\ stack'[i].file = stack[i].file /\ stack'[i].liblist = stack[i].liblist
              /\ stack'[i].traced = stack[i].traced /\ stack'[i].cached = stack[i].cached
<1>1. Len(stack) \in Nat \ {0}
  OBVIOUS
<1>2. CASE Len(stack) = 1
  BY <1>2 DEF Return
<1>3. CASE Len(stack) # 1
  <2> DEFINE m == Len(stack) - 1
             front == SubSeq(stack, 1, m)
  <2>0. \A n \in Nat \ {0} : n # 1 => n - 1 \in Nat /\ n - 1 >= 1 /\ n - 1 <= n
    OBVIOUS
  <2>1. m \in Nat /\ m >= 1 /\ m <= Len(stack)
    BY <1>1, <1>3, <2>0
  <2>2. /\ front \in Seq(Frames) /\ Len(front) = m
        /\ \A i \in 1..m : front[i] = stack[i]
    BY <2>1, SubSeqProperties
  <2>3. /\ stack' = [front EXCEPT ![m].failing = @ \/ ~ ok] /\ pc' = pc
    BY <1>3 DEF Return, Front
  <2> HIDE DEF front, m
  <2>4. front[m] \in Frames
    BY <2>1, <2>2
  <2>5. [front[m] EXCEPT !.failing = @ \/ ~ ok] \in Frames
    BY <2>4 DEF Frames
  <2>6. stack' = [front EXCEPT ![m] = [front[m] EXCEPT !.failing = @ \/ ~ ok]]
    BY <2>3
  <2>7. stack' \in Seq(Frames) /\ Len(stack') = m
    BY <2>1, <2>2, <2>5, <2>6, ExceptSeq
  <2>8. \A i \in 1..m : stack'[i] = IF i = m THEN [front[m] EXCEPT !.failing = @ \/ ~ ok] ELSE front[i]
    BY <2>1, <2>2, <2>6
  <2> QED BY <2>1, <2>2, <2>3, <2>4, <2>7, <2>8 DEF m, Frames
<1> QED BY <1>2, <1>3

-----------------------------------------------------------------------------
(* Types.                                                                  *)

LEMMA FilesUnchanged ==
  ASSUME [Next]_vars
  PROVE  \/ UNCHANGED fs
         \/ SaveCache
         \/ \E f \in File : PrelinkFails(f) \/ PrelinkEnt(f) \/ UndoOne(f) \/ Upgrade(f)
<1> USE DEF fs
<1>1. CASE Gather
  BY <1>1 DEF Gather, Explore, Descend, Trace, TraceFails, GatherFails, GatherDone, CheckLibs, Exit
<1>2. CASE Prelink
  BY <1>2 DEF Prelink, PrelinkRefused, PrelinkChanged, StatEnt, StatFails, UndoFails,
              UndoEnd, SaveFails, Abort
<1>3. CASE ~ Gather /\ ~ Prelink
  BY <1>3 DEF Next, Start, LoadCache, Trust, TrustEnd, DoLayout, NoSlot, Crash, Terminating, vars
<1> QED BY <1>1, <1>2, <1>3

LEMMA NeedsUnchanged == [Next]_vars => needs' = needs
<1>1. \A f \in File : PrelinkFails(f) \/ PrelinkEnt(f) \/ UndoOne(f) \/ Upgrade(f) => needs' = needs
  BY DEF PrelinkFails, PrelinkEnt, UndoOne, Upgrade
<1>2. SaveCache \/ UNCHANGED fs => needs' = needs
  BY DEF SaveCache, fs
<1> QED BY <1>1, <1>2, FilesUnchanged

LEMMA StepFilesType == TypeInv /\ [Next]_vars => FilesType'
<1>s. SUFFICES ASSUME TypeInv, [Next]_vars PROVE FilesType'
  OBVIOUS
<1>t. FilesType /\ EntriesType
  BY <1>s DEF TypeInv
<1>1. CASE UNCHANGED fs
  BY <1>t, <1>1 DEF FilesType, fs
<1>2. CASE SaveCache
  <2>1. /\ UNCHANGED <<needs, disk, clock>> /\ \A f \in Saved : deps[f] \subseteq Saved
        /\ cache' = [f \in Saved |->
                 [ver |-> ver[f],
                  slot |-> IF f \in Exe \/ type[f] = "UNPRELINKABLE" THEN 0 ELSE slot[f],
                  deps |-> deps[f],
                  unprelinkable |-> type[f] = "UNPRELINKABLE"]]
    BY <1>2 DEF SaveCache
  <2>2. DOMAIN cache' = Saved /\ Saved \subseteq File
    BY <2>1 DEF Saved
  <2>3. ASSUME NEW f \in Saved
        PROVE  cache'[f] \in CacheEntry /\ cache'[f].deps \subseteq Saved
    <3> DEFINE u == type[f] = "UNPRELINKABLE"
               s == IF f \in Exe \/ type[f] = "UNPRELINKABLE" THEN 0 ELSE slot[f]
    <3>1. /\ f \in File /\ ver[f] \in Nat /\ slot[f] \in Nat /\ deps[f] \subseteq Lib
      BY <1>t, <2>2, <2>3 DEF EntriesType
    <3>2. u \in BOOLEAN /\ s \in Nat
      BY <3>1
    <3>3. cache'[f] = [ver |-> ver[f], slot |-> s, deps |-> deps[f], unprelinkable |-> u]
      BY <2>1, <2>3
    <3> HIDE DEF u, s
    <3> QED BY <2>1, <2>3, <3>1, <3>2, <3>3 DEF CacheEntry
  <2> QED BY <1>t, <2>1, <2>2, <2>3 DEF FilesType
<1>3. ASSUME NEW f \in File, PrelinkFails(f) PROVE FilesType'
  <2>1. UNCHANGED <<needs, disk, cache>> /\ (clock' = clock \/ clock' = clock + 1)
    BY <1>3 DEF PrelinkFails
  <2> QED BY <1>t, <2>1 DEF FilesType
<1>4. ASSUME NEW f \in File, NEW r \in FileState, disk' = [disk EXCEPT ![f] = r],
             clock' = clock + 1, UNCHANGED <<needs, cache>>
      PROVE  FilesType'
  BY <1>t, <1>4 DEF FilesType
<1>5. ASSUME NEW f \in File, PrelinkEnt(f) PROVE FilesType'
  <2> DEFINE s == IF f \in Lib THEN clock + 1 ELSE 0
             ll == [d \in deps[f] |-> stamp[d]]
  <2>1. disk' = [disk EXCEPT ![f] = [ver |-> clock + 1, slot |-> slot[f], stamp |-> s, liblist |-> ll]]
        /\ clock' = clock + 1 /\ UNCHANGED <<needs, cache>>
    BY <1>5 DEF PrelinkEnt
  <2>2. clock + 1 \in Nat /\ slot[f] \in Nat /\ s \in Nat
    BY <1>t, <1>5 DEF FilesType, EntriesType
  <2>3. ll \in LibLists
    <3>1. deps[f] \subseteq Lib /\ \A d \in deps[f] : stamp[d] \in Nat
      BY <1>t, <1>5, ConstantFacts DEF EntriesType
    <3>2. ll \in [deps[f] -> Nat]
      BY <3>1
    <3> QED BY <3>1, <3>2 DEF LibLists
  <2> HIDE DEF s, ll
  <2>4. [ver |-> clock + 1, slot |-> slot[f], stamp |-> s, liblist |-> ll] \in FileState
    BY <2>2, <2>3 DEF FileState
  <2> QED BY <1>4, <2>1, <2>4
<1>6. ASSUME NEW f \in File, UndoOne(f) PROVE FilesType'
  <2>1. CASE disk[f].ver = ver[f]
    BY <1>t, <1>6, <1>4, <2>1, FreshFile DEF UndoOne, FilesType
  <2>2. CASE disk[f].ver # ver[f]
    BY <1>t, <1>6, <2>2 DEF UndoOne, FilesType
  <2> QED BY <2>1, <2>2
<1>7. ASSUME NEW f \in File, Upgrade(f) PROVE FilesType'
  BY <1>t, <1>7, <1>4, FreshFile DEF Upgrade, FilesType
<1> QED BY <1>s, <1>1, <1>2, <1>3, <1>5, <1>6, <1>7, FilesUnchanged

(* The steps that end the invocation, the steps that leave the entries     *)
(* alone, and the others.                                                  *)
LEMMA StepKinds ==
  ASSUME [Next]_vars
  PROVE  \/ End
         \/ UNCHANGED <<entries, stack>>
         \/ LoadCache \/ Trace \/ TraceFails \/ GatherFails \/ GatherDone \/ CheckLibs \/ DoLayout
         \/ \E f \in File : \/ Trust(f) \/ Explore(f) \/ Descend(f)
                            \/ PrelinkRefused(f) \/ PrelinkChanged(f) \/ PrelinkFails(f)
                            \/ PrelinkEnt(f) \/ StatEnt(f)
         \/ \E m \in Modes : Start(m)
<1>1. CASE Gather
  BY <1>1 DEF Gather, Exit
<1>2. CASE Prelink
  BY <1>2 DEF Prelink, StatFails, UndoOne, UndoFails, UndoEnd, SaveCache, SaveFails, Abort
<1>3. CASE ~ Gather /\ ~ Prelink
  BY <1>3 DEF Next, TrustEnd, NoSlot, Crash, Upgrade, Terminating, vars
<1> QED BY <1>1, <1>2, <1>3

LEMMA EndFacts ==
  ASSUME End
  PROVE  /\ EntriesType' /\ LoopType' /\ stack' = << >> /\ todo' = {} /\ pc' = "idle"
         /\ known' = {} /\ rewritten' = {} /\ Len(stack') = 0
         /\ \A f \in File : type'[f] = "NONE" /\ done'[f] = 0 /\ deps'[f] = {} /\ ver'[f] = 0
  BY DEF End, EntriesType, LoopType, Types

(* The top of the stack.                                                   *)
LEMMA TopFacts ==
  ASSUME stack \in Seq(Frames), stack # << >>
  PROVE  /\ Len(stack) \in 1..Len(stack) /\ Len(stack) \in Nat \ {0} /\ Top \in Frames
         /\ Top = stack[Len(stack)] /\ Top.file \in File
<1>1. Len(stack) \in 1..Len(stack) /\ Len(stack) \in Nat \ {0}
  OBVIOUS
<1>2. Top = stack[Len(stack)] /\ Top \in Frames
  BY <1>1 DEF Top
<1> QED BY <1>1, <1>2 DEF Frames

(* A new call.                                                             *)
LEMMA EnterFacts ==
  ASSUME FilesType, stack \in Seq(Frames), NEW f \in File, NEW t, Enter(f, t)
  PROVE  /\ stack' \in Seq(Frames) /\ Len(stack') = Len(stack) + 1 /\ stack' # << >>
         /\ \A i \in 1..Len(stack) : stack'[i] = stack[i]
         /\ stack'[Len(stack) + 1] = Frame(f)
         /\ Frame(f) \in Frames /\ Frame(f).file = f /\ Frame(f).traced = FALSE
         /\ Frame(f).liblist = disk[f].liblist
<1>1. disk[f].liblist \in LibLists
  BY DEF FilesType, FileState
<1>2. /\ Frame(f) \in Frames /\ Frame(f).file = f /\ Frame(f).traced = FALSE
      /\ Frame(f).liblist = disk[f].liblist
  BY <1>1 DEF Frame, Frames
<1>3. stack' = Append(stack, Frame(f))
  BY DEF Enter
<1> QED BY <1>2, <1>3, PushFacts

(* ld.so has listed the dependencies of the file on top.                   *)
LEMMA TraceFacts ==
  ASSUME TypeInv, Trace
  PROVE  /\ stack' \in Seq(Frames) /\ Len(stack') = Len(stack) /\ stack' # << >>
         /\ \A i \in 1..Len(stack) :
              /\ stack'[i].file = stack[i].file /\ stack'[i].liblist = stack[i].liblist
              /\ i # Len(stack) => stack'[i] = stack[i]
              /\ i = Len(stack) =>
                   stack'[i].traced = TRUE /\ stack'[i].cached \subseteq needs[Top.file]
<1> DEFINE cached == {d \in needs[Top.file] : type[d] = "CACHE_DYN"}
           n == Len(stack)
           e == [Top EXCEPT !.traced = TRUE, !.cached = cached]
<1>1. stack \in Seq(Frames) /\ stack # << >>
  BY DEF TypeInv, LoopType, Trace
<1>2. n \in 1..Len(stack) /\ n \in Nat \ {0} /\ Top \in Frames /\ Top = stack[n] /\ Top.file \in File
  BY <1>1, TopFacts
<1>3. cached \in SUBSET Lib
  BY <1>2, ConstantFacts DEF TypeInv, FilesType
<1>4. stack' = [stack EXCEPT ![n].traced = TRUE, ![n].cached = cached]
  BY DEF Trace
<1>c. cached \subseteq needs[Top.file]
  OBVIOUS
<1> HIDE DEF cached
<1>5. /\ e \in Frames /\ e.file = Top.file /\ e.liblist = Top.liblist /\ e.traced = TRUE
      /\ e.cached = cached
  BY <1>2, <1>3 DEF Frames
<1>6. stack' = [stack EXCEPT ![n] = e]
  BY <1>1, <1>2, <1>4
<1> HIDE DEF e
<1>7. /\ stack' \in Seq(Frames) /\ Len(stack') = Len(stack)
      /\ \A i \in 1..Len(stack) : stack'[i] = IF i = n THEN e ELSE stack[i]
  BY <1>1, <1>2, <1>5, <1>6, ExceptSeq
<1> QED BY <1>1, <1>2, <1>c, <1>5, <1>7

LEMMA KnowFacts ==
  ASSUME FilesType, EntriesType, NEW S \in SUBSET File, Know(S)
  PROVE  /\ ver' \in [File -> Nat] /\ known' \subseteq File /\ known' = known \union S
         /\ \A f \in known : ver'[f] = ver[f]
         /\ \A f \in S \ known : ver'[f] = disk[f].ver
<1>1. \A f \in File : disk[f].ver \in Nat
  BY DEF FilesType, FileState
<1> QED BY <1>1 DEF EntriesType, Know

LEMMA StepEntriesType == TypeInv /\ [Next]_vars => EntriesType'
<1>s. SUFFICES ASSUME TypeInv, [Next]_vars PROVE EntriesType'
  OBVIOUS
<1>t. FilesType /\ EntriesType /\ stack \in Seq(Frames)
  BY <1>s DEF TypeInv, LoopType
<1>c. \A f \in DOMAIN cache : f \in File /\ cache[f].deps \subseteq Lib /\ cache[f].slot \in Nat
  BY <1>t DEF FilesType, CacheEntry
<1>d. \A f \in File : disk[f].stamp \in Nat /\ disk[f].slot \in Nat
  BY <1>t DEF FilesType, FileState
<1>n. needs \in [File -> SUBSET Lib]
  BY <1>t, ConstantFacts DEF FilesType
<1>1. CASE End
  BY <1>1, EndFacts
<1>2. CASE UNCHANGED <<entries, stack>>
  BY <1>t, <1>2 DEF entries, EntriesType
<1>3. CASE LoadCache
  <2> DEFINE new == {f \in DOMAIN cache : type[f] = "NONE"}
  <2>1. /\ type' = [f \in File |-> IF f \in new THEN LoadedType(f) ELSE type[f]]
        /\ deps' = [f \in File |-> IF f \notin new THEN deps[f]
                                    ELSE IF type'[f] = "NONE" THEN {} ELSE cache[f].deps]
        /\ slot' = [f \in File |-> IF f \in new THEN cache[f].slot ELSE slot[f]]
        /\ Know(DOMAIN cache) /\ UNCHANGED <<done, stamp, rewritten, explicit>>
    BY <1>3 DEF LoadCache
  <2>2. \A f \in File : LoadedType(f) \in Types
    BY DEF LoadedType, Types
  <2>3. type' \in [File -> Types] /\ deps' \in [File -> SUBSET Lib] /\ slot' \in [File -> Nat]
    BY <1>t, <1>c, <2>1, <2>2 DEF EntriesType
  <2>4. ver' \in [File -> Nat] /\ known' \subseteq File
    BY <1>t, <1>c, <2>1, KnowFacts
  <2> QED BY <1>t, <2>1, <2>3, <2>4 DEF EntriesType
<1>4. ASSUME NEW f \in File, Trust(f) PROVE EntriesType'
  BY <1>t, <1>4 DEF Trust, EntriesType, Types
<1>5. ASSUME NEW f \in File, Explore(f) PROVE EntriesType'
  <2>1. ver' \in [File -> Nat] /\ known' \subseteq File
    BY <1>t, <1>5, KnowFacts DEF Explore
  <2> QED BY <1>t, <1>d, <1>5, <2>1 DEF Explore, Enter, EntriesType, Types
<1>6. CASE Trace
  <2>1. stack # << >>
    BY <1>6 DEF Trace
  <2>2. Top.file \in File
    BY <1>t, <2>1, TopFacts
  <2>3. needs[Top.file] \in SUBSET File
    BY <1>n, <2>2, ConstantFacts
  <2>4. ver' \in [File -> Nat] /\ known' \subseteq File
    BY <1>t, <1>6, <2>3, KnowFacts DEF Trace
  <2> QED BY <1>t, <1>n, <1>6, <2>2, <2>4 DEF Trace, EntriesType, Types
<1>7. CASE TraceFails
  <2>1. Top.file \in File
    BY <1>t, <1>7, TopFacts DEF TraceFails
  <2> QED BY <1>t, <1>7, <2>1 DEF TraceFails, EntriesType, Types
<1>8. ASSUME NEW d \in File, Descend(d) PROVE EntriesType'
  BY <1>t, <1>d, <1>8 DEF Descend, Enter, EntriesType, Types
<1>9. CASE GatherFails
  BY <1>t, <1>9 DEF GatherFails, EntriesType
<1>10. CASE GatherDone
  <2>1. \E t \in Types : type' = [type EXCEPT ![Top.file] = t]
    BY <1>10 DEF GatherDone, Types
  <2>2. \/ done' = done \/ done' = [done EXCEPT ![Top.file] = 2]
        \/ done' = [done EXCEPT ![Top.file] = 0]
    <3>1. \/ done' = done
          \/ done' = [done EXCEPT ![Top.file] = IF AsIs(Top.file) THEN 2 ELSE 0]
      BY <1>10 DEF GatherDone
    <3> QED BY <3>1
  <2>f. Top.file \in File
    BY <1>t, <1>10, TopFacts DEF GatherDone
  <2>3. type' \in [File -> Types] /\ done' \in [File -> 0..2]
    <3>1. type' \in [File -> Types]
      BY <1>t, <2>1, <2>f DEF EntriesType
    <3>2. done' \in [File -> 0..2]
      <4>1. done \in [File -> 0..2] /\ 0 \in 0..2 /\ 2 \in 0..2
        BY <1>t DEF EntriesType
      <4>2. \A v \in 0..2 : [done EXCEPT ![Top.file] = v] \in [File -> 0..2]
        BY <2>f, <4>1
      <4> QED BY <2>2, <4>1, <4>2
    <3> QED BY <3>1, <3>2
  <2>4. UNCHANGED <<deps, ver, stamp, slot, rewritten, explicit, known>>
    BY <1>10 DEF GatherDone
  <2> QED BY <1>t, <2>3, <2>4 DEF EntriesType
<1>11. CASE CheckLibs
  BY <1>t, <1>11 DEF CheckLibs, EntriesType, Types
<1>12. CASE DoLayout
  <2>1. PICK victims : \E s \in Injection(Lost(victims), Slots \ {slot[l] : l \in LayoutLibs \ Lost(victims)}) :
          /\ slot' = [f \in File |-> IF f \in Lost(victims) THEN s[f] ELSE slot[f]]
          /\ done' = [f \in File |-> IF f \in Lost(victims) THEN 1 ELSE Found[f]]
    BY <1>12 DEF DoLayout
  <2>2. PICK s \in [Lost(victims) -> Slots] :
          slot' = [f \in File |-> IF f \in Lost(victims) THEN s[f] ELSE slot[f]]
    BY <2>1 DEF Injection
  <2>3. slot' \in [File -> Nat]
    BY <1>t, <2>2, SessionAssumption DEF EntriesType
  <2>4. done' \in [File -> 0..2]
    BY <1>t, <2>1 DEF EntriesType, Found
  <2> QED BY <1>t, <1>12, <2>3, <2>4 DEF DoLayout, EntriesType
<1>13. ASSUME NEW f \in File, PrelinkRefused(f) \/ PrelinkChanged(f) PROVE EntriesType'
  <2>1. (\E t \in Types : Refused(f, t)) /\ UNCHANGED <<deps, ver, stamp, slot, rewritten, explicit, known>>
    BY <1>t, <1>13 DEF PrelinkRefused, PrelinkChanged, EntriesType, Types
  <2> QED BY <1>t, <2>1 DEF Refused, EntriesType
<1>14. ASSUME NEW f \in File, PrelinkFails(f) PROVE EntriesType'
  <2>1. clock \in Nat
    BY <1>t DEF FilesType
  <2>2. UNCHANGED <<deps, ver, slot, rewritten, explicit, known>>
    BY <1>14 DEF PrelinkFails
  <2>3. stamp' \in [File -> Nat]
    <3> DEFINE v == IF f \in Lib THEN clock + 1 ELSE stamp[f]
    <3>1. stamp' = stamp \/ stamp' = [stamp EXCEPT ![f] = v]
      BY <1>14 DEF PrelinkFails
    <3>2. v \in Nat /\ stamp \in [File -> Nat]
      BY <1>t, <2>1 DEF EntriesType
    <3> HIDE DEF v
    <3> QED BY <3>1, <3>2
  <2>4. PICK t \in Types : Refused(f, t)
    <3>1. type[f] \in Types /\ "UNPRELINKABLE" \in Types
      BY <1>t DEF EntriesType, Types
    <3> QED BY <1>14, <3>1 DEF PrelinkFails
  <2> QED BY <1>t, <2>2, <2>3, <2>4 DEF Refused, EntriesType
<1>15. ASSUME NEW f \in File, PrelinkEnt(f) PROVE EntriesType'
  <2>1. clock \in Nat
    BY <1>t DEF FilesType
  <2> QED BY <1>t, <1>15, <2>1 DEF PrelinkEnt, EntriesType
<1>16. ASSUME NEW f \in File, StatEnt(f) PROVE EntriesType'
  <2>1. disk[f].ver \in Nat
    BY <1>t DEF FilesType, FileState
  <2> QED BY <1>t, <1>16, <2>1 DEF StatEnt, EntriesType
<1>17. ASSUME NEW m \in Modes, Start(m) PROVE EntriesType'
  <2>1. /\ type' = [f \in File |-> IF f \in m.banned THEN "BAD" ELSE "NONE"]
        /\ explicit' = m.banned /\ Know(m.banned) /\ UNCHANGED <<done, deps, stamp, slot, rewritten>>
    BY <1>17 DEF Start
  <2>2. m.banned \in SUBSET File
    BY <1>17, ConstantFacts
  <2>3. ver' \in [File -> Nat] /\ known' \subseteq File
    BY <1>t, <2>1, <2>2, KnowFacts
  <2> QED BY <1>t, <2>1, <2>2, <2>3 DEF EntriesType, Types
<1> QED BY <1>s, <1>1, <1>2, <1>3, <1>4, <1>5, <1>6, <1>7, <1>8, <1>9, <1>10, <1>11, <1>12,
          <1>13, <1>14, <1>15, <1>16, <1>17, StepKinds

LEMMA StepLoopType == TypeInv /\ [Next]_vars => LoopType'
<1>s. SUFFICES ASSUME TypeInv, [Next]_vars PROVE LoopType'
  OBVIOUS
<1>t. /\ FilesType /\ EntriesType /\ stack \in Seq(Frames) /\ todo \subseteq File
      /\ (pc # "idle" => mode \in Modes) /\ (stack # << >> => pc = "gather")
  BY <1>s DEF TypeInv, LoopType
<1>1. CASE End
  BY <1>1, EndFacts
<1>2. CASE LoadCache \/ CheckLibs \/ DoLayout \/ TrustEnd \/ Abort \/ Terminating \/ UNCHANGED vars
  <2>1. DOMAIN cache \subseteq File
    BY <1>t DEF FilesType
  <2>2. CASE LoadCache
    BY <1>t, <2>1, <2>2 DEF LoadCache, LoopType
  <2>3. CASE CheckLibs
    BY <1>t, <2>3 DEF CheckLibs, LoopType
  <2>4. CASE DoLayout
    BY <1>t, <2>4 DEF DoLayout, LoopType
  <2>5. CASE TrustEnd
    BY <1>t, <2>5, ConstantFacts DEF TrustEnd, LoopType
  <2>6. CASE Abort \/ Terminating \/ UNCHANGED vars
    BY <1>t, <2>6 DEF Abort, SaveReady, Terminating, vars, LoopType
  <2> QED BY <1>2, <2>2, <2>3, <2>4, <2>5, <2>6
<1>3. ASSUME NEW m \in Modes, Start(m) PROVE LoopType'
  BY <1>t, <1>3, ConstantFacts DEF Start, LoopType
<1>4. ASSUME NEW f \in File,
             \/ Trust(f) \/ PrelinkRefused(f) \/ PrelinkChanged(f) \/ PrelinkFails(f)
             \/ PrelinkEnt(f) \/ StatEnt(f) \/ StatFails(f)
             \/ UndoOne(f) \/ UndoFails(f) \/ Upgrade(f)
      PROVE  LoopType'
  BY <1>t, <1>4 DEF Trust, PrelinkRefused, PrelinkChanged, PrelinkFails, Refused, PrelinkEnt,
     Ready, StatEnt, StatFails, Statting, UndoOne, UndoFails, Upgrade, LoopType
<1>5. ASSUME NEW f \in File, Explore(f) \/ Descend(f) PROVE LoopType'
  <2>1. pc = "gather" /\ UNCHANGED <<pc, mode>> /\ todo' \subseteq File
    BY <1>t, <1>5 DEF Explore, Descend
  <2>2. stack' \in Seq(Frames)
    BY <1>t, <1>5, EnterFacts DEF Explore, Descend
  <2> QED BY <1>t, <2>1, <2>2 DEF LoopType
<1>6. CASE Trace
  BY <1>s, <1>t, <1>6, TraceFacts DEF Trace, LoopType
<1>7. CASE TraceFails \/ GatherFails \/ GatherDone
  <2>1. /\ stack # << >> /\ pc = "gather" /\ UNCHANGED <<mode, todo>>
        /\ \E ok \in BOOLEAN : Return(ok)
    BY <1>7 DEF TraceFails, GatherFails, GatherDone
  <2>2. stack' \in Seq(Frames) /\ (stack' # << >> => pc' = pc)
    BY <1>t, <2>1, PopFacts
  <2> QED BY <1>t, <2>1, <2>2 DEF LoopType
<1>8. \/ End \/ LoadCache \/ CheckLibs \/ DoLayout \/ TrustEnd \/ Abort \/ Terminating \/ UNCHANGED vars
      \/ TraceFails \/ GatherFails \/ GatherDone \/ Trace
      \/ \E m \in Modes : Start(m)
      \/ \E f \in File : \/ Trust(f) \/ PrelinkRefused(f) \/ PrelinkChanged(f) \/ PrelinkFails(f)
                         \/ PrelinkEnt(f) \/ StatEnt(f) \/ StatFails(f)
                         \/ UndoOne(f) \/ UndoFails(f) \/ Upgrade(f)
                         \/ Explore(f) \/ Descend(f)
  BY <1>s DEF Next, Gather, Prelink, Exit, NoSlot, UndoEnd, SaveCache, SaveFails, Crash
<1> QED BY <1>1, <1>2, <1>3, <1>4, <1>5, <1>6, <1>7, <1>8

LEMMA TypeInvInductive == TypeInv /\ [Next]_vars => TypeInv'
  BY StepFilesType, StepEntriesType, StepLoopType DEF TypeInv

LEMMA InitGatherInv == Init => GatherInv
<1>s. SUFFICES ASSUME Init PROVE GatherInv
  OBVIOUS
<1>1. disk \in [File -> FileState]
  <2>1. PICK old \in SUBSET Lib, s \in [Lib -> Slots] :
          disk = [f \in File |->
                    IF f \in old
                    THEN [ver |-> 0, slot |-> s[f], stamp |-> 1,
                          liblist |-> [d \in needs[f] |-> 1]]
                    ELSE Fresh(0)]
    BY <1>s DEF Init
  <2>2. ASSUME NEW f \in old
        PROVE  [ver |-> 0, slot |-> s[f], stamp |-> 1, liblist |-> [d \in needs[f] |-> 1]] \in FileState
    <3>1. needs[f] \in SUBSET Lib /\ f \in Lib
      BY <1>s, <2>1, <2>2, ConstantFacts DEF Init
    <3>2. [d \in needs[f] |-> 1] \in LibLists
      <4>1. [d \in needs[f] |-> 1] \in [needs[f] -> Nat]
        OBVIOUS
      <4> QED BY <3>1, <4>1 DEF LibLists
    <3>3. s[f] \in Nat
      BY <2>1, <3>1, SessionAssumption
    <3> QED BY <3>2, <3>3 DEF FileState
  <2>3. Fresh(0) \in FileState
    BY FreshFile
  <2> QED BY <2>1, <2>2, <2>3
<1>2. FilesType
  <2>1. DOMAIN cache = {}
    BY <1>s DEF Init
  <2> QED BY <1>s, <1>1, <2>1 DEF Init, FilesType
<1>3. EntriesType /\ LoopType
  BY <1>s DEF Init, EntriesType, LoopType, Types
<1>4. EntryInv /\ DepsInv
  BY <1>s DEF Init, EntryInv, DepsInv, Gathered
<1>5. StackInv
  BY <1>s DEF Init, StackInv
<1> QED BY <1>2, <1>3, <1>4, <1>5 DEF GatherInv, TypeInv

-----------------------------------------------------------------------------
(* The steps of gathering, each seen as what it does to the entries.       *)

(* A file is entered.                                                      *)
Entered(f) ==
  /\ pc = "gather" /\ pc' = "gather"
  /\ type[f] \in {"NONE", "UNPRELINKABLE"}
  /\ \A i \in 1..Len(stack) : stack[i].file # f
  /\ type' = [type EXCEPT ![f] = IF f \in Lib THEN "BAD" ELSE "NONE"]
  /\ \A g \in File : g # f => deps'[g] = deps[g]
  /\ done' = done /\ rewritten' = rewritten /\ needs' = needs
  /\ known' = known \union {f}

LEMMA DescendEnters ==
  ASSUME GatherInv, NEW d \in File, Descend(d)
  PROVE  /\ Entered(d) /\ Enter(d, type) /\ UNCHANGED <<ver, disk, done, mode>>
<1>1. /\ pc = "gather" /\ stack # << >> /\ Top.traced /\ d \in Pending /\ Enter(d, type)
      /\ UNCHANGED <<needs, disk, done, deps, ver, rewritten, known, pc, mode>>
  BY DEF Descend, fs
<1>2. /\ stack \in Seq(Frames) /\ EntriesType
  BY DEF GatherInv, TypeInv, LoopType
<1>3. /\ Len(stack) \in 1..Len(stack) /\ Top = stack[Len(stack)] /\ Top.file \in File
  BY <1>1, <1>2, TopFacts
<1>4. /\ deps[Top.file] = needs[Top.file] /\ Top.cached \subseteq needs[Top.file]
      /\ needs[Top.file] \subseteq known /\ needs[Top.file] \subseteq Lib
  BY <1>1, <1>3, ConstantFacts DEF GatherInv, StackInv, TypeInv, FilesType
<1>5. type[d] = "NONE" /\ d \in known /\ d \in Lib
  BY <1>1, <1>4 DEF Pending
<1>6. type' = [type EXCEPT ![d] = "BAD"]
  BY <1>1, <1>5 DEF Enter
<1>7. \A i \in 1..Len(stack) : stack[i].file # d
  BY <1>5 DEF GatherInv, StackInv, InProgress
<1> QED BY <1>1, <1>5, <1>6, <1>7 DEF Entered

LEMMA ExploreEnters ==
  ASSUME GatherInv, NEW f \in File, Explore(f)
  PROVE  /\ pc = "gather" /\ stack = << >> /\ UNCHANGED <<pc, disk, needs, done, rewritten, mode>>
         /\ Know({f})
         /\ \/ Entered(f) /\ Enter(f, [type EXCEPT ![f] = "NONE"])
            \/ UNCHANGED <<stack, type, deps, stamp, slot>>
<1>1. /\ pc = "gather" /\ stack = << >> /\ UNCHANGED <<pc, disk, needs, done, rewritten, mode>>
      /\ Know({f}) /\ known' = known \union {f}
  BY DEF Explore, fs, Know
<1>2. CASE type[f] = "NONE" \/ (type[f] = "UNPRELINKABLE" /\ ~ mode.all)
  <2>1. Enter(f, [type EXCEPT ![f] = "NONE"]) /\ deps' = [deps EXCEPT ![f] = {}]
    BY <1>2 DEF Explore
  <2>2. type' = [type EXCEPT ![f] = IF f \in Lib THEN "BAD" ELSE "NONE"]
    <3>1. type \in [File -> Types]
      BY DEF GatherInv, TypeInv, EntriesType
    <3> QED BY <2>1, <3>1 DEF Enter
  <2>3. \A g \in File : g # f => deps'[g] = deps[g]
    BY <2>1 DEF GatherInv, TypeInv, EntriesType
  <2>4. \A i \in 1..Len(stack) : stack[i].file # f
    BY <1>1
  <2> QED BY <1>1, <1>2, <2>1, <2>2, <2>3, <2>4 DEF Entered
<1>3. CASE ~ (type[f] = "NONE" \/ (type[f] = "UNPRELINKABLE" /\ ~ mode.all))
  BY <1>1, <1>3 DEF Explore
<1> QED BY <1>1, <1>2, <1>3

LEMMA EnteredInv ==
  ASSUME GatherInv, NEW f \in File, Entered(f), NEW t, Enter(f, t), todo' \subseteq File
  PROVE  EntryInv' /\ StackInv' /\ DepsInv'
<1>1. /\ EntriesType /\ EntryInv /\ StackInv /\ DepsInv /\ FilesType /\ stack \in Seq(Frames)
      /\ needs \in [File -> SUBSET Lib] /\ Lib \subseteq File /\ Len(stack) \in Nat
  BY ConstantFacts DEF GatherInv, TypeInv, LoopType, FilesType
<1>2. /\ type'[f] = IF f \in Lib THEN "BAD" ELSE "NONE"
      /\ \A g \in File : g # f => type'[g] = type[g] /\ deps'[g] = deps[g]
      /\ done' = done /\ needs' = needs /\ known' = known \union {f} /\ pc = "gather" /\ pc' = "gather"
      /\ rewritten' = rewritten
  BY <1>1 DEF Entered, EntriesType
<1>3. done[f] = 0 /\ ~ Gathered(f) /\ ~ Gathered(f)'
  BY <1>1, <1>2 DEF EntryInv, Gathered, Entered
<1>4. \A g \in File : Gathered(g)' <=> Gathered(g)
  BY <1>2, <1>3 DEF Gathered
<1>5. EntryInv'
  BY <1>1, <1>2, <1>3 DEF EntryInv, Gathered
<1>6. DepsInv'
  BY <1>1, <1>2, <1>3, <1>4 DEF DepsInv
<1>7. /\ Len(stack') = Len(stack) + 1
      /\ \A i \in 1..Len(stack) : stack'[i] = stack[i]
      /\ stack'[Len(stack) + 1].file = f /\ stack'[Len(stack) + 1].traced = FALSE
  BY <1>1, EnterFacts
<1>8. \A i \in 1..Len(stack) : stack[i].file # f /\ stack[i].file \in File
  <2>1. \A i \in 1..Len(stack) : stack[i] \in Frames
    BY <1>1
  <2> QED BY <2>1 DEF Entered, Frames
<1>9. ASSUME NEW i \in 1..Len(stack'), NEW k \in 1..Len(stack'), stack'[i].file = stack'[k].file
      PROVE  i = k
  BY <1>1, <1>7, <1>8, <1>9 DEF StackInv
<1>10. ASSUME NEW i \in 1..Len(stack')
       PROVE  /\ stack'[i].file \in known'
              /\ type'[stack'[i].file] = IF stack'[i].file \in Lib THEN "BAD" ELSE "NONE"
              /\ stack'[i].traced =>
                   /\ deps'[stack'[i].file] = needs[stack'[i].file]
                   /\ stack'[i].cached \subseteq needs[stack'[i].file]
                   /\ needs[stack'[i].file] \subseteq known'
                   /\ \A d \in needs[stack'[i].file] : type'[d] # "CACHE_DYN"
  <2>1. CASE i = Len(stack) + 1
    BY <1>2, <1>7, <2>1 DEF InProgress
  <2>2. CASE i \in 1..Len(stack)
    <3>1. /\ stack'[i] = stack[i] /\ stack[i].file \in File /\ stack[i].file # f
      BY <1>7, <1>8, <2>2
    <3>2. \A d \in File : type[d] # "CACHE_DYN" => type'[d] # "CACHE_DYN"
      BY <1>2
    <3> QED BY <1>1, <1>2, <2>2, <3>1, <3>2 DEF StackInv, InProgress
  <2> QED BY <1>1, <1>7, <2>1, <2>2
<1>11. StackInv'
  BY <1>2, <1>9, <1>10 DEF StackInv, InProgress
<1> QED BY <1>5, <1>6, <1>11

(* A call returns, with a type for its file.                               *)
LEMMA ReturnFacts ==
  ASSUME GatherInv, TraceFails \/ GatherFails \/ GatherDone
  PROVE  /\ pc = "gather" /\ pc' \in {"gather", "exit"} /\ stack # << >> /\ Top.file \in File
         /\ \E ok \in BOOLEAN : Return(ok)
         /\ \A g \in File : g # Top.file =>
              type'[g] = type[g] /\ done'[g] = done[g] /\ deps'[g] = deps[g]
         /\ InProgress(Top.file) /\ ~ Gathered(Top.file) /\ done[Top.file] = 0 /\ Top.file \in known
         /\ UNCHANGED <<disk, needs, ver, known, stamp, slot, rewritten, mode, todo>>
         /\ Top.file \in Lib => type'[Top.file] \in {"BAD", "UNPRELINKABLE", "DYN"}
         /\ Top.file \in Exe => type'[Top.file] \in {"NONE", "UNPRELINKABLE", "EXEC"}
<1>t. /\ EntriesType /\ EntryInv /\ StackInv /\ stack \in Seq(Frames)
  BY DEF GatherInv, TypeInv, LoopType
<1>1. /\ pc = "gather" /\ stack # << >> /\ \E ok \in BOOLEAN : Return(ok)
      /\ UNCHANGED <<disk, needs, ver, known, stamp, slot, rewritten, mode, todo>>
  BY DEF TraceFails, GatherFails, GatherDone, fs
<1>2. Len(stack) \in 1..Len(stack) /\ Top = stack[Len(stack)] /\ Top.file \in File
  BY <1>t, <1>1, TopFacts
<1>3. InProgress(Top.file) /\ Top.file \in known
  BY <1>t, <1>2 DEF StackInv
<1>4. done[Top.file] = 0 /\ ~ Gathered(Top.file)
  BY <1>t, <1>1, <1>2, <1>3 DEF EntryInv, InProgress, Gathered
<1>5. pc' \in {"gather", "exit"}
  BY <1>1 DEF Return
<1>x. Top.file \notin Lib \/ Top.file \notin Exe
  BY ConstantFacts
<1>6. CASE TraceFails
  <2>1. PICK t \in {"UNPRELINKABLE", type[Top.file]} : type' = [type EXCEPT ![Top.file] = t]
    BY <1>6 DEF TraceFails
  <2>2. done' = done /\ deps' = deps
    BY <1>6 DEF TraceFails
  <2>3. type'[Top.file] = t /\ \A g \in File : g # Top.file => type'[g] = type[g]
    BY <1>t, <1>2, <2>1 DEF EntriesType
  <2> QED BY <1>1, <1>2, <1>3, <1>4, <1>5, <1>x, <2>2, <2>3 DEF InProgress
<1>7. CASE GatherFails
  <2>1. type' = type /\ done' = done /\ deps' = [deps EXCEPT ![Top.file] = {}]
    BY <1>7 DEF GatherFails
  <2> QED BY <1>t, <1>1, <1>2, <1>3, <1>4, <1>5, <1>x, <2>1 DEF InProgress, EntriesType
<1>8. CASE GatherDone
  <2>1. /\ deps' = deps
        /\ \/ type' = [type EXCEPT ![Top.file] = "UNPRELINKABLE"] /\ done' = done
           \/ /\ type' = [type EXCEPT ![Top.file] = IF Top.file \in Lib THEN "DYN" ELSE "EXEC"]
              /\ \/ done' = [done EXCEPT ![Top.file] = 2]
                 \/ done' = [done EXCEPT ![Top.file] = 0]
    BY <1>8 DEF GatherDone
  <2>2. \A g \in File : g # Top.file => type'[g] = type[g] /\ done'[g] = done[g]
    BY <1>t, <1>2, <2>1 DEF EntriesType
  <2>3. type'[Top.file] \in {"UNPRELINKABLE", IF Top.file \in Lib THEN "DYN" ELSE "EXEC"}
    BY <1>t, <1>2, <2>1 DEF EntriesType
  <2> QED BY <1>1, <1>2, <1>3, <1>4, <1>5, <1>x, <2>1, <2>2, <2>3
<1> QED BY <1>6, <1>7, <1>8

LEMMA ReturnStack ==
  ASSUME GatherInv, TraceFails \/ GatherFails \/ GatherDone
  PROVE  StackInv'
<1>1. /\ stack \in Seq(Frames) /\ stack # << >> /\ Len(stack) \in Nat /\ StackInv
      /\ needs \in [File -> SUBSET Lib] /\ Lib \subseteq File
  BY ReturnFacts, ConstantFacts DEF GatherInv, TypeInv, LoopType, FilesType
<1>2. /\ Len(stack) \in 1..Len(stack) /\ Top = stack[Len(stack)]
  BY <1>1, TopFacts
<1>3. /\ Len(stack') = Len(stack) - 1
      /\ \A i \in 1..Len(stack') :
           /\ stack'[i].file = stack[i].file
           /\ stack'[i].traced = stack[i].traced /\ stack'[i].cached = stack[i].cached
  BY <1>1, ReturnFacts, PopFacts
<1>4. ASSUME NEW i \in 1..Len(stack')
      PROVE  i \in 1..Len(stack) /\ stack[i].file # Top.file /\ stack[i].file \in File
  <2>1. i \in 1..Len(stack) /\ i # Len(stack)
    BY <1>1, <1>3
  <2>2. stack[i] \in Frames
    BY <1>1, <2>1
  <2> QED BY <1>1, <1>2, <2>1, <2>2 DEF StackInv, Frames
<1>5. \A d \in Lib : type[d] # "CACHE_DYN" => type'[d] # "CACHE_DYN"
  BY ReturnFacts, ConstantFacts
<1>6. /\ \A g \in File : g # Top.file => type'[g] = type[g] /\ deps'[g] = deps[g]
      /\ needs' = needs /\ known' = known
  BY ReturnFacts
<1>7. ASSUME NEW i \in 1..Len(stack'), NEW k \in 1..Len(stack'), stack'[i].file = stack'[k].file
      PROVE  i = k
  BY <1>1, <1>3, <1>4, <1>7 DEF StackInv
<1>8. ASSUME NEW i \in 1..Len(stack')
      PROVE  /\ stack'[i].file \in known
             /\ type'[stack'[i].file] = IF stack'[i].file \in Lib THEN "BAD" ELSE "NONE"
             /\ stack'[i].traced =>
                  /\ deps'[stack'[i].file] = needs[stack'[i].file]
                  /\ stack'[i].cached \subseteq needs[stack'[i].file]
                  /\ needs[stack'[i].file] \subseteq known
                  /\ \A d \in needs[stack'[i].file] : type'[d] # "CACHE_DYN"
  <2> DEFINE g == stack[i].file
  <2>1. /\ i \in 1..Len(stack) /\ g \in File /\ g # Top.file /\ stack'[i].file = g
        /\ stack'[i].traced = stack[i].traced /\ stack'[i].cached = stack[i].cached
    BY <1>3, <1>4
  <2>2. /\ g \in known /\ InProgress(g)
        /\ stack[i].traced => /\ deps[g] = needs[g] /\ stack[i].cached \subseteq needs[g]
                              /\ needs[g] \subseteq known
                              /\ \A d \in needs[g] : type[d] # "CACHE_DYN"
    BY <1>1, <2>1 DEF StackInv
  <2> HIDE DEF g
  <2>3. type'[g] = type[g] /\ deps'[g] = deps[g] /\ needs[g] \subseteq Lib
    BY <1>1, <1>6, <2>1
  <2> QED BY <1>5, <2>1, <2>2, <2>3 DEF InProgress
<1> QED BY <1>6, <1>7, <1>8 DEF StackInv, InProgress

LEMMA ReturnEntries ==
  ASSUME GatherInv, TraceFails \/ GatherFails \/ GatherDone
  PROVE  EntryInv' /\ DepsInv'
<1>0. PICK f \in File : f = Top.file
  BY ReturnFacts
<1>1. /\ pc = "gather" /\ pc' \in {"gather", "exit"} /\ stack # << >> /\ f \in File
      /\ \A g \in File : g # f => type'[g] = type[g] /\ done'[g] = done[g] /\ deps'[g] = deps[g]
      /\ InProgress(f) /\ ~ Gathered(f) /\ done[f] = 0 /\ f \in known
      /\ UNCHANGED <<needs, known, rewritten, mode, todo>>
      /\ f \in Lib => type'[f] \in {"BAD", "UNPRELINKABLE", "DYN"}
      /\ f \in Exe => type'[f] \in {"NONE", "UNPRELINKABLE", "EXEC"}
  BY <1>0, ReturnFacts
<1>2. /\ EntriesType /\ EntryInv /\ StackInv /\ DepsInv /\ stack \in Seq(Frames)
      /\ needs \in [File -> SUBSET Lib] /\ Lib \subseteq File
      /\ f \in Lib \/ f \in Exe
  BY <1>1, ConstantFacts DEF GatherInv, TypeInv, LoopType, FilesType
<1>3. \/ done'[f] = 0 /\ type'[f] \notin {"DYN", "EXEC"}
      \/ done'[f] \in {0, 2} /\ type'[f] \in {"DYN", "EXEC"} /\ GatherDone
  <2>1. CASE TraceFails \/ GatherFails
    BY <1>0, <1>1, <1>2, <2>1 DEF TraceFails, GatherFails, InProgress, EntriesType
  <2>2. CASE GatherDone
    <3>1. \/ type' = [type EXCEPT ![f] = "UNPRELINKABLE"] /\ done' = done
          \/ /\ type' = [type EXCEPT ![f] = IF f \in Lib THEN "DYN" ELSE "EXEC"]
             /\ \/ done' = [done EXCEPT ![f] = 2]
                \/ done' = [done EXCEPT ![f] = 0]
      BY <1>0, <2>2 DEF GatherDone
    <3> QED BY <1>1, <1>2, <2>2, <3>1 DEF EntriesType
  <2> QED BY <2>1, <2>2
<1>4. EntryInv'
  <2>1. ASSUME NEW g \in File
        PROVE  /\ type'[g] \in {"DYN", "CACHE_DYN"} => g \in Lib
               /\ type'[g] \in {"EXEC", "CACHE_EXEC"} => g \in Exe
               /\ type'[g] # "NONE" => g \in known
               /\ type'[g] \in {"NONE", "UNPRELINKABLE"} => done'[g] = 0
               /\ type'[g] \in {"CACHE_DYN", "CACHE_EXEC"} => done'[g] = 0
               /\ type'[g] = "BAD" => done'[g] = 0
               /\ done'[g] # 1
    <3>1. CASE g = f
      BY <1>1, <1>2, <1>3, <3>1, ConstantFacts
    <3>2. CASE g # f
      BY <1>1, <1>2, <3>2 DEF EntryInv
    <3> QED BY <3>1, <3>2
  <2> QED BY <1>1, <1>2, <2>1 DEF EntryInv
<1>5. \A g \in File : g # f => (Gathered(g)' <=> Gathered(g))
  BY <1>1 DEF Gathered
<1>6. f \in Lib => type'[f] \notin {"NONE", "CACHE_DYN"}
  BY <1>1
<1>d. \A g \in File : Gathered(g) =>
        /\ deps[g] = needs[g] /\ needs[g] \subseteq known
        /\ \A d \in needs[g] : /\ d \in File /\ d \in Lib
                               /\ type[d] \notin {"NONE", "CACHE_DYN"}
                               /\ Gathered(d) => g \notin needs[d]
  BY <1>2 DEF DepsInv
<1>7. CASE ~ Gathered(f)'
  <2>1. ASSUME NEW g \in File, Gathered(g)'
        PROVE  /\ deps'[g] = needs[g] /\ needs[g] \subseteq known
               /\ \A d \in needs[g] : /\ type'[d] \notin {"NONE", "CACHE_DYN"}
                                      /\ Gathered(d)' => g \notin needs[d]
    <3>1. g # f /\ Gathered(g)
      BY <1>5, <1>7, <2>1
    <3> QED BY <1>1, <1>d, <1>5, <1>6, <1>7, <3>1
  <2> QED BY <1>1, <1>4, <2>1 DEF DepsInv
<1>8. CASE Gathered(f)'
  <2>1. GatherDone
    BY <1>3, <1>8 DEF Gathered
  <2>2. Pending = {} /\ ~ Top.failing /\ ~ Cycle(f) /\ Top.traced /\ deps' = deps
    BY <1>0, <2>1 DEF GatherDone
  <2>3. /\ deps[f] = needs[f] /\ needs[f] \subseteq known
        /\ \A d \in needs[f] : type[d] # "CACHE_DYN"
    <3>1. Len(stack) \in 1..Len(stack) /\ Top = stack[Len(stack)]
      BY <1>1, <1>2, TopFacts
    <3> QED BY <1>0, <1>2, <2>2, <3>1 DEF StackInv
  <2>4. \A d \in needs[f] : type[d] # "NONE"
    BY <1>0, <2>2, <2>3 DEF Pending
  <2>5. \A d \in needs[f] : f \notin deps[d]
    BY <2>2, <2>3 DEF Cycle
  <2>6. f \notin needs[f]
    BY <2>3, <2>5
  <2>7. \A d \in needs[f] : d \in File /\ d # f
    BY <1>1, <1>2, <2>6
  <2>8. \A d \in needs[f] : Gathered(d)' => f \notin needs[d]
    BY <1>2, <1>5, <2>5, <2>7 DEF DepsInv
  <2>9. \A g \in File : g # f /\ Gathered(g)' /\ f \in needs[g] => g \notin needs[f]
    BY <1>2, <1>5, <2>5 DEF DepsInv
  <2>10. ASSUME NEW g \in File, Gathered(g)'
         PROVE  /\ deps'[g] = needs[g] /\ needs[g] \subseteq known
                /\ \A d \in needs[g] : /\ type'[d] \notin {"NONE", "CACHE_DYN"}
                                       /\ Gathered(d)' => g \notin needs[d]
    <3>1. CASE g = f
      BY <1>1, <2>2, <2>3, <2>4, <2>7, <2>8, <3>1
    <3>2. CASE g # f
      <4>1. Gathered(g)
        BY <1>5, <2>10, <3>2
      <4>2. /\ deps[g] = needs[g] /\ needs[g] \subseteq known
            /\ \A d \in needs[g] : type[d] \notin {"NONE", "CACHE_DYN"} /\ (Gathered(d) => g \notin needs[d])
        BY <1>2, <4>1 DEF DepsInv
      <4>3. \A d \in needs[g] : d \in File /\ d \in Lib
        BY <1>2
      <4> QED BY <1>1, <1>5, <1>6, <2>2, <2>9, <2>10, <3>2, <4>2, <4>3
    <3> QED BY <3>1, <3>2
  <2> QED BY <1>1, <1>4, <2>10 DEF DepsInv
<1> QED BY <1>4, <1>7, <1>8

(* ld.so lists the dependencies of the file on top.                        *)
LEMMA TraceInv ==
  ASSUME GatherInv, Trace
  PROVE  EntryInv' /\ StackInv' /\ DepsInv'
<1>1. /\ EntriesType /\ EntryInv /\ StackInv /\ DepsInv /\ FilesType /\ TypeInv
      /\ stack \in Seq(Frames) /\ needs \in [File -> SUBSET Lib] /\ Lib \subseteq File
  BY ConstantFacts DEF GatherInv, TypeInv, LoopType, FilesType
<1>2. stack # << >> /\ pc = "gather"
  BY DEF Trace
<1>3. Len(stack) \in 1..Len(stack) /\ Top = stack[Len(stack)] /\ Top.file \in File
  BY <1>1, <1>2, TopFacts
<1>4. PICK f \in File : f = Top.file
  BY <1>3
<1>5. f \in known /\ InProgress(f) /\ done[f] = 0 /\ ~ Gathered(f)
  BY <1>1, <1>2, <1>3, <1>4 DEF StackInv, InProgress, EntryInv, Gathered
<1>6. /\ \A x \in File : type'[x] = IF x \in needs[f] /\ type[x] = "CACHE_DYN" THEN "NONE" ELSE type[x]
      /\ \A x \in File : x # f /\ type[x] # "CACHE_DYN" => deps'[x] = deps[x]
      /\ deps'[f] = needs[f]
      /\ Know(needs[f])
      /\ UNCHANGED <<needs, done, rewritten, todo, pc>>
  BY <1>4 DEF Trace, fs
<1>7. known' = known \union needs[f]
  BY <1>6 DEF Know
<1>8. EntryInv'
  <2>1. ASSUME NEW g \in File
        PROVE  /\ type'[g] \in {"DYN", "CACHE_DYN"} => g \in Lib
               /\ type'[g] \in {"EXEC", "CACHE_EXEC"} => g \in Exe
               /\ type'[g] # "NONE" => g \in known'
               /\ type'[g] \in {"NONE", "UNPRELINKABLE", "BAD", "CACHE_DYN", "CACHE_EXEC"}
                    => done'[g] = 0
               /\ done'[g] # 1
    BY <1>1, <1>2, <1>6, <1>7 DEF EntryInv
  <2> QED BY <1>1, <1>2, <1>6, <2>1 DEF EntryInv
<1>9. \A g \in File : Gathered(g)' <=> Gathered(g)
  BY <1>1, <1>2, <1>6 DEF Gathered, EntryInv
<1>10. DepsInv'
  <2>1. ASSUME NEW g \in File, Gathered(g)'
        PROVE  /\ deps'[g] = needs[g] /\ needs[g] \subseteq known'
               /\ \A d \in needs[g] : /\ type'[d] \notin {"NONE", "CACHE_DYN"}
                                      /\ Gathered(d)' => g \notin needs[d]
    <3>1. Gathered(g) /\ g # f
      BY <1>5, <1>9, <2>1
    <3>2. /\ deps[g] = needs[g] /\ needs[g] \subseteq known
          /\ \A d \in needs[g] : /\ d \in File /\ type[d] \notin {"NONE", "CACHE_DYN"}
                                 /\ Gathered(d) => g \notin needs[d]
      BY <1>1, <3>1 DEF DepsInv
    <3>3. type[g] # "CACHE_DYN"
      BY <3>1 DEF Gathered
    <3> QED BY <1>6, <1>7, <1>9, <3>1, <3>2, <3>3
  <2> QED BY <1>6, <2>1 DEF DepsInv
<1>11. /\ Len(stack') = Len(stack)
       /\ \A i \in 1..Len(stack) :
            /\ stack'[i].file = stack[i].file
            /\ i # Len(stack) => stack'[i] = stack[i]
            /\ i = Len(stack) => stack'[i].traced = TRUE /\ stack'[i].cached \subseteq needs[f]
  BY <1>1, <1>4, TraceFacts
<1>12. ASSUME NEW i \in 1..Len(stack)
       PROVE  /\ stack'[i].file \in known'
              /\ type'[stack'[i].file] = IF stack'[i].file \in Lib THEN "BAD" ELSE "NONE"
              /\ stack'[i].traced =>
                   /\ deps'[stack'[i].file] = needs[stack'[i].file]
                   /\ stack'[i].cached \subseteq needs[stack'[i].file]
                   /\ needs[stack'[i].file] \subseteq known'
                   /\ \A d \in needs[stack'[i].file] : type'[d] # "CACHE_DYN"
  <2>0. PICK g \in File : g = stack[i].file
    <3>1. stack[i] \in Frames
      BY <1>1
    <3> QED BY <3>1 DEF Frames
  <2>1. /\ stack'[i].file = g /\ g \in known /\ InProgress(g)
    BY <1>1, <1>11, <2>0 DEF StackInv
  <2>2. type'[g] = type[g] /\ type[g] # "CACHE_DYN"
    BY <1>6, <2>1 DEF InProgress
  <2>3. CASE i = Len(stack)
    <3>1. g = f
      BY <1>3, <1>4, <2>0, <2>3
    <3>2. \A d \in needs[f] : d \in File /\ type'[d] # "CACHE_DYN"
      BY <1>1, <1>6
    <3> QED BY <1>6, <1>7, <1>11, <2>1, <2>2, <2>3, <3>1, <3>2 DEF InProgress
  <2>4. CASE i # Len(stack)
    <3>1. g # f
      BY <1>1, <1>3, <1>4, <2>0, <2>4 DEF StackInv
    <3>2. stack'[i] = stack[i]
      BY <1>11, <2>4
    <3>3. deps'[g] = deps[g] /\ needs[g] \subseteq File
      BY <1>1, <1>6, <2>2, <3>1
    <3>4. stack[i].traced => /\ deps[g] = needs[g] /\ stack[i].cached \subseteq needs[g]
                             /\ needs[g] \subseteq known
                             /\ \A d \in needs[g] : type[d] # "CACHE_DYN"
      BY <1>1, <2>0 DEF StackInv
    <3>5. \A d \in File : type[d] # "CACHE_DYN" => type'[d] # "CACHE_DYN"
      BY <1>6
    <3> QED BY <1>7, <2>1, <2>2, <3>2, <3>3, <3>4, <3>5 DEF InProgress
  <2> QED BY <2>3, <2>4
<1>13. StackInv'
  BY <1>1, <1>6, <1>11, <1>12 DEF StackInv, InProgress
<1> QED BY <1>8, <1>10, <1>13

(* The other steps only take files out of what is gathered.                *)
LEMMA Fewer ==
  ASSUME GatherInv, stack' = << >>, needs' = needs, known \subseteq known',
         \A g \in File : Gathered(g)' => Gathered(g) /\ deps'[g] = deps[g],
         \A d \in Lib : type[d] \notin {"NONE", "CACHE_DYN"} => type'[d] \notin {"NONE", "CACHE_DYN"}
  PROVE  StackInv' /\ DepsInv'
<1>1. needs \in [File -> SUBSET Lib] /\ Lib \subseteq File /\ DepsInv
  BY ConstantFacts DEF GatherInv, TypeInv, FilesType
<1>2. StackInv'
  BY DEF StackInv
<1>3. ASSUME NEW g \in File, Gathered(g)'
      PROVE  /\ deps'[g] = needs[g] /\ needs[g] \subseteq known'
             /\ \A d \in needs[g] : /\ type'[d] \notin {"NONE", "CACHE_DYN"}
                                    /\ Gathered(d)' => g \notin needs[d]
  <2>1. Gathered(g) /\ deps'[g] = deps[g]
    BY <1>3
  <2>2. /\ deps[g] = needs[g] /\ needs[g] \subseteq known
        /\ \A d \in needs[g] : /\ d \in File /\ d \in Lib /\ type[d] \notin {"NONE", "CACHE_DYN"}
                               /\ Gathered(d) => g \notin needs[d]
    BY <1>1, <2>1 DEF DepsInv
  <2> QED BY <2>1, <2>2
<1> QED BY <1>2, <1>3 DEF DepsInv

(* Outside gathering there are no calls.                                   *)
LEMMA NoCalls == ASSUME GatherInv, pc # "gather" PROVE stack = << >>
  BY DEF GatherInv, TypeInv, LoopType

LEMMA LoadTypes ==
  ASSUME TypeInv, LoadCache
  PROVE  \A g \in File :
           \/ type'[g] = type[g] /\ deps'[g] = deps[g]
           \/ /\ g \in DOMAIN cache /\ type[g] = "NONE"
              /\ type'[g] \in {"NONE", "UNPRELINKABLE", "CACHE_EXEC", "CACHE_DYN"}
              /\ type'[g] = "CACHE_DYN" => g \in Lib
              /\ type'[g] = "CACHE_EXEC" => g \in Exe
<1>1. \A g \in File : /\ LoadedType(g) \in {"NONE", "UNPRELINKABLE", "CACHE_EXEC", "CACHE_DYN"}
                      /\ LoadedType(g) = "CACHE_DYN" => g \in Lib
                      /\ LoadedType(g) = "CACHE_EXEC" => g \in Exe
  BY ConstantFacts DEF LoadedType
<1>2. \A g \in File :
        \/ type'[g] = type[g] /\ deps'[g] = deps[g]
        \/ g \in DOMAIN cache /\ type[g] = "NONE" /\ type'[g] = LoadedType(g)
  BY DEF LoadCache
<1> QED BY <1>1, <1>2

LEMMA LoadInv ==
  ASSUME GatherInv, LoadCache
  PROVE  EntryInv' /\ StackInv' /\ DepsInv'
<1>1. /\ EntriesType /\ EntryInv /\ FilesType /\ TypeInv
  BY DEF GatherInv, TypeInv
<1>2. /\ pc \in {"load", "load_rest"} /\ Know(DOMAIN cache)
      /\ pc' = (IF pc = "load" THEN "trust" ELSE "layout")
      /\ UNCHANGED <<needs, done, rewritten, stack>>
  BY DEF LoadCache, fs
<1>3. known' = known \union DOMAIN cache /\ stack' = << >>
  BY <1>2, NoCalls DEF Know
<1>4. ASSUME NEW g \in File
      PROVE  /\ type'[g] \in {"DYN", "CACHE_DYN"} => g \in Lib
             /\ type'[g] \in {"EXEC", "CACHE_EXEC"} => g \in Exe
             /\ type'[g] # "NONE" => g \in known'
             /\ type'[g] \in {"NONE", "UNPRELINKABLE", "CACHE_DYN", "CACHE_EXEC"} => done'[g] = 0
             /\ done'[g] # 1
             /\ Gathered(g)' => Gathered(g) /\ deps'[g] = deps[g]
             /\ type[g] # "NONE" => type'[g] = type[g]
  <2>1. CASE type'[g] = type[g] /\ deps'[g] = deps[g]
    <3>1. Gathered(g)' => Gathered(g)
      BY <1>2, <2>1 DEF Gathered
    <3> QED BY <1>1, <1>2, <1>3, <2>1, <3>1 DEF EntryInv
  <2>2. CASE /\ g \in DOMAIN cache /\ type[g] = "NONE"
             /\ type'[g] \in {"NONE", "UNPRELINKABLE", "CACHE_EXEC", "CACHE_DYN"}
             /\ type'[g] = "CACHE_DYN" => g \in Lib
             /\ type'[g] = "CACHE_EXEC" => g \in Exe
    <3>1. ~ Gathered(g)'
      BY <2>2 DEF Gathered
    <3> QED BY <1>1, <1>2, <1>3, <2>2, <3>1 DEF EntryInv
  <2> QED BY <1>1, <2>1, <2>2, LoadTypes
<1>5. StackInv' /\ DepsInv'
  BY <1>2, <1>3, <1>4, Fewer, ConstantFacts
<1>6. pc = "load" => \A g \in File : ~ Gathered(g)'
  BY <1>1, <1>4 DEF EntryInv, Gathered
<1>7. EntryInv'
  BY <1>1, <1>2, <1>4, <1>6 DEF EntryInv
<1> QED BY <1>5, <1>7

LEMMA TrustInv ==
  ASSUME GatherInv, NEW f \in File, Trust(f)
  PROVE  EntryInv' /\ StackInv' /\ DepsInv'
<1>1. /\ EntriesType /\ EntryInv /\ type[f] \in Types
  BY DEF GatherInv, TypeInv, EntriesType
<1>2. /\ pc = "trust" /\ UNCHANGED <<needs, done, rewritten, stack, known, pc>>
  BY DEF Trust, fs
<1>3. /\ stack' = << >>
  BY <1>2, NoCalls
<1>4. /\ \A g \in File : g # f => type'[g] = type[g] /\ deps'[g] = deps[g]
      /\ type'[f] \in {"NONE", type[f]}
  BY <1>1 DEF Trust, EntriesType
<1>5. done[f] = 0
  BY <1>1, <1>2 DEF EntryInv, Gathered, Types
<1>6. \A g \in File : ~ Gathered(g) /\ ~ Gathered(g)'
  BY <1>1, <1>2, <1>4, <1>5 DEF EntryInv, Gathered
<1>7. EntryInv'
  <2>1. ASSUME NEW g \in File
        PROVE  /\ type'[g] \in {"DYN", "CACHE_DYN"} => g \in Lib
               /\ type'[g] \in {"EXEC", "CACHE_EXEC"} => g \in Exe
               /\ type'[g] # "NONE" => g \in known'
               /\ type'[g] \in {"NONE", "UNPRELINKABLE", "CACHE_DYN", "CACHE_EXEC"} => done'[g] = 0
               /\ done'[g] # 1
    BY <1>1, <1>2, <1>4, <1>5 DEF EntryInv
  <2> QED BY <1>1, <1>2, <1>6, <2>1 DEF EntryInv
<1>8. StackInv'
  BY <1>3 DEF StackInv
<1> QED BY <1>6, <1>7, <1>8 DEF DepsInv

LEMMA CheckLibsInv ==
  ASSUME GatherInv, CheckLibs
  PROVE  EntryInv' /\ StackInv' /\ DepsInv'
<1>1. /\ EntriesType /\ EntryInv
  BY DEF GatherInv, TypeInv
<1>2. /\ pc = "gather" /\ stack' = << >> /\ pc' \in {"undo", "layout", "load_rest"}
      /\ UNCHANGED <<needs, done, rewritten, known, deps>>
  BY DEF CheckLibs, fs
<1>3. \A g \in File : type'[g] = type[g] \/ (type[g] = "DYN" /\ type'[g] = "BAD")
  BY DEF CheckLibs
<1>4. \A g \in File : Gathered(g)' => Gathered(g)
  BY <1>2, <1>3 DEF Gathered
<1>5. StackInv' /\ DepsInv'
  BY <1>2, <1>3, <1>4, Fewer, ConstantFacts
<1>6. EntryInv'
  <2>1. ASSUME NEW g \in File
        PROVE  /\ type'[g] \in {"DYN", "CACHE_DYN"} => g \in Lib
               /\ type'[g] \in {"EXEC", "CACHE_EXEC"} => g \in Exe
               /\ type'[g] # "NONE" => g \in known'
               /\ type'[g] \in {"NONE", "UNPRELINKABLE", "CACHE_DYN", "CACHE_EXEC"} => done'[g] = 0
               /\ done'[g] # 1
    BY <1>1, <1>2, <1>3 DEF EntryInv
  <2> QED BY <1>1, <1>2, <2>1 DEF EntryInv
<1> QED BY <1>5, <1>6

(* What loses its slot is a library that is laid out; the others keep done *)
(* unless prelink is forced.                                               *)
LEMMA LayoutFacts ==
  ASSUME TypeInv, DoLayout
  PROVE  \A f \in File :
           \/ f \in Lib /\ type[f] \in {"DYN", "CACHE_DYN"} /\ done'[f] = 1
           \/ type[f] \in {"CACHE_DYN", "CACHE_EXEC"} /\ done'[f] = 2
           \/ type[f] \notin {"CACHE_DYN", "CACHE_EXEC"} /\ done'[f] \in {0, done[f]}
<1>1. PICK victims : done' = [f \in File |-> IF f \in Lost(victims) THEN 1 ELSE Found[f]]
  BY DEF DoLayout
<1>2. \A f \in Lost(victims) : f \in Lib /\ type[f] \in {"DYN", "CACHE_DYN"}
  BY DEF Lost, LayoutLibs
<1>3. \A f \in File : \/ type[f] \in {"CACHE_DYN", "CACHE_EXEC"} /\ Found[f] = 2
                      \/ type[f] \notin {"CACHE_DYN", "CACHE_EXEC"} /\ Found[f] \in {0, done[f]}
  BY DEF Found
<1> QED BY <1>1, <1>2, <1>3

LEMMA LayoutInv ==
  ASSUME GatherInv, DoLayout
  PROVE  EntryInv' /\ StackInv' /\ DepsInv'
<1>1. /\ EntriesType /\ EntryInv /\ TypeInv
  BY DEF GatherInv, TypeInv
<1>2. /\ pc = "layout" /\ pc' = "prelink" /\ UNCHANGED <<needs, type, rewritten, known, deps, stack>>
      /\ \A f \in todo' : type[f] \in {"DYN", "EXEC"}
  BY DEF DoLayout, fs
<1>3. stack' = << >>
  BY <1>2, NoCalls
<1>4. \A g \in File : Gathered(g)' => Gathered(g)
  BY <1>1, <1>2, LayoutFacts DEF Gathered
<1>5. StackInv' /\ DepsInv'
  BY <1>2, <1>3, <1>4, Fewer, ConstantFacts
<1>6. EntryInv'
  BY <1>1, <1>2, LayoutFacts DEF EntryInv
<1> QED BY <1>5, <1>6

LEMMA RefusedInv ==
  ASSUME GatherInv, NEW f \in File, PrelinkRefused(f) \/ PrelinkChanged(f) \/ PrelinkFails(f)
  PROVE  EntryInv' /\ StackInv' /\ DepsInv'
<1>1. /\ EntriesType /\ EntryInv
  BY DEF GatherInv, TypeInv
<1>2. /\ pc = "prelink" /\ f \in todo /\ UNCHANGED <<needs, rewritten, known, deps, stack, pc>>
      /\ \E t \in {"UNPRELINKABLE", type[f]} : Refused(f, t)
  BY DEF PrelinkRefused, PrelinkChanged, PrelinkFails, Ready, fs
<1>3. /\ stack' = << >> /\ type[f] \in {"DYN", "EXEC"}
  BY <1>1, <1>2, NoCalls DEF EntryInv
<1>4. /\ done' = [done EXCEPT ![f] = 0] /\ todo' = todo \ {f}
      /\ \E t \in {"UNPRELINKABLE", type[f]} : type' = [type EXCEPT ![f] = t]
  BY <1>2 DEF Refused
<1>5. /\ \A g \in File : g # f => type'[g] = type[g] /\ done'[g] = done[g]
      /\ type'[f] \in {"UNPRELINKABLE", type[f]} /\ done'[f] = 0
  BY <1>1, <1>4 DEF EntriesType
<1>6. \A g \in File : Gathered(g)' => Gathered(g)
  BY <1>3, <1>5 DEF Gathered
<1>7. StackInv' /\ DepsInv'
  BY <1>2, <1>3, <1>5, <1>6, Fewer, ConstantFacts
<1>8. EntryInv'
  <2>1. ASSUME NEW g \in File
        PROVE  /\ type'[g] \in {"DYN", "CACHE_DYN"} => g \in Lib
               /\ type'[g] \in {"EXEC", "CACHE_EXEC"} => g \in Exe
               /\ type'[g] # "NONE" => g \in known'
               /\ type'[g] \in {"NONE", "UNPRELINKABLE"} => done'[g] = 0
               /\ g \in todo' => type'[g] \in {"DYN", "EXEC"}
    BY <1>1, <1>2, <1>3, <1>4, <1>5 DEF EntryInv
  <2>2. todo' \subseteq File
    BY <1>4 DEF GatherInv, TypeInv, LoopType
  <2> QED BY <1>1, <1>2, <2>1, <2>2 DEF EntryInv
<1> QED BY <1>7, <1>8

LEMMA PrelinkEntInv ==
  ASSUME GatherInv, NEW f \in File, PrelinkEnt(f)
  PROVE  EntryInv' /\ StackInv' /\ DepsInv'
<1>1. /\ EntriesType /\ EntryInv
  BY DEF GatherInv, TypeInv
<1>2. /\ pc = "prelink" /\ pc' = "stat" /\ f \in todo
      /\ UNCHANGED <<needs, known, type, deps, stack, todo>>
      /\ done' = [done EXCEPT ![f] = 2]
  BY DEF PrelinkEnt, Ready
<1>3. /\ stack' = << >> /\ type[f] \in {"DYN", "EXEC"}
  BY <1>1, <1>2, NoCalls DEF EntryInv
<1>5. \A g \in File : g # f => done'[g] = done[g]
  BY <1>1, <1>2 DEF EntriesType
<1>6. \A g \in File : Gathered(g)' => Gathered(g)
  BY <1>2, <1>3, <1>5 DEF Gathered
<1>7. StackInv' /\ DepsInv'
  BY <1>2, <1>3, <1>6, Fewer, ConstantFacts
<1>8. EntryInv'
  BY <1>1, <1>2, <1>3, <1>5 DEF EntryInv
<1> QED BY <1>7, <1>8

LEMMA StatEntInv ==
  ASSUME GatherInv, NEW f \in File, StatEnt(f)
  PROVE  EntryInv' /\ StackInv' /\ DepsInv'
<1>1. /\ EntriesType /\ EntryInv
  BY DEF GatherInv, TypeInv
<1>2. /\ pc = "stat" /\ pc' = "prelink" /\ todo' = todo \ {f}
      /\ UNCHANGED <<needs, known, type, done, deps, stack, rewritten>>
  BY DEF StatEnt, Statting, fs
<1>3. stack' = << >>
  BY <1>2, NoCalls
<1>4. \A g \in File : Gathered(g)' => Gathered(g)
  BY <1>2 DEF Gathered
<1>5. StackInv' /\ DepsInv'
  BY <1>2, <1>3, <1>4, Fewer, ConstantFacts
<1>6. EntryInv'
  BY <1>1, <1>2 DEF EntryInv
<1> QED BY <1>5, <1>6

LEMMA StartInv ==
  ASSUME GatherInv, NEW m \in Modes, Start(m)
  PROVE  EntryInv' /\ StackInv' /\ DepsInv'
<1>1. EntryInv /\ m.banned \in SUBSET File
  BY ConstantFacts DEF GatherInv
<1>2. /\ pc = "idle" /\ pc' \in {"load", "gather"} /\ UNCHANGED <<needs, done, deps, stack, rewritten>>
      /\ \A f \in File : type'[f] = IF f \in m.banned THEN "BAD" ELSE "NONE"
      /\ known' = known \union m.banned
  BY DEF Start, fs, Know
<1>3. stack' = << >>
  BY <1>2, NoCalls
<1>4. \A f \in File : type[f] = "NONE" /\ done'[f] = 0 /\ ~ Gathered(f)'
  BY <1>1, <1>2 DEF EntryInv, Gathered
<1>5. StackInv' /\ DepsInv'
  BY <1>2, <1>3, <1>4, Fewer, ConstantFacts
<1>6. EntryInv'
  BY <1>1, <1>2, <1>4 DEF EntryInv
<1> QED BY <1>5, <1>6

(* The steps that leave the entries alone.                                 *)
LEMMA SameKinds ==
  ASSUME [Next]_vars, UNCHANGED <<entries, stack>>, ~ End
  PROVE  \/ pc' = pc /\ todo' \subseteq todo
         \/ pc = "trust" /\ pc' = "gather"
         \/ pc = "prelink" /\ pc' = "aborted"
         \/ /\ pc = "stat" /\ pc' = "prelink" /\ todo' \subseteq todo
            /\ \E f \in File : Statting(f) /\ todo' = todo \ {f}
         \/ (\E m \in Modes : Start(m)) \/ (\E f \in File : PrelinkEnt(f))
         \/ LoadCache \/ CheckLibs \/ DoLayout \/ TraceFails \/ GatherFails \/ GatherDone
<1>1. CASE Gather
  BY <1>1 DEF Gather, Explore, Descend, Trace, Exit
<1>2. CASE Prelink
  BY <1>2 DEF Prelink, PrelinkRefused, PrelinkChanged, PrelinkFails, Refused, StatEnt, StatFails,
              Statting, UndoOne, UndoFails, UndoEnd, SaveCache, SaveFails, Abort, SaveReady
<1>3. CASE ~ Gather /\ ~ Prelink
  BY <1>3 DEF Next, TrustEnd, Trust, NoSlot, Crash, Upgrade, Terminating, vars
<1> QED BY <1>1, <1>2, <1>3

LEMMA GatherInvInductive == GatherInv /\ [Next]_vars => GatherInv'
<1>s. SUFFICES ASSUME GatherInv, [Next]_vars PROVE EntryInv' /\ StackInv' /\ DepsInv'
  BY TypeInvInductive DEF GatherInv
<1>t. TypeInv /\ EntryInv /\ StackInv /\ DepsInv /\ TypeInv' /\ needs' = needs
  BY <1>s, TypeInvInductive, NeedsUnchanged DEF GatherInv
<1>1. CASE End
  BY <1>1, EndFacts DEF EntryInv, StackInv, DepsInv, Gathered
<1>2. CASE UNCHANGED <<entries, stack>> /\ ~ End
  <2>1. ASSUME \/ pc' = pc /\ todo' \subseteq todo
               \/ pc = "trust" /\ pc' = "gather"
               \/ pc = "prelink" /\ pc' = "aborted"
               \/ pc = "stat" /\ pc' = "prelink" /\ todo' \subseteq todo
        PROVE  EntryInv' /\ StackInv' /\ DepsInv'
    <3>1. UNCHANGED <<type, done, deps, rewritten, known, stack>>
      BY <1>2 DEF entries
    <3>2. StackInv' /\ DepsInv'
      BY <1>t, <3>1 DEF StackInv, DepsInv, InProgress, Gathered
    <3>3. EntryInv'
      BY <1>t, <2>1, <3>1 DEF EntryInv, Gathered
    <3> QED BY <3>2, <3>3
  <2> QED BY <1>s, <1>2, <2>1, SameKinds, LoadInv, CheckLibsInv, LayoutInv, ReturnStack,
            ReturnEntries, StartInv, PrelinkEntInv
<1>3. CASE TraceFails \/ GatherFails \/ GatherDone
  BY <1>s, <1>3, ReturnStack, ReturnEntries
<1>4. ASSUME NEW f \in File, Explore(f) PROVE EntryInv' /\ StackInv' /\ DepsInv'
  <2>1. CASE Entered(f) /\ Enter(f, [type EXCEPT ![f] = "NONE"])
    BY <1>s, <1>t, <2>1, EnteredInv DEF TypeInv, LoopType
  <2>2. CASE UNCHANGED <<stack, type, deps, stamp, slot>>
    <3>1. /\ pc = "gather" /\ stack = << >> /\ UNCHANGED <<pc, needs, done, rewritten>>
          /\ known' = known \union {f}
      BY <1>s, <1>4, ExploreEnters DEF Know
    <3>2. StackInv'
      BY <2>2, <3>1 DEF StackInv
    <3>3. DepsInv' /\ EntryInv'
      BY <1>t, <2>2, <3>1 DEF DepsInv, EntryInv, Gathered
    <3> QED BY <3>2, <3>3
  <2> QED BY <1>s, <1>4, <2>1, <2>2, ExploreEnters
<1>5. ASSUME NEW f \in File, Descend(f) PROVE EntryInv' /\ StackInv' /\ DepsInv'
  BY <1>s, <1>t, <1>5, DescendEnters, EnteredInv DEF TypeInv, LoopType
<1> QED BY <1>s, <1>1, <1>2, <1>3, <1>4, <1>5, StepKinds, LoadInv, TraceInv, CheckLibsInv,
   LayoutInv, TrustInv, RefusedInv, PrelinkEntInv, StatEntInv, StartInv

-----------------------------------------------------------------------------
(* The variables have their types over any number of runs; no file is      *)
(* gathered while it is being gathered (gather_lib marks it before         *)
(* gather_deps recurs), so that the recursion ends however ld.so lists the *)
(* dependencies; and everything a cache entry depends on is in the cache.  *)
THEOREM TypeCorrect == Spec => []TypeOK
<1>1. GatherInv => TypeOK
  <2> SUFFICES ASSUME GatherInv PROVE TypeOK
    OBVIOUS
  <2>1. FilesType /\ EntriesType /\ todo \subseteq File /\ stack \in Seq(Frames) /\ StackInv
    BY DEF GatherInv, TypeInv, LoopType
  <2>2. \A f \in File : /\ {disk[f].ver, disk[f].slot, disk[f].stamp} \subseteq Nat
                        /\ DOMAIN disk[f].liblist \subseteq Lib
    <3> SUFFICES ASSUME NEW f \in File
                 PROVE  /\ {disk[f].ver, disk[f].slot, disk[f].stamp} \subseteq Nat
                        /\ DOMAIN disk[f].liblist \subseteq Lib
      OBVIOUS
    <3>1. disk[f] \in FileState
      BY <2>1 DEF FilesType
    <3>2. disk[f].liblist \in LibLists
      BY <3>1 DEF FileState
    <3>3. PICK S \in SUBSET Lib : disk[f].liblist \in [S -> Nat]
      BY <3>2 DEF LibLists
    <3> QED BY <3>1, <3>3 DEF FileState
  <2>3. \A i \in 1..Len(stack) : stack[i].file \in File
    <3>1. \A i \in 1..Len(stack) : stack[i] \in Frames
      BY <2>1
    <3> QED BY <3>1 DEF Frames
  <2> QED BY <2>1, <2>2, <2>3 DEF TypeOK, FilesType, EntriesType, StackInv
<1> QED BY <1>1, InitGatherInv, GatherInvInductive, PTL DEF Spec

(* No two gathered files depend on each other when they are laid out and   *)
(* prelinked, whatever ld.so lists, fails or is upgraded: gather_deps      *)
(* refuses the last file of a cycle that it finishes, and no later step    *)
(* gives a gathered file other dependencies.                               *)
THEOREM AcyclicHolds == Spec => []Acyclic
<1>1. GatherInv => Acyclic
  <2> SUFFICES ASSUME GatherInv, NEW f \in File, type[f] \in {"DYN", "EXEC"},
                      NEW d \in deps[f], type[d] = "DYN"
               PROVE  f \notin deps[d]
    BY DEF Acyclic
  <2>1. Gathered(f) /\ Gathered(d)
    BY DEF Gathered
  <2>2. needs \in [File -> SUBSET Lib] /\ Lib \subseteq File /\ DepsInv
    BY ConstantFacts DEF GatherInv, TypeInv, FilesType
  <2>3. deps[f] = needs[f] /\ d \in File /\ f \notin needs[d]
    BY <2>1, <2>2 DEF DepsInv
  <2>4. deps[d] = needs[d]
    BY <2>1, <2>2, <2>3 DEF DepsInv
  <2> QED BY <2>3, <2>4
<1> QED BY <1>1, InitGatherInv, GatherInvInductive, PTL DEF Spec

-----------------------------------------------------------------------------
(* Undoing.                                                                *)

(* What UndoInv says, without its premise.                                 *)
UndoKept ==
  /\ \A f \in known : Unaltered(f) \/ Bare(f)
  /\ \A i \in 1..Len(stack) :
       \/ Bare(stack[i].file)
       \/ /\ stamp[stack[i].file] = disk[stack[i].file].stamp
          /\ stack[i].liblist = disk[stack[i].file].liblist
  /\ \A f \in File : type[f] \in {"DYN", "EXEC"} =>
       \/ Bare(f)
       \/ IF pc = "undo" THEN f \in todo \/ failed ELSE done[f] = 2

(* With -u only these steps are possible.                                  *)
LEMMA UndoSteps ==
  ASSUME GatherInv, UndoInv, [Next]_vars, mode'.undo, pc' # "idle"
  PROVE  \/ \E m \in Modes : Start(m)
         \/ /\ mode' = mode /\ mode.undo /\ pc # "idle" /\ UndoKept
            /\ pc \notin {"load_rest", "layout", "prelink", "stat", "aborted"}
            /\ \/ LoadCache \/ Trace \/ TraceFails \/ GatherFails \/ GatherDone \/ CheckLibs
               \/ TrustEnd
               \/ \E f \in File : Trust(f) \/ Explore(f) \/ Descend(f) \/ UndoOne(f)
                                  \/ UndoFails(f) \/ Upgrade(f)
               \/ UNCHANGED vars
<1>1. CASE \E m \in Modes : Start(m)
  BY <1>1
<1>2. CASE pc = "idle" /\ ~ \E m \in Modes : Start(m)
  <2>1. ~ Gather
    BY <1>2 DEF Gather, Explore, Descend, Trace, TraceFails, GatherFails, GatherDone, CheckLibs,
                Exit, End
  <2>2. ~ Prelink
    BY <1>2 DEF Prelink, PrelinkRefused, PrelinkChanged, PrelinkFails, PrelinkEnt, Ready, StatEnt,
                StatFails, Statting, UndoOne, UndoFails, UndoEnd, SaveCache, SaveFails, Abort,
                SaveReady
  <2> QED BY <1>2, <2>1, <2>2
      DEF Next, LoadCache, Trust, TrustEnd, DoLayout, NoSlot, Upgrade, Crash, Terminating, vars
<1>3. CASE pc # "idle" /\ ~ \E m \in Modes : Start(m)
  <2>1. mode' = mode
    <3>1. CASE Gather
      BY <3>1 DEF Gather, Explore, Descend, Trace, TraceFails, GatherFails, GatherDone, CheckLibs,
                  Exit, End
    <3>2. CASE Prelink
      BY <3>2 DEF Prelink, PrelinkRefused, PrelinkChanged, PrelinkFails, PrelinkEnt, StatEnt,
                  StatFails, UndoOne, UndoFails, UndoEnd, SaveCache, SaveFails, Abort, End
    <3> QED BY <1>3, <3>1, <3>2
        DEF Next, LoadCache, Trust, TrustEnd, DoLayout, NoSlot, Upgrade, Crash, Terminating, End, vars
  <2>2. UndoKept /\ pc \notin {"load_rest", "layout", "prelink", "stat", "aborted"}
    BY <1>3, <2>1 DEF UndoInv, UndoKept
  <2>3. Gather => \/ Trace \/ TraceFails \/ GatherFails \/ GatherDone \/ CheckLibs
                  \/ \E f \in File : Explore(f) \/ Descend(f)
    BY DEF Gather, Exit, End
  <2>4. Prelink => \E f \in File : UndoOne(f) \/ UndoFails(f)
    BY <2>2 DEF Prelink, PrelinkRefused, PrelinkChanged, PrelinkFails, PrelinkEnt, Ready,
                StatEnt, StatFails, Statting, UndoEnd, SaveCache, SaveFails, Abort, SaveReady, End
  <2> QED BY <1>3, <2>1, <2>2, <2>3, <2>4
      DEF Next, DoLayout, NoSlot, Crash, End, Terminating
<1> QED BY <1>1, <1>2, <1>3

(* A file that changes is not prelinked any more.                          *)
LEMMA FreshIsBare ==
  ASSUME FilesType, NEW f \in File, NEW v, disk' = [disk EXCEPT ![f] = Fresh(v)]
  PROVE  Bare(f)' /\ \A g \in File : g # f => disk'[g] = disk[g]
  BY DEF FilesType, Bare, Fresh

LEMMA UndoInvInductive == GatherInv /\ UndoInv /\ [Next]_vars => UndoInv'
<1>s. SUFFICES ASSUME GatherInv, UndoInv, [Next]_vars, mode'.undo, pc' # "idle"
               PROVE  UndoKept' /\ pc' \notin {"load_rest", "layout", "prelink", "stat", "aborted"}
  BY DEF UndoInv, UndoKept
<1>t. /\ TypeInv /\ FilesType /\ EntriesType /\ EntryInv /\ StackInv /\ stack \in Seq(Frames)
      /\ known \subseteq File /\ Lib \subseteq File /\ GatherInv' /\ todo \subseteq File
  BY <1>s, GatherInvInductive, ConstantFacts DEF GatherInv, TypeInv, LoopType, EntriesType
<1>f. \A i \in 1..Len(stack) : stack[i].file \in File
  <2>1. \A i \in 1..Len(stack) : stack[i] \in Frames
    BY <1>t
  <2> QED BY <2>1 DEF Frames
<1>1. ASSUME NEW m \in Modes, Start(m)
      PROVE  UndoKept' /\ pc' \notin {"load_rest", "layout", "prelink", "stat", "aborted"}
  <2>1. /\ pc = "idle" /\ pc' \in {"load", "gather"} /\ Know(m.banned) /\ UNCHANGED <<disk, stack>>
        /\ \A f \in File : type'[f] \in {"NONE", "BAD"}
    BY <1>1 DEF Start, fs
  <2>2. stack' = << >> /\ known = {} /\ m.banned \in SUBSET File
    BY <1>s, <1>t, <1>1, <2>1, NoCalls, ConstantFacts DEF EntryInv
  <2>3. known' = m.banned /\ \A f \in m.banned : ver'[f] = disk[f].ver
    BY <1>t, <2>1, <2>2, KnowFacts
  <2> QED BY <2>1, <2>2, <2>3 DEF UndoKept, Unaltered
<1> SUFFICES ASSUME mode' = mode, mode.undo, pc # "idle", UndoKept,
                    pc \notin {"load_rest", "layout", "prelink", "stat", "aborted"}
             PROVE  \/ ~ \/ LoadCache \/ Trace \/ TraceFails \/ GatherFails \/ GatherDone \/ CheckLibs
                         \/ TrustEnd
                         \/ \E f \in File : Trust(f) \/ Explore(f) \/ Descend(f) \/ UndoOne(f)
                                            \/ UndoFails(f) \/ Upgrade(f)
                         \/ UNCHANGED vars
                    \/ UndoKept' /\ pc' \notin {"load_rest", "layout", "prelink", "stat", "aborted"}
  BY <1>s, <1>1, UndoSteps
<1>k. ASSUME NEW S \in SUBSET File, Know(S), disk' = disk
      PROVE  \A f \in known' : Unaltered(f)' \/ Bare(f)'
  BY <1>t, <1>k, KnowFacts DEF UndoKept, Unaltered, Bare
<1>2. CASE LoadCache
  <2>1. /\ pc = "load" /\ pc' = "trust" /\ Know(DOMAIN cache) /\ UNCHANGED <<disk, stack>>
    BY <1>2 DEF LoadCache, fs
  <2>2. \A f \in File : type'[f] \notin {"DYN", "EXEC"}
    BY <1>t, <1>2, <2>1, LoadTypes DEF EntryInv
  <2>3. DOMAIN cache \in SUBSET File /\ stack' = << >>
    BY <1>s, <1>t, <2>1, NoCalls DEF FilesType
  <2>4. \A f \in known' : Unaltered(f)' \/ Bare(f)'
    BY <1>k, <2>1, <2>3
  <2> QED BY <2>1, <2>2, <2>3, <2>4 DEF UndoKept
<1>3. ASSUME TrustEnd \/ \E f \in File : Trust(f)
      PROVE  UndoKept' /\ pc' \notin {"load_rest", "layout", "prelink", "stat", "aborted"}
  <2>1. /\ pc = "trust" /\ pc' \in {"trust", "gather"}
        /\ UNCHANGED <<disk, ver, stamp, stack, known, done>>
        /\ \A g \in File : type'[g] \in {type[g], "NONE"}
    BY <1>t, <1>3 DEF Trust, TrustEnd, fs, entries, EntriesType
  <2> QED BY <2>1 DEF UndoKept, Unaltered, Bare
<1>4. ASSUME NEW f \in File, NEW t, Entered(f), Enter(f, t), UNCHANGED disk,
             \A g \in known' : Unaltered(g)' \/ Bare(g)'
      PROVE  UndoKept' /\ pc' \notin {"load_rest", "layout", "prelink", "stat", "aborted"}
  <2>1. /\ pc = "gather" /\ pc' = "gather" /\ done' = done
        /\ \A i \in 1..Len(stack) : stack[i].file # f
        /\ \A g \in File : type'[g] \in {type[g], "BAD", "NONE"}
    BY <1>t, <1>4 DEF Entered, EntriesType
  <2>2. /\ stamp'[f] = disk[f].stamp /\ \A g \in File : g # f => stamp'[g] = stamp[g]
    BY <1>t, <1>4 DEF Enter, EntriesType
  <2>3. /\ Len(stack') = Len(stack) + 1 /\ Len(stack) \in Nat
        /\ \A i \in 1..Len(stack) : stack'[i] = stack[i]
        /\ stack'[Len(stack) + 1].file = f /\ stack'[Len(stack) + 1].liblist = disk[f].liblist
    <3>1. FilesType /\ stack \in Seq(Frames) /\ Enter(f, t)
      BY <1>t, <1>4
    <3>2. /\ Len(stack') = Len(stack) + 1
          /\ \A i \in 1..Len(stack) : stack'[i] = stack[i]
          /\ stack'[Len(stack) + 1] = Frame(f) /\ Frame(f).file = f
          /\ Frame(f).liblist = disk[f].liblist
      BY <3>1, EnterFacts
    <3> QED BY <3>1, <3>2
  <2>4. ASSUME NEW i \in 1..Len(stack')
        PROVE  \/ /\ disk[stack'[i].file].stamp = 0 /\ disk[stack'[i].file].liblist = NotPrelinked
               \/ /\ stamp'[stack'[i].file] = disk[stack'[i].file].stamp
                  /\ stack'[i].liblist = disk[stack'[i].file].liblist
    <3>1. CASE i = Len(stack) + 1
      BY <2>2, <2>3, <3>1
    <3>2. CASE i \in 1..Len(stack)
      BY <1>f, <2>1, <2>2, <2>3, <3>2 DEF UndoKept, Bare
    <3> QED BY <2>3, <3>1, <3>2
  <2> QED BY <1>4, <2>1, <2>4 DEF UndoKept, Bare
<1>5. ASSUME NEW f \in File, Explore(f)
      PROVE  UndoKept' /\ pc' \notin {"load_rest", "layout", "prelink", "stat", "aborted"}
  <2>1. /\ pc = "gather" /\ stack = << >> /\ UNCHANGED <<pc, disk, done>> /\ Know({f})
    BY <1>s, <1>5, ExploreEnters
  <2>2. \A g \in known' : Unaltered(g)' \/ Bare(g)'
    BY <1>k, <2>1
  <2>3. CASE Entered(f) /\ Enter(f, [type EXCEPT ![f] = "NONE"])
    BY <1>4, <2>1, <2>2, <2>3
  <2>4. CASE UNCHANGED <<stack, type, deps, stamp, slot>>
    BY <2>1, <2>2, <2>4 DEF UndoKept, Bare
  <2> QED BY <1>s, <1>5, <2>3, <2>4, ExploreEnters
<1>6. ASSUME NEW f \in File, Descend(f)
      PROVE  UndoKept' /\ pc' \notin {"load_rest", "layout", "prelink", "stat", "aborted"}
  <2>1. /\ Entered(f) /\ Enter(f, type) /\ UNCHANGED <<ver, disk>> /\ known' = known
    BY <1>s, <1>6, DescendEnters DEF Descend
  <2>2. \A g \in known' : Unaltered(g)' \/ Bare(g)'
    BY <2>1 DEF UndoKept, Unaltered, Bare
  <2> QED BY <1>4, <2>1, <2>2
<1>7. CASE Trace
  <2>1. /\ pc = "gather" /\ pc' = pc /\ UNCHANGED <<disk, stamp, done>> /\ stack # << >>
        /\ Know(needs[Top.file]) /\ \A g \in File : type'[g] \in {type[g], "NONE"}
    BY <1>7 DEF Trace, fs
  <2>2. needs[Top.file] \in SUBSET File
    <3>1. Top.file \in File
      BY <1>t, <2>1, TopFacts
    <3> QED BY <1>t, <3>1, ConstantFacts DEF FilesType
  <2>3. \A g \in known' : Unaltered(g)' \/ Bare(g)'
    BY <1>k, <2>1, <2>2
  <2>4. /\ Len(stack') = Len(stack)
        /\ \A i \in 1..Len(stack) :
             stack'[i].file = stack[i].file /\ stack'[i].liblist = stack[i].liblist
    BY <1>t, <1>7, TraceFacts
  <2> QED BY <2>1, <2>3, <2>4 DEF UndoKept, Bare
<1>8. CASE TraceFails \/ GatherFails \/ GatherDone
  <2>1. PICK f \in File : f = Top.file
    BY <1>s, <1>8, ReturnFacts
  <2>2. /\ pc = "gather" /\ pc' \in {"gather", "exit"} /\ stack # << >>
        /\ \A g \in File : g # f => type'[g] = type[g] /\ done'[g] = done[g]
        /\ UNCHANGED <<disk, ver, known, stamp>> /\ InProgress(f)
    BY <1>s, <1>8, <2>1, ReturnFacts
  <2>3. /\ Len(stack') = Len(stack) - 1 /\ Len(stack) \in 1..Len(stack) /\ Len(stack) \in Nat
        /\ Top = stack[Len(stack)]
        /\ \A i \in 1..Len(stack') :
              stack'[i].file = stack[i].file /\ stack'[i].liblist = stack[i].liblist
    <3>1. \E ok \in BOOLEAN : Return(ok)
      BY <1>s, <1>8, ReturnFacts
    <3> QED BY <1>t, <2>2, <3>1, PopFacts, TopFacts
  <2>4. type'[f] \in {"DYN", "EXEC"} => Bare(f) \/ done'[f] = 2
    <3>1. CASE TraceFails \/ GatherFails
      <4>1. type'[f] \in {type[f], "UNPRELINKABLE"}
        BY <1>t, <2>1, <3>1 DEF TraceFails, GatherFails, EntriesType
      <4> QED BY <2>2, <4>1 DEF InProgress
    <3>2. CASE GatherDone
      <4>1. \/ type' = [type EXCEPT ![f] = "UNPRELINKABLE"]
            \/ done' = [done EXCEPT ![f] = IF AsIs(f) THEN 2 ELSE 0]
        BY <2>1, <3>2 DEF GatherDone
      <4>2. CASE type' = [type EXCEPT ![f] = "UNPRELINKABLE"]
        BY <1>t, <4>2 DEF EntriesType
      <4>3. CASE done' = [done EXCEPT ![f] = IF AsIs(f) THEN 2 ELSE 0]
        <5>1. AsIs(f) => done'[f] = 2
          BY <1>t, <4>3 DEF EntriesType
        <5>2. ~ AsIs(f) => stamp[f] = 0 /\ Top.liblist = NotPrelinked
          BY DEF AsIs
        <5>3. \/ Bare(f)
              \/ stamp[f] = disk[f].stamp /\ Top.liblist = disk[f].liblist
          BY <2>1, <2>3 DEF UndoKept
        <5> QED BY <5>1, <5>2, <5>3 DEF Bare
      <4> QED BY <4>1, <4>2, <4>3
    <3> QED BY <1>8, <3>1, <3>2
  <2>5. \A i \in 1..Len(stack') : i \in 1..Len(stack)
    BY <2>3
  <2>6. \A g \in File : type'[g] \in {"DYN", "EXEC"} => Bare(g) \/ done'[g] = 2
    BY <2>2, <2>4 DEF UndoKept
  <2> QED BY <2>2, <2>3, <2>5, <2>6 DEF UndoKept, Bare, Unaltered
<1>9. CASE CheckLibs
  <2>1. /\ pc = "gather" /\ pc' = "undo" /\ UNCHANGED <<disk, ver, known, stamp, done, stack>>
        /\ todo' = {f \in File : type'[f] \in {"DYN", "EXEC"} /\ done[f] = 2}
        /\ \A g \in File : type'[g] \in {type[g], "BAD"}
    BY <1>9 DEF CheckLibs, fs
  <2> QED BY <2>1 DEF UndoKept, Bare, Unaltered
<1>10. ASSUME NEW f \in File, UndoOne(f) \/ Upgrade(f)
       PROVE  UndoKept' /\ pc' \notin {"load_rest", "layout", "prelink", "stat", "aborted"}
  <2>1. /\ UNCHANGED <<type, ver, known, stamp, done, stack, pc, failed>>
        /\ todo' = todo \/ (pc = "undo" /\ todo' = todo \ {f})
    BY <1>10 DEF UndoOne, Upgrade, entries, bounds
  <2>2. CASE disk' = [disk EXCEPT ![f] = Fresh(clock + 1)]
    <3>1. Bare(f)' /\ \A g \in File : g # f => disk'[g] = disk[g]
      BY <1>t, <2>2, FreshIsBare
    <3>2. \A g \in File : g # f => (Bare(g)' <=> Bare(g)) /\ (Unaltered(g)' <=> Unaltered(g))
      BY <2>1, <3>1 DEF Bare, Unaltered
    <3>3. \A g \in known' : Unaltered(g)' \/ Bare(g)'
      BY <1>t, <2>1, <3>1, <3>2 DEF UndoKept
    <3>4. \A g \in File : type'[g] \in {"DYN", "EXEC"} =>
            Bare(g)' \/ IF pc' = "undo" THEN g \in todo' \/ failed' ELSE done'[g] = 2
      BY <2>1, <3>1, <3>2 DEF UndoKept
    <3>5. ASSUME NEW i \in 1..Len(stack')
          PROVE  \/ disk'[stack'[i].file].stamp = 0 /\ disk'[stack'[i].file].liblist = NotPrelinked
                 \/ /\ stamp'[stack'[i].file] = disk'[stack'[i].file].stamp
                    /\ stack'[i].liblist = disk'[stack'[i].file].liblist
      <4>1. CASE stack[i].file = f
        BY <2>1, <3>1, <4>1 DEF Bare
      <4>2. CASE stack[i].file # f
        BY <1>f, <2>1, <3>1, <4>2 DEF UndoKept, Bare
      <4> QED BY <4>1, <4>2
    <3> QED BY <2>1, <3>3, <3>4, <3>5 DEF UndoKept, Bare
  <2>3. CASE disk' = disk /\ UndoOne(f) /\ disk[f].ver # ver[f]
    <3>1. type[f] \in {"DYN", "EXEC"} => Bare(f)
      BY <1>t, <2>3 DEF EntryInv, UndoKept, Unaltered
    <3>2. pc = "undo"
      BY <2>3 DEF UndoOne
    <3>3. \A g \in File : type'[g] \in {"DYN", "EXEC"} => Bare(g) \/ g \in todo' \/ failed'
      BY <2>1, <3>1, <3>2 DEF UndoKept
    <3> QED BY <2>1, <2>3, <3>2, <3>3 DEF UndoKept, Bare, Unaltered
  <2> QED BY <1>10, <2>2, <2>3 DEF UndoOne, Upgrade
<1>11. ASSUME NEW f \in File, UndoFails(f)
       PROVE  UndoKept' /\ pc' \notin {"load_rest", "layout", "prelink", "stat", "aborted"}
  <2>1. /\ UNCHANGED <<disk, type, ver, known, stamp, done, stack, pc>> /\ failed' = TRUE /\ pc = "undo"
    BY <1>11 DEF UndoFails, Failure, entries, fs
  <2> QED BY <2>1 DEF UndoKept, Bare, Unaltered
<1>12. CASE UNCHANGED vars
  BY <1>12 DEF vars, fs, entries, bounds, UndoKept, Bare, Unaltered
<1> QED BY <1>2, <1>3, <1>5, <1>6, <1>7, <1>8, <1>9, <1>10, <1>11, <1>12

(* Only -u undoes.                                                         *)
UndoMode == pc = "undo" => mode.undo

LEMMA UndoModeInductive == UndoMode /\ [Next]_vars => UndoMode'
<1> SUFFICES ASSUME UndoMode, [Next]_vars, pc' = "undo" PROVE mode'.undo
  BY DEF UndoMode
<1>1. CASE Gather
  BY <1>1 DEF Gather, Explore, Descend, Trace, TraceFails, GatherFails, GatherDone, CheckLibs,
              Return, Exit, End, UndoMode
<1>2. CASE Prelink
  BY <1>2 DEF Prelink, PrelinkRefused, PrelinkChanged, PrelinkFails, PrelinkEnt, StatEnt,
              StatFails, UndoOne, UndoFails, UndoEnd, SaveCache, SaveFails, Abort, End, UndoMode
<1>3. CASE ~ Gather /\ ~ Prelink
  BY <1>3 DEF Next, Start, LoadCache, Trust, TrustEnd, DoLayout, NoSlot, Upgrade, Crash,
     Terminating, End, vars, UndoMode
<1> QED BY <1>1, <1>2, <1>3

(* prelink -u -a leaves nothing prelinked that it has gathered, also what  *)
(* was out of date, when no step of undo_one fails: whatever was upgraded  *)
(* meanwhile, and whatever earlier runs left behind.                       *)
THEOREM UndoneHolds == Spec => []Undone
<1>1. Init => UndoInv /\ UndoMode
  BY DEF Init, UndoInv, UndoMode
<1>2. GatherInv /\ UndoInv /\ UndoMode => Undone
  <2> SUFFICES ASSUME GatherInv, UndoInv, UndoMode, pc = "undo", todo = {}, ~ failed,
                      NEW f \in File, type[f] \in {"DYN", "EXEC"}
               PROVE  Bare(f)
    BY DEF Undone, Bare
  <2>1. mode.undo
    BY DEF UndoMode
  <2> QED BY <2>1 DEF UndoInv
<1> QED BY <1>1, <1>2, InitGatherInv, GatherInvInductive, UndoInvInductive,
           UndoModeInductive, PTL DEF Spec
=============================================================================
