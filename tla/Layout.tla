------------------------------- MODULE Layout -------------------------------
(***************************************************************************)
(* The virtual address space layout of prelink, src/src/layout.c, for one  *)
(* architecture without layout hooks (one iteration of the loop over       *)
(* `arches' in layout_libs).                                               *)
(*                                                                         *)
(* Every library and executable known to this invocation is an entry of    *)
(* prelink_filename_htab.  layout_libs decides which already prelinked     *)
(* libraries have to lose their slot (FindLibs, the overlap pass, the      *)
(* propagation pass), puts the surviving ones into an address ordered list *)
(* (BuildList), picks the start address and, for -R, turns the list so     *)
(* that it starts there (ChooseStart, Rotate...), and then gives a slot to *)
(* each library that has none by a first-fit scan of the list (Pick,       *)
(* Scan..., Place).  Unwrap undoes the address shift used for -R.          *)
(*                                                                         *)
(* One iteration of each loop of the function is one action, so the model  *)
(* keeps the order in which the code reads and writes the entries.         *)
(* Addresses are naturals: they are 64 bits wide in the code, whatever the *)
(* architecture, and no sum below leaves that range on the supported ones. *)
(***************************************************************************)
EXTENDS Integers, FiniteSets, Sequences, SequencesExt

CONSTANTS
  Lib,              \* shared libraries (and position independent executables)
  Exe,              \* position dependent executables
  Fake,             \* `fakeent', the list entry that stands for mmap_end
  PAGE,             \* max_page_size of the architecture, or --layout-page-size
  GAP,              \* the room left between libraries (8192 in the code)
  MMAP_BASE,        \* the library region of the architecture,
  MMAP_END,         \*   or --mmap-region-start, --mmap-region-end
  ForcePrelink,     \* -f
  ConserveMemory,   \* -m
  Random,           \* -R, or a seed
  LibTypes,         \* the types, dependency lists, slots and sizes with which
  ExeTypes,         \*   the entries may come out of gathering and of the cache
  DepLists,
  Bases,
  Sizes

Ent == Lib \union Exe

(* A file that gathering refused (ET_BAD, ET_UNPRELINKABLE, ET_NONE) has   *)
(* the one type "NONE": no code of this module tells them apart.           *)
AllLibTypes == {"DYN", "CACHE_DYN", "NONE"}
AllExeTypes == {"EXEC", "CACHE_EXEC", "NONE"}

ASSUME LayoutAssumption ==
  /\ IsFiniteSet(Lib) /\ IsFiniteSet(Exe) /\ Lib \intersect Exe = {}
  /\ Fake \notin Ent
  /\ PAGE \in Nat \ {0} /\ GAP \in Nat
  /\ MMAP_BASE \in Nat /\ MMAP_END \in Nat /\ MMAP_BASE < MMAP_END
  /\ MMAP_BASE % PAGE = 0 /\ MMAP_END % PAGE = 0
  /\ {ForcePrelink, ConserveMemory, Random} \subseteq BOOLEAN
  /\ LibTypes \subseteq AllLibTypes /\ ExeTypes \subseteq AllExeTypes
  /\ Bases \subseteq Nat /\ Sizes \subseteq Nat \ {0}

(* ld.so lists, for a library, everything it needs directly or not, and    *)
(* never the library itself; gather_deps refuses dependency cycles.        *)
ASSUME DepListsAssumption ==
  \A d \in DepLists :
    /\ d \in [Ent -> SUBSET Lib]
    /\ \A x \in Ent : x \notin d[x]
    /\ \A x \in Ent : \A y \in d[x] : d[y] \subseteq d[x]

-----------------------------------------------------------------------------

VARIABLES
  type,        \* e->type
  deps,        \* e->depends, as a set
  done,        \* e->done without the 0x80 bit: 0, 1 (slot assigned), 2 (as is)
  wrapped,     \* the entries whose e->done has the 0x80 bit
  base, end,   \* e->base, e->end: the slot
  layend,      \* e->layend: the slot with the room behind it
  disk,        \* the slot the file itself has (its program headers)
  random_base, \* the global random_base /= 0
  mmap_start,  \* mmap_start
  mmap_fin,    \* mmap_fin
  list,        \* the address ordered list, through the next links
  todo,        \* the entries the current loop has not visited yet
  work,        \* the array deps of the overlap pass
  j,           \* the loop index into work, into list while turning it, and
               \*   the list position of the first-fit scan
  cur,         \* l.libs[i], the library the first-fit scan is for
  cand,        \* the candidate address of the scan (base in the code)
  pc           \* which part of the function runs
               \* (work, j, cur and cand are reset where their loop ends)

vars == <<type, deps, done, wrapped, base, end, layend, disk, random_base,
          mmap_start, mmap_fin, list, todo, work, j, cur, cand, pc>>

slots == <<base, end, layend>>
input == <<type, deps, disk>>
region == <<random_base, mmap_start, mmap_fin>>

Slot == Lib \union {Fake}

AlignUp(x) == LET y == x + PAGE - 1 IN y - (y % PAGE)

Width == MMAP_END - MMAP_BASE

Libs == {l \in Lib : type[l] \in {"DYN", "CACHE_DYN"}}
Binlibs == {x \in Ent : type[x] # "NONE"}

(* gather_exec counts, for each library, the executables that use it.      *)
Refs(l) == Cardinality({x \in Exe : type[x] = "EXEC" /\ l \in deps[x]})

(* The results qsort may leave: S in some order without an inversion.      *)
Sorted(S, Leq(_, _)) ==
  {s \in SetToSeqs(S) : \A a, b \in 1..Cardinality(S) : a < b => Leq(s[a], s[b])}

(* deps_cmp *)
DepsLeq(a, b) == base[a] <= base[b]

(* addr_cmp on two entries that are done *)
AddrLeq(a, b) == base[a] < base[b] \/ (base[a] = base[b] /\ layend[a] <= layend[b])

-----------------------------------------------------------------------------
(* The entries as gathering and the prelink cache leave them.  Gathering a *)
(* file gathers its dependencies too, also those that were in the cache,   *)
(* and the file is done (2) when its liblist still matches all of them;    *)
(* a library that is blacklisted is refused afterwards, and stays done.    *)
Init ==
  /\ type \in {t \in [Ent -> LibTypes \union ExeTypes] :
                 /\ \A l \in Lib : t[l] \in LibTypes
                 /\ \A x \in Exe : t[x] \in ExeTypes}
  /\ deps \in DepLists
  /\ \A x \in Ent : type[x] \in {"DYN", "EXEC"} =>
                     \A y \in deps[x] : type[y] \in {"DYN", "NONE"}
  /\ done \in {d \in [Ent -> {0, 2}] :
                 \A x \in Ent :
                   d[x] = 2 => /\ type[x] \in {"DYN", "EXEC"} \/ (x \in Lib /\ type[x] = "NONE")
                               /\ \A y \in deps[x] : d[y] = 2}
  /\ disk \in [Lib -> [base : Bases, size : Sizes]]
  /\ base = [x \in Slot |-> IF x \in Lib THEN disk[x].base ELSE 0]
  /\ end = [x \in Slot |-> IF x \in Lib THEN disk[x].base + disk[x].size ELSE 0]
  /\ layend = [x \in Slot |-> 0]
  /\ wrapped = {}
  /\ random_base = Random
  /\ mmap_start = MMAP_BASE
  /\ mmap_fin = MMAP_END
  /\ list = << >>
  /\ todo = {}
  /\ work = << >>
  /\ j = 1
  /\ cur = Fake
  /\ cand = 0
  /\ pc = "find_libs"

(* find_libs on every entry, then layend of the libraries.                 *)
Unaligned(x) == x \in Lib /\ base[x] % PAGE # 0

MovedEnd(x) == IF Unaligned(x) THEN end[x] - base[x] ELSE end[x]

FindLibs ==
  /\ pc = "find_libs"
  /\ done' = [x \in Ent |->
                IF Unaligned(x) THEN 0
                ELSE IF type[x] \in {"CACHE_DYN", "CACHE_EXEC"} THEN 2
                ELSE IF ForcePrelink THEN 0 ELSE done[x]]
  /\ base' = [x \in Slot |-> IF Unaligned(x) THEN 0 ELSE base[x]]
  /\ end' = [x \in Slot |-> MovedEnd(x)]
  /\ layend' = [x \in Slot |->
                  IF x \in Libs THEN AlignUp(end'[x] + GAP) ELSE layend[x]]
  /\ todo' = Binlibs
  /\ pc' = "overlap"
  /\ UNCHANGED <<input, wrapped, region, list, work, j, cur, cand>>

(* The overlap pass: the prelinked gathered dependencies of one binary or  *)
(* library after the other, sorted by address, are compared pairwise.      *)
OverlapNext(b) ==
  /\ pc = "overlap" /\ j > Len(work)
  /\ b \in todo
  /\ work' \in Sorted({d \in deps[b] : type[d] = "DYN" /\ done[d] # 0}, DepsLeq)
  /\ j' = 2
  /\ todo' = todo \ {b}
  /\ UNCHANGED <<input, done, wrapped, slots, region, list, cur, cand, pc>>

Clash == base[work[j]] < end[work[j - 1]]

OverlapKeep ==
  /\ pc = "overlap" /\ j <= Len(work)
  /\ ~ Clash
  /\ j' = j + 1
  /\ UNCHANGED <<input, done, wrapped, slots, region, list, todo, work, cur, cand, pc>>

(* The less referenced of two overlapping libraries loses its slot; the    *)
(* comparison resumes with what precedes it.                               *)
Victim == IF Refs(work[j - 1]) < Refs(work[j]) THEN j - 1 ELSE j

(* (Faulty variants: the comparison resumes one entry too early, or behind *)
(* the victim; the victim stays in the array.)                             *)
ResumeEarly == Victim - 1
ResumeBehind == Victim + 1
RemainingAll == work

Resume == IF Victim > 1 THEN Victim ELSE 2
Remaining == RemoveAt(work, Victim)

OverlapDrop ==
  /\ pc = "overlap" /\ j <= Len(work)
  /\ Clash
  /\ done' = [done EXCEPT ![work[Victim]] = 0]
  /\ work' = Remaining
  /\ j' = Resume
  /\ UNCHANGED <<input, wrapped, slots, region, list, todo, cur, cand, pc>>

OverlapEnd ==
  /\ pc = "overlap" /\ j > Len(work) /\ todo = {}
  /\ todo' = Libs
  /\ work' = << >>
  /\ j' = 1
  /\ pc' = "propagate"
  /\ UNCHANGED <<input, done, wrapped, slots, region, list, cur, cand>>

(* (Faulty variant: all dependencies lost their slot.)                     *)
LostAllDeps(l) == deps[l] # {} /\ \A d \in deps[l] : done[d] = 0

LostDep(l) == \E d \in deps[l] : done[d] = 0

(* One pass over the libraries: what depends on a library without a slot   *)
(* loses its own.                                                          *)
Propagate(l) ==
  /\ pc = "propagate"
  /\ l \in todo
  /\ done' = IF LostDep(l) THEN [done EXCEPT ![l] = 0] ELSE done
  /\ todo' = todo \ {l}
  /\ UNCHANGED <<input, wrapped, slots, region, list, work, j, cur, cand, pc>>

PropagateEnd ==
  /\ pc = "propagate" /\ todo = {}
  /\ pc' = "list"
  /\ UNCHANGED <<input, done, wrapped, slots, region, list, todo, work, j, cur, cand>>

(* The part of the address order that goes into the list: from the first   *)
(* library that reaches into the region to the last that starts in it.     *)
Window(s, first, last) ==
  /\ \A i \in 1..(first - 1) : layend[s[i]] < MMAP_BASE
  /\ first \in 1..Len(s) => layend[s[first]] >= MMAP_BASE
  /\ \A i \in (first + 1)..last : base[s[i]] < MMAP_END
  /\ last + 1 \in (first + 1)..Len(s) => base[s[last + 1]] >= MMAP_END

BuildList ==
  /\ pc = "list"
  /\ \E s \in Sorted({l \in Libs : done[l] # 0}, AddrLeq) :
       \E first \in 1..(Len(s) + 1) :
         \E last \in (IF first > Len(s) THEN {Len(s)} ELSE first..Len(s)) :
           Window(s, first, last) /\ list' = SubSeq(s, first, last)
  /\ random_base' = (/\ random_base
                     /\ \A i \in 1..Len(list') :
                          /\ base[list'[i]] >= MMAP_BASE
                          /\ i > 1 => layend[list'[i]] <= MMAP_END)
  /\ pc' = "start"
  /\ UNCHANGED <<input, done, wrapped, slots, mmap_start, mmap_fin, todo, work,
                 j, cur, cand>>

(* mmap_start, from the seed, /dev/urandom or the time: any address of the *)
(* region, rounded up.                                                     *)
ChooseStart ==
  /\ pc = "start"
  /\ IF random_base
     THEN \E x \in MMAP_BASE..(MMAP_END - 1) : mmap_start' = AlignUp(x)
     ELSE mmap_start' = MMAP_BASE
  /\ j' = 1
  /\ pc' = IF mmap_start' # MMAP_BASE /\ list # << >> THEN "rotate" ELSE "fin"
  /\ UNCHANGED <<input, done, wrapped, slots, random_base, mmap_fin, list, todo,
                 work, cur, cand>>

(* What was moved up goes back down.  (Faulty variant: by mmap_base -      *)
(* mmap_base.)                                                             *)
MovedBy0(f) == f

MovedBack(f) == [x \in Slot |-> IF x \in wrapped THEN f[x] - Width ELSE f[x]]

RotateMore == j <= Len(list) /\ base[list[j]] < mmap_start

(* The entries of the list below mmap_start move up by the width of the    *)
(* region; one that reaches over mmap_start pushes it up.                  *)
RotateWrap ==
  /\ pc = "rotate" /\ RotateMore
  /\ LET e == list[j] IN
       /\ mmap_start' = IF layend[e] > mmap_start THEN AlignUp(layend[e])
                                                  ELSE mmap_start
       /\ base' = [base EXCEPT ![e] = @ + Width]
       /\ end' = [end EXCEPT ![e] = @ + Width]
       /\ layend' = [layend EXCEPT ![e] = @ + Width]
       /\ wrapped' = wrapped \union {e}
  /\ j' = j + 1
  /\ UNCHANGED <<input, done, random_base, mmap_fin, list, todo, work, cur, cand, pc>>

(* There is room above mmap_start: the list starts at the first entry that *)
(* was not moved, and the fake entry separates it from the moved ones.     *)
RotateList ==
  /\ pc = "rotate" /\ ~ RotateMore /\ mmap_start < MMAP_END
  /\ IF j \in 2..Len(list)
     THEN /\ list' = SubSeq(list, j, Len(list)) \o <<Fake>> \o SubSeq(list, 1, j - 1)
          /\ base' = [base EXCEPT ![Fake] = MMAP_END]
          /\ end' = [end EXCEPT ![Fake] = MMAP_END]
          /\ layend' = [layend EXCEPT ![Fake] = MMAP_END]
     ELSE UNCHANGED <<list, slots>>
  /\ pc' = "fin"
  /\ UNCHANGED <<input, done, wrapped, region, todo, work, j, cur, cand>>

(* There is none: the moved entries go back.                               *)
RotateReset ==
  /\ pc = "rotate" /\ ~ RotateMore /\ mmap_start >= MMAP_END
  /\ mmap_start' = MMAP_BASE
  /\ base' = MovedBack(base)
  /\ end' = MovedBack(end)
  /\ layend' = MovedBack(layend)
  /\ wrapped' = {}
  /\ pc' = "fin"
  /\ UNCHANGED <<input, done, random_base, mmap_fin, list, todo, work, j, cur, cand>>

NewFin == IF mmap_start # MMAP_BASE
          THEN MMAP_END + (mmap_start - MMAP_BASE) ELSE mmap_fin

SetFin ==
  /\ pc = "fin"
  /\ mmap_fin' = NewFin
  /\ todo' = {l \in Libs : done[l] = 0}
  /\ pc' = "pick"
  /\ UNCHANGED <<input, done, wrapped, slots, random_base, mmap_start, list, work,
                 j, cur, cand>>

(* refs_cmp: dynamic linkers, then the most used, then the largest; and    *)
(* refs_rnd_cmp, where a random number replaces the size, and small        *)
(* differences of large reference counts do not matter.                    *)
Precedes(a, b) ==
  LET noDeps(l) == deps[l] = {}
      slack == LET r == IF Refs(a) < Refs(b) THEN Refs(a) ELSE Refs(b)
               IN  IF r < 8 THEN 1 ELSE IF r < 32 THEN 2 ELSE IF r < 128 THEN 4 ELSE 8
      size(l) == layend[l] - base[l]
  IN  \/ noDeps(a) /\ ~ noDeps(b)
      \/ /\ noDeps(a) = noDeps(b)
         /\ \/ Refs(a) >= Refs(b) + (IF random_base THEN slack ELSE 1)
            \/ ~ random_base /\ Refs(a) = Refs(b) /\ size(a) > size(b)

(* The next library without a slot, in that order.                         *)
Pick(l) ==
  /\ pc = "pick"
  /\ l \in todo /\ \A k \in todo : ~ Precedes(k, l)
  /\ todo' = todo \ {l}
  /\ cur' = l
  /\ cand' = mmap_start
  /\ j' = 1
  /\ pc' = "scan"
  /\ UNCHANGED <<input, done, wrapped, slots, region, list, work>>

(* With -m only the libraries that appear in a dependency list together    *)
(* with l count (u.tmp = m), otherwise all do.                             *)
(* (Faulty variant: the dependency lists of executables are left out.)     *)
ConsideredLibrary(l) ==
  IF ConserveMemory
  THEN {Fake} \union UNION {deps[x] : x \in {y \in Libs : l \in deps[y]}}
  ELSE Slot

Considered(l) ==
  IF ConserveMemory
  THEN {Fake} \union UNION {deps[x] : x \in {y \in Binlibs : l \in deps[y]}}
  ELSE Slot

LaySize(l) == layend[l] - base[l]

Fits == j <= Len(list) /\ list[j] \in Considered(cur)
                       /\ cand + LaySize(cur) <= base[list[j]]

(* Where the scan goes on behind an entry.  (Faulty variant: without the   *)
(* room behind it.)                                                        *)
BehindEnd(e) == end[e]

Behind(e) == layend[e]

ScanNext ==
  /\ pc = "scan" /\ j <= Len(list)
  /\ ~ Fits
  /\ cand' = IF list[j] \in Considered(cur) /\ cand < Behind(list[j])
             THEN Behind(list[j]) ELSE cand
  /\ j' = j + 1
  /\ UNCHANGED <<input, done, wrapped, slots, region, list, todo, work, cur, pc>>

(* Where the new entry goes: behind the last entry, among those before the *)
(* scan position, that does not start above it.  From the head of the list *)
(* the search wraps around to its tail (list->prev).                       *)
(* (Faulty variant: right before the scan position.)                       *)
InsertPosHere(p) == p = IF j \in 2..Len(list) THEN j ELSE Len(list) + 1

InsertPos(p) ==
  LET from == IF j \in 2..Len(list) THEN j - 1 ELSE Len(list)
  IN  /\ p \in 1..(from + 1)
      /\ p > 1 => base[list[p - 1]] <= cand
      /\ \A k \in p..from : base[list[k]] > cand

(* The space behind the list is large enough.  (Faulty variant: it holds   *)
(* the start of the slot.)                                                 *)
RoomToStart == j > Len(list) /\ cand <= mmap_fin

Room == j > Len(list) /\ cand + LaySize(cur) <= mmap_fin

Place ==
  /\ pc = "scan"
  /\ Fits \/ Room
  /\ end' = [end EXCEPT ![cur] = @ + (cand - base[cur])]
  /\ base' = [base EXCEPT ![cur] = cand]
  /\ layend' = [layend EXCEPT ![cur] = cand + LaySize(cur)]
  /\ done' = [done EXCEPT ![cur] = 1]
  /\ wrapped' = IF cand >= MMAP_END /\ mmap_start # MMAP_BASE
                THEN wrapped \union {cur} ELSE wrapped
  /\ \E p \in 1..(Len(list) + 1) : InsertPos(p) /\ list' = InsertAt(list, p, cur)
  /\ cur' = Fake
  /\ cand' = 0
  /\ j' = 1
  /\ pc' = "pick"
  /\ UNCHANGED <<input, region, todo, work>>

(* "Could not find virtual address slot": prelink exits.                   *)
NotFound ==
  /\ pc = "scan" /\ j > Len(list) /\ ~ Room
  /\ pc' = "failed"
  /\ UNCHANGED <<input, done, wrapped, slots, region, list, todo, work, j, cur, cand>>

(* Everything that was moved up goes back; layend keeps its shifted value. *)
Unwrap ==
  /\ pc = "pick" /\ todo = {}
  /\ base' = MovedBack(base)
  /\ end' = MovedBack(end)
  /\ wrapped' = {}
  /\ pc' = "done"
  /\ UNCHANGED <<input, done, layend, region, list, todo, work, j, cur, cand>>

Finished == pc \in {"done", "failed"}

Terminating == Finished /\ UNCHANGED vars

Step ==
  \/ FindLibs
  \/ \E b \in Ent : OverlapNext(b)
  \/ OverlapKeep \/ OverlapDrop \/ OverlapEnd
  \/ \E l \in Lib : Propagate(l)
  \/ PropagateEnd
  \/ BuildList \/ ChooseStart
  \/ RotateWrap \/ RotateList \/ RotateReset \/ SetFin
  \/ \E l \in Lib : Pick(l)
  \/ ScanNext \/ Place \/ NotFound \/ Unwrap

Next == Step \/ Terminating

Spec == Init /\ [][Next]_vars /\ WF_vars(Step)

-----------------------------------------------------------------------------
(* Properties.                                                             *)

Phases == {"find_libs", "overlap", "propagate", "list", "start", "rotate", "fin",
           "pick", "scan", "done", "failed"}

(* Type correctness of the entries, the list and the loop state.           *)
TypeOK ==
  /\ type \in [Ent -> AllLibTypes \union AllExeTypes]
  /\ deps \in [Ent -> SUBSET Lib]
  /\ done \in [Ent -> 0..2]
  /\ wrapped \subseteq Lib
  /\ base \in [Slot -> Nat] /\ end \in [Slot -> Nat] /\ layend \in [Slot -> Nat]
  /\ disk \in [Lib -> [base : Nat, size : Nat \ {0}]]
  /\ random_base \in BOOLEAN
  /\ mmap_start \in Nat /\ mmap_fin \in Nat
  /\ list \in Seq(Slot) /\ todo \subseteq Ent /\ work \in Seq(Lib)
  /\ j \in Nat \ {0} /\ cur \in Slot /\ cand \in Nat
  /\ pc \in Phases

Disjoint(a, b) == AlignUp(end[a]) <= base[b] \/ AlignUp(end[b]) <= base[a]

(* layout_libs ends with slots such that no two dependencies of a binary   *)
(* or library share a page, when all of them have a slot and at least one  *)
(* of the two was gathered in this run (the DEBUG_LAYOUT check at the end  *)
(* of the function, which aborts otherwise).                               *)
DependenciesDisjoint ==
  pc = "done" =>
    \A x \in Binlibs :
      (\A d \in deps[x] : d \in Libs /\ done[d] # 0) =>
        \A a, b \in deps[x] :
          a # b /\ type[a] = "DYN" => Disjoint(a, b)

(* Without -m a library that gets a slot shares it with no other library   *)
(* that has one, whether they are used together or not.                    *)
NewSlotsUnique ==
  pc = "done" /\ ~ ConserveMemory =>
    \A a, b \in Libs : a # b /\ done[a] = 1 /\ done[b] # 0 => Disjoint(a, b)

(* The address list stays ordered by base while slots are assigned (the    *)
(* DEBUG_LAYOUT check after each insertion), which the first-fit scan and  *)
(* the backward search of the insertion both rely on.                      *)
ListSorted ==
  pc \in {"pick", "scan"} =>
    \A a, b \in 1..Len(list) : a < b => base[list[a]] <= base[list[b]]

(* A library that keeps its slot (done = 2, its file is not rewritten) has *)
(* in memory the slot of the file, after every shift for -R was undone;    *)
(* one that gets a new slot keeps its size.                                *)
SlotsMatchFiles ==
  pc = "done" =>
    \A l \in Libs :
      /\ done[l] = 2 => base[l] = disk[l].base
      /\ end[l] = base[l] + disk[l].size

(* After the propagation pass no library keeps its slot while one of its   *)
(* dependencies lost its own: it would stay prelinked against an address   *)
(* that is going to change.                                                *)
DoneClosed ==
  pc \in {"list", "start", "rotate", "fin"} =>
    \A l \in Libs : done[l] # 0 => \A d \in deps[l] : done[d] # 0

(* A new slot starts on a page boundary and lies in the region.            *)
NewSlotsInRegion ==
  pc = "done" =>
    \A l \in Libs : done[l] = 1 =>
      /\ base[l] % PAGE = 0
      /\ MMAP_BASE <= base[l] /\ end[l] <= MMAP_END

(* With -m two libraries share a slot only if they are not present         *)
(* together in any binary or library (prelink.8, -m): a library is present *)
(* in its own dependency closure.                                          *)
PresentTogetherDisjoint ==
  pc = "done" =>
    \A x \in Binlibs : \A a, b \in (deps[x] \union {x}) \intersect Libs :
      a # b /\ done[a] = 1 /\ done[b] # 0 => Disjoint(a, b)

(* layout_libs terminates, also through the re-comparisons of the overlap  *)
(* pass.                                                                   *)
Termination == <>Finished
=============================================================================
