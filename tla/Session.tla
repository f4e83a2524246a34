------------------------------ MODULE Session ------------------------------
(***************************************************************************)
(* Invocations of prelink, one after the other, on one file system: what   *)
(* main.c runs for prelink [-a] [-q] [-f] and prelink -u -a.               *)
(*                                                                         *)
(* An invocation loads the cache (cache.c; first with -q, last without -a),*)
(* gathers the executables and, recursively, the libraries they need       *)
(* (gather.c), lays the libraries out (layout.c, here only its result: see *)
(* Layout), prelinks what is not up to date in dependency order (doit.c),  *)
(* and saves the cache.  Between any two steps a file may be upgraded from *)
(* outside and prelink may be killed.  Some steps may fail.                *)
(*                                                                         *)
(* Version numbers stand for the inode, ctime and mtime of a file, stamps  *)
(* for the pair DT_GNU_PRELINKED, DT_CHECKSUM of a library; a new one is   *)
(* drawn from the clock.  A slot stands for an address range; two slots    *)
(* overlap when they are equal.                                            *)
(***************************************************************************)
EXTENDS Naturals, FiniteSets, Sequences, SequencesExt, Functions

CONSTANTS
  Lib, Exe,        \* shared libraries, executables
  DepLists,        \* what ld.so may list as the dependencies of each file
  Slots,           \* the slots there is room for
  Modes,           \* the options of the invocations considered, see Mode
  MaxRuns,         \* bounds: invocations; upgrades, steps that fail and times
  MaxEvents        \*   that prelink is killed, together

File == Lib \union Exe

(* -q, -a, -f, -u, the files named on the command line (with -a those that *)
(* are found in the configured directories), the files that are            *)
(* blacklisted (-b), and the libraries that are in a blacklisted or in no  *)
(* configured directory.                                                   *)
Mode == [quick : BOOLEAN, all : BOOLEAN, force : BOOLEAN, undo : BOOLEAN,
         named : SUBSET File, banned : SUBSET File, outside : SUBSET Lib]

ASSUME SessionAssumption ==
  /\ IsFiniteSet(Lib) /\ IsFiniteSet(Exe) /\ Lib \intersect Exe = {}
  /\ DepLists \subseteq [File -> SUBSET Lib]
  /\ \A d \in DepLists : \A l \in Lib : \A k \in d[l] : d[k] \subseteq d[l] \union {l}
  /\ Slots \subseteq Nat \ {0}
  /\ Modes \subseteq Mode
  /\ {MaxRuns, MaxEvents} \subseteq Nat

VARIABLES
  needs,     \* the dependencies ld.so lists
  disk,      \* the files: version, slot, stamp and liblist (dependency |-> stamp)
  cache,     \* /etc/prelink.cache
  clock,
  raced,     \* history: the versions that were installed between the rename of
             \*   a file by prelink_ent and its stat64 of the name
  mode,      \* the options of this invocation
  type, done, deps, ver, stamp, slot,  \* the entries: e->type, e->done, e->depends,
                                       \*   e->ctime, e->timestamp, e->base
  rewritten, \* the entries with PCF_PRELINKED
  explicit,  \* the entries with u.explicit
  known,     \* the entries that exist
  stack,     \* the calls of gather_deps
  todo,      \* what the current loop has not visited yet
  pc,
  runs, events,
  failed,    \* a step of this invocation failed
  settled    \* no file has changed since a complete, successful prelink -a

fs == <<needs, disk, cache, clock, raced>>
entries == <<type, done, deps, ver, stamp, slot, rewritten, explicit, known>>
bounds == <<runs, events, failed>>
vars == <<fs, mode, entries, stack, todo, pc, bounds, settled>>

NotPrelinked == << >>   \* no .gnu.liblist

Types == {"NONE", "BAD", "DYN", "EXEC", "CACHE_DYN", "CACHE_EXEC", "UNPRELINKABLE"}

(* A file whose .gnu.liblist was written for the libraries as they are.    *)
UpToDate(f) ==
  /\ f \in Lib => disk[f].stamp # 0
  /\ DOMAIN disk[f].liblist = needs[f]
  /\ \A d \in needs[f] : disk[f].liblist[d] = disk[d].stamp

(* A file as it was linked.                                                *)
Fresh(v) == [ver |-> v, slot |-> 0, stamp |-> 0, liblist |-> NotPrelinked]

-----------------------------------------------------------------------------

(* No cache yet; every library may have been prelinked in any slot before. *)
Init ==
  /\ needs \in DepLists
  /\ \E old \in SUBSET Lib, s \in [Lib -> Slots] :
       /\ \A l \in old : needs[l] \subseteq old
       /\ disk = [f \in File |->
                    IF f \in old
                    THEN [ver |-> 0, slot |-> s[f], stamp |-> 1,
                          liblist |-> [d \in needs[f] |-> 1]]
                    ELSE Fresh(0)]
       /\ \A l \in Lib \ old, m \in Lib : s[l] <= s[m]
  /\ cache = << >>
  /\ clock = 1 /\ raced = {}
  /\ mode = CHOOSE m \in Modes : TRUE
  /\ type = [f \in File |-> "NONE"]
  /\ done = [f \in File |-> 0]
  /\ deps = [f \in File |-> {}]
  /\ ver = [f \in File |-> 0]
  /\ stamp = [f \in File |-> 0]
  /\ slot = [f \in File |-> 0]
  /\ rewritten = {} /\ explicit = {} /\ known = {}
  /\ stack = << >>
  /\ todo = {}
  /\ pc = "idle"
  /\ runs = 0 /\ events = 0 /\ failed = FALSE
  /\ settled = FALSE

(* The process ends; the next one starts without entries.                  *)
End ==
  /\ type' = [f \in File |-> "NONE"]
  /\ done' = [f \in File |-> 0]
  /\ deps' = [f \in File |-> {}]
  /\ ver' = [f \in File |-> 0]
  /\ stamp' = [f \in File |-> 0]
  /\ slot' = [f \in File |-> 0]
  /\ rewritten' = {} /\ explicit' = {} /\ known' = {}
  /\ stack' = << >>
  /\ todo' = {}
  /\ failed' = FALSE
  /\ pc' = "idle"
  /\ UNCHANGED mode

Event == events < MaxEvents /\ events' = events + 1

Failure == Event /\ failed' = TRUE

(* prelink_find_entry, prelink_load_entry: a new entry gets the version of *)
(* its file; one that exists keeps what it has.                            *)
Know(S) ==
  /\ known' = known \union S
  /\ ver' = [f \in File |-> IF f \in S \ known THEN disk[f].ver ELSE ver[f]]

(* add_to_blacklist comes first.                                           *)
Start(m) ==
  /\ pc = "idle" /\ runs < MaxRuns
  /\ runs' = runs + 1
  /\ mode' = m
  /\ type' = [f \in File |-> IF f \in m.banned THEN "BAD" ELSE "NONE"]
  /\ explicit' = m.banned
  /\ Know(m.banned)
  /\ todo' = m.named
  /\ pc' = IF m.quick THEN "load" ELSE "gather"
  /\ UNCHANGED <<fs, done, deps, stamp, slot, rewritten, stack, events, failed, settled>>

-----------------------------------------------------------------------------
(* The cache.                                                              *)

(* The check of ctime and mtime, with -q only.                             *)
Unchanged(f) == mode.quick => disk[f].ver = cache[f].ver

(* The type an entry of the cache gets.                                    *)
LoadedType(f) ==
  IF ~ Unchanged(f) THEN "NONE"
  ELSE IF cache[f].unprelinkable THEN (IF mode.quick THEN "UNPRELINKABLE" ELSE "NONE")
  ELSE IF f \in Exe THEN "CACHE_EXEC" ELSE "CACHE_DYN"

(* prelink_load_cache; with -q its second pass follows (Trust), over what  *)
(* has a type.                                                             *)
LoadCache ==
  /\ pc \in {"load", "load_rest"}
  /\ LET new == {f \in DOMAIN cache : type[f] = "NONE"}
     IN  /\ type' = [f \in File |-> IF f \in new THEN LoadedType(f) ELSE type[f]]
         /\ deps' = [f \in File |-> IF f \notin new THEN deps[f]
                                    ELSE IF type'[f] = "NONE" THEN {} ELSE cache[f].deps]
         /\ slot' = [f \in File |-> IF f \in new THEN cache[f].slot ELSE slot[f]]
  /\ Know(DOMAIN cache)
  /\ todo' = IF pc = "load" THEN {f \in DOMAIN cache : type'[f] # "NONE"} ELSE todo
  /\ pc' = IF pc = "load" THEN "trust" ELSE "layout"
  /\ UNCHANGED <<fs, mode, done, stamp, rewritten, explicit, stack, bounds, settled>>

(* (Faulty variant: what it depends on does not matter.)                   *)
TrustedAlone(f) == TRUE

Trusted(f) == \A d \in deps[f] : type[d] # "NONE"

(* What depends on something that is not trusted is not trusted, in the    *)
(* order of the number of dependencies.                                    *)
Trust(f) ==
  /\ pc = "trust" /\ f \in todo
  /\ \A g \in todo : Cardinality(deps[f]) <= Cardinality(deps[g])
  /\ IF Trusted(f) THEN UNCHANGED <<type, deps>>
     ELSE /\ type' = [type EXCEPT ![f] = "NONE"]
          /\ deps' = [deps EXCEPT ![f] = {}]
  /\ todo' = todo \ {f}
  /\ UNCHANGED <<fs, mode, done, ver, stamp, slot, rewritten, explicit, known, stack, pc,
                 bounds, settled>>

TrustEnd ==
  /\ pc = "trust" /\ todo = {}
  /\ todo' = mode.named
  /\ pc' = "gather"
  /\ UNCHANGED <<fs, mode, entries, stack, bounds, settled>>

-----------------------------------------------------------------------------
(* Gathering.                                                              *)

Top == stack[Len(stack)]

(* A call of gather_deps, with the .gnu.liblist that it has read.          *)
Frame(f) == [file |-> f, liblist |-> disk[f].liblist, traced |-> FALSE,
             failing |-> FALSE, cached |-> {}]

(* (Faulty variant: a library that is being gathered is not marked.)       *)
EnterUnmarked(f, t) ==
  /\ stack' = Append(stack, Frame(f))
  /\ type' = t
  /\ stamp' = [stamp EXCEPT ![f] = disk[f].stamp]
  /\ slot' = [slot EXCEPT ![f] = disk[f].slot]

(* gather_lib, gather_exec: the file is opened; what is known of it.       *)
Enter(f, t) ==
  /\ stack' = Append(stack, Frame(f))
  /\ type' = [t EXCEPT ![f] = IF f \in Lib THEN "BAD" ELSE @]
  /\ stamp' = [stamp EXCEPT ![f] = disk[f].stamp]
  /\ slot' = [slot EXCEPT ![f] = disk[f].slot]

(* gather_deps returns; a caller with a dependency that failed fails, and  *)
(* prelink exits when the file is a library named on the command line.     *)
Return(ok) ==
  /\ stack' = IF Len(stack) = 1 THEN << >>
              ELSE [Front(stack) EXCEPT ![Len(stack) - 1].failing = @ \/ ~ ok]
  /\ pc' = IF Len(stack) = 1 /\ Top.file \in Lib /\ ~ ok THEN "exit" ELSE pc

(* EXIT_FAILURE *)
Exit ==
  /\ pc = "exit"
  /\ End
  /\ UNCHANGED <<fs, runs, events, settled>>

(* gather_func, gather_binlib: an entry that has a type is taken as it is, *)
(* except that a file named on the command line gets another chance.       *)
Explore(f) ==
  /\ pc = "gather" /\ stack = << >>
  /\ f \in todo
  /\ todo' = todo \ {f}
  /\ explicit' = explicit \union {f}
  /\ IF type[f] = "NONE" \/ (type[f] = "UNPRELINKABLE" /\ ~ mode.all)
     THEN /\ Enter(f, [type EXCEPT ![f] = "NONE"])
          /\ deps' = [deps EXCEPT ![f] = {}]
     ELSE UNCHANGED <<stack, type, deps, stamp, slot>>
  /\ Know({f})
  /\ UNCHANGED <<fs, mode, done, rewritten, pc, bounds, settled>>

(* ld.so lists the dependencies; those that come from the cache are        *)
(* gathered again.                                                         *)
Trace ==
  /\ pc = "gather" /\ stack # << >> /\ ~ Top.traced
  /\ LET f == Top.file
         cached == {d \in needs[f] : type[d] = "CACHE_DYN"}
     IN  /\ type' = [x \in File |-> IF x \in cached THEN "NONE" ELSE type[x]]
         /\ deps' = [x \in File |-> IF x = f THEN needs[f]
                                    ELSE IF x \in cached THEN {} ELSE deps[x]]
         /\ stack' = [stack EXCEPT ![Len(stack)].traced = TRUE,
                                   ![Len(stack)].cached = cached]
         /\ Know(needs[f])
  /\ UNCHANGED <<fs, mode, done, stamp, slot, rewritten, explicit, todo, pc,
                 bounds, settled>>

(* The file is not one prelink handles (check_dso), or ld.so fails.        *)
TraceFails ==
  /\ pc = "gather" /\ stack # << >> /\ ~ Top.traced
  /\ Failure
  /\ \E t \in {"UNPRELINKABLE", type[Top.file]} :
       /\ mode.undo => t = type[Top.file]
       /\ type' = [type EXCEPT ![Top.file] = t]
  /\ Return(FALSE)
  /\ UNCHANGED <<fs, mode, done, deps, ver, stamp, slot, rewritten, explicit, known, todo,
                 runs, settled>>

(* The dependencies that have to be gathered: all of them, or, when one    *)
(* failed, those that the cache knew.                                      *)
Pending == {d \in (IF Top.failing THEN Top.cached ELSE deps[Top.file]) : type[d] = "NONE"}

Descend(d) ==
  /\ pc = "gather" /\ stack # << >> /\ Top.traced
  /\ d \in Pending
  /\ Enter(d, type)
  /\ UNCHANGED <<fs, mode, done, deps, ver, rewritten, explicit, known, todo, pc, bounds,
                 settled>>

(* (Faulty variant: cycles are accepted.)                                  *)
NoCycle(f) == FALSE

Cycle(f) == \E d \in deps[f] : f \in deps[d]

(* A dependency failed, or the file depends on itself.                     *)
GatherFails ==
  /\ pc = "gather" /\ stack # << >> /\ Top.traced
  /\ Pending = {}
  /\ Top.failing \/ Cycle(Top.file)
  /\ deps' = [deps EXCEPT ![Top.file] = {}]
  /\ Return(FALSE)
  /\ UNCHANGED <<fs, mode, type, done, ver, stamp, slot, rewritten, explicit, known, todo,
                 bounds, settled>>

(* (Faulty variant: the stamps of the dependencies are not compared.)      *)
MatchesNames(f) == DOMAIN Top.liblist = deps[f] /\ \A d \in deps[f] : done[d] # 0

(* The .gnu.liblist is what prelinking would write.                        *)
Matches(f) ==
  /\ DOMAIN Top.liblist = deps[f]
  /\ \A d \in deps[f] : Top.liblist[d] = stamp[d] /\ done[d] # 0

(* (Faulty variants: with -u, too; the test for a library that has not     *)
(* been prelinked is made for every file.)                                 *)
AsIsMatching(f) == Matches(f) /\ (f \in Lib => stamp[f] # 0)
AsIsStamped(f) ==
  IF mode.undo THEN stamp[f] # 0 \/ Top.liblist # NotPrelinked
               ELSE Matches(f) /\ stamp[f] # 0

(* done = 2: up to date or, with -u, prelinked (.gnu.prelink_undo).        *)
AsIs(f) ==
  IF mode.undo THEN stamp[f] # 0 \/ Top.liblist # NotPrelinked
               ELSE Matches(f) /\ (f \in Lib => stamp[f] # 0)

GatherDone ==
  /\ pc = "gather" /\ stack # << >> /\ Top.traced
  /\ Pending = {}
  /\ ~ Top.failing /\ ~ Cycle(Top.file)
  /\ LET f == Top.file IN
       IF \E d \in deps[f] : type[d] = "UNPRELINKABLE"
       THEN /\ type' = [type EXCEPT ![f] = "UNPRELINKABLE"]
            /\ Return(FALSE)
            /\ UNCHANGED done
       ELSE /\ type' = [type EXCEPT ![f] = IF f \in Lib THEN "DYN" ELSE "EXEC"]
            /\ done' = [done EXCEPT ![f] = IF AsIs(f) THEN 2 ELSE 0]
            /\ Return(TRUE)
  /\ UNCHANGED <<fs, mode, deps, ver, stamp, slot, rewritten, explicit, known, todo,
                 bounds, settled>>

(* gather_check_libs *)
CheckLibs ==
  /\ pc = "gather" /\ stack = << >> /\ todo = {}
  /\ type' = [f \in File |-> IF type[f] = "DYN" /\ f \in mode.outside \ explicit
                             THEN "BAD" ELSE type[f]]
  /\ IF mode.undo
     THEN todo' = {f \in File : type'[f] \in {"DYN", "EXEC"} /\ done[f] = 2} /\ pc' = "undo"
     ELSE /\ pc' = IF mode.all \/ mode.quick THEN "layout" ELSE "load_rest"
          /\ UNCHANGED todo
  /\ UNCHANGED <<fs, mode, done, deps, ver, stamp, slot, rewritten, explicit, known,
                 stack, bounds, settled>>

-----------------------------------------------------------------------------
(* The result of layout_libs: see module Layout.                           *)

LayoutLibs == {l \in Lib : type[l] \in {"DYN", "CACHE_DYN"}}

(* done after find_libs *)
Found == [f \in File |-> IF type[f] \in {"CACHE_DYN", "CACHE_EXEC"} THEN 2
                         ELSE IF mode.force THEN 0 ELSE done[f]]

(* The pairs of dependencies of one file that the overlap pass compares.   *)
Overlaps ==
  {p \in Lib \X Lib :
     /\ p[1] # p[2] /\ slot[p[1]] = slot[p[2]]
     /\ \A l \in {p[1], p[2]} : type[l] = "DYN" /\ Found[l] # 0
     /\ \E f \in File : /\ type[f] \in {"DYN", "EXEC", "CACHE_DYN", "CACHE_EXEC"}
                       /\ {p[1], p[2]} \subseteq deps[f]}

(* What loses its slot: enough to resolve the overlaps, and what depends   *)
(* on it (Layout!DoneClosed).                                              *)
Lost(victims) ==
  LET gone == victims \union {f \in File : Found[f] = 0}
  IN  {l \in LayoutLibs : l \in gone \/ deps[l] \intersect gone # {}}

DoLayout ==
  /\ pc = "layout"
  /\ \E victims \in SUBSET {p[1] : p \in Overlaps} :
       /\ \A p \in Overlaps : p[1] \in victims \/ p[2] \in victims
       /\ LET lost == Lost(victims)
              free == Slots \ {slot[l] : l \in LayoutLibs \ lost}
          IN  /\ \E s \in Injection(lost, free) :
                   slot' = [f \in File |-> IF f \in lost THEN s[f] ELSE slot[f]]
              /\ done' = [f \in File |-> IF f \in lost THEN 1 ELSE Found[f]]
  /\ todo' = {f \in File : \/ type[f] = "DYN" /\ done'[f] = 1
                           \/ type[f] = "EXEC" /\ done'[f] = 0}
  /\ pc' = "prelink"
  /\ UNCHANGED <<fs, mode, type, deps, ver, stamp, rewritten, explicit, known, stack, bounds,
                 settled>>

(* "Could not find virtual address slot", because of the sizes: prelink    *)
(* exits.                                                                  *)
NoSlot ==
  /\ pc = "layout"
  /\ \E f \in LayoutLibs : Found[f] = 0
  /\ Event
  /\ End
  /\ UNCHANGED <<fs, runs, settled>>

-----------------------------------------------------------------------------
(* Prelinking.                                                             *)

(* prelink_ent prelinks the dependencies that have a new slot first.       *)
Ready(f) == pc = "prelink" /\ f \in todo /\ \A d \in deps[f] : done[d] # 1

(* (Faulty variant: only the libraries that have a new slot matter.)       *)
DepsDoneNew(f) == \A d \in deps[f] : done[d] # 1

DepsDone(f) == \A d \in deps[f] : done[d] = 2

(* What its dependencies were prelinked against is used by the file too.   *)
DepsKnown(f) == \A d \in deps[f] : deps[d] \subseteq deps[f] \union {f}

Refused(f, t) ==
  /\ done' = [done EXCEPT ![f] = 0]
  /\ type' = [type EXCEPT ![f] = t]
  /\ todo' = todo \ {f}

PrelinkRefused(f) ==
  /\ Ready(f)
  /\ ~ (DepsDone(f) /\ DepsKnown(f))
  /\ Refused(f, "UNPRELINKABLE")
  /\ UNCHANGED <<fs, mode, deps, ver, stamp, slot, rewritten, explicit, known, stack,
                 pc, bounds, settled>>

(* "changed during prelinking" *)
PrelinkChanged(f) ==
  /\ Ready(f) /\ DepsDone(f) /\ DepsKnown(f)
  /\ disk[f].ver # ver[f]
  /\ Refused(f, type[f])
  /\ UNCHANGED <<fs, mode, deps, ver, stamp, slot, rewritten, explicit, known, stack,
                 pc, bounds, settled>>

(* open_dso, prelink or, when the entry has the new stamp already,          *)
(* update_dso fails.                                                       *)
PrelinkFails(f) ==
  /\ Ready(f) /\ DepsDone(f) /\ DepsKnown(f)
  /\ disk[f].ver = ver[f]
  /\ Failure
  /\ \/ /\ \E t \in {type[f], "UNPRELINKABLE"} : Refused(f, t)
        /\ UNCHANGED <<stamp, clock>>
     \/ /\ Refused(f, type[f])
        /\ stamp' = [stamp EXCEPT ![f] = IF f \in Lib THEN clock + 1 ELSE @]
        /\ clock' = clock + 1
  /\ UNCHANGED <<needs, disk, cache, raced, mode, deps, ver, slot, rewritten, explicit, known,
                 stack, pc, runs, settled>>

(* The file is replaced (see Replace).                                     *)
PrelinkEnt(f) ==
  /\ Ready(f) /\ DepsDone(f) /\ DepsKnown(f)
  /\ disk[f].ver = ver[f]
  /\ LET s == IF f \in Lib THEN clock + 1 ELSE 0
     IN  /\ disk' = [disk EXCEPT ![f] =
                       [ver |-> clock + 1, slot |-> slot[f], stamp |-> s,
                        liblist |-> [d \in deps[f] |-> stamp[d]]]]
         /\ stamp' = [stamp EXCEPT ![f] = s]
  /\ clock' = clock + 1
  /\ done' = [done EXCEPT ![f] = 2]
  /\ rewritten' = rewritten \union {f}
  /\ pc' = "stat"
  /\ settled' = FALSE
  /\ UNCHANGED <<needs, cache, raced, mode, type, deps, ver, slot, explicit, known, stack, todo,
                 bounds>>

(* Then stat64 of its name: the entry gets the times of what is there now. *)
Statting(f) == pc = "stat" /\ f \in todo \intersect rewritten

StatEnt(f) ==
  /\ Statting(f)
  /\ ver' = [ver EXCEPT ![f] = disk[f].ver]
  /\ todo' = todo \ {f}
  /\ pc' = "prelink"
  /\ UNCHANGED <<fs, mode, type, done, deps, stamp, slot, rewritten, explicit, known, stack,
                 bounds, settled>>

StatFails(f) ==
  /\ Statting(f)
  /\ Failure
  /\ todo' = todo \ {f}
  /\ pc' = "prelink"
  /\ UNCHANGED <<fs, mode, entries, stack, runs, settled>>

(* undo_one *)
UndoOne(f) ==
  /\ pc = "undo" /\ f \in todo
  /\ todo' = todo \ {f}
  /\ IF disk[f].ver = ver[f]
     THEN /\ disk' = [disk EXCEPT ![f] = Fresh(clock + 1)]
          /\ clock' = clock + 1
     ELSE UNCHANGED <<disk, clock>>
  /\ settled' = FALSE
  /\ UNCHANGED <<needs, cache, raced, mode, entries, stack, pc, bounds>>

(* prelink_undo or update_dso fails.                                       *)
UndoFails(f) ==
  /\ pc = "undo" /\ f \in todo
  /\ todo' = todo \ {f}
  /\ Failure
  /\ UNCHANGED <<fs, mode, entries, stack, pc, runs, settled>>

UndoEnd ==
  /\ pc = "undo" /\ todo = {}
  /\ End
  /\ UNCHANGED <<fs, runs, events, settled>>

-----------------------------------------------------------------------------
(* Saving the cache.                                                       *)

(* With -q: the file was prelinked in this run, so that what the cache     *)
(* says about its users is out of date.                                    *)
Moved(d) == mode.quick /\ d \in rewritten

(* prelink_save_cache_check: an entry that was not gathered is kept when   *)
(* this holds of its dependencies, and of theirs where the check recurs.   *)
Keep(f) ==
  \E K \in SUBSET File :
    /\ f \in K
    /\ \A g \in K : \A d \in deps[g] :
         \/ type[d] = "DYN" /\ done[d] = 2 /\ ~ Moved(d)
         \/ type[d] = "CACHE_DYN" /\ d \in K
         \/ type[d] = "UNPRELINKABLE" /\ type[g] = "UNPRELINKABLE" /\ d \in K

(* (Faulty variant: also what was not prelinked.)                          *)
SavedAll ==
  {f \in File :
     \/ type[f] \in {"DYN", "EXEC"}
     \/ type[f] \in {"CACHE_DYN", "CACHE_EXEC", "UNPRELINKABLE"} /\ Keep(f)}

Saved ==
  {f \in File :
     \/ type[f] \in {"DYN", "EXEC"} /\ done[f] = 2
     \/ type[f] \in {"CACHE_DYN", "CACHE_EXEC", "UNPRELINKABLE"} /\ Keep(f)}

SaveReady == pc = "prelink" /\ todo = {}

Success == /\ mode.all /\ ~ failed
           /\ \A l \in Lib : type[l] = "DYN"
           /\ \A f \in File : type[f] \in {"DYN", "EXEC"} /\ UpToDate(f)

(* prelink_save_cache: a temporary file is written and renamed.            *)
SaveCache ==
  /\ SaveReady
  /\ \A f \in Saved : deps[f] \subseteq Saved
  /\ cache' = [f \in Saved |->
                 [ver |-> ver[f],
                  slot |-> IF f \in Exe \/ type[f] = "UNPRELINKABLE" THEN 0 ELSE slot[f],
                  deps |-> deps[f],
                  unprelinkable |-> type[f] = "UNPRELINKABLE"]]
  /\ settled' = Success
  /\ End
  /\ UNCHANGED <<needs, disk, clock, raced, runs, events>>

SaveFails ==
  /\ SaveReady
  /\ Event
  /\ End
  /\ UNCHANGED <<fs, runs, settled>>

(* abort () *)
Abort ==
  /\ SaveReady
  /\ \E f \in Saved : ~ (deps[f] \subseteq Saved)
  /\ pc' = "aborted"
  /\ UNCHANGED <<fs, mode, entries, stack, todo, bounds, settled>>

-----------------------------------------------------------------------------

(* A new version of a file is installed.                                   *)
Upgrade(f) ==
  /\ Event
  /\ disk' = [disk EXCEPT ![f] = Fresh(clock + 1)]
  /\ clock' = clock + 1
  /\ raced' = IF Statting(f) THEN raced \union {clock + 1} ELSE raced
  /\ settled' = FALSE
  /\ UNCHANGED <<needs, cache, mode, entries, stack, todo, pc, runs, failed>>

(* prelink is killed.                                                      *)
Crash ==
  /\ pc \notin {"idle", "aborted"}
  /\ Event
  /\ End
  /\ UNCHANGED <<fs, runs, settled>>

Finished == pc = "aborted" \/ (pc = "idle" /\ runs = MaxRuns)

Terminating == Finished /\ UNCHANGED vars

Gather ==
  \/ \E f \in File : Explore(f) \/ Descend(f)
  \/ Trace \/ TraceFails \/ GatherFails \/ GatherDone \/ CheckLibs \/ Exit

Prelink ==
  \/ \E f \in File : PrelinkRefused(f) \/ PrelinkChanged(f) \/ PrelinkFails(f)
                     \/ PrelinkEnt(f) \/ StatEnt(f) \/ StatFails(f)
                     \/ UndoOne(f) \/ UndoFails(f)
  \/ UndoEnd \/ SaveCache \/ SaveFails \/ Abort

Next ==
  \/ \E m \in Modes : Start(m)
  \/ LoadCache \/ (\E f \in File : Trust(f)) \/ TrustEnd
  \/ Gather \/ DoLayout \/ NoSlot \/ Prelink
  \/ \E f \in File : Upgrade(f)
  \/ Crash
  \/ Terminating

Spec == Init /\ [][Next]_vars

-----------------------------------------------------------------------------
(* Properties.                                                             *)

(* The variables have their types; the dependencies of a cache entry are   *)
(* in the cache; and no file is gathered while it is being gathered, so    *)
(* that the recursion of gather_deps is bounded.                           *)
TypeOK ==
  /\ needs \in DepLists
  /\ \A f \in File :
       /\ {disk[f].ver, disk[f].slot, disk[f].stamp} \subseteq Nat
       /\ DOMAIN disk[f].liblist \subseteq Lib
  /\ DOMAIN cache \subseteq File
  /\ \A f \in DOMAIN cache : cache[f].deps \subseteq DOMAIN cache
  /\ type \in [File -> Types] /\ done \in [File -> 0..2] /\ deps \in [File -> SUBSET Lib]
  /\ rewritten \union explicit \union known \subseteq File /\ todo \subseteq File
  /\ \A i \in 1..Len(stack) : stack[i].file \in File
  /\ \A i, j \in 1..Len(stack) : stack[i].file = stack[j].file => i = j

Unaltered(f) == disk[f].ver = ver[f]

(* ... and the version is not one that prelink_ent has taken for the file  *)
(* that it wrote itself.                                                   *)
Sure(f) == Unaltered(f) /\ disk[f].ver \notin raced

(* What prelink has written was prelinked against its dependencies as they *)
(* are at the end, and knows everything they were prelinked against,       *)
(* whatever failed, unless a file was upgraded during the run: prelink_ent *)
(* prelinks the dependencies first and refuses a file when one of them is  *)
(* not done.                                                               *)
WrittenUpToDate ==
  \A f \in rewritten :
    Sure(f) /\ (\A d \in deps[f] : Sure(d)) =>
      /\ UpToDate(f)
      /\ \A d \in deps[f] : DOMAIN disk[d].liblist \subseteq DOMAIN disk[f].liblist

(* A library that prelink leaves as it is or has prelinked is up to date   *)
(* when the cache is saved.                                                *)
LibrariesUpToDate ==
  SaveReady =>
    \A l \in Lib :
      /\ type[l] = "DYN" /\ done[l] = 2
      /\ Sure(l) /\ \A d \in deps[l] : Sure(d)
      => UpToDate(l)

(* With -q, a library that is taken from the cache without looking at its  *)
(* file is up to date, over any sequence of runs with -a or -q, failures,  *)
(* upgrades and crashes, unless a file was upgraded since it was checked,  *)
(* or between the rename and the stat64 of prelink_ent, or a dependency is *)
(* blacklisted (its times are not compared then).                          *)
QuickSound ==
  pc = "trust" /\ todo = {} =>
    \A l \in Lib :
      /\ type[l] = "CACHE_DYN"
      /\ Sure(l) /\ \A d \in deps[l] : Sure(d) /\ d \notin mode.banned
      => UpToDate(l)

(* The cache holds the slots that the files have, where it matches them    *)
(* (and prelink_ent has not taken a version that came from outside for the *)
(* file that it wrote).                                                    *)
CacheSlots ==
  \A l \in DOMAIN cache \intersect Lib :
    /\ cache[l].ver = disk[l].ver /\ disk[l].ver \notin raced
    /\ ~ cache[l].unprelinkable
    => cache[l].slot = disk[l].slot

(* No two gathered files depend on each other: layout and prelink_ent      *)
(* would not end.                                                          *)
Acyclic ==
  pc \notin {"idle", "load", "trust", "gather"} =>
    \A f \in File : type[f] \in {"DYN", "EXEC"} =>
      \A d \in deps[f] : type[d] = "DYN" => f \notin deps[d]

(* When nothing has changed since a complete run, a run rewrites nothing.  *)
Idempotent ==
  [][settled /\ ~ mode.force /\ ~ mode.undo => rewritten' \subseteq rewritten]_vars

(* prelink -u -a leaves nothing prelinked that it has gathered, also what  *)
(* was out of date, when nothing fails (gather_deps, undo_one).            *)
Undone ==
  pc = "undo" /\ todo = {} /\ ~ failed =>
    \A f \in File : type[f] \in {"DYN", "EXEC"} =>
      disk[f].stamp = 0 /\ disk[f].liblist = NotPrelinked

(* The dependencies of everything saved are saved (prelink_save_cache).    *)
NoAbort == pc # "aborted"
=============================================================================
