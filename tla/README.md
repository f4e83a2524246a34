# Formal models of prelink

prelink assigns every shared library a fixed virtual address range, relocates
the library to it, and stores in every executable what ld.so would otherwise
have to compute at each start.  It does so by rewriting the libraries and
executables of a running system in place.  This directory holds TLA+ models of
the parts of prelink where that can go wrong, TLC configurations that check
them on small instances, and TLAPS proofs of the properties that matter most
for every instance.  Paths below are relative to the repository's `src/`.

## 1. The system

| Part | Files | State | Operations |
|---|---|---|---|
| Gathering | gather.c | `prelink_filename_htab`, `prelink_devino_htab`: one entry per file with `type`, `done`, `depends`, `timestamp`, `checksum`, `base`, `refs` | `gather_object` and what it calls: run ld.so for the dependencies, recurse into them, compare `.gnu.liblist` with them |
| Cache | cache.c | `/etc/prelink.cache` | load (with `-q`: trust by ctime and mtime), find or insert an entry, save |
| Layout | layout.c | `base`, `end`, `layend`, `done` of the libraries; an address ordered list | `layout_libs` |
| Prelinking order | doit.c | `done` | `prelink_all`, `prelink_ent` (recursive) |
| Relocation | prelink.c, reloc.c, get.c, conflict.c, cxx.c, arch-*.c | one `DSO`, the symbols ld.so resolved, the conflicts | resolve and write each relocation; compute `.gnu.conflict`; drop the conflicts C++ virtual tables do not need |
| Object editing | dso.c, exec.c, space.c, data.c | sections, headers and data of one `DSO` | move sections, add sections, adjust addresses |
| File replacement | dso.c, doit.c, undoall.c | the file system | temporary file, fsync, rename, redo hard links |
| Undo | undo.c, undoall.c | `.gnu.prelink_undo` | restore sections and contents, replace the file |
| Verification | verify.c, checksum.c, md5.c, sha.c | | undo, prelink again, compare |
| Debug sections | dwarf2.c, stabs.c, mdebug.c | | adjust addresses |
| execstack | execstack*.c | | flip the stack flag |

`main.c` runs the parts in order: load the cache (first with `-q`, after
gathering without `-a`), gather, lay out, prelink, save the cache; with `-u` it
gathers and undoes.  The parts communicate through the entries: gathering sets
`type` and `done`; layout clears `done` where a slot has to change and sets it
to 1 where it assigned one; `prelink_ent` turns 1 into 2, or into 0 on failure;
`prelink_save_cache` reads both.  Between invocations they communicate through
the files (`DT_GNU_PRELINKED`, `DT_CHECKSUM`, `.gnu.liblist`) and the cache.

What is hard here: prelink is sequential, but it is killed, files are upgraded
under it, system calls fail half way, and the meaning of `done` is spread over
five files.  Layout is a chain of in-place passes whose order and index
arithmetic decide whether slots overlap.  PROJECT.json lists the hazards with
the lines where they bite.

What makes each part correct:

* gathering: no dependency cycle is accepted; what is skipped is up to date;
* cache: it tells the truth; `-q` trusts nothing whose dependencies changed;
* layout: the libraries of one process do not overlap; nothing stays prelinked
  against an address that changes;
* order: nothing is written with the stamp of a dependency that is not final;
* replacement: a name always refers to a complete file, hard links stay links;
* relocation: prelinked contents plus conflicts equal what ld.so would compute;
* undo: the original contents come back.

## 2. The modules

| Module | Models | Proofs |
|---|---|---|
| Layout | layout.c, `layout_libs`, one action per loop iteration | LayoutProofs |
| Replace | the system calls of doit.c `prelink_ent`, undoall.c `undo_one`, dso.c `update_dso` for one file and its hard links | ReplaceProofs |
| AtomicReplace | what Replace promises: a file changes at once or not at all | |
| Session | sequences of invocations: cache.c, gather.c, the effect of layout.c, doit.c, undoall.c, main.c | SessionProofs, SessionCacheProofs |
| Reloc | the word a callback works on: fields, branch ranges, results | |
| ArchX86, ArchS390, ArchSh, ArchAlpha, ArchPpc, ArchPpc64, ArchSparc, ArchSparc64, ArchArm, ArchMips | the relocation callbacks of arch-*.c, one operator per callback | ArchRelaProofs, ArchRelProofs |
| PLArch | `struct PLArch`: the callback of the architecture at hand | |
| LdSo | external: what ld leaves in a word, what ld.so makes of it | |
| Relocation | the life of one relocation: prelink.c, reloc.c, dso.c, undo.c, get.c, conflict.c and `-r` around the callbacks | RelocationProofs, TransparentProofs |
| Space | space.c: `find_readonly_space` and the table of moved sections | |
| ExecSections | exec.c, undo.c, verify.c over the section and program headers of an executable, on top of Space | |
| Cxx | conflict.c for a whole program; cxx.c | |

The modules whose names begin with MC give the constants their values.

Composition.  Session takes `layout_libs` as its result and the rewriting of a
file as one step; Layout shows that the passes produce such a result, and
Replace implements AtomicReplace, which is that one step.  Relocation runs the
back ends through PLArch against LdSo.  Cxx takes words and conflicts for
granted as Relocation shows them.  ExecSections uses Space.

**Layout** keeps the fields of the entries under their names.  `wrapped` is the
0x80 bit of `done`; `list` is the linked list; `todo`, `work`, `j`, `cur` and
`cand` are the loop variables; `pc` names the loop.  qsort is modelled as any
permutation without an inversion under the comparison function, the random
start of `-R` as any address of the region.  `disk` remembers the slot the file
itself has, so that properties can compare.  Addresses are naturals: the code
computes in 64 bits also for 32-bit architectures, and clears `random_base`
when the range above the region does not exist.

**Replace** has names and inodes.  Every system call is an action and may fail,
and each function has the error path it has in the code: `reopen_dso`, the
`close_dso` of `prelink_ent` and `undo_one`, and `update_dso` unlink the
temporary file each on their own, and the unlink may fail (`stuck`).
`close_dso_1` looks neither at the result of fsync nor at that of close, so
`Close` goes on to the rename with a file that is `synced` or, when one of them
reported an error, `unsynced`.  `Crash` may happen anywhere; `UpgradeFile` and
`UpgradeLink` are another program renaming a file into place.
**AtomicReplace** knows only whether a name refers to the old file, the new one,
a new one of which storing reported an error, one from outside or nothing.  The
refinement mapping takes the inode behind each name to one of these, and a crash
or any failure to `End`: whatever the order of calls, the file changes in one
step, and only afterwards are its other names taken, each of which can be put
back.  Its fairness (the operation ends) follows from that of Replace.
ReplaceProofs proves the mapping for the steps, TLC checks it with the fairness.

**Session** represents the inode and time stamps of a file by a version, the
pair of prelink time stamp and checksum by a stamp from a clock, and an address
range by a slot.  Gathering keeps the recursion of `gather_deps` as a stack, so
upgrades, failures and kills fall between any two files.  The second pass of
`prelink_load_cache` takes the trust from one entry at a time (`Trust`), in the
order of the number of dependencies; `prelink_save_cache_check` is the largest
set of entries that its recursion accepts (`Keep`).  `-a`, `-q`, `-f`, `-u`,
`-b` (files, which are refused from the start, and libraries that are in a
blacklisted directory or in none that is configured) and the named files are a
record per invocation.  `prelink_ent` is two steps, the replacement of the file
and, after its hard links, the stat64 of its name, whose times go into the
entry; the versions that were installed in between are remembered in `raced`.  `layout_libs` is its
result: any choice of libraries that resolves the overlaps loses its slots, with
all that depends on them, and any free slots are assigned.

**Relocation** follows one relocated word: its type, REL or RELA, addend,
contents, the base of the object and got[1], since the callbacks read and write
nothing else.  A file is prelinked again in place, as the code does, so actions
start from what earlier ones left.  There are 15 variants: x86-64, x32, i386,
s390, s390x, sh, alpha, ppc with the secure and with the .bss PLT, ppc64,
sparc, sparc64, arm, mips and mips64; each with all types its callbacks
distinguish.  The words of the MIPS GOT have no relocations in the file; they
are types of their own, which only `arch_prelink`, `arch_undo` and the adjusting
of `.dynamic` treat; a `TLS_DESC` of an ARM object without `DT_TLSDESC_PLT` is
one too, `TLS_DESC_NOW`.  A refusal by a callback that rewrites words is in
`r.ok`.  `exe` is what is known of an executable that uses the word: whether
its conflicts could be built (`refused` if a conflict callback fails or a
conflict does not fit into a copied variable), the conflict, and what
`get_relocated_mem` computes of the word: for a library's word in a variable
that the executable copies, its bytes with the conflict applied; for a word of
the executable itself, what `apply_rel` makes of it, and no conflict.  The reference is LdSo.  Values are integers without a
modulus; a field of 8, 14, 16, 24 or 30 bits, or one that holds the high part of
a value, keeps its width.

The back ends do not handle every case like ld.so.  Not among the inputs are: an
ifunc with an addend or in a word that has not the size of an address (x86-64
would write the eight bytes of an `IRELATIVE` into a four byte word, and resolve
a `PC32` without calling the ifunc); an `R_386_TLS_TPOFF32` with an addend
(negated by `i386_prelink_conflict_rela`, added by ld.so); an
`R_X86_64_RELATIVE` whose word is not its addend (undoing leaves the addend
there).  The properties leave out, each by a named predicate of Relocation:

* `WrongConflict`: sh adds the addend to a conflict twice; ppc and ppc64 lose the
  prediction bit of an `ADDR14_BRTAKEN` in a conflict.
* `WrongWord`: sh computes a `REL32` without the address of the word; sparc and
  sparc64 add the addend of a TLS relocation twice; ppc64 reads the low bits of
  a DS field from the wrong place.
* `WrongCopy`: `get_relocated_mem` does not resolve a word of the executable that
  is for an ifunc (the comparison of tables gives up then for another reason),
  and MIPS does not apply the `GLOB_DAT` of an executable that was prelinked
  before; the result of `apply_rel` is ignored (conflict.c:439).
* `WrongAddend`: alpha moves the addend of a `JMP_SLOT` when it equals the word;
  for a symbol that is not found both are 0, and the addend grows.
* `WrongForm`, `WrongUndo`: undoing clears the low bits of a DS field; sparc
  leaves the address of a `RELATIVE` in the addend, where it may have been in
  the word; sparc64 refuses an `OLO10` with its second addend.

**ExecSections** prelinks an executable again and again at the level of headers,
as `prelink_exec` does: back to the original headers (`undo_sections`), sections
that change size taken out, each request placed by `find_readonly_space`, the
copy relocation area and `.gnu.prelink_undo` inserted, the file reopened with
the table of moves, file offsets recomputed.  **Space** has every way of making
room: a hole, the end of the first segment, room gained by moving sections or
the program headers, a new segment below or at the end, a `.bss` that becomes
part of the file.  A section is known by its name, and its contents are left
out.  `Verify` is `prelink -y`: a copy is undone and prelinked with the same
request, and compared.  Abstracted: `.rel.dyn` is one section, `.rel.plt` is
never converted, there is no `.sdynbss` and no `.dynbss` before prelinking, the
executable is stripped, so that `section_reorder_fix` has nothing to do, and
section names are unique.  With code in a segment of its own, the limit of a
hole (space.c:291) lets a section be placed over the next segment, and
`check_dso` then refuses to write the file; `OwnChecks` says that prelink's own
checks never fail otherwise.

**Cxx** builds the conflicts of an executable with two libraries, library by
library, evaluates the COPY relocations, and runs
`remove_redundant_cxx_conflicts` entry by entry with the search of
`find_cxx_sym` from its last hit.  A world says which object defines, refers to,
calls, copies or gives a second name to what.  Words have size 1 and relocations
are absolute; TLS lookups are left out; allocation does not fail; the list or
hash table of conflicts is a set; the caches of symbols are made all at once,
not when first needed; `SizeLimit` stands for the 16384 bytes above which tables
are not compared.  A second name without a size at the very start of a table is
not among the inputs: the overlap test of `create_cache` does not see it.

## 3. The runs

| Run | Result | States | Question |
|---|---|---|---|
| LayoutDefault | pass | 2 046 384 | three libraries, one executable, every dependency graph, every mix of prelinked (also overlapping), new and refused: disjoint slots, nothing stale among libraries, termination |
| LayoutConserve | pass | 8 425 687 | `-m -f -R` with two executables: entries from the cache and unaligned ones, a region small enough for the list to be turned with the fake entry, to wrap and to overflow |
| LayoutConserveLibrary | violation | | finding 1: `-m` and a library's own dependencies |
| Replace | pass | 41 247 | two hard links, two upgrades, any number of failures on every error path, with and without `-u` and `-n`; refinement of AtomicReplace |
| Session | pass | 5 252 311 | three invocations out of `-a`, `-a -q`, `-q` with two named files and a blacklisted one, `-u -a`, one upgrade, failure or kill |
| SessionOutside | violation | | finding 2: blacklisting a prelinked library aborts |
| SessionNamed | violation | | finding 3: the cache after a plain `prelink FILE` |
| Relocation | pass | 218 896 | every type of the 15 variants, two bases, any order of prelinking, `-r`, undoing and prelinking a user |
| RelocationMoved | violation | | finding 4: `-r` on a prelinked library |
| ExecSections | pass | 49 872 | executables of 58 shapes prelinked twice with changing requests, undone and verified |
| ExecTight | violation | | finding 5: a section taken out to make room for a program header |
| Cxx | pass | 221 634 | 19352 worlds: what is dropped changes nothing, what can be dropped is |

What the properties of the lower layers mean:

* `Accepted`: no callback that adjusts, prelinks or undoes a word refuses what
  prelink itself wrote.  `ConflictsAccepted`: no word gets into a state from
  which the conflicts of an executable cannot be built, but for defect c below.
  `Transparent`: a
  prelinked word with its conflicts is what ld.so computes.  `StillRelocatable`:
  when ld.so does not use the prelinking, it gets the same result from the
  prelinked file as from the original one.  `UndoRestores` and `CopyFaithful`:
  undoing, and what prelink computes of words itself: the copies in `.dynbss`
  and what the C++ optimization compares.
* `NeverPartial`: no name refers to an incomplete file unless fsync or close
  reported an error.  `NoTemporary`: no error path leaves the temporary file
  unless unlink fails.  `ImplementsAtomic`: the refinement above, and that the
  replacement ends.
* `CacheSlots`, `QuickSound`: what the cache says, and what `-q` trusts, is true
  but for versions in `raced` (defect b below), in runs with `-a` or `-q`
  (finding 3).  `QuickSound` leaves out libraries with a dependency that is
  blacklisted in this run: its times are not compared.
* `OwnChecks`: prelink's own consistency checks never fail on what it made.
  `Recognised`: every section gets back the header it had.  `SectionsKept`: code
  and data stay at their addresses.  `ImageConsistent`, `FileConsistent`:
  sections do not overlap in memory or in the file, and segments map what they
  describe.  `Verifies`: `-y` finds no fault with an executable that nobody has
  changed.
* `ProgramUnchanged`: after dropping conflicts every table that the program has
  the address of still has the contents ld.so would give it, up to a jump
  through the executable's PLT.  `RedundantRemoved`: the search misses no table.

Bounds.  Three libraries are the least for which the overlap pass has to step
back, for which propagation has two levels, and for which a list has a middle.
Addresses run from 4 to 14 with pages of 2 and a gap of 1, so that a library may
be unaligned, end on or off a page boundary, and not fit; with slots at 4 and 8
the list is turned between two entries.  In Session two
libraries and two executables give the chain, the independent pair and the
cycle; three invocations are a first one, one after an event, and one that
would have to repair; the event may be at any step.  `Idempotent` and
`QuickSound` need the second and the third.  In Relocation the state space is
finite and explored completely, but for files of the kind `WrongAddend`, which
are followed no further: two bases besides the one ld chose let an object
move twice, and the addresses of symbols, slots and addends are chosen such that
no two sums coincide.  In ExecSections a page has 32 units and a program header
4; the shapes combine a hole, slack behind the read-only sections, the
alignment of segments, a small or large `.bss`, a NOBITS `.plt`, an unused
program header, separate code and room behind the headers; the second
prelinking meets everything the first may have left.  In Cxx two libraries that
define the same table, in either scope, are the least for a superseded table;
worlds with 18 tables make the search use each of its bounds, which differ from
16 entries on.

Fairness.  Layout and Replace assume weak fairness of prelink's own steps only:
it is one process that goes on unless it is killed, and each of its calls
returns.  Crashes and upgrades are not assumed to happen or to stop.  The other
modules assume none and have no liveness property: an invocation may be
killed, and nobody has to run prelink again.

Deadlock is checked in every run but those of Relocation and ExecSections: there
an object may have no further operation (a callback refused it, or the bound of
prelinkings is reached).  An explicit `Terminating` step marks where a process
ends.

## 4. Findings

Each is shown by a run of its own:

1. `-m` may place a library over its own dependencies when nothing else uses
   the library (layout.c:511), against prelink.8's description of `-m`.
2. A library that was prelinked and is then blacklisted makes
   `prelink_save_cache` call `abort ()` (cache.c:668, gather.c:1254).
3. A plain `prelink FILE` believes the cache entries of other files without a
   look at them; the slot of an upgraded library is saved with its new times
   (cache.c:431).
4. `prelink -r` on a library that is prelinked leaves the words that were
   prelinked with symbols as they are, and the library still counts as prelinked
   (main.c:417); executables prelinked against it get wrong addresses.
5. When the program header table cannot grow and a section has to be taken out,
   two sections may end up with each other's header, and the executable cannot
   be undone (space.c:710).

Smaller defects that the models contain and that a property excepts by name; TLC
shows each of them when the exception is taken out of the property:

a. fsync and close of the new file may fail and `update_dso` renames it over the
   old one all the same, and reports success (dso.c:1658): the value "unsynced"
   in `NeverPartial`.
b. A version that is installed between the rename of `prelink_ent` and its stat64
   of the name gets into the cache with the slot of the prelinked one, and `-q`
   trusts it (doit.c:221): the versions `raced` in `CacheSlots` and in `Sure`.
c. An i386 or ARM executable with an absolute word for an ifunc cannot be
   prelinked: its conflicts are built before its REL section is converted, and
   the conflict callback refuses the word (exec.c:183, arch-i386.c:406): the
   right-hand side of `ConflictsAccepted`.
d. `apply_conflict_rela` reads an addend through a pointer into an array that it
   has just let grow (arch-x86_64.c:217): the word of a copied variable may get
   another ifunc: `exe.full` in `CopyFaithful`.
e. `prelink -u -n` redoes hard links (undoall.c:108): `undo` in `DryRunKept`.

Known behaviour that the properties allow for: an executable that was up to date
is not prelinked again when the overlap pass moves one of its libraries
(layout.c:332), ld.so notices at its next start; and the list of back end
defects in section 2.

## 5. The proofs

All theorems hold for every value of the constants that satisfies the named
assumptions of the modules (`LayoutAssumption`, `DepListsAssumption`,
`ReplaceAssumption`, `SessionAssumption`, `RelocationAssumption`): any sets of
files, any dependency lists that ld.so may report, any sizes, regions, options,
number of invocations, failures, upgrades and kills, any bases, addends and PLT
slots.  Every invariant below was checked by TLC on a
small instance before it was proved.  A theorem that needs more than the
assumptions says so in its statement.

**Layout.**

* `LayoutProofs!TypeCorrect`: the inductive invariant adds to the types
  `LoopShape` (the list is empty before it is built; list, todo and candidate
  range over libraries with or without a slot as their loop requires) and
  `SlotShape` (base <= end <= layend; a wrapped library has a slot and is at
  least a region's width up), without which moving back down could not be shown
  to stay natural.
* `LayoutProofs!DoneClosedHolds`: the invariant says that a library the pass has
  visited and left alone has no dependency without a slot.  It is preserved
  because dependency lists are transitively closed (`DepListsAssumption`): a
  library that is cleared later would have been cleared for a dependency that
  the visited one has too.
* `LayoutProofs!ListSortedHolds`, `SlotsMatchFilesHolds`, with every option:
  the invariant describes the list in each phase of the turning for `-R` (what
  was shifted up is in front of the fake entry, what was not is behind the
  start), and says of every library by how much its slot differs from its file.
* `LayoutProofs!NewSlotsUniqueHolds`, `DependenciesDisjointHolds`: the
  invariant says that the candidate address is behind the room of every list
  entry already passed that counts (with `-m` only those that may be loaded
  together), that the list holds every library with a slot in the region, and
  that the overlap pass has compared every pair up to its indices.  Two
  hypotheses are needed, and the code does not establish them.  `Enclosed`: with
  `-R` no file lies above the region.  The list is turned around `mmap_end`;
  without the fake entry a new slot may straddle it and overlap a library above,
  which is not in the list (for example slots at 0, 6 and 14 with `mmap_end` 14).
  `CachedApart`: a cached library and a gathered one that keeps its slot are
  apart; cached slots are never compared (layout.c:313), and an upgrade of the
  gathered one between two runs could otherwise put them together.
* `LayoutProofs!NewSlotsInRegionHolds`: without `-R`, and when no file lies
  behind the region: the room in front of the first list entry is not compared
  with `mmap_end`.

**Replace.**

* `TypeCorrect`, `NeverPartialHolds`, `LinkRecoverableHolds`: the invariants tie
  `pc` to the state of the temporary file (`StoreInv`: what is renamed was given
  to fsync) and of the hard link being moved.
* `HardlinksRedoneHolds`, `NoTemporaryHolds`, `ChangedKeptHolds`,
  `DryRunKeptHolds`: from `SafeInv`, which says what each name refers to before
  and after the loop over the hard links has passed it, and that what counts as
  kept was replaced from outside.
* `ReplaceProofs!Refinement`: `Spec => Atomic!Safety`, every initial
  state and every step of the system calls under the refinement mapping, one
  step per action.

**Session.**  `GatherInv` (SessionProofs) is the core: what `type`, `done` and
`depends` mean in each phase (`EntryInv`), that a file on the stack is marked
and has its dependencies visited once ld.so has listed them (`StackInv`), and
that no dependency of a gathered file depends on it (`DepsInv`).

* `SessionProofs!TypeCorrect` and `AcyclicHolds` follow from it.  The recursion
  of `gather_deps` never meets a file that is being gathered, and a cycle is
  found at its last member, also when others were marked bad half way.
* `SessionProofs!UndoneHolds`: with `-u`, what prelink knows is unaltered or not
  prelinked at all, and what is prelinked is still to be undone.
* `SessionCacheProofs!WrittenUpToDateHolds`, `LibrariesUpToDateHolds`: versions
  are never reused (`ClockInv`), what was read of a file holds while its version
  is the same (`ReadInv`), and what is done has only dependencies that are done
  with the stamps it was prelinked against (`FirmInv`).  `FirmInv` is stated for
  libraries and for what was written: the layout does not take `done` from an
  executable.
* `SessionCacheProofs!CacheSlotsHolds`, `QuickSoundHolds`: a cache entry whose
  version and whose dependencies' versions are those of the files is up to date
  (`CacheInv`), and an entry taken from the cache is kept only when nothing it
  depends on was touched (`LoadedInv`), and a file that is refused from the
  start is never gathered in this run (`BannedInv`).  They are stated for
  invocations that have `-a` or `-q` (`AllOrQuick`); without both the properties
  fail, as run SessionNamed shows.  The upgrade between rename and stat64 is a
  step of the model, and the versions it concerns are the ones in `raced`; of all
  others the theorems show that it cannot happen.
* `SessionCacheProofs!IdempotentHolds`, the action property, with every
  option but `-f` and `-u`: a complete run leaves every file up to date and the
  dependencies of each file in different slots (`LaidOutInv`, `SettledInv`);
  then no overlap is found again, and a file that is not done has a dependency
  that is not (`QuietInv`), so that `prelink_ent` refuses it.  The invariant
  needs that what a gathered file depends on is not on the stack any more
  (`ChainInv`, `ClosedInv`), and that the cache has the dependencies that ld.so
  lists (`CacheDepsInv`).

**Relocation**, for any bases, addends (integers) and PLT slots, and for each of
the 15 variants.

* The properties compare the file with the original that ld made, and none of
  them is inductive: prelinking overwrites words, converts REL to RELA, turns a
  `32` without an addend into a `GLOB_DAT` and sets got[1].  The invariant
  `Inv` (RelocationProofs, theorem `Inductive`) says what is left of the original
  at any time.  `KinInv`: for each type, the word, the addend or the type in the
  file has what undoing reads there (`KinA` for RELA, `KinR` for REL, whose addend
  is in the word until the section is converted), got[1] is what the PLT needs,
  and only a type in `Refusable` may have been refused.  `FreshInv`: a file that
  is not prelinked is as ld leaves files (`Form`).  `DoneInv`: a prelinked one is
  `Settled`, so that prelinking it again writes it the same way.
* ArchRelaProofs and ArchRelProofs show one lemma per architecture and operation:
  moving (`relocate_dso`), prelinking and undoing keep the relation to the
  original, and undoing gives it back.  The lemmas on fields (`Insert`) are what
  the provers lack about branches and high and low halves.  RelocationProofs
  dispatches over the architectures as PLArch does, and shows that whatever ld
  makes (`ld_relocations`) satisfies the invariant.
* `TypeCorrect`, `UndoRestoresHolds`: direct consequences.
* `AcceptedHolds`: the callbacks that adjust, prelink and undo accept every type
  but the ones `Accepted` names, which prelink does not support, and the branch
  of ARM, which is out of reach for bases that are far apart, and which the code
  rightly refuses then.
* `StillRelocatableHolds`: for every type, what ld.so reads of the relocation
  (the addend wherever it is, the instruction around a field, the PLT slot it
  relocates lazily) is among what the invariant keeps; the result follows for
  every base at which the file may be mapped and every symbol that ld.so may
  find.  This is what makes a stale prelinking harmless.
* `TransparentProofs!TransparentHolds`: `Transparent` on the eleven variants with
  RELA relocations (`RelaArchs`: x86_64, x32, s390, s390x, sh, alpha, ppc with and
  without secure PLT, ppc64, sparc, sparc64).  By `StillRelocatableHolds` it is
  enough that each word written, or each conflict, is what ld.so computes from the
  prelinked file at its own base.  `WordInv` says that a prelinked file is the
  result of prelinking one that satisfies `Inv`, with the symbol that is known of
  it; `PlainSymIs` and `TlsSymIs` say which lookups become conflicts and with
  which values; then there is one lemma per architecture for the relocations with
  a symbol, the PLT slots, TLS and the relocations without one, and they are put
  together in `WordA`.  `Right` is the negation of `WrongWord`: no case is left
  out beyond those that the property names.
* `TransparentProofs!ConflictsAcceptedHolds`: on the same variants no word is ever
  refused when the conflicts of an executable are built.  `Sound` says what a
  conflict callback may rely on (only a word that an ifunc fits into has one, TLS
  relocations find TLS symbols, relocations without a symbol have no conflict);
  one lemma per architecture shows from it that the callback makes one entry at
  most (`Taken`) and that the entry fits into a variable and can be applied to
  its copy (`Fits`).  `KinInv` gives them the types that ld makes, whatever was
  done to the file before.

Only model-checked:

* `Termination` of Layout and the fairness part of `ImplementsAtomic`, that the
  replacement ends: liveness is out of the prover's reach.
* `Transparent` of Relocation on the architectures with REL relocations (i386,
  arm, mips, mips64), where the type of the relocation and the place of the addend
  change on the way, `ConflictsAccepted` on these, and `CopyFaithful`.  `Accepted` of an ARM branch holds for
  the bases of the run only.
* ExecSections: Space computes placements with recursive operators, and the
  provers do not see through those.
* Cxx: that `Search` finds what is there needs induction over the table, and
  `ProgramUnchanged` is about what it finds.

## 6. Plan

The components are modelled as far as section 7 says.  What the runs check of
Layout, Replace and Session is proved but for liveness, and of Relocation but
for the values and conflicts on the REL architectures and the values in copies.  What is left, in this
order:

1. `Transparent` and `ConflictsAccepted` on the REL architectures, as in TransparentProofs, from the
   lemmas of ArchRelProofs; then `CopyFaithful` from the same computations.
2. ExecSections with Space written as functions over positions, so that
   `SectionsKept` and `ImageConsistent` can be proved for one call of
   `find_readonly_space`.

## 7. Not modelled

* ia64 and its function descriptors (fptr.c); cris, which is not among the
  sources of the build and does not compile (arch-cris.c names a case twice).
* The architecture layout hooks (of i386 and ppc, which divide the address space into several regions) and
  the loop over several architectures in `layout_libs`.
* Debug sections (dwarf2.c, stabs.c, mdebug.c): entries are adjusted one by one
  by the formats' own rules; no state outlives a section.
* Checksums, md5 and sha (functions of the contents), and with them the
  comparison of contents by `-y` and `--md5`.
* Option parsing, directory walking and pattern matching, the encoding of the
  cache file, the output of ld.so as text.
* execstack, a separate program that flips one flag.
* Helpers (byte access, hash table, path names, running ld.so), used as what
  they promise.
* Section editing of libraries (`prelink_prepare`'s moving of sections when REL
  becomes RELA), of files with a symbol table, and `.sdynbss`.
