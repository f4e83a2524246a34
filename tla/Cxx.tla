-------------------------------- MODULE Cxx ---------------------------------
(***************************************************************************)
(* The conflicts of an executable as a whole (prelink_build_conflicts,     *)
(* conflict.c) and the removal of those that C++ programs do not need      *)
(* (remove_redundant_cxx_conflicts, cxx.c).                                *)
(*                                                                         *)
(* A world is what prelink finds: object 0 is the executable, the others   *)
(* its dependencies in search order.  Per object: the tables it defines    *)
(* (a table is a virtual table, type information, or other data; its words *)
(* refer to functions), the functions it defines, the tables it refers to  *)
(* through its GOT, and the functions it calls through its PLT.  For the   *)
(* executable: the functions whose address is that of its PLT entry, and   *)
(* the tables it has COPY relocations for.                                 *)
(*                                                                         *)
(* Every word is of size 1 and the relocations are absolute; what the      *)
(* types do to a word is the subject of Relocation.  Lookups of TLS        *)
(* symbols are left out, and allocation does not fail.                     *)
(***************************************************************************)
EXTENDS Integers, FiniteSets, Sequences, SequencesExt

CONSTANTS Families,    \* sets of worlds: what each part of a world may be
          Funs,        \* names of functions, in the order of addresses
          TableNames,  \* names of tables
          SizeLimit    \* tables that are larger are not compared

ASSUME CxxAssumption == SizeLimit \in Nat /\ IsInjective(Funs) /\ IsInjective(TableNames)

VARIABLES
  pc,        \* the next step
  world,     \* what prelink finds; constant
  syms,      \* the symbols each file defines; constant
  relocs,    \* and its relocations; constant
  conflicts, \* info->conflicts: what ld.so reports for each library
  cache,     \* the special symbols of each object, by address
  rela,      \* info->conflict_rela; dead: its R_SYM is 1
  dynbss,    \* info->dynbss: the tables the executable has a copy of
  n,         \* the object, then the entry, the loop is at
  state,     \* of the table fcs1 is at: what is known about it
  fcs1,      \* struct find_cxx_sym for the entry
  fcs2       \* and for the table used instead

files == <<world, syms, relocs>>
vars == <<pc, files, conflicts, cache, rela, dynbss, n, state, fcs1, fcs2>>

Objects == DOMAIN world.obj
Libs == Objects \ {0}
Obj(o) == world.obj[o]

-----------------------------------------------------------------------------
(* Addresses.                                                              *)

Place(s) == [x \in ToSet(s) |-> CHOOSE k \in DOMAIN s : s[k] = x]
FunPlace == Place(Funs)
TablePlace == Place(TableNames)

Base(o) == 1000 * (o + 1)
InObject(o, addr) == addr \in Base(o) .. Base(o) + 999
FunAddr(o, f) == Base(o) + FunPlace[f]
PltAddr(f) == Base(0) + 100 + FunPlace[f]
SlotAddr(o, f) == Base(o) + 200 + FunPlace[f]
GotAddr(o, t) == Base(o) + 300 + TablePlace[t]
CopyAddr(t) == Base(0) + 700 + 10 * TablePlace[t]
TableAddr(o, j) ==
  Base(o) + 400 + FoldLeft(LAMBDA a, t : a + Len(t.words), 0, SubSeq(Obj(o).tables, 1, j - 1))

(* The symbols an object defines.  The first words of a table may have a   *)
(* name of their own (alias; size: how many words).                        *)
Symbol(name, start, size, kind, weak) ==
  [name |-> name, start |-> start, end |-> start + size, kind |-> kind, weak |-> weak]

TableSymbols(o) ==
  LET Tab(j) == Obj(o).tables[j]
  IN  {Symbol(Tab(j).name, TableAddr(o, j), Len(Tab(j).words), world.kind, Tab(j).weak) :
         j \in DOMAIN Obj(o).tables}
      \union {Symbol(Tab(j).alias, TableAddr(o, j), Tab(j).size, "data", TRUE) :
         j \in {x \in DOMAIN Obj(o).tables : Tab(x).size > 0}}

(* A copy has the size of what it is a copy of.                            *)
CopySource(t) ==
  LET S == {s \in UNION {TableSymbols(o) : o \in Libs} : s.name = t}
  IN  CHOOSE s \in S : \A x \in S : s.start <= x.start
CopySize(t) == CopySource(t).end - CopySource(t).start

SymbolsOf(o) ==
  TableSymbols(o)
    \union {Symbol(f, FunAddr(o, f), 1, "function", FALSE) : f \in Obj(o).funs}
    \union {Symbol(t, CopyAddr(t), CopySize(t), world.kind, TRUE) :
              t \in IF o = 0 THEN world.copy ELSE {}}

-----------------------------------------------------------------------------
(* Lookup, as ld.so does it.  A COPY relocation does not look into the     *)
(* executable, and only addresses, not calls, are bound to its PLT.        *)

Value(o, name, class) ==
  LET S == {s \in syms[o] : s.name = name}
  IN  CASE o = 0 /\ class = "copy" -> 0
        [] S # {} -> (CHOOSE s \in S : TRUE).start
        [] o = 0 /\ class = "valid" /\ name \in world.plt -> PltAddr(name)
        [] OTHER -> 0

Lookup(scope, name, class) ==
  LET k == SelectInSeq(scope, LAMBDA o : Value(o, name, class) # 0)
  IN  IF k = 0 THEN 0 ELSE Value(scope[k], name, class)

GlobalScope == [k \in 1 .. Cardinality(Objects) |-> k - 1]
Global(name, class) == Lookup(GlobalScope, name, class)
Own(o, name, class) == Lookup(IF o = 0 THEN GlobalScope ELSE world.scope[o], name, class)

-----------------------------------------------------------------------------
(* The relocated words of an object, and its conflicts.  An object that is *)
(* linked -Bsymbolic refers to its own tables without a symbol.            *)

Word(off, sym, class, place) == [off |-> off, sym |-> sym, class |-> class, place |-> place]
Defines(o, t) == \E k \in DOMAIN Obj(o).tables :
                   LET x == Obj(o).tables[k] IN t = x.name \/ (x.size > 0 /\ t = x.alias)
WordsOf(o) ==
  {Word(GotAddr(o, t), t, "valid", "got") :
     t \in {x \in Obj(o).uses : ~ (Obj(o).symbolic /\ Defines(o, x))}}
  \union UNION {{Word(TableAddr(o, j) + k - 1, Obj(o).tables[j].words[k], "valid", "table") :
                   k \in DOMAIN Obj(o).tables[j].words} : j \in DOMAIN Obj(o).tables}
  \union {Word(SlotAddr(o, f), f, "plt", "plt") : f \in Obj(o).calls}

(* What ld.so reports, with the values of both lookups.                    *)
prelink_get_relocations(o) ==
  {c \in {[sym |-> w.sym, class |-> w.class, lookup |-> Global(w.sym, w.class),
           conflict |-> Own(o, w.sym, w.class)] : w \in relocs[o]} :
     c.lookup # c.conflict}

-----------------------------------------------------------------------------
(* prelink_build_conflicts                                                 *)

SortBy(S, Key(_)) ==
  [k \in 1 .. Cardinality(S) |->
     CHOOSE x \in S : Cardinality({y \in S : Key(y) < Key(x)}) = k - 1]

(* The entries of one library; each conflict is found in a relocation.     *)
ConflictRela(o, reported) ==
  SortBy({[off |-> w.off, addend |-> c.lookup, dead |-> FALSE] :
            <<w, c>> \in {x \in relocs[o] \X reported :
                            x[1].sym = x[2].sym /\ x[1].class = x[2].class}},
         LAMBDA e : e.off)

BuildLibrary ==
  /\ pc = "build"
  /\ n \in Libs
  /\ n' = n + 1
  /\ LET reported == prelink_get_relocations(n)
     IN  /\ conflicts' = Append(conflicts, reported)
         /\ rela' = rela \o ConflictRela(n, reported)
  /\ UNCHANGED <<pc, files, cache, dynbss, state, fcs1, fcs2>>

(* The word at addr of a prelinked file, and what entries make of it.      *)
FileWord(o, addr) ==
  LET W == {w \in relocs[o] : w.off = addr}
  IN  IF W = {} THEN 0 ELSE LET w == CHOOSE w \in W : TRUE IN Own(o, w.sym, w.class)
Applied(entries, val, addr) ==
  LET k == SelectLastInSeq(entries, LAMBDA e : e.off = addr)
  IN  IF k = 0 THEN val ELSE entries[k].addend

(* In the executable, .dynbss has been computed before.  Entries that have *)
(* been removed count.                                                     *)
get_relocated_mem(o, addr, size) ==
  LET T == {t \in DOMAIN dynbss : CopyAddr(t) = addr}
  IN  IF o = 0 /\ T # {} THEN dynbss[CHOOSE t \in T : TRUE]
      ELSE [k \in 1 .. size |->
              LET a == addr + k - 1
              IN  IF o = 0 THEN FileWord(0, a) ELSE Applied(rela, FileWord(o, a), a)]

ObjectAt(addr) == CHOOSE o \in Objects : InObject(o, addr)

CopyRelocs ==
  /\ pc = "build"
  /\ n \notin Libs
  /\ dynbss' = [t \in world.copy |->
                  LET a == Global(t, "copy")
                  IN  get_relocated_mem(ObjectAt(a), a, CopySize(t))]
  /\ n' = 1
  /\ pc' = IF rela # << >> /\ world.libstdcxx THEN "caches" ELSE "done"
  /\ UNCHANGED <<files, conflicts, cache, rela, state, fcs1, fcs2>>

-----------------------------------------------------------------------------
(* find_cxx_sym                                                            *)

Special(kind) == kind \in {"vtable", "typeinfo"}
cachecmp(a, b) == a.start < b.start \/ (a.start = b.start /\ a.end < b.end)

\* Mutant: only what is before a symbol is compared with it.
OverlappedBefore(S, s) == \E x \in S \ {s} : cachecmp(x, s) /\ x.end > s.start

(* Another symbol covers part of it.                                       *)
Overlapped(S, s) ==
  \E x \in S \ {s} : IF cachecmp(x, s) THEN x.end > s.start ELSE x.start < s.end

(* The special symbols of an object that overlap no other one.             *)
create_cache(o) ==
  SortBy({s \in syms[o] : Special(s.kind) /\ s.weak /\ ~ Overlapped(syms[o], s)},
         LAMBDA s : s.start)

(* All at once; the code does it when it first needs one.                  *)
CreateCaches ==
  /\ pc = "caches"
  /\ cache' = [o \in Objects |-> create_cache(o)]
  /\ pc' = "cxx"
  /\ UNCHANGED <<files, conflicts, rela, dynbss, n, state, fcs1, fcs2>>

(* The bounds of the search in the table c, from where the last one ended. *)
\* Mutant: the entry at which the search below may end is left out.
SearchBoundsShort(c, last, addr) ==
  CASE last = -1 -> <<0, Len(c)>>
    [] last # -1 /\ c[last + 1].start <= addr ->
         <<last, CASE Len(c) - last >= 16 /\ c[last + 3].start > addr -> last + 2
                   [] Len(c) - last >= 16 /\ c[last + 3].start <= addr
                        /\ c[last + 16].start > addr -> last + 15
                   [] OTHER -> Len(c)>>
    [] OTHER ->
         <<CASE last >= 15 /\ c[last - 1].start <= addr -> last - 1
             [] last >= 15 /\ c[last - 1].start > addr /\ c[last - 14].start <= addr -> last - 15
             [] OTHER -> 0, last>>

SearchBounds(c, last, addr) ==
  CASE last = -1 -> <<0, Len(c)>>
    [] last # -1 /\ c[last + 1].start <= addr ->
         <<last, CASE Len(c) - last >= 16 /\ c[last + 3].start > addr -> last + 2
                   [] Len(c) - last >= 16 /\ c[last + 3].start <= addr
                        /\ c[last + 16].start > addr -> last + 15
                   [] OTHER -> Len(c)>>
    [] OTHER ->
         <<CASE last >= 15 /\ c[last - 1].start <= addr -> last - 2
             [] last >= 15 /\ c[last - 1].start > addr /\ c[last - 14].start <= addr -> last - 15
             [] OTHER -> 0, last>>

Search(c, bounds, addr, size) ==
  LET s[lo \in 0 .. Len(c), hi \in 0 .. Len(c)] ==
        LET mid == (lo + hi) \div 2
        IN  CASE lo >= hi -> -1
              [] lo < hi /\ c[mid + 1].start > addr -> s[lo, mid]
              [] lo < hi /\ c[mid + 1].start <= addr /\ c[mid + 1].end >= addr + size -> mid
              [] OTHER -> s[mid + 1, hi]
  IN  s[bounds[1], bounds[2]]

NoSymbol == Symbol("", 0, 0, "none", FALSE)
Start == [dso |-> -1, last |-> -1, sym |-> NoSymbol, found |-> FALSE]

(* When nothing is found, symbol and place stay what they were.            *)
find_cxx_sym(addr, fcs, size) ==
  LET same == fcs.dso # -1 /\ InObject(fcs.dso, addr)
      here == IF same THEN fcs ELSE [fcs EXCEPT !.dso = ObjectAt(addr), !.last = -1]
      c == cache[here.dso]
      at == Search(c, SearchBounds(c, here.last, addr), addr, size)
  IN  IF at = -1 THEN [here EXCEPT !.found = FALSE]
      ELSE [here EXCEPT !.found = TRUE, !.last = at, !.sym = c[at + 1]]

-----------------------------------------------------------------------------
(* remove_redundant_cxx_conflicts, one entry at a time                     *)

Within(addr) == state # 0 /\ fcs1.sym.start <= addr /\ fcs1.sym.end >= addr + 1

(* The section of the table is .data, .data.rel.ro or .sdata.              *)
DataSection(o, name) == \A t \in ToSet(Obj(o).tables) : t.name = name => t.data

(* The table's own library would use it, and the program uses another.     *)
Superseded(f) ==
  {c \in conflicts[f.dso] : c.sym = f.sym.name /\ c.class = "valid" /\ c.conflict = f.sym.start}

SameSymbol(a, b) == a.end - a.start = b.end - b.start /\ a.weak = b.weak /\ a.name = b.name

SameTable(f, g) ==
  /\ g.found
  /\ SameSymbol(f.sym, g.sym)
  /\ get_relocated_mem(f.dso, f.sym.start, f.sym.end - f.sym.start)
       = get_relocated_mem(g.dso, g.sym.start, g.sym.end - g.sym.start)

(* addend is the executable's PLT entry of a function, and the library's   *)
(* own lookup is the function that the PLT entry jumps to.                 *)
ThroughPlt(f, addend) ==
  \E x \in world.plt \ Obj(0).funs :
    /\ PltAddr(x) = addend
    /\ \E c \in conflicts[f.dso] :
         /\ c.class = "valid" /\ c.lookup = addend
         /\ c.conflict # 0 /\ c.conflict = Global(x, "plt")

RemoveEntry == rela' = [rela EXCEPT ![n].dead = TRUE]
check_pltref(st, f) ==
  IF st = 2 /\ ThroughPlt(f, rela[n].addend) THEN RemoveEntry ELSE UNCHANGED rela

(* The entry is in the same table as the last one.                         *)
SameTableAgain ==
  /\ pc = "cxx" /\ n <= Len(rela)
  /\ Within(rela[n].off)
  /\ IF state = 3 THEN RemoveEntry ELSE check_pltref(state, fcs1)
  /\ n' = n + 1
  /\ UNCHANGED <<pc, files, conflicts, cache, dynbss, state, fcs1, fcs2>>

(* The next table is f, the one used instead g, if there is one.           *)
EnterTable(f, eligible, superseded, g) ==
  LET st == CASE ~ f.found -> 0
              [] f.found /\ eligible /\ f.sym.kind = "vtable" -> 2
              [] OTHER -> 1
  IN  /\ fcs1' = f
      /\ fcs2' = g
      /\ IF superseded /\ SameTable(f, g) THEN state' = 3 /\ RemoveEntry
         ELSE state' = st /\ check_pltref(st, f)

NextTable ==
  /\ pc = "cxx" /\ n <= Len(rela)
  /\ ~ Within(rela[n].off)
  /\ \E f \in {find_cxx_sym(rela[n].off, fcs1, 1)} :
       LET eligible == f.found /\ DataSection(f.dso, f.sym.name)
           S == IF eligible /\ f.sym.end - f.sym.start <= SizeLimit THEN Superseded(f) ELSE {}
       IN  EnterTable(f, eligible, S # {},
             IF S = {} THEN fcs2
             ELSE find_cxx_sym((CHOOSE c \in S : TRUE).lookup, fcs2, f.sym.end - f.sym.start))
  /\ n' = n + 1
  /\ UNCHANGED <<pc, files, conflicts, cache, dynbss>>

Compact ==
  /\ pc = "cxx" /\ n > Len(rela)
  /\ rela' = SelectSeq(rela, LAMBDA e : ~ e.dead)
  /\ pc' = "done"
  /\ UNCHANGED <<files, conflicts, cache, dynbss, n, state, fcs1, fcs2>>

Terminating == pc = "done" /\ UNCHANGED vars

Init ==
  /\ pc = "build"
  /\ \E F \in Families :
       \E exe \in F.exe, lib1 \in F.lib1, lib2 \in F.lib2, copy \in F.copy, plt \in F.plt,
          kind \in F.kind, scope \in F.scope, libstdcxx \in F.libstdcxx :
         /\ world = [obj |-> [o \in 0 .. 2 |-> <<exe, lib1, lib2>>[o + 1]], copy |-> copy,
                     plt |-> plt, kind |-> kind, scope |-> scope, libstdcxx |-> libstdcxx]
         /\ \A t \in copy : ~ Defines(0, t) /\ \E o \in Libs : Defines(o, t)
  /\ syms = [o \in 0 .. 2 |-> SymbolsOf(o)]
  /\ relocs = [o \in 0 .. 2 |-> WordsOf(o)]
  /\ conflicts = << >> /\ cache = << >> /\ rela = << >> /\ dynbss = << >>
  /\ n = 1 /\ state = 0 /\ fcs1 = Start /\ fcs2 = Start

Next ==
  \/ BuildLibrary \/ CopyRelocs \/ CreateCaches
  \/ SameTableAgain \/ NextTable \/ Compact
  \/ Terminating

Spec == Init /\ [][Next]_vars

-----------------------------------------------------------------------------
(* Properties                                                              *)

(* The word at addr when the program runs, prelinked and as ld.so would    *)
(* have relocated it, and what a call through it reaches.                  *)
Prelinked(o, addr) ==
  LET T == {t \in DOMAIN dynbss : addr \in CopyAddr(t) .. CopyAddr(t) + Len(dynbss[t]) - 1}
      t == CHOOSE t \in T : TRUE
  IN  IF o = 0 /\ T # {} THEN dynbss[t][addr - CopyAddr(t) + 1]
      ELSE Applied(rela, FileWord(o, addr), addr)

Called(val) ==
  LET F == {f \in world.plt \ Obj(0).funs : PltAddr(f) = val}
  IN  IF F = {} THEN val ELSE Global(CHOOSE f \in F : TRUE, "plt")

(* The tables the program has the address of.                              *)
Reached ==
  UNION {{Prelinked(o, w.off) : w \in {x \in relocs[o] : x.place = "got"}} : o \in Objects}
  \union {Own(o, t, "valid") : <<o, t>> \in {x \in Libs \X ToSet(TableNames) :
                                 Obj(x[1]).symbolic /\ Defines(x[1], x[2])}}

(* The words that ld.so would have put into the table at addr; for a copy, *)
(* into what it is a copy of.                                              *)
RelocatedAt(addr) ==
  LET S == {x \in syms[ObjectAt(addr)] : x.start = addr /\ x.kind # "function"}
      s == CHOOSE s \in S : \A x \in S : x.end <= s.end
  IN  [k \in 1 .. s.end - addr |->
         Global((CHOOSE w \in relocs[ObjectAt(addr)] : w.off = addr + k - 1).sym, "valid")]
Relocated(addr) ==
  LET T == {t \in DOMAIN dynbss : CopyAddr(t) = addr}
  IN  RelocatedAt(IF T = {} THEN addr ELSE Global(CHOOSE t \in T : TRUE, "copy"))

(* Removing conflicts changes nothing that the program does: every table   *)
(* it has the address of is the one ld.so would have given it, and each    *)
(* word of it has what ld.so would have written, except that the word of a *)
(* virtual table may lead to the same function without the executable's    *)
(* PLT.                                                                    *)
ProgramUnchanged ==
  pc = "done" =>
    /\ \A o \in Objects : \A w \in relocs[o] :
         w.place # "table" => Prelinked(o, w.off) = Global(w.sym, w.class)
    /\ \A a \in Reached \ {0} : \A k \in DOMAIN Relocated(a) :
         LET val == Prelinked(ObjectAt(a), a + k - 1)
         IN  IF world.kind = "vtable" THEN Called(val) = Called(Relocated(a)[k])
             ELSE val = Relocated(a)[k]

(* No conflict survives in a table that nothing else overlaps, that its    *)
(* own library would use, and that is the same in size, name, binding and  *)
(* contents as the one used instead: the search from the last hit finds    *)
(* every table.                                                            *)
RedundantRemoved ==
  pc = "done" /\ world.libstdcxx =>
    \A o \in Libs : \A s \in ToSet(create_cache(o)) :
      LET u == Global(s.name, "valid")
          T == {t \in ToSet(create_cache(ObjectAt(u))) : t.start = u}
          used == \E w \in relocs[o] : w.place = "got" /\ w.sym = s.name
      IN  /\ used /\ u # s.start /\ Own(o, s.name, "valid") = s.start
          /\ DataSection(o, s.name) /\ s.end - s.start <= SizeLimit
          /\ \E t \in T : SameSymbol(s, t) /\ Relocated(s.start) = Relocated(t.start)
          => \A k \in DOMAIN rela : rela[k].off \notin s.start .. s.end - 1
=============================================================================
