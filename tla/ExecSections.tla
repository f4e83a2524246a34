---------------------------- MODULE ExecSections ----------------------------
(***************************************************************************)
(* Prelinking, undoing and verifying an executable at the level of its     *)
(* headers: prelink_exec (exec.c), prelink_undo (undo.c), prelink_verify   *)
(* (verify.c).                                                             *)
(*                                                                         *)
(* dso is the file, orig the headers kept in .gnu.prelink_undo.  One       *)
(* prelinking goes through the steps of prelink_exec: the headers are      *)
(* taken back to the original ones (undo_sections), sections that change   *)
(* size are taken out, each request is placed by find_readonly_space, the  *)
(* copy relocation area and the undo section are inserted, the file is     *)
(* reopened with the new table, and file offsets follow addresses.         *)
(* Section contents are left out: a section is known by its name, and the  *)
(* table of moves decides which header a name ends up with.  .rel.dyn is   *)
(* one section (-z combreloc) and .rel.plt holds only jump slots, which    *)
(* no back end converts.                                                   *)
(***************************************************************************)
EXTENDS Space

CONSTANTS Originals,   \* headers of executables as the linker writes them
          Requests,    \* what one prelinking asks for
          UndoSize,    \* size of .gnu.prelink_undo
          UndoAlign,   \* and its alignment
          MaxPrelinks  \* bound: prelinkings of the file

ASSUME ExecAssumption == MaxPrelinks \in Nat \ {0}

VARIABLES
  pc,      \* the next step, or how the last operation ended
  dso,     \* the file's headers
  orig,    \* the headers in .gnu.prelink_undo
  conv,    \* a relocation of the file needs an addend: REL becomes RELA
  h,       \* the headers find_readonly_space works on
  job,     \* what remains to be placed
  asked,   \* the request of the last prelinking
  kept,    \* the file, while a copy of it is being verified
  count    \* prelinkings so far

vars == <<pc, dso, orig, conv, h, job, asked, kept, count>>

Idle == [shdr |-> << >>]
NoJob == [todo |-> << >>]
NoRequest == [lib |-> 0]

Find(shdr, name) == SelectInSeq(shdr, LAMBDA s : s.name = name)
Prelinked(d) == Find(d.shdr, ".gnu.prelink_undo") # 0

-----------------------------------------------------------------------------
(* undo_sections: which section of the file was which original one          *)

SameSection(s, o) ==
  /\ s.type = o.type /\ s.alloc = o.alloc
  /\ s.align = o.align /\ s.size = o.size

\* Sections that prelinking may have changed since.
GrownSection(s, o) ==
  /\ s.name \in {".dynstr", ".shstrtab"}
  /\ s.type = o.type /\ s.alloc = o.alloc
  /\ s.align = o.align /\ s.size > o.size

ConvertedSection(s, o) ==
  /\ s.name = ".rel.dyn"
  /\ s.type = "RELA" /\ o.type = "REL"
  /\ s.align = o.align /\ 2 * s.size = 3 * o.size

\* Mutant: a .bss that was cut is not known again.
WrittenSectionWhole(s, o, before) ==
  /\ s.align = o.align /\ s.alloc = o.alloc
  /\ s.name \in {".plt", ".bss"}
  /\ s.type = o.type \/ (s.type = "PROGBITS" /\ o.type = "NOBITS")
  /\ s.size = o.size

WrittenSection(s, o, before) ==
  /\ s.align = o.align /\ s.alloc = o.alloc
  /\ \/ /\ s.name = ".plt" /\ s.type = "PROGBITS"
        /\ s.size = o.size /\ o.type \in {"NOBITS", "PROGBITS"}
     \/ /\ s.name = ".bss"
        /\ s.type = o.type \/ (s.type = "PROGBITS" /\ o.type = "NOBITS")
        /\ \/ s.size = o.size
           \/ before.name = ".dynbss" /\ s.size + before.size = o.size

Corresponds(d, i, o) ==
  LET s == d.shdr[i]
  IN  /\ s.name = o.name
      /\ \/ SameSection(s, o) \/ GrownSection(s, o) \/ ConvertedSection(s, o)
         \/ WrittenSection(s, o, IF i > 1 THEN d.shdr[i - 1] ELSE s)

Created(s) == s.name \in {".gnu.prelink_undo", ".gnu.conflict",
                          ".gnu.liblist", ".dynbss"}

\* new_to_old for the original table.
undo_sections(d, o) ==
  [j \in DOMAIN o.shdr |->
     LET I == {i \in DOMAIN d.shdr : Corresponds(d, i, o.shdr[j])}
     IN  IF I = {} THEN 0 ELSE Min(I)]

undo_accepted(d, o) ==
  LET move == undo_sections(d, o)
  IN  /\ \A j \in DOMAIN move : move[j] # 0
      /\ \A i \in DOMAIN d.shdr : Created(d.shdr[i]) \/ i \in ToSet(move)
      /\ Len(o.phdr) <= Len(d.phdr)

-----------------------------------------------------------------------------
(* prelink_exec: what to place                                              *)

\* .rel.dyn becomes RELA, now or because it did so before.
ToRela(d, o) ==
  /\ o.shdr[Find(o.shdr, ".rel.dyn")].type = "REL"
  /\ conv \/ d.shdr[Find(d.shdr, ".rel.dyn")].type = "RELA"

Removed(d, o, req) ==
  (IF ToRela(d, o) THEN {".rel.dyn", ".rel.plt"} ELSE {})
  \cup (IF req.grow > 0 THEN {".dynstr"} ELSE {})

TakenOut(hd, names) ==
  LET keep == SelectSeq([j \in DOMAIN hd.shdr |-> j],
                        LAMBDA j : hd.shdr[j].name \notin names)
  IN  [hd EXCEPT !.shdr = [k \in DOMAIN keep |-> hd.shdr[keep[k]]],
                 !.move = [k \in DOMAIN keep |-> hd.move[keep[k]]]]

Section(name, type, size, align) ==
  [name |-> name, type |-> type, alloc |-> TRUE, tls |-> FALSE, addr |-> 0,
   off |-> 0, size |-> size, align |-> align]

\* The requests in the order they are placed.  The two relocation sections
\* are placed as one and split afterwards.
Todo(d, o, req) ==
  LET Orig(name) == o.shdr[Find(o.shdr, name)]
      Old(name) == Find(d.shdr, name)
      rel == Orig(".rel.dyn")
      plt == Orig(".rel.plt")
      relsize == (rel.size \div 2) * 3
  IN  (IF ~ ToRela(d, o) THEN << >>
       ELSE <<[add |-> [rel EXCEPT !.size = relsize + plt.size],
               old |-> Old(".rel.dyn"), size |-> relsize, split |-> plt]>>)
      \o (IF req.grow = 0 THEN << >>
          ELSE <<[add |-> [Orig(".dynstr") EXCEPT !.size = @ + req.grow],
                  old |-> Old(".dynstr"), size |-> 0, split |-> Idle]>>)
      \o <<[add |-> Section("", "LIBLIST", req.lib, 4),
            old |-> 0, size |-> 0, split |-> Idle]>>
      \o (IF req.conf = 0 THEN << >>
          ELSE <<[add |-> Section("", "RELA", req.conf, 4),
                  old |-> 0, size |-> 0, split |-> Idle]>>)

\* Mutant: .shstrtab keeps the names the last prelinking added.
AfterUndoGrown(d, o) ==
  LET Size(s) == IF s.name = ".shstrtab" THEN d.shdr[Find(d.shdr, s.name)].size
                 ELSE s.size
  IN  [shdr |-> [j \in DOMAIN o.shdr |-> [o.shdr[j] EXCEPT !.size = Size(o.shdr[j])]],
       phdr |-> o.phdr, phoff |-> o.phoff, shoff |-> o.shoff]

\* The headers the work begins with are the original ones.
AfterUndo(d, o) ==
  [shdr |-> o.shdr, phdr |-> o.phdr, phoff |-> o.phoff, shoff |-> o.shoff]

\* The first half of prelink_exec, for the file d.
Begin(d, req) ==
  LET u == AfterUndo(d, orig)
      move == IF Prelinked(d) THEN undo_sections(d, orig)
              ELSE [j \in DOMAIN d.shdr |-> j]
      hd == [shdr |-> u.shdr, phdr |-> u.phdr, phoff |-> u.phoff,
             shoff |-> u.shoff, move |-> move, new |-> << >>, end |-> 0,
             by |-> 0, moveend |-> 0, move2 |-> FALSE, at |-> 0]
  IN  /\ pc' = "place"
      /\ h' = TakenOut(hd, Removed(d, orig, req))
      /\ job' = [req |-> req, todo |-> Todo(d, orig, req),
                 rela |-> ToRela(d, orig), dynbss |-> 0, undo |-> 0]

Start(req) ==
  /\ pc = "idle"
  /\ count < MaxPrelinks
  /\ count' = count + 1
  /\ UNCHANGED <<dso, orig, conv, asked, kept>>
  /\ IF Prelinked(dso) /\ ~ undo_accepted(dso, orig)
     THEN pc' = "refused" /\ UNCHANGED <<h, job>>
     ELSE Begin(dso, req)

-----------------------------------------------------------------------------
(* One request                                                              *)

\* add_section and the two tables of struct section_move.
Noted(hd, at, old) ==
  [hd EXCEPT !.move = [add_section(@, at) EXCEPT ![at] = old],
             !.new = Append(@, at)]

\* Mutant: both halves are the first section.
SecondOldSame(r) == r.old

\* The old index of the second relocation section is the next one.
SecondOld(r) == r.old + 1

\* The second relocation section begins where the first one ends.
Split(hd, r) ==
  LET l == hd.at
      first == [hd.shdr[l] EXCEPT !.size = r.size]
      g == insert_readonly_section([hd EXCEPT !.shdr[l] = first], l + 1,
             [r.split EXCEPT !.addr = ShEnd(first), !.off = first.off + r.size])
  IN  Noted(g, l + 1, SecondOld(r))

Place ==
  /\ pc = "place"
  /\ job.todo # << >>
  /\ UNCHANGED <<dso, orig, conv, asked, kept, count>>
  /\ \E r \in {Head(job.todo)} : \E g \in {find_readonly_space(h, r.add)} :
       LET placed == Noted(g, g.at, r.old)
       IN  CASE g.at = 0 -> pc' = "nospace" /\ UNCHANGED <<h, job>>
             [] g.at = Abort -> pc' = "abort" /\ UNCHANGED <<h, job>>
             [] OTHER -> /\ h' = IF r.split = Idle THEN placed ELSE Split(placed, r)
                         /\ job' = [job EXCEPT !.todo = Tail(@)]
                         /\ UNCHANGED pc

-----------------------------------------------------------------------------
(* .dynbss and .gnu.prelink_undo, and the file opened with the new table    *)

\* A copy of section n with no size in front of it.
InsertCopy(hd, n, s) ==
  [insert_readonly_section(hd, n, s) EXCEPT !.move = add_section(@, n)]

Reopen ==
  /\ pc = "place"
  /\ job.todo = << >>
  /\ pc' = "offsets"
  /\ UNCHANGED <<orig, conv, asked, kept, count>>
  /\ \E n \in {IF job.req.dynbss = 0 THEN 0
               ELSE old_to_new(h.move, Find(dso.shdr, ".bss"))} :
     \E h1 \in {IF n = 0 THEN h
                ELSE InsertCopy(h, n, [h.shdr[n] EXCEPT !.size = 0])} :
     \E u \in {old_to_new(h1.move, Find(dso.shdr, ".shstrtab"))} :
     \E h2 \in {InsertCopy(h1, u, [Section("", "PROGBITS", 0, UndoAlign)
                                   EXCEPT !.alloc = FALSE])} :
     \E g \in {adjust_nonalloc(h2, 0, h2.shoff + 1,
                               (Len(h2.shdr) - Len(orig.shdr)) * ShEnt)} :
       /\ h' = g
       /\ job' = [job EXCEPT !.dynbss = n, !.undo = u]
       /\ dso' = [phdr |-> g.phdr, phoff |-> g.phoff, shoff |-> g.shoff,
                  shdr |-> [i \in DOMAIN g.shdr |->
                    IF g.move[i] = 0 THEN g.shdr[i]
                    ELSE [dso.shdr[g.move[i]] EXCEPT
                            !.type = g.shdr[i].type, !.addr = g.shdr[i].addr,
                            !.size = g.shdr[i].size, !.off = g.shdr[i].off]]]

-----------------------------------------------------------------------------
(* File offsets follow addresses, one PT_LOAD after the other               *)

\* Mapped sections from index j on.
MappedFrom(d, j) ==
  {k \in j .. Len(d.shdr) : \A x \in j .. k : d.shdr[x].alloc}

\* adj rounded up for the sections that lie behind segment p.
AlignBehind(d, p, j, adj) ==
  AlignUp(adj, Max({1} \cup {d.shdr[k].align :
                   k \in {x \in MappedFrom(d, j) : d.shdr[x].addr >= MemEnd(p)}}))

\* Segments behind segment i from addr on, and sections from j on, move up.
PushUp(d, i, addr, j, adj) ==
  [d EXCEPT
     !.phdr = [e \in DOMAIN @ |->
       IF e > i /\ IsLoad(@[e]) /\ @[e].vaddr >= addr
       THEN [@[e] EXCEPT !.vaddr = @ + adj, !.off = @ + adj] ELSE @[e]],
     !.shdr = [k \in DOMAIN @ |->
       IF k \in MappedFrom(d, j)
       THEN [@[k] EXCEPT !.off = @ + adj, !.addr = @ + adj] ELSE @[k]]]

InSegment(d, i, j, dynbss) ==
  /\ d.shdr[j].size > 0 \/ j = dynbss
  /\ Holds(d.phdr[i], d.shdr[j])

Bss(s) == s.type = "NOBITS" /\ ~ s.tls

\* .plt and what precedes the copy relocation area become part of the file.
Written(d, i, dynbss) ==
  LET In == {j \in DOMAIN d.shdr : InSegment(d, i, j, dynbss)}
      bss == {j \in In : Bss(d.shdr[j])}
      ends == {j \in bss : d.shdr[j].name = ".plt" \/ j = dynbss}
      first == IF bss = {} THEN 0 ELSE Min(bss)
      last == IF ends = {} THEN 0
              ELSE IF Max(ends) = dynbss THEN dynbss ELSE Max(ends) + 1
      p == d.phdr[i]
      want == ShEnd(d.shdr[last - 1]) - p.vaddr
      adj == IF last # 0 /\ want > p.filesz
             THEN AlignBehind(d, p, last, want - p.filesz) ELSE 0
  IN  [ok |-> \A j \in In \ bss : first = 0 \/ j < first,
       first |-> first, last |-> last, adj |-> adj,
       dso |-> [d EXCEPT !.phdr[i].filesz = @ + adj,
                         !.shdr = [j \in DOMAIN @ |->
                           IF last # 0 /\ j \in first .. last - 1
                           THEN [@[j] EXCEPT !.type = "PROGBITS"] ELSE @[j]]]]

\* Offsets of the sections of segment i.
FollowAddresses(d, i, dynbss) ==
  LET p == d.phdr[i]
      Step(c, j) ==
        LET s == c.shdr[j]
            off == IF s.type = "NOBITS"
                   THEN Min({AlignUp(c.last, s.align), p.off + p.filesz})
                   ELSE p.off + s.addr - p.vaddr
        IN  IF ~ InSegment(d, i, j, dynbss) THEN c
            ELSE [shdr |-> [c.shdr EXCEPT ![j].off = off],
                  last |-> IF s.type = "NOBITS" THEN off ELSE off + s.size]
  IN  [d EXCEPT !.shdr = FoldLeftDomain(Step, [shdr |-> d.shdr, last |-> p.off],
                                        d.shdr).shdr]

\* What is behind segment i moves up when the segment has grown: w is what
\* Written found, d the file with the offsets of the segment.
Settled(w, d, i, dynbss) ==
  LET In == {j \in DOMAIN d.shdr : InSegment(d, i, j, dynbss)}
      inside == \A j \in In : \/ d.shdr[j].type = "NOBITS"
                              \/ ShEnd(d.shdr[j]) <= FileEnd(d.phdr[i])
      up == PushUp(d, i, d.shdr[w.last - 1].addr, Max(In) + 1, w.adj)
  IN  [ok |-> w.ok /\ inside,
       dso |-> IF w.adj = 0 THEN d
               ELSE adjust_nonalloc(up, Max(In) + 1, d.shdr[w.first].off, w.adj)]

\* One iteration of the loop; ok is FALSE when it gives up.
SegmentOffsets(c, i, dynbss) ==
  LET w == Written(c.dso, i, dynbss)
  IN  IF ~ c.ok \/ ~ IsLoad(c.dso.phdr[i]) THEN c
      ELSE Settled(w, FollowAddresses(w.dso, i, dynbss), i, dynbss)

Offsets ==
  /\ pc = "offsets"
  /\ UNCHANGED <<orig, conv, h, job, asked, kept, count>>
  /\ \E c \in {FoldLeftDomain(LAMBDA x, i : SegmentOffsets(x, i, job.dynbss),
                               [ok |-> TRUE, dso |-> dso], dso.phdr)} :
       /\ pc' = IF c.ok THEN "fill" ELSE "nospace"
       /\ dso' = c.dso

-----------------------------------------------------------------------------
(* The new sections get their names and the last offsets are settled        *)

\* Mutant: .bss keeps its size.
RestOfBssWhole(b, size) == [b EXCEPT !.addr = @ + size, !.off = @ + size]

\* What is left of .bss behind .dynbss.
RestOfBss(b, size) ==
  [b EXCEPT !.size = @ - size, !.addr = @ + size, !.off = @ + size]

\* .dynbss is cut off the front of .bss; in a .bss that stays NOBITS the
\* file grows by it.
FillDynbss(d, n, size) ==
  LET b == d.shdr[n + 1]
      cut == [d EXCEPT
                !.shdr[n] = [b EXCEPT !.name = ".dynbss", !.size = size,
                                      !.type = "PROGBITS"],
                !.shdr[n + 1] = RestOfBss(b, size)]
      i == SelectInSeq(d.phdr, LAMBDA p : /\ IsLoad(p) /\ p.vaddr <= b.addr
                                          /\ MemEnd(p) >= b.addr + size)
      p == d.phdr[i]
      by == p.off + b.addr - p.vaddr - b.off
      adj == AlignBehind(cut, p, n + 2, by + size)
      rest == {j \in n + 2 .. Len(d.shdr) :
                 \A x \in n + 2 .. j : d.shdr[x].type = "NOBITS"
                                      /\ Holds(p, d.shdr[x])}
      moved == [cut EXCEPT !.phdr[i].filesz = Max({@, b.addr + size - p.vaddr}),
                           !.shdr[n].off = @ + by, !.shdr[n + 1].off = @ + by]
      Step(c, j) ==
        LET off == Min({AlignUp(c.last, c.shdr[j].align),
                        p.off + moved.phdr[i].filesz})
        IN  IF j \notin rest THEN c
            ELSE [last |-> off, shdr |-> [c.shdr EXCEPT ![j].off = off]]
      settled == [moved EXCEPT !.shdr =
                    FoldLeftDomain(Step, [last |-> moved.shdr[n + 1].off,
                                          shdr |-> @], @).shdr]
      up == PushUp(settled, i, b.addr, n + 2 + Cardinality(rest), adj)
  IN  IF b.type # "NOBITS" THEN cut
      ELSE adjust_nonalloc(up, n + 2, up.shdr[n].off, adj)

\* A NOBITS section in front of the copy relocation area is refused.
DynbssFirst(d, n) ==
  d.shdr[n + 1].type # "NOBITS"
  \/ \A j \in 1 .. n - 1 :
       ~ (Bss(d.shdr[j]) /\ \A x \in j .. n - 1 :
            \A e \in DOMAIN d.phdr :
              (IsLoad(d.phdr[e]) /\ Holds(d.phdr[e], d.shdr[n + 1]))
              => d.shdr[x].addr >= d.phdr[e].vaddr)

FillUndo(d, u) ==
  LET prev == d.shdr[u - 1]
      off == prev.off + (IF prev.type = "NOBITS" THEN 0 ELSE prev.size)
      at == AlignUp(off, UndoAlign)
      named == [d EXCEPT !.shdr[u].name = ".gnu.prelink_undo",
                         !.shdr[u].size = UndoSize, !.shdr[u].off = off]
  IN  [adjust_nonalloc(named, u + 1, off, UndoSize + at - off)
         EXCEPT !.shdr[u].off = at]

\* What is not mapped is laid out again behind the last mapped section.
recompute_nonalloc_offsets(d) ==
  LET first == FirstNonalloc(d.shdr)
      s == d.shdr[first - 1]
      end == s.off + (IF s.type = "NOBITS" THEN 0 ELSE s.size)
      n == Len(d.shdr)
      table == ShEnt * (n + 1)
      front == d.shoff < d.shdr[first].off
      before == SelectInSubSeq([j \in 1 .. n |->
                    d.shdr[j].off < d.shoff
                    /\ (j = n \/ d.shdr[j + 1].off > d.shoff)],
                  first, n, LAMBDA b : b)
      Step(c, j) ==
        LET off == AlignUp(c.last, d.shdr[j].align)
            shoff == AlignUp(off + d.shdr[j].size, ShAlign)
        IN  IF j < first THEN c
            ELSE IF ~ front /\ j = before
            THEN [last |-> shoff + table, shoff |-> shoff,
                  shdr |-> [c.shdr EXCEPT ![j].off = off]]
            ELSE [c EXCEPT !.last = off + d.shdr[j].size, !.shdr[j].off = off]
      c == FoldLeftDomain(Step,
             IF front
             THEN [last |-> AlignUp(end, ShAlign) + table,
                   shoff |-> AlignUp(end, ShAlign), shdr |-> d.shdr]
             ELSE [last |-> end, shoff |-> d.shoff, shdr |-> d.shdr], d.shdr)
  IN  [d EXCEPT !.shdr = c.shdr, !.shoff = c.shoff]

\* check_dso, which prepare_write_dso calls: the sections are in the order of
\* their contents.
check_dso(d) ==
  \A i \in 2 .. Len(d.shdr) :
    LET s == d.shdr[i - 1]
    IN  s.off + (IF s.type = "NOBITS" THEN 0 ELSE s.size) <= d.shdr[i].off

\* The indices find_readonly_space reported, by request.
NewIndex(k) == h.new[k]
LiblistAt == (IF job.rela THEN 2 ELSE 0) + (IF job.req.grow > 0 THEN 1 ELSE 0) + 1

\* The assertions on the two tables of moves.
RelocsWhereNoted ==
  job.rela => /\ dso.shdr[NewIndex(1)].name = ".rel.dyn"
              /\ dso.shdr[NewIndex(2)].name = ".rel.plt"

\* prelink_verify compares the file with the copy it prelinked.
Compare(d) == IF kept \in {Idle, d} THEN "idle" ELSE "modified"

Named(d, k, name) == [d EXCEPT !.shdr[NewIndex(k)].name = name]

\* The new sections get their names, and the section with the names grows.
WithNames(d) ==
  LET l == Named(d, LiblistAt, ".gnu.liblist")
  IN  IF job.req.conf = 0 THEN l ELSE Named(l, LiblistAt + 1, ".gnu.conflict")

WithGrownNames(d) ==
  LET names == Cardinality({i \in DOMAIN d.shdr : Created(d.shdr[i])}) + 1
  IN  [d EXCEPT !.shdr[Find(d.shdr, ".shstrtab")].size = @ + names]

\* d is what is written, unless the copy relocation area was refused.
Write(d, accepted) ==
  /\ dso' = IF kept # Idle THEN kept ELSE IF accepted THEN d ELSE dso
  /\ pc' = IF ~ RelocsWhereNoted THEN "abort"
           ELSE IF ~ accepted THEN "nospace"
           ELSE IF ~ check_dso(d) THEN "unordered"
           ELSE Compare(d)
  /\ kept' = IF pc' \in {"idle", "modified"} THEN Idle ELSE kept

Fill ==
  /\ pc = "fill"
  /\ UNCHANGED <<orig, conv, count>>
  /\ LET n == job.dynbss
         d == IF job.rela
              THEN [dso EXCEPT !.shdr[NewIndex(1)].type = "RELA"] ELSE dso
         filled == IF n = 0 THEN d ELSE FillDynbss(d, n, job.req.dynbss)
     IN  Write(recompute_nonalloc_offsets(
                 FillUndo(WithGrownNames(WithNames(filled)), job.undo)),
               n = 0 \/ DynbssFirst(d, n))
  /\ asked' = job.req
  /\ h' = Idle
  /\ job' = NoJob

-----------------------------------------------------------------------------
(* prelink -u and prelink -y                                                *)

Undo ==
  /\ pc = "idle"
  /\ Prelinked(dso)
  /\ UNCHANGED <<orig, conv, h, job, kept, count>>
  /\ IF undo_accepted(dso, orig)
     THEN pc' = pc /\ dso' = orig /\ asked' = NoRequest
     ELSE pc' = "refused" /\ UNCHANGED <<dso, asked>>

\* A copy is undone and prelinked as the file was: no dependency has changed,
\* or it is not done (ent->done = 2).
Verify ==
  /\ pc = "idle"
  /\ Prelinked(dso)
  /\ UNCHANGED <<orig, conv, asked, count>>
  /\ IF undo_accepted(dso, orig)
     THEN /\ kept' = dso
          /\ dso' = orig
          /\ Begin(orig, asked)
     ELSE pc' = "refused" /\ UNCHANGED <<dso, h, job, kept>>

Init ==
  /\ dso \in Originals
  /\ orig = dso
  /\ pc = "idle"
  /\ conv \in BOOLEAN
  /\ h = Idle
  /\ job = NoJob
  /\ asked = NoRequest
  /\ kept = Idle
  /\ count = 0

Next ==
  \/ \E req \in Requests : Start(req)
  \/ Place
  \/ Reopen
  \/ Offsets
  \/ Fill
  \/ Undo
  \/ Verify

Spec == Init /\ [][Next]_vars

-----------------------------------------------------------------------------
(* Properties                                                               *)

Done == pc = "idle" /\ Prelinked(dso)

Mapped(d) == {i \in DOMAIN d.shdr : /\ d.shdr[i].alloc /\ d.shdr[i].size > 0
                                    /\ ~ (d.shdr[i].tls /\ d.shdr[i].type = "NOBITS")}

Apart(a, alen, b, blen) == a + alen <= b \/ b + blen <= a

\* However often an executable is prelinked and whatever had to be placed, no
\* two sections share an address, each is mapped by exactly one PT_LOAD from
\* the place in the file where its contents are, two segments share a page
\* only if it is the same page of the file, and the other program headers point
\* at the section they describe (find_readonly_space and the offset passes of
\* prelink_exec).
ImageConsistent ==
  Done =>
    /\ \A i, j \in Mapped(dso) :
         i # j => Apart(dso.shdr[i].addr, dso.shdr[i].size,
                        dso.shdr[j].addr, dso.shdr[j].size)
    /\ \A i \in Mapped(dso) :
         LET s == dso.shdr[i]
             L == {e \in DOMAIN dso.phdr :
                     IsLoad(dso.phdr[e]) /\ Holds(dso.phdr[e], s)}
         IN  /\ Cardinality(L) = 1
             /\ \A e \in L : s.type = "NOBITS" \/
                  LET p == dso.phdr[e]
                  IN  ShEnd(s) <= FileEnd(p) /\ s.off - p.off = s.addr - p.vaddr
    /\ \A e, f \in DOMAIN dso.phdr :
         LET p == dso.phdr[e] q == dso.phdr[f]
         IN  IsLoad(p) /\ IsLoad(q) /\ e < f =>
               \/ AlignUp(MemEnd(p), PageSize) <= AlignDown(q.vaddr, PageSize)
               \/ /\ MemEnd(p) <= q.vaddr
                  /\ p.filesz = p.memsz /\ p.vaddr - p.off = q.vaddr - q.off
    /\ \A e \in DOMAIN dso.phdr :
         LET p == dso.phdr[e]
             Describes(name) ==
               LET s == dso.shdr[Find(dso.shdr, name)]
               IN  p.vaddr = s.addr /\ p.off = s.off /\ p.filesz = s.size
         IN  CASE p.type = "LOAD" -> p.off % p.align = p.vaddr % p.align
               [] p.type = "INTERP" -> Describes(".interp")
               [] p.type = "NOTE" -> Describes(".note.ABI-tag")
               [] p.type = "DYNAMIC" -> Describes(".dynamic")
               [] p.type = "PHDR" -> /\ p.off = dso.phoff
                                     /\ p.filesz >= Len(dso.phdr) * PhEnt
               [] OTHER -> TRUE

\* In the file nothing overlaps either: the program headers, which may have got
\* one entry more, the contents of sections, and the section header table
\* (adjust_nonalloc and recompute_nonalloc_offsets).
FileConsistent ==
  Done =>
    LET Parts == {[at |-> 0, len |-> dso.phoff + Len(dso.phdr) * PhEnt],
                  [at |-> dso.shoff, len |-> (Len(dso.shdr) + 1) * ShEnt]}
                 \cup {[at |-> dso.shdr[i].off, len |-> dso.shdr[i].size] :
                         i \in {k \in DOMAIN dso.shdr : /\ dso.shdr[k].size > 0
                                                      /\ dso.shdr[k].type # "NOBITS"}}
    IN  \A x, y \in Parts : x # y => Apart(x.at, x.len, y.at, y.len)

\* Every section of the original is there once more under its name with the
\* size it must have, and one that code refers to by address did not move: the
\* table of moves, which is edited by every insertion and removal, gave each
\* name the header that was computed for it.
SectionsKept ==
  Done =>
    \A j \in DOMAIN orig.shdr :
      LET o == orig.shdr[j]
          I == {i \in DOMAIN dso.shdr : dso.shdr[i].name = o.name}
          s == dso.shdr[Find(dso.shdr, o.name)]
          cut == IF o.name = ".bss" /\ Find(dso.shdr, ".dynbss") # 0
                 THEN dso.shdr[Find(dso.shdr, ".dynbss")].size ELSE 0
      IN  /\ Cardinality(I) = 1
          /\ s.align = o.align /\ s.alloc = o.alloc
          /\ CASE o.name \in {".dynstr", ".shstrtab"} -> s.size >= o.size
               [] o.name = ".rel.dyn" /\ s.type # o.type -> 2 * s.size = 3 * o.size
               [] OTHER -> s.size + cut = o.size
          /\ s.type = o.type \/ (o.type = "REL" /\ s.type = "RELA")
                             \/ (o.type = "NOBITS" /\ s.type = "PROGBITS")
          /\ o.alloc /\ ~ readonly_is_movable(o) => s.addr - cut = o.addr

\* A prelinked executable can always be undone or prelinked again: undo_sections
\* recognises every section that prelinking moved, converted, enlarged or split.
Recognised == pc # "refused"

\* prelink -y finds no fault with a file that nobody modified: the headers do
\* not depend on what the file went through before, on how often it was
\* prelinked and what had to be placed the other times.
Verifies ==
  /\ pc # "modified"
  /\ kept # Idle => pc \in {"place", "offsets", "fill"}

\* Does some read-only segment begin behind the start of the file?
SeparateCode(d) ==
  \E e \in DOMAIN d.phdr : ReadOnly(d.phdr[e]) /\ d.phdr[e].off # 0

\* What prelink_exec asserts of its own work holds: relocation sections are
\* where the table of moves says, a section that is moved to its old place does
\* not fit there as it is, and the new table passes check_dso.  Excluded is a
\* second read-only segment: the limit of a hole (space.c:291) leaves out the
\* file offset of the segment, the section is placed over the next segment, and
\* check_dso then refuses to write the file.
OwnChecks ==
  /\ pc # "abort"
  /\ pc = "unordered" => SeparateCode(orig)
=============================================================================
