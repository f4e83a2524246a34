------------------------------- MODULE Space -------------------------------
(***************************************************************************)
(* Finding room for a new read-only section in an executable (space.c),    *)
(* and the section table edits it rests on (dso.c).                        *)
(*                                                                         *)
(* An executable cannot be moved as a whole, so a section that prelinking  *)
(* adds or enlarges goes wherever an address is free: at its old address,  *)
(* into a hole of a read-only segment, behind a .bss that is turned into   *)
(* file contents, below a base address that is lowered, or into a new      *)
(* segment whose program header may first have to be made room for.        *)
(*                                                                         *)
(* A headers record h holds what the C code passes around:                 *)
(*   shdr     section headers, index 0 (SHT_NULL) left out                 *)
(*   phdr     program headers, counted from 1                              *)
(*   phoff, shoff   e_phoff and e_shoff                                    *)
(*   move     new_to_old of struct section_move, 0 for its -1              *)
(*   new      adjust->new[0 .. newcount - 1]                               *)
(*   end, by, moveend, move2   basemove_end, basemove_adjust, moveend and  *)
(*            move2 of struct readonly_adjust                              *)
(*   at       what find_readonly_space returned: the index, 0 for failure,  *)
(*            Abort for a failed assertion                                 *)
(***************************************************************************)
EXTENDS Integers, Sequences, FiniteSets, SequencesExt

CONSTANTS PageSize,   \* arch->page_size
          PhEnt,      \* e_phentsize
          ShEnt,      \* size of a section header
          ShAlign     \* alignment of the section header table

ASSUME SpaceAssumption ==
  /\ PageSize \in Nat \ {0} /\ PhEnt \in Nat \ {0}
  /\ ShEnt \in Nat \ {0} /\ ShAlign \in Nat \ {0}

\* h.at after a failed assertion.
Abort == -1

AlignUp(x, a) == ((x + a - 1) \div a) * a
AlignDown(x, a) == (x \div a) * a

\* Ends of a section and of the two images of a segment.
ShEnd(s) == s.addr + s.size
FileEnd(p) == p.vaddr + p.filesz
MemEnd(p) == p.vaddr + p.memsz
Holds(p, s) == s.addr >= p.vaddr /\ ShEnd(s) <= MemEnd(p)

IsLoad(p) == p.type = "LOAD"
ReadOnly(p) == IsLoad(p) /\ p.flags \in {"R", "RX"}

\* The index of the first section that is not mapped at run time.
FirstNonalloc(shdr) == SelectInSeq(shdr, LAMBDA s : ~ s.alloc)

-----------------------------------------------------------------------------
(* Tables                                                                   *)

\* old_to_new, the inverse of move; 0 when the old section is gone.
old_to_new(move, o) ==
  IF o = 0 THEN 0 ELSE SelectInSeq(move, LAMBDA x : x = o)

add_section(move, sec) == InsertAt(move, sec, 0)

remove_section(move, sec) == RemoveAt(move, sec)

insert_readonly_section(h, n, s) ==
  [h EXCEPT !.shdr = InsertAt(@, n, s),
            !.new = [i \in DOMAIN @ |-> IF @[i] >= n THEN @[i] + 1 ELSE @[i]],
            !.at = n]

remove_readonly_section(h, n) ==
  [h EXCEPT !.shdr = RemoveAt(@, n),
            !.new = [i \in DOMAIN @ |-> CASE @[i] > n -> @[i] - 1
                                          [] @[i] = n -> -1
                                          [] OTHER -> @[i]]]

\* Shift what is not mapped, and the section header table, behind start.
adjust_nonalloc(h, first, start, adjust) ==
  LET Behind(i) == /\ ~ h.shdr[i].alloc
                   /\ h.shdr[i].off > start
                      \/ (h.shdr[i].off = start /\ i >= first)
      tables == h.shoff >= start
      aligns == {h.shdr[i].align : i \in {k \in DOMAIN h.shdr : Behind(k)}}
                \cup (IF tables THEN {ShAlign} ELSE {1})
      by == AlignUp(adjust, Max(aligns))
  IN  [h EXCEPT !.shoff = IF tables THEN @ + by ELSE @,
                !.shdr = [i \in DOMAIN @ |->
                            IF Behind(i) THEN [@[i] EXCEPT !.off = @ + by]
                                         ELSE @[i]]]

readonly_is_movable(s) ==
  /\ s.alloc
  /\ \/ s.type \in {"HASH", "GNU_HASH", "DYNSYM", "REL", "RELA", "STRTAB",
                    "NOTE", "VERDEF", "VERNEED", "VERSYM", "LIBLIST"}
     \/ s.name = ".interp"

\* Relocation sections, and notes, that follow each other stay together.
Adjacent(s, t) ==
  LET Kind(x) == IF x.type = "RELA" THEN "REL" ELSE x.type
  IN  /\ Kind(s) = Kind(t)
      /\ Kind(s) \in {"REL", "NOTE"}
      /\ s.addr + AlignUp(s.size, 4) = t.addr

-----------------------------------------------------------------------------
(* At its old address                                                       *)

PreferredSegment(h, add) ==
  SelectInSeq(h.phdr, LAMBDA p : /\ ReadOnly(p)
                                 /\ p.vaddr <= add.addr
                                 /\ FileEnd(p) >= ShEnd(add))

PreferredIndex(h, add) ==
  SelectInSeq(h.shdr, LAMBDA s : s.alloc /\ s.addr >= add.addr)

PreferredFree(h, add) ==
  LET j == PreferredIndex(h, add)
  IN  /\ add.addr # 0
      /\ PreferredSegment(h, add) # 0
      /\ j # 0
      /\ h.shdr[j].addr >= ShEnd(add)
      /\ j > 1 => ShEnd(h.shdr[j - 1]) <= add.addr

Preferred(h, add) ==
  LET p == h.phdr[PreferredSegment(h, add)]
  IN  insert_readonly_section(h, PreferredIndex(h, add),
        [add EXCEPT !.off = (add.addr - p.vaddr) + p.off])

-----------------------------------------------------------------------------
(* In a hole of a read-only segment, or at its end                          *)

\* Where sections may begin in segment i: behind the program headers.
SegmentStart(h, i) ==
  LET table == Len(h.phdr) * PhEnt
      own == SelectInSeq(h.phdr, LAMBDA p : /\ p.type = "PHDR"
                                            /\ p.off = h.phoff
                                            /\ p.filesz >= table)
  IN  IF h.phdr[i].off < h.phoff
      THEN h.phdr[i].vaddr + h.phoff - h.phdr[i].off
             + (IF own # 0 THEN h.phdr[own].filesz ELSE table)
      ELSE h.phdr[i].vaddr

\* Does section s end the hole at start too early?
Blocks(start, add, s) == start + add.size > s.addr

\* The first free address of segment i and the section it comes after
\* (-1: the segment holds no section).
Hole(h, add, i) ==
  LET Step(c, j) ==
        LET s == h.shdr[j]
            after == IF c.after = -1 THEN j - 1 ELSE c.after
        IN  IF ~ (s.alloc /\ s.addr >= h.phdr[i].vaddr
                  /\ ShEnd(s) <= FileEnd(h.phdr[i]))
            THEN c
            ELSE IF Blocks(c.start, add, s)
            THEN [start |-> AlignUp(ShEnd(s), add.align), after |-> j]
            ELSE [c EXCEPT !.after = after]
  IN  FoldLeftDomain(Step, [start |-> AlignUp(SegmentStart(h, i), add.align),
                            after |-> -1], h.shdr)

\* The file offset at which the next segment begins; 0 if there is none.
NextSegment(h, i) ==
  LET later == {j \in i + 1 .. Len(h.phdr) :
                  h.phdr[j].off >= h.phdr[i].off + h.phdr[i].filesz}
  IN  IF later = {} THEN 0 ELSE Min({h.phdr[j].off : j \in later})

HoleFits(h, add, i, hole) ==
  LET p == h.phdr[i]
      next == NextSegment(h, i)
  IN  /\ ReadOnly(p)
      /\ hole.after # -1
      /\ \/ hole.start + add.size <= FileEnd(p)
         \/ /\ p.filesz = p.memsz
            /\ next = 0 \/ hole.start + add.size - p.vaddr <= next

HoleSegment(h, add) ==
  LET fits == {i \in DOMAIN h.phdr : HoleFits(h, add, i, Hole(h, add, i))}
  IN  IF fits = {} THEN 0 ELSE Min(fits)

IntoHole(h, add, i, hole) ==
  LET p == h.phdr[i]
      end == hole.start + add.size
      g == insert_readonly_section(h, hole.after + 1,
             [add EXCEPT !.addr = hole.start,
                         !.off = (hole.start - p.vaddr) + p.off])
  IN  IF end <= FileEnd(p) THEN g
      ELSE [adjust_nonalloc(g, 0, 0, end - FileEnd(p)) EXCEPT
              !.phdr[i].filesz = end - p.vaddr,
              !.phdr[i].memsz = end - p.vaddr]

-----------------------------------------------------------------------------
(* Behind a small .bss, which becomes part of the file                      *)

LastLoad(h) == SelectLastInSeq(h.phdr, IsLoad)

\* The file size of the last segment once a NOBITS .plt is written out.
FileSizeWithPlt(h) ==
  LET p == h.phdr[LastLoad(h)]
      j == SelectInSeq(h.shdr, LAMBDA s : /\ s.type = "NOBITS"
                                          /\ Holds(p, s)
                                          /\ s.name = ".plt")
  IN  IF j = 0 THEN p.filesz
      ELSE Max({p.filesz, ShEnd(h.shdr[j]) - p.vaddr})

SmallBss(h) ==
  LET p == h.phdr[LastLoad(h)]
      filesz == FileSizeWithPlt(h)
      Page(x) == x \div PageSize
  IN  /\ p.filesz # 0
      /\ filesz <= p.memsz
      /\ Page(MemEnd(p) - 1) = Page(p.vaddr + filesz - 1)

ExtendLast(h, add) ==
  LET i == LastLoad(h)
      p == h.phdr[i]
      j == FirstNonalloc(h.shdr)
      Write(s) == IF /\ s.alloc /\ ~ s.tls
                     /\ s.type = "NOBITS" /\ s.addr >= p.vaddr
                  THEN [s EXCEPT !.type = "PROGBITS"] ELSE s
      addr == AlignUp(ShEnd(h.shdr[j - 1]), add.align)
      size == addr + add.size - p.vaddr
      g == insert_readonly_section(
             [h EXCEPT !.shdr = [k \in DOMAIN @ |->
                                   IF k < j THEN Write(@[k]) ELSE @[k]]],
             j, [add EXCEPT !.addr = addr, !.off = (addr - p.vaddr) + p.off])
  IN  adjust_nonalloc([g EXCEPT !.phdr[i].filesz = size,
                                !.phdr[i].memsz = size],
                      0, 0, p.off + size - g.shdr[j + 1].off)

-----------------------------------------------------------------------------
(* Below a lowered base address                                             *)

FirstLoad(h) == SelectInSeq(h.phdr, IsLoad)

\* Whole pages that hold the new section.
BaseRoom(h, add) ==
  AlignUp(add.size + add.align - 1, h.phdr[FirstLoad(h)].align)

BaseCanMove(h, add) ==
  LET p == h.phdr[FirstLoad(h)]
      Block(x) == x \div (p.align * 256)
  IN  /\ p.align <= PageSize
      /\ p.flags = "RX"
      /\ p.filesz = p.memsz
      /\ p.vaddr # BaseRoom(h, add)
      /\ Block(p.vaddr - BaseRoom(h, add)) = Block(p.vaddr)

\* .interp and the notes move with the base; the first section that does
\* not is found once and remembered in adjust.
WithMoveEnd(h) ==
  LET m == SelectInSeq(h.shdr, LAMBDA s : /\ s.name # ".interp"
                                          /\ s.type # "NOTE")
  IN  IF h.end # 0 THEN h
      ELSE IF m > 1
      THEN [h EXCEPT !.end = h.shdr[m].addr, !.moveend = m]
      ELSE [h EXCEPT !.moveend = m]

MoveEndUsable(h) ==
  /\ h.moveend \in 2 .. Len(h.shdr)
  /\ h.shdr[h.moveend].alloc

\* Everything up to the old place of the section may move down as well,
\* which costs fewer pages: the index to insert at, 0 if some section in
\* between cannot move.
OldPlace(h, add) ==
  LET shdr == h.shdr
      Stop(k) == \/ ~ shdr[k].alloc
                 \/ /\ shdr[k].addr > add.addr
                    /\ ~ Adjacent(shdr[k - 1], shdr[k])
                 \/ ~ readonly_is_movable(shdr[k])
      k == SelectInSubSeq([x \in DOMAIN shdr |-> Stop(x)], h.moveend,
                          Len(shdr), LAMBDA b : b)
  IN  IF k # 0 /\ shdr[k].alloc /\ shdr[k].addr > add.addr
         /\ ~ Adjacent(shdr[k - 1], shdr[k])
      THEN k ELSE 0

\* The sections before index k go down by adj, together with the segment i
\* they are in, and the new one in front of or behind the gap; the rest of the
\* file goes up by as much.
LowerBy(h, add, i, k, adj) ==
  LET p == h.phdr[i]
      Lower(q) == IF q.vaddr < h.end - h.by
                  THEN [q EXCEPT !.vaddr = @ - adj]
                  ELSE [q EXCEPT !.off = @ + adj]
      shdr == [j \in DOMAIN h.shdr |->
                 IF j < k THEN [h.shdr[j] EXCEPT !.addr = @ - adj]
                          ELSE h.shdr[j]]
      phdr == [j \in DOMAIN h.phdr |->
                 IF j = i
                 THEN [p EXCEPT !.vaddr = @ - adj, !.filesz = @ + adj,
                                !.memsz = @ + adj]
                 ELSE IF h.phdr[j].type = "STACK" THEN h.phdr[j]
                 ELSE Lower(h.phdr[j])]
      addr == IF k = h.moveend
              THEN AlignUp(ShEnd(shdr[k - 1]), add.align)
              ELSE AlignDown(shdr[k].addr - add.size, add.align)
  IN  adjust_nonalloc(
        insert_readonly_section(
          [h EXCEPT !.shdr = shdr, !.phdr = phdr, !.by = @ + adj],
          k, [add EXCEPT !.addr = addr,
                         !.off = (addr - phdr[i].vaddr) + phdr[i].off]),
        0, 0, adj)

\* old: the index OldPlace found, or 0; room: the pages it takes otherwise.
LowerTo(h, add, i, old, room) ==
  LET gap == h.shdr[old].addr - ShEnd(h.shdr[old - 1])
      less == AlignUp(add.size - gap, h.phdr[i].align)
      both == old # 0 /\ less < room
  IN  IF old # 0 /\ add.size <= gap THEN [h EXCEPT !.at = Abort]
      ELSE LowerBy([h EXCEPT !.move2 = @ \/ both], add, i,
                   IF both THEN old ELSE h.moveend, IF both THEN less ELSE room)

LowerBase(h, add) ==
  LET p == h.phdr[FirstLoad(h)]
      old == IF /\ add.addr # 0 /\ ~ h.move2
                /\ p.vaddr <= add.addr /\ FileEnd(p) > add.addr
             THEN OldPlace(h, add) ELSE 0
  IN  LowerTo(h, add, FirstLoad(h), old, BaseRoom(h, add))

-----------------------------------------------------------------------------
(* In a segment of its own                                                  *)

\* Mutant: the table as it is.
TableEndNow(h) == h.phoff + Len(h.phdr) * PhEnt

\* The file offset behind a program header table with one more entry.
TableEnd(h) == h.phoff + (Len(h.phdr) + 1) * PhEnt

NullEntry(h) == SelectInSeq(h.phdr, LAMBDA p : p.type = "NULL")

\* memmove (phdr, &phdr[j + 1], ...): everything behind an unused entry is
\* moved to the front of the table.
DropNull(h) ==
  LET j == NullEntry(h)
      n == Len(h.phdr)
  IN  [h EXCEPT !.phdr = SubSeq(@, j + 1, n) \o SubSeq(@, n - j + 1, n - 1)]

\* The section that is in the way of one more program header; 0 if none.
InTheWay(h) == SelectInSeq(h.shdr, LAMBDA s : TableEnd(h) > s.off)

\* What must hold of it for the sections to be pushed back.
CanPushBack(h) ==
  LET p == h.phdr[FirstLoad(h)]
      s == h.shdr[InTheWay(h)]
  IN  /\ h.phoff >= p.off
      /\ TableEnd(h) <= p.off + p.filesz
      /\ readonly_is_movable(s)
      /\ s.addr < FileEnd(p)

\* The sections at the start of the file that may be pushed back: 1 .. - 1.
LastMovable(h) ==
  LET p == h.phdr[FirstLoad(h)]
      j == SelectInSeq(h.shdr, LAMBDA s : \/ ~ readonly_is_movable(s)
                                          \/ s.addr >= FileEnd(p))
  IN  IF j = 0 THEN Len(h.shdr) + 1 ELSE j

TableStart(h) ==
  h.phdr[FirstLoad(h)].vaddr - h.phdr[FirstLoad(h)].off + TableEnd(h)

\* Push sections back one by one until a hole takes up the difference
\* (found), remembering which section, taken out, would waste least room.
PushBack(h, add) ==
  LET shdr == h.shdr
      p == h.phdr[FirstLoad(h)]
      EndAddr(j) == IF j + 1 <= Len(shdr) /\ shdr[j + 1].addr <= FileEnd(p)
                    THEN shdr[j + 1].addr ELSE FileEnd(p)
      Takeable(s) == s.type \in {"HASH", "GNU_HASH", "DYNSYM", "STRTAB",
                       "VERDEF", "VERNEED", "VERSYM", "LIBLIST"}
      Better(c, j, waste, ok) ==
        IF ok /\ (c.min = -1 \/ waste < c.min)
        THEN [c EXCEPT !.min = waste, !.sec = j] ELSE c
      Step(c, j) ==
        LET s == shdr[j]
            addstart == AlignUp(c.start, add.align)
            start == AlignUp(c.start, s.align)
            end == EndAddr(j)
            d == IF ~ Takeable(s) THEN c
                 ELSE Better(Better(c, j, end - start, end >= start),
                             j, end - addstart - add.size,
                             end > addstart /\ end - addstart > add.size)
            joined == /\ j < Len(shdr)
                      /\ s.type \in {"REL", "RELA", "NOTE"}
                      /\ Adjacent(s, shdr[j + 1])
        IN  IF c.found THEN c
            ELSE IF ~ joined /\ start + s.size <= end
            THEN [d EXCEPT !.found = TRUE, !.sec = j + 1]
            ELSE [d EXCEPT !.start = start + s.size]
  IN  FoldLeft(Step, [start |-> TableStart(h), found |-> FALSE,
                      min |-> -1, sec |-> 0],
               [j \in 1 .. LastMovable(h) - 1 |-> j])

\* The program headers that point at sections 1 .. m - 1 follow these to where
\* they are in shdr.
Followed(h, m, shdr) ==
  LET Of(q) == SelectInSubSeq(h.shdr, 1, m - 1, LAMBDA s : s.addr = q.vaddr)
      By(q) == shdr[Of(q)].addr - h.shdr[Of(q)].addr
  IN  [h EXCEPT !.shdr = shdr,
                !.phdr = [e \in DOMAIN @ |->
                  IF @[e].type \in {"LOAD", "STACK"} \/ Of(@[e]) = 0 THEN @[e]
                  ELSE [@[e] EXCEPT !.vaddr = @ + By(h.phdr[e]),
                                    !.off = @ + By(h.phdr[e])]]]

\* Lay sections 1 .. m - 1 out behind the larger table.
Repack(h, m) ==
  LET p == h.phdr[FirstLoad(h)]
      Step(c, j) ==
        LET a == AlignUp(c.start, c.shdr[j].align)
        IN  IF j >= m THEN c
            ELSE [start |-> a + c.shdr[j].size,
                  shdr |-> [c.shdr EXCEPT ![j].addr = a,
                                          ![j].off = a + p.off - p.vaddr]]
  IN  Followed(h, m, FoldLeftDomain(Step, [start |-> TableStart(h), shdr |-> h.shdr],
                                    h.shdr).shdr)

\* A program header that spans several sections moves only when these are
\* notes that moved by the same amount; g has them moved.
SpansMoved(h, m, g) ==
  LET By(k) == g.shdr[k].addr - h.shdr[k].addr
      Whole(q, k) == q.filesz = h.shdr[k].size /\ q.memsz = h.shdr[k].size
      Notes(q, k) ==
        /\ q.type = "NOTE" /\ q.filesz = q.memsz
        /\ \E k1 \in k .. m - 1 :
             /\ ShEnd(h.shdr[k1]) = FileEnd(q)
             /\ \A x \in k .. k1 : h.shdr[x].type = "NOTE" /\ By(x) = By(k)
  IN  \A e \in DOMAIN h.phdr :
        LET q == h.phdr[e]
            k == SelectInSubSeq(h.shdr, 1, m - 1, LAMBDA s : s.addr = q.vaddr)
        IN  q.type \in {"LOAD", "STACK"} \/ k = 0 \/ Whole(q, k) \/ Notes(q, k)

\* Mutant: at the start of the page, wherever it is in the file.
VaddrBehindPage(p, off) == AlignUp(MemEnd(p), p.align)

\* The first address behind segment p at which offset off can be mapped.
VaddrBehind(p, off) == AlignUp(MemEnd(p), p.align) + (off % p.align)

\* The new PT_LOAD behind the last one, writable because the rest of its
\* last page becomes the sbrk area.
AppendBehind(h, add, j, p, off) ==
  LET table == Len(h.phdr) * PhEnt
      Grow(x) == IF x = table THEN x + PhEnt ELSE x
      phdr == [e \in DOMAIN h.phdr |->
                 IF h.phdr[e].type # "PHDR" THEN h.phdr[e]
                 ELSE [h.phdr[e] EXCEPT !.filesz = Grow(@), !.memsz = Grow(@)]]
      vaddr == VaddrBehind(p, off)
      seg == [type |-> "LOAD", flags |-> "RW", vaddr |-> vaddr, off |-> off,
              filesz |-> add.size, memsz |-> add.size, align |-> p.align]
      g == insert_readonly_section([h EXCEPT !.phdr = InsertAt(phdr, j + 1, seg)],
             FirstNonalloc(h.shdr), [add EXCEPT !.addr = vaddr, !.off = off])
  IN  adjust_nonalloc(g, 0, 0, off + add.size - p.off - p.filesz)

AppendSegment(h, add) ==
  LET p == h.phdr[LastLoad(h)]
  IN  AppendBehind(h, add, LastLoad(h), p, AlignUp(p.off + p.filesz, add.align))

-----------------------------------------------------------------------------
(* find_readonly_space: the first strategy that works                       *)

RECURSIVE find_readonly_space(_, _)

\* The section that was taken out is in h.at now, the new one in at.
RecordTakenOut(h, at, newidx, oldidx) ==
  IF h.at = 0 THEN h
  ELSE [h EXCEPT !.new = IF newidx = 0 THEN @ ELSE [@ EXCEPT ![newidx] = h.at],
                 !.move = [add_section(@, h.at) EXCEPT ![h.at] = oldidx],
                 !.at = IF @ <= at THEN at + 1 ELSE at]

\* One section is taken out to make room for the program header, and both it
\* and the new section look for a place.
PlaceTakenOut(h, moved, newidx, oldidx) ==
  IF h.at = 0 THEN h
  ELSE RecordTakenOut(find_readonly_space(h, moved), h.at, newidx, oldidx)

TakeOut(h, add, sec) ==
  PlaceTakenOut(find_readonly_space([remove_readonly_section(h, sec) EXCEPT
                                       !.move = remove_section(@, sec)], add),
                h.shdr[sec], SelectInSeq(h.new, LAMBDA x : x = sec), h.move[sec])

\* c: how far sections have to be pushed back; g: the headers with them there.
PushedBack(h, add, c, g) ==
  IF c.sec = 0 THEN [h EXCEPT !.at = 0]
  ELSE IF ~ SpansMoved(h, c.sec, g) THEN [h EXCEPT !.at = 0]
  ELSE IF c.found THEN AppendSegment(g, add)
  ELSE TakeOut(g, add, c.sec)

NewSegment(h, add) ==
  LET c == PushBack(h, add)
  IN  IF NullEntry(h) # 0 THEN AppendSegment(DropNull(h), add)
      ELSE IF InTheWay(h) = 0 THEN AppendSegment(h, add)
      ELSE IF ~ CanPushBack(h) THEN [h EXCEPT !.at = 0]
      ELSE PushedBack(h, add, c, Repack(h, c.sec))

find_readonly_space(h, add) ==
  IF PreferredFree(h, add) THEN Preferred(h, add)
  ELSE IF HoleSegment(h, add) # 0
  THEN LET i == HoleSegment(h, add) IN IntoHole(h, add, i, Hole(h, add, i))
  ELSE IF SmallBss(h) THEN ExtendLast(h, add)
  ELSE LET g == IF BaseCanMove(h, add) THEN WithMoveEnd(h) ELSE h
       IN  IF BaseCanMove(h, add) /\ MoveEndUsable(g)
           THEN LowerBase(g, add)
           ELSE NewSegment(g, add)
=============================================================================
