--------------------------- MODULE MCExecSections ---------------------------
(***************************************************************************)
(* Executables and requests for model checking ExecSections.  Sizes are    *)
(* scaled down: a page is 32 units, a program header 4.                    *)
(***************************************************************************)
EXTENDS ExecSections

\* A family of executables: a hole in front of .text or none, room behind the
\* read-only sections or none, p_align of one page or four, a .bss that ends in
\* the page in which it begins or not, a NOBITS .plt, an unused program header,
\* code in a segment of its own (-z separate-code), and room behind the
\* program headers.
AllShapes == [hole : {0, 12}, slack : {0, 20}, pages : {1, 4}, bss : {4, 40},
              plt : BOOLEAN, null : BOOLEAN, code : BOOLEAN, room : {0, 4}]

\* Features that do not meet are not combined.
Shapes == {c \in AllShapes : /\ c.code => ~ c.plt /\ c.hole = 0
                             /\ c.null => c.hole = 0 /\ c.slack = 0
                             /\ c.room # 0 => ~ c.null /\ c.hole = 0 /\ ~ c.plt}

Base == 8448

Sec(name, type, size, align) ==
  [name |-> name, type |-> type, alloc |-> TRUE, tls |-> FALSE, addr |-> 0,
   off |-> 0, size |-> size, align |-> align]

DynamicPart == <<Sec(".interp", "PROGBITS", 2, 1),
                 Sec(".note.ABI-tag", "NOTE", 4, 4),
                 Sec(".hash", "HASH", 8, 4),
                 Sec(".dynsym", "DYNSYM", 8, 4),
                 Sec(".dynstr", "STRTAB", 5, 1),
                 Sec(".rel.dyn", "REL", 8, 4),
                 Sec(".rel.plt", "REL", 8, 4)>>

Text == Sec(".text", "PROGBITS", 12, 4)

WritablePart(c) ==
  <<[Sec(".tbss", "NOBITS", 4, 4) EXCEPT !.tls = TRUE],
    Sec(".dynamic", "DYNAMIC", 8, 4)>>
  \o (IF c.plt THEN <<Sec(".plt", "NOBITS", 4, 4)>> ELSE << >>)
  \o <<Sec(".bss", "NOBITS", c.bss, 4)>>

\* Sections one after the other from vaddr on; .tbss takes no room.
LayOut(secs, vaddr, off, hole) ==
  LET Step(c, s) ==
        LET a == AlignUp(c.a, s.align) + (IF s.name = ".text" THEN hole ELSE 0)
            written == s.type # "NOBITS"
            end == IF s.tls THEN a ELSE a + s.size
        IN  [a |-> end, f |-> IF written THEN end ELSE c.f,
             secs |-> Append(c.secs,
               [s EXCEPT !.addr = a,
                         !.off = IF written THEN a - vaddr + off
                                 ELSE c.f - vaddr + off])]
  IN  FoldLeft(Step, [a |-> vaddr, f |-> vaddr, secs |-> << >>], secs)

Entry(type, flags, v, o, fs, ms, al) ==
  [type |-> type, flags |-> flags, vaddr |-> v, off |-> o, filesz |-> fs,
   memsz |-> ms, align |-> al]

Describe(type, s) == Entry(type, "R", s.addr, s.off, s.size, s.size, 4)

NonAlloc(name, size, o) ==
  [Sec(name, "PROGBITS", size, 1) EXCEPT !.alloc = FALSE, !.off = o]

Build(c) ==
  LET n == 7 + (IF c.null THEN 1 ELSE 0) + (IF c.code THEN 1 ELSE 0)
      align == c.pages * PageSize
      phoff == 8
      start == phoff + n * PhEnt + c.room
      ro == LayOut(IF c.code THEN DynamicPart ELSE Append(DynamicPart, Text),
                   Base + start, start, c.hole)
      size == ro.a - Base
      codeoff == AlignUp(size + c.slack, PageSize)
      code == LayOut(<<Text>>, Base + codeoff, codeoff, 0)
      roend == IF c.code THEN code.a ELSE ro.a
      off == AlignUp(roend - Base + c.slack, 4)
      va == AlignUp(roend, align) + (off % align)
      rw == LayOut(WritablePart(c), va, off, 0)
      end == rw.f - va + off
  IN  [phoff |-> phoff,
       shoff |-> AlignUp(end + 8, ShAlign),
       phdr |-> <<Entry("PHDR", "R", Base + phoff, phoff, n * PhEnt, n * PhEnt, 4),
                  Describe("INTERP", ro.secs[1]),
                  Entry("LOAD", IF c.code THEN "R" ELSE "RX", Base, 0, size, size, align)>>
                \o (IF c.code THEN <<Entry("LOAD", "RX", Base + codeoff, codeoff,
                                           12, 12, align)>> ELSE << >>)
                \o <<Entry("LOAD", "RW", va, off, rw.f - va, rw.a - va, align),
                     Describe("DYNAMIC", rw.secs[2]),
                     Describe("NOTE", ro.secs[2]),
                     Entry("STACK", "RW", 0, 0, 0, 0, 4)>>
                \o (IF c.null THEN <<Entry("NULL", "R", 0, 0, 0, 0, 0)>>
                              ELSE << >>),
       shdr |-> ro.secs \o (IF c.code THEN code.secs ELSE << >>) \o rw.secs
                \o <<NonAlloc(".comment", 3, end), NonAlloc(".shstrtab", 5, end + 3)>>]

\* The program header table can grow, or need not.
Roomy(c) == c.null \/ c.pages = 1 \/ c.bss < PageSize \/ c.room # 0

MCOriginals == {Build(c) : c \in {x \in Shapes : Roomy(x)}}

\* It cannot: a section has to be taken out.
TightOriginals == {Build(c) : c \in {x \in Shapes : ~ Roomy(x)}}

MCRequests == [lib : {8}, conf : {0, 36}, grow : {0, 30}, dynbss : {0, 3}]
=============================================================================
