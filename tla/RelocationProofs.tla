-------------------------- MODULE RelocationProofs --------------------------
(***************************************************************************)
(* Relocation, for every set of bases, addends and slots and for every     *)
(* architecture of PLArch: the inductive invariant, and what follows from  *)
(* it.  That is: the file has at any time all that undoing needs of the    *)
(* original; undoing restores that; nothing is refused that need not be;   *)
(* and ld.so makes of the file, if it cannot be used as prelinked, what it *)
(* would make of the original.                                             *)
(***************************************************************************)
EXTENDS ArchRelProofs

(* The architectures with RELA relocations.                                *)
RelaArchs == Names \ RelArchs

(* They are those of ArchRelaProofs.                                       *)
LEMMA ArchCases ==
  ASSUME NEW a \in RelaArchs
  PROVE  /\ a \in Names /\ a \notin RelArchs /\ a \notin Mips /\ a \notin {"i386", "arm"}
         /\ a \in X86Like \union Ppc \union {"sh", "alpha", "ppc64", "sparc", "sparc64"}
  BY DEF RelaArchs, Names, RelArchs, X86Like, Mips

(* relocate_dso, on all of them.                                           *)
LEMMA MoveA ==
  ASSUME arch \in RelaArchs, NEW q, NEW o, KinA(arch, q, o), FormA(arch, o), NEW b \in Nat,
         NEW p, p = Relocated(q, b)
  PROVE  /\ KinA(arch, p, o) /\ Frame(p, q) /\ p.base = b
         /\ q.got = 0 => p.got = 0
         /\ arch \in GotArchs /\ q.got = Plt(q) => p.got = Plt(p)
         /\ FormA(arch, q) => FormA(arch, p) /\ KinA(arch, p, q)
         /\ FormA(arch, q) /\ arch = "alpha" /\ q.type \in Slot => p.addend = q.addend
         /\ arch = "sparc" /\ q.type = "RELATIVE" => (p.addend = 0 <=> q.addend = 0)
<1> DEFINE m == AdjustRel(arch, q, b - q.base)
<1>0. arch \in Names \ RelArchs /\ arch \in Names /\ q \in Relocs
  BY ArchCases DEF KinA, RelaArchs
<1> HIDE DEF m
<1>1. ASSUME NEW x, KinA(arch, q, x), FormA(arch, x)
      PROVE  /\ KinA(arch, p, x) /\ Alike(m, q)
             /\ FormA(arch, q) => /\ p.mem = [width |-> ld_width(arch, p), val |-> LdVal(arch, p)]
                                  /\ arch = "alpha" /\ q.type \in Slot => p.addend = q.addend
             /\ arch = "sparc" /\ q.type = "RELATIVE" => (p.addend = 0 <=> q.addend = 0)
  <2>1. CASE arch \in X86Like
    <3>1. arch \notin {"alpha", "sparc"}
      BY <2>1 DEF X86Like, X86_64
    <3> QED BY <1>1, <2>1, <3>1, X86Move DEF m
  <2>2. CASE arch = "sh"
    BY <1>1, <2>2, ShMove DEF m
  <2>3. CASE arch = "alpha"
    BY <1>1, <2>3, AlphaMove DEF m
  <2>4. CASE arch \in Ppc
    <3>1. arch \notin {"alpha", "sparc"}
      BY <2>4 DEF Ppc
    <3> QED BY <1>1, <2>4, <3>1, PpcMove DEF m
  <2>5. CASE arch = "ppc64"
    BY <1>1, <2>5, Ppc64Move DEF m
  <2>6. CASE arch = "sparc"
    BY <1>1, <2>6, SparcMove DEF m
  <2>7. CASE arch = "sparc64"
    BY <1>1, <2>7, Sparc64Move DEF m
  <2> QED BY <2>1, <2>2, <2>3, <2>4, <2>5, <2>6, <2>7, ArchCases
<1>2. KinA(arch, p, o) /\ Alike(m, q)
        /\ (arch = "sparc" /\ q.type = "RELATIVE" => (p.addend = 0 <=> q.addend = 0))
  BY <1>1
<1>3. /\ Frame(p, q) /\ p.base = b /\ (q.got = 0 => p.got = 0)
      /\ arch \in GotArchs /\ q.got = Plt(q) /\ (arch = "ppc" => q.code = NoCode) =>
           p.got = Plt(p)
  BY <1>0, <1>2, RelocatedFacts DEF m
<1>4. ASSUME FormA(arch, q) PROVE KinA(arch, p, q) /\ FormA(arch, p)
             /\ (arch = "alpha" /\ q.type \in Slot => p.addend = q.addend)
  <2>1. KinA(arch, q, q)
    BY <1>0, <1>4, FormKin
  <2>2. /\ KinA(arch, p, q) /\ p.mem = [width |-> ld_width(arch, p), val |-> LdVal(arch, p)]
        /\ arch = "alpha" /\ q.type \in Slot => p.addend = q.addend
    BY <1>1, <1>4, <2>1
  <2>3. p.got = 0
    BY <1>3, <1>4 DEF FormA
  <2> QED BY <1>0, <1>3, <1>4, <2>2, <2>3, FormMoved
<1>5. arch = "ppc" => q.code = NoCode
  BY PpcCode DEF ppc_got, Ppc
<1> QED BY <1>2, <1>3, <1>4, <1>5

(* What got[1] is in a prelinked file.                                     *)
GotOf(a, q) == IF a \in GotArchs \/ (a \in Mips /\ q.exec) THEN Plt(q) ELSE 0

(* arch_pre_prelink and arch_prelink of these architectures touch got[1]   *)
(* only.                                                                   *)
LEMMA GotTouched ==
  ASSUME NEW a, NEW q, NEW o, KinA(a, q, o), NEW p, p \in {q, [q EXCEPT !.got = Plt(q)]}
  PROVE  /\ KinA(a, p, o) /\ Frame(p, q) /\ p.base = q.base /\ p.addend = q.addend
              /\ p.mem = q.mem
         /\ Plt(p) = Plt(q)
<1>1. q \in Relocs /\ Typed(q) /\ Plt(q) \in Int
  BY TypedFacts DEF KinA, Typed, Plt, PltOffset
<1> DEFINE g == [q EXCEPT !.got = Plt(q)]
<1>2. /\ g \in Relocs /\ Placed(g, q) /\ g.mem = q.mem /\ g.type = q.type /\ g.rela = q.rela
      /\ g.addend = q.addend /\ g.base = q.base /\ g.code = q.code /\ g.ok = q.ok
  BY <1>1, GotFacts
<1>3. Placed(q, q)
  BY DEF Placed
<1>4. p = q \/ p = g
  OBVIOUS
<1> HIDE DEF g
<1>5. Frame(p, q) /\ p.base = q.base /\ p.addend = q.addend /\ p.mem = q.mem
  BY <1>1, <1>2, <1>3, <1>4 DEF Frame
<1> QED BY <1>5, KinGot DEF Plt

(* prelink writes the word of a relocation, and on sparc has the address   *)
(* of a RELATIVE there only; what undoing needs of the original is still   *)
(* there.                                                                  *)
LEMMA WrittenA ==
  ASSUME NEW a \in RelaArchs, NEW g, NEW o, KinA(a, g, o), FormA(a, o), NEW s \in Syms, NEW m,
             m = PrelinkRel(a, g, s)
  PROVE  KinA(a, m, o) /\ Kept(m, g) /\ (a = "sparc" /\ g.type = "RELATIVE" => m.addend = 0)
<1>1. CASE a \in X86Like
  <2>1. a # "sparc"
    BY <1>1 DEF X86Like, X86_64
  <2> QED BY <1>1, <2>1, X86PrelinkKin
<1>2. CASE a = "sh"
  BY <1>2, ShPrelink
<1>3. CASE a = "alpha"
  BY <1>3, AlphaPrelink
<1>4. CASE a \in Ppc
  <2>1. a # "sparc"
    BY <1>4 DEF Ppc
  <2> QED BY <1>4, <2>1, PpcPrelink
<1>5. CASE a = "ppc64"
  BY <1>5, Ppc64Prelink
<1>6. CASE a = "sparc"
  BY <1>6, SparcPrelink
<1>7. CASE a = "sparc64"
  BY <1>7, Sparc64Prelink
<1> QED BY <1>1, <1>2, <1>3, <1>4, <1>5, <1>6, <1>7, ArchCases

(* Prelinking, on all of them: what undoing needs is kept and got[1] is    *)
(* set.                                                                    *)
LEMMA PrelinkA ==
  ASSUME NEW a \in RelaArchs, NEW q, NEW o, KinA(a, q, o), FormA(a, o), NEW s \in Syms,
         q.got \in {0, GotOf(a, q)},
         NEW p, p = ArchPrelink(a, PrelinkRel(a, ArchPrePrelink(a, q), s), s)
  PROVE  /\ KinA(a, p, o) /\ p.base = q.base /\ p.ok = q.ok /\ p.got = GotOf(a, p)
         /\ a = "sparc" /\ q.type = "RELATIVE" => p.addend = 0
<1> DEFINE g == ArchPrePrelink(a, q)
           m == PrelinkRel(a, g, s)
<1>0. Plt(q) # 0 /\ Plt(q) \in Int
  <2>1. q.base \in Nat
    BY KinFacts
  <2> QED BY <2>1 DEF Plt, PltOffset
<1>1. g \in {q, [q EXCEPT !.got = Plt(q)]}
  BY DEF ArchPrePrelink, ppc_arch_pre_prelink
<1>2. a = "ppc" => g.got = Plt(q)
  <2>1. ASSUME a = "ppc" PROVE g = IF q.got = 0 THEN [q EXCEPT !.got = Plt(q)] ELSE q
    BY <2>1, PpcCode DEF ArchPrePrelink, ppc_arch_pre_prelink, Ppc
  <2>2. [q EXCEPT !.got = Plt(q)].got = Plt(q)
    BY <1>0, GotFacts DEF KinA
  <2>3. a = "ppc" => q.got \in {0, Plt(q)}
    BY DEF GotOf, GotArchs
  <2> QED BY <2>1, <2>2, <2>3
<1>3. a \notin GotArchs => g = q /\ q.got = 0
  <2>1. a \notin GotArchs => q.got = 0
    BY ArchCases DEF GotOf
  <2>2. ASSUME a \notin GotArchs PROVE g = q
    <3>1. CASE a \in Ppc
      <4>1. a = "ppc_bss"
        BY <2>2, <3>1 DEF Ppc, GotArchs
      <4> QED BY <3>1, <4>1, PpcCode DEF ArchPrePrelink, ppc_arch_pre_prelink
    <3>2. CASE a \notin Ppc
      BY <3>2 DEF ArchPrePrelink
    <3> QED BY <3>1, <3>2
  <2> QED BY <2>1, <2>2
<1> HIDE DEF g
<1>4. KinA(a, g, o) /\ Frame(g, q) /\ g.base = q.base /\ Plt(g) = Plt(q)
  BY <1>1, GotTouched
<1>5. m = PrelinkRel(a, g, s)
  OBVIOUS
<1>5a. p = ArchPrelink(a, m, s)
  BY DEF g
<1> HIDE DEF m
<1>6. KinA(a, m, o) /\ Kept(m, g) /\ (a = "sparc" /\ g.type = "RELATIVE" => m.addend = 0)
  BY <1>4, <1>5, WrittenA
<1>7. p = IF a \in X86_64 \union {"s390", "s390x", "sh"} THEN [m EXCEPT !.got = Plt(m)] ELSE m
  BY <1>5a, ArchCases DEF ArchPrelink, X86_64, x86_64_arch_prelink, s390_arch_prelink,
     s390x_arch_prelink, sh_arch_prelink, Mips
<1>8. /\ KinA(a, p, o) /\ Frame(p, m) /\ p.base = m.base /\ p.addend = m.addend
           /\ Plt(p) = Plt(m)
  BY <1>6, <1>7, GotTouched
<1>9. Plt(m) = Plt(q) /\ m.got = g.got /\ m.base = q.base /\ m.ok = q.ok /\ m.type = q.type
  BY <1>4, <1>6 DEF Kept, Frame, Plt
<1>10. [m EXCEPT !.got = Plt(m)].got = Plt(m)
  BY <1>0, <1>6, <1>9, GotFacts DEF KinA
<1>11. p.got = GotOf(a, p)
  <2>1. CASE a \in X86_64 \union {"s390", "s390x", "sh"}
    BY <1>7, <1>8, <1>10, <2>1 DEF GotOf, GotArchs
  <2>2. CASE a = "ppc"
    BY <1>2, <1>7, <1>8, <1>9, <2>2 DEF GotOf, GotArchs, X86_64
  <2>3. CASE a \notin GotArchs
    BY <1>3, <1>7, <1>9, <2>3, ArchCases DEF GotOf, GotArchs
  <2> QED BY <2>1, <2>2, <2>3, ArchCases DEF GotArchs
<1> QED BY <1>4, <1>6, <1>8, <1>9, <1>11 DEF Frame

(* Undoing leaves the addend of a PLT slot of alpha alone.                 *)
LEMMA AlphaSlotAddend ==
  ASSUME NEW a, a = "alpha", NEW q, NEW o, KinA(a, q, o), FormA(a, o), q.type \in Slot, NEW m,
             m = UndoRel(a, q)
  PROVE  m.addend = q.addend
<1>1. q \in Relocs /\ LdType(a, q) /\ q.slot \in Nat /\ q.base \in Nat
  BY KinFacts
<1>2. q.type = "JMP_SLOT"
  BY <1>1 DEF Slot, LdType, ld_exec_types, ld_types, X86_64, Mips, Ppc, alpha_Tls
<1> DEFINE x == Plt(q) + 12 * q.slot
           n == Put(q, 8, x)
<1>3. m = [n EXCEPT !.code = Lazy]
  BY <1>2 DEF UndoRel, X86_64, Ppc, Mips, RelArchs, alpha_undo_prelink_rela, alpha_Tls
<1>4. x \in Int
  BY <1>1 DEF Plt, PltOffset
<1> HIDE DEF x
<1>4a. Written(n, q)
  BY <1>1, <1>4, PutWritten
<1> HIDE DEF n
<1>5. n \in Relocs /\ n.addend = q.addend
  BY <1>4a DEF Written, Alike
<1>6. [n EXCEPT !.code = Lazy].addend = n.addend
  BY <1>5 DEF Relocs
<1> QED BY <1>3, <1>5, <1>6

(* Undoing, on all of them: the relocation is as ld leaves it, for the     *)
(* base where the object is.                                               *)
LEMMA UnlinkedA ==
  ASSUME NEW a \in RelaArchs, NEW q, NEW o, KinA(a, q, o), FormA(a, o), q.got = GotOf(a, q),
         a = "sparc" /\ q.type = "RELATIVE" => q.addend = 0, a = "alpha" /\ q.type \in Slot =>
           q.addend = o.addend,
         q.type # "OLO10+8", NEW n, n = ArchUndo(a, UndoRel(a, q))
  PROVE  /\ FormA(a, n) /\ KinA(a, n, o) /\ n.base = q.base /\ n.ok = q.ok
         /\ a = "alpha" /\ q.type \in Slot => n.addend = o.addend
<1> DEFINE u == UndoRel(a, q)
           slot == a = "ppc" /\ q.type = "JMP_SLOT"
           m == IF slot THEN Put(q, 4, q.got + 4 * q.slot) ELSE u
<1>0. n = ArchUndo(a, u)
  OBVIOUS
<1>a. a \in Names
  BY ArchCases
<1>b. Plt(q) # 0 /\ Plt(q) \in Int /\ q.slot \in Nat
  <2>1. q.base \in Nat /\ q.slot \in Nat
    BY KinFacts
  <2> QED BY <2>1 DEF Plt, PltOffset
<1>1. a \in GotArchs => q.got = Plt(q)
  BY DEF GotOf
<1>2. a \notin GotArchs => q.got = 0
  BY ArchCases DEF GotOf
<1>3. a \in Ppc => (ppc_got(q) <=> a = "ppc")
  BY PpcCode
<1>4. slot => u = q
  BY <1>3 DEF UndoRel, X86_64, Ppc, Mips, RelArchs, ppc_undo_prelink_rela, ppc_Word, ppc_Half,
     ppc_Low, ppc_DtpRel16, ppc_TpRel16, ppc_Predicted
<1> HIDE DEF u
<1>5. Kept(m, q) /\ KinA(a, m, o) /\ AsLinked(a, m)
  <2>1. CASE a \in X86_64
    <3>1. m = u /\ a \in GotArchs
      BY <2>1 DEF X86_64, GotArchs
    <3> HIDE DEF m
    <3> QED BY <1>1, <2>1, <3>1, X8664Undo DEF u
  <2>2. CASE a = "s390"
    <3>1. m = u /\ a \in GotArchs
      BY <2>2 DEF GotArchs
    <3> HIDE DEF m
    <3> QED BY <1>1, <2>2, <3>1, S390Undo DEF u
  <2>3. CASE a = "s390x"
    <3>1. m = u /\ a \in GotArchs
      BY <2>3 DEF GotArchs
    <3> HIDE DEF m
    <3> QED BY <1>1, <2>3, <3>1, S390xUndo DEF u
  <2>4. CASE a = "sh"
    <3>1. m = u /\ a \in GotArchs
      BY <2>4 DEF GotArchs
    <3> HIDE DEF m
    <3> QED BY <1>1, <2>4, <3>1, ShUndo DEF u
  <2>5. CASE a = "alpha"
    <3>1. m = u
      BY <2>5
    <3> HIDE DEF m
    <3> QED BY <2>5, <3>1, AlphaUndo DEF u
  <2>6. CASE slot
    <3>1. m = Put(q, 4, q.got + 4 * q.slot) /\ a \in GotArchs
      BY <2>6 DEF GotArchs
    <3>2. a = "ppc" /\ q.type = "JMP_SLOT"
      BY <2>6
    <3> HIDE DEF m, slot
    <3> QED BY <1>1, <3>1, <3>2, PpcSlotUndo
  <2>7. CASE a \in Ppc /\ ~ slot
    <3>1. m = u /\ (q.type = "JMP_SLOT" => a = "ppc_bss") /\ a \in Ppc
      BY <2>7 DEF Ppc
    <3> HIDE DEF m, slot
    <3> QED BY <3>1, PpcUndo DEF u
  <2>8. CASE a = "ppc64"
    <3>1. m = u
      BY <2>8
    <3> HIDE DEF m
    <3> QED BY <2>8, <3>1, Ppc64Undo DEF u
  <2>9. CASE a = "sparc"
    <3>1. m = u
      BY <2>9
    <3> HIDE DEF m
    <3> QED BY <2>9, <3>1, SparcUndo DEF u
  <2>10. CASE a = "sparc64"
    <3>1. m = u
      BY <2>10
    <3> HIDE DEF m
    <3> QED BY <2>10, <3>1, Sparc64Undo DEF u
  <2> HIDE DEF m, slot
  <2> QED BY <2>1, <2>2, <2>3, <2>4, <2>5, <2>6, <2>7, <2>8, <2>9, <2>10, ArchCases DEF X86Like
<1>6. a = "alpha" /\ q.type \in Slot => m.addend = o.addend
  <2>1. a = "alpha" => m = u
    OBVIOUS
  <2> HIDE DEF m
  <2> QED BY <2>1, AlphaSlotAddend DEF u
<1>7. m \in Relocs /\ m.got = q.got /\ Plt(m) = Plt(q) /\ m.base = q.base /\ m.ok = q.ok
        /\ m.type = q.type /\ m.slot = q.slot
  BY <1>5 DEF Kept, Placed, Plt
<1>8. a \in GotArchs => n = [m EXCEPT !.got = 0]
  <2>1. CASE a \in X86_64 \union {"s390", "s390x", "sh"}
    <3>1. m = u
      BY <2>1 DEF X86_64
    <3>2. u.got = Plt(u)
      BY <1>1, <1>7, <2>1, <3>1 DEF GotArchs
    <3> QED BY <1>0, <2>1, <3>1, <3>2 DEF ArchUndo, X86_64, Ppc, Mips, x86_64_arch_undo_prelink,
               s390_arch_undo_prelink, s390x_arch_undo_prelink, sh_arch_undo_prelink
  <2>2. CASE a = "ppc" /\ slot
    <3>1. u = q /\ ppc_got(q) /\ q.got # 0 /\ q.type = "JMP_SLOT"
      BY <1>b, <1>1, <1>3, <1>4, <2>2 DEF Ppc, GotArchs
    <3>2. m = Put(q, 4, q.got + 4 * q.slot)
      BY <2>2
    <3> HIDE DEF m, slot
    <3> QED BY <1>0, <2>2, <3>1, <3>2 DEF ArchUndo, X86_64, Ppc, Mips, ppc_arch_undo_prelink
  <2>3. CASE a = "ppc" /\ ~ slot
    <3>1. m = u /\ a \in Ppc /\ q.type # "JMP_SLOT"
      BY <2>3 DEF Ppc
    <3> HIDE DEF m, slot
    <3>2. ppc_got(m)
      BY <1>5, <2>3, <3>1, PpcCode
    <3>3. m.got # 0 /\ m.type # "JMP_SLOT"
      BY <1>b, <1>1, <1>7, <2>3, <3>1 DEF GotArchs
    <3> QED BY <1>0, <2>3, <3>1, <3>2, <3>3 DEF ArchUndo, X86_64, Ppc, Mips,
               ppc_arch_undo_prelink
  <2> HIDE DEF m, slot
  <2> QED BY <2>1, <2>2, <2>3, ArchCases DEF GotArchs
<1>9. a \notin GotArchs => n = m
  <2>1. ASSUME a \notin GotArchs PROVE n = u /\ ~ slot
    <3>1. ~ slot
      BY <2>1 DEF GotArchs
    <3>2. CASE a = "ppc_bss"
      <4>1. m = u
        BY <3>2
      <4>2. u.got = 0
        BY <1>2, <1>7, <2>1, <4>1
      <4> QED BY <1>0, <3>1, <3>2, <4>2 DEF ArchUndo, X86_64, Ppc, Mips, ppc_arch_undo_prelink
    <3>3. CASE a \in {"alpha", "ppc64", "sparc", "sparc64"}
      BY <1>0, <3>1, <3>3 DEF ArchUndo, X86_64, Ppc, Mips
    <3> QED BY <2>1, <3>2, <3>3, ArchCases DEF GotArchs, X86Like, Ppc
  <2> QED BY <2>1
<1> HIDE DEF m, slot
<1>10. Frame(n, m) /\ n.addend = m.addend /\ n.mem = m.mem /\ n.base = m.base /\ n.got = 0
  <2>1. CASE a \in GotArchs
    <3>1. m.got = Plt(m)
      BY <1>1, <1>7, <2>1
    <3>2. /\ n \in Relocs /\ Placed(n, m) /\ n.mem = m.mem /\ n.type = m.type /\ n.rela = m.rela
          /\ n.addend = m.addend /\ n.got = 0 /\ n.base = m.base /\ n.code = m.code
               /\ n.ok = m.ok
      BY <1>7, <1>8, <2>1, <3>1, ClearedGot
    <3> QED BY <3>2 DEF Frame
  <2>2. CASE a \notin GotArchs
    BY <1>2, <1>7, <1>9, <2>2 DEF Frame, Placed
  <2> QED BY <2>1, <2>2
<1>11. FormA(a, n) /\ KinA(a, n, o)
  BY <1>a, <1>5, <1>6, <1>7, <1>10, FormUndone
<1> QED BY <1>6, <1>7, <1>10, <1>11 DEF Frame

(* The architectures with REL relocations are those of ArchRelProofs.      *)
LEMMA RelCases ==
  ASSUME NEW a \in RelArchs
  PROVE  a \in Names /\ (a = "i386" \/ a = "arm" \/ a \in Mips)
           /\ (a \in GotArchs <=> a \notin Mips)
  BY DEF RelArchs, Names, GotArchs, Mips, X86_64

(* relocate_dso, on all of them.                                           *)
LEMMA MoveR ==
  ASSUME arch \in RelArchs, NEW q, NEW o, KinR(arch, q, o), FormR(arch, o), NEW b \in Nat,
         q.exec => b = q.base,
         NEW p, p = Relocated(q, b)
  PROVE  /\ KinR(arch, p, o) /\ Frame(p, q) /\ p.base = b
         /\ q.got = 0 => p.got = 0
         /\ q.got = GotOf(arch, q) => p.got = GotOf(arch, p)
         /\ FormR(arch, q) => FormR(arch, p)
<1> DEFINE d == b - q.base
           m == AdjustRel(arch, q, d)
<1>0. q.base \in Nat
  BY KinRFacts
<1>1. d \in Int /\ (q.exec => d = 0)
  BY <1>0
<1>2. m = AdjustRel(arch, q, b - q.base)
  OBVIOUS
<1>2a. m = AdjustRel(arch, q, d)
  OBVIOUS
<1> HIDE DEF d, m
<1>3. MovesBy(arch, m, q, d)
  <2>1. CASE arch = "i386"
    BY <1>1, <1>2a, <2>1, I386Move
  <2>2. CASE arch = "arm"
    BY <1>1, <1>2a, <2>2, ArmMove
  <2>3. CASE arch \in Mips
    BY <1>1, <1>2a, <2>3, MipsMove
  <2> QED BY <2>1, <2>2, <2>3, RelCases
<1>4. MovesBy(arch, m, q, b - q.base)
  BY <1>3 DEF d
<1>5. /\ KinR(arch, p, o) /\ Frame(p, q) /\ p.base = b
      /\ q.got = 0 => p.got = 0
      /\ arch \in GotArchs /\ q.got = Plt(q) => p.got = Plt(p)
      /\ FormR(arch, q) => FormR(arch, p)
  BY <1>2, <1>4, MovedR
<1>6. ASSUME arch \in Mips PROVE q.got = GotOf(arch, q) => p.got = GotOf(arch, p)
  <2>1. arch \notin GotArchs
    BY <1>6, RelCases
  <2>2. CASE q.exec
    <3>1. b = q.base
      BY <2>2
    <3>2. p.got = q.got
      <4>1. m.got = q.got /\ m \in Relocs
        BY <1>3 DEF MovesBy, Alike
      <4>2. p = [m EXCEPT !.base = b]
        BY <1>2, <1>6 DEF Relocated, AdjustDyn, Mips, X86_64, Ppc
      <4> QED BY <4>1, <4>2, BaseFacts
    <3>3. p.exec /\ Plt(p) = Plt(q)
      BY <1>5, <2>2, <3>1 DEF Frame, Placed, Plt
    <3> QED BY <1>6, <2>2, <3>2, <3>3 DEF GotOf
  <2>3. CASE ~ q.exec
    <3>1. ~ p.exec
      BY <1>5, <2>3 DEF Frame, Placed
    <3> QED BY <1>5, <2>1, <2>3, <3>1 DEF GotOf
  <2> QED BY <2>2, <2>3
<1>7. ASSUME arch \notin Mips PROVE q.got = GotOf(arch, q) => p.got = GotOf(arch, p)
  BY <1>5, <1>7, RelCases DEF GotOf
<1> QED BY <1>5, <1>6, <1>7

(* prelink_prepare converts what must be converted, and keeps what undoing *)
(* needs.                                                                  *)
LEMMA PreparedR ==
  ASSUME arch \in RelArchs, NEW q, NEW o, KinR(arch, q, o), FormR(arch, o), q.type # o.type =>
         ~ mixed,
         NEW p, p = Prepared(q)
  PROVE  /\ KinR(arch, p, o) /\ Ready(arch, mixed, p)
         /\ p.type = q.type /\ p.mem = q.mem /\ p.base = q.base /\ p.got = q.got /\ p.ok = q.ok
              /\ Placed(p, q)
         /\ p.rela \/ p = q
<1> DEFINE c == /\ arch \in RelArchs
                /\ ~ q.rela
                /\ q.type \notin Slot \union {"TLS_DESC", "TLS_DESC_NOW"} \union mips_Got
                /\ NeedRelToRela(arch, q) \/ mixed
<1>1. p = IF c THEN RelToRela(arch, q) ELSE q
  BY DEF Prepared
<1>2. CASE ~ c
  <2>1. p = q
    BY <1>1, <1>2
  <2>2. Ready(arch, mixed, q)
    BY <1>2 DEF Ready, Exempt
  <2> QED BY <2>1, <2>2 DEF Placed
<1>3. CASE c
  <2>1. p = RelToRela(arch, q) /\ ~ q.rela /\ q.type \notin Exempt
    BY <1>1, <1>3 DEF Exempt
  <2>2. q.type = o.type
    <3>1. ASSUME q.type # o.type PROVE FALSE
      <4>1. q.type = "GLOB_DAT" /\ ~ mixed
        BY <3>1 DEF KinR, SameR
      <4>2. ~ NeedRelToRela(arch, q)
        BY <4>1, RelCases DEF NeedRelToRela, i386_need_rel_to_rela, arm_need_rel_to_rela,
           mips_need_rel_to_rela, mips_Tls, mips_DtpMod, mips_DtpRel, mips_TpRel, Mips
      <4> QED BY <1>3, <4>1, <4>2
    <3> QED BY <3>1
  <2> HIDE DEF c
  <2>3. Converted(p, q, o)
    <3>1. CASE arch = "i386"
      BY <2>1, <2>2, <3>1, I386Convert
    <3>2. CASE arch = "arm"
      BY <2>1, <2>2, <3>2, ArmConvert
    <3>3. CASE arch \in Mips
      BY <2>1, <2>2, <3>3, MipsConvert
    <3> QED BY <3>1, <3>2, <3>3, RelCases
  <2>4. /\ KinR(arch, p, o) /\ Placed(p, q) /\ p.mem = q.mem /\ p.type = q.type /\ p.rela
        /\ p.got = q.got /\ p.base = q.base /\ p.ok = q.ok
    BY <2>1, <2>2, <2>3, ConvertedFacts
  <2> QED BY <2>4 DEF Ready
<1> QED BY <1>2, <1>3

(* Prelinking, on all of them: only a branch out of reach is refused.      *)
LEMMA PrelinkedR ==
  ASSUME NEW a \in RelArchs, NEW q, NEW o, KinR(a, q, o), FormR(a, o), NEW mx, Ready(a, mx, q),
         q.type # o.type => ~ mx, q.exec /\ q.type \in mips_DtpMod => mx,
           q.got \in {0, GotOf(a, q)},
         q.type = "TLS_DESC" /\ q.mem.val # 0 => q.got # 0,
         NEW s \in Syms, q.exec /\ q.type \in mips_Defined => s.val = q.base + 12,
         NEW p, p = ArchPrelink(a, PrelinkRel(a, ArchPrePrelink(a, q), s), s)
  PROVE  /\ KinR(a, p, o) /\ (p.type # o.type => ~ mx) /\ Done(a, p) /\ p.base = q.base
              /\ p.got = GotOf(a, p)
         /\ q.type \notin {"PC24", "TLS_DESC_NOW"} => p.ok = q.ok
<1> DEFINE m == PrelinkRel(a, q, s)
<1>1. p = ArchPrelink(a, m, s)
  BY DEF ArchPrePrelink, RelArchs, Mips, Ppc
<1>2. m = PrelinkRel(a, q, s)
  OBVIOUS
<1> HIDE DEF m
<1>3. CASE a \in {"i386", "arm"}
  <2>1. /\ KinR(a, m, o) /\ KeptB(m, q) /\ (m.type # o.type => ~ mx) /\ Done(a, m)
        /\ q.type \notin {"PC24", "TLS_DESC_NOW"} => m.ok = q.ok
    <3>1. CASE a = "i386"
      <4>1. KinR(a, m, o) /\ KeptR(m, q) /\ (m.type # o.type => ~ mx) /\ Done(a, m)
        BY <1>2, <3>1, I386Prelink
      <4> QED BY <4>1 DEF KeptR, KeptB
    <3>2. CASE a = "arm"
      BY <1>2, <3>2, ArmPrelink
    <3> QED BY <1>3, <3>1, <3>2
  <2>2. p = [m EXCEPT !.got = Plt(m)]
    BY <1>1, <1>3 DEF ArchPrelink, X86_64, Mips, i386_arch_prelink, arm_arch_prelink
  <2>3. Plt(m) \in Int
    <3>1. m.base \in Nat
      BY <2>1, KinRFacts
    <3> QED BY <3>1 DEF Plt, PltOffset
  <2>4. KinR(a, p, o) /\ p.type = m.type /\ p.rela = m.rela /\ p.base = m.base /\ p.ok = m.ok
          /\ p.got = Plt(m)
    BY <2>1, <2>2, <2>3, GotSet
  <2>5. Done(a, p)
    BY <2>1, <2>4 DEF Done
  <2>6. p.got = GotOf(a, p)
    BY <1>3, <2>4 DEF GotOf, GotArchs, Plt
  <2> QED BY <2>1, <2>4, <2>5, <2>6 DEF KeptB
<1>4. CASE a \in Mips
  <2>1. KinR(a, m, o) /\ KeptR(m, q) /\ (m.type # o.type => ~ mx) /\ Done(a, m)
    BY <1>2, <1>4, MipsPrelink
  <2>2. m.type \in mips_Defined => q.type \in mips_Defined
    <3>1. m.type \in mips_Defined => m.type = o.type
      BY <2>1 DEF KinR, SameR, mips_Defined
    <3>2. q.type = o.type \/ o.type \in Plain32
      BY DEF KinR, SameR
    <3> QED BY <3>1, <3>2 DEF Plain32, mips_Defined
  <2>3. m.exec /\ m.type \in mips_Defined => s.val = m.base + 12
    BY <2>1, <2>2 DEF KeptR, Placed
  <2>4. /\ KinR(a, p, o) /\ p.type = m.type /\ p.rela = m.rela /\ p.base = m.base
             /\ p.ok = m.ok /\ p.exec = m.exec
        /\ p.got = IF m.exec THEN Plt(p) ELSE m.got
    BY <1>1, <1>4, <2>1, <2>3, MipsArch
  <2>5. Done(a, p)
    BY <2>1, <2>4 DEF Done
  <2>6. p.got = GotOf(a, p)
    <3>1. a \notin GotArchs
      BY <1>4, RelCases
    <3>2. m.exec = q.exec /\ m.got = q.got
      BY <2>1 DEF KeptR, Placed
    <3>3. ~ q.exec => q.got = 0
      BY <3>1 DEF GotOf
    <3>4. CASE m.exec
      BY <1>4, <2>4, <3>4 DEF GotOf
    <3>5. CASE ~ m.exec
      BY <2>4, <3>1, <3>2, <3>3, <3>5 DEF GotOf
    <3> QED BY <3>4, <3>5
  <2> QED BY <2>1, <2>4, <2>5, <2>6 DEF KeptR
<1> QED BY <1>3, <1>4, RelCases

(* Undoing, on all of them, the conversion back to REL included.           *)
LEMMA UnlinkedR ==
  ASSUME NEW a \in RelArchs, NEW q, NEW o, KinR(a, q, o), FormR(a, o), q.got = GotOf(a, q),
             Done(a, q),
         NEW n, n = ArchUndo(a, UndoRel(a, q)), NEW k, k = IF n.rela THEN RelaToRel(a, n) ELSE n
  PROVE  FormR(a, k) /\ KinR(a, k, o) /\ k.base = q.base /\ k.ok = q.ok
<1>1. CASE a = "i386"
  <2>1. q.got = Plt(q)
    BY <1>1 DEF GotOf, GotArchs
  <2> QED BY <1>1, <2>1, I386Undo
<1>2. CASE a = "arm"
  <2>1. q.got = Plt(q)
    BY <1>2 DEF GotOf, GotArchs
  <2> QED BY <1>2, <2>1, ArmUndo
<1>3. CASE a \in Mips
  <2>1. (q.got = 0 \/ q.got = Plt(q)) /\ (q.exec => q.got = Plt(q))
    BY <1>3 DEF GotOf
  <2> QED BY <1>3, <2>1, MipsUndo
<1> QED BY <1>1, <1>2, <1>3, RelCases

-----------------------------------------------------------------------------
(* All architectures, and the inductive invariant.                         *)

(* The relocation is as ld leaves it.                                      *)
Form(a, o) == IF a \in RelArchs THEN FormR(a, o) ELSE FormA(a, o)

(* What undoing needs of the original is still there.                      *)
Kin(a, q, o) == IF a \in RelArchs THEN KinR(a, q, o) ELSE KinA(a, q, o)

(* It has been prelinked, and nothing is left to do.                       *)
Settled(a, q) ==
  /\ a \in RelArchs => Done(a, q)
  /\ a = "sparc" /\ q.type = "RELATIVE" => q.addend = 0

(* Only a section that stays REL has a word that became a GLOB_DAT.        *)
Renamed(mx, q, o) == q.type # o.type => ~ mx

(* What the provers need of a relocation that ld made.                     *)
LEMMA FormFacts ==
  ASSUME NEW a \in Names, NEW o, Form(a, o)
  PROVE  /\ o \in Relocs /\ Typed(o) /\ LdType(a, o) /\ Kin(a, o, o) /\ o.got = 0
              /\ o.class = ld_class(a)
         /\ o.inGot = (o.type \in Slot \union {"GLOB_DAT"}) /\ (o.rela <=> a \notin RelArchs)
<1>1. CASE a \in RelArchs
  BY <1>1, FormKinR, TypedFacts DEF Form, Kin, FormR
<1>2. CASE a \notin RelArchs
  <2>1. FormA(a, o)
    BY <1>2 DEF Form
  <2>2. a \in Names \ RelArchs
    BY <1>2
  <2>3. KinA(a, o, o)
    BY <2>1, <2>2, FormKin
  <2> QED BY <1>2, <2>1, <2>3, TypedFacts DEF Kin, FormA
<1> QED BY <1>1, <1>2

(* What they need of one that is like the original.                        *)
LEMMA KinIs ==
  ASSUME NEW a, NEW q, NEW o, Kin(a, q, o)
  PROVE  /\ q \in Relocs /\ o \in Relocs /\ Placed(q, o) /\ Typed(q)
         /\ q.type = o.type \/ (q.type = "GLOB_DAT" /\ o.type \in Plain32 /\ a \in RelArchs)
<1>1. CASE a \in RelArchs
  BY <1>1, TypedFacts DEF Kin, KinR, SameR
<1>2. CASE a \notin RelArchs
  BY <1>2, TypedFacts DEF Kin, KinA
<1> QED BY <1>1, <1>2

(* A callback refused, and what undoing needs is kept.                     *)
LEMMA BadKin ==
  ASSUME NEW a, NEW q, NEW o, Kin(a, q, o), NEW p, p = Bad(q)
  PROVE  /\ Kin(a, p, o) /\ ~ p.ok /\ p.type = q.type /\ p.base = q.base /\ p.got = q.got
              /\ p.exec = q.exec
         /\ GotOf(a, p) = GotOf(a, q) /\ p.addend = q.addend /\ p.rela = q.rela
         /\ Form(a, q) => Form(a, p)
<1>1. q \in Relocs
  BY KinIs
<1>2. /\ p \in Relocs /\ Placed(p, q) /\ p.mem = q.mem /\ p.type = q.type /\ p.rela = q.rela
      /\ p.addend = q.addend /\ p.got = q.got /\ p.base = q.base /\ p.code = q.code /\ ~ p.ok
  BY <1>1, BadFacts
<1>3. Kin(a, p, o)
  <2>1. CASE a \in RelArchs
    BY <1>2, <2>1, KinRGot DEF Kin
  <2>2. CASE a \notin RelArchs
    <3>1. Placed(p, o) /\ KinA(a, q, o)
      BY <1>2, <2>2 DEF Kin, KinA, Placed
    <3>2. q.type \in Addr => AddrKin(a, p, o)
      BY <1>2, <3>1 DEF KinA, AddrKin, Placed, Target
    <3>3. q.type \in Slot => SlotKin(a, p, o)
      BY <1>2, <3>1 DEF KinA, SlotKin, Placed, sparc64_far, Plt
    <3>4. KinA(a, p, o)
      BY <1>2, <3>1, <3>2, <3>3 DEF KinA
    <3> QED BY <2>2, <3>4 DEF Kin
  <2> QED BY <2>1, <2>2
<1>4. ASSUME Form(a, q) PROVE Form(a, p)
  <2>0. /\ p.type = q.type /\ p.class = q.class /\ p.addend = q.addend /\ p.base = q.base
             /\ p.slot = q.slot /\ p.def = q.def
        /\ p.mem = q.mem /\ p.exec = q.exec /\ p.inGot = q.inGot
    BY <1>2 DEF Placed
  <2>a. LdVal(a, p) = LdVal(a, q) /\ ld_width(a, p) = ld_width(a, q)
    BY <2>0, LinkedVal
  <2>b. LdType(a, q) => LdType(a, p)
    BY <2>0 DEF LdType
  <2>1. CASE a \in RelArchs
    <3>1. LdWord(a, q) => LdWord(a, p)
      BY <2>0 DEF LdWord, Target, Plt, mips_stub
    <3> QED BY <1>2, <1>4, <2>0, <2>a, <2>b, <2>1, <3>1 DEF Form, FormR
  <2>2. CASE a \notin RelArchs
    <3>1. FormA(a, q)
      BY <1>4, <2>2 DEF Form
    <3>2. LdAddends(a, p) = LdAddends(a, q) /\ LdCode(a, p) = LdCode(a, q)
      BY <2>0 DEF LdAddends, LdCode, Target, sparc64_far, Plt
    <3>3. FormA(a, p)
      BY <1>2, <2>0, <2>a, <2>b, <3>1, <3>2 DEF FormA
    <3> QED BY <2>2, <3>3 DEF Form
  <2> QED BY <2>1, <2>2
<1>5. GotOf(a, p) = GotOf(a, q) /\ p.exec = q.exec
  BY <1>2 DEF GotOf, Plt, Placed
<1> QED BY <1>2, <1>3, <1>4, <1>5

(* relocate_dso, on every architecture.                                    *)
LEMMA Moved ==
  ASSUME arch \in Names, NEW q, NEW o, Kin(arch, q, o), Form(arch, o), NEW b \in Nat, q.exec =>
         b = q.base,
         NEW p, p = Relocated(q, b)
  PROVE  /\ Kin(arch, p, o) /\ Frame(p, q) /\ p.base = b
         /\ q.got = 0 => p.got = 0
         /\ q.got = GotOf(arch, q) => p.got = GotOf(arch, p)
         /\ Form(arch, q) => Form(arch, p)
         /\ Form(arch, q) /\ arch = "alpha" /\ q.type \in Slot => p.addend = q.addend
         /\ Settled(arch, q) => Settled(arch, p)
<1>1. CASE arch \in RelArchs
  <2>1. /\ KinR(arch, p, o) /\ Frame(p, q) /\ p.base = b /\ (q.got = 0 => p.got = 0)
        /\ q.got = GotOf(arch, q) => p.got = GotOf(arch, p)
        /\ FormR(arch, q) => FormR(arch, p)
    BY <1>1, MoveR DEF Kin, Form
  <2>2. arch # "alpha" /\ arch # "sparc"
    BY <1>1 DEF RelArchs, Mips
  <2>3. Done(arch, q) => Done(arch, p)
    BY <2>1 DEF Done, Frame
  <2> QED BY <1>1, <2>1, <2>2, <2>3 DEF Kin, Form, Settled
<1>2. CASE arch \notin RelArchs
  <2>0. arch \in RelaArchs /\ KinA(arch, q, o) /\ FormA(arch, o)
    BY <1>2 DEF RelaArchs, Kin, Form
  <2>1. /\ KinA(arch, p, o) /\ Frame(p, q) /\ p.base = b /\ (q.got = 0 => p.got = 0)
        /\ arch \in GotArchs /\ q.got = Plt(q) => p.got = Plt(p)
        /\ FormA(arch, q) => FormA(arch, p)
        /\ FormA(arch, q) /\ arch = "alpha" /\ q.type \in Slot => p.addend = q.addend
        /\ arch = "sparc" /\ q.type = "RELATIVE" => (p.addend = 0 <=> q.addend = 0)
    BY <2>0, MoveA
  <2>2. q.got = GotOf(arch, q) => p.got = GotOf(arch, p)
    BY <2>0, <2>1, ArchCases DEF GotOf
  <2>3. p.type = q.type
    BY <2>1 DEF Frame
  <2> QED BY <1>2, <2>1, <2>2, <2>3 DEF Kin, Form, Settled
<1> QED BY <1>1, <1>2

(* The types that a callback may refuse: sparc64 cannot undo an OLO10 with *)
(* its second addend, arm has no PLT entry for a TLS_DESC that is bound at *)
(* once, and a branch of arm may be out of reach.                          *)
Refusable == {"OLO10+8", "TLS_DESC_NOW", "PC24"}

(* The inductive invariant.  The variables have the expected values.       *)
TypeInv ==
  /\ arch \in Archs /\ mixed \in BOOLEAN /\ moved \in BOOLEAN
  /\ r.base \in Bases \union {0, 100000} /\ orig.base \in Bases \union {0, 100000}
  /\ own \in {"no"} \union OwnSymbols(arch, orig)
  /\ exe.done => exe.global \in GlobalSymbols(arch, orig, own)

(* The original is as ld leaves it, the file has all that undoing needs of *)
(* it, and nothing is refused that need not be.                            *)
KinInv ==
  /\ Form(arch, orig) /\ orig.ok
  /\ Kin(arch, r, orig)
  /\ r.exec => r.base = orig.base
  /\ Renamed(mixed, r, orig)
  /\ orig.exec /\ orig.type \in mips_DtpMod => mixed
  /\ r.type \notin Refusable => r.ok
  /\ r.got = IF own = "no" THEN 0 ELSE GotOf(arch, r)

(* A file that is not prelinked is as ld leaves it and, if it was undone,  *)
(* the original.                                                           *)
FreshInv == own = "no" => Form(arch, r) /\ (r.ok /\ ~ WrongUndo => r = orig)

(* A prelinked file is settled.                                            *)
DoneInv == own # "no" => Settled(arch, r)

(* All of it.                                                              *)
Inv == TypeInv /\ KinInv /\ FreshInv /\ DoneInv

(* What the symbol of a relocation may be.                                 *)
LEMMA OwnIs ==
  ASSUME NEW a, NEW o, NEW d \in OwnSymbols(a, o)
  PROVE  /\ d \in {"local", "none", "self", "selfi", "other", "otheri"}
         /\ o.type \in Tls => d \in {"self", "other", "local"}
         /\ o.type \in mips_Defined /\ o.def /\ a \in Mips => d = "self"
         /\ d \in GlobalSymbols(a, o, d)
<1>1. d \in {"local", "none", "self", "selfi", "other", "otheri"}
  BY DEF OwnSymbols, Fitting, Ifunc
<1>2. o.type \in Tls => o.type \notin NoSymbol
  BY DEF Tls, TpOff, DtpOff, DtpMod, NoSymbol, ppc_TpRel, ppc_TpRel16, mips_TpRel, ppc_DtpRel,
     ppc_DtpRel16, mips_DtpRel, mips_DtpMod
<1>3. o.type \in Tls => d \in {"self", "other", "local"}
  BY <1>2 DEF OwnSymbols
<1>4. o.type \in mips_Defined => o.type \notin NoSymbol \union Tls \union Slot
        \union {"GLOB_DAT", "ABS32", "32", "ADDR32", "UADDR32", "64", "ADDR64", "UADDR64"}
  BY DEF mips_Defined, Tls, TpOff, DtpOff, DtpMod, NoSymbol, ppc_TpRel, ppc_TpRel16, mips_TpRel,
     ppc_DtpRel, ppc_DtpRel16, mips_DtpRel, mips_DtpMod, Slot
<1>5. o.type \in mips_Defined /\ o.def /\ a \in Mips => d = "self"
  <2>1. o.type \in mips_Defined => ~ IfuncFits(a, o)
    BY <1>4 DEF IfuncFits
  <2> QED BY <1>4, <2>1 DEF OwnSymbols, Fitting, Ifunc
<1>6. d \in GlobalSymbols(a, o, d)
  BY DEF GlobalSymbols
<1> QED BY <1>1, <1>3, <1>5, <1>6

(* Plain words are not TLS.                                                *)
LEMMA Plain32NotTls == Plain32 \intersect Tls = {} /\ "GLOB_DAT" \notin Tls
  BY DEF Plain32, Tls, TpOff, DtpOff, DtpMod, ppc_TpRel, ppc_TpRel16, mips_TpRel, ppc_DtpRel,
     ppc_DtpRel16, mips_DtpRel, mips_DtpMod

(* A symbol is resolved to an address, and the one of a GOT entry of a     *)
(* MIPS executable to where it is defined.                                 *)
LEMMA Resolved ==
  ASSUME arch \in Names, NEW q, NEW o, Kin(arch, q, o), Form(arch, o),
         NEW d \in OwnSymbols(arch, o),
         NEW s, s = Resolve(q, d)
  PROVE  s \in Syms /\ (arch \in Mips /\ q.exec /\ q.type \in mips_Defined => s.val = q.base + 12)
<1>1. q.base \in Nat /\ (q.type = o.type \/ (q.type = "GLOB_DAT" /\ o.type \in Plain32))
  <2>1. Typed(q) /\ (q.type = o.type \/ (q.type = "GLOB_DAT" /\ o.type \in Plain32))
    BY KinIs
  <2> QED BY <2>1 DEF Typed
<1>2. /\ d \in {"local", "none", "self", "selfi", "other", "otheri"}
      /\ o.type \in Tls => d \in {"self", "other", "local"}
      /\ o.type \in mips_Defined /\ o.def /\ arch \in Mips => d = "self"
  BY OwnIs
<1>3. Value(q, d) \in Int
  <2>1. CASE q.type \in Tls
    <3>1. d \in {"self", "other", "local"}
      BY <1>1, <1>2, <2>1, Plain32NotTls
    <3> QED BY <2>1, <3>1 DEF Value, TlsAddress
  <2>2. CASE q.type \notin Tls
    BY <1>1, <1>2, <2>2 DEF Value, Address
  <2> QED BY <2>1, <2>2
<1>4. Block(d).modid \in Int /\ Block(d).offset \in Int
  BY <1>2 DEF Block
<1>5. s \in Syms
  BY <1>3, <1>4 DEF Resolve, Syms
<1>6. ASSUME arch \in Mips, q.exec, q.type \in mips_Defined PROVE s.val = q.base + 12
  <2>1. q.type = o.type
    BY <1>1, <1>6 DEF mips_Defined
  <2>2. o.def
    BY <1>6, <2>1 DEF Form, FormR, RelArchs
  <2>3. d = "self"
    BY <1>2, <1>6, <2>1, <2>2
  <2>4. q.type \notin Tls
    BY <1>6 DEF mips_Defined, Tls, TpOff, DtpOff, DtpMod, ppc_TpRel, ppc_TpRel16, mips_TpRel,
       ppc_DtpRel, ppc_DtpRel16, mips_DtpRel, mips_DtpMod
  <2> QED BY <2>3, <2>4 DEF Resolve, Value, Address, Ifunc
<1> QED BY <1>5, <1>6

(* What prelink_prepare and relocate_dso leave is fit to be prelinked.     *)
Fit(q, o) ==
  /\ Kin(arch, q, o) /\ Renamed(mixed, q, o) /\ q.got \in {0, GotOf(arch, q)}
  /\ arch \in RelArchs => Ready(arch, mixed, q)
       /\ (q.type = "TLS_DESC" /\ q.mem.val # 0 => q.got # 0)

(* prelink_prepare leaves it so.                                           *)
LEMMA FitPrepared ==
  ASSUME arch \in Names, KinInv, FreshInv, NEW q, q = Prepared(r)
  PROVE  /\ Fit(q, orig) /\ q.ok = r.ok /\ q.type = r.type /\ q.base = r.base /\ q.exec = r.exec
         /\ own = "no" /\ q.type = "TLS_DESC" => Form(arch, q)
         /\ q.got = IF own = "no" THEN 0 ELSE GotOf(arch, q)
<1>1. CASE arch \in RelArchs
  <2>1. KinR(arch, r, orig) /\ FormR(arch, orig) /\ (r.type # orig.type => ~ mixed)
    BY <1>1 DEF KinInv, Kin, Form, Renamed
  <2>2. /\ KinR(arch, q, orig) /\ Ready(arch, mixed, q)
        /\ q.type = r.type /\ q.mem = r.mem /\ q.base = r.base /\ q.got = r.got /\ q.ok = r.ok
             /\ Placed(q, r)
        /\ q.rela \/ q = r
    BY <1>1, <2>1, PreparedR
  <2>3. q.exec = r.exec /\ GotOf(arch, q) = GotOf(arch, r)
    BY <2>2 DEF Placed, GotOf, Plt
  <2>4. q.type = "TLS_DESC" => q = r
    BY <2>2 DEF KinR, RelaKin, Exempt
  <2>5. Plt(r) # 0
    <3>1. r.base \in Nat
      BY <2>1, KinRFacts
    <3> QED BY <3>1 DEF Plt, PltOffset
  <2>6. ASSUME q.type = "TLS_DESC", q.mem.val # 0 PROVE q.got # 0
    <3>1. q = r
      BY <2>4, <2>6
    <3>2. CASE own = "no"
      <4>1. FormR(arch, r)
        BY <1>1, <3>2 DEF FreshInv, Form
      <4>2. r.mem.val = 0
        BY <2>6, <3>1, <4>1 DEF FormR, LdWord, ZeroR
      <4> QED BY <2>6, <3>1, <4>2
    <3>3. CASE own # "no"
      <4>1. arch \in GotArchs
        <5>1. arch \in Mips => q.type \in MipsTypes
          BY <2>1, <2>2, MipsFacts
        <5> QED BY <1>1, <2>6, <5>1, RelCases DEF MipsTypes
      <4> QED BY <2>5, <3>1, <3>3, <4>1 DEF KinInv, GotOf
    <3> QED BY <3>2, <3>3
  <2>7. q.got = IF own = "no" THEN 0 ELSE GotOf(arch, q)
    BY <2>2, <2>3 DEF KinInv
  <2>8. own = "no" /\ q.type = "TLS_DESC" => Form(arch, q)
    BY <2>4 DEF FreshInv
  <2> QED BY <1>1, <2>1, <2>2, <2>3, <2>6, <2>7, <2>8 DEF Fit, Kin, Renamed
<1>2. CASE arch \notin RelArchs
  <2>1. q = r
    BY <1>2 DEF Prepared
  <2>2. q.got = IF own = "no" THEN 0 ELSE GotOf(arch, q)
    BY <2>1 DEF KinInv
  <2> QED BY <1>2, <2>1, <2>2 DEF Fit, KinInv, FreshInv
<1> QED BY <1>1, <1>2

(* relocate_dso leaves it so.                                              *)
LEMMA FitMoved ==
  ASSUME arch \in Names, Form(arch, orig), NEW q, Fit(q, orig), own = "no"
         /\ q.type = "TLS_DESC" => Form(arch, q),
         q.got = IF own = "no" THEN 0 ELSE GotOf(arch, q),
         NEW b \in Nat, q.exec => b = q.base, NEW p, p = Relocated(q, b)
  PROVE  Fit(p, orig) /\ p.ok = q.ok /\ p.type = q.type /\ p.base = b /\ p.exec = q.exec
<1>1. Kin(arch, q, orig)
  BY DEF Fit
<1>2. /\ Kin(arch, p, orig) /\ Frame(p, q) /\ p.base = b
      /\ q.got = 0 => p.got = 0
      /\ q.got = GotOf(arch, q) => p.got = GotOf(arch, p)
      /\ Form(arch, q) => Form(arch, p)
  BY <1>1, Moved
<1>3. p.ok = q.ok /\ p.type = q.type /\ p.exec = q.exec /\ p.rela = q.rela
  BY <1>2 DEF Frame, Placed
<1>4. Renamed(mixed, p, orig) /\ p.got \in {0, GotOf(arch, p)}
  BY <1>2, <1>3 DEF Fit, Renamed
<1>5. ASSUME arch \in RelArchs PROVE Ready(arch, mixed, p)
  <2>1. Ready(arch, mixed, q)
    BY <1>5 DEF Fit
  <2>2. CASE q.rela
    BY <1>3, <2>2 DEF Ready
  <2>3. CASE ~ q.rela /\ q.type \in Exempt
    BY <1>3, <2>3 DEF Ready
  <2>4. CASE ~ q.rela /\ q.type \notin Exempt
    <3>1. ~ NeedRelToRela(arch, q) /\ ~ mixed
      BY <2>1, <2>4 DEF Ready
    <3>2. q.type \in Plain32 => p.mem.val = q.mem.val
      <4>1. KinR(arch, q, orig) /\ KinR(arch, p, orig)
        BY <1>1, <1>2, <1>5 DEF Kin
      <4>2. q.type \in Plain32 => q.type \notin AddrR \union {"GOT_E", "GOT_F"}
              \union FreeR(arch)
        BY DEF Plain32, AddrR, FreeR, Slot
      <4>3. RelKin(arch, q, orig) /\ RelKin(arch, p, orig)
        BY <1>3, <2>4, <4>1 DEF KinR
      <4>4. q.type \in Plain32 => p.mem = orig.mem /\ q.mem = orig.mem
        BY <1>3, <4>2, <4>3 DEF RelKin
      <4> QED BY <4>4
    <3>3. ~ NeedRelToRela(arch, p)
      <4>1. CASE arch = "i386"
        BY <1>3, <3>1, <3>2, <4>1 DEF NeedRelToRela, i386_need_rel_to_rela, Mips, Plain32
      <4>2. CASE arch = "arm"
        BY <1>3, <3>1, <3>2, <4>2 DEF NeedRelToRela, arm_need_rel_to_rela, Mips, Plain32
      <4>3. CASE arch \in Mips
        BY <1>3, <3>1, <3>2, <4>3 DEF NeedRelToRela, mips_need_rel_to_rela, Mips, Plain32
      <4> QED BY <1>5, <4>1, <4>2, <4>3, RelCases
    <3> QED BY <3>1, <3>3 DEF Ready
  <2> QED BY <2>2, <2>3, <2>4
<1>6. ASSUME arch \in RelArchs, p.type = "TLS_DESC", p.mem.val # 0 PROVE p.got # 0
  <2>1. CASE own = "no"
    <3>1. FormR(arch, p)
      BY <1>2, <1>3, <1>6, <2>1 DEF Form
    <3> QED BY <1>6, <3>1 DEF FormR, LdWord, ZeroR
  <2>2. CASE own # "no"
    <3>1. p.got = GotOf(arch, p)
      BY <1>2, <2>2
    <3>2. arch \in GotArchs
      <4>1. arch \in Mips => p.type \in MipsTypes
        BY <1>2, <1>6, MipsFacts DEF Kin, Form
      <4> QED BY <1>6, <4>1, RelCases DEF MipsTypes
    <3> QED BY <1>2, <3>1, <3>2 DEF GotOf, Plt, PltOffset
  <2> QED BY <2>1, <2>2
<1> QED BY <1>2, <1>3, <1>4, <1>5, <1>6 DEF Fit

(* prelink, then, keeps what undoing needs and leaves nothing to do.       *)
LEMMA PrelinkedFit ==
  ASSUME arch \in Names, KinInv, NEW q, Fit(q, orig), NEW d \in OwnSymbols(arch, orig), NEW p,
         p = Prelinked(q, d)
  PROVE  /\ Kin(arch, p, orig) /\ Renamed(mixed, p, orig) /\ Settled(arch, p)
              /\ p.base = q.base /\ p.exec = q.exec
         /\ p.got = GotOf(arch, p)
         /\ q.type \notin {"PC24", "TLS_DESC_NOW"} => p.ok = q.ok
<1> DEFINE s == Resolve(q, d)
<1>1. Kin(arch, q, orig) /\ Form(arch, orig)
  BY DEF Fit, KinInv
<1>2. s \in Syms /\ (arch \in Mips /\ q.exec /\ q.type \in mips_Defined => s.val = q.base + 12)
  BY <1>1, Resolved
<1>3. p = ArchPrelink(arch, PrelinkRel(arch, ArchPrePrelink(arch, q), s), s)
  BY DEF Prelinked
<1> HIDE DEF s
<1>4. CASE arch \in RelArchs
  <2>1. KinR(arch, q, orig) /\ FormR(arch, orig) /\ Ready(arch, mixed, q)
          /\ (q.type # orig.type => ~ mixed)
        /\ q.got \in {0, GotOf(arch, q)} /\ (q.type = "TLS_DESC" /\ q.mem.val # 0 => q.got # 0)
    BY <1>1, <1>4 DEF Fit, Kin, Form, Renamed
  <2>2. q.exec /\ q.type \in mips_DtpMod => mixed
    <3>1. q.type \in mips_DtpMod => q.type = orig.type
      BY <2>1 DEF KinR, SameR, mips_DtpMod
    <3>2. q.exec => orig.exec
      BY <2>1 DEF KinR, Placed
    <3> QED BY <3>1, <3>2 DEF KinInv
  <2>3. q.exec /\ q.type \in mips_Defined => s.val = q.base + 12
    <3>1. q.type \in mips_Defined => arch \in Mips
      <4>1. LdType(arch, orig)
        BY <2>1 DEF FormR
      <4>2. q.type \in mips_Defined => q.type = orig.type
        BY <2>1 DEF KinR, SameR, mips_Defined
      <4> QED BY <1>4, <4>1, <4>2, RelTypes, RelCases DEF mips_Defined
    <3> QED BY <1>2, <3>1
  <2>4. /\ KinR(arch, p, orig) /\ (p.type # orig.type => ~ mixed) /\ Done(arch, p)
             /\ p.base = q.base /\ p.got = GotOf(arch, p)
        /\ q.type \notin {"PC24", "TLS_DESC_NOW"} => p.ok = q.ok
    BY <1>2, <1>3, <1>4, <2>1, <2>2, <2>3, PrelinkedR
  <2>5. p.exec = q.exec
    BY <2>1, <2>4 DEF KinR, Placed
  <2>6. arch # "sparc"
    BY <1>4 DEF RelArchs, Mips
  <2> QED BY <1>4, <2>4, <2>5, <2>6 DEF Kin, Settled, Renamed
<1>5. CASE arch \notin RelArchs
  <2>1. arch \in RelaArchs /\ KinA(arch, q, orig) /\ FormA(arch, orig)
          /\ q.got \in {0, GotOf(arch, q)}
    BY <1>1, <1>5 DEF RelaArchs, Fit, Kin, Form
  <2>2. /\ KinA(arch, p, orig) /\ p.base = q.base /\ p.ok = q.ok /\ p.got = GotOf(arch, p)
        /\ arch = "sparc" /\ q.type = "RELATIVE" => p.addend = 0
    BY <1>2, <1>3, <2>1, PrelinkA
  <2>3. p.exec = q.exec /\ p.type = q.type /\ p.type = orig.type
    BY <2>1, <2>2 DEF KinA, Placed
  <2> QED BY <1>5, <2>2, <2>3 DEF Kin, Settled, Renamed
<1> QED BY <1>4, <1>5

(* The PLT slots of alpha.                                                 *)
LEMMA AlphaSlotType ==
  ASSUME NEW o, LdType("alpha", o), o.type \in Slot
  PROVE  o.type = "JMP_SLOT"
  BY DEF Slot, LdType, ld_exec_types, ld_types, X86_64, Mips, Ppc, alpha_Tls

(* prelink_undo leaves what ld left, at the base where the original is.    *)
LEMMA UndoneForm ==
  ASSUME arch \in Names, KinInv, Settled(arch, r), own # "no", ~ WrongAddend,
         r.type # "OLO10+8", NEW p, p = Undone(r)
  PROVE  /\ Form(arch, p) /\ Kin(arch, p, orig) /\ p.base = orig.base /\ p.ok = r.ok
         /\ arch = "alpha" /\ p.type \in Slot => p.addend = orig.addend
<1> DEFINE n == ArchUndo(arch, UndoRel(arch, r))
           k == IF arch \in RelArchs THEN IF n.rela THEN RelaToRel(arch, n) ELSE n ELSE n
<1>0. /\ Form(arch, orig) /\ Kin(arch, r, orig) /\ r.got = GotOf(arch, r)
           /\ (r.exec => r.base = orig.base)
      /\ (orig.rela <=> arch \notin RelArchs) /\ orig.base \in Nat
  <2>1. Form(arch, orig) /\ Kin(arch, r, orig) /\ r.got = GotOf(arch, r)
          /\ (r.exec => r.base = orig.base)
    BY DEF KinInv
  <2> QED BY <2>1, FormFacts DEF Typed
<1>1. p = Relocated(k, orig.base)
  <2>1. arch \in RelArchs => BackToRel(n) = k
    BY <1>0 DEF BackToRel
  <2>2. arch \notin RelArchs => BackToRel(n) = k
    BY <1>0 DEF BackToRel
  <2> QED BY <2>1, <2>2 DEF Undone
<1>2. n = ArchUndo(arch, UndoRel(arch, r))
  OBVIOUS
<1>3. k = IF arch \in RelArchs THEN IF n.rela THEN RelaToRel(arch, n) ELSE n ELSE n
  OBVIOUS
<1> HIDE DEF n, k
<1>4. /\ Form(arch, k) /\ Kin(arch, k, orig) /\ k.base = r.base /\ k.ok = r.ok
      /\ arch = "alpha" /\ k.type \in Slot => k.addend = orig.addend
  <2>1. CASE arch \in RelArchs
    <3>1. k = IF n.rela THEN RelaToRel(arch, n) ELSE n
      BY <1>3, <2>1
    <3>2. KinR(arch, r, orig) /\ FormR(arch, orig) /\ Done(arch, r)
      BY <1>0, <2>1 DEF Kin, Form, Settled
    <3>3. FormR(arch, k) /\ KinR(arch, k, orig) /\ k.base = r.base /\ k.ok = r.ok
      BY <1>0, <1>2, <2>1, <3>1, <3>2, UnlinkedR
    <3>4. arch # "alpha"
      BY <2>1 DEF RelArchs, Mips
    <3> QED BY <2>1, <3>3, <3>4 DEF Form, Kin
  <2>2. CASE arch \notin RelArchs
    <3>1. k = n
      BY <1>3, <2>2
    <3>2. arch \in RelaArchs /\ KinA(arch, r, orig) /\ FormA(arch, orig)
      BY <1>0, <2>2 DEF RelaArchs, Kin, Form
    <3>3. arch = "alpha" /\ r.type \in Slot => r.addend = orig.addend
      <4>1. LdType(arch, r)
        BY <3>2, KinFacts
      <4> QED BY <4>1, AlphaSlotType DEF WrongAddend
    <3>4. arch = "sparc" /\ r.type = "RELATIVE" => r.addend = 0
      BY DEF Settled
    <3>5. /\ FormA(arch, n) /\ KinA(arch, n, orig) /\ n.base = r.base /\ n.ok = r.ok
          /\ arch = "alpha" /\ r.type \in Slot => n.addend = orig.addend
      BY <1>0, <1>2, <3>2, <3>3, <3>4, UnlinkedA
    <3>6. n.type = r.type
      BY <3>2, <3>5 DEF KinA
    <3> QED BY <2>2, <3>1, <3>5, <3>6 DEF Form, Kin
  <2> QED BY <2>1, <2>2
<1>5. k.exec => orig.base = k.base
  <2>1. k.exec => r.exec
    <3>1. Placed(k, orig) /\ Placed(r, orig)
      BY <1>0, <1>4, KinIs
    <3> QED BY <3>1 DEF Placed
  <2> QED BY <1>0, <1>4, <2>1
<1>6. /\ Kin(arch, p, orig) /\ Frame(p, k) /\ p.base = orig.base
      /\ Form(arch, p)
      /\ arch = "alpha" /\ k.type \in Slot => p.addend = k.addend
  BY <1>0, <1>1, <1>4, <1>5, Moved
<1>7. p.ok = k.ok /\ p.type = k.type
  BY <1>6 DEF Frame
<1> QED BY <1>4, <1>6, <1>7

(* sparc64 refuses an OLO10 with its second addend.                        *)
LEMMA UndoneRefused ==
  ASSUME arch \in Names, KinInv, r.type = "OLO10+8", NEW p, p = Undone(r)
  PROVE  ~ p.ok
<1>1. Form(arch, orig) /\ Kin(arch, r, orig) /\ (r.exec => r.base = orig.base)
  BY DEF KinInv
<1>1a. /\ LdType(arch, orig) /\ (orig.rela <=> arch \notin RelArchs) /\ orig.base \in Nat
  BY <1>1, FormFacts DEF Typed
<1>2. orig.type = "OLO10+8"
  BY <1>1, KinIs
<1>3. arch = "sparc64"
  <2>1. arch \in RelArchs => FALSE
    BY <1>1a, <1>2, RelTypes, RelCases
  <2>2. "OLO10+8" \in ld_types(arch)
    BY <1>1a, <1>2 DEF LdType, ld_exec_types
  <2>3. arch \in X86_64 \union {"s390", "s390x", "sh"} => FALSE
    BY <2>2 DEF ld_types, X86_64, Ppc, Mips, s390_Half, s390_Dbl, s390_Dbl16, s390_Tls
  <2>4. arch \in {"alpha", "sparc"} => FALSE
    BY <2>2 DEF ld_types, X86_64, Ppc, Mips, alpha_Tls, sparc_Tls
  <2>5. arch \in Ppc => FALSE
    BY <2>2 DEF ld_types, X86_64, Ppc, Mips, ppc_Word, ppc_Half, ppc_Low, Predicted,
       ppc_Predicted, ppc_DtpRel, ppc_DtpRel16, ppc_TpRel, ppc_TpRel16
  <2>6. arch = "ppc64" => FALSE
    BY <2>2 DEF ld_types, X86_64, Ppc, Mips, ppc64_Word, ppc64_Ds, ppc64_Higher, ppc64_DtpRel,
       ppc64_TpRel, ppc_Half, ppc_Low, Predicted, ppc_Predicted, ppc_DtpRel, ppc_DtpRel16,
       ppc_TpRel, ppc_TpRel16
  <2> QED BY <2>1, <2>3, <2>4, <2>5, <2>6 DEF Names
<1> DEFINE m == Bad(r)
<1>4. UndoRel(arch, r) = m
  BY <1>3 DEF UndoRel, X86_64, Ppc, Mips, RelArchs, sparc64_undo_prelink_rela
<1>5. ArchUndo(arch, m) = m
  BY <1>3 DEF ArchUndo, X86_64, Ppc, Mips
<1>6. BackToRel(m) = m
  BY <1>1a, <1>3 DEF BackToRel, RelArchs, Mips
<1>7. p = Relocated(m, orig.base)
  BY <1>4, <1>5, <1>6 DEF Undone
<1>8. m = Bad(r)
  OBVIOUS
<1> HIDE DEF m
<1>9. Kin(arch, m, orig) /\ ~ m.ok /\ m.base = r.base /\ (m.exec => r.exec)
  BY <1>1, <1>8, BadKin
<1>10. Frame(p, m)
  BY <1>1, <1>1a, <1>7, <1>9, Moved
<1> QED BY <1>9, <1>10 DEF Frame

(* The architecture is one of those above.                                 *)
LEMMA Known ==
  ASSUME TypeInv
  PROVE  arch \in Names
  BY RelocationAssumption DEF TypeInv, Names

(* What one step must establish when the object was prelinked.             *)
LEMMA PrelinkedInv ==
  ASSUME Inv, arch' = arch, mixed' = mixed, orig' = orig, own' \in OwnSymbols(arch, orig), r.ok,
         r'.base \in Bases \union {0, 100000}, moved' \in BOOLEAN, exe'.done =>
           exe'.global \in GlobalSymbols(arch, orig, own'),
         own' # "no", r'.ok, Kin(arch, r', orig), r'.exec => r'.base = orig.base,
           Renamed(mixed, r', orig),
         Settled(arch, r'), r'.got = GotOf(arch, r')
  PROVE  Inv'
<1>1. TypeInv'
  BY DEF Inv, TypeInv
<1>2. KinInv'
  BY DEF Inv, KinInv
<1>3. FreshInv' /\ DoneInv'
  BY DEF FreshInv, DoneInv
<1> QED BY <1>1, <1>2, <1>3 DEF Inv

(* What it must establish when a callback refused and the file is left     *)
(* alone.                                                                  *)
LEMMA RefusedInv ==
  ASSUME Inv, arch' = arch, mixed' = mixed, orig' = orig, own' = own, moved' \in BOOLEAN,
         r.type \in Refusable,
         exe'.done => exe'.global \in GlobalSymbols(arch, orig, own), r' = Bad(r)
  PROVE  Inv'
<1> DEFINE p == Bad(r)
<1>1. Kin(arch, r, orig)
  BY DEF Inv, KinInv
<1>2. /\ Kin(arch, p, orig) /\ ~ p.ok /\ p.type = r.type /\ p.base = r.base /\ p.got = r.got
           /\ (p.exec <=> r.exec)
      /\ GotOf(arch, p) = GotOf(arch, r) /\ p.addend = r.addend /\ p.rela = r.rela
      /\ Form(arch, r) => Form(arch, p)
  BY <1>1, BadKin
<1> HIDE DEF p
<1>3. r' = p
  BY DEF p
<1>4. TypeInv'
  BY <1>2, <1>3 DEF Inv, TypeInv
<1>5. KinInv'
  BY <1>2, <1>3 DEF Inv, KinInv, Renamed
<1>6. FreshInv'
  BY <1>2, <1>3 DEF Inv, FreshInv
<1>7. DoneInv'
  BY <1>2, <1>3 DEF Inv, DoneInv, Settled, Done
<1> QED BY <1>4, <1>5, <1>6, <1>7 DEF Inv

(* Prelinking a library keeps the invariant.                               *)
LEMMA PrelinkLibraryInv ==
  ASSUME Inv, NEW b \in Bases, NEW d \in OwnSymbols(arch, orig), PrelinkLibrary(b, d)
  PROVE  Inv'
<1> DEFINE q0 == Prepared(r)
           q1 == Relocated(q0, b)
           q == Prelinked(q1, d)
<1>1. /\ r' = (IF q.ok THEN q ELSE Bad(r)) /\ own' = (IF q.ok THEN d ELSE own)
           /\ moved' = (moved /\ ~ q.ok)
      /\ exe' = NoExe /\ arch' = arch /\ mixed' = mixed /\ orig' = orig /\ ~ r.exec /\ r.ok
  BY DEF PrelinkLibrary, Followed
<1>2. arch \in Names /\ KinInv /\ FreshInv /\ Form(arch, orig) /\ b \in Nat
  BY Known, RelocationAssumption DEF Inv, KinInv
<1>3. /\ Fit(q0, orig) /\ q0.ok = r.ok /\ q0.type = r.type /\ q0.base = r.base
           /\ q0.exec = r.exec
      /\ own = "no" /\ q0.type = "TLS_DESC" => Form(arch, q0)
      /\ q0.got = IF own = "no" THEN 0 ELSE GotOf(arch, q0)
  BY <1>2, FitPrepared
<1> HIDE DEF q0
<1>3a. ~ q0.exec
  BY <1>1, <1>3
<1>4. Fit(q1, orig) /\ q1.ok = q0.ok /\ q1.type = q0.type /\ q1.base = b /\ q1.exec = q0.exec
  BY <1>2, <1>3, <1>3a, FitMoved
<1> HIDE DEF q1
<1>5. /\ Kin(arch, q, orig) /\ Renamed(mixed, q, orig) /\ Settled(arch, q) /\ q.base = q1.base
           /\ q.exec = q1.exec
      /\ q.got = GotOf(arch, q)
      /\ q1.type \notin {"PC24", "TLS_DESC_NOW"} => q.ok = q1.ok
  BY <1>2, <1>4, PrelinkedFit
<1> HIDE DEF q
<1>6. d # "no" /\ ~ exe'.done /\ moved' \in BOOLEAN
  BY <1>1, OwnIs DEF NoExe, Inv, TypeInv
<1>7. CASE q.ok
  BY <1>1, <1>3, <1>4, <1>5, <1>6, <1>7, PrelinkedInv
<1>8. CASE ~ q.ok
  <2>1. r.type \in {"PC24", "TLS_DESC_NOW"}
    BY <1>1, <1>3, <1>4, <1>5, <1>8
  <2> QED BY <1>1, <1>6, <1>8, <2>1, RefusedInv DEF Refusable
<1> QED BY <1>7, <1>8

(* Prelinking an executable keeps it.                                      *)
LEMMA PrelinkExecutableInv ==
  ASSUME Inv, NEW d \in OwnSymbols(arch, orig), PrelinkExecutable(d)
  PROVE  Inv'
<1> DEFINE cfl == ConflictRel(arch, r, ConflictOf(r, d, d), Block("self"))
           seen == ApplyRel(arch, r, Resolve(r, d))
           q0 == Prepared(r)
           q == Prelinked(q0, d)
           x == Executable(d, cfl.rela, FALSE, orig.type \in ld_data,
                           [ok |-> seen.ok, mem |-> seen.mem, rela |-> << >>])
<1>1. /\ arch' = arch /\ mixed' = mixed /\ orig' = orig /\ moved' = moved /\ r.exec /\ r.ok
      /\ IF cfl.ok /\ q.ok THEN r' = q /\ own' = d /\ exe' = x
         ELSE /\ r' = (IF cfl.ok THEN Bad(r) ELSE r) /\ own' = own
              /\ exe' = IF cfl.ok THEN exe ELSE RefusedExe(d)
  BY DEF PrelinkExecutable, Followed
<1>2. x.done /\ x.global = d /\ ~ RefusedExe(d).done
  BY DEF Executable, RefusedExe, NoExe
<1>3. arch \in Names /\ KinInv /\ FreshInv /\ Form(arch, orig)
  BY Known DEF Inv, KinInv
<1>4. /\ Fit(q0, orig) /\ q0.ok = r.ok /\ q0.type = r.type /\ q0.base = r.base
           /\ q0.exec = r.exec
  BY <1>3, FitPrepared
<1> HIDE DEF q0, cfl, x
<1>5. /\ Kin(arch, q, orig) /\ Renamed(mixed, q, orig) /\ Settled(arch, q) /\ q.base = q0.base
           /\ q.exec = q0.exec
      /\ q.got = GotOf(arch, q)
      /\ q0.type \notin {"PC24", "TLS_DESC_NOW"} => q.ok = q0.ok
  BY <1>3, <1>4, PrelinkedFit
<1> HIDE DEF q
<1>6. d # "no" /\ d \in GlobalSymbols(arch, orig, d) /\ moved' \in BOOLEAN
  BY <1>1, OwnIs DEF Inv, TypeInv
<1>7. r.base \in Bases \union {0, 100000} /\ r.base = orig.base
        /\ (exe.done => exe.global \in GlobalSymbols(arch, orig, own))
  BY <1>1 DEF Inv, TypeInv, KinInv
<1>8. CASE cfl.ok /\ q.ok
  <2>1. r' = q /\ own' = d /\ exe' = x
    BY <1>1, <1>8
  <2> QED BY <1>1, <1>2, <1>4, <1>5, <1>6, <1>7, <1>8, <2>1, PrelinkedInv
<1>9. CASE cfl.ok /\ ~ q.ok
  <2>1. r.type \in {"PC24", "TLS_DESC_NOW"}
    BY <1>1, <1>4, <1>5, <1>9
  <2>2. r' = Bad(r) /\ own' = own /\ exe' = exe
    BY <1>1, <1>9
  <2> QED BY <1>1, <1>6, <1>7, <2>1, <2>2, RefusedInv DEF Refusable
<1>10. CASE ~ cfl.ok
  <2>1. r' = r /\ own' = own /\ ~ exe'.done
    BY <1>1, <1>2, <1>10
  <2> QED BY <1>1, <2>1 DEF Inv, TypeInv, KinInv, FreshInv, DoneInv, WrongUndo, WrongForm,
             WrongAddend
<1> QED BY <1>8, <1>9, <1>10

(* Building the conflicts of an executable keeps it.                       *)
LEMMA PrelinkUserInv ==
  ASSUME Inv, NEW g \in GlobalSymbols(arch, orig, own), NEW copied \in BOOLEAN,
         NEW full \in BOOLEAN, PrelinkUser(g, copied, full)
  PROVE  Inv'
<1> DEFINE cfl == ConflictRel(arch, r, ConflictOf(r, own, g), Block("self"))
           copy == CopyOf(r, cfl.rela, full)
           x == Executable(g, cfl.rela, full, copied, copy)
<1>1. /\ arch' = arch /\ mixed' = mixed /\ orig' = orig /\ moved' = moved /\ r' = r
           /\ own' = own
      /\ exe' \in {x, RefusedExe(g)}
  BY DEF PrelinkUser
<1>2. x.global = g /\ ~ RefusedExe(g).done
  BY DEF Executable, RefusedExe, NoExe
<1> HIDE DEF cfl, copy, x
<1>3. exe'.done => exe'.global \in GlobalSymbols(arch, orig, own)
  BY <1>1, <1>2
<1> QED BY <1>1, <1>3 DEF Inv, TypeInv, KinInv, FreshInv, DoneInv, WrongUndo, WrongForm,
           WrongAddend

(* Undoing keeps it.                                                       *)
LEMMA UndoInv ==
  ASSUME Inv, Undo
  PROVE  Inv'
<1> DEFINE q == Undone(r)
<1>1. /\ r' = (IF q.ok THEN q ELSE Bad(r)) /\ own' = (IF q.ok THEN "no" ELSE own)
           /\ moved' = (moved /\ ~ q.ok)
      /\ exe' = NoExe /\ arch' = arch /\ mixed' = mixed /\ orig' = orig /\ r.ok
           /\ ~ WrongAddend /\ own # "no"
  BY DEF Undo, Followed
<1>2. arch \in Names /\ KinInv /\ Form(arch, orig) /\ Settled(arch, r) /\ orig.ok
  BY <1>1, Known DEF Inv, KinInv, DoneInv
<1>3. r.type = "OLO10+8" => ~ q.ok
  BY <1>2, UndoneRefused
<1>4. r.type # "OLO10+8" =>
        /\ Form(arch, q) /\ Kin(arch, q, orig) /\ q.base = orig.base /\ q.ok
        /\ arch = "alpha" /\ q.type \in Slot => q.addend = orig.addend
  BY <1>1, <1>2, UndoneForm
<1> HIDE DEF q
<1>5. ~ exe'.done /\ moved' \in BOOLEAN
  BY <1>1 DEF NoExe, Inv, TypeInv
<1>6. CASE r.type = "OLO10+8"
  <2>1. r' = Bad(r) /\ own' = own
    BY <1>1, <1>3, <1>6
  <2> QED BY <1>1, <1>5, <1>6, <2>1, RefusedInv DEF Refusable
<1>7. CASE r.type # "OLO10+8"
  <2>1. /\ r' = q /\ own' = "no" /\ Form(arch, q) /\ Kin(arch, q, orig) /\ q.base = orig.base
             /\ q.ok
        /\ arch = "alpha" /\ q.type \in Slot => q.addend = orig.addend
    BY <1>1, <1>4, <1>7
  <2>2. q.got = 0 /\ LdType(arch, q)
    BY <1>2, <2>1, FormFacts
  <2>3. q.type = orig.type
    <3>1. q.inGot = (q.type \in Slot \union {"GLOB_DAT"})
            /\ orig.inGot = (orig.type \in Slot \union {"GLOB_DAT"})
      BY <1>2, <2>1, FormFacts
    <3>2. q.inGot = orig.inGot
      BY <2>1, KinIs DEF Placed
    <3>3. q.type = orig.type \/ (q.type = "GLOB_DAT" /\ orig.type \in Plain32)
      BY <2>1, KinIs
    <3> QED BY <3>1, <3>2, <3>3 DEF Plain32, Slot
  <2>4. (q.type \notin ppc64_Ds /\ ~ (arch = "sparc" /\ q.type = "RELATIVE")) => q = orig
    <3>1. CASE arch \in RelArchs
      <4>1. FormR(arch, q) /\ FormR(arch, orig) /\ KinR(arch, q, orig)
        BY <1>2, <2>1, <3>1 DEF Form, Kin
      <4>2. q.ok = orig.ok
        <5>1. q \in Relocs /\ orig \in Relocs /\ Typed(q) /\ Typed(orig)
          BY <4>1, TypedFacts DEF KinR
        <5> QED BY <1>2, <2>1, <5>1 DEF Typed
      <4> QED BY <2>1, <3>1, <4>1, <4>2, UniqueR
    <3>2. CASE arch \notin RelArchs
      <4>1. FormA(arch, q) /\ FormA(arch, orig) /\ KinA(arch, q, orig)
        BY <1>2, <2>1, <3>2 DEF Form, Kin
      <4>2. q.ok = orig.ok
        <5>1. q \in Relocs /\ orig \in Relocs /\ Typed(q) /\ Typed(orig)
          BY <4>1, TypedFacts DEF KinA
        <5> QED BY <1>2, <2>1, <5>1 DEF Typed
      <4>3. arch = "sparc" /\ q.type \in Addr => q.type = "RELATIVE"
        <5>1. ASSUME arch = "sparc" PROVE q.type \notin {"IRELATIVE", "JMP_IREL"}
          BY <2>2, <5>1 DEF LdType, ld_exec_types, ld_types, X86_64, Mips, Ppc, sparc_Tls
        <5> QED BY <5>1 DEF Addr
      <4> QED BY <1>2, <2>1, <4>1, <4>2, <4>3, Unique
    <3> QED BY <3>1, <3>2
  <2>5. TypeInv'
    BY <1>1, <1>5, <2>1 DEF Inv, TypeInv
  <2>6. KinInv'
    BY <1>1, <2>1, <2>2, <2>3 DEF Inv, KinInv, Renamed
  <2>7. FreshInv'
    BY <1>1, <2>1, <2>4 DEF FreshInv, WrongUndo, WrongForm
  <2>8. DoneInv'
    BY <2>1 DEF DoneInv
  <2> QED BY <2>5, <2>6, <2>7, <2>8 DEF Inv
<1> QED BY <1>6, <1>7

(* prelink -r keeps it.                                                    *)
LEMMA RelocOnlyInv ==
  ASSUME Inv, NEW b \in Bases, RelocOnly(b)
  PROVE  Inv'
<1> DEFINE p == Relocated(r, b)
<1>1. /\ r' = p /\ orig' = (IF own = "no" THEN p ELSE orig) /\ moved' = (own # "no")
           /\ exe' = NoExe
      /\ arch' = arch /\ mixed' = mixed /\ own' = own /\ ~ r.exec /\ r.ok
  BY DEF RelocOnly, Followed
<1>2. arch \in Names /\ Form(arch, orig) /\ Kin(arch, r, orig) /\ b \in Nat
  BY Known, RelocationAssumption DEF Inv, KinInv
<1>3. /\ Kin(arch, p, orig) /\ Frame(p, r) /\ p.base = b
      /\ r.got = 0 => p.got = 0
      /\ r.got = GotOf(arch, r) => p.got = GotOf(arch, p)
      /\ Form(arch, r) => Form(arch, p)
      /\ Settled(arch, r) => Settled(arch, p)
  BY <1>1, <1>2, Moved
<1> HIDE DEF p
<1>4. ~ exe'.done /\ moved' \in BOOLEAN
  BY <1>1 DEF NoExe
<1>5. p.type = r.type /\ p.ok /\ ~ p.exec /\ p.def = r.def /\ p.class = r.class
        /\ (p.rela <=> r.rela)
  BY <1>1, <1>3 DEF Frame, Placed
<1>6. CASE own # "no"
  <2>1. orig' = orig
    BY <1>1, <1>6
  <2>2. TypeInv'
    BY <1>1, <1>3, <1>4, <2>1 DEF Inv, TypeInv
  <2>3. KinInv'
    BY <1>1, <1>3, <1>5, <1>6, <2>1 DEF Inv, KinInv, Renamed
  <2>4. FreshInv' /\ DoneInv'
    BY <1>1, <1>3, <1>6 DEF Inv, FreshInv, DoneInv
  <2> QED BY <2>2, <2>3, <2>4 DEF Inv
<1>7. CASE own = "no"
  <2>1. orig' = p /\ r' = p
    BY <1>1, <1>7
  <2>2. Form(arch, p) /\ r.got = 0
    BY <1>3, <1>7 DEF Inv, FreshInv, KinInv
  <2>3. Kin(arch, p, p)
    BY <1>2, <2>2, FormFacts
  <2>4. TypeInv'
    BY <1>1, <1>3, <1>4, <1>7, <2>1 DEF Inv, TypeInv
  <2>5. KinInv'
    BY <1>1, <1>3, <1>5, <1>7, <2>1, <2>2, <2>3 DEF KinInv, Renamed
  <2>6. FreshInv' /\ DoneInv'
    BY <1>1, <1>7, <2>1, <2>2 DEF FreshInv, DoneInv
  <2> QED BY <2>4, <2>5, <2>6 DEF Inv
<1> QED BY <1>6, <1>7

-----------------------------------------------------------------------------
(* What ld makes satisfies it.                                             *)

(* What is known of a relocation whose word is still to be written.        *)
IsBlank(a, q) ==
  /\ q \in Relocs /\ ~ q.rela /\ q.addend = 0 /\ q.got = 0 /\ q.class = ld_class(a)
       /\ LdType(a, q)
  /\ q.inGot = (q.type \in Slot \union {"GLOB_DAT"}) /\ q.ok
  /\ q.base \in {0, 100000}
  /\ q.code = IF a = "ppc_bss" THEN Lazy ELSE NoCode
  /\ q.type \in mips_Defined => q.def

(* Words have a width.                                                     *)
LEMMA WidthNat ==
  ASSUME NEW a, NEW q, q.class \in Nat
  PROVE  ld_width(a, q) \in Nat
  BY DEF ld_width

(* ld_blank makes such relocations.                                        *)
LEMMA BlankIs ==
  ASSUME NEW a \in Names, NEW x \in BOOLEAN,
             NEW t \in (IF x THEN ld_exec_types(a) ELSE ld_types(a)),
         NEW s \in Nat, NEW f \in ld_defined(t, x), NEW q, q = ld_blank(a, t, s, x, f)
  PROVE  IsBlank(a, q) /\ q.base = ld_base(x) /\ q.type = t
<1>1. t \in Types
  <2>1. t \in ld_types(a) \union {"COPY", "JUMP_SLOT"}
    BY DEF ld_exec_types
  <2> QED BY <2>1 DEF Types
<1>2. f \in BOOLEAN
  BY DEF ld_defined
<1>3. ld_class(a) \in {4, 8} /\ 32 + 9 * s \in Nat
  BY DEF ld_class
<1>4. NoCode \in Codes /\ Lazy \in Codes
  BY DEF NoCode, Lazy, Codes
<1>5. q \in Relocs
  BY <1>1, <1>2, <1>3, <1>4 DEF ld_blank, Relocs, ld_base
<1>6. /\ ~ q.rela /\ q.addend = 0 /\ q.got = 0 /\ q.class = ld_class(a)
      /\ q.inGot = (q.type \in Slot \union {"GLOB_DAT"}) /\ q.ok
      /\ q.base = ld_base(x)
      /\ q.code = (IF a = "ppc_bss" THEN Lazy ELSE NoCode) /\ q.type = t /\ q.exec = x
           /\ q.def = f
  BY DEF ld_blank
<1>7. t \in mips_Defined => f
  BY DEF ld_defined, NoSymbol, mips_Undefined, mips_Defined
<1>8. LdType(a, q)
  BY <1>6 DEF LdType
<1> QED BY <1>5, <1>6, <1>7, <1>8 DEF IsBlank, ld_base

(* Every relocation that ld makes comes from one.                          *)
LEMMA BlankOf ==
  ASSUME NEW a \in Names, NEW p \in ld_relocations(a, Slots, Addends)
  PROVE  \E q, n : /\ IsBlank(a, q) /\ n \in ld_addends(a, q.type, q.base, Addends)
                   /\ p \in ld_words(a, q, n)
<1> DEFINE Of(x, t) == UNION {ld_words(a, ld_blank(a, t, s, x, f), n) :
                                n \in ld_addends(a, t, ld_base(x), Addends), s \in Slots,
                                f \in ld_defined(t, x)}
<1>1. PICK x \in BOOLEAN : p \in UNION {Of(x, t) : t \in IF x THEN ld_exec_types(a) ELSE ld_types(a)}
  BY DEF ld_relocations
<1>1a. PICK t \in (IF x THEN ld_exec_types(a) ELSE ld_types(a)) : p \in Of(x, t)
  BY <1>1
<1>1b. PICK n \in ld_addends(a, t, ld_base(x), Addends), s \in Slots, f \in ld_defined(t, x) :
         p \in ld_words(a, ld_blank(a, t, s, x, f), n)
  BY <1>1a
<1> DEFINE q == ld_blank(a, t, s, x, f)
<1>2. s \in Nat
  BY RelocationAssumption
<1>3. IsBlank(a, q) /\ q.base = ld_base(x) /\ q.type = t
  BY <1>2, BlankIs
<1> HIDE DEF q
<1> QED BY <1>1b, <1>3 DEF q

(* The addends that ld gives them.                                         *)
LEMMA BlankAddend ==
  ASSUME NEW a, NEW q, IsBlank(a, q), NEW n, n \in ld_addends(a, q.type, q.base, Addends)
  PROVE  /\ n \in Int
         /\ q.type \in Addr => n = Target(q)
         /\ q.type \in ZeroR(a) => n = 0
<1>0. q \in Relocs
  BY DEF IsBlank
<1>1. q.base \in Int
  BY <1>0 DEF Relocs
<1>2. q.type \in Addr => n = q.base + 44
  BY DEF ld_addends, Addr, Slot, DtpMod, mips_DtpMod, mips_Got, mips_Global, mips_Undefined,
     mips_Defined
<1>3. q.type \in ZeroR(a) => n = 0
  BY DEF ld_addends, ZeroR, Slot, DtpMod, mips_DtpMod, mips_Got, mips_Global, mips_Undefined,
     mips_Defined
<1>4. n \in Int
  BY <1>1, <1>2, RelocationAssumption DEF ld_addends, Addr
<1> QED BY <1>2, <1>3, <1>4 DEF Target

(* What ld_rela makes of one.                                              *)
LEMMA RelaIs ==
  ASSUME NEW a, NEW q \in Relocs, NEW v \in Int, NEW x \in Int, NEW p, p = ld_rela(a, q, v, x)
  PROVE  /\ p \in Relocs /\ Placed(p, q) /\ p.type = q.type /\ p.rela /\ p.addend = x
         /\ p.mem = [width |-> ld_width(a, q), val |-> v]
         /\ p.got = q.got /\ p.base = q.base /\ p.code = q.code /\ p.ok = q.ok
<1> DEFINE w == ld_width(a, q)
           g == Put(q, w, v)
           h == [g EXCEPT !.rela = TRUE, !.addend = x]
<1>0. q.class \in Nat
  BY DEF Relocs
<1>1. w \in Nat
  BY <1>0, WidthNat
<1>2. p = h
  BY DEF ld_rela, ld_rel
<1> HIDE DEF w
<1>3. Written(g, q) /\ g.mem = [width |-> w, val |-> v]
  BY <1>1, PutWritten, PutFacts
<1> HIDE DEF g
<1>4. /\ g \in Relocs /\ Placed(g, q) /\ g.type = q.type /\ g.got = q.got /\ g.base = q.base
      /\ g.code = q.code /\ g.ok = q.ok
  BY <1>3 DEF Written, Alike
<1>5. /\ h \in Relocs /\ Placed(h, g) /\ h.mem = g.mem /\ h.type = g.type /\ h.rela
      /\ h.addend = x /\ h.got = g.got /\ h.base = g.base /\ h.code = g.code /\ h.ok = g.ok
  BY <1>4 DEF Relocs, Placed
<1> HIDE DEF h
<1>6. /\ p \in Relocs /\ Placed(p, g) /\ p.mem = g.mem /\ p.type = g.type /\ p.rela
      /\ p.addend = x /\ p.got = g.got /\ p.base = g.base /\ p.code = g.code /\ p.ok = g.ok
  BY <1>2, <1>5
<1>7. Placed(p, q)
  BY <1>4, <1>6 DEF Placed
<1> QED BY <1>3, <1>4, <1>6, <1>7 DEF w

(* What ld_lazy makes of one.                                              *)
LEMMA LazyIs ==
  ASSUME NEW a, NEW q \in Relocs, NEW v \in Int, NEW p, p = ld_lazy(a, q, v)
  PROVE  /\ p \in Relocs /\ Placed(p, q) /\ p.type = q.type /\ p.rela /\ p.addend = 0
         /\ p.mem = [width |-> ld_width(a, q), val |-> v]
         /\ p.got = q.got /\ p.base = q.base /\ p.code = Lazy /\ p.ok = q.ok
<1> DEFINE g == ld_rela(a, q, v, 0)
           h == [g EXCEPT !.code = Lazy]
<1>1. /\ g \in Relocs /\ Placed(g, q) /\ g.type = q.type /\ g.rela /\ g.addend = 0
      /\ g.mem = [width |-> ld_width(a, q), val |-> v]
      /\ g.got = q.got /\ g.base = q.base /\ g.code = q.code /\ g.ok = q.ok
  BY RelaIs
<1>2. p = h
  BY DEF ld_lazy
<1> HIDE DEF g
<1>3. Lazy \in Codes
  BY CodeIs
<1>4. /\ h \in Relocs /\ Placed(h, g) /\ h.mem = g.mem /\ h.type = g.type /\ h.rela
      /\ h.addend = g.addend /\ h.got = g.got /\ h.base = g.base /\ h.code = Lazy /\ h.ok = g.ok
  BY <1>1, <1>3 DEF Relocs, Placed
<1> HIDE DEF h
<1>5. /\ p \in Relocs /\ Placed(p, g) /\ p.mem = g.mem /\ p.type = g.type /\ p.rela
      /\ p.addend = g.addend /\ p.got = g.got /\ p.base = g.base /\ p.code = Lazy /\ p.ok = g.ok
  BY <1>2, <1>4
<1>6. Placed(p, q)
  BY <1>1, <1>5 DEF Placed
<1> QED BY <1>1, <1>5, <1>6

(* z is q with an addend and a word.                                       *)
Beside(z, q, v, x) ==
  /\ z.type = q.type /\ z.addend = x /\ z.base = q.base /\ z.slot = q.slot /\ z.def = q.def
  /\ z.mem.val = v

(* They are what ld leaves.                                                *)
Fills(a, z, v, c) == z.addend \in LdAddends(a, z) /\ LdVal(a, z) = v /\ LdCode(a, z) = c

(* What the two have in common.                                            *)
LEMMA BesideFacts ==
  ASSUME NEW z, NEW q, NEW v, NEW x, Beside(z, q, v, x)
  PROVE  /\ Plt(z) = Plt(q) /\ sparc64_far(z) = sparc64_far(q) /\ Target(z) = Target(q)
         /\ StValue(z) = StValue(q)
         /\ z.type = q.type /\ z.addend = x /\ z.slot = q.slot /\ z.mem.val = v
  BY DEF Beside, Plt, sparc64_far, Target, StValue

(* A RELA relocation that ld makes is as FormA says, from what is written  *)
(* and what the addend is.                                                 *)
LEMMA LinkedRela ==
  ASSUME NEW a \in RelaArchs, NEW q, IsBlank(a, q), NEW v \in Int, NEW x \in Int, NEW c,
         \A z : Beside(z, q, v, x) => Fills(a, z, v, c), NEW p,
         \/ p = ld_rela(a, q, v, x) /\ c = q.code
         \/ p = ld_lazy(a, q, v) /\ x = 0 /\ c = Lazy
  PROVE  FormA(a, p) /\ p.ok /\ p.base = q.base /\ p.exec = q.exec /\ p.type = q.type
<1>0a. q \in Relocs
  BY DEF IsBlank
<1>0. q \in Relocs /\ q.got = 0 /\ q.class = ld_class(a) /\ LdType(a, q)
      /\ q.inGot = (q.type \in Slot \union {"GLOB_DAT"}) /\ q.ok
  BY DEF IsBlank
<1>2. /\ p \in Relocs /\ Placed(p, q) /\ p.type = q.type /\ p.rela /\ p.addend = x
      /\ p.mem = [width |-> ld_width(a, q), val |-> v]
      /\ p.got = q.got /\ p.base = q.base /\ p.code = c /\ p.ok = q.ok
  <2> DEFINE g == ld_rela(a, q, v, x)
             h == ld_lazy(a, q, v)
  <2>2. /\ g \in Relocs /\ Placed(g, q) /\ g.type = q.type /\ g.rela /\ g.addend = x
        /\ g.mem = [width |-> ld_width(a, q), val |-> v]
        /\ g.got = q.got /\ g.base = q.base /\ g.code = q.code /\ g.ok = q.ok
    BY <1>0a, RelaIs
  <2>3. /\ h \in Relocs /\ Placed(h, q) /\ h.type = q.type /\ h.rela /\ h.addend = 0
        /\ h.mem = [width |-> ld_width(a, q), val |-> v]
        /\ h.got = q.got /\ h.base = q.base /\ h.code = Lazy /\ h.ok = q.ok
    BY <1>0a, LazyIs
  <2>4. (p = g /\ c = q.code) \/ (p = h /\ x = 0 /\ c = Lazy)
    OBVIOUS
  <2> HIDE DEF g, h
  <2> QED BY <2>2, <2>3, <2>4
<1>3. p.class = q.class /\ p.exec = q.exec /\ p.inGot = q.inGot /\ p.slot = q.slot
        /\ p.def = q.def
  BY <1>2 DEF Placed
<1>4. ld_width(a, p) = ld_width(a, q)
  BY <1>2, <1>3, LdWidthSame
<1>5. LdType(a, p)
  BY <1>0, <1>2, <1>3 DEF LdType
<1>6. Beside(p, q, v, x)
  BY <1>2, <1>3 DEF Beside
<1>7. Fills(a, p, v, c)
  BY <1>6
<1> QED BY <1>0, <1>2, <1>3, <1>4, <1>5, <1>7 DEF FormA, Fills

(* So are the entries of the PLT.                                          *)
LEMMA LinkedSlotA ==
  ASSUME NEW a \in RelaArchs, NEW q, IsBlank(a, q), q.type \in Slot, NEW n,
             NEW p \in ld_words(a, q, n)
  PROVE  FormA(a, p) /\ p.ok /\ p.base = q.base /\ p.exec = q.exec /\ p.type = q.type
<1> DEFINE plt == Plt(q) + ld_plt_entry(a) * q.slot
<1>1. q \in Relocs
  BY DEF IsBlank
<1>2. q.base \in Nat /\ q.slot \in Nat /\ q.def \in BOOLEAN
  BY <1>1 DEF Relocs
<1>3. Plt(q) \in Int /\ plt \in Int /\ Plt(q) + 12 * q.slot \in Int
  BY <1>2 DEF Plt, PltOffset, ld_plt_entry
<1>4. q.code = IF a = "ppc_bss" THEN Lazy ELSE NoCode
  BY DEF IsBlank
<1>5. q.type \notin Addr
  BY DEF Slot, Addr
<1>6. CASE a \in {"sparc", "ppc_bss"}
  <2>1. p = ld_lazy(a, q, 0)
    BY <1>6 DEF ld_words, ld_slot_words, RelArchs, Mips, X86_64
  <2>2. ASSUME NEW z, Beside(z, q, 0, 0) PROVE Fills(a, z, 0, Lazy)
    <3>1. /\ Plt(z) = Plt(q) /\ sparc64_far(z) = sparc64_far(q) /\ z.type = q.type
               /\ z.slot = q.slot
      BY <2>2, BesideFacts
    <3>2. z.addend = 0
      BY <2>2, BesideFacts
    <3>3. z.type \in Slot /\ z.type \notin Addr \union ppc64_Ds \union {"ADDR64", "GLOB_DAT"}
      BY <3>1 DEF Slot, Addr, ppc64_Ds
    <3>4. z.addend \in LdAddends(a, z)
      BY <3>1, <3>2, <3>3, <1>5, <1>6 DEF LdAddends, X86Like, X86_64
    <3>5. LdVal(a, z) = 0
      BY <3>1, <3>2, <3>3, <1>5, <1>6 DEF LdVal, X86Like, X86_64
    <3>6. LdCode(a, z) = Lazy
      BY <3>1, <3>2, <3>3, <1>5, <1>6 DEF LdCode, X86Like, X86_64
    <3> QED BY <3>4, <3>5, <3>6 DEF Fills
  <2> QED BY <2>1, <2>2, LinkedRela
<1>7. CASE a = "sparc64"
  <2>0. sparc64_far(q) \in Int /\ Plt(q) - sparc64_far(q) \in Int /\ - sparc64_far(q) \in Int
          /\ sparc64_far(q) # 0
    BY <1>2, <1>3 DEF sparc64_far, Plt, PltOffset
  <2>1. p = ld_lazy(a, q, 0) \/ p = ld_rela(a, q, Plt(q) - sparc64_far(q), - sparc64_far(q))
    BY <1>7 DEF ld_words, ld_slot_words, RelArchs, Mips, X86_64
  <2>2. ASSUME NEW z, Beside(z, q, 0, 0) PROVE Fills(a, z, 0, Lazy)
    <3>1. /\ Plt(z) = Plt(q) /\ sparc64_far(z) = sparc64_far(q) /\ z.type = q.type
               /\ z.slot = q.slot
      BY <2>2, BesideFacts
    <3>2. z.addend = 0
      BY <2>2, BesideFacts
    <3>3. z.type \in Slot /\ z.type \notin Addr \union ppc64_Ds \union {"ADDR64", "GLOB_DAT"}
      BY <3>1 DEF Slot, Addr, ppc64_Ds
    <3>4. z.addend \in LdAddends(a, z)
      BY <3>1, <3>2, <3>3, <1>5, <1>7 DEF LdAddends, X86Like, X86_64
    <3>5. LdVal(a, z) = 0
      BY <3>1, <3>2, <3>3, <1>5, <1>7 DEF LdVal, X86Like, X86_64
    <3>6. LdCode(a, z) = Lazy
      BY <3>1, <3>2, <3>3, <1>5, <1>7 DEF LdCode, X86Like, X86_64
    <3> QED BY <3>4, <3>5, <3>6 DEF Fills
  <2>3. ASSUME NEW z, Beside(z, q, Plt(q) - sparc64_far(q), - sparc64_far(q))
                   PROVE Fills(a, z, Plt(q) - sparc64_far(q), NoCode)
    <3>1. /\ Plt(z) = Plt(q) /\ sparc64_far(z) = sparc64_far(q) /\ z.type = q.type
               /\ z.slot = q.slot
      BY <2>3, BesideFacts
    <3>2. z.addend = - sparc64_far(q)
      BY <2>3, BesideFacts
    <3>3. z.type \in Slot /\ z.type \notin Addr \union ppc64_Ds \union {"ADDR64", "GLOB_DAT"}
      BY <3>1 DEF Slot, Addr, ppc64_Ds
    <3>4. z.addend \in LdAddends(a, z)
      BY <3>1, <3>2, <3>3, <1>5, <1>7, <2>0 DEF LdAddends, X86Like, X86_64
    <3>5. LdVal(a, z) = Plt(q) - sparc64_far(q)
      BY <3>1, <3>2, <3>3, <1>5, <1>7, <2>0 DEF LdVal, X86Like, X86_64
    <3>6. LdCode(a, z) = NoCode
      BY <3>1, <3>2, <3>3, <1>5, <1>7, <2>0 DEF LdCode, X86Like, X86_64
    <3> QED BY <3>4, <3>5, <3>6 DEF Fills
  <2>4. q.code = NoCode
    BY <1>4, <1>7
  <2> DEFINE v == Plt(q) - sparc64_far(q)
             x == - sparc64_far(q)
  <2>5. v \in Int /\ x \in Int
    BY <2>0
  <2>6. \A z : Beside(z, q, v, x) => Fills(a, z, v, q.code)
    BY <2>3, <2>4
  <2>7. p = ld_lazy(a, q, 0) \/ p = ld_rela(a, q, v, x)
    BY <2>1
  <2> HIDE DEF v, x
  <2>8. CASE p = ld_lazy(a, q, 0)
    BY <2>8, <2>2, LinkedRela
  <2>9. CASE p = ld_rela(a, q, v, x)
    BY <2>5, <2>6, <2>9, LinkedRela
  <2> QED BY <2>7, <2>8, <2>9
<1>8. CASE a = "alpha"
  <2> DEFINE v == Plt(q) + 12 * q.slot
  <2>1. p = ld_lazy(a, q, v)
    BY <1>8 DEF ld_words, ld_slot_words, RelArchs, Mips, X86_64
  <2>2. ASSUME NEW z, Beside(z, q, v, 0) PROVE Fills(a, z, v, Lazy)
    <3>1. /\ Plt(z) = Plt(q) /\ sparc64_far(z) = sparc64_far(q) /\ z.type = q.type
               /\ z.slot = q.slot
      BY <2>2, BesideFacts
    <3>2. z.addend = 0
      BY <2>2, BesideFacts
    <3>3. z.type \in Slot /\ z.type \notin Addr \union ppc64_Ds \union {"ADDR64", "GLOB_DAT"}
      BY <3>1 DEF Slot, Addr, ppc64_Ds
    <3>4. z.addend \in LdAddends(a, z)
      BY <3>1, <3>2, <3>3, <1>5, <1>8 DEF LdAddends, X86Like, X86_64
    <3>5. LdVal(a, z) = v
      BY <3>1, <3>2, <3>3, <1>5, <1>8 DEF LdVal, X86Like, X86_64
    <3>6. LdCode(a, z) = Lazy
      BY <3>1, <3>2, <3>3, <1>5, <1>8 DEF LdCode, X86Like, X86_64
    <3> QED BY <3>4, <3>5, <3>6 DEF Fills
  <2>3. v \in Int
    BY <1>3
  <2> HIDE DEF v
  <2> QED BY <2>1, <2>2, <2>3, LinkedRela
<1>9. CASE a = "ppc64"
  <2>1. p = ld_rela(a, q, 0, 0)
    BY <1>9 DEF ld_words, ld_slot_words, RelArchs, Mips, X86_64
  <2>2. q.code = NoCode
    BY <1>4, <1>9
  <2>3. ASSUME NEW z, Beside(z, q, 0, 0) PROVE Fills(a, z, 0, q.code)
    <3>1. /\ Plt(z) = Plt(q) /\ sparc64_far(z) = sparc64_far(q) /\ z.type = q.type
               /\ z.slot = q.slot
      BY <2>3, BesideFacts
    <3>2. z.addend = 0
      BY <2>3, BesideFacts
    <3>3. z.type \in Slot /\ z.type \notin Addr \union ppc64_Ds \union {"ADDR64", "GLOB_DAT"}
      BY <3>1 DEF Slot, Addr, ppc64_Ds
    <3>4. z.addend \in LdAddends(a, z)
      BY <3>1, <3>2, <3>3, <1>5, <1>9, <2>2 DEF LdAddends, X86Like, X86_64
    <3>5. LdVal(a, z) = 0
      BY <3>1, <3>2, <3>3, <1>5, <1>9, <2>2 DEF LdVal, X86Like, X86_64
    <3>6. LdCode(a, z) = q.code
      BY <3>1, <3>2, <3>3, <1>5, <1>9, <2>2 DEF LdCode, X86Like, X86_64
    <3> QED BY <3>4, <3>5, <3>6 DEF Fills
  <2> QED BY <2>1, <2>3, LinkedRela
<1>10. CASE a \in X86Like \union {"sh", "ppc"}
  <2>1. p = ld_rela(a, q, plt, 0)
    BY <1>10 DEF ld_words, ld_slot_words, RelArchs, Mips, X86_64, X86Like
  <2>2. q.code = NoCode
    BY <1>4, <1>10 DEF X86Like, X86_64
  <2>3. ASSUME NEW z, Beside(z, q, plt, 0) PROVE Fills(a, z, plt, q.code)
    <3>1. /\ Plt(z) = Plt(q) /\ sparc64_far(z) = sparc64_far(q) /\ z.type = q.type
               /\ z.slot = q.slot
      BY <2>3, BesideFacts
    <3>2. z.addend = 0
      BY <2>3, BesideFacts
    <3>3. z.type \in Slot /\ z.type \notin Addr \union ppc64_Ds \union {"ADDR64", "GLOB_DAT"}
      BY <3>1 DEF Slot, Addr, ppc64_Ds
    <3>4. z.addend \in LdAddends(a, z)
      BY <3>1, <3>2, <3>3, <1>5, <1>10, <2>2 DEF LdAddends, X86Like, X86_64
    <3>5. LdVal(a, z) = plt
      BY <3>1, <3>2, <3>3, <1>5, <1>10, <2>2 DEF LdVal, X86Like, X86_64
    <3>6. LdCode(a, z) = q.code
      BY <3>1, <3>2, <3>3, <1>5, <1>10, <2>2 DEF LdCode, X86Like, X86_64
    <3> QED BY <3>4, <3>5, <3>6 DEF Fills
  <2>4. plt \in Int
    BY <1>3
  <2> HIDE DEF plt
  <2> DEFINE c == q.code
  <2>5. (\A z : Beside(z, q, plt, 0) => Fills(a, z, plt, c)) /\ c = q.code
    BY <2>3
  <2> HIDE DEF c
  <2> QED BY <2>1, <2>4, <2>5, LinkedRela
<1> QED BY <1>6, <1>7, <1>8, <1>9, <1>10, ArchCases DEF Ppc

(* The architectures with IRELATIVE.                                       *)
LEMMA IRelativeTypes ==
  ASSUME NEW a \in RelaArchs, NEW o, LdType(a, o), o.type = "IRELATIVE"
  PROVE  a \in X86Like \union Ppc \union {"ppc64"}
<1>1. ASSUME a \in {"sh", "alpha", "sparc", "sparc64"} PROVE FALSE
  <2>1. "IRELATIVE" \notin ld_types(a)
    <3>1. CASE a = "sh"
      BY <3>1 DEF ld_types, X86_64, Ppc, Mips
    <3>2. CASE a = "alpha"
      BY <3>2 DEF ld_types, X86_64, Ppc, Mips, alpha_Tls
    <3>3. CASE a = "sparc"
      BY <3>3 DEF ld_types, X86_64, Ppc, Mips, sparc_Tls
    <3>4. CASE a = "sparc64"
      BY <3>4 DEF ld_types, X86_64, Ppc, Mips, sparc64_Tls, sparc64_Insns
    <3> QED BY <1>1, <3>1, <3>2, <3>3, <3>4
  <2> QED BY <2>1 DEF LdType, ld_exec_types
<1> QED BY <1>1, ArchCases

(* So are the other words.                                                 *)
LEMMA LinkedOtherA ==
  ASSUME NEW a \in RelaArchs, NEW q, IsBlank(a, q), q.type \notin Slot,
         NEW n, n \in ld_addends(a, q.type, q.base, Addends), NEW p \in ld_words(a, q, n)
  PROVE  FormA(a, p) /\ p.ok /\ p.base = q.base /\ p.exec = q.exec /\ p.type = q.type
<1>1. q \in Relocs /\ LdType(a, q)
  BY DEF IsBlank
<1>2. q.base \in Nat /\ q.slot \in Nat /\ q.def \in BOOLEAN
  BY <1>1 DEF Relocs
<1>3. n \in Int /\ (q.type \in Addr => n = Target(q)) /\ Target(q) \in Int /\ StValue(q) \in Int
  BY <1>2, BlankAddend DEF Target, StValue
<1>4. p \in ld_rela_words(a, q, n)
  BY ArchCases DEF ld_words
<1> DEFINE c == q.code
<1>5. c = (IF a = "ppc_bss" THEN Lazy ELSE NoCode) /\ c = q.code
  BY DEF IsBlank
<1> HIDE DEF c
<1>6. ASSUME NEW v, NEW x, NEW z, Beside(z, q, v, x)
      PROVE  /\ LdCode(a, z) = c /\ z.type = q.type /\ z.addend = x /\ z.mem.val = v
             /\ Target(z) = Target(q) /\ StValue(z) = StValue(q)
  BY <1>5, <1>6, BesideFacts DEF LdCode
<1>7. CASE q.type = "RELATIVE" /\ a \in {"sh", "sparc"}
  <2>1. p \in {ld_rela(a, q, 0, n), ld_rela(a, q, n, 0)}
    BY <1>4, <1>7 DEF ld_rela_words, X86_64
  <2>2. ASSUME NEW v \in Int, NEW x \in Int, v + x = Target(q), x \in {0, Target(q)}, NEW z,
                   Beside(z, q, v, x)
        PROVE  Fills(a, z, v, c)
    <3>1. z.type \in Addr /\ Target(z) = Target(q) /\ z.addend = x /\ LdCode(a, z) = c
      BY <1>6, <1>7, <2>2 DEF Addr
    <3>1a. z.type \notin Slot \union ppc64_Ds \union {"ADDR64", "GLOB_DAT"}
      BY <3>1 DEF Addr, Slot, ppc64_Ds
    <3>2. LdVal(a, z) = v
      BY <1>3, <1>7, <2>2, <3>1, <3>1a DEF LdVal
    <3>3. z.addend \in LdAddends(a, z)
      BY <1>7, <2>2, <3>1, <3>1a DEF LdAddends
    <3> QED BY <3>1, <3>2, <3>3 DEF Fills
  <2>3. n = Target(q) /\ n \in Int
    BY <1>3, <1>7 DEF Addr
  <2>4. \A z : Beside(z, q, 0, n) => Fills(a, z, 0, c)
    BY <2>2, <2>3
  <2>5. \A z : Beside(z, q, n, 0) => Fills(a, z, n, c)
    BY <2>2, <2>3
  <2>6. CASE p = ld_rela(a, q, 0, n)
    BY <1>5, <2>3, <2>4, <2>6, LinkedRela
  <2>7. CASE p = ld_rela(a, q, n, 0)
    BY <1>5, <2>3, <2>5, <2>7, LinkedRela
  <2> QED BY <2>1, <2>6, <2>7
<1>8. CASE \/ q.type = "RELATIVE" /\ a \in X86Like \union {"alpha", "ppc64"}
           \/ q.type = "IRELATIVE" /\ a \in X86Like \union {"ppc64"}
           \/ q.type = "ADDR64"
  <2>1. p = ld_rela(a, q, n, n)
    BY <1>4, <1>8 DEF ld_rela_words, X86Like, X86_64
  <2>2. ASSUME NEW z, Beside(z, q, n, n) PROVE Fills(a, z, n, c)
    <3>1. /\ z.type = q.type /\ Target(z) = Target(q) /\ z.addend = n /\ LdCode(a, z) = c
      BY <1>6, <2>2
    <3>1a. z.type \notin Slot \union ppc64_Ds \union {"GLOB_DAT"}
             /\ (z.type = "ADDR64" \/ z.type \in Addr)
           /\ ~ (z.type = "ADDR64" /\ z.type \in Addr)
      BY <1>8, <3>1 DEF Addr, Slot, ppc64_Ds
    <3>1b. z.type \in Addr => InWord(a, z.type) /\ a \notin {"sh", "sparc"}
      BY <1>8, <3>1, <3>1a DEF InWord, X86Like, X86_64, Addr
    <3>1c. z.type \in Addr => n = Target(z)
      BY <1>3, <3>1
    <3>2. LdVal(a, z) = n
      BY <3>1, <3>1a, <3>1b, <3>1c DEF LdVal
    <3>3. z.addend \in LdAddends(a, z)
      BY <1>3, <3>1, <3>1a, <3>1b, <3>1c DEF LdAddends
    <3> QED BY <3>1, <3>2, <3>3 DEF Fills
  <2> QED BY <1>3, <1>5, <2>1, <2>2, LinkedRela
<1>9. CASE q.type = "GLOB_DAT" /\ a = "alpha"
  <2> DEFINE v == StValue(q) + n
  <2>1. p = ld_rela(a, q, v, n)
    BY <1>4, <1>9 DEF ld_rela_words
  <2>2. ASSUME NEW z, Beside(z, q, v, n) PROVE Fills(a, z, v, c)
    <3>1. /\ z.type = q.type /\ StValue(z) = StValue(q) /\ z.addend = n /\ LdCode(a, z) = c
      BY <1>6, <2>2
    <3>1a. z.type \notin Addr \union Slot \union ppc64_Ds
      BY <1>9, <3>1 DEF Addr, Slot, ppc64_Ds
    <3>2. LdVal(a, z) = v
      BY <1>9, <3>1, <3>1a DEF LdVal
    <3>3. z.addend \in LdAddends(a, z)
      BY <1>3, <3>1, <3>1a DEF LdAddends
    <3> QED BY <3>1, <3>2, <3>3 DEF Fills
  <2>3. v \in Int
    BY <1>3
  <2> HIDE DEF v
  <2> QED BY <1>3, <1>5, <2>1, <2>2, <2>3, LinkedRela
<1>10. CASE /\ ~ (q.type = "RELATIVE" /\ a \in {"sh", "sparc"})
            /\ ~ \/ q.type = "RELATIVE" /\ a \in X86Like \union {"alpha", "ppc64"}
                 \/ q.type = "IRELATIVE" /\ a \in X86Like \union {"ppc64"}
                 \/ q.type = "ADDR64"
            /\ ~ (q.type = "GLOB_DAT" /\ a = "alpha")
  <2> DEFINE v == ld_insn(q.type)
  <2>1. p = ld_rela(a, q, v, n)
    BY <1>4, <1>10 DEF ld_rela_words, X86Like
  <2>2. v \in Int
    BY DEF ld_insn
  <2>3. q.type \in Addr => v = 0
    BY DEF ld_insn, Addr, ppc_Predicted, Predicted, ppc64_Ds, sparc64_Insns
  <2> HIDE DEF v
  <2>4. ASSUME NEW z, Beside(z, q, v, n) PROVE Fills(a, z, v, c)
    <3>1. /\ z.type = q.type /\ Target(z) = Target(q) /\ z.addend = n /\ LdCode(a, z) = c
               /\ z.mem.val = v
      BY <1>6, <2>4
    <3>1a. z.type \in Addr => a \notin {"sh", "sparc"} /\ ~ InWord(a, z.type)
      <4>1. q.type = "JMP_IREL" => a = "ppc64"
        BY <1>1, AddrTypes, ArchCases
      <4>2. q.type = "IRELATIVE" => a \in X86Like \union Ppc \union {"ppc64"}
        BY <1>1, IRelativeTypes
      <4>3. "sh" \notin X86Like \union Ppc /\ "sparc" \notin X86Like \union Ppc
              /\ "alpha" \notin X86Like \union Ppc
            /\ "ppc64" \notin X86Like \union Ppc
        BY DEF X86Like, X86_64, Ppc
      <4>4. X86Like \intersect Ppc = {}
        BY DEF X86Like, X86_64, Ppc
      <4> QED BY <1>10, <3>1, <4>1, <4>2, <4>3, <4>4 DEF InWord, Addr
    <3>2. LdVal(a, z) = v
      <4>1. CASE z.type \in Addr
        <5>1. z.type \notin Slot \union ppc64_Ds \union {"ADDR64", "GLOB_DAT"}
          BY <4>1 DEF Addr, Slot, ppc64_Ds
        <5> QED BY <2>3, <3>1, <3>1a, <4>1, <5>1 DEF LdVal
      <4>2. CASE z.type \notin Addr
        BY <1>10, <3>1, <4>2 DEF LdVal, v
      <4> QED BY <4>1, <4>2
    <3>3. z.addend \in LdAddends(a, z)
      BY <1>3, <3>1, <3>1a DEF LdAddends
    <3> QED BY <3>1, <3>2, <3>3 DEF Fills
  <2> QED BY <1>3, <1>5, <2>1, <2>2, <2>4, LinkedRela
<1> QED BY <1>7, <1>8, <1>9, <1>10

(* The word of a REL section, by its type.                                 *)
LdWordIs(a, q, v) ==
  /\ q.type \in AddrR => v = Target(q)
  /\ q.type \in Slot => v = Plt(q) + ld_plt_entry(a) * q.slot
  /\ q.type \in {"GOT_B", "GOT_E"} => v = mips_stub(q)
  /\ q.type = "GOT_F" => v = q.base + 12
  /\ q.type \in ZeroR(a) => v = 0
  /\ q.type = "PC24" => Branch(v)

(* A REL relocation with that word is as FormR says.                       *)
LEMMA LinkedRel ==
  ASSUME NEW a \in RelArchs, NEW q, IsBlank(a, q), NEW v \in Int, LdWordIs(a, q, v), NEW p,
             p = ld_rel(a, q, v)
  PROVE  FormR(a, p) /\ p.ok /\ p.base = q.base /\ p.exec = q.exec /\ p.type = q.type
<1> DEFINE w == ld_width(a, q)
           g == Put(q, w, v)
<1>1. q \in Relocs
  BY DEF IsBlank
<1>2. w \in Nat
  <2>1. q.class \in Nat
    BY <1>1 DEF Relocs
  <2> QED BY <2>1, WidthNat
<1>3. p = g
  BY DEF ld_rel
<1> HIDE DEF w
<1>4. Written(g, q) /\ g.mem = [width |-> w, val |-> v]
  BY <1>1, <1>2, PutWritten, PutFacts
<1> HIDE DEF g
<1>5. Written(p, q) /\ p.mem = [width |-> w, val |-> v]
  BY <1>3, <1>4
<1>6. /\ p \in Relocs /\ p.type = q.type /\ p.rela = q.rela /\ p.addend = q.addend
           /\ p.got = q.got
      /\ p.base = q.base /\ p.code = q.code /\ p.ok = q.ok /\ Placed(p, q)
  BY <1>5 DEF Written, Alike
<1>7. p.inGot = q.inGot /\ p.slot = q.slot /\ p.exec = q.exec /\ p.class = q.class
        /\ p.def = q.def
  BY <1>6 DEF Placed
<1>8. ld_width(a, p) = w
  BY <1>6, <1>7, LdWidthSame DEF w
<1>9. LdWord(a, p)
  <2>1. Target(p) = Target(q) /\ Plt(p) = Plt(q) /\ mips_stub(p) = mips_stub(q) /\ p.mem.val = v
    BY <1>5, <1>6 DEF Target, Plt, mips_stub
  <2> QED BY <1>6, <1>7, <2>1 DEF LdWord, LdWordIs
<1>10. LdType(a, p)
  BY <1>6, <1>7 DEF IsBlank, LdType
<1>11. p.mem.width = ld_width(a, p)
  BY <1>5, <1>8
<1>12. /\ ~ p.rela /\ p.addend = 0 /\ p.got = 0 /\ p.class = ld_class(a) /\ p.ok
       /\ p.inGot = (p.type \in Slot \union {"GLOB_DAT"}) /\ p.code = NoCode
       /\ p.type \in mips_Defined => p.def
  <2>1. a # "ppc_bss"
    BY DEF RelArchs, Mips
  <2> QED BY <1>6, <1>7, <2>1 DEF IsBlank
<1> QED BY <1>6, <1>7, <1>9, <1>10, <1>11, <1>12 DEF FormR

(* So is every REL relocation that ld makes.                               *)
LEMMA LinkedR ==
  ASSUME NEW a \in RelArchs, NEW q, IsBlank(a, q), NEW n,
             n \in ld_addends(a, q.type, q.base, Addends),
         NEW p \in ld_words(a, q, n)
  PROVE  FormR(a, p) /\ p.ok /\ p.base = q.base /\ p.exec = q.exec /\ p.type = q.type
<1>1. q \in Relocs
  BY DEF IsBlank
<1>2. q.base \in Nat /\ q.slot \in Nat
  BY <1>1 DEF Relocs
<1>3. n \in Int /\ (q.type \in Addr => n = Target(q)) /\ (q.type \in ZeroR(a) => n = 0)
  BY BlankAddend
<1>4. CASE q.type \in Slot
  <2> DEFINE v == Plt(q) + ld_plt_entry(a) * q.slot
  <2>1. p = ld_rel(a, q, v)
    BY <1>4 DEF ld_words, ld_slot_words, RelArchs, Mips, X86_64
  <2>2. v \in Int
    BY <1>2 DEF Plt, PltOffset, ld_plt_entry
  <2> HIDE DEF v
  <2>3. q.type \notin AddrR \union {"GOT_B", "GOT_E", "GOT_F", "PC24"} \union ZeroR(a)
    BY <1>4 DEF Slot, AddrR, ZeroR, DtpMod, mips_DtpMod
  <2>4. LdWordIs(a, q, v)
    BY <2>3 DEF LdWordIs, v
  <2> QED BY <2>1, <2>2, <2>4, LinkedRel
<1>5. CASE q.type \in mips_Got
  <2> DEFINE v == ld_got(q)
  <2>0. q.type \notin Slot \union {"PC24"}
          /\ q.type \in {"GOT_A", "GOT_B", "GOT_D", "GOT_E", "GOT_F", "GOT_L"}
    BY <1>5 DEF Slot, mips_Got, mips_Global, mips_Undefined, mips_Defined
  <2>1. p = ld_rel(a, q, v)
    BY <1>5, <2>0 DEF ld_words, ld_rel_words
  <2>2. q.type = "GOT_F" => q.def
    BY DEF IsBlank, mips_Defined
  <2>3. v \in Int
    BY <1>2, <2>0, <2>2 DEF ld_got, mips_stub, StValue
  <2>4. LdWordIs(a, q, v)
    BY <1>2, <2>0, <2>2 DEF LdWordIs, ld_got, StValue, Target, AddrR, ZeroR, DtpMod, mips_DtpMod
  <2> HIDE DEF v
  <2> QED BY <2>1, <2>3, <2>4, LinkedRel
<1>6. CASE q.type = "PC24"
  <2> DEFINE v == arm_pc24(ld_insn("PC24"), n)
  <2>0. q.type \notin Slot \union mips_Got
    BY <1>6 DEF Slot, mips_Got, mips_Global, mips_Undefined, mips_Defined
  <2>1. p = ld_rel(a, q, v)
    BY <1>6, <2>0 DEF ld_words, ld_rel_words
  <2>2. ld_insn("PC24") = 5 * 2^24
    BY DEF ld_insn, Predicted, ppc_Predicted, ppc64_Ds, sparc64_Insns
  <2>3. Branch(5 * 2^24)
    BY DEF Branch, Insert, Field
  <2>4. v \in Int /\ Branch(v)
    BY <1>3, <2>2, <2>3, BranchPut
  <2> HIDE DEF v
  <2>5. LdWordIs(a, q, v)
    BY <1>6, <2>4 DEF LdWordIs, AddrR, ZeroR, Slot, DtpMod, mips_DtpMod
  <2> QED BY <2>1, <2>4, <2>5, LinkedRel
<1>7. CASE q.type \notin Slot \union mips_Got \union {"PC24"}
  <2>1. p = ld_rel(a, q, n)
    BY <1>7 DEF ld_words, ld_rel_words
  <2>2. q.type \in AddrR => q.type \in Addr
    BY <1>7 DEF AddrR, Addr, mips_Got
  <2>3. q.type \notin {"GOT_B", "GOT_E", "GOT_F"}
    BY <1>7 DEF mips_Got, mips_Global, mips_Undefined, mips_Defined
  <2>4. LdWordIs(a, q, n)
    BY <1>3, <1>7, <2>2, <2>3 DEF LdWordIs
  <2> QED BY <1>3, <2>1, <2>4, LinkedRel
<1> QED BY <1>4, <1>5, <1>6, <1>7

(* The invariant holds of a file that ld made.                             *)
LEMMA InitInv == Init => Inv
<1> SUFFICES ASSUME Init PROVE Inv
  OBVIOUS
<1>1. arch \in Names /\ arch \in Archs
  BY RelocationAssumption DEF Init, Names
<1>2. PICK q, n : /\ IsBlank(arch, q) /\ n \in ld_addends(arch, q.type, q.base, Addends)
                  /\ r \in ld_words(arch, q, n)
  BY <1>1, BlankOf DEF Init
<1>3. Form(arch, r) /\ r.ok /\ r.base = q.base
  <2>1. CASE arch \in RelArchs
    BY <1>2, <2>1, LinkedR DEF Form
  <2>2. CASE arch \notin RelArchs
    <3>1. arch \in RelaArchs
      BY <1>1, <2>2 DEF RelaArchs
    <3>2. FormA(arch, r) /\ r.ok /\ r.base = q.base
      BY <1>2, <3>1, LinkedSlotA, LinkedOtherA
    <3> QED BY <2>2, <3>2 DEF Form
  <2> QED BY <2>1, <2>2
<1>4. r.base \in Bases \union {0, 100000}
  BY <1>2, <1>3 DEF IsBlank
<1>5. orig = r /\ own = "no" /\ ~ moved /\ exe = NoExe
        /\ (r.exec /\ r.type \in mips_DtpMod => mixed) /\ mixed \in BOOLEAN
      /\ moved \in BOOLEAN
  BY DEF Init
<1>6. ~ exe.done
  BY <1>5 DEF NoExe
<1>7. TypeInv
  BY <1>1, <1>4, <1>5, <1>6 DEF TypeInv
<1>8. Kin(arch, r, r) /\ r.got = 0
  BY <1>1, <1>3, FormFacts
<1>9. KinInv
  BY <1>3, <1>5, <1>8 DEF KinInv, Renamed
<1>10. FreshInv /\ DoneInv
  BY <1>3, <1>5 DEF FreshInv, DoneInv
<1> QED BY <1>7, <1>9, <1>10 DEF Inv

-----------------------------------------------------------------------------
(* The theorems.                                                           *)

(* The inductive invariant: whatever is prelinked, moved and undone, in    *)
(* any order and with any symbols, what undoing needs of the original is   *)
(* never lost.                                                             *)
THEOREM Inductive == Spec => []Inv
<1>1. Init => Inv
  BY InitInv
<1>2. Inv /\ [Next]_vars => Inv'
  <2> SUFFICES ASSUME Inv, [Next]_vars PROVE Inv'
    OBVIOUS
  <2>1. CASE UNCHANGED vars
    BY <2>1 DEF vars, Inv, TypeInv, KinInv, FreshInv, DoneInv, WrongUndo, WrongForm, WrongAddend
  <2>2. ASSUME NEW b \in Bases, NEW d \in OwnSymbols(arch, orig), PrelinkLibrary(b, d)
                   PROVE Inv'
    BY <2>2, PrelinkLibraryInv
  <2>3. ASSUME NEW g \in GlobalSymbols(arch, orig, own), NEW copied \in BOOLEAN,
                   NEW full \in BOOLEAN, PrelinkUser(g, copied, full) PROVE Inv'
    BY <2>3, PrelinkUserInv
  <2>4. ASSUME NEW d \in OwnSymbols(arch, orig), PrelinkExecutable(d) PROVE Inv'
    BY <2>4, PrelinkExecutableInv
  <2>5. CASE Undo
    BY <2>5, UndoInv
  <2>6. ASSUME NEW b \in Bases, RelocOnly(b) PROVE Inv'
    BY <2>6, RelocOnlyInv
  <2> QED BY <2>1, <2>2, <2>3, <2>4, <2>5, <2>6 DEF Next
<1> QED BY <1>1, <1>2, PTL DEF Spec

(* TypeOK: got[1] is clear in a file that is not prelinked and points to   *)
(* the PLT of one that is (arch_prelink, arch_undo_prelink, adjust_dyn).   *)
THEOREM TypeCorrect == Spec => []TypeOK
<1>1. Inv => TypeOK
  <2> SUFFICES ASSUME Inv PROVE TypeOK
    OBVIOUS
  <2>1. r \in Relocs /\ r.ok \in BOOLEAN
    BY KinIs DEF Inv, KinInv, Typed
  <2>2. GotOf(arch, r) = IF GotUsed THEN Plt(r) ELSE 0
    BY DEF GotOf, GotUsed, GotArchs
  <2>3. r.got = IF own = "no" \/ ~ GotUsed THEN 0 ELSE Plt(r)
    BY <2>2 DEF Inv, KinInv
  <2> QED BY <2>1, <2>3 DEF Inv, TypeInv, TypeOK
<1> QED BY <1>1, Inductive, PTL

(* UndoRestores: prelink -u gives back the original, bit for bit, whatever *)
(* was done in between (undo_prelink_rel of every architecture).           *)
THEOREM UndoRestoresHolds == Spec => []UndoRestores
<1>1. Inv => UndoRestores
  BY DEF Inv, FreshInv, UndoRestores
<1> QED BY <1>1, Inductive, PTL

(* Accepted: whatever was prelinked, moved and undone before, no callback  *)
(* that rewrites a word (adjust, prelink, undo) refuses a relocation, but  *)
(* for an OLO10+8 of sparc64, a TLS_DESC of arm to be bound at once and,   *)
(* as libraries may be placed anywhere here, a branch of arm that does not *)
(* reach its target.  What the conflict callbacks refuse is the subject of *)
(* ConflictsAccepted.                                                      *)
THEOREM AcceptedHolds == Spec => [](r.type # "PC24" => Accepted)
<1>1. Inv => (r.type # "PC24" => Accepted)
  BY DEF Inv, KinInv, Refusable, Accepted
<1> QED BY <1>1, Inductive, PTL

-----------------------------------------------------------------------------
(* What ld.so makes of a prelinked file that it relocates normally.        *)

(* Writing a field of an instruction that has been cleared is writing it:  *)
(* only the rest of the word matters.                                      *)
LEMMA Anew26 ==
  ASSUME NEW w \in Int, NEW v \in Int
  PROVE Insert(w, 2, 26, v) = Insert(Insert(w, 2, 26, 0), 2, 26, v)
  BY DEF Insert, Field

(* The same of the 14 bits of a conditional branch.                        *)
LEMMA Anew16 ==
  ASSUME NEW w \in Int, NEW v \in Int
  PROVE Insert(w, 2, 16, v) = Insert(Insert(w, 2, 16, 0), 2, 16, v)
  BY DEF Insert, Field

(* The same of 10 bits.                                                    *)
LEMMA Anew10 ==
  ASSUME NEW w \in Int, NEW v \in Int
  PROVE Insert(w, 0, 10, v) = Insert(Insert(w, 0, 10, 0), 0, 10, v)
  BY DEF Insert, Field

(* The same of 12 bits.                                                    *)
LEMMA Anew12 ==
  ASSUME NEW w \in Int, NEW v \in Int
  PROVE Insert(w, 0, 12, v) = Insert(Insert(w, 0, 12, 0), 0, 12, v)
  BY DEF Insert, Field

(* The same of 13 bits.                                                    *)
LEMMA Anew13 ==
  ASSUME NEW w \in Int, NEW v \in Int
  PROVE Insert(w, 0, 13, v) = Insert(Insert(w, 0, 13, 0), 0, 13, v)
  BY DEF Insert, Field

(* The same of 22 bits.                                                    *)
LEMMA Anew22 ==
  ASSUME NEW w \in Int, NEW v \in Int
  PROVE Insert(w, 0, 22, v) = Insert(Insert(w, 0, 22, 0), 0, 22, v)
  BY DEF Insert, Field

(* The same of 24 bits.                                                    *)
LEMMA Anew24 ==
  ASSUME NEW w \in Int, NEW v \in Int
  PROVE Insert(w, 0, 24, v) = Insert(Insert(w, 0, 24, 0), 0, 24, v)
  BY DEF Insert, Field

(* The same of 30 bits.                                                    *)
LEMMA Anew30 ==
  ASSUME NEW w \in Int, NEW v \in Int
  PROVE Insert(w, 0, 30, v) = Insert(Insert(w, 0, 30, 0), 0, 30, v)
  BY DEF Insert, Field

(* All of a word of 16 bits is written.                                    *)
LEMMA AnewHalf ==
  ASSUME NEW w, HalfWord(w), NEW v \in Int
  PROVE Insert(w, 0, 16, v) = v % 65536
<1>0. w \in Int /\ 0 <= w /\ w <= 65535
  BY DEF HalfWord
<1>1. w \in Int /\ w % 65536 = w
  BY SMT, <1>0
<1> QED BY SMT, <1>1 DEF Insert, Field

(* The same of a branch with a prediction bit.                             *)
LEMMA AnewPredicted ==
  ASSUME NEW w \in Int, NEW v \in Int, NEW x \in {0, 2^21}
  PROVE  Insert(Insert(w, 2, 16, v), 21, 22, x)
           = Insert(Insert(Insert(Insert(w, 2, 16, 0), 21, 22, 0), 2, 16, v), 21, 22, x)
<1>1. PICK h, b, c, m, l : Parts(h, b, c, m, l) /\ w = Comp(h, b, c, m, l)
  BY CompAll
<1> DEFINE e == IF x = 0 THEN 0 ELSE 1
           k == Insert(Insert(w, 2, 16, 0), 21, 22, 0)
<1>2. /\ Insert(w, 2, 16, v) = Comp(h, b, c, Mid(v), l) /\ Parts(h, b, c, Mid(v), l)
      /\ Insert(w, 2, 16, 0) = Comp(h, b, c, Mid(0), l) /\ Parts(h, b, c, Mid(0), l)
  BY <1>1, CompIns
<1>3. k = Comp(h, 0, c, Mid(0), l) /\ Parts(h, 0, c, Mid(0), l)
  BY <1>2, CompIns
<1>4. Insert(Insert(w, 2, 16, v), 21, 22, x) = Comp(h, e, c, Mid(v), l)
  BY <1>2, CompIns
<1> HIDE DEF k
<1>5. Insert(k, 2, 16, v) = Comp(h, 0, c, Mid(v), l) /\ Parts(h, 0, c, Mid(v), l)
  BY <1>3, CompIns
<1>6. Insert(Insert(k, 2, 16, v), 21, 22, x) = Comp(h, e, c, Mid(v), l)
  BY <1>5, CompIns
<1> QED BY <1>4, <1>6 DEF k

(* What ld.so keeps of the word is the same in v and in w.                 *)
Interchangeable(t, v, w) ==
  /\ t \in Insns => Cleared(t, v) = Cleared(t, w)
  /\ t \in Halves => HalfWord(v) /\ HalfWord(w)
  /\ t = "PC24" => Branch(v) /\ Branch(w)
  /\ t \notin ppc64_Ds

(* Instructions that differ in a field only are the same when it is        *)
(* written.                                                                *)
LEMMA FieldSame ==
  ASSUME NEW v \in Int, NEW w \in Int, NEW k \in {10, 12, 13, 22, 24, 30}, NEW z \in Int,
         Insert(v, 0, k, 0) = Insert(w, 0, k, 0)
  PROVE  Insert(v, 0, k, z) = Insert(w, 0, k, z)
<1>1. CASE k = 10
  BY <1>1, Anew10
<1>2. CASE k = 12
  BY <1>2, Anew12
<1>3. CASE k = 13
  BY <1>3, Anew13
<1>4. CASE k = 22
  BY <1>4, Anew22
<1>5. CASE k = 24
  BY <1>5, Anew24
<1>6. CASE k = 30
  BY <1>6, Anew30
<1> QED BY <1>1, <1>2, <1>3, <1>4, <1>5, <1>6

(* What goes into the fields of the instructions of sparc and sparc64.     *)
Operand(t, x) ==
  CASE t \in {"LO10", "L44"} -> x
    [] t \in {"HI22", "LM22"} -> x \div 1024
    [] t = "WDISP30" -> x \div 4
    [] t = "H44" -> x \div 4194304
    [] t = "M44" -> x \div 4096
    [] t = "HH22" -> (x \div 4194304) \div 1048576
    [] t = "HM10" -> (x \div 4194304) \div 1024
    [] t = "OLO10" -> x % 1024
    [] t = "OLO10+8" -> (x % 1024) + 8
    [] t = "TLS_LE_HIX22" -> (- x - 1) \div 1024
    [] t = "TLS_LE_LOX10" -> (x % 1024) + 7168

(* These instructions.                                                     *)
SparcInsns == sparc64_Insns \union {"TLS_LE_HIX22", "TLS_LE_LOX10"}

(* The widths of the fields.                                               *)
Width(t) == IF t = "OLO10+8" THEN 13 ELSE sparc64_bits(t)

(* ld_so_insert, of these instructions.                                    *)
LEMMA SparcInsert ==
  ASSUME NEW t \in SparcInsns, NEW w \in Int, NEW x \in Int
  PROVE  /\ ld_so_insert(t, w, x) = Insert(w, 0, Width(t), Operand(t, x))
         /\ Cleared(t, w) = Insert(w, 0, Width(t), 0)
         /\ Operand(t, x) \in Int /\ Width(t) \in {10, 12, 13, 22, 24, 30}
<1>1. SparcBits(t, Width(t))
  BY DEF SparcInsns, sparc64_Insns, SparcBits, Width, sparc64_bits
<1>2. Width(t) \in {10, 12, 13, 22, 24, 30}
  BY <1>1 DEF SparcBits
<1>3. Cleared(t, w) = Insert(w, 0, Width(t), 0)
  BY <1>1 DEF Cleared, Width, ppc_Predicted, SparcBits
<1>4. Operand(t, x) \in Int
  BY DEF Operand, SparcInsns, sparc64_Insns
<1>5. t \notin Predicted \union ppc64_Higher \union Dbl \union {"ADDR24", "REL24", "ADDR14"}
        \union ppc64_Ds
  BY DEF SparcInsns, sparc64_Insns, Predicted, ppc_Predicted, ppc64_Higher, Dbl, s390_Dbl,
     s390_Dbl16, ppc64_Ds
<1>5a. t \notin ppc_Low
         \union {"DTPREL16", "DTPREL16_LO", "TPREL16", "TPREL16_LO", "ADDR16_HI", "DTPREL16_HI",
                 "TPREL16_HI", "ADDR16_HA", "DTPREL16_HA", "TPREL16_HA"}
  BY DEF SparcInsns, sparc64_Insns, ppc_Low
<1>6. CASE t \in {"LO10", "L44", "HI22", "LM22", "WDISP30", "H44", "M44"}
  <2> DEFINE u == CASE t \in {"LO10", "L44"} -> 1 [] t \in {"HI22", "LM22"} -> 1024 [] t = "WDISP30" -> 4
                    [] t = "H44" -> 4194304 [] t = "M44" -> 4096
  <2>1. ld_so_field(t) = Bits(0, u, 0, Width(t))
    BY <1>5, <1>5a, <1>6 DEF ld_so_field, Width, sparc64_bits
  <2>2. u \in {1, 1024, 4, 4194304, 4096} /\ Width(t) # 0
    BY <1>6, <1>2
  <2>3. Operand(t, x) = (x + 0) \div u
    BY <1>6 DEF Operand
  <2> HIDE DEF u
  <2>4. ld_so_insert(t, w, x) = Insert(w, 0, Width(t), (x + 0) \div u)
    BY <1>5, <1>6, <2>1, <2>2 DEF ld_so_insert, Bits
  <2> QED BY <1>2, <1>3, <1>4, <2>3, <2>4
<1>7. CASE t \notin {"LO10", "L44", "HI22", "LM22", "WDISP30", "H44", "M44"}
  <2>1. ld_so_insert(t, w, x) = Insert(w, 0, Width(t), Operand(t, x))
    BY <1>5, <1>7 DEF ld_so_insert, Width, Operand, sparc64_bits, SparcInsns, sparc64_Insns
  <2> QED BY <1>2, <1>3, <1>4, <2>1
<1> QED BY <1>6, <1>7

(* The same of the halves of ppc.                                          *)
LEMMA HalfInsert ==
  ASSUME NEW t \in Halves, NEW w, HalfWord(w), NEW v, HalfWord(v), NEW x \in Int
  PROVE  ld_so_insert(t, w, x) = ld_so_insert(t, v, x)
<1>1. t \notin Predicted \union ppc64_Higher \union Dbl \union ppc64_Ds
        \union {"ADDR24", "REL24", "ADDR14"}
  BY DEF Halves, ppc_Half, ppc_Low, ppc_DtpRel16, ppc_TpRel16, Predicted, ppc_Predicted,
     ppc64_Higher, Dbl, s390_Dbl, s390_Dbl16, ppc64_Ds
<1>2. t \notin SparcInsns
  BY DEF Halves, ppc_Half, ppc_Low, ppc_DtpRel16, ppc_TpRel16, SparcInsns, sparc64_Insns
<1> DEFINE f == ld_so_field(t)
           y == (x + f.round) \div f.unit
<1>3. f \in {Bits(0, 1, 0, 16), Bits(0, 2^16, 0, 16), Bits(2^15, 2^16, 0, 16)}
  BY <1>1 DEF ld_so_field, Halves, ppc_Half, ppc_Low, ppc_DtpRel16, ppc_TpRel16
<1>4. f.lo = 0 /\ f.hi = 16 /\ f.round \in Int /\ f.unit \in {1, 65536}
  BY <1>3 DEF Bits
<1> HIDE DEF f
<1>5. y \in Int
  <2>1. CASE f.unit = 1
    BY <1>4, <2>1
  <2>2. CASE f.unit = 65536
    BY <1>4, <2>2
  <2> QED BY <1>4, <2>1, <2>2
<1>6. ASSUME NEW k PROVE ld_so_insert(t, k, x) = Insert(k, 0, 16, y)
  BY <1>1, <1>2, <1>4 DEF ld_so_insert, f, SparcInsns, sparc64_Insns
<1> HIDE DEF y
<1>7. Insert(w, 0, 16, y) = y % 65536 /\ Insert(v, 0, 16, y) = y % 65536
  BY <1>5, AnewHalf
<1> QED BY <1>6, <1>7

(* The same of the branches of ppc and arm.                                *)
LEMMA BranchInsert ==
  ASSUME NEW t \in {"ADDR24", "REL24", "ADDR14", "PC24"}, NEW w \in Int, NEW v \in Int,
             NEW x \in Int, Interchangeable(t, w, v)
  PROVE  ld_so_insert(t, w, x) = ld_so_insert(t, v, x)
<1>1. t \notin Predicted \union ppc64_Higher \union Dbl \union ppc64_Ds \union SparcInsns
  BY DEF SparcInsns, sparc64_Insns, Predicted, ppc_Predicted, ppc64_Higher, Dbl, s390_Dbl,
     s390_Dbl16, ppc64_Ds
<1>1a. t \notin ppc_Low
  BY DEF ppc_Low
<1>2. CASE t \in {"ADDR24", "REL24"}
  <2>1. ld_so_field(t) = Bits(0, 1, 2, 26)
    BY <1>1, <1>1a, <1>2 DEF ld_so_field
  <2>2. ASSUME NEW k PROVE ld_so_insert(t, k, x) = Insert(k, 2, 26, (x + 0) \div 1)
    BY <1>1, <2>1 DEF ld_so_insert, Bits, SparcInsns, sparc64_Insns
  <2>3. Insert(w, 2, 26, 0) = Insert(v, 2, 26, 0)
    BY <1>2 DEF Interchangeable, Insns, Cleared, ppc_Predicted
  <2>4. (x + 0) \div 1 \in Int
    OBVIOUS
  <2> QED BY <2>2, <2>3, <2>4, Anew26
<1>3. CASE t = "ADDR14"
  <2>1. ld_so_field(t) = Bits(0, 1, 2, 16)
    BY <1>1, <1>1a, <1>3 DEF ld_so_field
  <2>2. ASSUME NEW k PROVE ld_so_insert(t, k, x) = Insert(k, 2, 16, (x + 0) \div 1)
    BY <1>1, <2>1 DEF ld_so_insert, Bits, SparcInsns, sparc64_Insns
  <2>3. Insert(w, 2, 16, 0) = Insert(v, 2, 16, 0)
    BY <1>3 DEF Interchangeable, Insns, Cleared, ppc_addr14, ppc_Predicted
  <2>4. (x + 0) \div 1 \in Int
    OBVIOUS
  <2> QED BY <2>2, <2>3, <2>4, Anew16
<1>4. CASE t = "PC24"
  <2>1. ld_so_field(t) = Bits(0, 4, 0, 24)
    BY <1>1, <1>1a, <1>4 DEF ld_so_field
  <2>2. ASSUME NEW k PROVE ld_so_insert(t, k, x) = Insert(k, 0, 24, (x + 0) \div 4)
    BY <1>1, <2>1 DEF ld_so_insert, Bits, SparcInsns, sparc64_Insns
  <2>3. Insert(w, 0, 24, 0) = Insert(v, 0, 24, 0)
    BY <1>4 DEF Interchangeable, Branch
  <2>4. (x + 0) \div 4 \in Int
    OBVIOUS
  <2> QED BY <2>2, <2>3, <2>4, Anew24
<1> QED BY <1>2, <1>3, <1>4

(* ld.so makes the same of words that it may take for each other.          *)
LEMMA InsertSame ==
  ASSUME NEW t, NEW w \in Int, NEW v \in Int, NEW x \in Int, Interchangeable(t, w, v)
  PROVE  ld_so_insert(t, w, x) = ld_so_insert(t, v, x)
<1>1. CASE t \in Halves
  BY <1>1, HalfInsert DEF Interchangeable
<1>2. CASE t \in {"ADDR24", "REL24", "ADDR14", "PC24"}
  BY <1>2, BranchInsert
<1>3. CASE t \in SparcInsns
  <2>1. Cleared(t, w) = Cleared(t, v)
    BY <1>3 DEF Interchangeable, Insns, SparcInsns
  <2> QED BY <1>3, <2>1, SparcInsert, FieldSame
<1>4. CASE t \in Predicted
  <2> DEFINE e == IF t = "ADDR14_BRTAKEN" THEN 2^21 ELSE 0
  <2>1. ASSUME NEW k PROVE ld_so_insert(t, k, x) = Insert(Insert(k, 2, 16, x), 21, 22, e)
    BY <1>4 DEF ld_so_insert, Predicted, ppc_Predicted, ppc64_Higher
  <2>2. e \in {0, 2^21}
    OBVIOUS
  <2> HIDE DEF e
  <2>3. Insert(Insert(w, 2, 16, 0), 21, 22, 0) = Insert(Insert(v, 2, 16, 0), 21, 22, 0)
    <3>1. Cleared(t, w) = Cleared(t, v)
      BY <1>4 DEF Interchangeable, Insns, Predicted
    <3> QED BY <1>4, <3>1 DEF Cleared, ppc_addr14_br, ppc_addr14, Predicted, ppc_Predicted
  <2> QED BY <2>1, <2>2, <2>3, AnewPredicted
<1>5. CASE t \notin Halves \union {"ADDR24", "REL24", "ADDR14", "PC24"} \union SparcInsns
             \union Predicted
  <2>1. CASE t \in ppc64_Higher
    BY <1>5, <2>1 DEF ld_so_insert, ppc64_Higher
  <2>2. CASE t \notin ppc64_Higher
    <3>1. ld_so_field(t) \in {Bits(0, 2, 0, 0), Bits(0, 1, 0, 0)}
      BY <1>5 DEF ld_so_field, Interchangeable, SparcInsns, sparc64_Insns, Halves, ppc_Half,
         ppc_Low, ppc_DtpRel16, ppc_TpRel16
    <3>2. ld_so_field(t).hi = 0
      BY <3>1 DEF Bits
    <3> QED BY <1>5, <2>2, <3>2 DEF ld_so_insert, SparcInsns, sparc64_Insns
  <2> QED BY <2>1, <2>2
<1> QED BY <1>1, <1>2, <1>3, <1>4, <1>5

(* The relocations that ld.so has a case of its own for.                   *)
Special == {"NONE", "COPY", "RELATIVE", "IRELATIVE", "JMP_IREL", "GOT_L", "TLS_DESC",
            "TLS_DESC_NOW"}
  \union Slot \union DtpMod

(* A word after ld.so has been there.                                      *)
Word(w, v, c) == [width |-> w, val |-> v, calls |-> c]

(* What the symbol d is when the object is mapped at b.                    *)
At(q, b, d) == ld_so_symbol(ld_so_mapped(q, b), d)

(* ld_so_relocate, of words that get the symbol and the addend.            *)
LEMMA RelocateOther ==
  ASSUME NEW a, NEW q, NEW b, NEW d, q.type \notin Special
  PROVE  ld_so_relocate(a, q, b, d)
           = Word(ld_width(a, q),
                  ld_so_insert(q.type, q.mem.val,
                               ld_so_operand(a, ld_so_mapped(q, b), At(q, b, d) + ld_so_addend(a, q), d)), 0)
  BY DEF ld_so_relocate, Special, Word, At

(* The same of words that are left alone.                                  *)
LEMMA RelocateStill ==
  ASSUME NEW a, NEW q, NEW b, NEW d, q.type \in {"NONE", "COPY"}
  PROVE  ld_so_relocate(a, q, b, d) = Word(q.mem.width, q.mem.val, 0)
  BY DEF ld_so_relocate, Word, Slot, DtpMod, mips_DtpMod

(* The same of a RELATIVE.                                                 *)
LEMMA RelocateRelative ==
  ASSUME NEW a, NEW q, NEW b, NEW d, q.type = "RELATIVE"
  PROVE  ld_so_relocate(a, q, b, d)
           = Word(ld_width(a, q),
                  (b - q.base) + (CASE a = "sparc" -> q.mem.val + q.addend
                                    [] a = "alpha" \/ (a = "sh" /\ q.addend = 0) -> q.mem.val
                                    [] OTHER -> ld_so_addend(a, q)), 0)
  BY DEF ld_so_relocate, Word, Slot, DtpMod, mips_DtpMod

(* The same of an IRELATIVE.                                               *)
LEMMA RelocateIRelative ==
  ASSUME NEW a, NEW q, NEW b, NEW d, q.type = "IRELATIVE"
  PROVE  ld_so_relocate(a, q, b, d) = Word(ld_width(a, q), ld_so_ifunc(ld_so_addend(a, q) + (b - q.base)), 0)
  BY DEF ld_so_relocate, Word, Slot, DtpMod, mips_DtpMod

(* The same of a JMP_IREL of ppc64.                                        *)
LEMMA RelocateJmpIRel ==
  ASSUME NEW a, NEW q, NEW b, NEW d, q.type = "JMP_IREL"
  PROVE  ld_so_relocate(a, q, b, d) = Word(ld_width(a, q), Opd(ld_so_ifunc(ld_so_addend(a, q) + (b - q.base))), 0)
  BY DEF ld_so_relocate, Word, Slot, DtpMod, mips_DtpMod

(* The same of the local words of the MIPS GOT.                            *)
LEMMA RelocateGot ==
  ASSUME NEW a, NEW q, NEW b, NEW d, q.type = "GOT_L"
  PROVE  ld_so_relocate(a, q, b, d) = Word(ld_width(a, q), q.mem.val + (b - q.base), 0)
  BY DEF ld_so_relocate, Word, Slot, DtpMod, mips_DtpMod

(* The same of a TLS descriptor of arm.                                    *)
LEMMA RelocateDesc ==
  ASSUME NEW a, NEW q, NEW b, NEW d, q.type = "TLS_DESC"
  PROVE  ld_so_relocate(a, q, b, d) = Word(ld_width(a, q), arm_tlsdesc_plt(ld_so_mapped(q, b)), 0)
  BY DEF ld_so_relocate, Word, Slot, DtpMod, mips_DtpMod

(* The same of one that is bound at once.                                  *)
LEMMA RelocateDescNow ==
  ASSUME NEW a, NEW q, NEW b, NEW d, q.type = "TLS_DESC_NOW"
  PROVE  ld_so_relocate(a, q, b, d)
           = Word(ld_width(a, q), At(q, b, d) + ld_so_addend(a, q) + Block(d).offset, 0)
  BY DEF ld_so_relocate, Word, Slot, DtpMod, mips_DtpMod, At

(* The same of a TLS module.                                               *)
LEMMA RelocateMod ==
  ASSUME NEW a, NEW q, NEW b, NEW d, q.type \in DtpMod
  PROVE  ld_so_relocate(a, q, b, d) = Word(ld_width(a, q), Block(d).modid, 0)
  BY DEF ld_so_relocate, Word, Slot, DtpMod, mips_DtpMod

(* The same of a PLT entry that is code.                                   *)
LEMMA RelocateCode ==
  ASSUME NEW a, NEW q, NEW b, NEW d, q.type \in Slot, q.code # NoCode, a = "sparc64" =>
             q.addend = 0, a # "ppc64"
  PROVE  ld_so_relocate(a, q, b, d)
           = IF a = "alpha"
             THEN Word(ld_width(a, q), At(q, b, d) + ld_so_addend(a, q), At(q, b, d) + ld_so_addend(a, q))
             ELSE Word(q.mem.width, q.mem.val, At(q, b, d) + ld_so_addend(a, q))
  BY DEF ld_so_relocate, Word, Slot, DtpMod, mips_DtpMod, At

(* The same of the other PLT slots.                                        *)
LEMMA RelocateSlot ==
  ASSUME NEW a, NEW q, NEW b, NEW d, q.type \in Slot, q.code = NoCode
  PROVE  /\ a = "sparc64" /\ q.addend # 0 =>
              ld_so_relocate(a, q, b, d) = Word(ld_width(a, q), (At(q, b, d) + ld_so_addend(a, q)) - (b - q.base), 0)
         /\ a = "ppc64" => ld_so_relocate(a, q, b, d) = Word(ld_width(a, q), Opd(At(q, b, d) + ld_so_addend(a, q)), 0)
         /\ a \notin {"ppc64", "sparc64"} =>
              ld_so_relocate(a, q, b, d)
                = Word(ld_width(a, q),
                       ld_so_insert(q.type, q.mem.val,
                               ld_so_operand(a, ld_so_mapped(q, b), At(q, b, d) + ld_so_addend(a, q), d)), 0)
  BY DEF ld_so_relocate, Word, Slot, DtpMod, mips_DtpMod, At

(* The object, when ld.so has mapped it.                                   *)
LEMMA MappedFacts ==
  ASSUME NEW q \in Relocs, NEW b \in Nat
  PROVE  /\ ld_so_mapped(q, b).type = q.type /\ ld_so_mapped(q, b).base = b
              /\ ld_so_mapped(q, b).off = q.off
         /\ ld_so_mapped(q, b).class = q.class
  BY DEF ld_so_mapped, Relocs

(* Who may define a symbol.                                                *)
Somebody == {"local", "none", "self", "selfi", "other", "otheri", "exe"}

(* What a symbol is depends on where the object is, and on whether it is a *)
(* TLS symbol.                                                             *)
LEMMA SymbolSame ==
  ASSUME NEW q \in Relocs, NEW o \in Relocs, q.type \in Tls <=> o.type \in Tls, NEW b \in Nat,
             NEW d \in Somebody,
         o.type \in Tls => d \in {"local", "self", "other", "exe"}
  PROVE  At(q, b, d) = At(o, b, d) /\ At(q, b, d) \in Int
<1> DEFINE m == ld_so_mapped(q, b)
           n == ld_so_mapped(o, b)
<1>1. m.type = q.type /\ n.type = o.type /\ m.base = b /\ n.base = b
  BY MappedFacts
<1> HIDE DEF m, n
<1>2. Value(m, d) = Value(n, d)
  BY <1>1 DEF Value
<1>3. Value(m, d) \in Int
  <2>1. CASE q.type \in Tls
    BY <1>1, <2>1 DEF Value, TlsAddress
  <2>2. CASE q.type \notin Tls
    BY <1>1, <2>2 DEF Value, Address, Somebody
  <2> QED BY <2>1, <2>2
<1>4. ld_so_symbol(m, d) = ld_so_symbol(n, d) /\ ld_so_symbol(m, d) \in Int
  BY <1>2, <1>3 DEF ld_so_symbol, ld_so_ifunc
<1> QED BY <1>4 DEF m, n, At

(* So does what goes into the word.                                        *)
LEMMA OperandSame ==
  ASSUME NEW a, NEW q \in Relocs, NEW o \in Relocs, Placed(q, o), NEW b \in Nat,
             NEW d \in Somebody, NEW s \in Int,
         q.type = o.type
           \/ (q.type \notin PcRel(a) \union DtpOff \union TpOff /\ o.type \notin PcRel(a) \union DtpOff \union TpOff)
  PROVE  /\ ld_so_operand(a, ld_so_mapped(q, b), s, d) = ld_so_operand(a, ld_so_mapped(o, b), s, d)
         /\ ld_so_operand(a, ld_so_mapped(q, b), s, d) \in Int
<1> DEFINE m == ld_so_mapped(q, b)
           n == ld_so_mapped(o, b)
<1>1. m.type = q.type /\ n.type = o.type /\ m.base = b /\ n.base = b /\ m.off = q.off
        /\ n.off = o.off
  BY MappedFacts
<1>2. q.off = o.off /\ q.off \in Nat
  BY TypedFacts DEF Placed, Typed
<1>3. P(m) = P(n) /\ P(m) \in Int
  BY <1>1, <1>2 DEF P
<1>4. Block(d).offset \in Int
  BY DEF Block, Somebody
<1>5. q.type = o.type =>
        ld_so_tpoff(a, m, s, Block(d).offset) = ld_so_tpoff(a, n, s, Block(d).offset)
  BY <1>1 DEF ld_so_tpoff
<1>6. ld_so_tpoff(a, m, s, Block(d).offset) \in Int
  BY <1>4 DEF ld_so_tpoff
<1> HIDE DEF m, n
<1>7. DtpOff \intersect TpOff = {} /\ PcRel(a) \intersect (DtpOff \union TpOff) = {}
  BY DEF DtpOff, TpOff, PcRel, Dbl, s390_Dbl, s390_Dbl16, ppc_TpRel, ppc_TpRel16, mips_TpRel,
     ppc_DtpRel, ppc_DtpRel16, mips_DtpRel
<1>8. ld_so_operand(a, m, s, d) = ld_so_operand(a, n, s, d)
  <2>1. CASE q.type = o.type
    BY <1>1, <1>3, <1>5, <1>7, <2>1 DEF ld_so_operand
  <2>2. CASE q.type # o.type
    BY <1>1, <1>7, <2>2 DEF ld_so_operand
  <2> QED BY <2>1, <2>2
<1>9. ld_so_operand(a, m, s, d) \in Int
  BY <1>1, <1>3, <1>6, <1>7 DEF ld_so_operand
<1> QED BY <1>8, <1>9 DEF m, n

(* What the RELA architectures have no relocations for.                    *)
LEMMA BranchTypes ==
  ASSUME NEW a \in RelaArchs, NEW o, LdType(a, o)
  PROVE  o.type \notin {"PC24", "GOT_L", "GOT_E", "TLS_DESC", "TLS_DESC_NOW", "ABS32"}
<1>1. {"PC24", "GOT_L", "GOT_E", "TLS_DESC", "TLS_DESC_NOW", "ABS32"} \intersect ld_types(a) = {}
  <2>1. CASE a \in X86Like \union {"sh"}
    BY <2>1 DEF X86Like, ld_types, X86_64, Ppc, Mips, s390_Half, s390_Dbl, s390_Dbl16, s390_Tls
  <2>2. CASE a \in {"alpha", "sparc", "sparc64"}
    BY <2>2 DEF ld_types, X86_64, Ppc, Mips, alpha_Tls, sparc_Tls, sparc64_Tls, sparc64_Insns
  <2>3. CASE a \in Ppc
    BY <2>3 DEF ld_types, X86_64, Ppc, Mips, ppc_Word, ppc_Half, ppc_Low, Predicted,
       ppc_Predicted, ppc_DtpRel, ppc_DtpRel16, ppc_TpRel, ppc_TpRel16
  <2>4. CASE a = "ppc64"
    BY <2>4 DEF ld_types, X86_64, Ppc, Mips, ppc64_Word, ppc_Half, ppc_Low, ppc64_Ds,
       ppc64_Higher, Predicted, ppc_Predicted, ppc64_DtpRel, ppc64_TpRel, ppc_DtpRel16,
       ppc_TpRel16
  <2> QED BY <2>1, <2>2, <2>3, <2>4, ArchCases
<1> QED BY <1>1 DEF LdType, ld_exec_types

(* ld.so makes of a word of a RELA architecture what it would make of the  *)
(* original.                                                               *)
LEMMA SameWordA ==
  ASSUME NEW a \in RelaArchs, NEW q, NEW o, KinA(a, q, o), FormA(a, o), q.type \notin ppc64_Ds,
             q.type \notin Special,
         NEW b \in Nat, NEW d \in Somebody, o.type \in Tls =>
               d \in {"local", "self", "other", "exe"}
  PROVE  ld_so_relocate(a, q, b, d) = ld_so_relocate(a, o, b, d)
<1>0. a \in Names \ RelArchs
  BY ArchCases
<1>1. KinA(a, o, o)
  BY <1>0, FormKin
<1>2. /\ q \in Relocs /\ o \in Relocs /\ Placed(q, o) /\ q.type = o.type
      /\ q.type \notin Addr \union Slot => q.addend = o.addend
  BY DEF KinA
<1>2a. q.class = o.class /\ q.mem.val \in Int /\ o.mem.val \in Int /\ q.addend \in Int
  BY <1>2, TypedFacts DEF Placed, Typed
<1>2b. q.rela /\ o.rela
  BY KinFacts DEF FormA
<1>3. q.type \notin Addr \union Slot
  BY DEF Special, Addr
<1>4. ld_so_addend(a, q) = q.addend /\ ld_so_addend(a, o) = o.addend
  BY <1>2b DEF ld_so_addend
<1>5. ld_width(a, q) = ld_width(a, o)
  BY <1>2, <1>2a, LdWidthSame
<1>6. Interchangeable(q.type, q.mem.val, o.mem.val)
  <2>1. q.type # "PC24"
    BY <1>2, BranchTypes DEF FormA
  <2> QED BY <1>1, <1>2, <2>1 DEF KinA, Interchangeable
<1> DEFINE s == At(q, b, d) + q.addend
           x == ld_so_operand(a, ld_so_mapped(q, b), s, d)
<1>7. At(q, b, d) = At(o, b, d) /\ At(q, b, d) \in Int
  BY <1>2, SymbolSame
<1>8. s \in Int
  BY <1>2a, <1>7
<1>9. ld_so_relocate(a, q, b, d) = Word(ld_width(a, q), ld_so_insert(q.type, q.mem.val, x), 0)
  BY <1>4, RelocateOther
<1>10. At(o, b, d) + ld_so_addend(a, o) = s /\ o.type \notin Special
  BY <1>2, <1>3, <1>4, <1>7
<1>11. ld_so_relocate(a, o, b, d)
         = Word(ld_width(a, o), ld_so_insert(o.type, o.mem.val, ld_so_operand(a, ld_so_mapped(o, b), s, d)), 0)
  BY <1>10, RelocateOther
<1> HIDE DEF s
<1>12. x = ld_so_operand(a, ld_so_mapped(o, b), s, d) /\ x \in Int
  BY <1>2, <1>8, OperandSame
<1> HIDE DEF x
<1>13. ld_so_insert(q.type, q.mem.val, x) = ld_so_insert(q.type, o.mem.val, x)
  BY <1>2a, <1>6, <1>12, InsertSame
<1> QED BY <1>2, <1>5, <1>9, <1>11, <1>12, <1>13

(* PLT slots are neither instructions nor TLS.                             *)
LEMMA SlotTypes ==
  ASSUME NEW q, q.type \in Slot
  PROVE  q.type \notin Tls \union Addr \union Insns \union Halves \union ppc64_Ds
           \union {"PC24"}
  BY DEF Slot, Tls, TpOff, DtpOff, DtpMod, ppc_TpRel, ppc_TpRel16, mips_TpRel, ppc_DtpRel,
     ppc_DtpRel16, mips_DtpRel, mips_DtpMod, Addr, Insns, ppc_Predicted, sparc64_Insns, Halves,
     ppc_Half, ppc_Low, ppc64_Ds

(* The same of the PLT.                                                    *)
LEMMA SameSlotA ==
  ASSUME NEW a \in RelaArchs, NEW q, NEW o, KinA(a, q, o), FormA(a, o), q.type \in Slot,
             a = "alpha" => q.addend = o.addend,
         NEW b \in Nat, NEW d \in Somebody
  PROVE  ld_so_relocate(a, q, b, d) = ld_so_relocate(a, o, b, d)
<1>2. /\ q \in Relocs /\ o \in Relocs /\ Placed(q, o) /\ q.type = o.type /\ SlotKin(a, q, o)
           /\ SlotKin(a, o, o)
  <2>1. KinA(a, o, o)
    BY FormKin, ArchCases
  <2> QED BY <2>1 DEF KinA
<1>2a. /\ q.class = o.class /\ q.mem.val \in Int /\ o.mem.val \in Int /\ q.addend \in Int
            /\ o.addend \in Int /\ q.base \in Nat
       /\ q.slot = o.slot /\ q.slot \in Nat /\ o.base \in Nat
  BY <1>2, TypedFacts DEF Placed, Typed
<1>2b0. q \in Relocs /\ o \in Relocs /\ Placed(q, o) /\ q.type = o.type
  BY <1>2
<1>2b. q.rela /\ o.rela
  BY KinFacts DEF FormA
<1>4. ld_so_addend(a, q) = q.addend /\ ld_so_addend(a, o) = o.addend
  BY <1>2b DEF ld_so_addend
<1>5. ld_width(a, q) = ld_width(a, o)
  BY <1>2, <1>2a, LdWidthSame
<1>6. q.type \notin Tls /\ Interchangeable(q.type, q.mem.val, o.mem.val)
  BY SlotTypes DEF Interchangeable
<1>7. At(q, b, d) = At(o, b, d) /\ At(q, b, d) \in Int
  BY <1>2, <1>6, SymbolSame
<1>8. o.code = LdCode(a, o) /\ NoCode # Lazy
  BY DEF FormA, NoCode, Lazy
<1>9. (q.code = NoCode) <=> (o.code = NoCode)
  BY <1>2 DEF SlotKin
<1>10. CASE a = "sparc64" /\ o.addend # 0
  <2>1. q.addend = - sparc64_far(q) /\ o.addend = - sparc64_far(o)
    BY <1>2, <1>10 DEF SlotKin
  <2>2. sparc64_far(q) \in Int /\ sparc64_far(q) # 0
          /\ sparc64_far(q) - q.base = sparc64_far(o) - o.base
        /\ sparc64_far(o) \in Int
    BY <1>2a DEF sparc64_far, Plt, PltOffset
  <2>3. q.addend # 0
    BY <2>1, <2>2
  <2>4. o.code = NoCode
    BY <1>8, <1>10 DEF LdCode
  <2> DEFINE s == At(q, b, d)
  <2>5. s \in Int /\ s = At(o, b, d)
    BY <1>7
  <2>6. ld_so_relocate(a, q, b, d) = Word(ld_width(a, q), (s + q.addend) - (b - q.base), 0)
    BY <1>4, <1>9, <1>10, <2>3, <2>4, RelocateSlot
  <2>7. ld_so_relocate(a, o, b, d) = Word(ld_width(a, o), (s + o.addend) - (b - o.base), 0)
    BY <1>2, <1>4, <1>10, <2>4, <2>5, RelocateSlot
  <2> HIDE DEF s
  <2>8. (s + q.addend) - (b - q.base) = (s + o.addend) - (b - o.base)
    BY <1>2a, <2>1, <2>2, <2>5
  <2> QED BY <1>5, <2>6, <2>7, <2>8
<1>11. CASE ~ (a = "sparc64" /\ o.addend # 0)
  <2>1. q.addend = o.addend
    BY <1>2, <1>11 DEF SlotKin
  <2>2. CASE o.code # NoCode
    <3>1. a # "ppc64"
      BY <1>8, <2>2 DEF LdCode
    <3>2. a # "alpha" => q.mem = o.mem
      <4>1. a \in {"ppc_bss", "sparc", "alpha", "sparc64"}
        BY <1>8, <2>2 DEF LdCode
      <4> QED BY <1>2, <1>11, <4>1 DEF SlotKin
    <3>3. a = "sparc64" => q.addend = 0 /\ o.addend = 0
      BY <1>11, <2>1
    <3> DEFINE s == At(q, b, d) + q.addend
    <3>4. s = At(o, b, d) + o.addend
      BY <1>7, <2>1
    <3>5. q.code # NoCode
      BY <1>9, <2>2
    <3>6. ld_so_relocate(a, q, b, d) = IF a = "alpha" THEN Word(ld_width(a, q), s, s)
            ELSE Word(q.mem.width, q.mem.val, s)
      BY <1>4, <3>1, <3>3, <3>5, RelocateCode
    <3>7. ld_so_relocate(a, o, b, d) = IF a = "alpha" THEN Word(ld_width(a, o), s, s)
            ELSE Word(o.mem.width, o.mem.val, s)
      BY <1>2, <1>4, <2>2, <3>1, <3>3, <3>4, RelocateCode
    <3> QED BY <1>5, <3>2, <3>6, <3>7
  <2>3. CASE o.code = NoCode
    <3>1. q.code = NoCode
      BY <1>9, <2>3
    <3>2. a # "sparc64"
      BY <1>2, <1>8, <1>11, <2>3 DEF LdCode
    <3> DEFINE s == At(q, b, d) + q.addend
    <3>3. s = At(o, b, d) + o.addend /\ s \in Int
      BY <1>2a, <1>7, <2>1
    <3>3a. s \in Int
      BY <3>3
    <3>4. CASE a = "ppc64"
      <4>1. ld_so_relocate(a, q, b, d) = Word(ld_width(a, q), Opd(s), 0)
        BY <1>4, <3>1, <3>4, RelocateSlot
      <4>2. ld_so_relocate(a, o, b, d) = Word(ld_width(a, o), Opd(s), 0)
        BY <1>2, <1>4, <2>3, <3>3, <3>4, RelocateSlot
      <4> QED BY <1>5, <4>1, <4>2
    <3>5. CASE a # "ppc64"
      <4> DEFINE x == ld_so_operand(a, ld_so_mapped(q, b), s, d)
      <4>1. ld_so_relocate(a, q, b, d) = Word(ld_width(a, q), ld_so_insert(q.type, q.mem.val, x), 0)
        BY <1>4, <3>1, <3>2, <3>5, RelocateSlot
      <4>2. ld_so_relocate(a, o, b, d)
              = Word(ld_width(a, o), ld_so_insert(o.type, o.mem.val, ld_so_operand(a, ld_so_mapped(o, b), s, d)), 0)
        BY <1>2, <1>4, <2>3, <3>2, <3>3, <3>5, RelocateSlot
      <4> HIDE DEF s
      <4>3. x = ld_so_operand(a, ld_so_mapped(o, b), s, d) /\ x \in Int
        BY <1>2b0, <3>3a, OperandSame
      <4> HIDE DEF x
      <4>4. ld_so_insert(q.type, q.mem.val, x) = ld_so_insert(q.type, o.mem.val, x)
        BY <1>2a, <1>6, <4>3, InsertSame
      <4> QED BY <1>2, <1>5, <4>1, <4>2, <4>3, <4>4
    <3> QED BY <3>4, <3>5
  <2> QED BY <2>2, <2>3
<1> QED BY <1>10, <1>11

(* The same of what has no symbol, and of the modules of TLS.              *)
LEMMA SameSpecialA ==
  ASSUME NEW a \in RelaArchs, NEW q, NEW o, KinA(a, q, o), FormA(a, o),
             q.type \in Special \ Slot, NEW b \in Nat, NEW d
  PROVE  ld_so_relocate(a, q, b, d) = ld_so_relocate(a, o, b, d)
<1>1. /\ q \in Relocs /\ o \in Relocs /\ Placed(q, o) /\ q.type = o.type /\ LdType(a, o)
      /\ q.type \in Addr => AddrKin(a, q, o) /\ AddrKin(a, o, o)
      /\ q.type \in Still => q.mem = o.mem
  <2>1. KinA(a, o, o)
    BY FormKin, ArchCases
  <2> QED BY <2>1 DEF KinA, FormA
<1>2. /\ q.class = o.class /\ q.mem.val \in Int /\ o.mem.val \in Int /\ q.addend \in Int
           /\ o.addend \in Int
      /\ q.base \in Nat /\ o.base \in Nat
  BY <1>1, TypedFacts DEF Placed, Typed
<1>3. q.rela /\ o.rela
  BY KinFacts DEF FormA
<1>4. ld_so_addend(a, q) = q.addend /\ ld_so_addend(a, o) = o.addend
  BY <1>3 DEF ld_so_addend
<1>5. ld_width(a, q) = ld_width(a, o)
  BY <1>1, <1>2, LdWidthSame
<1>6. CASE q.type \in {"NONE", "COPY"}
  <2>1. q.mem = o.mem
    BY <1>1, <1>6 DEF Still
  <2> QED BY <1>1, <1>6, <2>1, RelocateStill
<1>7. CASE q.type = "RELATIVE"
  <2> DEFINE C(z) == CASE a = "sparc" -> z.mem.val + z.addend
                       [] a = "alpha" \/ (a = "sh" /\ z.addend = 0) -> z.mem.val
                       [] OTHER -> ld_so_addend(a, z)
  <2>1. C(q) = Target(q)
    BY <1>1, <1>2, <1>4, <1>7 DEF AddrKin, Addr, InWord, Target
  <2>2. C(o) = Target(o)
    BY <1>1, <1>2, <1>4, <1>7 DEF AddrKin, Addr, InWord, Target
  <2>3. (b - q.base) + Target(q) = (b - o.base) + Target(o)
    BY <1>2 DEF Target
  <2>4. /\ ld_so_relocate(a, q, b, d) = Word(ld_width(a, q), (b - q.base) + C(q), 0)
        /\ ld_so_relocate(a, o, b, d) = Word(ld_width(a, o), (b - o.base) + C(o), 0)
    BY <1>1, <1>7, RelocateRelative
  <2> QED BY <1>5, <2>1, <2>2, <2>3, <2>4
<1>8. ASSUME q.type \in {"IRELATIVE", "JMP_IREL"}
             PROVE q.addend + (b - q.base) = o.addend + (b - o.base)
  <2>1. a \notin {"sh", "sparc"}
    BY <1>1, <1>8, AddrTypes, IRelativeTypes, ArchCases DEF X86Like, X86_64, Ppc
  <2>2. q.addend = Target(q) /\ o.addend = Target(o)
    BY <1>1, <1>8, <2>1 DEF AddrKin, Addr
  <2> QED BY <1>2, <2>2 DEF Target
<1>9. CASE q.type = "IRELATIVE"
  BY <1>1, <1>4, <1>5, <1>8, <1>9, RelocateIRelative
<1>10. CASE q.type = "JMP_IREL"
  BY <1>1, <1>4, <1>5, <1>8, <1>10, RelocateJmpIRel
<1>11. CASE q.type \in DtpMod
  BY <1>1, <1>5, <1>11, RelocateMod
<1>12. q.type \notin {"GOT_L", "TLS_DESC", "TLS_DESC_NOW"}
  BY <1>1, BranchTypes
<1> QED BY <1>6, <1>7, <1>9, <1>10, <1>11, <1>12 DEF Special

(* What the REL architectures have no relocations for.                     *)
LEMMA RelKinds ==
  ASSUME NEW a \in RelArchs, NEW o, LdType(a, o)
  PROVE  /\ o.type \notin Insns \union Halves \union ppc64_Ds \union {"JMP_IREL"}
         /\ o.type \in Plain32 => o.type \notin PcRel(a) \union DtpOff \union TpOff
<1> DEFINE Kinds == {"NONE", "RELATIVE", "COPY", "IRELATIVE", "GLOB_DAT", "JMP_SLOT",
                     "JUMP_SLOT", "32", "ABS32", "REL32", "PC24", "TLS_DESC", "TLS_DESC_NOW", "PC32",
                     "TLS_DTPMOD32", "TLS_DTPOFF32", "TLS_TPOFF32", "TLS_TPOFF", "TLS_DTPMOD64",
                     "TLS_DTPREL32", "TLS_DTPREL64", "TLS_TPREL32", "TLS_TPREL64", "GOT_A",
                     "GOT_B", "GOT_D", "GOT_E", "GOT_F", "GOT_L"}
<1>1. o.type \in Kinds /\ (a \notin Mips => o.type # "REL32")
  BY RelTypes DEF RelArchs, Mips
<1>2. o.type \notin Insns \union Halves \union ppc64_Ds \union {"JMP_IREL"}
  BY <1>1 DEF Insns, ppc_Predicted, sparc64_Insns, Halves, ppc_Half, ppc_Low, ppc_DtpRel16,
     ppc_TpRel16, ppc64_Ds
<1>3. ASSUME o.type \in Plain32 PROVE o.type \notin PcRel(a) \union DtpOff \union TpOff
  <2>1. o.type \notin DtpOff \union TpOff
    BY <1>3, Plain32NotTls DEF Tls
  <2>2. o.type \notin PcRel(a)
    BY <1>1, <1>3 DEF Plain32, PcRel, Dbl, s390_Dbl, s390_Dbl16
  <2> QED BY <2>1, <2>2
<1> QED BY <1>2, <1>3

(* An address goes into a word as it is.                                   *)
LEMMA PlainInsert ==
  ASSUME NEW t \in Plain32 \union {"GLOB_DAT"}, NEW w, NEW x \in Int
  PROVE  ld_so_insert(t, w, x) = x
<1>1. t \notin Predicted \union ppc64_Higher \union Dbl \union ppc64_Ds \union SparcInsns
        \union ppc_Low
  BY DEF Plain32, SparcInsns, sparc64_Insns, Predicted, ppc_Predicted, ppc64_Higher, Dbl,
     s390_Dbl, s390_Dbl16, ppc64_Ds, ppc_Low
<1>2. ld_so_field(t) = Bits(0, 1, 0, 0)
  BY <1>1 DEF ld_so_field, Plain32, SparcInsns, sparc64_Insns
<1>3. ld_so_insert(t, w, x) = (x + 0) \div 1
  BY <1>1, <1>2 DEF ld_so_insert, Bits, SparcInsns, sparc64_Insns
<1> QED BY <1>3

(* Where the addend of a REL relocation is not in the word.                *)
NoAddend(a) ==
  {"GLOB_DAT", "TLS_DESC", "TLS_DESC_NOW"} \union Slot \union DtpMod \union mips_Global
    \union (IF a = "i386" THEN {"TLS_DTPOFF32"} ELSE {})

(* The addend that ld.so reads of a REL relocation.                        *)
LEMMA RelAddend ==
  ASSUME NEW a, NEW q, ~ q.rela
  PROVE  /\ q.type = "PC24" => ld_so_addend(a, q) = arm_pc24_addend(q.mem.val)
         /\ q.type \in NoAddend(a) => ld_so_addend(a, q) = 0
         /\ q.type \notin NoAddend(a) \union {"PC24"} => ld_so_addend(a, q) = q.mem.val
<1>1. "PC24" \notin NoAddend(a)
  BY DEF NoAddend, Slot, DtpMod, mips_DtpMod, mips_Global, mips_Undefined, mips_Defined
<1>2. q.type = "PC24" => ld_so_addend(a, q) = arm_pc24_addend(q.mem.val)
  BY <1>1 DEF ld_so_addend, NoAddend
<1>3. q.type \in NoAddend(a) => ld_so_addend(a, q) = 0
  BY <1>1 DEF ld_so_addend, NoAddend
<1>4. q.type \notin NoAddend(a) \union {"PC24"} => ld_so_addend(a, q) = q.mem.val
  BY DEF ld_so_addend, NoAddend
<1> QED BY <1>2, <1>3, <1>4

(* It is that of the original, in the word or, once the section is RELA,   *)
(* in the addend.                                                          *)
LEMMA AddendSameR ==
  ASSUME NEW a \in RelArchs, NEW q, NEW o, KinR(a, q, o), FormR(a, o), q.type \notin AddrR
  PROVE  ld_so_addend(a, q) = ld_so_addend(a, o)
<1>1. ~ o.rela /\ SameR(q, o) /\ LdWord(a, o)
  BY DEF KinR, FormR
<1>2. CASE q.rela
  <2>1. RelaKin(a, q, o) /\ q.type = o.type
    BY <1>1, <1>2 DEF KinR, SameR
  <2>2. ld_so_addend(a, q) = q.addend
    BY <1>2 DEF ld_so_addend
  <2>3. q.type \in NoAddend(a) => o.mem.val = 0
    BY <1>1, <2>1 DEF NoAddend, LdWord, ZeroR, RelaKin, Exempt, mips_Got
  <2>4. "PC24" \notin NoAddend(a)
    BY DEF NoAddend, Slot, DtpMod, mips_DtpMod, mips_Global, mips_Undefined, mips_Defined
  <2> QED BY <1>1, <2>1, <2>2, <2>3, <2>4, RelAddend DEF RelaKin
<1>3. CASE ~ q.rela /\ q.type = o.type
  <2>1. RelKin(a, q, o)
    BY <1>3 DEF KinR
  <2>2. q.type \in FreeR(a) \union {"GOT_E", "GOT_F"} => q.type \in NoAddend(a)
    BY DEF FreeR, NoAddend, mips_Global, mips_Defined, mips_Undefined
  <2>3. q.type \notin NoAddend(a) => q.mem.val = o.mem.val
    BY <2>1, <2>2 DEF RelKin
  <2>4. "PC24" \notin NoAddend(a)
    BY DEF NoAddend, Slot, DtpMod, mips_DtpMod, mips_Global, mips_Undefined, mips_Defined
  <2>5. CASE q.type \in NoAddend(a)
    BY <1>1, <1>3, <2>5, RelAddend
  <2>6. CASE q.type \notin NoAddend(a)
    BY <1>1, <1>3, <2>3, <2>6, RelAddend
  <2> QED BY <2>5, <2>6
<1>4. CASE q.type # o.type
  <2>1. q.type = "GLOB_DAT" /\ o.type \in Plain32 /\ o.mem.val = 0 /\ ~ q.rela
    BY <1>1, <1>4 DEF SameR
  <2>2. q.type \in NoAddend(a) /\ o.type \notin NoAddend(a) \union {"PC24"}
    BY <2>1 DEF NoAddend, Plain32, Slot, DtpMod, mips_DtpMod, mips_Global, mips_Undefined,
       mips_Defined
  <2> QED BY <1>1, <2>1, <2>2, RelAddend
<1> QED BY <1>2, <1>3, <1>4

(* ld.so makes of a word of a REL architecture what it would make of the   *)
(* original.                                                               *)
LEMMA SameWordR ==
  ASSUME NEW a \in RelArchs, NEW q, NEW o, KinR(a, q, o), FormR(a, o),
             q.type \notin Special \ Slot, o.type \notin Special \ Slot,
         NEW b \in Nat, NEW d \in Somebody, o.type \in Tls =>
               d \in {"local", "self", "other", "exe"}
  PROVE  ld_so_relocate(a, q, b, d) = ld_so_relocate(a, o, b, d)
<1>1. q \in Relocs /\ o \in Relocs /\ Placed(q, o) /\ q.code = NoCode /\ o.code = NoCode
        /\ LdType(a, o)
  BY DEF KinR, FormR
<1>2. q.type = o.type \/ (q.type = "GLOB_DAT" /\ o.type \in Plain32 /\ q.type # o.type)
  BY DEF KinR, SameR
<1>3. q.mem.val \in Int /\ o.mem.val \in Int /\ q.class = o.class /\ o.class = ld_class(a)
  <2>1. o.class = ld_class(a)
    BY DEF FormR
  <2> QED BY <2>1, KinRFacts
<1>4. ld_width(a, q) = ld_width(a, o)
  <2>1. CASE q.type = o.type
    BY <1>3, <2>1, LdWidthSame
  <2>2. CASE q.type = "GLOB_DAT"
    <3>1. ld_width(a, q) = q.class
      BY <2>2 DEF ld_width, s390_Half, ppc_Half, ppc_Low, ppc_DtpRel16, ppc_TpRel16, ppc64_Ds,
         ppc64_Higher, s390_Dbl16, Slot
    <3>2. ld_width(a, o) = o.class
      BY <1>1, <1>3, RelWidth
    <3> QED BY <1>3, <3>1, <3>2
  <2> QED BY <1>2, <2>1, <2>2
<1>5. q.type \notin AddrR /\ q.type \notin {"JMP_IREL"}
  BY DEF AddrR, Special, Slot
<1>6. ld_so_addend(a, q) = ld_so_addend(a, o) /\ ld_so_addend(a, o) \in Int
  <2>1. ld_so_addend(a, q) = ld_so_addend(a, o)
    BY <1>5, AddendSameR
  <2>2. ~ o.rela
    BY DEF FormR
  <2>3. ld_so_addend(a, o) \in {arm_pc24_addend(o.mem.val), 0, o.mem.val}
    BY <2>2, RelAddend
  <2>4. arm_pc24_addend(o.mem.val) \in Int
    BY <1>3, BranchInt
  <2> QED BY <1>3, <2>1, <2>3, <2>4
<1>7. q.type \in Tls <=> o.type \in Tls
  BY <1>2, Plain32NotTls
<1>8. At(q, b, d) = At(o, b, d) /\ At(q, b, d) \in Int
  BY <1>1, <1>7, SymbolSame
<1> DEFINE s == At(q, b, d) + ld_so_addend(a, q)
           x == ld_so_operand(a, ld_so_mapped(q, b), s, d)
           y == ld_so_operand(a, ld_so_mapped(o, b), s, d)
<1>9. s \in Int
  BY <1>6, <1>8
<1>10. a \notin {"ppc64", "sparc64"}
  BY DEF RelArchs, Mips
<1>11. ld_so_relocate(a, q, b, d) = Word(ld_width(a, q), ld_so_insert(q.type, q.mem.val, x), 0)
  BY <1>1, <1>10, RelocateOther, RelocateSlot
<1>12. At(o, b, d) + ld_so_addend(a, o) = s
  BY <1>6, <1>8
<1>13. ld_so_relocate(a, o, b, d) = Word(ld_width(a, o), ld_so_insert(o.type, o.mem.val, y), 0)
  BY <1>1, <1>10, <1>12, RelocateOther, RelocateSlot
<1> HIDE DEF s
<1>14. x = y /\ x \in Int
  <2>1. q.type = o.type
          \/ (q.type \notin PcRel(a) \union DtpOff \union TpOff /\ o.type \notin PcRel(a) \union DtpOff \union TpOff)
    <3>1. "GLOB_DAT" \notin PcRel(a) \union DtpOff \union TpOff
      BY Plain32NotTls DEF PcRel, Dbl, s390_Dbl, s390_Dbl16, Tls
    <3> QED BY <1>1, <1>2, <3>1, RelKinds
  <2>2. q \in Relocs /\ o \in Relocs /\ Placed(q, o)
    BY <1>1
  <2> QED BY <1>9, <2>1, <2>2, OperandSame
<1> HIDE DEF x, y
<1>15. ld_so_insert(q.type, q.mem.val, x) = ld_so_insert(o.type, o.mem.val, x)
  <2>1. CASE q.type = o.type
    <3>1. q.type = "PC24" => Branch(q.mem.val) /\ Branch(o.mem.val)
      <4>1. q.type = "PC24" => Branch(o.mem.val)
        BY <2>1 DEF FormR, LdWord
      <4>2. q.type = "PC24" /\ ~ q.rela => q.mem = o.mem
        BY DEF KinR, RelKin, AddrR, FreeR, Slot
      <4>3. q.type = "PC24" /\ q.rela => Branch(q.mem.val)
        BY DEF KinR, RelaKin
      <4> QED BY <4>1, <4>2, <4>3
    <3>2. Interchangeable(q.type, q.mem.val, o.mem.val)
      BY <1>1, <2>1, <3>1, RelKinds DEF Interchangeable
    <3> QED BY <1>3, <1>14, <2>1, <3>2, InsertSame
  <2>2. CASE q.type # o.type
    BY <1>2, <1>14, <2>2, PlainInsert
  <2> QED BY <2>1, <2>2
<1> QED BY <1>4, <1>11, <1>13, <1>14, <1>15

(* The same of what has no symbol, and of the modules and descriptors of   *)
(* TLS.                                                                    *)
LEMMA SameSpecialR ==
  ASSUME NEW a \in RelArchs, NEW q, NEW o, KinR(a, q, o), FormR(a, o),
             q.type \in Special \ Slot, NEW b \in Nat, NEW d
  PROVE  ld_so_relocate(a, q, b, d) = ld_so_relocate(a, o, b, d)
<1>1. q \in Relocs /\ o \in Relocs /\ Placed(q, o) /\ LdType(a, o) /\ ~ o.rela /\ LdWord(a, o)
  BY DEF KinR, FormR
<1>2. q.type = o.type
  BY DEF KinR, SameR, Special, DtpMod, mips_DtpMod
<1>3. /\ q.mem.val \in Int /\ o.mem.val \in Int /\ q.class = o.class /\ q.addend \in Int
      /\ q.base \in Nat /\ o.base \in Nat
  BY <1>1, TypedFacts DEF Placed, Typed
<1>4. ld_width(a, q) = ld_width(a, o)
  BY <1>2, <1>3, LdWidthSame
<1>5. CASE q.type \in {"NONE", "COPY"}
  <2>1. q.mem = o.mem
    <3>1. q.type \notin AddrR \union {"GOT_E", "GOT_F"} \union FreeR(a) /\ q.type \in Still
      BY <1>5 DEF AddrR, FreeR, Slot, Still
    <3> QED BY <3>1 DEF KinR, RelKin, RelaKin
  <2> QED BY <1>2, <1>5, <2>1, RelocateStill
<1>6. ASSUME q.type \in AddrR PROVE /\ ~ q.rela => q.mem.val = Target(q)
                                    /\ q.rela => q.addend = Target(q)
                                    /\ o.mem.val = Target(o)
                                    /\ (b - q.base) + Target(q) = (b - o.base) + Target(o)
  <2>1. ~ q.rela => q.mem.val = Target(q)
    BY <1>6 DEF KinR, RelKin
  <2>2. q.rela => q.addend = Target(q)
    BY <1>6 DEF KinR, RelaKin
  <2>3. o.mem.val = Target(o)
    BY <1>1, <1>2, <1>6 DEF LdWord
  <2>4. (b - q.base) + Target(q) = (b - o.base) + Target(o)
    BY <1>3 DEF Target
  <2> QED BY <2>1, <2>2, <2>3, <2>4
<1>7. ASSUME q.type \in {"RELATIVE", "IRELATIVE"} PROVE ld_so_addend(a, q) = Target(q)
             /\ ld_so_addend(a, o) = Target(o)
  <2>1. q.type \in AddrR /\ q.type \notin NoAddend(a) \union {"PC24"}
    BY <1>7 DEF AddrR, NoAddend, Slot, DtpMod, mips_DtpMod, mips_Global, mips_Undefined,
       mips_Defined
  <2>2. ld_so_addend(a, o) = Target(o)
    BY <1>1, <1>2, <1>6, <2>1, RelAddend
  <2>3. CASE q.rela
    BY <1>6, <2>1, <2>2, <2>3 DEF ld_so_addend
  <2>4. CASE ~ q.rela
    BY <1>6, <2>1, <2>2, <2>4, RelAddend
  <2> QED BY <2>3, <2>4
<1>8. CASE q.type = "RELATIVE"
  <2>1. a \notin {"sparc", "alpha", "sh"}
    BY DEF RelArchs, Mips
  <2>2. /\ ld_so_relocate(a, q, b, d) = Word(ld_width(a, q), (b - q.base) + Target(q), 0)
        /\ ld_so_relocate(a, o, b, d) = Word(ld_width(a, o), (b - o.base) + Target(o), 0)
    BY <1>2, <1>7, <1>8, <2>1, RelocateRelative
  <2> QED BY <1>4, <1>6, <1>8, <2>2 DEF AddrR
<1>9. CASE q.type = "IRELATIVE"
  <2>1. Target(q) + (b - q.base) = Target(o) + (b - o.base)
    BY <1>3 DEF Target
  <2> QED BY <1>2, <1>4, <1>7, <1>9, <2>1, RelocateIRelative
<1>10. CASE q.type = "GOT_L"
  <2>1. ~ q.rela
    BY <1>10 DEF KinR, RelaKin, Exempt, mips_Got
  <2>2. q.mem.val + (b - q.base) = o.mem.val + (b - o.base)
    BY <1>3, <1>6, <1>10, <2>1 DEF AddrR, Target
  <2> QED BY <1>2, <1>4, <1>10, <2>2, RelocateGot
<1>11. CASE q.type = "TLS_DESC"
  <2>1. arm_tlsdesc_plt(ld_so_mapped(q, b)) = arm_tlsdesc_plt(ld_so_mapped(o, b))
    BY <1>1, MappedFacts DEF arm_tlsdesc_plt, Plt
  <2> QED BY <1>2, <1>4, <1>11, <2>1, RelocateDesc
<1>12. CASE q.type = "TLS_DESC_NOW"
  <2>1. q.type \notin AddrR
    BY <1>12 DEF AddrR
  <2>2. ld_so_addend(a, q) = ld_so_addend(a, o)
    BY <2>1, AddendSameR
  <2>3. At(q, b, d) = At(o, b, d)
    <3> DEFINE m == ld_so_mapped(q, b)
               n == ld_so_mapped(o, b)
    <3>1. m.type = n.type /\ m.base = n.base
      BY <1>1, <1>2, MappedFacts
    <3> HIDE DEF m, n
    <3>2. Value(m, d) = Value(n, d)
      BY <3>1 DEF Value
    <3>3. ld_so_symbol(m, d) = ld_so_symbol(n, d)
      BY <3>2 DEF ld_so_symbol
    <3> QED BY <3>3 DEF m, n, At
  <2> QED BY <1>2, <1>4, <1>12, <2>2, <2>3, RelocateDescNow
<1>13. CASE q.type \in DtpMod
  BY <1>2, <1>4, <1>13, RelocateMod
<1>14. q.type # "JMP_IREL"
  BY <1>1, <1>2, RelKinds
<1> QED BY <1>5, <1>8, <1>9, <1>10, <1>11, <1>12, <1>13, <1>14 DEF Special

(* Where ld.so adds the address of the PLT for lazy binding.               *)
LazyArchs == GotArchs \union Mips

(* ld_so_lazy.                                                             *)
LEMMA LazyCases ==
  ASSUME NEW a, NEW q, NEW b
  PROVE  /\ q.type = "GOT_E" => ld_so_lazy(a, q, b) = q.mem.val + (b - q.base)
         /\ q.type \in Slot /\ a \in LazyArchs =>
              ld_so_lazy(a, q, b) = (b - q.base) + IF q.got = 0 THEN q.mem.val
                ELSE q.got + ld_plt_entry(a) * q.slot
         /\ q.type # "GOT_E" /\ ~ (q.type \in Slot /\ a \in LazyArchs) =>
              ld_so_lazy(a, q, b) = 0
  BY DEF ld_so_lazy, LazyArchs, GotArchs, Slot

(* The size of a PLT entry.                                                *)
LEMMA EntryNat ==
  ASSUME NEW a
  PROVE  ld_plt_entry(a) \in Nat
  BY DEF ld_plt_entry

(* The word of a PLT slot as ld leaves it.                                 *)
LEMMA SlotWord ==
  ASSUME NEW a \in Names, a \in LazyArchs, NEW o, Form(a, o), o.type \in Slot
  PROVE  o.mem.val = Plt(o) + ld_plt_entry(a) * o.slot
<1>1. CASE a \in RelArchs
  BY <1>1 DEF Form, FormR, LdWord
<1>2. CASE a \notin RelArchs
  <2>1. a \in X86Like \union {"sh", "ppc"}
    BY <1>2 DEF LazyArchs, GotArchs, X86Like, X86_64, RelArchs, Mips
  <2>2. o.mem.val = LdVal(a, o) /\ o.type \notin Addr
    BY <1>2 DEF Form, FormA, Slot, Addr
  <2> QED BY <2>1, <2>2 DEF LdVal, X86Like, X86_64, Slot, ppc64_Ds
<1> QED BY <1>1, <1>2

(* Lazy binding is the same, with got[1] set and with got[1] clear.        *)
LEMMA SameLazy ==
  ASSUME NEW a \in Names, NEW q, NEW o, Kin(a, q, o), Form(a, o), q.got \in {0, GotOf(a, q)},
             NEW b \in Nat,
         q.got = 0 => Form(a, q) \/ GotOf(a, q) = 0
  PROVE  ld_so_lazy(a, q, b) = ld_so_lazy(a, o, b)
<1>1. q \in Relocs /\ o \in Relocs /\ Placed(q, o) /\ o.got = 0 /\ LdType(a, o)
  BY KinIs, FormFacts
<1>2. /\ q.base \in Nat /\ o.base \in Nat /\ q.slot = o.slot /\ q.slot \in Nat /\ q.got \in Int
      /\ q.mem.val \in Int /\ o.mem.val \in Int
  BY <1>1, TypedFacts DEF Placed, Typed
<1>3. CASE q.type = "GOT_E"
  <2>1. o.type = "GOT_E" /\ a \in RelArchs
    <3>1. o.type = "GOT_E"
      BY <1>3, KinIs
    <3>2. ASSUME a \notin RelArchs PROVE FALSE
      <4>1. a \in RelaArchs
        BY <3>2 DEF RelaArchs
      <4> QED BY <1>1, <3>1, <4>1, BranchTypes
    <3> QED BY <3>1, <3>2
  <2>2. KinR(a, q, o) /\ FormR(a, o)
    BY <2>1 DEF Kin, Form
  <2>3. ~ q.rela
    BY <1>3, <2>2 DEF KinR, RelaKin, Exempt, mips_Got, mips_Global, mips_Defined
  <2>4. q.mem.val = mips_stub(q)
    BY <1>3, <2>2, <2>3 DEF KinR, RelKin
  <2>5. o.mem.val = mips_stub(o)
    BY <2>1, <2>2 DEF FormR, LdWord
  <2>6. q.mem.val + (b - q.base) = o.mem.val + (b - o.base)
    BY <1>2, <2>4, <2>5 DEF mips_stub
  <2> QED BY <1>3, <2>1, <2>6, LazyCases
<1>4. CASE q.type \in Slot /\ a \in LazyArchs
  <2>1. o.type = q.type
    BY <1>4, KinIs DEF Slot
  <2>2. o.mem.val = Plt(o) + ld_plt_entry(a) * o.slot
    BY <1>4, <2>1, SlotWord
  <2>3. ld_plt_entry(a) * q.slot \in Int
    BY <1>2, EntryNat
  <2>4. GotOf(a, q) = Plt(q) /\ Plt(q) # 0
    <3>1. a \in Mips => q.exec
      <4>1. o.exec = q.exec
        BY <1>1 DEF Placed
      <4>2. a \in Mips => a \in RelArchs
        BY DEF RelArchs
      <4>3. a \in Mips /\ ~ o.exec => o.type \notin Slot
        BY <1>1, <4>2, RelTypes
      <4> QED BY <1>4, <2>1, <4>1, <4>3
    <3> QED BY <1>2, <1>4, <3>1 DEF GotOf, LazyArchs, Plt, PltOffset
  <2>5. (IF q.got = 0 THEN q.mem.val ELSE q.got + ld_plt_entry(a) * q.slot) = Plt(q) + ld_plt_entry(a) * q.slot
    <3>1. q.got = 0 => q.mem.val = Plt(q) + ld_plt_entry(a) * q.slot
      BY <1>4, <2>4, SlotWord
    <3> QED BY <2>4, <3>1
  <2>6. ld_so_lazy(a, q, b) = (b - q.base) + (Plt(q) + ld_plt_entry(a) * q.slot)
    BY <1>4, <2>5, LazyCases
  <2>7. ld_so_lazy(a, o, b) = (b - o.base) + (Plt(o) + ld_plt_entry(a) * q.slot)
    BY <1>1, <1>2, <1>4, <2>1, <2>2, LazyCases
  <2> QED BY <1>2, <2>3, <2>6, <2>7 DEF Plt, PltOffset
<1>5. CASE q.type # "GOT_E" /\ ~ (q.type \in Slot /\ a \in LazyArchs)
  <2>1. o.type # "GOT_E" /\ ~ (o.type \in Slot /\ a \in LazyArchs)
    BY <1>5, KinIs DEF Plain32, Slot
  <2> QED BY <1>5, <2>1, LazyCases
<1> QED BY <1>3, <1>4, <1>5

(* The symbols that StillRelocatable is about.                             *)
LEMMA GlobalIs ==
  ASSUME NEW a, NEW o, NEW e \in OwnSymbols(a, o), NEW d \in GlobalSymbols(a, o, e)
  PROVE  d \in Somebody /\ (o.type \in Tls => d \in {"local", "self", "other", "exe"})
<1>1. /\ e \in {"local", "none", "self", "selfi", "other", "otheri"}
      /\ o.type \in Tls => e \in {"self", "other", "local"}
  BY OwnIs
<1> QED BY <1>1 DEF GlobalSymbols, Fitting, Ifunc, Somebody

(* ld.so makes of the relocation what it would make of the original.       *)
LEMMA SameWord ==
  ASSUME NEW a \in Names, NEW q, NEW o, Kin(a, q, o), Form(a, o), q.type \notin ppc64_Ds,
         a = "alpha" /\ q.type = "JMP_SLOT" => q.addend = o.addend,
         NEW b \in Nat, NEW d \in Somebody, o.type \in Tls =>
               d \in {"local", "self", "other", "exe"}
  PROVE  ld_so_relocate(a, q, b, d) = ld_so_relocate(a, o, b, d)
<1>1. CASE a \in RelArchs
  <2>1. KinR(a, q, o) /\ FormR(a, o)
    BY <1>1 DEF Kin, Form
  <2>2. q.type \in Special \ Slot <=> o.type \in Special \ Slot
    BY KinIs DEF Special, Plain32, Slot, DtpMod, mips_DtpMod
  <2> QED BY <1>1, <2>1, <2>2, SameWordR, SameSpecialR
<1>2. CASE a \notin RelArchs
  <2>1. a \in RelaArchs /\ KinA(a, q, o) /\ FormA(a, o)
    BY <1>2 DEF RelaArchs, Kin, Form
  <2>2. CASE q.type \in Slot
    <3>1. a = "alpha" => q.type = "JMP_SLOT"
      <4>1. q.type = o.type /\ LdType(a, o)
        BY <2>1 DEF KinA, FormA
      <4> QED BY <2>2, <4>1 DEF LdType, ld_types, ld_exec_types, Slot, X86_64, Ppc, Mips,
                 alpha_Tls
    <3> QED BY <2>1, <2>2, <3>1, SameSlotA
  <2>3. CASE q.type \in Special \ Slot
    BY <2>1, <2>3, SameSpecialA
  <2>4. CASE q.type \notin Special
    BY <2>1, <2>4, SameWordA
  <2>5. Slot \subseteq Special
    BY DEF Special
  <2> QED BY <2>2, <2>3, <2>4, <2>5
<1> QED BY <1>1, <1>2

(* Where ld.so maps the object.                                            *)
LEMMA BaseNat ==
  ASSUME NEW x \in Nat, NEW e, NEW b \in (IF e THEN {x} ELSE Bases \union {0})
  PROVE  b \in Nat
  BY RelocationAssumption

(* StillRelocatable: a prelinked file is relocated normally by ld.so as    *)
(* the original would be, wherever it is mapped, whatever its symbols are, *)
(* and lazily too (got[1] and the words of the PLT): prelinking loses      *)
(* nothing that ld.so needs.                                               *)
THEOREM StillRelocatableHolds == Spec => []StillRelocatable
<1>1. Inv => StillRelocatable
  <2> SUFFICES ASSUME Inv, ~ WrongForm,
                      NEW b \in (IF r.exec THEN {r.base} ELSE Bases \union {0}),
                      NEW d \in UNION {GlobalSymbols(arch, orig, e) : e \in OwnSymbols(arch, orig)}
               PROVE  /\ ld_so_relocate(arch, r, b, d) = ld_so_relocate(arch, orig, b, d)
                      /\ ld_so_lazy(arch, r, b) = ld_so_lazy(arch, orig, b)
    BY DEF StillRelocatable
  <2>1. Kin(arch, r, orig) /\ Form(arch, orig)
          /\ (r.got = IF own = "no" THEN 0 ELSE GotOf(arch, r))
    BY DEF Inv, KinInv
  <2>2. arch \in Names
    BY Known DEF Inv
  <2>3. b \in Nat
    <3>1. r.base \in Nat
      BY <2>1, KinIs DEF Typed
    <3> QED BY <3>1, BaseNat
  <2>4. PICK e \in OwnSymbols(arch, orig) : d \in GlobalSymbols(arch, orig, e)
    OBVIOUS
  <2>5. d \in Somebody /\ (orig.type \in Tls => d \in {"local", "self", "other", "exe"})
    BY <2>4, GlobalIs
  <2>6. r.type \notin ppc64_Ds
          /\ (arch = "alpha" /\ r.type = "JMP_SLOT" => r.addend = orig.addend)
    BY DEF WrongForm, WrongAddend
  <2>7. ld_so_relocate(arch, r, b, d) = ld_so_relocate(arch, orig, b, d)
    BY <2>1, <2>2, <2>3, <2>5, <2>6, SameWord
  <2>8. r.got \in {0, GotOf(arch, r)} /\ (r.got = 0 => Form(arch, r) \/ GotOf(arch, r) = 0)
    BY <2>1 DEF Inv, FreshInv
  <2>9. ld_so_lazy(arch, r, b) = ld_so_lazy(arch, orig, b)
    BY <2>1, <2>2, <2>3, <2>8, SameLazy
  <2> QED BY <2>7, <2>9
<1> QED BY <1>1, Inductive, PTL
=============================================================================
