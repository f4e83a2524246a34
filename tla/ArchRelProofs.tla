--------------------------- MODULE ArchRelProofs ----------------------------
(***************************************************************************)
(* The callbacks of the architectures with REL relocations, as in          *)
(* ArchRelaProofs.  Here the addend is in the word that prelinking writes, *)
(* until the section is converted to RELA, and undoing must bring it back. *)
(***************************************************************************)
EXTENDS ArchRelaProofs

(* The words of REL objects that hold an address of the object.            *)
AddrR == {"RELATIVE", "IRELATIVE", "GOT_L"}

(* What is not converted to RELA.                                          *)
Exempt == Slot \union {"TLS_DESC", "TLS_DESC_NOW"} \union mips_Got

(* What becomes a GLOB_DAT if it has no addend.                            *)
Plain32 == {"32", "ABS32", "REL32"}

(* The words that prelinking a REL section may overwrite.                  *)
FreeR(a) == Slot \union {"GLOB_DAT", "TLS_DESC", "GOT_A", "GOT_B", "GOT_D"}
              \union (IF a = "i386" THEN {"TLS_DTPOFF32"} ELSE {})

(* The instruction of a PC24.                                              *)
Branch(w) == w \in Int /\ Insert(w, 0, 24, 0) = 5 * 2^24

(* The words that ld leaves clear.                                         *)
ZeroR(a) == {"NONE", "COPY", "GLOB_DAT", "TLS_DESC", "TLS_DESC_NOW", "GOT_A", "GOT_D"} \union DtpMod
              \union (IF a = "i386" THEN {"TLS_DTPOFF32", "TLS_TPOFF32"} ELSE {})

(* What undoing needs is in the word, as long as the relocation is REL.    *)
RelKin(a, q, o) ==
  /\ q.addend = 0
  /\ q.type \in AddrR => q.mem = [width |-> q.class, val |-> Target(q)]
  /\ q.type = "GOT_E" => q.mem = [width |-> q.class, val |-> mips_stub(q)]
  /\ q.type = "GOT_F" => q.mem = [width |-> q.class, val |-> q.base + 12]
  /\ q.type \notin AddrR \union {"GOT_E", "GOT_F"} \union FreeR(a) => q.mem = o.mem

(* It is in the addend once it is RELA.                                    *)
RelaKin(a, q, o) ==
  /\ q.type \notin Exempt
  /\ q.addend = IF q.type \in AddrR THEN Target(q)
                ELSE IF q.type = "PC24" THEN arm_pc24_addend(o.mem.val) ELSE o.mem.val
  /\ q.type = "PC24" => q.mem.width = 4 /\ Branch(q.mem.val)
  /\ q.type \in Still => q.mem = o.mem

(* The type is that of the original, or a GLOB_DAT that was made of a word *)
(* without an addend.                                                      *)
SameR(q, o) ==
  \/ q.type = o.type
  \/ q.type = "GLOB_DAT" /\ o.type \in Plain32 /\ o.mem.val = 0 /\ ~ q.rela

(* What undoing needs of the original o is still there in q, on an         *)
(* architecture with REL relocations.                                      *)
KinR(a, q, o) ==
  /\ q \in Relocs /\ o \in Relocs /\ Placed(q, o) /\ q.code = o.code /\ SameR(q, o)
  /\ q.rela => RelaKin(a, q, o)
  /\ ~ q.rela => RelKin(a, q, o)

(* What ld leaves in the word.                                             *)
LdWord(a, o) ==
  /\ o.type \in AddrR => o.mem.val = Target(o)
  /\ o.type \in Slot => o.mem.val = Plt(o) + ld_plt_entry(a) * o.slot
  /\ o.type \in {"GOT_B", "GOT_E"} => o.mem.val = mips_stub(o)
  /\ o.type = "GOT_F" => o.mem.val = o.base + 12
  /\ o.type \in ZeroR(a) => o.mem.val = 0
  /\ o.type = "PC24" => Branch(o.mem.val)

(* The relocation is as ld leaves it in an object linked at its base.      *)
FormR(a, o) ==
  /\ o \in Relocs /\ ~ o.rela /\ o.addend = 0 /\ o.got = 0 /\ o.class = ld_class(a)
       /\ LdType(a, o)
  /\ o.inGot = (o.type \in Slot \union {"GLOB_DAT"}) /\ o.code = NoCode
  /\ o.type \in mips_Defined => o.def
  /\ o.mem.width = ld_width(a, o) /\ LdWord(a, o)

(* The relocations of these architectures.                                 *)
LEMMA RelTypes ==
  ASSUME NEW a \in RelArchs, NEW o, LdType(a, o)
  PROVE  /\ a = "i386" => o.type \in {"NONE", "RELATIVE", "COPY", "IRELATIVE", "GLOB_DAT",
                                      "JMP_SLOT", "32", "PC32", "TLS_DTPMOD32", "TLS_DTPOFF32",
                                      "TLS_TPOFF32", "TLS_TPOFF"}
         /\ a = "arm" => o.type \in {"NONE", "RELATIVE", "COPY", "IRELATIVE", "GLOB_DAT",
                                     "JUMP_SLOT", "ABS32", "PC24", "TLS_DESC", "TLS_DESC_NOW",
                                     "TLS_DTPMOD32",
                                     "TLS_DTPOFF32", "TLS_TPOFF32"}
         /\ a \in Mips => o.type \in {"NONE", "RELATIVE", "COPY", "JUMP_SLOT", "REL32",
                                      "TLS_DTPMOD32", "TLS_DTPMOD64", "TLS_DTPREL32",
                                      "TLS_DTPREL64", "TLS_TPREL32", "TLS_TPREL64", "GOT_A",
                                      "GOT_B", "GOT_D", "GOT_E", "GOT_F", "GOT_L"}
         /\ a = "mips64" => o.type \notin Slot
         /\ ~ o.exec => o.type # "COPY" /\ (a \in Mips => o.type \notin Slot)
         /\ o.exec => o.type # "RELATIVE" /\ (a \notin Mips => o.type # "TLS_DTPMOD32")
  BY DEF LdType, ld_types, ld_exec_types, RelArchs, Mips, X86_64, Ppc, Slot, DtpMod, DtpOff,
     mips_Got, mips_Global, mips_Undefined, mips_Defined, mips_DtpMod, mips_DtpRel, ppc_DtpRel,
     ppc_DtpRel16, i386_tls, arm_Tls, arm_Words

(* What the provers need of a relocation q that is like the original o.    *)
LEMMA KinRFacts ==
  ASSUME NEW a, NEW o, NEW q, KinR(a, q, o), FormR(a, o)
  PROVE  /\ q \in Relocs /\ o \in Relocs /\ Typed(q) /\ Typed(o) /\ LdType(a, o)
              /\ q.class = ld_class(a) /\ Placed(q, o)
         /\ q.base \in Nat /\ q.slot \in Nat /\ q.off \in Nat /\ q.addend \in Int
              /\ q.mem.val \in Int /\ q.got \in Int
         /\ q.class \in Nat /\ o.mem.val \in Int /\ q.exec = o.exec /\ q.inGot = o.inGot
              /\ q.class = o.class
         /\ q.slot = o.slot /\ q.rela \in BOOLEAN /\ q.def = o.def
<1>1. q \in Relocs /\ o \in Relocs /\ Placed(q, o)
  BY DEF KinR
<1>2. Typed(q) /\ Typed(o)
  BY <1>1, TypedFacts
<1> QED BY <1>1, <1>2 DEF Typed, FormR, Placed, KinR

(* All their words have the size of an address.                            *)
LEMMA RelWidth ==
  ASSUME NEW a \in RelArchs, NEW o, LdType(a, o), o.class = ld_class(a)
  PROVE  ld_width(a, o) = o.class
<1>1. CASE a = "i386"
  <2>1. o.class = 4
    BY <1>1 DEF ld_class
  <2>2. o.type \in {"NONE", "RELATIVE", "COPY", "IRELATIVE", "GLOB_DAT", "JMP_SLOT", "32",
                    "PC32", "TLS_DTPMOD32", "TLS_DTPOFF32", "TLS_TPOFF32", "TLS_TPOFF"}
    BY <1>1, RelTypes
  <2> QED BY <1>1, <2>1, <2>2 DEF ld_width, Slot, Tls, TpOff, DtpOff, DtpMod, s390_Half,
             s390_Dbl16, ppc_Half, ppc_Low, ppc_DtpRel16, ppc_DtpRel, ppc_TpRel16, ppc_TpRel,
             ppc64_Ds, ppc64_Higher, mips_Got, mips_Global, mips_Undefined, mips_Defined,
             mips_DtpMod, mips_DtpRel, mips_TpRel, Mips
<1>2. CASE a = "arm"
  <2>1. o.class = 4
    BY <1>2 DEF ld_class
  <2>2. o.type \in {"NONE", "RELATIVE", "COPY", "IRELATIVE", "GLOB_DAT", "JUMP_SLOT", "ABS32",
                    "PC24", "TLS_DESC", "TLS_DESC_NOW",
                    "TLS_DTPMOD32", "TLS_DTPOFF32", "TLS_TPOFF32"}
    BY <1>2, RelTypes
  <2> QED BY <1>2, <2>1, <2>2 DEF ld_width, Slot, Tls, TpOff, DtpOff, DtpMod, s390_Half,
             s390_Dbl16, ppc_Half, ppc_Low, ppc_DtpRel16, ppc_DtpRel, ppc_TpRel16, ppc_TpRel,
             ppc64_Ds, ppc64_Higher, mips_Got, mips_Global, mips_Undefined, mips_Defined,
             mips_DtpMod, mips_DtpRel, mips_TpRel, Mips
<1>3. CASE a \in Mips
  <2>2. o.type \in {"NONE", "RELATIVE", "COPY", "JUMP_SLOT", "REL32", "TLS_DTPMOD32",
                    "TLS_DTPMOD64", "TLS_DTPREL32", "TLS_DTPREL64", "TLS_TPREL32",
                    "TLS_TPREL64", "GOT_A", "GOT_B", "GOT_D", "GOT_E", "GOT_F", "GOT_L"}
    BY <1>3, RelTypes
  <2> QED BY <1>3, <2>2 DEF ld_width, Slot, Tls, TpOff, DtpOff, DtpMod, s390_Half, s390_Dbl16,
             ppc_Half, ppc_Low, ppc_DtpRel16, ppc_DtpRel, ppc_TpRel16, ppc_TpRel, ppc64_Ds,
             ppc64_Higher, mips_Got, mips_Global, mips_Undefined, mips_Defined, mips_DtpMod,
             mips_DtpRel, mips_TpRel, Mips
<1> QED BY <1>1, <1>2, <1>3 DEF RelArchs

(* What ld made has what undoing needs.                                    *)
LEMMA FormKinR ==
  ASSUME NEW a \in RelArchs, NEW o, FormR(a, o)
  PROVE  KinR(a, o, o)
<1>1. o \in Relocs /\ Placed(o, o) /\ Typed(o)
  BY TypedFacts DEF FormR, Placed
<1>2. o.mem = [width |-> o.class, val |-> o.mem.val]
  BY <1>1, RelWidth DEF FormR, Typed
<1>3. RelKin(a, o, o)
  BY <1>2 DEF RelKin, FormR, LdWord
<1> QED BY <1>1, <1>3 DEF KinR, FormR, SameR

(* The original is determined by what is kept of it.                       *)
LEMMA UniqueR ==
  ASSUME NEW a \in RelArchs, NEW o, NEW p, FormR(a, o), FormR(a, p), KinR(a, p, o),
             p.base = o.base, p.ok = o.ok
  PROVE  p = o
<1>1. p \in Relocs /\ o \in Relocs /\ Placed(p, o) /\ p.rela = o.rela /\ p.got = o.got
        /\ p.addend = o.addend /\ p.code = o.code
      /\ RelKin(a, p, o)
  BY TypedFacts DEF FormR, KinR, Typed
<1>2. p.type = o.type
  <2>1. ASSUME p.type = "GLOB_DAT", o.type \in Plain32 PROVE FALSE
    <3>1. p.inGot /\ ~ o.inGot
      BY <2>1 DEF FormR, Plain32, Slot
    <3> QED BY <1>1, <3>1 DEF Placed
  <2> QED BY <2>1 DEF KinR, SameR
<1>3. Typed(p) /\ Typed(o)
  BY <1>1, TypedFacts
<1>4. p.mem.width = o.mem.width
  BY <1>1, <1>2, LdWidthSame DEF FormR, Placed
<1>5. CASE p.type \in AddrR \union {"GOT_E", "GOT_F"} \union FreeR(a)
  <2>1. p.mem.val = o.mem.val
    <3>1. CASE p.type \in AddrR \union {"GOT_F"}
      BY <1>2, <3>1 DEF FormR, LdWord, Target
    <3>2. CASE p.type \in Slot
      BY <1>1, <1>2, <3>2 DEF FormR, LdWord, Plt, Placed
    <3>3. CASE p.type \in {"GOT_B", "GOT_E"}
      BY <1>2, <3>3 DEF FormR, LdWord, mips_stub
    <3>4. CASE p.type \in FreeR(a) \ (Slot \union {"GOT_B"})
      <4>1. p.type \in ZeroR(a)
        BY <3>4 DEF FreeR, ZeroR
      <4> QED BY <1>2, <4>1 DEF FormR, LdWord
    <3> QED BY <1>5, <3>1, <3>2, <3>3, <3>4
  <2> QED BY <1>1, <1>2, <1>3, <1>4, <2>1, Extensional DEF Typed
<1>6. CASE p.type \notin AddrR \union {"GOT_E", "GOT_F"} \union FreeR(a)
  <2>1. p.mem = o.mem
    BY <1>1, <1>6 DEF RelKin
  <2> QED BY <1>1, <1>2, <2>1, Extensional
<1> QED BY <1>5, <1>6

(* What moving an object by d does to a relocation of a REL architecture.  *)
MovesBy(a, m, q, d) ==
  /\ Alike(m, q)
  /\ q.type \notin AddrR \/ ~ q.rela => m.addend = q.addend
  /\ q.type \in AddrR /\ q.rela => m.addend = q.addend + d
  /\ (q.type \in AddrR /\ ~ q.rela) \/ q.type \in {"GOT_E", "GOT_F"} =>
       m.mem = [width |-> q.class, val |-> q.mem.val + d]
  /\ q.type \notin AddrR \union {"GOT_E", "GOT_F"} \union FreeR(a)
       \/ (q.rela /\ q.type \notin AddrR) => m.mem = q.mem
  /\ FormR(a, q) =>
       /\ q.type \in Slot \union {"GOT_B"} =>
            m.mem = [width |-> q.class, val |-> q.mem.val + d] \/ (d = 0 /\ m.mem = q.mem)
       /\ q.type \in FreeR(a) \ (Slot \union {"GOT_B"}) => m.mem = q.mem

(* Moving it keeps what undoing needs, and one that ld made is as ld would *)
(* have made it.                                                           *)
LEMMA MovedR ==
  ASSUME arch \in RelArchs, NEW q, NEW o, KinR(arch, q, o), FormR(arch, o), NEW b \in Nat,
         NEW m, m = AdjustRel(arch, q, b - q.base), MovesBy(arch, m, q, b - q.base), NEW p,
               p = Relocated(q, b)
  PROVE  /\ KinR(arch, p, o) /\ Frame(p, q) /\ p.base = b
         /\ q.got = 0 => p.got = 0
         /\ arch \in GotArchs /\ q.got = Plt(q) => p.got = Plt(p)
         /\ FormR(arch, q) => FormR(arch, p)
<1> DEFINE d == b - q.base
<1>1. /\ q \in Relocs /\ o \in Relocs /\ Typed(q) /\ d \in Int /\ q.base \in Nat
           /\ q.slot \in Nat /\ q.mem.val \in Int /\ q.addend \in Int
      /\ arch \in Names /\ q.code = NoCode /\ Placed(q, o) /\ q.class \in Nat
           /\ q.rela \in BOOLEAN
      /\ o.mem.val \in Int
  <2>1. arch \in Names
    BY DEF Names
  <2>2. /\ q \in Relocs /\ o \in Relocs /\ Typed(q) /\ q.base \in Nat /\ q.slot \in Nat
             /\ q.mem.val \in Int /\ q.addend \in Int
        /\ Placed(q, o) /\ q.class \in Nat /\ q.rela \in BOOLEAN /\ o.mem.val \in Int
    BY KinRFacts
  <2>3. q.code = NoCode
    BY DEF KinR, FormR
  <2> QED BY <2>1, <2>2, <2>3
<1>2. Alike(m, q) /\ MovesBy(arch, m, q, d)
  BY DEF MovesBy
<1>3. /\ Frame(p, q) /\ p.base = b /\ p.addend = m.addend /\ p.mem = m.mem
      /\ q.got = 0 => p.got = 0
      /\ arch \in GotArchs /\ q.got = Plt(q) => p.got = Plt(p)
  BY <1>1, <1>2, RelocatedFacts
<1>4. /\ p \in Relocs /\ Placed(p, q) /\ Placed(p, o) /\ p.type = q.type /\ p.rela = q.rela
           /\ p.code = q.code /\ p.class = q.class
      /\ p.slot = q.slot /\ p.def = q.def /\ p.exec = q.exec /\ p.inGot = q.inGot
  BY <1>1, <1>3 DEF Frame, Placed
<1>5. Target(q) + d = Target(p) /\ mips_stub(q) + d = mips_stub(p)
        /\ (q.base + 12) + d = p.base + 12 /\ Plt(q) + d = Plt(p)
  BY <1>1, <1>3 DEF Target, mips_stub, Plt, PltOffset
<1> HIDE DEF d
<1>6. ASSUME q.rela PROVE RelaKin(arch, p, o)
  <2>1. RelaKin(arch, q, o)
    BY <1>6 DEF KinR
  <2>2. q.type \notin {"GOT_E", "GOT_F"}
    BY <2>1 DEF RelaKin, Exempt, mips_Got, mips_Global, mips_Defined
  <2>3. CASE q.type \in AddrR
    <3>1. q.type # "PC24" /\ q.type \notin Still
      BY <2>3 DEF AddrR, Still
    <3> QED BY <1>2, <1>3, <1>4, <1>5, <1>6, <2>1, <2>3, <3>1 DEF RelaKin, MovesBy
  <2>4. CASE q.type \notin AddrR
    BY <1>2, <1>3, <1>4, <1>6, <2>1, <2>4 DEF RelaKin, MovesBy
  <2> QED BY <2>3, <2>4
<1>7. ASSUME ~ q.rela PROVE RelKin(arch, p, o)
  <2>1. RelKin(arch, q, o)
    BY <1>7 DEF KinR
  <2>2. p.addend = 0
    BY <1>2, <1>3, <1>7, <2>1 DEF RelKin, MovesBy
  <2>3. p.type \in AddrR => p.mem = [width |-> p.class, val |-> Target(p)]
    BY <1>1, <1>2, <1>3, <1>4, <1>5, <1>7, <2>1 DEF RelKin, MovesBy
  <2>4. p.type = "GOT_E" => p.mem = [width |-> p.class, val |-> mips_stub(p)]
    BY <1>1, <1>2, <1>3, <1>4, <1>5, <1>7, <2>1 DEF RelKin, MovesBy
  <2>5. p.type = "GOT_F" => p.mem = [width |-> p.class, val |-> p.base + 12]
    BY <1>1, <1>2, <1>3, <1>4, <1>5, <1>7, <2>1 DEF RelKin, MovesBy
  <2>6. p.type \notin AddrR \union {"GOT_E", "GOT_F"} \union FreeR(arch) => p.mem = o.mem
    BY <1>2, <1>3, <1>4, <1>7, <2>1 DEF RelKin, MovesBy
  <2> QED BY <2>2, <2>3, <2>4, <2>5, <2>6 DEF RelKin
<1>8. KinR(arch, p, o)
  BY <1>1, <1>3, <1>4, <1>6, <1>7 DEF KinR, SameR
<1>9. ASSUME FormR(arch, q) PROVE FormR(arch, p)
  <2>1. /\ ~ q.rela /\ q.addend = 0 /\ q.got = 0 /\ LdType(arch, q) /\ q.class = ld_class(arch)
             /\ LdWord(arch, q)
        /\ q.mem.width = ld_width(arch, q) /\ ld_width(arch, q) = q.class
             /\ ld_width(arch, p) = ld_width(arch, q)
    BY <1>4, <1>9, RelWidth, LdWidthSame DEF FormR
  <2>2. m.mem \in {q.mem, [width |-> q.class, val |-> q.mem.val + d]}
    BY <1>2, <1>9, <2>1 DEF MovesBy
  <2>3. p.mem.width = ld_width(arch, p)
    BY <1>3, <2>1, <2>2
  <2>4. LdWord(arch, p)
    <3>1. p.type \in AddrR => p.mem.val = Target(p)
      BY <1>2, <1>3, <1>4, <1>5, <2>1 DEF MovesBy, LdWord
    <3>2. p.type \in Slot => p.mem.val = Plt(p) + ld_plt_entry(arch) * p.slot
      <4> DEFINE k == ld_plt_entry(arch) * q.slot
      <4>1. k \in Int
        <5>1. ld_plt_entry(arch) \in Int
          BY DEF ld_plt_entry, RelArchs, Mips, X86_64
        <5> QED BY <1>1, <5>1
      <4>2. p.type \in Slot => q.mem.val = Plt(q) + k
              /\ (m.mem.val = q.mem.val + d \/ (d = 0 /\ m.mem.val = q.mem.val))
        BY <1>2, <1>4, <1>9, <2>1 DEF MovesBy, LdWord
      <4>3. Plt(q) \in Int
        BY <1>1 DEF Plt, PltOffset
      <4> HIDE DEF k
      <4>4. p.type \in Slot => p.mem.val = Plt(p) + k
        BY <1>1, <1>3, <1>5, <4>1, <4>2, <4>3
      <4> QED BY <1>4, <4>4 DEF k
    <3>3. p.type \in {"GOT_B", "GOT_E"} => p.mem.val = mips_stub(p)
      <4>1. p.type \in {"GOT_B", "GOT_E"} => q.mem.val = mips_stub(q)
              /\ (m.mem.val = q.mem.val + d \/ (d = 0 /\ m.mem.val = q.mem.val))
        BY <1>2, <1>4, <1>9, <2>1 DEF MovesBy, LdWord
      <4> QED BY <1>1, <1>3, <1>5, <4>1 DEF mips_stub
    <3>4. p.type = "GOT_F" => p.mem.val = p.base + 12
      BY <1>2, <1>3, <1>4, <1>5, <2>1 DEF MovesBy, LdWord
    <3>5. ASSUME p.type \in ZeroR(arch) \/ p.type = "PC24" PROVE p.mem = q.mem
      <4>1. p.type \notin AddrR \union {"GOT_E", "GOT_F", "GOT_B"} \union Slot
        BY <3>5 DEF ZeroR, AddrR, Slot, DtpMod, mips_DtpMod
      <4> QED BY <1>2, <1>3, <1>4, <1>9, <4>1 DEF MovesBy
    <3> QED BY <1>4, <2>1, <3>1, <3>2, <3>3, <3>4, <3>5 DEF LdWord
  <2>5. p.addend = 0
    BY <1>2, <1>3, <2>1 DEF MovesBy
  <2> QED BY <1>3, <1>4, <1>9, <2>1, <2>3, <2>4, <2>5 DEF FormR, LdType
<1> QED BY <1>3, <1>8, <1>9

(* A callback may write a word that need not be kept.                      *)
LEMMA PutKinR ==
  ASSUME NEW a, NEW q, NEW o, KinR(a, q, o), NEW w \in Nat, NEW v \in Int, NEW m,
             m \in {q, Put(q, w, v)},
         q.rela => q.type \notin Still \union {"PC24"},
         ~ q.rela => q.type \in FreeR(a)
  PROVE  KinR(a, m, o) /\ Kept(m, q)
<1>1. q \in Relocs /\ Written(m, q)
  BY PutWritten DEF KinR
<1>2. Kept(m, q) /\ m.addend = q.addend /\ m.code = q.code /\ m.base = q.base
  BY <1>1, WrittenKept
<1>3. /\ m \in Relocs /\ Placed(m, o) /\ m.type = q.type /\ m.rela = q.rela
           /\ Target(m) = Target(q) /\ mips_stub(m) = mips_stub(q)
      /\ m.class = q.class
  BY <1>2 DEF Kept, Placed, KinR, Target, mips_stub
<1>4. q.rela => RelaKin(a, m, o)
  BY <1>2, <1>3 DEF KinR, RelaKin
<1>5. ~ q.rela => RelKin(a, m, o)
  <2>1. ~ q.rela => q.type \notin AddrR \union {"GOT_E", "GOT_F"}
    BY DEF AddrR, FreeR, Slot
  <2> QED BY <1>2, <1>3, <2>1 DEF KinR, RelKin
<1> QED BY <1>2, <1>3, <1>4, <1>5 DEF KinR, SameR

(* KinR says nothing of got[1] and ok.                                     *)
LEMMA KinRGot ==
  ASSUME NEW a, NEW q, NEW o, KinR(a, q, o), NEW p, p \in Relocs, Placed(p, q),
             p.type = q.type, p.rela = q.rela,
         p.addend = q.addend, p.mem = q.mem, p.base = q.base, p.code = q.code
  PROVE  KinR(a, p, o)
<1>1. Placed(p, o) /\ Target(p) = Target(q) /\ mips_stub(p) = mips_stub(q) /\ p.class = q.class
  BY DEF KinR, Placed, Target, mips_stub
<1>2. q.rela => RelaKin(a, p, o)
  BY <1>1 DEF KinR, RelaKin
<1>3. ~ q.rela => RelKin(a, p, o)
  BY <1>1 DEF KinR, RelKin
<1> QED BY <1>1, <1>2, <1>3 DEF KinR, SameR

(* A callback may do nothing.                                              *)
LEMMA SameKinR ==
  ASSUME NEW a, NEW q, NEW o, KinR(a, q, o)
  PROVE  KinR(a, q, o) /\ Kept(q, q)
  BY DEF KinR, Kept, Placed

-----------------------------------------------------------------------------
(* i386.                                                                   *)

(* p is q but for the type, the addend and the word.                       *)
KeptR(p, q) ==
  /\ p \in Relocs /\ Placed(p, q) /\ p.rela = q.rela /\ p.got = q.got /\ p.base = q.base
       /\ p.ok = q.ok

(* prelink_prepare has been called.                                        *)
Ready(a, mx, p) == ~ p.rela /\ p.type \notin Exempt => ~ NeedRelToRela(a, p) /\ ~ mx

(* It has been prelinked: no word of a REL section is left that needs an   *)
(* addend beside its value.                                                *)
Done(a, q) ==
  ~ q.rela => q.type \notin Plain32 \union {"PC32", "PC24"}
    \union (IF a = "arm" THEN {"TLS_DTPOFF32"} ELSE {})

(* What keeps the type keeps the rest.                                     *)
LEMMA KeptKeptR ==
  ASSUME NEW p, NEW q, Kept(p, q)
  PROVE  KeptR(p, q)
  BY DEF Kept, KeptR

(* Conversion to RELA takes the addend out of the word.                    *)
LEMMA ConvertedKin ==
  ASSUME NEW a \in RelArchs, NEW q, NEW o, KinR(a, q, o), FormR(a, o), ~ q.rela,
             q.type = o.type, q.type \notin Exempt,
         NEW v, v = IF q.type \in AddrR THEN Target(q)
                    ELSE IF q.type = "PC24" THEN arm_pc24_addend(o.mem.val) ELSE o.mem.val,
         v \in Int, NEW p, p = [q EXCEPT !.rela = TRUE, !.addend = v]
  PROVE  KinR(a, p, o)
<1>1. /\ q \in Relocs /\ o \in Relocs /\ Placed(q, o) /\ RelKin(a, q, o) /\ q.code = o.code
  BY DEF KinR
<1>2. /\ p \in Relocs /\ Placed(p, q) /\ p.mem = q.mem /\ p.type = q.type /\ p.rela = TRUE
      /\ p.addend = v /\ p.base = q.base /\ p.code = q.code
  BY <1>1, RelaFacts
<1>3. Placed(p, o) /\ Target(p) = Target(q)
  <2>1. Placed(p, o)
    BY <1>1, <1>2 DEF Placed
  <2>2. p.base = q.base /\ p.off = q.off /\ p.slot = q.slot
    BY <1>2 DEF Placed
  <2> QED BY <2>1, <2>2 DEF Target
<1>4. ASSUME q.type \in Still \union {"PC24"} PROVE q.mem = o.mem
  <2>1. q.type \notin AddrR \union {"GOT_E", "GOT_F"} \union FreeR(a)
    BY <1>4 DEF Still, AddrR, FreeR, Slot
  <2> QED BY <1>1, <2>1 DEF RelKin
<1>5. ASSUME q.type = "PC24" PROVE q.mem.width = 4 /\ Branch(q.mem.val)
  <2>1. LdType(a, o) /\ o.class = ld_class(a) /\ Branch(o.mem.val)
          /\ o.mem.width = ld_width(a, o)
    BY <1>5 DEF FormR, LdWord
  <2>2. a = "arm"
    BY <1>5, <2>1, RelTypes DEF RelArchs
  <2>3. ld_width(a, o) = 4
    BY <2>1, <2>2, RelWidth DEF ld_class
  <2> QED BY <1>4, <1>5, <2>1, <2>3
<1>6. RelaKin(a, p, o)
  BY <1>2, <1>3, <1>4, <1>5 DEF RelaKin
<1> QED BY <1>1, <1>2, <1>3, <1>6 DEF KinR, SameR

(* A word without an addend may become a GLOB_DAT.                         *)
LEMMA GlobDatKin ==
  ASSUME NEW a, NEW q, NEW o, KinR(a, q, o), ~ q.rela, q.type \in Plain32, q.mem.val = 0,
             NEW w \in Nat, NEW v \in Int,
         NEW m, m = Put([q EXCEPT !.type = "GLOB_DAT"], w, v)
  PROVE  KinR(a, m, o) /\ KeptR(m, q) /\ m.type = "GLOB_DAT"
<1> DEFINE n == [q EXCEPT !.type = "GLOB_DAT"]
<1>1. q \in Relocs /\ o \in Relocs /\ Placed(q, o) /\ RelKin(a, q, o) /\ q.code = o.code
        /\ q.type = o.type
  BY DEF KinR, SameR, Plain32
<1>2. "GLOB_DAT" \in Types
  BY DEF Types
<1>3. /\ n \in Relocs /\ Placed(n, q) /\ n.mem = q.mem /\ n.type = "GLOB_DAT" /\ n.rela = q.rela
      /\ n.addend = q.addend /\ n.got = q.got /\ n.base = q.base /\ n.code = q.code
           /\ n.ok = q.ok
  BY <1>1, <1>2, TypeFacts
<1>0. m = Put(n, w, v)
  OBVIOUS
<1> HIDE DEF n
<1>4. Alike(m, n) /\ m.addend = n.addend
  BY <1>0, <1>3, PutIs
<1>5. q.mem = o.mem
  BY <1>1 DEF RelKin, Plain32, AddrR, FreeR, Slot
<1>6. m.type = "GLOB_DAT" /\ KeptR(m, q) /\ m.code = q.code /\ m.addend = q.addend
        /\ Placed(m, o)
  BY <1>1, <1>3, <1>4 DEF Alike, KeptR, Placed
<1>7. RelKin(a, m, o)
  BY <1>1, <1>6 DEF RelKin, AddrR, FreeR
<1> QED BY <1>1, <1>5, <1>6, <1>7 DEF KinR, SameR, KeptR

(* The word that ld left, for the base of k.                               *)
WordR(a, k, o) ==
  IF k.type \in AddrR THEN Target(k)
  ELSE IF k.type \in Slot THEN Plt(k) + ld_plt_entry(a) * k.slot
  ELSE IF k.type \in {"GOT_B", "GOT_E"} THEN mips_stub(k)
  ELSE IF k.type = "GOT_F" THEN k.base + 12
  ELSE o.mem.val

(* A REL relocation with that word is as ld left it.                       *)
LEMMA RestoredR ==
  ASSUME NEW a \in RelArchs, NEW o, FormR(a, o), NEW k, k \in Relocs, Placed(k, o),
             k.code = NoCode, k.type = o.type,
         ~ k.rela, k.addend = 0, k.got = 0, k.mem.width = k.class, k.mem.val = WordR(a, k, o)
  PROVE  FormR(a, k) /\ KinR(a, k, o)
<1>1. Typed(k) /\ Typed(o) /\ o \in Relocs
  BY TypedFacts DEF FormR
<1>2. k.class = o.class /\ LdType(a, o) /\ o.class = ld_class(a) /\ LdType(a, k)
        /\ LdWord(a, o) /\ k.slot = o.slot /\ k.def = o.def /\ k.inGot = o.inGot
  BY DEF FormR, Placed, LdType
<1>3. ld_width(a, k) = k.class /\ ld_width(a, o) = k.class
  BY <1>2, RelWidth, LdWidthSame
<1>4. LdWord(a, k)
  <2>1. k.type \in AddrR => k.mem.val = Target(k)
    BY DEF WordR
  <2>2. k.type \in Slot => k.mem.val = Plt(k) + ld_plt_entry(a) * k.slot
    BY DEF WordR, AddrR, Slot
  <2>3. k.type \in {"GOT_B", "GOT_E"} => k.mem.val = mips_stub(k)
    BY DEF WordR, AddrR, Slot
  <2>4. k.type = "GOT_F" => k.mem.val = k.base + 12
    BY DEF WordR, AddrR, Slot
  <2>5. k.type \in ZeroR(a) \union {"PC24"} => k.mem.val = o.mem.val
    BY DEF WordR, AddrR, Slot, ZeroR, DtpMod, mips_DtpMod
  <2> QED BY <1>2, <2>1, <2>2, <2>3, <2>4, <2>5 DEF LdWord
<1>5. FormR(a, k)
  BY <1>2, <1>3, <1>4 DEF FormR
<1>6. RelKin(a, k, o)
  <2>1. k.mem = [width |-> k.class, val |-> k.mem.val]
    BY <1>1 DEF Typed
  <2>2. k.type \notin AddrR \union {"GOT_E", "GOT_F"} \union FreeR(a) => k.mem = o.mem
    <3>1. k.type \notin AddrR \union {"GOT_E", "GOT_F"} \union FreeR(a) => k.mem.val = o.mem.val
      BY DEF WordR, FreeR
    <3>2. o.mem = [width |-> k.class, val |-> o.mem.val]
      BY <1>1, <1>3 DEF Typed, FormR
    <3> QED BY <2>1, <3>1, <3>2
  <2> QED BY <1>4, <2>1, <2>2 DEF RelKin, LdWord
<1> QED BY <1>1, <1>2, <1>5, <1>6 DEF KinR, SameR, FormR

(* Clearing got[1] changes nothing else.                                   *)
LEMMA ClearedGot ==
  ASSUME NEW m \in Relocs, m.got = Plt(m), NEW n, n = [m EXCEPT !.got = 0]
  PROVE  /\ n \in Relocs /\ Placed(n, m) /\ n.mem = m.mem /\ n.type = m.type /\ n.rela = m.rela
         /\ n.addend = m.addend /\ n.got = 0 /\ n.base = m.base /\ n.code = m.code
              /\ n.ok = m.ok
  BY GotFacts

(* q with an addend.                                                       *)
WithAddend(q, v) == [q EXCEPT !.addend = v]

(* q as a REL relocation.                                                  *)
AsRel(q, v) == [q EXCEPT !.rela = FALSE, !.addend = v]

(* WithAddend changes the addend only.                                     *)
LEMMA WithAddendIs ==
  ASSUME NEW q \in Relocs, NEW v \in Int
  PROVE  Alike(WithAddend(q, v), q) /\ WithAddend(q, v).addend = v
  BY AddendFacts DEF WithAddend

(* AsRel changes the form and the addend only.                             *)
LEMMA AsRelIs ==
  ASSUME NEW q \in Relocs, NEW v \in Int
  PROVE  /\ AsRel(q, v) \in Relocs /\ Placed(AsRel(q, v), q) /\ AsRel(q, v).mem = q.mem
              /\ AsRel(q, v).type = q.type /\ ~ AsRel(q, v).rela
         /\ AsRel(q, v).addend = v /\ AsRel(q, v).got = q.got /\ AsRel(q, v).base = q.base
              /\ AsRel(q, v).code = q.code /\ AsRel(q, v).ok = q.ok
  BY RelFacts DEF AsRel

(* Writing an addend and the word.                                         *)
LEMMA AddendPut ==
  ASSUME NEW q \in Relocs, NEW x \in Int, NEW w \in Nat, NEW v \in Int, NEW m,
             m = Put(WithAddend(q, x), w, v)
  PROVE  Alike(m, q) /\ m.addend = x /\ m.mem = [width |-> w, val |-> v]
<1> DEFINE g == WithAddend(q, x)
<1>1. Alike(g, q) /\ g.addend = x
  BY WithAddendIs
<1>2. m = Put(g, w, v)
  OBVIOUS
<1> HIDE DEF g
<1>3. Alike(m, g) /\ m.mem = [width |-> w, val |-> v] /\ m.addend = g.addend
  BY <1>1, <1>2, PutIs DEF Alike
<1> QED BY <1>1, <1>3 DEF Alike, Placed

(* What a relocation is when it is REL again and its word has been         *)
(* written.                                                                *)
LEMMA ToRel ==
  ASSUME NEW n \in Relocs, NEW w \in Nat, NEW v \in Int, NEW k, k = Put(AsRel(n, 0), w, v)
  PROVE  /\ k \in Relocs /\ Placed(k, n) /\ k.mem.width = w /\ k.mem.val = v /\ k.type = n.type
              /\ ~ k.rela
         /\ k.addend = 0 /\ k.got = n.got /\ k.base = n.base /\ k.code = n.code /\ k.ok = n.ok
<1> DEFINE g == AsRel(n, 0)
<1>1. /\ g \in Relocs /\ Placed(g, n) /\ g.mem = n.mem /\ g.type = n.type /\ ~ g.rela
      /\ g.addend = 0 /\ g.got = n.got /\ g.base = n.base /\ g.code = n.code /\ g.ok = n.ok
  BY AsRelIs
<1>2. k = Put(g, w, v)
  OBVIOUS
<1> HIDE DEF g
<1>3. Alike(k, g) /\ k.mem = [width |-> w, val |-> v] /\ k.addend = g.addend
  BY <1>1, <1>2, PutIs
<1> QED BY <1>1, <1>3 DEF Alike, Placed

-----------------------------------------------------------------------------

(* i386_adjust_rel and i386_adjust_rela move what points into the object.  *)
LEMMA I386Move ==
  ASSUME NEW a, a = "i386", NEW q, NEW o, KinR(a, q, o), FormR(a, o), NEW d \in Int, NEW m,
             m = AdjustRel(a, q, d)
  PROVE  MovesBy(a, m, q, d)
<1> DEFINE xx == q.addend + d
           w == q.mem.val + d
<1>1. /\ q \in Relocs /\ xx \in Int /\ w \in Int /\ q.class = 4 /\ q.rela \in BOOLEAN
           /\ LdType(a, o) /\ a \in RelArchs
  <2>1. /\ q \in Relocs /\ q.addend \in Int /\ q.mem.val \in Int /\ q.class = ld_class(a)
             /\ q.rela \in BOOLEAN /\ LdType(a, o)
    BY KinRFacts
  <2> QED BY <2>1 DEF ld_class, RelArchs
<1>2. m = IF q.rela THEN i386_adjust_rela(q, d) ELSE i386_adjust_rel(q, d)
  BY DEF AdjustRel, X86_64, Ppc, Mips
<1>3. q.type \in {"NONE", "RELATIVE", "COPY", "IRELATIVE", "GLOB_DAT", "JMP_SLOT", "32", "PC32",
                  "TLS_DTPMOD32", "TLS_DTPOFF32", "TLS_TPOFF32", "TLS_TPOFF"}
  BY <1>1, RelTypes DEF KinR, SameR
<1> HIDE DEF xx, w
<1>5. CASE q.type \in {"RELATIVE", "IRELATIVE"} /\ ~ q.rela
  <2>1. m = Put(q, 4, w)
    BY <1>2, <1>5 DEF i386_adjust_rel, w
  <2>2. Alike(m, q) /\ m.mem = [width |-> 4, val |-> w] /\ m.addend = q.addend
    BY <1>1, <2>1, PutIs
  <2> QED BY <1>1, <1>5, <2>2 DEF MovesBy, AddrR, Slot, FreeR, w
<1>6. CASE q.type \in {"RELATIVE", "IRELATIVE"} /\ q.rela
  <2>1. m = Put(WithAddend(q, xx), 4, xx)
    BY <1>2, <1>6 DEF i386_adjust_rela, xx, WithAddend
  <2> DEFINE g == WithAddend(q, xx)
  <2>2. Alike(g, q) /\ g.addend = xx /\ g \in Relocs
    BY <1>1, WithAddendIs DEF Alike
  <2>0. m = Put(g, 4, xx)
    BY <2>1
  <2> HIDE DEF g
  <2>8. g \in Relocs
    BY <2>2
  <2>9. xx \in Int /\ 4 \in Nat
    BY <1>1
  <2>7. Alike(m, g) /\ m.addend = g.addend
    BY <2>0, <2>8, <2>9, PutWritten DEF Written
  <2>3. Alike(m, q) /\ m.addend = xx
    BY <2>2, <2>7 DEF Alike, Placed
  <2>4. ~ FormR(a, q)
    BY <1>6 DEF FormR
  <2>5. m.addend = q.addend + d
    BY <2>3 DEF xx
  <2> QED BY <1>6, <2>3, <2>4, <2>5 DEF MovesBy, AddrR
<1>7. CASE q.type = "JMP_SLOT"
  <2>0. ~ q.rela
    BY <1>1, <1>7 DEF KinR, RelaKin, Exempt, Slot
  <2>1. m = Put(q, 4, w)
    BY <1>2, <1>7, <2>0 DEF i386_adjust_rel, w
  <2>2. Alike(m, q) /\ m.mem = [width |-> 4, val |-> w] /\ m.addend = q.addend
    BY <1>1, <2>1, PutIs
  <2> QED BY <1>1, <1>7, <2>0, <2>2 DEF MovesBy, AddrR, Slot, FreeR, w
<1>8. CASE q.type \notin {"RELATIVE", "IRELATIVE", "JMP_SLOT"}
  <2>1. m = q
    BY <1>2, <1>8 DEF i386_adjust_rel, i386_adjust_rela
  <2>2. Alike(m, q)
    BY <1>1, <2>1 DEF Alike, Placed
  <2> QED BY <1>3, <1>8, <2>1, <2>2 DEF MovesBy, AddrR, Slot
<1> QED BY <1>5, <1>6, <1>7, <1>8

(* p is q with the addend that it had in the word.                         *)
Converted(p, q, o) ==
  \E v \in Int : /\ p = [q EXCEPT !.rela = TRUE, !.addend = v]
                 /\ v = IF q.type \in AddrR THEN Target(q)
                        ELSE IF q.type = "PC24" THEN arm_pc24_addend(o.mem.val) ELSE o.mem.val

(* Conversion to RELA keeps what undoing needs.                            *)
LEMMA ConvertedFacts ==
  ASSUME NEW a \in RelArchs, NEW q, NEW o, KinR(a, q, o), FormR(a, o), ~ q.rela,
             q.type = o.type, q.type \notin Exempt,
         NEW p, Converted(p, q, o)
  PROVE  /\ KinR(a, p, o) /\ Placed(p, q) /\ p.mem = q.mem /\ p.type = q.type /\ p.rela
         /\ p.got = q.got /\ p.base = q.base /\ p.ok = q.ok
<1>1. PICK v \in Int : /\ p = [q EXCEPT !.rela = TRUE, !.addend = v]
                       /\ v = IF q.type \in AddrR THEN Target(q)
                              ELSE IF q.type = "PC24" THEN arm_pc24_addend(o.mem.val)
                                ELSE o.mem.val
  BY DEF Converted
<1>2. KinR(a, p, o)
  BY <1>1, ConvertedKin
<1>3. q \in Relocs
  BY DEF KinR
<1> DEFINE g == [q EXCEPT !.rela = TRUE, !.addend = v]
<1>4. /\ Placed(g, q) /\ g.mem = q.mem /\ g.type = q.type /\ g.rela
      /\ g.got = q.got /\ g.base = q.base /\ g.ok = q.ok
  BY <1>3 DEF Relocs, Placed
<1>5. p = g
  BY <1>1
<1> HIDE DEF g
<1> QED BY <1>2, <1>4, <1>5

(* i386_rel_to_rela takes the addend out of the word.                      *)
LEMMA I386Convert ==
  ASSUME NEW a, a = "i386", NEW q, NEW o, KinR(a, q, o), FormR(a, o), ~ q.rela,
             q.type \notin Exempt, q.type = o.type,
         NEW p, p = RelToRela(a, q)
  PROVE  Converted(p, q, o)
<1>1. /\ q \in Relocs /\ o.mem.val \in Int /\ q.mem.val \in Int /\ LdType(a, o)
           /\ a \in RelArchs /\ RelKin(a, q, o)
  <2>1. q \in Relocs /\ o.mem.val \in Int /\ q.mem.val \in Int /\ LdType(a, o)
    BY KinRFacts
  <2>2. a \in RelArchs /\ RelKin(a, q, o)
    BY DEF RelArchs, KinR
  <2> QED BY <2>1, <2>2
<1>2. p = i386_rel_to_rela(q)
  BY DEF RelToRela, Mips
<1>3. q.type \in {"NONE", "RELATIVE", "COPY", "IRELATIVE", "GLOB_DAT", "32", "PC32",
                  "TLS_DTPMOD32", "TLS_DTPOFF32", "TLS_TPOFF32", "TLS_TPOFF"}
  BY <1>1, RelTypes DEF Exempt, Slot
<1>4. CASE q.type \in {"RELATIVE", "IRELATIVE"}
  <2>1. p = [q EXCEPT !.rela = TRUE, !.addend = q.mem.val]
    BY <1>2, <1>4 DEF i386_rel_to_rela
  <2>2. q.mem.val = Target(q)
    BY <1>1, <1>4 DEF RelKin, AddrR
  <2> QED BY <1>1, <1>4, <2>1, <2>2 DEF Converted, AddrR
<1>5. CASE q.type \in {"32", "PC32", "TLS_TPOFF32", "TLS_TPOFF"}
  <2>1. p = [q EXCEPT !.rela = TRUE, !.addend = q.mem.val]
    BY <1>2, <1>5 DEF i386_rel_to_rela
  <2>2. q.mem = o.mem
    BY <1>1, <1>5 DEF RelKin, AddrR, FreeR, Slot
  <2> QED BY <1>1, <1>5, <2>1, <2>2 DEF Converted, AddrR
<1>6. CASE q.type \in {"NONE", "COPY", "GLOB_DAT", "TLS_DTPMOD32", "TLS_DTPOFF32"}
  <2>1. p = [q EXCEPT !.rela = TRUE, !.addend = 0]
    BY <1>2, <1>6 DEF i386_rel_to_rela
  <2>2. o.mem.val = 0
    BY <1>6 DEF FormR, LdWord, ZeroR, DtpMod, mips_DtpMod
  <2> QED BY <1>1, <1>6, <2>1, <2>2 DEF Converted, AddrR
<1> QED BY <1>3, <1>4, <1>5, <1>6

(* i386_prelink_rel and i386_prelink_rela keep what undoing needs.         *)
LEMMA I386Prelink ==
  ASSUME NEW a, a = "i386", NEW q, NEW o, KinR(a, q, o), FormR(a, o), NEW mx, Ready(a, mx, q),
             q.type # o.type => ~ mx,
         NEW s \in Syms, NEW m, m = PrelinkRel(a, q, s)
  PROVE  KinR(a, m, o) /\ KeptR(m, q) /\ (m.type # o.type => ~ mx) /\ Done(a, m)
<1>1. /\ q \in Relocs /\ q.addend \in Int /\ q.base \in Nat /\ q.off \in Nat /\ s.val \in Int
           /\ s.tlsoffset \in Int
      /\ LdType(a, o) /\ a \in RelArchs /\ q.rela \in BOOLEAN /\ q.exec = o.exec
  <2>1. /\ q \in Relocs /\ q.addend \in Int /\ q.base \in Nat /\ q.off \in Nat /\ LdType(a, o)
             /\ q.rela \in BOOLEAN
    BY KinRFacts
  <2>2. q.exec = o.exec
    BY DEF KinR, Placed
  <2> QED BY <2>1, <2>2 DEF RelArchs, Syms
<1>2. m = IF q.rela THEN i386_prelink_rela(q, s) ELSE i386_prelink_rel(q, s)
  BY DEF PrelinkRel, X86_64, Ppc, Mips
<1>3. /\ q.type \in {"NONE", "RELATIVE", "COPY", "IRELATIVE", "GLOB_DAT", "JMP_SLOT", "32",
                     "PC32", "TLS_DTPMOD32", "TLS_DTPOFF32", "TLS_TPOFF32", "TLS_TPOFF"}
      /\ ~ q.exec => q.type # "COPY"
      /\ q.exec => q.type # "TLS_DTPMOD32"
  <2>1. /\ o.type \in {"NONE", "RELATIVE", "COPY", "IRELATIVE", "GLOB_DAT", "JMP_SLOT", "32",
                       "PC32", "TLS_DTPMOD32", "TLS_DTPOFF32", "TLS_TPOFF32", "TLS_TPOFF"}
        /\ ~ o.exec => o.type # "COPY"
        /\ o.exec => o.type # "TLS_DTPMOD32"
    BY <1>1, RelTypes DEF Mips
  <2>2. q.type \in {o.type, "GLOB_DAT"}
    BY DEF KinR, SameR
  <2> QED BY <1>1, <2>1, <2>2
<1> DEFINE v == s.val + q.addend
           x == s.val + q.addend - P(q)
           y == s.val + q.addend - s.tlsoffset
<1>4. v \in Int /\ x \in Int /\ y \in Int /\ - y \in Int
  BY <1>1 DEF P
<1>5. ASSUME m = q, Done(a, q) PROVE KinR(a, m, o) /\ KeptR(m, q) /\ (m.type # o.type => ~ mx)
             /\ Done(a, m)
  BY <1>5, SameKinR, KeptKeptR
<1>6. ASSUME NEW w \in Int, m \in {q, Put(q, 4, w)}, q.rela => q.type \notin Still
                 \union {"PC24"}, ~ q.rela => q.type \in FreeR(a)
      PROVE KinR(a, m, o) /\ KeptR(m, q) /\ (m.type # o.type => ~ mx) /\ Done(a, m)
  <2>1. KinR(a, m, o) /\ Kept(m, q)
    BY <1>6, PutKinR
  <2>2. Done(a, m)
    BY <1>6, <2>1 DEF Done, Kept, FreeR, Slot, Plain32
  <2> QED BY <2>1, <2>2, KeptKeptR DEF Kept
<1>7. CASE q.rela
  <2>1. q.type # "JMP_SLOT"
    BY <1>7 DEF KinR, RelaKin, Exempt, Slot
  <2>2. CASE q.type \in {"RELATIVE", "IRELATIVE", "NONE", "COPY", "TLS_DTPMOD32"}
    <3>1. m = q
      BY <1>2, <1>3, <1>7, <2>2 DEF i386_prelink_rela
    <3> QED BY <1>5, <1>7, <3>1 DEF Done
  <2>3. CASE q.type \in {"GLOB_DAT", "32", "TLS_DTPOFF32"}
    <3>1. m = Put(q, 4, v)
      BY <1>2, <1>7, <2>3 DEF i386_prelink_rela
    <3> HIDE DEF v
    <3> QED BY <1>4, <1>6, <1>7, <2>3, <3>1 DEF Still
  <2>4. CASE q.type = "PC32"
    <3>1. m = Put(q, 4, x)
      BY <1>2, <1>7, <2>4 DEF i386_prelink_rela
    <3> HIDE DEF x
    <3> QED BY <1>4, <1>6, <1>7, <2>4, <3>1 DEF Still
  <2>5. CASE q.type = "TLS_TPOFF32"
    <3>1. m \in {q, Put(q, 4, - y)}
      BY <1>2, <1>7, <2>5 DEF i386_prelink_rela
    <3> HIDE DEF y
    <3> QED BY <1>4, <1>6, <1>7, <2>5, <3>1 DEF Still
  <2>6. CASE q.type = "TLS_TPOFF"
    <3>1. m \in {q, Put(q, 4, y)}
      BY <1>2, <1>7, <2>6 DEF i386_prelink_rela
    <3> HIDE DEF y
    <3> QED BY <1>4, <1>6, <1>7, <2>6, <3>1 DEF Still
  <2> QED BY <1>3, <2>1, <2>2, <2>3, <2>4, <2>5, <2>6
<1>8. CASE ~ q.rela
  <2>1. CASE q.type \in {"RELATIVE", "IRELATIVE", "NONE", "COPY", "TLS_DTPMOD32", "TLS_TPOFF32", "TLS_TPOFF"}
    <3>1. m = q
      BY <1>2, <1>3, <1>8, <2>1 DEF i386_prelink_rel
    <3> QED BY <1>5, <2>1, <3>1 DEF Done, Plain32
  <2>2. CASE q.type \in {"GLOB_DAT", "JMP_SLOT", "TLS_DTPOFF32"}
    <3>1. m = Put(q, 4, s.val)
      BY <1>2, <1>8, <2>2 DEF i386_prelink_rel
    <3> QED BY <1>1, <1>6, <1>8, <2>2, <3>1 DEF FreeR, Slot
  <2>3. ASSUME q.type \in {"32", "PC32"} PROVE q.type = "32" /\ q.mem.val = 0 /\ ~ mx
    <3>1. ~ NeedRelToRela(a, q) /\ ~ mx
      BY <1>8, <2>3 DEF Ready, Exempt, Slot, mips_Got, mips_Global, mips_Defined, mips_Undefined
    <3> QED BY <2>3, <3>1 DEF NeedRelToRela, Mips, i386_need_rel_to_rela
  <2>4. CASE q.type \in {"32", "PC32"}
    <3>1. m = Put([q EXCEPT !.type = "GLOB_DAT"], 4, s.val)
      BY <1>2, <1>8, <2>3, <2>4 DEF i386_prelink_rel
    <3>2. KinR(a, m, o) /\ KeptR(m, q) /\ m.type = "GLOB_DAT"
      BY <1>1, <1>8, <2>3, <2>4, <3>1, GlobDatKin DEF Plain32
    <3> QED BY <2>3, <2>4, <3>2 DEF Plain32, Done
  <2> QED BY <1>3, <2>1, <2>2, <2>4
<1> QED BY <1>1, <1>7, <1>8

(* i386_undo_prelink_rel, i386_undo_prelink_rela and i386_rela_to_rel      *)
(* leave what ld left.                                                     *)
LEMMA I386Undo ==
  ASSUME NEW a, a = "i386", NEW q, NEW o, KinR(a, q, o), FormR(a, o), q.got = Plt(q),
             Done(a, q),
         NEW n, n = ArchUndo(a, UndoRel(a, q)), NEW k, k = IF n.rela THEN RelaToRel(a, n) ELSE n
  PROVE  FormR(a, k) /\ KinR(a, k, o) /\ k.base = q.base /\ k.ok = q.ok
<1> DEFINE m == UndoRel(a, q)
<1>1. /\ q \in Relocs /\ q.addend \in Int /\ q.base \in Nat /\ q.slot \in Nat /\ q.class = 4
           /\ Placed(q, o) /\ Typed(q)
      /\ LdType(a, o) /\ a \in RelArchs /\ q.rela \in BOOLEAN /\ q.exec = o.exec
           /\ q.inGot = o.inGot /\ o.mem.val \in Int /\ q.got \in Int
      /\ o.mem.width = 4 /\ o.inGot = (o.type \in Slot \union {"GLOB_DAT"})
  <2>1. /\ q \in Relocs /\ q.addend \in Int /\ q.base \in Nat /\ q.slot \in Nat
             /\ q.class = ld_class(a) /\ Placed(q, o) /\ Typed(q)
        /\ LdType(a, o) /\ q.rela \in BOOLEAN
    BY KinRFacts
  <2>4. o.mem.val \in Int /\ q.got \in Int
    BY KinRFacts
  <2>5. q.exec = o.exec /\ q.inGot = o.inGot
    BY DEF KinR, Placed
  <2>2. a \in RelArchs /\ ld_class(a) = 4
    BY DEF RelArchs, ld_class
  <2>3. o.mem.width = ld_width(a, o) /\ o.class = ld_class(a)
          /\ o.inGot = (o.type \in Slot \union {"GLOB_DAT"})
    BY DEF FormR
  <2> QED BY <2>1, <2>2, <2>3, <2>4, <2>5, RelWidth
<1>2. q.code = NoCode /\ q.code = o.code
  BY DEF KinR, FormR
<1>3. n = i386_arch_undo_prelink(m)
  BY DEF ArchUndo, X86_64, Ppc, Mips, m
<1>4. /\ q.type \in {"NONE", "RELATIVE", "COPY", "IRELATIVE", "GLOB_DAT", "JMP_SLOT", "32",
                     "PC32", "TLS_DTPMOD32", "TLS_DTPOFF32", "TLS_TPOFF32", "TLS_TPOFF"}
      /\ ~ q.exec => q.type # "COPY"
      /\ q.type # o.type => q.type = "GLOB_DAT" /\ o.type = "32" /\ ~ q.inGot
  BY <1>1, RelTypes DEF KinR, SameR, Plain32, Slot
<1> HIDE DEF m
<1>5. ASSUME m \in Relocs, m.got = Plt(m)
      PROVE  /\ n \in Relocs /\ Placed(n, m) /\ n.mem = m.mem /\ n.type = m.type
                  /\ n.rela = m.rela
             /\ n.addend = m.addend /\ n.got = 0 /\ n.base = m.base /\ n.code = m.code
                  /\ n.ok = m.ok
  BY <1>3, <1>5, ClearedGot DEF i386_arch_undo_prelink
<1>6. CASE q.rela
  <2>1. m = q
    BY <1>1, <1>6 DEF m, UndoRel, X86_64, Ppc, Mips
  <2>2. /\ n \in Relocs /\ Placed(n, q) /\ n.type = q.type /\ n.rela
        /\ n.addend = q.addend /\ n.got = 0 /\ n.base = q.base /\ n.code = q.code /\ n.ok = q.ok
    BY <1>1, <1>5, <1>6, <2>1
  <2>3. k = i386_rela_to_rel(n)
    BY <2>2 DEF RelaToRel, Mips
  <2>4. RelaKin(a, q, o) /\ q.type = o.type /\ q.type # "JMP_SLOT"
    BY <1>6 DEF KinR, SameR, RelaKin, Exempt, Slot
  <2>5. k = Put(AsRel(n, 0), 4, WordR(a, n, o)) /\ WordR(a, n, o) \in Int
    <3>1. CASE q.type \in {"RELATIVE", "IRELATIVE"}
      <4>1. WordR(a, n, o) = n.addend
        BY <2>2, <2>4, <3>1 DEF WordR, RelaKin, AddrR, Target
      <4> QED BY <1>1, <2>2, <2>3, <3>1, <4>1 DEF i386_rela_to_rel, AsRel
    <3>2. CASE q.type \in {"32", "PC32", "TLS_TPOFF32", "TLS_TPOFF"}
      <4>1. WordR(a, n, o) = n.addend
        BY <2>2, <2>4, <3>2 DEF WordR, RelaKin, AddrR, Slot
      <4> QED BY <1>1, <2>2, <2>3, <3>2, <4>1 DEF i386_rela_to_rel, AsRel
    <3>3. CASE q.type \in {"NONE", "COPY", "GLOB_DAT", "TLS_DTPMOD32", "TLS_DTPOFF32"}
      <4>1. o.mem.val = 0
        BY <2>4, <3>3 DEF FormR, LdWord, ZeroR, DtpMod, mips_DtpMod
      <4>2. WordR(a, n, o) = 0
        BY <2>2, <3>3, <4>1 DEF WordR, AddrR, Slot
      <4> QED BY <2>2, <2>3, <3>3, <4>2 DEF i386_rela_to_rel, AsRel
    <3> QED BY <1>4, <2>4, <3>1, <3>2, <3>3
  <2>6. /\ k \in Relocs /\ Placed(k, n) /\ k.mem.width = 4 /\ k.mem.val = WordR(a, n, o)
             /\ k.type = n.type /\ ~ k.rela
        /\ k.addend = 0 /\ k.got = n.got /\ k.base = n.base /\ k.code = n.code /\ k.ok = n.ok
    <3> DEFINE x == WordR(a, n, o)
    <3>1. n \in Relocs /\ x \in Int /\ 4 \in Nat /\ k = Put(AsRel(n, 0), 4, x)
      BY <2>2, <2>5
    <3> HIDE DEF x
    <3>2. /\ k \in Relocs /\ Placed(k, n) /\ k.mem.width = 4 /\ k.mem.val = x
               /\ k.type = n.type /\ ~ k.rela
          /\ k.addend = 0 /\ k.got = n.got /\ k.base = n.base /\ k.code = n.code /\ k.ok = n.ok
      BY <3>1, ToRel
    <3> QED BY <3>2 DEF x
  <2>7. WordR(a, k, o) = WordR(a, n, o)
    BY <2>6 DEF WordR, Target, Plt, mips_stub, Placed
  <2>8. Placed(k, o) /\ k.class = 4
    BY <1>1, <2>2, <2>6 DEF Placed
  <2> QED BY <1>1, <1>2, <2>2, <2>4, <2>6, <2>7, <2>8, RestoredR
<1>7. CASE ~ q.rela
  <2>1. m = i386_undo_prelink_rel(q)
    BY <1>7 DEF m, UndoRel, X86_64, Ppc, Mips, RelArchs
  <2>2. RelKin(a, q, o)
    BY <1>7 DEF KinR
  <2>3. /\ m \in Relocs /\ Placed(m, q) /\ m.type = o.type /\ m.rela = FALSE /\ m.addend = 0
             /\ m.got = q.got /\ m.base = q.base
        /\ m.code = q.code /\ m.ok = q.ok /\ m.mem.width = 4 /\ m.mem.val = WordR(a, m, o)
    <3>1. CASE q.type \in {"RELATIVE", "IRELATIVE", "NONE", "COPY", "TLS_TPOFF32", "TLS_TPOFF"}
      <4>1. m = q
        BY <1>4, <2>1, <3>1 DEF i386_undo_prelink_rel
      <4>2. q.type = o.type /\ Placed(q, q)
        BY <1>4, <3>1 DEF Placed
      <4>3. CASE q.type \in {"RELATIVE", "IRELATIVE"}
        BY <1>1, <1>7, <2>2, <4>1, <4>2, <4>3 DEF RelKin, AddrR, WordR
      <4>4. CASE q.type \notin {"RELATIVE", "IRELATIVE"}
        <5>1. q.mem = o.mem
          BY <2>2, <3>1, <4>4 DEF RelKin, AddrR, FreeR, Slot
        <5>2. WordR(a, q, o) = o.mem.val
          BY <3>1, <4>4 DEF WordR, AddrR, Slot
        <5> QED BY <1>1, <1>7, <2>2, <4>1, <4>2, <5>1, <5>2 DEF RelKin
      <4> QED BY <4>3, <4>4
    <3>2. CASE q.type = "JMP_SLOT"
      <4> DEFINE v == 4 * (4 * q.slot) + q.got
      <4>1. q.inGot /\ q.type = o.type
        BY <1>1, <1>4, <3>2 DEF Slot
      <4>2. m = Put(q, 4, v)
        BY <2>1, <3>2, <4>1 DEF i386_undo_prelink_rel
      <4>3. v \in Int /\ v = Plt(q) + 16 * q.slot
        BY <1>1 DEF Plt, PltOffset
      <4> HIDE DEF v
      <4>4. Alike(m, q) /\ m.mem = [width |-> 4, val |-> v] /\ m.addend = q.addend
        BY <1>1, <4>2, <4>3, PutIs
      <4>5. WordR(a, m, o) = Plt(q) + 16 * q.slot
        BY <3>2, <4>4 DEF WordR, AddrR, Slot, ld_plt_entry, Alike, Placed, Plt
      <4> QED BY <1>7, <2>2, <4>1, <4>3, <4>4, <4>5 DEF Alike, RelKin
    <3>3. CASE q.type \in {"TLS_DTPMOD32", "TLS_DTPOFF32"} \/ (q.type = "GLOB_DAT" /\ q.inGot)
      <4>1. m = Put(q, 4, 0)
        BY <2>1, <3>3 DEF i386_undo_prelink_rel
      <4>2. q.type = o.type
        BY <1>4, <3>3
      <4>3. Alike(m, q) /\ m.mem = [width |-> 4, val |-> 0] /\ m.addend = q.addend
        BY <1>1, <4>1, PutIs
      <4>4. o.mem.val = 0
        BY <3>3, <4>2 DEF FormR, LdWord, ZeroR, DtpMod, mips_DtpMod
      <4>5. WordR(a, m, o) = 0
        BY <3>3, <4>3, <4>4 DEF WordR, AddrR, Slot, Alike
      <4> QED BY <1>7, <2>2, <4>2, <4>3, <4>5 DEF Alike, RelKin
    <3>4. CASE q.type = "GLOB_DAT" /\ ~ q.inGot
      <4> DEFINE g == [q EXCEPT !.type = "32"]
      <4>1. m = Put(g, 4, 0)
        BY <2>1, <3>4 DEF i386_undo_prelink_rel
      <4>2. o.type = "32" /\ o.mem.val = 0
        BY <1>1, <1>4, <3>4 DEF KinR, SameR
      <4>3. "32" \in Types
        BY DEF Types
      <4>4. /\ g \in Relocs /\ Placed(g, q) /\ g.type = "32" /\ g.rela = q.rela
            /\ g.addend = q.addend /\ g.got = q.got /\ g.base = q.base /\ g.code = q.code
                 /\ g.ok = q.ok
        BY <1>1, <4>3, TypeFacts
      <4> HIDE DEF g
      <4>5. Alike(m, g) /\ m.mem = [width |-> 4, val |-> 0] /\ m.addend = g.addend
        BY <4>1, <4>4, PutIs
      <4>6. WordR(a, m, o) = 0
        BY <4>2, <4>4, <4>5 DEF WordR, AddrR, Slot, Alike
      <4> QED BY <1>7, <2>2, <4>2, <4>4, <4>5, <4>6 DEF Alike, RelKin, Placed
    <3>5. q.type \notin {"32", "PC32"}
      BY <1>7 DEF Done, Plain32
    <3> QED BY <1>4, <3>1, <3>2, <3>3, <3>4, <3>5
  <2>4. m.got = Plt(m)
    BY <2>3 DEF Plt
  <2>5. /\ n \in Relocs /\ Placed(n, m) /\ n.mem = m.mem /\ n.type = m.type /\ n.rela = m.rela
        /\ n.addend = m.addend /\ n.got = 0 /\ n.base = m.base /\ n.code = m.code /\ n.ok = m.ok
    BY <1>5, <2>3, <2>4
  <2>6. k = n
    BY <2>3, <2>5
  <2>7. WordR(a, n, o) = WordR(a, m, o)
    BY <2>5 DEF WordR, Target, Plt, mips_stub, Placed
  <2>8. Placed(n, o) /\ n.class = 4
    BY <1>1, <2>3, <2>5 DEF Placed
  <2> QED BY <1>1, <1>2, <2>3, <2>5, <2>6, <2>7, <2>8, RestoredR
<1> QED BY <1>1, <1>6, <1>7

-----------------------------------------------------------------------------
(* arm.                                                                    *)

(* p is q but for the type, the addend and the word, and may be refused.   *)
KeptB(p, q) ==
  /\ p \in Relocs /\ Placed(p, q) /\ p.rela = q.rela /\ p.got = q.got /\ p.base = q.base

(* A relocation that was refused is otherwise what it was.                 *)
LEMMA BadFacts ==
  \A q \in Relocs :
    /\ Bad(q) \in Relocs /\ Placed(Bad(q), q) /\ Bad(q).mem = q.mem /\ Bad(q).type = q.type
         /\ Bad(q).rela = q.rela
    /\ Bad(q).addend = q.addend /\ Bad(q).got = q.got /\ Bad(q).base = q.base
         /\ Bad(q).code = q.code /\ ~ Bad(q).ok
  BY DEF Relocs, Placed, Bad

(* The displacement of a branch is an integer.                             *)
LEMMA BranchInt ==
  ASSUME NEW w \in Int
  PROVE  arm_pc24_addend(w) \in Int
  BY SMT DEF arm_pc24_addend

(* Writing a displacement gives a branch.                                  *)
LEMMA BranchPut ==
  ASSUME NEW w, Branch(w), NEW x \in Int
  PROVE  arm_pc24(w, x) \in Int /\ Branch(arm_pc24(w, x))
<1> DEFINE y == x \div 4
           z == Insert(w, 0, 24, y)
<1>1. y \in Int /\ w \in Int /\ Insert(w, 0, 24, 0) = 5 * 2^24
  BY SMT DEF Branch
<1> HIDE DEF y
<1>2. z \in Int /\ Insert(z, 0, 24, 0) = Insert(w, 0, 24, 0)
  BY SMT, <1>1 DEF Insert, Field
<1>3. arm_pc24(w, x) = z
  BY DEF arm_pc24, y
<1> HIDE DEF z
<1> QED BY <1>1, <1>2, <1>3 DEF Branch

(* The branch comes back from its addend.                                  *)
LEMMA BranchRestored ==
  ASSUME NEW w, Branch(w), NEW v, Branch(v)
  PROVE  arm_pc24(w, arm_pc24_addend(v)) = v
<1>1. w \in Int /\ v \in Int
  BY DEF Branch
<1>2. w - (w % 16777216) = 83886080 /\ v - (v % 16777216) = 83886080
  BY SMT, <1>1 DEF Branch, Insert, Field
<1> DEFINE x == ((v + 8388608) % 16777216) - 8388608
<1>3. x \in Int /\ x % 16777216 = v % 16777216
  BY SMT, <1>1
<1>4. arm_pc24_addend(v) = 4 * x
  BY SMT, <1>1 DEF arm_pc24_addend
<1> HIDE DEF x
<1>5. (4 * x) \div 4 = x
  BY SMT, <1>3
<1>6. arm_pc24(w, arm_pc24_addend(v)) = Insert(w, 0, 24, x)
  BY <1>4, <1>5 DEF arm_pc24
<1>7. Insert(w, 0, 24, x) = (w - (w % 16777216)) + (x % 16777216)
  BY SMT, <1>1, <1>3 DEF Insert, Field
<1> QED BY SMT, <1>1, <1>2, <1>3, <1>6, <1>7

(* arm_adjust_rel and arm_adjust_rela move what points into the object.    *)
LEMMA ArmMove ==
  ASSUME NEW a, a = "arm", NEW q, NEW o, KinR(a, q, o), FormR(a, o), NEW d \in Int, NEW m,
             m = AdjustRel(a, q, d)
  PROVE  MovesBy(a, m, q, d)
<1> DEFINE xx == q.addend + d
           w == q.mem.val + d
<1>1. /\ q \in Relocs /\ xx \in Int /\ w \in Int /\ q.class = 4 /\ q.rela \in BOOLEAN
           /\ LdType(a, o) /\ a \in RelArchs
  <2>1. /\ q \in Relocs /\ q.addend \in Int /\ q.mem.val \in Int /\ q.class = ld_class(a)
             /\ q.rela \in BOOLEAN /\ LdType(a, o)
    BY KinRFacts
  <2> QED BY <2>1 DEF ld_class, RelArchs
<1>2. m = IF q.rela THEN arm_adjust_rela(q, d) ELSE arm_adjust_rel(q, d)
  BY DEF AdjustRel, X86_64, Ppc, Mips
<1>3. q.type \in {"NONE", "RELATIVE", "COPY", "IRELATIVE", "GLOB_DAT", "JUMP_SLOT", "ABS32",
                  "PC24", "TLS_DESC", "TLS_DESC_NOW", "TLS_DTPMOD32", "TLS_DTPOFF32", "TLS_TPOFF32"}
  BY <1>1, RelTypes DEF KinR, SameR, Mips
<1> HIDE DEF xx, w
<1>5. CASE q.type \in {"RELATIVE", "IRELATIVE"} /\ ~ q.rela
  <2>1. m = Put(q, 4, w)
    BY <1>2, <1>5 DEF arm_adjust_rel, w
  <2>2. Alike(m, q) /\ m.mem = [width |-> 4, val |-> w] /\ m.addend = q.addend
    BY <1>1, <2>1, PutIs
  <2> QED BY <1>1, <1>5, <2>2 DEF MovesBy, AddrR, Slot, FreeR, w
<1>6. CASE q.type \in {"RELATIVE", "IRELATIVE"} /\ q.rela
  <2>1. m = Put(WithAddend(q, xx), 4, xx)
    BY <1>2, <1>6 DEF arm_adjust_rela, xx, WithAddend
  <2> DEFINE g == WithAddend(q, xx)
  <2>2. Alike(g, q) /\ g.addend = xx /\ g \in Relocs
    BY <1>1, WithAddendIs DEF Alike
  <2>0. m = Put(g, 4, xx)
    BY <2>1
  <2> HIDE DEF g
  <2>8. g \in Relocs
    BY <2>2
  <2>9. xx \in Int /\ 4 \in Nat
    BY <1>1
  <2>7. Alike(m, g) /\ m.addend = g.addend
    BY <2>0, <2>8, <2>9, PutWritten DEF Written
  <2>3. Alike(m, q) /\ m.addend = xx
    BY <2>2, <2>7 DEF Alike, Placed
  <2>4. ~ FormR(a, q)
    BY <1>6 DEF FormR
  <2>5. m.addend = q.addend + d
    BY <2>3 DEF xx
  <2> QED BY <1>6, <2>3, <2>4, <2>5 DEF MovesBy, AddrR
<1>7. CASE q.type = "JUMP_SLOT"
  <2>0. ~ q.rela
    BY <1>1, <1>7 DEF KinR, RelaKin, Exempt, Slot
  <2>1. m = Put(q, 4, w)
    BY <1>2, <1>7, <2>0 DEF arm_adjust_rel, w
  <2>2. Alike(m, q) /\ m.mem = [width |-> 4, val |-> w] /\ m.addend = q.addend
    BY <1>1, <2>1, PutIs
  <2> QED BY <1>1, <1>7, <2>0, <2>2 DEF MovesBy, AddrR, Slot, FreeR, w
<1>8. CASE q.type \notin {"RELATIVE", "IRELATIVE", "JUMP_SLOT"}
  <2>1. m = q
    BY <1>2, <1>8 DEF arm_adjust_rel, arm_adjust_rela
  <2>2. Alike(m, q)
    BY <1>1, <2>1 DEF Alike, Placed
  <2> QED BY <1>3, <1>8, <2>1, <2>2 DEF MovesBy, AddrR, Slot
<1> QED BY <1>5, <1>6, <1>7, <1>8

(* arm_rel_to_rela takes the addend out of the word.                       *)
LEMMA ArmConvert ==
  ASSUME NEW a, a = "arm", NEW q, NEW o, KinR(a, q, o), FormR(a, o), ~ q.rela,
             q.type \notin Exempt, q.type = o.type,
         NEW p, p = RelToRela(a, q)
  PROVE  Converted(p, q, o)
<1>1. /\ q \in Relocs /\ o.mem.val \in Int /\ q.mem.val \in Int /\ LdType(a, o)
           /\ a \in RelArchs /\ RelKin(a, q, o)
  <2>1. q \in Relocs /\ o.mem.val \in Int /\ q.mem.val \in Int /\ LdType(a, o)
    BY KinRFacts
  <2>2. a \in RelArchs /\ RelKin(a, q, o)
    BY DEF RelArchs, KinR
  <2> QED BY <2>1, <2>2
<1>2. p = arm_rel_to_rela(q)
  BY DEF RelToRela, Mips
<1>3. q.type \in {"NONE", "RELATIVE", "COPY", "IRELATIVE", "GLOB_DAT", "ABS32", "PC24",
                  "TLS_DTPMOD32", "TLS_DTPOFF32", "TLS_TPOFF32"}
  BY <1>1, RelTypes DEF Exempt, Slot
<1>4. CASE q.type \in {"RELATIVE", "IRELATIVE"}
  <2>1. p = [q EXCEPT !.rela = TRUE, !.addend = q.mem.val]
    BY <1>2, <1>4 DEF arm_rel_to_rela, arm_InPlace
  <2>2. q.mem.val = Target(q)
    BY <1>1, <1>4 DEF RelKin, AddrR
  <2> QED BY <1>1, <1>4, <2>1, <2>2 DEF Converted, AddrR
<1>5. CASE q.type \in {"ABS32", "TLS_TPOFF32", "TLS_DTPOFF32"}
  <2>1. p = [q EXCEPT !.rela = TRUE, !.addend = q.mem.val]
    BY <1>2, <1>5 DEF arm_rel_to_rela, arm_InPlace
  <2>2. q.mem = o.mem
    BY <1>1, <1>5 DEF RelKin, AddrR, FreeR, Slot
  <2> QED BY <1>1, <1>5, <2>1, <2>2 DEF Converted, AddrR
<1>6. CASE q.type = "PC24"
  <2> DEFINE x == arm_pc24_addend(o.mem.val)
  <2>0. q.mem = o.mem
    BY <1>1, <1>6 DEF RelKin, AddrR, FreeR, Slot
  <2>1. p = [q EXCEPT !.rela = TRUE, !.addend = x]
    BY <1>2, <1>6, <2>0 DEF arm_rel_to_rela, arm_InPlace
  <2>2. x \in Int
    BY <1>1, BranchInt
  <2>3. x = IF q.type \in AddrR THEN Target(q)
            ELSE IF q.type = "PC24" THEN arm_pc24_addend(o.mem.val) ELSE o.mem.val
    BY <1>6 DEF AddrR
  <2> HIDE DEF x
  <2> QED BY <2>1, <2>2, <2>3 DEF Converted
<1>7. CASE q.type \in {"NONE", "COPY", "GLOB_DAT", "TLS_DTPMOD32"}
  <2>1. p = [q EXCEPT !.rela = TRUE, !.addend = 0]
    BY <1>2, <1>7 DEF arm_rel_to_rela, arm_InPlace
  <2>2. o.mem.val = 0
    BY <1>7 DEF FormR, LdWord, ZeroR, DtpMod, mips_DtpMod
  <2> QED BY <1>1, <1>7, <2>1, <2>2 DEF Converted, AddrR
<1> QED BY <1>3, <1>4, <1>5, <1>6, <1>7

(* arm_prelink_rel and arm_prelink_rela keep what undoing needs.           *)
LEMMA ArmPrelink ==
  ASSUME NEW a, a = "arm", NEW q, NEW o, KinR(a, q, o), FormR(a, o), NEW mx, Ready(a, mx, q),
             q.type # o.type => ~ mx,
         q.mem.val # 0 => q.got # 0 \/ q.type # "TLS_DESC",
         NEW s \in Syms, NEW m, m = PrelinkRel(a, q, s)
  PROVE  /\ KinR(a, m, o) /\ KeptB(m, q) /\ (m.type # o.type => ~ mx) /\ Done(a, m)
         /\ q.type \notin {"PC24", "TLS_DESC_NOW"} => m.ok = q.ok
<1>1. /\ q \in Relocs /\ q.addend \in Int /\ q.base \in Nat /\ q.off \in Nat /\ s.val \in Int
           /\ s.tlsoffset \in Int
      /\ LdType(a, o) /\ a \in RelArchs /\ q.rela \in BOOLEAN /\ q.exec = o.exec
  <2>1. /\ q \in Relocs /\ q.addend \in Int /\ q.base \in Nat /\ q.off \in Nat /\ LdType(a, o)
             /\ q.rela \in BOOLEAN
    BY KinRFacts
  <2>2. q.exec = o.exec
    BY DEF KinR, Placed
  <2> QED BY <2>1, <2>2 DEF RelArchs, Syms
<1>2. m = IF q.rela THEN arm_prelink_rela(q, s) ELSE arm_prelink_rel(q, s)
  BY DEF PrelinkRel, X86_64, Ppc, Mips
<1>3. /\ q.type \in {"NONE", "RELATIVE", "COPY", "IRELATIVE", "GLOB_DAT", "JUMP_SLOT", "ABS32",
                     "PC24", "TLS_DESC", "TLS_DESC_NOW",
                     "TLS_DTPMOD32", "TLS_DTPOFF32", "TLS_TPOFF32"}
      /\ ~ q.exec => q.type # "COPY"
      /\ q.exec => q.type # "TLS_DTPMOD32"
  <2>1. /\ o.type \in {"NONE", "RELATIVE", "COPY", "IRELATIVE", "GLOB_DAT", "JUMP_SLOT",
                       "ABS32", "PC24", "TLS_DESC", "TLS_DESC_NOW", "TLS_DTPMOD32", "TLS_DTPOFF32",
                       "TLS_TPOFF32"}
        /\ ~ o.exec => o.type # "COPY"
        /\ o.exec => o.type # "TLS_DTPMOD32"
    BY <1>1, RelTypes DEF Mips
  <2>2. q.type \in {o.type, "GLOB_DAT"}
    BY DEF KinR, SameR
  <2> QED BY <1>1, <2>1, <2>2
<1> DEFINE v == s.val + q.addend
           x == (s.val + q.addend) - P(q)
           y == (s.val + q.addend) + s.tlsoffset
           z == arm_tlsdesc_plt(q)
<1>4. v \in Int /\ x \in Int /\ y \in Int /\ z \in Int
  BY <1>1 DEF P, arm_tlsdesc_plt, Plt, PltOffset
<1> DEFINE Goal == /\ KinR(a, m, o) /\ KeptB(m, q) /\ (m.type # o.type => ~ mx) /\ Done(a, m)
                   /\ q.type \notin {"PC24", "TLS_DESC_NOW"} => m.ok = q.ok
<1>5. ASSUME m = q, Done(a, q) PROVE Goal
  <2>1. KinR(a, m, o) /\ Kept(m, q)
    BY <1>5, SameKinR
  <2> QED BY <1>5, <2>1 DEF KeptB, Kept
<1>6. ASSUME NEW w \in Int, m \in {q, Put(q, 4, w)}, q.rela => q.type \notin Still
                 \union {"PC24"}, ~ q.rela => q.type \in FreeR(a)
      PROVE Goal
  <2>1. KinR(a, m, o) /\ Kept(m, q)
    BY <1>6, PutKinR
  <2>2. Done(a, m)
    BY <1>6, <2>1 DEF Done, Kept, FreeR, Slot, Plain32
  <2> QED BY <2>1, <2>2 DEF Kept, KeptB
<1>7. CASE q.rela
  <2>1. q.type \notin {"JUMP_SLOT", "TLS_DESC", "TLS_DESC_NOW"}
    BY <1>7 DEF KinR, RelaKin, Exempt, Slot
  <2>2. CASE q.type \in {"RELATIVE", "IRELATIVE", "NONE", "COPY", "TLS_DTPMOD32"}
    <3>1. m = q
      BY <1>2, <1>3, <1>7, <2>2 DEF arm_prelink_rela, arm_prelink_common, arm_Words
    <3> QED BY <1>5, <1>7, <3>1 DEF Done
  <2>3. CASE q.type \in {"GLOB_DAT", "ABS32", "TLS_DTPOFF32"}
    <3>1. m = Put(q, 4, v)
      BY <1>2, <1>7, <2>3 DEF arm_prelink_rela, arm_Words
    <3> HIDE DEF v
    <3> QED BY <1>4, <1>6, <1>7, <2>3, <3>1 DEF Still
  <2>4. CASE q.type = "PC24"
    <3> DEFINE w == arm_pc24(q.mem.val, x)
    <3>1. m = Put(q, 4, w) \/ m = Bad(q)
      BY <1>2, <1>7, <2>4 DEF arm_prelink_rela, arm_Words
    <3>2. q.mem.width = 4 /\ Branch(q.mem.val) /\ RelaKin(a, q, o) /\ Placed(q, o)
            /\ o \in Relocs /\ q.code = o.code /\ q.type = o.type
      BY <1>7, <2>4 DEF KinR, RelaKin, SameR
    <3>3. w \in Int /\ Branch(w)
      <4> HIDE DEF x
      <4> QED BY <1>4, <3>2, BranchPut
    <3> HIDE DEF w
    <3>4. CASE m = Bad(q)
      <4>1. /\ m \in Relocs /\ Placed(m, q) /\ m.type = q.type /\ m.rela = q.rela
                 /\ m.addend = q.addend /\ m.mem = q.mem
            /\ m.base = q.base /\ m.code = q.code /\ m.got = q.got
        BY <1>1, <3>4, BadFacts
      <4>2. KinR(a, m, o)
        BY <4>1, KinRGot
      <4> QED BY <1>7, <2>4, <3>2, <4>1, <4>2 DEF KeptB, Done
    <3>5. CASE m = Put(q, 4, w)
      <4>1. Alike(m, q) /\ m.mem = [width |-> 4, val |-> w] /\ m.addend = q.addend
        BY <1>1, <3>3, <3>5, PutIs
      <4>2. Placed(m, o) /\ m \in Relocs /\ m.type = "PC24" /\ m.rela /\ m.code = o.code
        BY <1>7, <2>4, <3>2, <4>1 DEF Alike, Placed
      <4>3. RelaKin(a, m, o)
        BY <2>4, <3>2, <3>3, <4>1, <4>2 DEF RelaKin, AddrR, Still
      <4>4. KinR(a, m, o)
        BY <2>4, <3>2, <4>2, <4>3 DEF KinR, SameR
      <4> QED BY <2>4, <3>2, <4>1, <4>2, <4>4 DEF KeptB, Alike, Done
    <3> QED BY <3>1, <3>4, <3>5
  <2>5. CASE q.type = "TLS_TPOFF32"
    <3>1. m \in {q, Put(q, 4, y)}
      BY <1>2, <1>7, <2>5 DEF arm_prelink_rela, arm_Words
    <3> HIDE DEF y
    <3> QED BY <1>4, <1>6, <1>7, <2>5, <3>1 DEF Still
  <2> QED BY <1>3, <2>1, <2>2, <2>3, <2>4, <2>5
<1>8. CASE ~ q.rela
  <2>1. CASE q.type \in {"RELATIVE", "IRELATIVE", "NONE", "COPY", "TLS_DTPMOD32"}
    <3>1. m = q
      BY <1>2, <1>3, <1>8, <2>1 DEF arm_prelink_rel, arm_prelink_common
    <3> QED BY <1>5, <2>1, <3>1 DEF Done, Plain32
  <2>2. CASE q.type \in {"GLOB_DAT", "JUMP_SLOT"}
    <3>1. m = Put(q, 4, s.val)
      BY <1>2, <1>8, <2>2 DEF arm_prelink_rel
    <3> QED BY <1>1, <1>6, <1>8, <2>2, <3>1 DEF FreeR, Slot
  <2>3. CASE q.type = "TLS_DESC"
    <3>1. m = Put(q, 4, z)
      BY <1>2, <1>8, <2>3 DEF arm_prelink_rel, arm_prelink_common
    <3> HIDE DEF z
    <3> QED BY <1>4, <1>6, <1>8, <2>3, <3>1 DEF FreeR, Slot
  <2>4. ASSUME q.type \in {"ABS32", "PC24", "TLS_TPOFF32", "TLS_DTPOFF32"}
               PROVE q.type = "ABS32" /\ q.mem.val = 0 /\ ~ mx
    <3>1. ~ NeedRelToRela(a, q) /\ ~ mx
      BY <1>8, <2>4 DEF Ready, Exempt, Slot, mips_Got, mips_Global, mips_Defined, mips_Undefined
    <3> QED BY <2>4, <3>1 DEF NeedRelToRela, Mips, arm_need_rel_to_rela
  <2>5. CASE q.type \in {"ABS32", "PC24", "TLS_TPOFF32", "TLS_DTPOFF32"}
    <3>1. m = Put([q EXCEPT !.type = "GLOB_DAT"], 4, s.val)
      BY <1>2, <1>8, <2>4, <2>5 DEF arm_prelink_rel
    <3>2. KinR(a, m, o) /\ KeptR(m, q) /\ m.type = "GLOB_DAT"
      BY <1>1, <1>8, <2>4, <2>5, <3>1, GlobDatKin DEF Plain32
    <3> QED BY <2>4, <2>5, <3>2 DEF Plain32, Done, KeptR, KeptB
  <2>6. CASE q.type = "TLS_DESC_NOW"
    <3>1. m = Bad(q)
      BY <1>2, <1>8, <2>6 DEF arm_prelink_rel, arm_prelink_common
    <3>2. /\ m \in Relocs /\ Placed(m, q) /\ m.type = q.type /\ m.rela = q.rela
               /\ m.addend = q.addend /\ m.mem = q.mem
          /\ m.base = q.base /\ m.code = q.code /\ m.got = q.got
      BY <1>1, <3>1, BadFacts
    <3>3. KinR(a, m, o)
      BY <3>2, KinRGot
    <3>4. q.type = o.type
      BY <2>6 DEF KinR, SameR
    <3> QED BY <1>8, <2>6, <3>2, <3>3, <3>4 DEF KeptB, Done, Plain32
  <2> QED BY <1>3, <2>1, <2>2, <2>3, <2>5, <2>6
<1> QED BY <1>1, <1>7, <1>8

(* arm_undo_prelink_rel, arm_undo_prelink_rela and arm_rela_to_rel leave   *)
(* what ld left.                                                           *)
LEMMA ArmUndo ==
  ASSUME NEW a, a = "arm", NEW q, NEW o, KinR(a, q, o), FormR(a, o), q.got = Plt(q), Done(a, q),
         NEW n, n = ArchUndo(a, UndoRel(a, q)), NEW k, k = IF n.rela THEN RelaToRel(a, n) ELSE n
  PROVE  FormR(a, k) /\ KinR(a, k, o) /\ k.base = q.base /\ k.ok = q.ok
<1> DEFINE m == UndoRel(a, q)
<1>1. /\ q \in Relocs /\ q.addend \in Int /\ q.base \in Nat /\ q.slot \in Nat /\ q.class = 4
           /\ Placed(q, o) /\ Typed(q)
      /\ LdType(a, o) /\ a \in RelArchs /\ q.rela \in BOOLEAN /\ q.exec = o.exec
           /\ q.inGot = o.inGot /\ o.mem.val \in Int /\ q.got \in Int
      /\ o.mem.width = 4 /\ o.inGot = (o.type \in Slot \union {"GLOB_DAT"})
  <2>1. /\ q \in Relocs /\ q.addend \in Int /\ q.base \in Nat /\ q.slot \in Nat
             /\ q.class = ld_class(a) /\ Placed(q, o) /\ Typed(q)
        /\ LdType(a, o) /\ q.rela \in BOOLEAN
    BY KinRFacts
  <2>4. o.mem.val \in Int /\ q.got \in Int
    BY KinRFacts
  <2>5. q.exec = o.exec /\ q.inGot = o.inGot
    BY DEF KinR, Placed
  <2>2. a \in RelArchs /\ ld_class(a) = 4
    BY DEF RelArchs, ld_class
  <2>3. o.mem.width = ld_width(a, o) /\ o.class = ld_class(a)
          /\ o.inGot = (o.type \in Slot \union {"GLOB_DAT"})
    BY DEF FormR
  <2> QED BY <2>1, <2>2, <2>3, <2>4, <2>5, RelWidth
<1>2. q.code = NoCode /\ q.code = o.code
  BY DEF KinR, FormR
<1>3. n = arm_arch_undo_prelink(m)
  BY DEF ArchUndo, X86_64, Ppc, Mips, m
<1>4. /\ q.type \in {"NONE", "RELATIVE", "COPY", "IRELATIVE", "GLOB_DAT", "JUMP_SLOT", "ABS32",
                     "PC24", "TLS_DESC", "TLS_DESC_NOW",
                     "TLS_DTPMOD32", "TLS_DTPOFF32", "TLS_TPOFF32"}
      /\ ~ q.exec => q.type # "COPY"
      /\ q.type # o.type => q.type = "GLOB_DAT" /\ o.type = "ABS32" /\ ~ q.inGot
  BY <1>1, RelTypes DEF KinR, SameR, Plain32, Slot, Mips
<1> HIDE DEF m
<1>5. ASSUME m \in Relocs, m.got = Plt(m)
      PROVE  /\ n \in Relocs /\ Placed(n, m) /\ n.mem = m.mem /\ n.type = m.type
                  /\ n.rela = m.rela
             /\ n.addend = m.addend /\ n.got = 0 /\ n.base = m.base /\ n.code = m.code
                  /\ n.ok = m.ok
  BY <1>3, <1>5, ClearedGot DEF arm_arch_undo_prelink
<1>6. CASE q.rela
  <2>1. m = q
    BY <1>1, <1>6 DEF m, UndoRel, X86_64, Ppc, Mips
  <2>2. /\ n \in Relocs /\ Placed(n, q) /\ n.type = q.type /\ n.rela
        /\ n.addend = q.addend /\ n.got = 0 /\ n.base = q.base /\ n.code = q.code /\ n.ok = q.ok
    BY <1>1, <1>5, <1>6, <2>1
  <2>3. k = arm_rela_to_rel(n)
    BY <2>2 DEF RelaToRel, Mips
  <2>4. /\ RelaKin(a, q, o) /\ q.type = o.type
        /\ q.type \notin {"JUMP_SLOT", "TLS_DESC", "TLS_DESC_NOW"}
    BY <1>6 DEF KinR, SameR, RelaKin, Exempt, Slot
  <2>5. ASSUME q.type \notin {"NONE", "COPY"}
        PROVE  k = Put(AsRel(n, 0), 4, WordR(a, n, o)) /\ WordR(a, n, o) \in Int
    <3>1. CASE q.type \in {"RELATIVE", "IRELATIVE"}
      <4>1. WordR(a, n, o) = n.addend
        BY <2>2, <2>4, <3>1 DEF WordR, RelaKin, AddrR, Target
      <4> QED BY <1>1, <2>2, <2>3, <3>1, <4>1 DEF arm_rela_to_rel, arm_InPlace, AsRel
    <3>2. CASE q.type \in {"ABS32", "TLS_TPOFF32", "TLS_DTPOFF32"}
      <4>1. WordR(a, n, o) = n.addend
        BY <2>2, <2>4, <3>2 DEF WordR, RelaKin, AddrR, Slot
      <4> QED BY <1>1, <2>2, <2>3, <3>2, <4>1 DEF arm_rela_to_rel, arm_InPlace, AsRel
    <3>3. CASE q.type \in {"GLOB_DAT", "TLS_DTPMOD32"}
      <4>1. o.mem.val = 0
        BY <2>4, <3>3 DEF FormR, LdWord, ZeroR, DtpMod, mips_DtpMod
      <4>2. WordR(a, n, o) = 0
        BY <2>2, <3>3, <4>1 DEF WordR, AddrR, Slot
      <4> QED BY <2>2, <2>3, <3>3, <4>2 DEF arm_rela_to_rel, arm_InPlace, AsRel
    <3>4. CASE q.type = "PC24"
      <4>1. Branch(q.mem.val) /\ n.addend = arm_pc24_addend(o.mem.val) /\ n.mem = q.mem
        <5>1. n.mem = q.mem
          BY <1>1, <1>5, <1>6, <2>1
        <5> QED BY <2>2, <2>4, <3>4, <5>1 DEF RelaKin, AddrR
      <4>2. Branch(o.mem.val)
        BY <2>4, <3>4 DEF FormR, LdWord
      <4>3. k = Put(AsRel(n, 0), 4, arm_pc24(n.mem.val, n.addend))
        BY <2>2, <2>3, <3>4 DEF arm_rela_to_rel, arm_InPlace, AsRel
      <4>4. arm_pc24(n.mem.val, n.addend) = o.mem.val
        BY <4>1, <4>2, BranchRestored
      <4>5. WordR(a, n, o) = o.mem.val
        BY <2>2, <3>4 DEF WordR, AddrR, Slot
      <4> QED BY <1>1, <4>3, <4>4, <4>5
    <3> QED BY <1>4, <2>4, <2>5, <3>1, <3>2, <3>3, <3>4
  <2>6. /\ k \in Relocs /\ Placed(k, n) /\ k.mem.width = 4 /\ k.mem.val = WordR(a, n, o)
             /\ k.type = n.type /\ ~ k.rela
        /\ k.addend = 0 /\ k.got = n.got /\ k.base = n.base /\ k.code = n.code /\ k.ok = n.ok
    <3>0. CASE q.type \notin {"NONE", "COPY"}
      <4> DEFINE x == WordR(a, n, o)
      <4>1. n \in Relocs /\ x \in Int /\ 4 \in Nat /\ k = Put(AsRel(n, 0), 4, x)
        BY <2>2, <2>5, <3>0
      <4> HIDE DEF x
      <4>2. /\ k \in Relocs /\ Placed(k, n) /\ k.mem.width = 4 /\ k.mem.val = x
                 /\ k.type = n.type /\ ~ k.rela
            /\ k.addend = 0 /\ k.got = n.got /\ k.base = n.base /\ k.code = n.code
                 /\ k.ok = n.ok
        BY <4>1, ToRel
      <4> QED BY <4>2 DEF x
    <3>1. CASE q.type \in {"NONE", "COPY"}
      <4>1. k = AsRel(n, 0)
        BY <2>2, <2>3, <3>1 DEF arm_rela_to_rel, arm_InPlace, AsRel
      <4>2. n.mem = o.mem
        <5>1. n.mem = q.mem
          BY <1>1, <1>5, <1>6, <2>1
        <5> QED BY <2>4, <3>1, <5>1 DEF RelaKin, Still
      <4>3. WordR(a, n, o) = o.mem.val
        BY <2>2, <3>1 DEF WordR, AddrR, Slot
      <4>4. n \in Relocs
        BY <2>2
      <4>5. /\ k \in Relocs /\ Placed(k, n) /\ k.mem = n.mem /\ k.type = n.type /\ ~ k.rela
            /\ k.addend = 0 /\ k.got = n.got /\ k.base = n.base /\ k.code = n.code
                 /\ k.ok = n.ok
        BY <4>1, <4>4, AsRelIs
      <4> QED BY <1>1, <4>2, <4>3, <4>5
    <3> QED BY <3>0, <3>1
  <2>7. WordR(a, k, o) = WordR(a, n, o)
    BY <2>6 DEF WordR, Target, Plt, mips_stub, Placed
  <2>8. Placed(k, o) /\ k.class = 4
    BY <1>1, <2>2, <2>6 DEF Placed
  <2> QED BY <1>1, <1>2, <2>2, <2>4, <2>6, <2>7, <2>8, RestoredR
<1>7. CASE ~ q.rela
  <2>1. m = arm_undo_prelink_rel(q)
    BY <1>7 DEF m, UndoRel, X86_64, Ppc, Mips, RelArchs
  <2>2. RelKin(a, q, o)
    BY <1>7 DEF KinR
  <2>3. /\ m \in Relocs /\ Placed(m, q) /\ m.type = o.type /\ m.rela = FALSE /\ m.addend = 0
             /\ m.got = q.got /\ m.base = q.base
        /\ m.code = q.code /\ m.ok = q.ok /\ m.mem.width = 4 /\ m.mem.val = WordR(a, m, o)
    <3>1. CASE q.type \in {"RELATIVE", "IRELATIVE", "NONE", "COPY", "TLS_TPOFF32"}
      <4>1. m = q
        BY <1>4, <2>1, <3>1 DEF arm_undo_prelink_rel, arm_Desc
      <4>2. q.type = o.type /\ Placed(q, q)
        BY <1>4, <3>1 DEF Placed
      <4>3. CASE q.type \in {"RELATIVE", "IRELATIVE"}
        BY <1>1, <1>7, <2>2, <4>1, <4>2, <4>3 DEF RelKin, AddrR, WordR
      <4>4. CASE q.type \notin {"RELATIVE", "IRELATIVE"}
        <5>1. q.mem = o.mem
          BY <2>2, <3>1, <4>4 DEF RelKin, AddrR, FreeR, Slot
        <5>2. WordR(a, q, o) = o.mem.val
          BY <3>1, <4>4 DEF WordR, AddrR, Slot
        <5> QED BY <1>1, <1>7, <2>2, <4>1, <4>2, <5>1, <5>2 DEF RelKin
      <4> QED BY <4>3, <4>4
    <3>2. CASE q.type = "JUMP_SLOT"
      <4>1. q.inGot /\ q.type = o.type
        BY <1>1, <1>4, <3>2 DEF Slot
      <4>2. m = Put(q, 4, q.got)
        BY <2>1, <3>2, <4>1 DEF arm_undo_prelink_rel, arm_Desc
      <4>3. Plt(q) \in Int /\ ld_plt_entry(a) * q.slot = 0
        BY <1>1 DEF Plt, PltOffset, ld_plt_entry, X86_64
      <4>4. Alike(m, q) /\ m.mem = [width |-> 4, val |-> q.got] /\ m.addend = q.addend
        BY <1>1, <4>2, PutIs
      <4>5. WordR(a, m, o) = Plt(q) + ld_plt_entry(a) * q.slot
        BY <3>2, <4>4 DEF WordR, AddrR, Slot, Alike, Placed, Plt
      <4>6. WordR(a, m, o) = q.got
        BY <4>3, <4>5
      <4> QED BY <1>7, <2>2, <4>1, <4>4, <4>6 DEF Alike, RelKin
    <3>3. CASE \/ q.type \in {"TLS_DTPMOD32", "TLS_DESC", "TLS_DESC_NOW"}
               \/ q.type = "GLOB_DAT" /\ q.inGot
      <4>1. m = Put(q, 4, 0)
        BY <2>1, <3>3 DEF arm_undo_prelink_rel, arm_Desc
      <4>2. q.type = o.type
        BY <1>4, <3>3
      <4>3. Alike(m, q) /\ m.mem = [width |-> 4, val |-> 0] /\ m.addend = q.addend
        BY <1>1, <4>1, PutIs
      <4>4. o.mem.val = 0
        BY <3>3, <4>2 DEF FormR, LdWord, ZeroR, DtpMod, mips_DtpMod
      <4>5. WordR(a, m, o) = 0
        BY <3>3, <4>3, <4>4 DEF WordR, AddrR, Slot, Alike
      <4> QED BY <1>7, <2>2, <4>2, <4>3, <4>5 DEF Alike, RelKin
    <3>4. CASE q.type = "GLOB_DAT" /\ ~ q.inGot
      <4> DEFINE g == [q EXCEPT !.type = "ABS32"]
      <4>1. m = Put(g, 4, 0)
        BY <2>1, <3>4 DEF arm_undo_prelink_rel, arm_Desc
      <4>2. o.type = "ABS32" /\ o.mem.val = 0
        BY <1>1, <1>4, <3>4 DEF KinR, SameR
      <4>3. "ABS32" \in Types
        BY DEF Types
      <4>4. /\ g \in Relocs /\ Placed(g, q) /\ g.type = "ABS32" /\ g.rela = q.rela
            /\ g.addend = q.addend /\ g.got = q.got /\ g.base = q.base /\ g.code = q.code
                 /\ g.ok = q.ok
        BY <1>1, <4>3, TypeFacts
      <4> HIDE DEF g
      <4>5. Alike(m, g) /\ m.mem = [width |-> 4, val |-> 0] /\ m.addend = g.addend
        BY <4>1, <4>4, PutIs
      <4>6. WordR(a, m, o) = 0
        BY <4>2, <4>4, <4>5 DEF WordR, AddrR, Slot, Alike
      <4> QED BY <1>7, <2>2, <4>2, <4>4, <4>5, <4>6 DEF Alike, RelKin, Placed
    <3>5. q.type \notin {"ABS32", "PC24", "TLS_DTPOFF32"}
      BY <1>7 DEF Done, Plain32
    <3> QED BY <1>4, <3>1, <3>2, <3>3, <3>4, <3>5
  <2>4. m.got = Plt(m)
    BY <2>3 DEF Plt
  <2>5. /\ n \in Relocs /\ Placed(n, m) /\ n.mem = m.mem /\ n.type = m.type /\ n.rela = m.rela
        /\ n.addend = m.addend /\ n.got = 0 /\ n.base = m.base /\ n.code = m.code /\ n.ok = m.ok
    BY <1>5, <2>3, <2>4
  <2>6. k = n
    BY <2>3, <2>5
  <2>7. WordR(a, n, o) = WordR(a, m, o)
    BY <2>5 DEF WordR, Target, Plt, mips_stub, Placed
  <2>8. Placed(n, o) /\ n.class = 4
    BY <1>1, <2>3, <2>5 DEF Placed
  <2> QED BY <1>1, <1>2, <2>3, <2>5, <2>6, <2>7, <2>8, RestoredR
<1> QED BY <1>1, <1>6, <1>7

-----------------------------------------------------------------------------
(* MIPS.                                                                   *)

(* The types of MIPS relocations and words of the GOT.                     *)
MipsTypes == {"NONE", "RELATIVE", "COPY", "JUMP_SLOT", "REL32", "TLS_DTPMOD32", "TLS_DTPMOD64",
              "TLS_DTPREL32", "TLS_DTPREL64", "TLS_TPREL32", "TLS_TPREL64", "GOT_A", "GOT_B",
              "GOT_D", "GOT_E", "GOT_F", "GOT_L", "GLOB_DAT"}

(* What the provers need of them.                                          *)
LEMMA MipsFacts ==
  ASSUME NEW a \in Mips, NEW q, NEW o, KinR(a, q, o), FormR(a, o)
  PROVE  /\ a \in RelArchs /\ q \in Relocs /\ q.type \in MipsTypes /\ q.addend \in Int
              /\ q.mem.val \in Int /\ q.base \in Nat
         /\ q.class \in Nat /\ q.rela \in BOOLEAN
         /\ q.rela => q.type \notin Slot \union mips_Got
         /\ q.type \in mips_Defined => q.def
         /\ q.type \in Slot => q.exec /\ q.class = 4 /\ q.type = o.type
         /\ q.type = "COPY" => q.exec
         /\ q.type = "GOT_E" => ~ q.exec
<1>1. q \in Relocs /\ q.addend \in Int /\ q.mem.val \in Int /\ q.base \in Nat
        /\ q.class \in Nat /\ q.rela \in BOOLEAN /\ LdType(a, o)
      /\ q.class = ld_class(a)
  BY KinRFacts
<1>2. a \in RelArchs
  BY DEF RelArchs
<1>3. /\ o.type \in MipsTypes /\ (o.type \in Slot => o.exec /\ a # "mips64")
           /\ (o.type = "COPY" => o.exec)
  BY <1>1, <1>2, RelTypes DEF MipsTypes
<1>4. q.exec = o.exec /\ q.def = o.def /\ (q.type = o.type \/ q.type = "GLOB_DAT")
  BY DEF KinR, Placed, SameR
<1>5. q.type \in MipsTypes
  BY <1>3, <1>4 DEF MipsTypes
<1>6. q.rela => q.type \notin Slot \union mips_Got
  BY DEF KinR, RelaKin, Exempt
<1>7. q.type \in mips_Defined => q.def
  BY <1>4 DEF FormR, mips_Defined
<1>8. q.type \in Slot => q.exec /\ q.class = 4 /\ q.type = o.type
  BY <1>1, <1>3, <1>4 DEF Slot, Mips, ld_class
<1>9. q.type = "GOT_E" => ~ q.exec
  BY <1>1, <1>4 DEF LdType, ld_exec_types, Mips, Slot, DtpMod, DtpOff
<1> QED BY <1>1, <1>2, <1>3, <1>4, <1>5, <1>6, <1>7, <1>8, <1>9

(* mips_adjust_rel and mips_adjust_rela move what points into the object.  *)
LEMMA MipsMove ==
  ASSUME NEW a \in Mips, NEW q, NEW o, KinR(a, q, o), FormR(a, o), NEW d \in Int, q.exec =>
             d = 0, NEW m, m = AdjustRel(a, q, d)
  PROVE  MovesBy(a, m, q, d)
<1> DEFINE x == q.addend + d
           w == q.mem.val + d
           n == mips_arch_adjust(q, d)
<1>1. /\ a \in RelArchs /\ q \in Relocs /\ q.type \in MipsTypes /\ q.addend \in Int
           /\ q.mem.val \in Int /\ q.base \in Nat
      /\ q.class \in Nat /\ q.rela \in BOOLEAN
      /\ q.rela => q.type \notin Slot \union mips_Got
      /\ q.type \in mips_Defined => q.def
      /\ q.type \in Slot => q.exec
  BY MipsFacts
<1>2. x \in Int /\ w \in Int
  BY <1>1
<1>3. m = mips_adjust_reloc(n, d)
  BY DEF AdjustRel, X86_64, Ppc, Mips
<1>4. Alike(q, q)
  BY <1>1 DEF Alike, Placed
<1> HIDE DEF x, w
<1>5. CASE q.type = "RELATIVE"
  <2>0. n = q
    BY <1>5 DEF mips_arch_adjust, mips_Global, mips_Undefined, mips_Defined
  <2>1. CASE q.rela
    <3>1. m = WithAddend(q, x)
      BY <1>3, <1>5, <2>0, <2>1 DEF mips_adjust_reloc, x, WithAddend
    <3>2. Alike(m, q) /\ m.addend = x
      BY <1>1, <1>2, <3>1, WithAddendIs
    <3>3. ~ FormR(a, q)
      BY <2>1 DEF FormR
    <3> QED BY <1>5, <2>1, <3>2, <3>3 DEF MovesBy, AddrR, x
  <2>2. CASE ~ q.rela
    <3>1. m = Put(q, q.class, w)
      BY <1>3, <1>5, <2>0, <2>2 DEF mips_adjust_reloc, w
    <3>2. Alike(m, q) /\ m.mem = [width |-> q.class, val |-> w] /\ m.addend = q.addend
      BY <1>1, <1>2, <3>1, PutIs
    <3> QED BY <1>1, <1>5, <2>2, <3>2 DEF MovesBy, AddrR, Slot, FreeR, w
  <2> QED BY <1>1, <2>1, <2>2
<1>6. ASSUME q.type # "RELATIVE" PROVE m = n
  <2>1. n \in {q, Put(q, q.class, w)}
    BY DEF mips_arch_adjust, w
  <2>2. n.type = q.type
    <3> HIDE DEF n
    <3>1. CASE n = q
      BY <3>1
    <3>2. CASE n = Put(q, q.class, w)
      <4>1. Alike(Put(q, q.class, w), q)
        BY <1>1, <1>2, PutFacts
      <4> QED BY <3>2, <4>1 DEF Alike
    <3> QED BY <2>1, <3>1, <3>2
  <2> HIDE DEF n
  <2> QED BY <1>3, <1>6, <2>2 DEF mips_adjust_reloc
<1>7. ASSUME m = Put(q, q.class, w) PROVE Alike(m, q)
             /\ m.mem = [width |-> q.class, val |-> q.mem.val + d] /\ m.addend = q.addend
  <2>1. Alike(m, q) /\ m.mem = [width |-> q.class, val |-> w] /\ m.addend = q.addend
    BY <1>1, <1>2, <1>7, PutIs
  <2> QED BY <2>1 DEF w
<1>8. CASE q.type = "GOT_L"
  <2>1. m = Put(q, q.class, w)
    BY <1>6, <1>8 DEF mips_arch_adjust, w
  <2>2. ~ q.rela
    BY <1>1, <1>8 DEF mips_Got
  <2> QED BY <1>7, <1>8, <2>1, <2>2 DEF MovesBy, AddrR, Slot, FreeR
<1>9. CASE q.type \in {"GOT_E", "GOT_F"}
  <2>1. ~ q.rela /\ q.def /\ q.type \in mips_Global \ {"GOT_D"} /\ q.type \notin mips_Undefined
          /\ mips_st_value(q) = q.base + 12
    BY <1>1, <1>9 DEF mips_Got, mips_Global, mips_Defined, mips_Undefined, mips_st_value,
       StValue
  <2>2. q.mem.val \in {q.base + 12, q.base + 72}
    BY <1>9, <2>1 DEF KinR, RelKin, mips_stub
  <2>3. q.mem.val >= q.base /\ q.base + 12 # 0
    BY <1>1, <2>2
  <2>4. m = Put(q, q.class, w)
    BY <1>6, <1>9, <2>1, <2>3 DEF mips_arch_adjust, w
  <2> QED BY <1>7, <1>9, <2>1, <2>4 DEF MovesBy, AddrR, Slot, FreeR
<1>10. CASE q.type = "GOT_A"
  <2>1. m \in {q, Put(q, q.class, w)}
    BY <1>6, <1>10 DEF mips_arch_adjust, w
  <2>2. Alike(m, q) /\ m.addend = q.addend
    BY <1>4, <1>7, <2>1
  <2>3. ~ q.rela
    BY <1>1, <1>10 DEF mips_Got, mips_Global, mips_Undefined
  <2>4. ASSUME FormR(a, q) PROVE m = q
    <3>1. q.mem.val = 0
      BY <1>10, <2>4 DEF FormR, LdWord, ZeroR
    <3>2. mips_st_value(q) = 0
      BY <1>10 DEF mips_st_value, mips_Defined
    <3>3. n = q
      BY <1>10, <3>1, <3>2 DEF mips_arch_adjust
    <3> QED BY <1>6, <1>10, <3>3
  <2> QED BY <1>10, <2>2, <2>3, <2>4 DEF MovesBy, AddrR, Slot, FreeR
<1>11. CASE q.type = "GOT_B"
  <2>1. m \in {q, Put(q, q.class, w)}
    BY <1>6, <1>11 DEF mips_arch_adjust, w
  <2>2. Alike(m, q) /\ m.addend = q.addend
    BY <1>4, <1>7, <2>1
  <2>3. ~ q.rela
    BY <1>1, <1>11 DEF mips_Got, mips_Global, mips_Undefined
  <2>4. ASSUME FormR(a, q) PROVE m = Put(q, q.class, w)
    <3>1. q.mem.val = q.base + 72
      BY <1>11, <2>4 DEF FormR, LdWord, mips_stub
    <3>2. mips_st_value(q) = q.base + 72 /\ q.type \in mips_Global \ {"GOT_D"}
      BY <1>11 DEF mips_st_value, mips_stub, mips_Global, mips_Undefined, mips_Defined
    <3>3. q.base + 72 >= q.base /\ q.base + 72 # 0
      BY <1>1
    <3>4. n = Put(q, q.class, w)
      BY <3>1, <3>2, <3>3 DEF mips_arch_adjust, w
    <3> QED BY <1>6, <1>11, <3>4
  <2> QED BY <1>7, <1>11, <2>2, <2>3, <2>4 DEF MovesBy, AddrR, Slot, FreeR
<1>12. CASE q.type \notin {"RELATIVE", "GOT_L", "GOT_A", "GOT_B", "GOT_E", "GOT_F"}
  <2>1. n = q
    BY <1>12 DEF mips_arch_adjust, mips_Global, mips_Undefined, mips_Defined
  <2>2. m = q
    BY <1>6, <1>12, <2>1
  <2> QED BY <1>1, <1>4, <1>12, <2>2 DEF MovesBy, AddrR, Slot, MipsTypes
<1> QED BY <1>5, <1>8, <1>9, <1>10, <1>11, <1>12

(* mips_rel_to_rela takes the addend out of the word.                      *)
LEMMA MipsConvert ==
  ASSUME NEW a \in Mips, NEW q, NEW o, KinR(a, q, o), FormR(a, o), ~ q.rela,
             q.type \notin Exempt, q.type = o.type,
         NEW p, p = RelToRela(a, q)
  PROVE  Converted(p, q, o)
<1>1. /\ q \in Relocs /\ o.mem.val \in Int /\ q.mem.val \in Int /\ RelKin(a, q, o)
           /\ q.type \in MipsTypes
  <2>1. q \in Relocs /\ q.mem.val \in Int /\ q.type \in MipsTypes
    BY MipsFacts
  <2>2. o.mem.val \in Int
    BY KinRFacts
  <2> QED BY <2>1, <2>2 DEF KinR
<1>2. p = mips_rel_to_rela(q)
  BY DEF RelToRela, Mips
<1>3. CASE q.type = "RELATIVE"
  <2>1. p = [q EXCEPT !.rela = TRUE, !.addend = q.mem.val]
    BY <1>2, <1>3 DEF mips_rel_to_rela, mips_InPlace, mips_DtpMod, mips_DtpRel, mips_TpRel
  <2>2. q.mem.val = Target(q)
    BY <1>1, <1>3 DEF RelKin, AddrR
  <2> QED BY <1>1, <1>3, <2>1, <2>2 DEF Converted, AddrR
<1>4. CASE q.type \in {"REL32"} \union mips_DtpRel \union mips_TpRel
  <2>1. p = [q EXCEPT !.rela = TRUE, !.addend = q.mem.val]
    BY <1>2, <1>4 DEF mips_rel_to_rela, mips_InPlace, mips_DtpMod, mips_DtpRel, mips_TpRel
  <2>2. q.mem = o.mem
    BY <1>1, <1>4 DEF RelKin, AddrR, FreeR, Slot, mips_DtpRel, mips_TpRel, Mips
  <2> QED BY <1>1, <1>4, <2>1, <2>2 DEF Converted, AddrR, mips_DtpRel, mips_TpRel
<1>5. CASE q.type \in {"NONE", "COPY", "GLOB_DAT"} \union mips_DtpMod
  <2>1. p = [q EXCEPT !.rela = TRUE, !.addend = 0]
    BY <1>2, <1>5 DEF mips_rel_to_rela, mips_InPlace, mips_DtpMod, mips_DtpRel, mips_TpRel
  <2>2. o.mem.val = 0
    BY <1>5 DEF FormR, LdWord, ZeroR, DtpMod, mips_DtpMod
  <2> QED BY <1>1, <1>5, <2>1, <2>2 DEF Converted, AddrR, mips_DtpMod
<1> QED BY <1>1, <1>3, <1>4, <1>5 DEF MipsTypes, Exempt, Slot, mips_Got, mips_Global,
           mips_Undefined, mips_Defined, mips_DtpMod, mips_DtpRel, mips_TpRel

(* mips_prelink_rel and mips_prelink_rela keep what undoing needs.         *)
LEMMA MipsPrelink ==
  ASSUME NEW a \in Mips, NEW q, NEW o, KinR(a, q, o), FormR(a, o), NEW mx, Ready(a, mx, q),
             q.type # o.type => ~ mx,
         q.exec /\ q.type \in mips_DtpMod => mx,
         NEW s \in Syms, NEW m, m = PrelinkRel(a, q, s)
  PROVE  KinR(a, m, o) /\ KeptR(m, q) /\ (m.type # o.type => ~ mx) /\ Done(a, m)
<1>1. /\ a \in RelArchs /\ q \in Relocs /\ q.type \in MipsTypes /\ q.addend \in Int
           /\ q.class \in Nat /\ q.rela \in BOOLEAN
      /\ q.rela => q.type \notin Slot \union mips_Got
      /\ q.type \in Slot => q.exec /\ q.class = 4
      /\ q.type = "COPY" => q.exec
  BY MipsFacts
<1>2. s.val \in Int /\ s.tlsoffset \in Int /\ s.modid \in Int
  BY DEF Syms
<1>3. m = IF q.rela THEN mips_prelink_reloc(q, s) ELSE mips_prelink_rel(q, s)
  BY DEF PrelinkRel, X86_64, Ppc, Mips
<1>4. ASSUME m = q, Done(a, q) PROVE KinR(a, m, o) /\ KeptR(m, q) /\ (m.type # o.type => ~ mx)
             /\ Done(a, m)
  BY <1>4, SameKinR, KeptKeptR
<1>5. ASSUME NEW w \in Int, m \in {q, Put(q, q.class, w)}, q.rela => q.type \notin Still
                 \union {"PC24"}, ~ q.rela => q.type \in FreeR(a)
      PROVE KinR(a, m, o) /\ KeptR(m, q) /\ (m.type # o.type => ~ mx) /\ Done(a, m)
  <2>1. KinR(a, m, o) /\ Kept(m, q)
    BY <1>1, <1>5, PutKinR
  <2>2. Done(a, m)
    BY <1>5, <2>1 DEF Done, Kept, FreeR, Slot, Plain32, Mips
  <2> QED BY <2>1, <2>2, KeptKeptR DEF Kept
<1>6. CASE q.rela
  <2> DEFINE v1 == 0 + q.addend
             v2 == s.val + q.addend
             v3 == s.modid + q.addend
             v4 == (s.val - TLS_DTV_OFFSET) + q.addend
             v5 == (s.val + s.tlsoffset - TLS_TP_OFFSET) + q.addend
  <2>1. v1 \in Int /\ v2 \in Int /\ v3 \in Int /\ v4 \in Int /\ v5 \in Int
    BY <1>1, <1>2 DEF TLS_DTV_OFFSET, TLS_TP_OFFSET
  <2>2. CASE q.type \in {"NONE", "COPY"}
    <3>1. m = q
      BY <1>1, <1>3, <1>6, <2>2 DEF mips_prelink_reloc, mips_Got, mips_Global, mips_Undefined,
         mips_Defined, mips_DtpMod, mips_DtpRel, mips_TpRel
    <3> QED BY <1>4, <1>6, <3>1 DEF Done
  <2>3. CASE q.type = "RELATIVE"
    <3>1. m = Put(q, q.class, v1)
      BY <1>3, <1>6, <2>3 DEF mips_prelink_reloc, mips_prelink_word, mips_Got, mips_Global,
         mips_Undefined, mips_Defined, mips_DtpMod, mips_DtpRel, mips_TpRel
    <3> HIDE DEF v1
    <3> QED BY <1>5, <1>6, <2>1, <2>3, <3>1 DEF Still
  <2>4. CASE q.type = "REL32"
    <3>1. m = Put(q, q.class, v2)
      BY <1>3, <1>6, <2>4 DEF mips_prelink_reloc, mips_prelink_word, mips_Got, mips_Global,
         mips_Undefined, mips_Defined, mips_DtpMod, mips_DtpRel, mips_TpRel
    <3> HIDE DEF v2
    <3> QED BY <1>5, <1>6, <2>1, <2>4, <3>1 DEF Still
  <2>5. CASE q.type = "GLOB_DAT"
    <3>1. m = Put(q, q.class, s.val)
      BY <1>3, <1>6, <2>5 DEF mips_prelink_reloc, mips_prelink_word, mips_Got, mips_Global,
         mips_Undefined, mips_Defined, mips_DtpMod, mips_DtpRel, mips_TpRel
    <3> QED BY <1>2, <1>5, <1>6, <2>5, <3>1 DEF Still
  <2>6. CASE q.type \in mips_DtpMod
    <3>1. m \in {q, Put(q, q.class, v3)}
      BY <1>3, <1>6, <2>6 DEF mips_prelink_reloc, mips_prelink_word, mips_Got, mips_Global,
         mips_Undefined, mips_Defined, mips_DtpMod, mips_DtpRel, mips_TpRel
    <3> HIDE DEF v3
    <3> QED BY <1>5, <1>6, <2>1, <2>6, <3>1 DEF Still, mips_DtpMod
  <2>7. CASE q.type \in mips_DtpRel
    <3>1. m = Put(q, q.class, v4)
      BY <1>3, <1>6, <2>7 DEF mips_prelink_reloc, mips_prelink_word, mips_Got, mips_Global,
         mips_Undefined, mips_Defined, mips_DtpMod, mips_DtpRel, mips_TpRel
    <3> HIDE DEF v4
    <3> QED BY <1>5, <1>6, <2>1, <2>7, <3>1 DEF Still, mips_DtpRel
  <2>8. CASE q.type \in mips_TpRel
    <3>1. m \in {q, Put(q, q.class, v5)}
      BY <1>3, <1>6, <2>8 DEF mips_prelink_reloc, mips_prelink_word, mips_Got, mips_Global,
         mips_Undefined, mips_Defined, mips_DtpMod, mips_DtpRel, mips_TpRel
    <3> HIDE DEF v5
    <3> QED BY <1>5, <1>6, <2>1, <2>8, <3>1 DEF Still, mips_TpRel
  <2> HIDE DEF v1, v2, v3, v4, v5
  <2>9. q.type \notin Slot \union mips_Got
    BY <1>1, <1>6
  <2> QED BY <1>1, <2>2, <2>3, <2>4, <2>5, <2>6, <2>7, <2>8, <2>9 DEF MipsTypes, Slot, mips_Got,
             mips_Global, mips_Undefined, mips_Defined, mips_DtpMod, mips_DtpRel, mips_TpRel
<1>7. CASE ~ q.rela
  <2>1. ASSUME q.type \in MipsTypes \ (Slot \union mips_Got)
        PROVE  ~ NeedRelToRela(a, q) /\ ~ mx
    BY <1>7, <2>1 DEF Ready, Exempt, MipsTypes
  <2>2. ASSUME q.type \in MipsTypes \ (Slot \union mips_Got)
        PROVE  /\ ~ mips_need_rel_to_rela(q) /\ ~ mx
    BY <2>1, <2>2 DEF NeedRelToRela, Mips
  <2>3. CASE q.type \in {"NONE", "COPY", "RELATIVE"} \union mips_Got \union mips_DtpMod
               \union mips_TpRel
    <3>0. q.type \in mips_DtpMod => ~ q.exec
      BY <1>1, <2>2 DEF Slot, mips_Got, mips_Global, mips_Undefined, mips_Defined, mips_DtpMod
    <3>2. q.type \in mips_TpRel => ~ q.exec
      BY <1>1, <2>2 DEF mips_need_rel_to_rela, Slot, mips_Got, mips_Global, mips_Undefined,
         mips_Defined, mips_TpRel
    <3>1. m = q
      BY <1>1, <1>3, <1>7, <2>3, <3>0, <3>2 DEF mips_prelink_rel, mips_prelink_reloc, mips_Got,
         mips_Global, mips_Undefined, mips_Defined, mips_DtpMod, mips_DtpRel, mips_TpRel
    <3> QED BY <1>4, <2>3, <3>1 DEF Done, Plain32, mips_Got, mips_Global, mips_Undefined,
               mips_Defined, mips_DtpMod, mips_TpRel, Mips
  <2>4. CASE q.type \in {"GLOB_DAT", "JUMP_SLOT"}
    <3>1. m = Put(q, q.class, s.val)
      BY <1>1, <1>3, <1>7, <2>4 DEF mips_prelink_rel, mips_prelink_reloc, mips_Got, mips_Global,
         mips_Undefined, mips_Defined, mips_DtpMod, mips_DtpRel, mips_TpRel, Slot
    <3> QED BY <1>2, <1>5, <1>7, <2>4, <3>1 DEF FreeR, Slot
  <2>5. ASSUME q.type \in {"REL32"} \union mips_DtpRel PROVE q.type = "REL32" /\ q.mem.val = 0
               /\ ~ mx
    BY <1>1, <2>2, <2>5 DEF mips_need_rel_to_rela, Slot, mips_Got, mips_Global, mips_Undefined,
       mips_Defined, mips_DtpRel
  <2>6. CASE q.type \in {"REL32"} \union mips_DtpRel
    <3>1. m = Put([q EXCEPT !.type = "GLOB_DAT"], q.class, s.val)
      BY <1>3, <1>7, <2>5, <2>6 DEF mips_prelink_rel
    <3>2. KinR(a, m, o) /\ KeptR(m, q) /\ m.type = "GLOB_DAT"
      <4>1. q.type \in Plain32 /\ q.mem.val = 0
        BY <2>5, <2>6 DEF Plain32
      <4>2. q.class \in Nat /\ s.val \in Int
        BY <1>1, <1>2
      <4> QED BY <1>7, <3>1, <4>1, <4>2, GlobDatKin
    <3> QED BY <2>5, <2>6, <3>2 DEF Plain32, Done, Mips
  <2> QED BY <1>1, <2>3, <2>4, <2>6 DEF MipsTypes, mips_Got, mips_Global, mips_Undefined,
             mips_Defined, mips_DtpMod, mips_DtpRel, mips_TpRel
<1> QED BY <1>1, <1>6, <1>7

(* Setting got[1] keeps what undoing needs.                                *)
LEMMA GotSet ==
  ASSUME NEW a, NEW q, NEW o, KinR(a, q, o), NEW v \in Int, NEW p, p = [q EXCEPT !.got = v]
  PROVE  KinR(a, p, o) /\ p \in Relocs /\ Placed(p, q) /\ p.type = q.type /\ p.rela = q.rela
           /\ p.base = q.base /\ p.ok = q.ok /\ p.got = v
         /\ p.mem = q.mem
<1>1. /\ p \in Relocs /\ Placed(p, q) /\ p.mem = q.mem /\ p.type = q.type /\ p.rela = q.rela
      /\ p.addend = q.addend /\ p.got = v /\ p.base = q.base /\ p.code = q.code /\ p.ok = q.ok
  BY GotFacts DEF KinR
<1>2. KinR(a, p, o)
  BY <1>1, KinRGot
<1> QED BY <1>1, <1>2

(* mips_arch_prelink: got[1] of an executable.                             *)
mips_set(q) == IF q.exec THEN [q EXCEPT !.got = Plt(q)] ELSE q

(* mips_arch_undo_prelink: got[1] is cleared.                              *)
mips_cleared(q) == IF q.got = Plt(q) THEN [q EXCEPT !.got = 0] ELSE q

(* mips_set changes got[1] only.                                           *)
LEMMA MipsSet ==
  ASSUME NEW q \in Relocs
  PROVE  LET p == mips_set(q) IN
         /\ p \in Relocs /\ Placed(p, q) /\ p.mem = q.mem /\ p.type = q.type /\ p.rela = q.rela
         /\ p.addend = q.addend /\ p.base = q.base /\ p.code = q.code /\ p.ok = q.ok
              /\ p.got = IF q.exec THEN Plt(q) ELSE q.got
<1>0. q.base \in Nat
  BY TypedFacts DEF Typed
<1>1. Plt(q) \in Int
  BY <1>0 DEF Plt, PltOffset
<1>2. CASE q.exec
  <2> DEFINE p == [q EXCEPT !.got = Plt(q)]
  <2>1. /\ p \in Relocs /\ Placed(p, q) /\ p.mem = q.mem /\ p.type = q.type /\ p.rela = q.rela
        /\ p.addend = q.addend /\ p.base = q.base /\ p.code = q.code /\ p.ok = q.ok
             /\ p.got = Plt(q)
    BY <1>1, GotFacts
  <2>2. mips_set(q) = p
    BY <1>2 DEF mips_set
  <2> HIDE DEF p
  <2> QED BY <1>2, <2>1, <2>2
<1>3. CASE ~ q.exec
  <2>1. mips_set(q) = q
    BY <1>3 DEF mips_set
  <2> QED BY <1>3, <2>1 DEF Placed
<1> QED BY <1>2, <1>3

(* mips_cleared changes got[1] only.                                       *)
LEMMA MipsCleared ==
  ASSUME NEW q \in Relocs, q.got = 0 \/ q.got = Plt(q)
  PROVE  LET p == mips_cleared(q) IN
         /\ p \in Relocs /\ Placed(p, q) /\ p.mem = q.mem /\ p.type = q.type /\ p.rela = q.rela
         /\ p.addend = q.addend /\ p.base = q.base /\ p.code = q.code /\ p.ok = q.ok
              /\ p.got = 0
<1>2. CASE q.got = Plt(q)
  <2> DEFINE p == [q EXCEPT !.got = 0]
  <2>1. /\ p \in Relocs /\ Placed(p, q) /\ p.mem = q.mem /\ p.type = q.type /\ p.rela = q.rela
        /\ p.addend = q.addend /\ p.base = q.base /\ p.code = q.code /\ p.ok = q.ok /\ p.got = 0
    BY GotFacts
  <2>2. mips_cleared(q) = p
    BY <1>2 DEF mips_cleared
  <2> HIDE DEF p
  <2> QED BY <2>1, <2>2
<1>3. CASE q.got # Plt(q)
  <2>1. mips_cleared(q) = q
    BY <1>3 DEF mips_cleared
  <2> QED BY <1>3, <2>1 DEF Placed
<1> QED BY <1>2, <1>3

(* mips_arch_prelink writes the words of the GOT and got[1], and keeps     *)
(* what undoing needs.                                                     *)
LEMMA MipsArch ==
  ASSUME NEW a \in Mips, NEW m, NEW o, KinR(a, m, o), FormR(a, o), NEW s \in Syms,
         m.exec /\ m.type \in mips_Defined => s.val = m.base + 12, NEW p,
           p = ArchPrelink(a, m, s)
  PROVE  /\ KinR(a, p, o) /\ p.type = m.type /\ p.rela = m.rela /\ p.base = m.base
              /\ p.ok = m.ok /\ p.exec = m.exec
         /\ p.got = IF m.exec THEN Plt(p) ELSE m.got
<1> DEFINE g == mips_set(m)
<1>0. m \in Relocs /\ m.class \in Nat /\ m.rela \in BOOLEAN /\ s.val \in Int
      /\ (m.rela => m.type \notin Slot \union mips_Got)
      /\ (m.type = "GOT_E" => ~ m.exec)
  BY MipsFacts DEF Syms
<1>1. /\ g \in Relocs /\ Placed(g, m) /\ g.mem = m.mem /\ g.type = m.type /\ g.rela = m.rela
      /\ g.addend = m.addend /\ g.base = m.base /\ g.code = m.code /\ g.ok = m.ok
           /\ g.got = IF m.exec THEN Plt(m) ELSE m.got
  BY <1>0, MipsSet
<1>2. p = mips_arch_prelink(m, s)
  BY DEF ArchPrelink, X86_64, Ppc, Mips
<1>3. KinR(a, g, o)
  <2> HIDE DEF g
  <2> QED BY <1>1, KinRGot
<1>4. Plt(g) = Plt(m) /\ g.exec = m.exec /\ g.class = m.class
  <2> HIDE DEF g
  <2> QED BY <1>1 DEF Plt, Placed
<1>5. CASE m.type \in mips_Undefined \union {"GOT_D"}
  <2>1. p = Put(g, m.class, s.val)
    BY <1>2, <1>5 DEF mips_arch_prelink, mips_set, mips_Undefined, mips_Defined
  <2> HIDE DEF g
  <2>2. ~ g.rela /\ g.type \in FreeR(a)
    BY <1>0, <1>1, <1>5 DEF FreeR, mips_Got, mips_Global, mips_Undefined
  <2>3. KinR(a, p, o) /\ Kept(p, g)
    BY <1>0, <1>3, <2>1, <2>2, PutKinR
  <2> QED BY <1>1, <1>4, <2>3 DEF Kept, Plt, Placed
<1>6. CASE m.type \notin mips_Undefined \union {"GOT_D"}
  <2>1. ~ (m.type \in mips_Defined /\ m.exec /\ s.val # m.mem.val)
    <3>1. ASSUME m.type \in mips_Defined, m.exec PROVE s.val = m.mem.val
      <4>1. m.type = "GOT_F"
        BY <1>0, <3>1 DEF mips_Defined
      <4>2. ~ m.rela
        BY <1>0, <4>1 DEF mips_Got, mips_Global, mips_Defined
      <4> QED BY <3>1, <4>1, <4>2 DEF KinR, RelKin
    <3> QED BY <3>1
  <2>2. p = g
    BY <1>2, <1>6, <2>1 DEF mips_arch_prelink, mips_set
  <2> HIDE DEF g
  <2> QED BY <1>1, <1>3, <1>4, <2>2
<1> QED BY <1>5, <1>6

(* mips_undo_prelink_rel, mips_undo_prelink_rela and mips_rela_to_rel      *)
(* leave what ld left.                                                     *)
LEMMA MipsUndo ==
  ASSUME NEW a \in Mips, NEW q, NEW o, KinR(a, q, o), FormR(a, o), q.got = 0 \/ q.got = Plt(q),
             q.exec => q.got = Plt(q), Done(a, q),
         NEW n, n = ArchUndo(a, UndoRel(a, q)), NEW k, k = IF n.rela THEN RelaToRel(a, n) ELSE n
  PROVE  FormR(a, k) /\ KinR(a, k, o) /\ k.base = q.base /\ k.ok = q.ok
<1> DEFINE m == UndoRel(a, q)
           g == mips_cleared(m)
<1>1. /\ a \in RelArchs /\ q \in Relocs /\ q.type \in MipsTypes /\ q.addend \in Int
           /\ q.mem.val \in Int /\ q.base \in Nat
      /\ q.class \in Nat /\ q.rela \in BOOLEAN
      /\ q.rela => q.type \notin Slot \union mips_Got
      /\ q.type \in mips_Defined => q.def
      /\ q.type \in Slot => q.exec /\ q.class = 4 /\ q.type = o.type
  BY MipsFacts
<1>2. Placed(q, o) /\ q.slot \in Nat /\ o.mem.val \in Int /\ q.got \in Int
        /\ q.class = ld_class(a)
  BY KinRFacts
<1>3. q.code = NoCode /\ q.code = o.code /\ q.inGot = (o.type \in Slot \union {"GLOB_DAT"})
        /\ LdType(a, o)
  BY <1>2 DEF KinR, FormR, Placed
<1>4. o.mem.width = q.class /\ o.class = q.class
        /\ o.mem = [width |-> q.class, val |-> o.mem.val]
  <2>1. o.class = ld_class(a) /\ o.mem.width = ld_width(a, o) /\ o \in Relocs
    BY DEF FormR
  <2>2. Typed(o)
    BY <2>1, TypedFacts
  <2> QED BY <1>1, <1>2, <1>3, <2>1, <2>2, RelWidth DEF Typed
<1>5. o.type # "GLOB_DAT"
        /\ (q.type # o.type => q.type = "GLOB_DAT" /\ o.type = "REL32" /\ o.mem.val = 0 /\ ~ q.rela)
  BY <1>1, <1>3, RelTypes DEF KinR, SameR, Plain32
<1>6. n = mips_arch_undo_prelink(m)
  BY DEF ArchUndo, X86_64, Ppc, Mips, m
<1>7. ASSUME m \in Relocs, m.got = 0 \/ m.got = Plt(m)
      PROVE  /\ g \in Relocs /\ Placed(g, m) /\ g.mem = m.mem /\ g.type = m.type
                  /\ g.rela = m.rela
             /\ g.addend = m.addend /\ g.base = m.base /\ g.code = m.code /\ g.ok = m.ok
                  /\ g.got = 0
  <2> HIDE DEF m
  <2> QED BY <1>7, MipsCleared
<1>8. m.type \notin mips_Undefined \union {"GOT_D"} => n = g
  <2> HIDE DEF m
  <2> QED BY <1>6 DEF mips_arch_undo_prelink, mips_cleared
<1>9. CASE q.rela
  <2>1. m = q
    BY <1>1, <1>9 DEF m, UndoRel, X86_64, Ppc, Mips
  <2>2. n = g
    BY <1>1, <1>8, <1>9, <2>1 DEF mips_Got, mips_Global
  <2> HIDE DEF m
  <2>3. /\ n \in Relocs /\ Placed(n, q) /\ n.mem = q.mem /\ n.type = q.type /\ n.rela
        /\ n.addend = q.addend /\ n.got = 0 /\ n.base = q.base /\ n.code = q.code /\ n.ok = q.ok
    <3> HIDE DEF g
    <3> QED BY <1>1, <1>7, <1>9, <2>1, <2>2
  <2> HIDE DEF g
  <2>4. k = mips_rela_to_rel(n)
    BY <2>3 DEF RelaToRel, Mips
  <2>5. RelaKin(a, q, o) /\ q.type = o.type
    BY <1>9 DEF KinR, SameR
  <2>6. ASSUME q.type \notin {"NONE", "COPY"}
        PROVE  k = Put(AsRel(n, 0), n.class, WordR(a, n, o)) /\ WordR(a, n, o) \in Int
    <3>1. q.type \in {"RELATIVE", "REL32"} \union mips_DtpMod \union mips_DtpRel
            \union mips_TpRel
      BY <1>1, <1>5, <1>9, <2>5, <2>6 DEF MipsTypes, Slot, mips_Got, mips_Global,
         mips_Undefined, mips_Defined, mips_DtpMod, mips_DtpRel, mips_TpRel
    <3>2. k = Put(AsRel(n, 0), n.class, n.addend)
      BY <2>3, <2>4, <3>1 DEF mips_rela_to_rel, mips_InPlace, AsRel, mips_DtpMod, mips_DtpRel,
         mips_TpRel
    <3>3. WordR(a, n, o) = n.addend
      BY <2>3, <2>5, <3>1 DEF WordR, RelaKin, AddrR, Target, Slot, mips_DtpMod, mips_DtpRel,
         mips_TpRel
    <3> QED BY <1>1, <2>3, <3>2, <3>3
  <2>7. /\ k \in Relocs /\ Placed(k, n) /\ k.mem.width = n.class /\ k.mem.val = WordR(a, n, o)
             /\ k.type = n.type /\ ~ k.rela
        /\ k.addend = 0 /\ k.got = n.got /\ k.base = n.base /\ k.code = n.code /\ k.ok = n.ok
    <3>0. CASE q.type \notin {"NONE", "COPY"}
      <4> DEFINE x == WordR(a, n, o)
      <4>1. n \in Relocs /\ x \in Int /\ n.class \in Nat /\ k = Put(AsRel(n, 0), n.class, x)
        BY <1>1, <2>3, <2>6, <3>0 DEF Placed
      <4> HIDE DEF x
      <4>2. /\ k \in Relocs /\ Placed(k, n) /\ k.mem.width = n.class /\ k.mem.val = x
                 /\ k.type = n.type /\ ~ k.rela
            /\ k.addend = 0 /\ k.got = n.got /\ k.base = n.base /\ k.code = n.code
                 /\ k.ok = n.ok
        BY <4>1, ToRel
      <4> QED BY <4>2 DEF x
    <3>1. CASE q.type \in {"NONE", "COPY"}
      <4>1. k = AsRel(n, 0)
        BY <2>3, <2>4, <3>1 DEF mips_rela_to_rel, mips_InPlace, AsRel, mips_DtpMod, mips_DtpRel,
           mips_TpRel
      <4>2. n.mem = o.mem /\ n.class = q.class
        BY <2>3, <2>5, <3>1 DEF RelaKin, Still, Placed
      <4>3. WordR(a, n, o) = o.mem.val
        BY <2>3, <3>1 DEF WordR, AddrR, Slot
      <4>4. n \in Relocs
        BY <2>3
      <4>5. /\ k \in Relocs /\ Placed(k, n) /\ k.mem = n.mem /\ k.type = n.type /\ ~ k.rela
            /\ k.addend = 0 /\ k.got = n.got /\ k.base = n.base /\ k.code = n.code
                 /\ k.ok = n.ok
        BY <4>1, <4>4, AsRelIs
      <4> QED BY <1>4, <4>2, <4>3, <4>5
    <3> QED BY <3>0, <3>1
  <2>8. WordR(a, k, o) = WordR(a, n, o)
    BY <2>7 DEF WordR, Target, Plt, mips_stub, Placed
  <2>9. Placed(k, o) /\ k.class = n.class
    BY <1>2, <2>3, <2>7 DEF Placed
  <2> QED BY <1>1, <1>3, <2>3, <2>5, <2>7, <2>8, <2>9, RestoredR
<1>10. CASE ~ q.rela
  <2>1. m = mips_undo_prelink_rel(q)
    BY <1>10 DEF m, UndoRel, X86_64, Ppc, Mips, RelArchs
  <2>2. RelKin(a, q, o)
    BY <1>10 DEF KinR
  <2> HIDE DEF m
  <2>3. /\ m \in Relocs /\ Placed(m, q) /\ m.type = o.type /\ ~ m.rela /\ m.addend = 0
             /\ m.got = q.got /\ m.base = q.base
        /\ m.code = q.code /\ m.ok = q.ok
        /\ m.type \notin mips_Undefined \union {"GOT_D"} => m.mem.width = q.class
             /\ m.mem.val = WordR(a, m, o)
    <3>1. CASE q.type \notin {"GLOB_DAT", "JUMP_SLOT"}
      <4>1. m = q
        BY <2>1, <3>1 DEF mips_undo_prelink_rel
      <4>2. q.type = o.type /\ Placed(q, q)
        BY <1>5, <3>1 DEF Placed
      <4>3. CASE q.type \in AddrR \union {"GOT_E", "GOT_F"}
        BY <1>1, <1>10, <2>2, <4>1, <4>2, <4>3 DEF RelKin, AddrR, WordR, Slot
      <4>4. CASE q.type \in mips_Undefined \union {"GOT_D"}
        BY <1>1, <1>10, <2>2, <4>1, <4>2, <4>4 DEF RelKin
      <4>5. CASE q.type \notin AddrR \union {"GOT_E", "GOT_F"} \union mips_Undefined
                   \union {"GOT_D"}
        <5>0. q.type \notin FreeR(a) \union Slot
          BY <1>1, <3>1, <4>5 DEF FreeR, Slot, MipsTypes, mips_Undefined, Mips
        <5>1. q.mem = o.mem
          BY <2>2, <4>5, <5>0 DEF RelKin
        <5>2. WordR(a, q, o) = o.mem.val
          BY <4>5, <5>0 DEF WordR, mips_Undefined
        <5> QED BY <1>1, <1>4, <1>10, <2>2, <4>1, <4>2, <5>1, <5>2 DEF RelKin
      <4> QED BY <4>3, <4>4, <4>5
    <3>2. CASE q.type = "JUMP_SLOT"
      <4>1. q.inGot /\ q.type = o.type /\ q.exec /\ q.class = 4
        BY <1>1, <1>3, <3>2 DEF Slot
      <4>2. m = Put(q, 4, q.got)
        BY <2>1, <3>2, <4>1 DEF mips_undo_prelink_rel
      <4>3. Plt(q) \in Int /\ ld_plt_entry(a) * q.slot = 0 /\ q.got = Plt(q)
        BY <1>1, <1>2, <4>1 DEF Plt, PltOffset, ld_plt_entry, X86_64, Mips
      <4>4. Alike(m, q) /\ m.mem = [width |-> 4, val |-> q.got] /\ m.addend = q.addend
        BY <1>1, <1>2, <4>2, PutIs
      <4>5. WordR(a, m, o) = Plt(q) + ld_plt_entry(a) * q.slot
        BY <3>2, <4>4 DEF WordR, AddrR, Slot, Alike, Placed, Plt
      <4>6. WordR(a, m, o) = q.got
        BY <4>3, <4>5
      <4> QED BY <1>10, <2>2, <4>1, <4>4, <4>6 DEF Alike, RelKin
    <3>3. CASE q.type = "GLOB_DAT"
      <4> DEFINE h == [q EXCEPT !.type = "REL32"]
      <4>1. m = Put(h, q.class, 0)
        BY <2>1, <3>3 DEF mips_undo_prelink_rel
      <4>2. o.type = "REL32" /\ o.mem.val = 0
        BY <1>5, <3>3
      <4>3. "REL32" \in Types
        BY <4>2, TypedFacts DEF KinR, Typed
      <4>4. /\ h \in Relocs /\ Placed(h, q) /\ h.type = "REL32" /\ h.rela = q.rela
            /\ h.addend = q.addend /\ h.got = q.got /\ h.base = q.base /\ h.code = q.code
                 /\ h.ok = q.ok
        BY <1>1, <4>3, TypeFacts
      <4> HIDE DEF h
      <4>5. Alike(m, h) /\ m.mem = [width |-> q.class, val |-> 0] /\ m.addend = h.addend
        BY <1>1, <4>1, <4>4, PutIs
      <4>6. WordR(a, m, o) = 0
        BY <4>2, <4>4, <4>5 DEF WordR, AddrR, Slot, Alike
      <4> QED BY <1>10, <2>2, <4>2, <4>4, <4>5, <4>6 DEF Alike, RelKin, Placed
    <3> QED BY <3>1, <3>2, <3>3
  <2>4. m.got = 0 \/ m.got = Plt(m)
    BY <2>3 DEF Plt
  <2>5. /\ g \in Relocs /\ Placed(g, m) /\ g.mem = m.mem /\ g.type = m.type /\ g.rela = m.rela
        /\ g.addend = m.addend /\ g.base = m.base /\ g.code = m.code /\ g.ok = m.ok /\ g.got = 0
    BY <1>7, <2>3, <2>4
  <2>6. m.class = q.class /\ g.class = q.class /\ Placed(g, o)
    <3> HIDE DEF g
    <3> QED BY <1>2, <2>3, <2>5 DEF Placed
  <2>7. /\ n \in Relocs /\ Placed(n, g) /\ n.type = m.type /\ n.rela = m.rela
        /\ n.addend = m.addend /\ n.got = 0 /\ n.base = m.base /\ n.code = m.code /\ n.ok = m.ok
        /\ n.mem.width = q.class /\ n.mem.val = WordR(a, n, o)
    <3>1. CASE m.type \notin mips_Undefined \union {"GOT_D"}
      <4>1. n = g
        BY <1>8, <3>1
      <4> HIDE DEF g
      <4>2. WordR(a, n, o) = WordR(a, m, o)
        BY <2>5, <4>1 DEF WordR, Target, Plt, mips_stub, Placed
      <4> QED BY <2>3, <2>5, <3>1, <4>1, <4>2 DEF Placed
    <3>2. CASE m.type \in mips_Undefined \union {"GOT_D"}
      <4> DEFINE x == IF m.type = "GOT_B" THEN mips_stub(m) ELSE 0
      <4>1. n = Put(g, q.class, x)
        BY <1>6, <2>6, <3>2 DEF mips_arch_undo_prelink, mips_cleared, mips_st_value,
           mips_Undefined, mips_Defined
      <4>2. x \in Int
        BY <1>1, <2>3 DEF mips_stub
      <4>3. x = IF m.type = "GOT_B" THEN mips_stub(m) ELSE 0
        OBVIOUS
      <4> HIDE DEF g, x
      <4>4. Alike(n, g) /\ n.mem = [width |-> q.class, val |-> x] /\ n.addend = g.addend
        BY <1>1, <2>5, <4>1, <4>2, PutIs
      <4>5. m.type # "GOT_B" => o.mem.val = 0
        BY <2>3, <3>2 DEF FormR, LdWord, ZeroR, mips_Undefined
      <4>6. WordR(a, n, o) = x
        BY <2>5, <3>2, <4>3, <4>4, <4>5 DEF WordR, AddrR, Slot, Alike, mips_Undefined, mips_stub
      <4> QED BY <2>5, <4>4, <4>6 DEF Alike
    <3> QED BY <3>1, <3>2
  <2> HIDE DEF g
  <2>8. k = n
    BY <2>3, <2>7
  <2>9. Placed(n, o) /\ n.class = q.class
    BY <2>6, <2>7 DEF Placed
  <2> QED BY <1>1, <1>3, <2>3, <2>7, <2>8, <2>9, RestoredR
<1> QED BY <1>1, <1>9, <1>10
=============================================================================
