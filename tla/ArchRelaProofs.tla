--------------------------- MODULE ArchRelaProofs ---------------------------
(***************************************************************************)
(* The callbacks of the architectures with RELA relocations (module PLArch *)
(* and the modules of the architectures), one at a time: moving an object, *)
(* prelinking it and undoing that.  A relocation that has been through any *)
(* of them is compared with the original that ld left: all that undoing    *)
(* needs of that one is still there.                                       *)
(***************************************************************************)
EXTENDS Relocation, TLAPS

(* The architectures.                                                      *)
Names == X86_64 \union Ppc \union RelArchs
  \union {"s390", "s390x", "sh", "alpha", "ppc64", "sparc", "sparc64"}

(* The types of relocations, those that prelink makes of others included.  *)
Types == {"COPY", "JUMP_SLOT", "GLOB_DAT", "32", "ABS32"}
  \union UNION {ld_types(a) : a \in Names}

(* What the code of a PLT entry may do.                                    *)
Codes == [how : {"none", "lazy", "direct", "indirect", "absolute"}, to : Int]

(* The relocations, as records.                                            *)
Relocs ==
  [type : Types, rela : BOOLEAN, addend : Int, mem : [width : Nat, val : Int], got : Int,
   base : Nat, off : Nat, inGot : BOOLEAN, slot : Nat, exec : BOOLEAN, class : {4, 8},
   def : BOOLEAN, code : Codes, ok : BOOLEAN]

(* The same, field by field: the provers instantiate this form.            *)
Typed(q) ==
  /\ q.type \in Types /\ q.rela \in BOOLEAN /\ q.addend \in Int /\ q.got \in Int
  /\ q.mem.width \in Nat /\ q.mem.val \in Int /\ q.base \in Nat /\ q.off \in Nat
       /\ q.slot \in Nat
  /\ q.class \in {4, 8} /\ q.exec \in BOOLEAN /\ q.ok \in BOOLEAN /\ q.inGot \in BOOLEAN
  /\ q.mem = [width |-> q.mem.width, val |-> q.mem.val]

(* p and q are the same place of the same object.                          *)
Placed(p, q) ==
  /\ p.off = q.off /\ p.inGot = q.inGot /\ p.slot = q.slot
  /\ p.exec = q.exec /\ p.class = q.class /\ p.def = q.def

(* p is q but for the addend and the word.                                 *)
Alike(p, q) ==
  /\ p \in Relocs /\ Placed(p, q) /\ p.type = q.type /\ p.rela = q.rela /\ p.got = q.got
  /\ p.base = q.base /\ p.code = q.code /\ p.ok = q.ok

(* A relocation has its fields.                                            *)
LEMMA TypedFacts == \A q \in Relocs : Typed(q)
  BY DEF Relocs, Typed

(* Put writes the word, and changes nothing else.                          *)
LEMMA PutFacts ==
  \A q \in Relocs, w \in Nat, v \in Int :
    /\ Alike(Put(q, w, v), q)
    /\ Put(q, w, v).mem = [width |-> w, val |-> v]
    /\ Put(q, w, v).mem.width = w /\ Put(q, w, v).mem.val = v
    /\ Put(q, w, v).addend = q.addend
  BY DEF Put, Relocs, Placed, Alike

(* Changing the addend changes nothing else.                               *)
LEMMA AddendFacts ==
  \A q \in Relocs, v \in Int :
    /\ Alike([q EXCEPT !.addend = v], q)
    /\ [q EXCEPT !.addend = v].mem = q.mem
    /\ [q EXCEPT !.addend = v].addend = v
  BY DEF Relocs, Placed, Alike

(* Changing got[1] changes nothing else.                                   *)
LEMMA GotFacts ==
  \A q \in Relocs, v \in Int :
    LET p == [q EXCEPT !.got = v]
    IN  /\ p \in Relocs /\ Placed(p, q) /\ p.mem = q.mem /\ p.type = q.type /\ p.rela = q.rela
        /\ p.addend = q.addend /\ p.got = v /\ p.base = q.base /\ p.code = q.code /\ p.ok = q.ok
  BY DEF Relocs, Placed

(* Changing the base changes nothing else.                                 *)
LEMMA BaseFacts ==
  \A q \in Relocs, v \in Nat :
    LET p == [q EXCEPT !.base = v]
    IN  /\ p \in Relocs /\ Placed(p, q) /\ p.mem = q.mem /\ p.type = q.type /\ p.rela = q.rela
        /\ p.addend = q.addend /\ p.got = q.got /\ p.base = v /\ p.code = q.code /\ p.ok = q.ok
  BY DEF Relocs, Placed

(* Changing the code of the PLT entry changes nothing else.                *)
LEMMA CodeFacts ==
  \A q \in Relocs, v \in Codes :
    LET p == [q EXCEPT !.code = v]
    IN  /\ p \in Relocs /\ Placed(p, q) /\ p.mem = q.mem /\ p.type = q.type /\ p.rela = q.rela
        /\ p.addend = q.addend /\ p.got = q.got /\ p.base = q.base /\ p.code = v /\ p.ok = q.ok
  BY DEF Relocs, Placed

(* Changing the type changes nothing else.                                 *)
LEMMA TypeFacts ==
  \A q \in Relocs, v \in Types :
    LET p == [q EXCEPT !.type = v]
    IN  /\ p \in Relocs /\ Placed(p, q) /\ p.mem = q.mem /\ p.type = v /\ p.rela = q.rela
        /\ p.addend = q.addend /\ p.got = q.got /\ p.base = q.base /\ p.code = q.code
             /\ p.ok = q.ok
  BY DEF Relocs, Placed

(* A relocation made RELA has an addend, and is otherwise what it was.     *)
LEMMA RelaFacts ==
  \A q \in Relocs, v \in Int :
    LET p == [q EXCEPT !.rela = TRUE, !.addend = v]
    IN  /\ p \in Relocs /\ Placed(p, q) /\ p.mem = q.mem /\ p.type = q.type /\ p.rela = TRUE
        /\ p.addend = v /\ p.got = q.got /\ p.base = q.base /\ p.code = q.code /\ p.ok = q.ok
<1> TAKE q \in Relocs, v \in Int
<1> DEFINE p == [q EXCEPT !.rela = TRUE, !.addend = v]
<1>1. p \in Relocs
  BY DEF Relocs
<1>2. /\ p.mem = q.mem /\ p.type = q.type /\ p.rela = TRUE
      /\ p.addend = v /\ p.got = q.got /\ p.base = q.base /\ p.code = q.code /\ p.ok = q.ok
  BY DEF Relocs
<1>3. Placed(p, q)
  BY DEF Relocs, Placed
<1> QED BY <1>1, <1>2, <1>3

(* The same of a relocation made REL again.                                *)
LEMMA RelFacts ==
  \A q \in Relocs, v \in Int :
    LET p == [q EXCEPT !.rela = FALSE, !.addend = v]
    IN  /\ p \in Relocs /\ Placed(p, q) /\ p.mem = q.mem /\ p.type = q.type /\ p.rela = FALSE
        /\ p.addend = v /\ p.got = q.got /\ p.base = q.base /\ p.code = q.code /\ p.ok = q.ok
<1> TAKE q \in Relocs, v \in Int
<1> DEFINE p == [q EXCEPT !.rela = FALSE, !.addend = v]
<1>1. p \in Relocs
  BY DEF Relocs
<1>2. /\ p.mem = q.mem /\ p.type = q.type /\ p.rela = FALSE
      /\ p.addend = v /\ p.got = q.got /\ p.base = q.base /\ p.code = q.code /\ p.ok = q.ok
  BY DEF Relocs
<1>3. Placed(p, q)
  BY DEF Relocs, Placed
<1> QED BY <1>1, <1>2, <1>3

(* Relocations are equal if their fields are.                              *)
LEMMA Extensional ==
  ASSUME NEW p \in Relocs, NEW q \in Relocs, Placed(p, q), p.type = q.type, p.rela = q.rela,
         p.addend = q.addend, p.mem = q.mem, p.got = q.got, p.base = q.base, p.code = q.code,
         p.ok = q.ok
  PROVE  p = q
  BY DEF Relocs, Placed

(* The architectures that keep the address of the PLT in got[1], in        *)
(* libraries and in executables.                                           *)
GotArchs == X86_64 \union {"i386", "s390", "s390x", "sh", "arm", "ppc"}

(* AdjustDyn changes got[1] only: a clear one stays clear, and one that    *)
(* points to the PLT follows it.                                           *)
LEMMA DynFacts ==
  ASSUME NEW a \in Names, NEW q \in Relocs, NEW d \in Int
  PROVE  LET p == AdjustDyn(a, q, d)
    IN  /\ p \in Relocs /\ Placed(p, q) /\ p.mem = q.mem /\ p.type = q.type /\ p.rela = q.rela
        /\ p.addend = q.addend /\ p.base = q.base /\ p.code = q.code /\ p.ok = q.ok
        /\ q.got = 0 => p.got = 0
        /\ a \in GotArchs /\ q.got = Plt(q) /\ (a = "ppc" => q.code = NoCode) =>
             p.got = q.got + d
<1> DEFINE p == AdjustDyn(a, q, d)
           g == [q EXCEPT !.got = q.got + d]
<1>1. q.got + d \in Int /\ Typed(q)
  BY TypedFacts DEF Typed
<1>2. Plt(q) # 0 /\ Plt(q) \in Nat
  BY <1>1 DEF Plt, PltOffset, Typed
<1>3. /\ g \in Relocs /\ Placed(g, q) /\ g.mem = q.mem /\ g.type = q.type /\ g.rela = q.rela
        /\ g.addend = q.addend /\ g.base = q.base /\ g.code = q.code /\ g.ok = q.ok
             /\ g.got = q.got + d
  BY <1>1, GotFacts
<1>4. Placed(q, q) BY DEF Placed
<1>5. p \in {q, g} /\ (q.got = 0 => p = q)
        /\ (a \in GotArchs /\ q.got = Plt(q) /\ (a = "ppc" => q.code = NoCode) => p = g)
  BY <1>2 DEF AdjustDyn, X86_64, Ppc, Mips, RelArchs, Names, GotArchs, x86_64_adjust_dyn,
     i386_adjust_dyn, s390_adjust_dyn, s390x_adjust_dyn, sh_adjust_dyn, ppc_adjust_dyn, ppc_got,
     arm_adjust_dyn
<1> HIDE DEF p, g
<1> QED BY <1>3, <1>4, <1>5 DEF p

(* p is q but for the addend, the word, got[1] and the base.               *)
Frame(p, q) ==
  /\ p \in Relocs /\ Placed(p, q) /\ p.type = q.type /\ p.rela = q.rela
  /\ p.code = q.code /\ p.ok = q.ok

(* relocate_dso: what AdjustRel does to the addend and the word, got[1]    *)
(* that follows the PLT, and the base.                                     *)
LEMMA RelocatedFacts ==
  ASSUME arch \in Names, NEW q \in Relocs, NEW b \in Nat,
         NEW m, m = AdjustRel(arch, q, b - q.base), Alike(m, q),
         NEW p, p = Relocated(q, b)
  PROVE  /\ Frame(p, q) /\ p.base = b /\ p.addend = m.addend /\ p.mem = m.mem
         /\ q.got = 0 => p.got = 0
         /\ arch \in GotArchs /\ q.got = Plt(q) /\ (arch = "ppc" => q.code = NoCode) =>
              p.got = Plt(p)
<1> DEFINE d == b - q.base
           n == AdjustDyn(arch, m, d)
<1>1. p = [n EXCEPT !.base = b]
  BY DEF Relocated
<1>2. Typed(q) /\ d \in Int /\ m \in Relocs
  BY TypedFacts DEF Typed, Alike
<1>3. Plt(m) = Plt(q)
  BY DEF Plt, Alike
<1>4. /\ n \in Relocs /\ Placed(n, m) /\ n.mem = m.mem /\ n.type = m.type /\ n.rela = m.rela
      /\ n.addend = m.addend /\ n.base = m.base /\ n.code = m.code /\ n.ok = m.ok
      /\ m.got = 0 => n.got = 0
      /\ arch \in GotArchs /\ m.got = Plt(m) /\ (arch = "ppc" => m.code = NoCode) =>
           n.got = m.got + d
  BY <1>2, DynFacts
<1> HIDE DEF n
<1>5. /\ p \in Relocs /\ Placed(p, n) /\ p.mem = n.mem /\ p.type = n.type /\ p.rela = n.rela
      /\ p.addend = n.addend /\ p.got = n.got /\ p.base = b /\ p.code = n.code /\ p.ok = n.ok
  BY <1>1, <1>4, BaseFacts
<1>6. Placed(p, q)
  BY <1>4, <1>5 DEF Placed, Alike
<1>7. arch \in GotArchs /\ q.got = Plt(q) /\ (arch = "ppc" => q.code = NoCode) => p.got = Plt(p)
  BY <1>2, <1>3, <1>4, <1>5 DEF Plt, Alike, Typed, PltOffset
<1> QED BY <1>4, <1>5, <1>6, <1>7 DEF Frame, Alike

(* The architectures whose callbacks are built like those of x86_64.       *)
X86Like == X86_64 \union {"s390", "s390x"}

-----------------------------------------------------------------------------

(* RELA relocations that point into the object.                            *)
Addr == {"RELATIVE", "IRELATIVE", "JMP_IREL"}

(* Relocations of a field of an instruction.                               *)
Insns == {"ADDR24", "REL24", "ADDR14"} \union ppc_Predicted \union sparc64_Insns
           \union {"TLS_LE_HIX22", "TLS_LE_LOX10"}

(* Relocations that nothing is done for.                                   *)
Still == {"NONE", "COPY"}

(* A value of 16 bits.                                                     *)
HalfWord(v) == v \in Int /\ 0 <= v /\ v < 65536

(* The relocations of 16 bits.                                             *)
Halves == ppc_Half \union ppc_DtpRel16 \union ppc_TpRel16

(* Where the relative relocations of the model point.                      *)
Target(q) == q.base + 44

(* An instruction without the fields that its relocation is for.           *)
Cleared(type, word) ==
  CASE type \in {"ADDR24", "REL24"} -> Insert(word, 2, 26, 0)
    [] type = "ADDR14" -> ppc_addr14(word, 0)
    [] type \in ppc_Predicted -> ppc_addr14_br(word, 0, FALSE)
    [] type = "OLO10+8" -> Insert(word, 0, 13, 0)
    [] OTHER -> Insert(word, 0, sparc64_bits(type), 0)

(* ld has the address of a relative relocation in the word too.            *)
InWord(a, type) ==
  a \in X86Like \union {"alpha"} \/ (a = "ppc64" /\ type \in {"RELATIVE", "IRELATIVE"})

(* A relative relocation q of an object that may have been moved and       *)
(* prelinked still says where it points, in the addend or in the word.     *)
AddrKin(a, q, o) ==
  /\ q.code = o.code
  /\ CASE a = "sh" ->
         /\ q.addend = IF o.addend = 0 THEN 0 ELSE Target(q)
         /\ q.addend = 0 => q.mem = [width |-> 4, val |-> Target(q)]
    [] a = "sparc" ->
         /\ q.addend \in {0, Target(q)}
         /\ q.mem = [width |-> 4, val |-> Target(q) - q.addend]
    [] OTHER ->
         /\ q.addend = Target(q)
         /\ InWord(a, q.type) => q.mem = [width |-> q.class, val |-> Target(q)]
         /\ a \in Ppc /\ q.type = "IRELATIVE" => q.mem = o.mem

(* The relocation of a PLT slot still has the addend of the original o,    *)
(* relative to the base where it was far, and code where that had code.    *)
SlotKin(a, q, o) ==
  /\ a # "alpha" => q.addend = IF a = "sparc64" /\ o.addend # 0 THEN - sparc64_far(q)
       ELSE o.addend
  /\ a \in {"sparc", "ppc_bss"} \/ (a = "sparc64" /\ o.addend = 0) => q.mem = o.mem
  /\ (q.code = NoCode) <=> (o.code = NoCode)

(* What undoing needs of the original o is still there in q, on an         *)
(* architecture with RELA relocations.                                     *)
KinA(a, q, o) ==
  /\ q \in Relocs /\ o \in Relocs /\ Placed(q, o) /\ q.type = o.type /\ q.rela = o.rela
  /\ q.type \in Addr => AddrKin(a, q, o)
  /\ q.type \in Slot => SlotKin(a, q, o)
  /\ q.type \notin Addr \union Slot => q.addend = o.addend /\ q.code = o.code
  /\ q.type \in Insns => q.mem.width = 4 /\ Cleared(q.type, q.mem.val) = ld_insn(q.type)
  /\ q.type \in Still => q.mem = o.mem
  /\ q.type \in Halves => HalfWord(q.mem.val)

(* What ld leaves in the word.                                             *)
LdVal(a, o) ==
  CASE o.type \in Addr ->
         IF a \in {"sh", "sparc"} THEN Target(o) - o.addend
         ELSE IF InWord(a, o.type) THEN Target(o) ELSE 0
    [] o.type \in Slot ->
         (CASE a \in X86Like \union {"sh", "ppc"} -> Plt(o) + ld_plt_entry(a) * o.slot
            [] a = "alpha" -> Plt(o) + 12 * o.slot
            [] a = "sparc64" -> IF o.addend = 0 THEN 0 ELSE Plt(o) - sparc64_far(o)
            [] OTHER -> 0)
    [] o.type = "ADDR64" -> o.addend
    [] o.type = "GLOB_DAT" /\ a = "alpha" -> StValue(o) + o.addend
    [] o.type \in ppc64_Ds -> o.mem.val
    [] OTHER -> ld_insn(o.type)

(* What ld leaves in the PLT entry.                                        *)
LdCode(a, o) ==
  IF a = "ppc_bss"
    \/ (o.type \in Slot /\ (a \in {"sparc", "alpha"} \/ (a = "sparc64" /\ o.addend = 0)))
  THEN Lazy ELSE NoCode

(* The addends that ld may give a relocation.                              *)
LdAddends(a, o) ==
  CASE o.type \in Addr -> IF a \in {"sh", "sparc"} THEN {0, Target(o)} ELSE {Target(o)}
    [] o.type \in Slot -> IF a = "sparc64" THEN {0, - sparc64_far(o)} ELSE {0}
    [] OTHER -> Int

(* ld makes relocations of this type.                                      *)
LdType(a, o) == o.type \in IF o.exec THEN ld_exec_types(a) ELSE ld_types(a)

(* The relocation is as ld leaves it in an object linked at its base.      *)
FormA(a, o) ==
  /\ o \in Relocs /\ o.rela /\ o.got = 0 /\ o.class = ld_class(a) /\ LdType(a, o)
  /\ o.inGot = (o.type \in Slot \union {"GLOB_DAT"})
  /\ o.addend \in LdAddends(a, o)
  /\ o.mem = [width |-> ld_width(a, o), val |-> LdVal(a, o)]
  /\ o.code = LdCode(a, o)

(* KinA says nothing of the base, got[1] and ok, unless the relocation has *)
(* an address of the object.                                               *)
LEMMA KinSame ==
  ASSUME NEW a, NEW q, NEW o, NEW p, KinA(a, q, o), Frame(p, q), p.addend = q.addend,
             p.mem = q.mem,
         q.type \notin Addr \union Slot
  PROVE  KinA(a, p, o)
<1>1. Placed(p, o)
  BY DEF KinA, Frame, Placed
<1> QED BY <1>1 DEF KinA, Frame

(* A callback may write most words.                                        *)
LEMMA KinPut ==
  ASSUME NEW a, NEW q, NEW o, NEW p, KinA(a, q, o), Frame(p, q), p.addend = q.addend,
         q.type \notin Addr \union Slot \union Insns \union Still, q.type \in Halves =>
           HalfWord(p.mem.val)
  PROVE  KinA(a, p, o)
<1>1. Placed(p, o)
  BY DEF KinA, Frame, Placed
<1> QED BY <1>1 DEF KinA, Frame

(* A relative relocation may change together with its word.                *)
LEMMA KinAddr ==
  ASSUME NEW a, NEW q, NEW o, NEW p, KinA(a, q, o), Frame(p, q), q.type \in Addr,
             AddrKin(a, p, o)
  PROVE  KinA(a, p, o)
<1>1. Placed(p, o)
  BY DEF KinA, Frame, Placed
<1>2. q.type \notin Slot \union Insns \union Still \union Halves
  BY DEF Addr, Slot, Insns, Still, ppc_Predicted, sparc64_Insns, Halves, ppc_Half, ppc_Low,
     ppc_DtpRel16, ppc_TpRel16
<1> QED BY <1>1, <1>2 DEF KinA, Frame

(* The relocation of a PLT slot may change its word, base and got[1].      *)
LEMMA KinSlot ==
  ASSUME NEW a, NEW q, NEW o, NEW p, KinA(a, q, o), p \in Relocs, Placed(p, q),
             p.type = q.type, p.rela = q.rela,
     q.type \in Slot, SlotKin(a, p, o)
  PROVE  KinA(a, p, o)
<1>1. Placed(p, o)
  BY DEF KinA, Frame, Placed
<1>2. q.type \notin Addr \union Insns \union Still \union Halves
  BY DEF Addr, Slot, Insns, Still, ppc_Predicted, sparc64_Insns, Halves, ppc_Half, ppc_Low,
     ppc_DtpRel16, ppc_TpRel16
<1> QED BY <1>1, <1>2 DEF KinA, Frame

(* What a symbol may have been resolved to.                                *)
Syms == [val : Int, isTls : BOOLEAN, modid : Int, tlsoffset : Int]

(* p is q but for the word.                                                *)
Written(p, q) == Alike(p, q) /\ p.addend = q.addend

(* Put writes the word only.                                               *)
LEMMA PutWritten ==
  ASSUME NEW q \in Relocs
  PROVE  Written(q, q) /\ \A w \in Nat, v \in Int : Written(Put(q, w, v), q)
<1>1. Written(q, q)
  BY DEF Written, Alike, Placed
<1>2. ASSUME NEW w \in Nat, NEW v \in Int PROVE Written(Put(q, w, v), q)
  BY DEF Written, Put, Relocs, Placed, Alike
<1> QED BY <1>1, <1>2

-----------------------------------------------------------------------------

(* KinA says nothing of got[1].                                            *)
LEMMA KinGot ==
  ASSUME NEW a, NEW q, NEW o, NEW p, KinA(a, q, o), Frame(p, q), p.addend = q.addend,
             p.mem = q.mem, p.base = q.base
  PROVE  KinA(a, p, o)
<1>1. Placed(p, o)
  BY DEF KinA, Frame, Placed
<1>2. q.type \in Addr => AddrKin(a, p, o)
  BY DEF KinA, AddrKin, Frame, Placed, Target
<1>3. q.type \in Slot => SlotKin(a, p, o)
  BY DEF KinA, SlotKin, Frame, Placed, sparc64_far, Plt
<1> QED BY <1>1, <1>2, <1>3 DEF KinA, Frame

(* The width of a word depends on the type and the class.                  *)
LEMMA LdWidthSame ==
  ASSUME NEW a, NEW p, NEW q, p.type = q.type, p.class = q.class
  PROVE  ld_width(a, p) = ld_width(a, q)
  BY DEF ld_width

(* The original is determined by what is kept of it: two relocations as ld *)
(* leaves them, for the same base, are equal.  Not the DS fields of ppc64, *)
(* whose low bits are lost, nor the RELATIVE of sparc, which has two       *)
(* forms.                                                                  *)
LEMMA Unique ==
  ASSUME NEW a \in Names, NEW o, NEW p, FormA(a, o), FormA(a, p), KinA(a, p, o),
             p.base = o.base, p.ok = o.ok, p.type \notin ppc64_Ds,
         ~ (a = "sparc" /\ p.type \in Addr), a = "alpha" /\ p.type \in Slot =>
           p.addend = o.addend
  PROVE  p = o
<1>1. p \in Relocs /\ o \in Relocs /\ Placed(p, o) /\ p.type = o.type /\ p.rela = o.rela
        /\ p.got = o.got /\ p.ok = o.ok
  BY DEF FormA, KinA
<1>2. p.addend = o.addend
  <2>1. CASE p.type \in Addr
    <3>1. AddrKin(a, p, o) /\ o.addend \in LdAddends(a, o) /\ a # "sparc"
            /\ Target(p) = Target(o)
      BY <1>1, <2>1 DEF KinA, FormA, Target
    <3>2. CASE a = "sh"
      BY <1>1, <2>1, <3>1, <3>2 DEF AddrKin, LdAddends, Addr, Slot
    <3>3. CASE a # "sh"
      BY <1>1, <2>1, <3>1, <3>3 DEF AddrKin, LdAddends, Addr, Slot
    <3> QED BY <3>2, <3>3
  <2>2. CASE p.type \in Slot
    BY <1>1, <2>2 DEF KinA, SlotKin, FormA, LdAddends, sparc64_far, Plt, Placed, Addr, Slot
  <2>3. CASE p.type \notin Addr \union Slot
    BY <2>3 DEF KinA
  <2> QED BY <2>1, <2>2, <2>3
<1>3. LdVal(a, p) = LdVal(a, o)
  BY <1>1, <1>2 DEF LdVal, Target, Plt, Placed, sparc64_far, StValue
<1>4. p.mem = o.mem
  BY <1>1, <1>3, LdWidthSame DEF FormA, Placed
<1>5. p.code = o.code
  BY <1>1, <1>2 DEF FormA, LdCode
<1> QED BY <1>1, <1>2, <1>4, <1>5, Extensional

(* A relocation with the addend, the word and the code that ld leaves is   *)
(* as ld leaves it.                                                        *)
LEMMA FormFrom ==
  ASSUME NEW a, NEW o, NEW p, FormA(a, o), KinA(a, p, o), p.got = 0,
             p.addend \in LdAddends(a, p),
         p.mem = [width |-> ld_width(a, p), val |-> LdVal(a, p)], p.code = LdCode(a, p)
  PROVE  FormA(a, p)
  BY DEF FormA, KinA, Placed, LdType

(* p is q but for the addend, the word and the code of the PLT entry.      *)
Kept(p, q) ==
  /\ p \in Relocs /\ Placed(p, q) /\ p.type = q.type /\ p.rela = q.rela /\ p.got = q.got
  /\ p.base = q.base /\ p.ok = q.ok

(* What is only written is kept.                                           *)
LEMMA WrittenKept ==
  ASSUME NEW p, NEW q, Written(p, q)
  PROVE  Kept(p, q) /\ Frame(p, q) /\ p.addend = q.addend /\ p.code = q.code /\ p.base = q.base
  BY DEF Written, Alike, Kept, Frame

(* The word and the code are what ld leaves, for the base.                 *)
AsLinked(a, q) == q.mem = [width |-> ld_width(a, q), val |-> LdVal(a, q)]
  /\ q.code = LdCode(a, q)

(* What ld leaves in the word depends on the fields named here.            *)
LEMMA LinkedVal ==
  ASSUME NEW a, NEW p, NEW q, p.type = q.type, p.class = q.class, p.addend = q.addend,
             p.base = q.base, p.slot = q.slot, p.def = q.def,
         q.type \notin ppc64_Ds \/ p.mem = q.mem
  PROVE  LdVal(a, p) = LdVal(a, q) /\ ld_width(a, p) = ld_width(a, q)
  BY DEF LdVal, ld_width, Target, Plt, sparc64_far, StValue

(* The addend is still one that ld may give.                               *)
LEMMA FormAddends ==
  ASSUME NEW a \in Names, NEW o, NEW q, FormA(a, o), KinA(a, q, o),
         a = "alpha" /\ q.type \in Slot => q.addend = o.addend
  PROVE  q.addend \in LdAddends(a, q)
<1>1. q \in Relocs /\ o \in Relocs /\ Placed(q, o) /\ q.type = o.type /\ q.addend \in Int
  BY TypedFacts DEF KinA, Typed
<1>2. CASE q.type \in Addr
  <2>1. AddrKin(a, q, o)
    BY <1>2 DEF KinA
  <2>2. q.addend \in IF a \in {"sh", "sparc"} THEN {0, Target(q)} ELSE {Target(q)}
    BY <2>1 DEF AddrKin
  <2> QED BY <1>2, <2>2 DEF LdAddends, Addr, Slot
<1>3. CASE q.type \in Slot
  <2>1. SlotKin(a, q, o) /\ o.addend \in LdAddends(a, o) /\ q.type \notin Addr
    BY <1>1, <1>3 DEF KinA, FormA, Addr, Slot
  <2> QED BY <1>1, <1>3, <2>1 DEF LdAddends, SlotKin
<1> QED BY <1>1, <1>2, <1>3 DEF LdAddends

(* Undoing: when the word has been restored and got[1] is clear, the       *)
(* relocation is as ld left it.                                            *)
LEMMA FormUndone ==
  ASSUME NEW a \in Names, NEW o, NEW q, NEW p, FormA(a, o), KinA(a, q, o), AsLinked(a, q),
         Frame(p, q), p.addend = q.addend, p.mem = q.mem, p.base = q.base, p.got = 0,
         a = "alpha" /\ q.type \in Slot => q.addend = o.addend
  PROVE  FormA(a, p) /\ KinA(a, p, o)
<1>1. KinA(a, p, o)
  BY KinGot
<1>2. LdVal(a, p) = LdVal(a, q) /\ ld_width(a, p) = ld_width(a, q)
  BY LinkedVal DEF Frame, Placed
<1>3. LdCode(a, p) = LdCode(a, q)
  BY DEF LdCode, Frame
<1>4. p.addend \in LdAddends(a, p)
  BY <1>1, FormAddends DEF Frame
<1> QED BY <1>1, <1>2, <1>3, <1>4, FormFrom DEF AsLinked, Frame

(* Most words are clear in a file that ld made.                            *)
LEMMA PlainVal ==
  ASSUME NEW a, NEW q, q.type \notin Addr \union Slot \union Insns \union ppc64_Ds
             \union {"ADDR64", "PC24"},
         q.type = "GLOB_DAT" => a # "alpha"
  PROVE  LdVal(a, q) = 0
<1>1. LdVal(a, q) = ld_insn(q.type)
  BY DEF LdVal
<1>2. ld_insn(q.type) = 0
  BY DEF ld_insn, Insns, Predicted
<1> QED BY <1>1, <1>2

(* A clear word has 16 bits.                                               *)
LEMMA HalfZero == HalfWord(0)
  BY DEF HalfWord

(* The words of 16 bits are clear in a file that ld made.                  *)
LEMMA HalfVal ==
  ASSUME NEW a, NEW q, q.type \in Halves
  PROVE  LdVal(a, q) = 0
<1>1. /\ q.type \notin Addr \union Slot \union Insns \union ppc64_Ds
           \union {"ADDR64", "PC24", "GLOB_DAT"}
  BY DEF Halves, ppc_Half, ppc_Low, ppc_DtpRel16, ppc_TpRel16, Addr, Slot, Insns, ppc64_Ds,
     ppc_Predicted, sparc64_Insns
<1> QED BY <1>1, PlainVal

(* What a callback that writes what ld left establishes.                   *)
LEMMA PutLinked ==
  ASSUME NEW a \in Names, NEW o, NEW q, KinA(a, q, o), q.code = LdCode(a, q),
         q.type \notin Addr \union Insns \union Still \union ppc64_Ds,
         q.type \in Slot => a \notin {"sparc", "ppc_bss", "sparc64"},
         NEW w \in Nat, w = ld_width(a, q), NEW v \in Int, v = LdVal(a, q), NEW m,
               m = Put(q, w, v)
  PROVE  Kept(m, q) /\ KinA(a, m, o) /\ AsLinked(a, m)
<1>1. q \in Relocs
  BY DEF KinA
<1>2. Alike(m, q) /\ m.mem = [width |-> w, val |-> v] /\ m.addend = q.addend
  BY <1>1, PutFacts
<1>3. Kept(m, q) /\ Frame(m, q)
  BY <1>2 DEF Alike, Kept, Frame
<1>4. KinA(a, m, o)
  <2>1. CASE q.type \in Slot
    <3>1. SlotKin(a, m, o)
      BY <1>2, <2>1 DEF KinA, SlotKin, Alike
    <3> QED BY <1>3, <2>1, <3>1, KinSlot DEF Kept
  <2>2. CASE q.type \notin Slot
    <3>1. q.type \in Halves => HalfWord(m.mem.val)
      BY <1>2, HalfVal, HalfZero
    <3> QED BY <1>2, <1>3, <2>2, <3>1, KinPut
  <2> QED BY <2>1, <2>2
<1>5. LdVal(a, m) = LdVal(a, q) /\ ld_width(a, m) = ld_width(a, q)
  BY <1>2, <1>3, LinkedVal DEF Kept, Placed
<1>6. m.code = LdCode(a, m)
  BY <1>2 DEF LdCode, Alike
<1> QED BY <1>2, <1>3, <1>4, <1>5, <1>6 DEF AsLinked

(* The same of a callback that writes nothing.                             *)
LEMMA SameLinked ==
  ASSUME NEW a, NEW o, NEW q, KinA(a, q, o), AsLinked(a, q)
  PROVE  Kept(q, q) /\ KinA(a, q, o) /\ AsLinked(a, q)
  BY DEF Kept, Placed, KinA

(* A relocation that nothing was done for still has the word of the        *)
(* original.                                                               *)
LEMMA StillLinked ==
  ASSUME NEW a \in Names, NEW o, NEW q, KinA(a, q, o), FormA(a, o), q.type \in Still
  PROVE  AsLinked(a, q)
<1>1. q.mem = o.mem /\ q.code = o.code /\ q.type = o.type /\ q.class = o.class
        /\ q.addend = o.addend
  BY DEF KinA, Placed, Still, Addr, Slot
<1>2. ld_width(a, q) = ld_width(a, o)
  BY <1>1, LdWidthSame
<1>3. LdVal(a, q) = 0 /\ LdVal(a, o) = 0
  BY <1>1, PlainVal DEF Still, Addr, Slot, Insns, ppc64_Ds, ppc_Predicted, sparc64_Insns
<1>4. LdCode(a, q) = LdCode(a, o)
  BY <1>1 DEF LdCode
<1> QED BY <1>1, <1>2, <1>3, <1>4 DEF AsLinked, FormA

(* What the provers need of a relocation q that is like the original o.    *)
LEMMA KinFacts ==
  ASSUME NEW a, NEW o, NEW q, KinA(a, q, o), FormA(a, o)
  PROVE  /\ q \in Relocs /\ Typed(q) /\ LdType(a, q) /\ q.class = ld_class(a)
              /\ q.type = o.type /\ q.rela
         /\ q.inGot = (q.type \in Slot \union {"GLOB_DAT"})
         /\ q.base \in Nat /\ q.base \in Int /\ q.slot \in Nat /\ q.slot \in Int
              /\ q.off \in Int /\ q.addend \in Int /\ q.mem.val \in Int /\ q.got \in Int
         /\ q.class \in Nat /\ Placed(q, o)
<1>1. q \in Relocs /\ o \in Relocs /\ Placed(q, o) /\ q.type = o.type /\ q.rela = o.rela
  BY DEF KinA
<1>2. Typed(q)
  BY <1>1, TypedFacts
<1>3. LdType(a, q)
  BY <1>1 DEF FormA, LdType, Placed
<1>4. q.class = ld_class(a) /\ q.rela /\ q.inGot = (q.type \in Slot \union {"GLOB_DAT"})
  BY <1>1 DEF FormA, Placed
<1> QED BY <1>1, <1>2, <1>3, <1>4 DEF Typed

(* Only ppc64 has JMP_IREL, of the RELA architectures.                     *)
LEMMA AddrTypes ==
  ASSUME NEW a \in Names, NEW o, LdType(a, o), o.type = "JMP_IREL"
  PROVE  a = "ppc64" \/ a \in RelArchs
<1>1. ASSUME a \in X86_64 \union Ppc
             \union {"s390", "s390x", "sh", "alpha", "sparc", "sparc64"} PROVE FALSE
  <2>1. "JMP_IREL" \notin ld_types(a)
    <3>1. CASE a \in X86_64 \union {"s390", "s390x", "sh"}
      BY <3>1 DEF ld_types, X86_64, Ppc, Mips, s390_Half, s390_Dbl, s390_Dbl16, s390_Tls
    <3>2. CASE a \in {"alpha", "sparc", "sparc64"}
      BY <3>2 DEF ld_types, X86_64, Ppc, Mips, alpha_Tls, sparc_Tls, sparc64_Tls, sparc64_Insns
    <3>3. CASE a \in Ppc
      BY <3>3 DEF ld_types, X86_64, Ppc, Mips, ppc_Word, ppc_Half, ppc_Low, Predicted,
         ppc_Predicted, ppc_DtpRel, ppc_DtpRel16, ppc_TpRel, ppc_TpRel16
    <3> QED BY <1>1, <3>1, <3>2, <3>3
  <2> QED BY <2>1 DEF LdType, ld_exec_types
<1> QED BY <1>1 DEF Names

(* Instructions have four bytes.                                           *)
LEMMA InsnWidth ==
  ASSUME NEW a, NEW q, q.type \in Insns
  PROVE  ld_width(a, q) = 4
  BY DEF Insns, ppc_Predicted, sparc64_Insns, ld_width, Slot, Tls, TpOff, DtpOff, DtpMod,
     s390_Half, s390_Dbl16, ppc_Half, ppc_Low, ppc_DtpRel16, ppc_DtpRel, ppc_TpRel16, ppc_TpRel,
     ppc64_Ds, ppc64_Higher, mips_Got, mips_Global, mips_Undefined, mips_Defined, mips_DtpMod,
     mips_DtpRel, mips_TpRel, Mips

(* ld leaves the fields of instructions clear.                             *)
LEMMA InsnCleared ==
  ASSUME NEW type \in Insns
  PROVE  Cleared(type, ld_insn(type)) = ld_insn(type)
<1>1. CASE type \in {"ADDR24", "REL24"}
  <2>1. Insert(2^26 + 1, 2, 26, 0) = 2^26 + 1
    BY DEF Insert, Field
  <2>2. ld_insn(type) = 2^26 + 1
    BY <1>1 DEF ld_insn, ppc_Predicted, Predicted, ppc64_Ds, sparc64_Insns
  <2>3. Cleared(type, 2^26 + 1) = Insert(2^26 + 1, 2, 26, 0)
    BY <1>1 DEF Cleared, ppc_Predicted
  <2> QED BY <2>1, <2>2, <2>3
<1>2. CASE type = "ADDR14"
  BY <1>2 DEF Cleared, ld_insn, ppc_Predicted, Predicted, ppc64_Ds, sparc64_Insns, Insert,
     Field, ppc_addr14
<1>3. CASE type \in ppc_Predicted
  BY <1>3 DEF Cleared, ld_insn, ppc_Predicted, Predicted, ppc64_Ds, sparc64_Insns, Insert,
     Field, ppc_addr14, ppc_addr14_br
<1>4. CASE type \in sparc64_Insns \union {"TLS_LE_HIX22", "TLS_LE_LOX10"}
  <2>1. ld_insn(type) = 2^30
    BY <1>4 DEF ld_insn, ppc_Predicted, Predicted, ppc64_Ds, sparc64_Insns
  <2>2. Cleared(type, 2^30) = 2^30
    <3>1. CASE type = "OLO10+8"
      BY <3>1 DEF Cleared, ppc_Predicted, Insert, Field
    <3>2. CASE type # "OLO10+8"
      <4>1. sparc64_bits(type) \in {10, 12, 13, 22, 30}
        BY <1>4, <3>2 DEF sparc64_bits, sparc64_Insns
      <4>2. Cleared(type, 2^30) = Insert(2^30, 0, sparc64_bits(type), 0)
        BY <1>4, <3>2 DEF Cleared, ppc_Predicted, sparc64_Insns
      <4>3. /\ Insert(2^30, 0, 10, 0) = 2^30 /\ Insert(2^30, 0, 12, 0) = 2^30
                 /\ Insert(2^30, 0, 13, 0) = 2^30
            /\ Insert(2^30, 0, 22, 0) = 2^30 /\ Insert(2^30, 0, 30, 0) = 2^30
        BY DEF Insert, Field
      <4> QED BY <4>1, <4>2, <4>3
    <3> QED BY <3>1, <3>2
  <2> QED BY <2>1, <2>2
<1> QED BY <1>1, <1>2, <1>3, <1>4 DEF Insns

(* The instruction that ld leaves.                                         *)
LEMMA InsnVal ==
  ASSUME NEW a, NEW q, q.type \in Insns
  PROVE  LdVal(a, q) = ld_insn(q.type)
<1>1. q.type \notin Addr \union Slot \union ppc64_Ds \union {"ADDR64", "GLOB_DAT"}
  BY DEF Insns, Addr, Slot, ppc64_Ds, ppc_Predicted, sparc64_Insns
<1> QED BY <1>1 DEF LdVal

(* Relative relocations have a word of the size of an address.             *)
LEMMA AddrWidth ==
  ASSUME NEW a, NEW q, q.type \in {"RELATIVE", "IRELATIVE"}
  PROVE  ld_width(a, q) = q.class
  BY DEF ld_width, Slot, Tls, TpOff, DtpOff, DtpMod, s390_Half, s390_Dbl16, ppc_Half, ppc_Low,
     ppc_DtpRel16, ppc_DtpRel, ppc_TpRel16, ppc_TpRel, ppc64_Ds, ppc64_Higher, mips_Got,
     mips_Global, mips_Undefined, mips_Defined, mips_DtpMod, mips_DtpRel, mips_TpRel, Mips

(* What ld made has what undoing needs.                                    *)
LEMMA FormKin ==
  ASSUME NEW a \in Names \ RelArchs, NEW o, FormA(a, o)
  PROVE  KinA(a, o, o)
<1>1. /\ o \in Relocs /\ Placed(o, o) /\ LdType(a, o) /\ o.addend \in LdAddends(a, o)
           /\ Typed(o)
      /\ o.mem = [width |-> ld_width(a, o), val |-> LdVal(a, o)] /\ o.class = ld_class(a)
  BY TypedFacts DEF FormA, Placed
<1>2. o.base \in Nat /\ Target(o) \in Int /\ Target(o) # 0 /\ o.addend \in Int
  BY <1>1 DEF Typed, Target
<1>3. ASSUME o.type \in Addr PROVE AddrKin(a, o, o)
  <2>1. o.addend \in IF a \in {"sh", "sparc"} THEN {0, Target(o)} ELSE {Target(o)}
    BY <1>1, <1>3 DEF LdAddends, Addr, Slot
  <2>2. LdVal(a, o) = IF a \in {"sh", "sparc"} THEN Target(o) - o.addend
          ELSE IF InWord(a, o.type) THEN Target(o) ELSE 0
    BY <1>3 DEF LdVal, Addr, Slot, ppc64_Ds
  <2>3. a \in {"sh", "sparc"} \/ InWord(a, o.type) => o.type \in {"RELATIVE", "IRELATIVE"}
    BY <1>1, <1>3, AddrTypes DEF InWord, X86Like, Addr, X86_64, RelArchs, Mips, Names
  <2>4. a \in {"sh", "sparc"} \/ InWord(a, o.type) =>
          o.mem = [width |-> o.class, val |-> LdVal(a, o)]
    BY <1>1, <2>3, AddrWidth
  <2>5. CASE a = "sh"
    BY <1>1, <1>2, <2>1, <2>2, <2>4, <2>5 DEF AddrKin, ld_class
  <2>6. CASE a = "sparc"
    BY <1>1, <1>2, <2>1, <2>2, <2>4, <2>6 DEF AddrKin, ld_class
  <2>7. CASE a \notin {"sh", "sparc"}
    BY <1>2, <2>1, <2>2, <2>4, <2>7 DEF AddrKin
  <2> QED BY <2>5, <2>6, <2>7
<1>4. ASSUME o.type \in Slot PROVE SlotKin(a, o, o)
  <2>1. o.addend \in IF a = "sparc64" THEN {0, - sparc64_far(o)} ELSE {0}
    BY <1>1, <1>4 DEF LdAddends, Addr, Slot
  <2> QED BY <2>1 DEF SlotKin
<1>5. ASSUME o.type \in Insns PROVE o.mem.width = 4
             /\ Cleared(o.type, o.mem.val) = ld_insn(o.type)
  BY <1>1, <1>5, InsnWidth, InsnVal, InsnCleared
<1>6. ASSUME o.type \in Halves PROVE HalfWord(o.mem.val)
  BY <1>1, <1>6, HalfVal, HalfZero
<1> QED BY <1>1, <1>3, <1>4, <1>5, <1>6 DEF KinA

(* Moving an object that ld made gives one that ld could have made.        *)
LEMMA FormMoved ==
  ASSUME NEW a \in Names \ RelArchs, NEW q, NEW p, FormA(a, q), KinA(a, p, q), Frame(p, q),
             p.got = 0,
         p.mem = [width |-> ld_width(a, p), val |-> LdVal(a, p)],
         a = "alpha" /\ q.type \in Slot => p.addend = q.addend
  PROVE  FormA(a, p)
<1>1. p.addend \in LdAddends(a, p)
  BY FormAddends DEF Frame
<1>2. LdCode(a, p) = LdCode(a, q)
  <2>1. p.type \in Slot /\ a = "sparc64" => (p.addend = 0 <=> q.addend = 0)
    <3>1. p \in Relocs /\ Typed(p)
      BY TypedFacts DEF KinA
    <3>2. - sparc64_far(p) # 0
      BY <3>1 DEF sparc64_far, Plt, PltOffset, Typed
    <3> QED BY <3>2 DEF KinA, SlotKin
  <2> QED BY <2>1 DEF LdCode, Frame
<1> QED BY <1>1, <1>2, FormFrom DEF Frame, FormA

(* A word that does not change when the object moves is still what ld      *)
(* leaves.                                                                 *)
LEMMA MovedPlain ==
  ASSUME NEW a \in Names \ RelArchs, NEW q, NEW p, FormA(a, q), Frame(p, q), p.mem = q.mem,
             p.addend = q.addend,
         q.type \notin Addr \union Slot, q.type = "GLOB_DAT" => a # "alpha"
  PROVE  p.mem = [width |-> ld_width(a, p), val |-> LdVal(a, p)]
<1>1. p.type = q.type /\ p.class = q.class
  BY DEF Frame, Placed
<1>2. ld_width(a, p) = ld_width(a, q)
  BY <1>1, LdWidthSame
<1>3. LdVal(a, p) = LdVal(a, q)
  BY <1>1 DEF LdVal
<1> QED BY <1>2, <1>3 DEF FormA

(* A relative word that moved with the object is what ld leaves for the    *)
(* new base.                                                               *)
LEMMA MovedAddr ==
  ASSUME NEW a \in Names \ RelArchs, NEW q, NEW p, FormA(a, q), Frame(p, q), q.type \in Addr,
             AddrKin(a, p, q),
         InWord(a, q.type) \/ a = "sparc" \/ (a = "sh" /\ p.addend = 0) \/ p.mem = q.mem
  PROVE  p.mem = [width |-> ld_width(a, p), val |-> LdVal(a, p)]
<1>1. p.type = q.type /\ p.class = q.class /\ p \in Relocs /\ Typed(p) /\ Typed(q)
        /\ LdType(a, q) /\ q.class = ld_class(a)
  BY TypedFacts DEF Frame, Placed, FormA
<1>2. ld_width(a, p) = ld_width(a, q)
  BY <1>1, LdWidthSame
<1>3. p.base \in Nat /\ q.base \in Nat /\ Target(p) \in Int /\ p.addend \in Int
  BY <1>1 DEF Typed, Target
<1>4. LdVal(a, p) = IF a \in {"sh", "sparc"} THEN Target(p) - p.addend
        ELSE IF InWord(a, p.type) THEN Target(p) ELSE 0
  BY <1>1 DEF LdVal, Addr, Slot, ppc64_Ds
<1>5. LdVal(a, q) = IF a \in {"sh", "sparc"} THEN Target(q) - q.addend
        ELSE IF InWord(a, q.type) THEN Target(q) ELSE 0
  BY <1>1 DEF LdVal, Addr, Slot, ppc64_Ds
<1>6. a \in {"sh", "sparc"} \/ InWord(a, q.type) => ld_width(a, q) = q.class
  <2>1. a \in {"sh", "sparc"} \/ InWord(a, q.type) => q.type \in {"RELATIVE", "IRELATIVE"}
    BY <1>1, AddrTypes DEF InWord, X86Like, Addr, X86_64, RelArchs, Mips, Names
  <2> QED BY <2>1, AddrWidth
<1>7. CASE a = "sparc"
  BY <1>1, <1>2, <1>4, <1>6, <1>7 DEF AddrKin, ld_class
<1>8. CASE a = "sh"
  <2>1. CASE p.addend = 0
    BY <1>1, <1>2, <1>3, <1>4, <1>6, <1>8, <2>1 DEF AddrKin, ld_class
  <2>2. CASE p.addend # 0
    <3>1. q.addend \in {0, Target(q)} /\ q.addend # 0 /\ p.addend = Target(p)
      BY <1>8, <2>2 DEF AddrKin, FormA, LdAddends, Addr
    <3>2. LdVal(a, p) = 0 /\ LdVal(a, q) = 0
      BY <1>3, <1>4, <1>5, <1>8, <3>1 DEF Target
    <3> QED BY <1>2, <1>8, <2>2, <3>2 DEF FormA, InWord, X86Like, X86_64
  <2> QED BY <2>1, <2>2
<1>9. CASE a \notin {"sh", "sparc"}
  <2>1. CASE InWord(a, q.type)
    BY <1>1, <1>2, <1>4, <1>6, <1>9, <2>1 DEF AddrKin
  <2>2. CASE ~ InWord(a, q.type)
    BY <1>1, <1>2, <1>4, <1>5, <1>9, <2>2 DEF FormA
  <2> QED BY <2>1, <2>2
<1> QED BY <1>7, <1>8, <1>9

(* PLT slots have the size of an address, but on ppc64.                    *)
LEMMA SlotWidth ==
  ASSUME NEW a, NEW q, q.type \in Slot, a # "ppc64"
  PROVE  ld_width(a, q) = q.class
  BY DEF ld_width, Slot, Tls, TpOff, DtpOff, DtpMod, s390_Half, s390_Dbl16, ppc_Half, ppc_Low,
     ppc_DtpRel16, ppc_DtpRel, ppc_TpRel16, ppc_TpRel, ppc64_Ds, ppc64_Higher, mips_Got,
     mips_Global, mips_Undefined, mips_Defined, mips_DtpMod, mips_DtpRel, mips_TpRel, Mips

(* A callback of a RELA architecture may write a word that undoing         *)
(* computes anew.                                                          *)
LEMMA PutKin ==
  ASSUME NEW a, NEW o, NEW q, KinA(a, q, o), q.type \notin Addr \union Insns \union Still
             \union Halves,
         q.type \in Slot => a \notin {"sparc", "ppc_bss", "sparc64"},
         NEW w \in Nat, NEW v \in Int, NEW m, m \in {q, Put(q, w, v)}
  PROVE  KinA(a, m, o) /\ Kept(m, q)
<1>1. q \in Relocs /\ Written(m, q)
  BY PutWritten DEF KinA
<1>2. Kept(m, q) /\ Frame(m, q) /\ m.addend = q.addend /\ m.code = q.code
  BY <1>1, WrittenKept
<1>3. CASE q.type \in Slot
  <2>1. SlotKin(a, m, o)
    BY <1>2, <1>3 DEF KinA, SlotKin, sparc64_far, Plt, Kept, Placed
  <2> QED BY <1>2, <1>3, <2>1, KinSlot DEF Kept
<1>4. CASE q.type \notin Slot
  BY <1>2, <1>4, KinPut
<1> QED BY <1>2, <1>3, <1>4

(* It may do nothing.                                                      *)
LEMMA SameKin ==
  ASSUME NEW a, NEW o, NEW q, KinA(a, q, o)
  PROVE  KinA(a, q, o) /\ Kept(q, q)
  BY DEF KinA, Kept, Placed

(* It may write the fields of an instruction.                              *)
LEMMA InsnKin ==
  ASSUME NEW a, NEW o, NEW q, KinA(a, q, o), q.type \in Insns, NEW v \in Int,
         Cleared(q.type, v) = Cleared(q.type, q.mem.val), NEW m, m \in {q, Put(q, 4, v)}
  PROVE  KinA(a, m, o) /\ Kept(m, q)
<1>0. q \in Relocs
  BY DEF KinA
<1>1. Written(m, q) /\ m.mem.val \in {q.mem.val, v} /\ m.mem.width \in {q.mem.width, 4}
  <2>1. Written(q, q) /\ Written(Put(q, 4, v), q)
    BY <1>0, PutWritten
  <2>2. Put(q, 4, v).mem.width = 4 /\ Put(q, 4, v).mem.val = v
    BY <1>0 DEF Put, Relocs
  <2> QED BY <2>1, <2>2
<1>2. Kept(m, q) /\ Frame(m, q) /\ m.addend = q.addend /\ m.code = q.code /\ Placed(m, o)
  BY <1>1, WrittenKept DEF Kept, Placed, KinA
<1>3. q.type \notin Addr \union Slot \union Still \union Halves
  BY DEF Addr, Slot, Insns, Still, ppc_Predicted, sparc64_Insns, Halves, ppc_Half, ppc_Low,
     ppc_DtpRel16, ppc_TpRel16
<1> QED BY <1>1, <1>2, <1>3 DEF KinA, Kept

(* It may write the code of a PLT entry.                                   *)
LEMMA CodeKin ==
  ASSUME NEW a, NEW o, NEW q, KinA(a, q, o), q.type \in Slot, q.code # NoCode, NEW c \in Codes,
             c # NoCode,
         NEW m, m = [q EXCEPT !.code = c]
  PROVE  KinA(a, m, o) /\ Kept(m, q) /\ m.mem = q.mem /\ m.addend = q.addend /\ m.code = c
<1>1. q \in Relocs
  BY DEF KinA
<1>2. /\ m \in Relocs /\ Placed(m, q) /\ m.mem = q.mem /\ m.type = q.type /\ m.rela = q.rela
      /\ m.addend = q.addend /\ m.got = q.got /\ m.base = q.base /\ m.code = c /\ m.ok = q.ok
  BY <1>1, CodeFacts
<1>3. SlotKin(a, m, o)
  BY <1>2 DEF KinA, SlotKin, sparc64_far, Plt, Placed
<1> QED BY <1>2, <1>3, KinSlot DEF Kept

(* Clearing the fields of an instruction restores it.                      *)
LEMMA InsnLinked ==
  ASSUME NEW a \in Names, NEW o, NEW q, KinA(a, q, o), FormA(a, o), q.type \in Insns, NEW m,
             m = Put(q, 4, Cleared(q.type, q.mem.val))
  PROVE  Kept(m, q) /\ KinA(a, m, o) /\ AsLinked(a, m)
<1>1. q.type \notin Addr \union Slot \union ppc64_Ds
  BY DEF Addr, Slot, Insns, ppc64_Ds, ppc_Predicted, sparc64_Insns
<1>2. q \in Relocs /\ Cleared(q.type, q.mem.val) = ld_insn(q.type) /\ q.type = o.type
        /\ q.code = o.code
  BY <1>1 DEF KinA
<1>3. ld_insn(q.type) \in Int
  BY DEF ld_insn, Insns, ppc_Predicted, Predicted, ppc64_Ds, sparc64_Insns
<1>4. KinA(a, m, o) /\ Kept(m, q)
  BY <1>2, <1>3, InsnCleared, InsnKin
<1>5. m.mem = [width |-> 4, val |-> ld_insn(q.type)] /\ m.code = q.code /\ m.type = q.type
  BY <1>2, <1>3, PutFacts DEF Alike
<1>6. ld_width(a, m) = 4 /\ LdVal(a, m) = ld_insn(q.type)
  BY <1>5, InsnWidth, InsnVal
<1>7. LdCode(a, m) = LdCode(a, o)
  BY <1>1, <1>2, <1>5 DEF LdCode
<1> QED BY <1>2, <1>4, <1>5, <1>6, <1>7 DEF AsLinked, FormA

(* Relocations that do not point into the object stay as they are when it  *)
(* moves.                                                                  *)
LEMMA MoveOther ==
  ASSUME arch \in Names \ RelArchs, NEW q, NEW o, KinA(arch, q, o), FormA(arch, o),
         NEW b \in Nat,
         q.type \notin Addr \union Slot, q.type = "GLOB_DAT" => arch # "alpha",
         NEW m, m = AdjustRel(arch, q, b - q.base), m = q, NEW p, p = Relocated(q, b)
  PROVE  /\ KinA(arch, p, o) /\ Alike(m, q)
         /\ FormA(arch, q) => p.mem = [width |-> ld_width(arch, p), val |-> LdVal(arch, p)]
<1>1. q \in Relocs /\ Alike(m, q)
  BY KinFacts DEF Alike, Placed
<1>2. Frame(p, q) /\ p.base = b /\ p.addend = m.addend /\ p.mem = m.mem
  BY <1>1, RelocatedFacts
<1>3. KinA(arch, p, o)
  BY <1>2, KinSame
<1> QED BY <1>1, <1>2, <1>3, MovedPlain

(* AddendFacts, of a relocation that has a name.                           *)
LEMMA AddendIs ==
  ASSUME NEW q \in Relocs, NEW v \in Int, NEW m, m = [q EXCEPT !.addend = v]
  PROVE  Alike(m, q) /\ m.mem = q.mem /\ m.addend = v
  BY DEF Relocs, Placed, Alike

(* PutFacts, of a relocation that has a name.                              *)
LEMMA PutIs ==
  ASSUME NEW q \in Relocs, NEW w \in Nat, NEW v \in Int, NEW m, m = Put(q, w, v)
  PROVE  Alike(m, q) /\ Written(m, q) /\ m.mem = [width |-> w, val |-> v] /\ m.addend = q.addend
  BY PutFacts DEF Written

(* The codes of PLT entries are codes, and code.                           *)
LEMMA CodeIs ==
  /\ Lazy \in Codes /\ Lazy # NoCode
  /\ \A x \in Int : /\ Direct(x) \in Codes /\ Direct(x) # NoCode
                    /\ Indirect(x) \in Codes /\ Indirect(x) # NoCode
                    /\ Absolute(x) \in Codes /\ Absolute(x) # NoCode
<1>1. Lazy \in Codes
  BY DEF Lazy, Codes
<1>2. Lazy.how = "lazy" /\ NoCode.how = "none"
  BY DEF Lazy, NoCode
<1>3. ASSUME NEW x \in Int
      PROVE  /\ Direct(x) \in Codes /\ Indirect(x) \in Codes
             /\ Absolute(x) \in Codes
  BY DEF Direct, Indirect, Absolute, Codes
<1>4. ASSUME NEW x \in Int
      PROVE  Direct(x).how = "direct" /\ Indirect(x).how = "indirect"
               /\ Absolute(x).how = "absolute"
  BY DEF Direct, Indirect, Absolute
<1>5. Lazy # NoCode
  BY <1>2
<1>6. ASSUME NEW x \in Int
      PROVE  Direct(x) # NoCode /\ Indirect(x) # NoCode /\ Absolute(x) # NoCode
  BY <1>2, <1>4
<1> QED BY <1>1, <1>3, <1>5, <1>6

(* A callback may write 16 bits into a word of 16 bits.                    *)
LEMMA HalfKin ==
  ASSUME NEW a, NEW o, NEW q, KinA(a, q, o), q.type \in Halves, NEW w \in Nat, NEW v \in Int,
             HalfWord(v), NEW m, m \in {q, Put(q, w, v)}
  PROVE  KinA(a, m, o) /\ Kept(m, q)
<1>1. q \in Relocs /\ v \in Int
  BY DEF KinA
<1>2. Written(m, q) /\ m.mem.val \in {q.mem.val, v}
  <2>1. Written(q, q) /\ Written(Put(q, w, v), q)
    BY <1>1, PutWritten
  <2>2. Put(q, w, v).mem.val = v
    BY <1>1 DEF Put, Relocs
  <2> QED BY <2>1, <2>2
<1>3. Kept(m, q) /\ Frame(m, q) /\ m.addend = q.addend
  BY <1>2, WrittenKept
<1>4. q.type \notin Addr \union Slot \union Insns \union Still
  BY DEF Halves, ppc_Half, ppc_Low, ppc_DtpRel16, ppc_TpRel16, Addr, Slot, Insns, Still,
     ppc_Predicted, sparc64_Insns
<1>5. HalfWord(m.mem.val)
  BY <1>2 DEF KinA
<1> QED BY <1>3, <1>4, <1>5, KinPut

-----------------------------------------------------------------------------
(* Fields of instructions.                                                 *)

(* Writing into a field of an instruction leaves the rest of it alone:     *)
(* clearing the field afterwards is clearing it before.                    *)
LEMMA InsertCleared26 ==
  ASSUME NEW w \in Int, NEW v \in Int
  PROVE Insert(w, 2, 26, v) \in Int
          /\ Insert(Insert(w, 2, 26, v), 2, 26, 0) = Insert(w, 2, 26, 0)
  BY DEF Insert, Field

(* The same of the 14 bits of a conditional branch.                        *)
LEMMA InsertCleared16 ==
  ASSUME NEW w \in Int, NEW v \in Int
  PROVE Insert(w, 2, 16, v) \in Int
          /\ Insert(Insert(w, 2, 16, v), 2, 16, 0) = Insert(w, 2, 16, 0)
  BY DEF Insert, Field

(* The same of 10 bits.                                                    *)
LEMMA InsertCleared10 ==
  ASSUME NEW w \in Int, NEW v \in Int
  PROVE Insert(w, 0, 10, v) \in Int
          /\ Insert(Insert(w, 0, 10, v), 0, 10, 0) = Insert(w, 0, 10, 0)
  BY DEF Insert, Field

(* The same of 12 bits.                                                    *)
LEMMA InsertCleared12 ==
  ASSUME NEW w \in Int, NEW v \in Int
  PROVE Insert(w, 0, 12, v) \in Int
          /\ Insert(Insert(w, 0, 12, v), 0, 12, 0) = Insert(w, 0, 12, 0)
  BY DEF Insert, Field

(* The same of 13 bits.                                                    *)
LEMMA InsertCleared13 ==
  ASSUME NEW w \in Int, NEW v \in Int
  PROVE Insert(w, 0, 13, v) \in Int
          /\ Insert(Insert(w, 0, 13, v), 0, 13, 0) = Insert(w, 0, 13, 0)
  BY DEF Insert, Field

(* The same of 22 bits.                                                    *)
LEMMA InsertCleared22 ==
  ASSUME NEW w \in Int, NEW v \in Int
  PROVE Insert(w, 0, 22, v) \in Int
          /\ Insert(Insert(w, 0, 22, v), 0, 22, 0) = Insert(w, 0, 22, 0)
  BY DEF Insert, Field

(* The same of 30 bits.                                                    *)
LEMMA InsertCleared30 ==
  ASSUME NEW w \in Int, NEW v \in Int
  PROVE Insert(w, 0, 30, v) \in Int
          /\ Insert(Insert(w, 0, 30, v), 0, 30, 0) = Insert(w, 0, 30, 0)
  BY DEF Insert, Field

(* A conditional branch of ppc: the bits above the prediction bit, that    *)
(* bit, the bits below it, the displacement, the low bits.                 *)
Comp(h, b, c, m, l) == 4194304 * h + 2097152 * b + 65536 * c + 4 * m + l

(* The parts are as wide as they should be.                                *)
Parts(h, b, c, m, l) ==
  /\ h \in Int /\ b \in Int /\ c \in Int /\ m \in Int /\ l \in Int
  /\ 0 <= b /\ b <= 1 /\ 0 <= c /\ c <= 31 /\ 0 <= m /\ m <= 16383 /\ 0 <= l /\ l <= 3

(* The displacement of a value.                                            *)
Mid(v) == (v % 65536) \div 4

(* The parts, from the remainders of the word.                             *)
LEMMA CompParts ==
  ASSUME NEW h, NEW b, NEW c, NEW m, NEW l, Parts(h, b, c, m, l), NEW x, x = Comp(h, b, c, m, l)
  PROVE  /\ x \in Int /\ x % 4 = l /\ x % 65536 = 4 * m + l
              /\ x % 2097152 = 65536 * c + 4 * m + l
         /\ x % 4194304 = 2097152 * b + 65536 * c + 4 * m + l
<1>1. x \in Int
  BY SMT DEF Comp, Parts
<1>2. x % 4194304 = 2097152 * b + 65536 * c + 4 * m + l
  BY SMT DEF Comp, Parts
<1>3. x % 2097152 = 65536 * c + 4 * m + l
  BY SMT DEF Comp, Parts
<1>4. x % 65536 = 4 * m + l
  BY SMT DEF Comp, Parts
<1>5. x % 4 = l
  BY SMT DEF Comp, Parts
<1> QED BY SMT, <1>1, <1>2, <1>3, <1>4, <1>5

(* Every word has such parts.                                              *)
LEMMA CompAll ==
  ASSUME NEW w \in Int
  PROVE  \E h, b, c, m, l : Parts(h, b, c, m, l) /\ w = Comp(h, b, c, m, l)
<1> DEFINE h == w \div 4194304
           b == (w % 4194304) \div 2097152
           c == (w % 2097152) \div 65536
           m == (w % 65536) \div 4
           l == w % 4
<1>1. Parts(h, b, c, m, l)
  BY SMT DEF Parts
<1>2. w = Comp(h, b, c, m, l)
  BY SMT DEF Comp
<1> HIDE DEF h, b, c, m, l
<1> QED BY <1>1, <1>2

(* Writing the displacement or the prediction bit changes that part only.  *)
LEMMA CompInt ==
  ASSUME NEW h \in Int, NEW b \in Int, NEW c \in Int, NEW m \in Int, NEW l \in Int,
             Parts(h, b, c, m, l),
         NEW v \in Int
  PROVE  /\ Insert(Comp(h, b, c, m, l), 2, 16, v) = Comp(h, b, c, Mid(v), l)
              /\ Parts(h, b, c, Mid(v), l)
         /\ Insert(Comp(h, b, c, m, l), 21, 22, 0) = Comp(h, 0, c, m, l) /\ Parts(h, 0, c, m, l)
         /\ Insert(Comp(h, b, c, m, l), 21, 22, 2^21) = Comp(h, 1, c, m, l)
              /\ Parts(h, 1, c, m, l)
<1> DEFINE x == Comp(h, b, c, m, l)
           n == Mid(v)
<1>1. /\ x \in Int /\ x % 4 = l /\ x % 65536 = 4 * m + l /\ x % 2097152 = 65536 * c + 4 * m + l
      /\ x % 4194304 = 2097152 * b + 65536 * c + 4 * m + l
  BY CompParts, SMT
<1>2. /\ Parts(h, b, c, n, l) /\ Parts(h, 0, c, m, l) /\ Parts(h, 1, c, m, l)
  BY SMT DEF Parts, Mid
<1>3. (v % 65536) - (v % 4) = 4 * n /\ n \in Int
  BY SMT DEF Mid
<1>0. x = Comp(h, b, c, m, l)
  OBVIOUS
<1> HIDE DEF x, n
<1>4. Insert(x, 2, 16, v) = x - ((x % 65536) - (x % 4)) + ((v % 65536) - (v % 4))
  BY SMT, <1>1 DEF Insert, Field
<1>5. Insert(x, 21, 22, 0) = x - ((x % 4194304) - (x % 2097152))
  BY SMT, <1>1 DEF Insert, Field
<1>6. Insert(x, 21, 22, 2^21) = x - ((x % 4194304) - (x % 2097152)) + 2097152
  BY SMT, <1>1 DEF Insert, Field
<1>7. Insert(x, 2, 16, v) = Comp(h, b, c, n, l)
  BY SMT, <1>0, <1>1, <1>3, <1>4 DEF Comp, Parts
<1>8. Insert(x, 21, 22, 0) = Comp(h, 0, c, m, l)
  BY SMT, <1>0, <1>1, <1>5 DEF Comp, Parts
<1>9. Insert(x, 21, 22, 2^21) = Comp(h, 1, c, m, l)
  BY SMT, <1>0, <1>1, <1>6 DEF Comp, Parts
<1> QED BY <1>2, <1>7, <1>8, <1>9 DEF x, n

(* The same, for parts that are not known to be integers.                  *)
LEMMA CompIns ==
  ASSUME NEW h, NEW b, NEW c, NEW m, NEW l, Parts(h, b, c, m, l), NEW v \in Int
  PROVE  /\ Insert(Comp(h, b, c, m, l), 2, 16, v) = Comp(h, b, c, Mid(v), l)
              /\ Parts(h, b, c, Mid(v), l)
         /\ Insert(Comp(h, b, c, m, l), 21, 22, 0) = Comp(h, 0, c, m, l) /\ Parts(h, 0, c, m, l)
         /\ Insert(Comp(h, b, c, m, l), 21, 22, 2^21) = Comp(h, 1, c, m, l)
              /\ Parts(h, 1, c, m, l)
<1>1. h \in Int /\ b \in Int /\ c \in Int /\ m \in Int /\ l \in Int
  BY DEF Parts
<1> QED BY <1>1, CompInt, Zenon

(* Writing both leaves the rest of the branch alone.                       *)
LEMMA PredictedCleared ==
  ASSUME NEW w \in Int, NEW v \in Int, NEW x \in {0, 2^21}
  PROVE  /\ Insert(Insert(w, 2, 16, v), 21, 22, x) \in Int
         /\ Insert(Insert(Insert(Insert(w, 2, 16, v), 21, 22, x), 2, 16, 0), 21, 22, 0)
              = Insert(Insert(w, 2, 16, 0), 21, 22, 0)
<1>1. PICK h, b, c, m, l : Parts(h, b, c, m, l) /\ w = Comp(h, b, c, m, l)
  BY CompAll
<1> DEFINE e == IF x = 0 THEN 0 ELSE 1
           y == Insert(Insert(w, 2, 16, v), 21, 22, x)
<1>2. /\ Insert(w, 2, 16, v) = Comp(h, b, c, Mid(v), l) /\ Parts(h, b, c, Mid(v), l)
      /\ Insert(w, 2, 16, 0) = Comp(h, b, c, Mid(0), l) /\ Parts(h, b, c, Mid(0), l)
  BY <1>1, CompIns
<1>3. y = Comp(h, e, c, Mid(v), l) /\ Parts(h, e, c, Mid(v), l)
  BY <1>2, CompIns
<1> HIDE DEF e
<1>4. y \in Int
  BY <1>3, CompParts
<1> HIDE DEF y
<1>5. Insert(y, 2, 16, 0) = Comp(h, e, c, Mid(0), l) /\ Parts(h, e, c, Mid(0), l)
  BY <1>3, CompIns
<1>6. Insert(Insert(y, 2, 16, 0), 21, 22, 0) = Comp(h, 0, c, Mid(0), l)
  BY <1>5, CompIns
<1>7. Insert(Insert(w, 2, 16, 0), 21, 22, 0) = Comp(h, 0, c, Mid(0), l)
  BY <1>2, CompIns
<1> QED BY <1>4, <1>6, <1>7 DEF y

-----------------------------------------------------------------------------
(* x86_64, s390 and s390x.                                                 *)

(* x86_64_adjust_rela, s390_adjust_rela and s390x_adjust_rela: relative    *)
(* words and PLT slots move with the object, nothing else does.            *)
LEMMA X86Adjust ==
  ASSUME NEW a \in X86Like, NEW q \in Relocs, NEW d \in Int, q.class = ld_class(a)
  PROVE  LET m == AdjustRel(a, q, d)
         IN  /\ Alike(m, q)
             /\ q.type \in {"RELATIVE", "IRELATIVE"}
                  /\ q.mem = [width |-> q.class, val |-> q.addend]
                 => m.addend = q.addend + d /\ m.mem = [width |-> q.class, val |-> q.addend + d]
             /\ q.type \in {"JMP_SLOT", "JUMP_SLOT"} /\ (q.type = "JUMP_SLOT" <=> a \in X86_64)
                => m.addend = q.addend /\ m.mem = [width |-> q.class, val |-> q.mem.val + d]
             /\ q.type \notin {"RELATIVE", "IRELATIVE"} \union Slot => m = q
<1> DEFINE v == [q EXCEPT !.addend = q.addend + d]
           m == AdjustRel(a, q, d)
<1>1. Typed(q) /\ q.addend + d \in Int /\ q.mem.val + d \in Int /\ q.class \in Nat
  BY TypedFacts DEF Typed
<1>2. v \in Relocs /\ Alike(v, q) /\ v.mem = q.mem /\ v.addend = q.addend + d
        /\ v.class = q.class
  BY <1>1, AddendFacts DEF Alike, Placed
<1>3. Alike(q, q)
  BY DEF Alike, Placed
<1> HIDE DEF v
<1> DEFINE qp == Put(q, q.class, q.mem.val + d)
           vp == Put(v, q.class, q.mem.val + d)
<1>4. m = CASE q.type = "RELATIVE" -> IF q.mem.val = q.addend THEN vp ELSE v
            [] q.type = "IRELATIVE" -> vp
            [] q.type \in Slot /\ (q.type = "JUMP_SLOT" <=> a \in X86_64) -> qp
            [] OTHER -> q
  BY <1>2 DEF AdjustRel, X86Like, X86_64, Ppc, Mips, x86_64_adjust_rela, s390_adjust_rela,
     s390x_adjust_rela, Slot, ld_class, v
<1>5. Alike(qp, q) /\ qp.addend = q.addend
        /\ qp.mem = [width |-> q.class, val |-> q.mem.val + d]
  BY <1>1, PutFacts
<1>6. Alike(vp, q) /\ vp.addend = q.addend + d
        /\ vp.mem = [width |-> q.class, val |-> q.mem.val + d]
  <2>1. Alike(vp, v) /\ vp.addend = v.addend
          /\ vp.mem = [width |-> q.class, val |-> q.mem.val + d]
    BY <1>1, <1>2, PutFacts
  <2> QED BY <1>2, <2>1 DEF Alike, Placed
<1> HIDE DEF m, v, qp, vp
<1>7. Alike(m, q)
  BY <1>2, <1>3, <1>4, <1>5, <1>6
<1> QED BY <1>1, <1>2, <1>4, <1>5, <1>6, <1>7 DEF m, Slot

(* The relocations of these architectures.                                 *)
LEMMA X86Types ==
  ASSUME NEW a \in X86Like, NEW o, LdType(a, o)
  PROVE  /\ o.type \notin Insns \union Halves /\ o.type # "JMP_IREL"
         /\ o.type \in Slot => (o.type = "JUMP_SLOT" <=> a \in X86_64)
  BY DEF LdType, ld_exec_types, ld_types, X86Like, X86_64, Mips, Ppc, Insns, ppc_Predicted,
     sparc64_Insns, s390_Half, s390_Dbl, s390_Dbl16, s390_Tls, Slot, DtpMod, DtpOff, Halves,
     ppc_Half, ppc_Low, ppc_DtpRel16, ppc_TpRel16

(* Moving an object keeps what undoing needs, and one that ld made is as   *)
(* ld would have made it.                                                  *)
LEMMA X86Move ==
  ASSUME arch \in X86Like, NEW q, NEW o, KinA(arch, q, o), FormA(arch, o), NEW b \in Nat,
         NEW m, m = AdjustRel(arch, q, b - q.base), NEW p, p = Relocated(q, b)
  PROVE  /\ KinA(arch, p, o) /\ Alike(m, q)
         /\ FormA(arch, q) => p.mem = [width |-> ld_width(arch, p), val |-> LdVal(arch, p)]
<1>1. q \in Relocs /\ o \in Relocs /\ Typed(q) /\ b - q.base \in Int
        /\ q.class = ld_class(arch) /\ arch \in Names
  BY TypedFacts DEF KinA, FormA, Typed, Placed, Names, X86Like
<1>2. /\ Alike(m, q)
      /\ q.type \in {"RELATIVE", "IRELATIVE"} /\ q.mem = [width |-> q.class, val |-> q.addend]
           => m.addend = q.addend + (b - q.base)
             /\ m.mem = [width |-> q.class, val |-> q.addend + (b - q.base)]
      /\ q.type \in {"JMP_SLOT", "JUMP_SLOT"} /\ (q.type = "JUMP_SLOT" <=> arch \in X86_64)
           => m.addend = q.addend
             /\ m.mem = [width |-> q.class, val |-> q.mem.val + (b - q.base)]
      /\ q.type \notin {"RELATIVE", "IRELATIVE"} \union Slot => m = q
  BY <1>1, X86Adjust
<1>3. Frame(p, q) /\ p.base = b /\ p.addend = m.addend /\ p.mem = m.mem
  <2>1. Alike(m, q) BY <1>2
  <2> QED BY <1>1, <2>1, RelocatedFacts
<1>4. /\ q.type = o.type /\ q.type \notin Insns /\ q.type # "JMP_IREL"
      /\ q.type \in Slot => (q.type = "JUMP_SLOT" <=> arch \in X86_64)
  BY X86Types DEF KinA, FormA
<1>6. CASE q.type \in Addr
  <2>1. q.addend = q.base + 44 /\ q.mem = [width |-> q.class, val |-> q.addend]
          /\ q.code = o.code
    BY <1>6 DEF KinA, AddrKin, InWord, Target, X86Like, X86_64
  <2>2. p.addend = b + 44 /\ p.mem = [width |-> q.class, val |-> b + 44]
    BY <1>1, <1>2, <1>3, <1>4, <1>6, <2>1 DEF Typed, Addr
  <2>3. AddrKin(arch, p, o)
    BY <1>3, <2>1, <2>2 DEF AddrKin, InWord, Target, X86Like, X86_64, Ppc, Frame, Placed
  <2>4. InWord(arch, q.type) /\ arch \in Names \ RelArchs
    BY DEF InWord, X86Like, X86_64, Names, RelArchs, Mips
  <2>5. FormA(arch, q) => AddrKin(arch, p, q)
    BY <1>3, <2>1, <2>2 DEF AddrKin, InWord, Target, X86Like, X86_64, Ppc, Frame, Placed
  <2>6. FormA(arch, q) => p.mem = [width |-> ld_width(arch, p), val |-> LdVal(arch, p)]
    BY <1>3, <1>6, <2>4, <2>5, MovedAddr
  <2> QED BY <1>2, <1>3, <1>6, <2>3, <2>6, KinAddr
<1>7. CASE q.type \in Slot
  <2>1. SlotKin(arch, p, o)
    BY <1>2, <1>3, <1>4, <1>7 DEF SlotKin, KinA, Frame, X86Like, X86_64, Slot
  <2>2. ASSUME FormA(arch, q)
               PROVE p.mem = [width |-> ld_width(arch, p), val |-> LdVal(arch, p)]
    <3>1. p.type = q.type /\ p.class = q.class /\ p.slot = q.slot
      BY <1>3 DEF Frame, Placed
    <3>2. ld_width(arch, p) = ld_width(arch, q) /\ ld_width(arch, q) = q.class
      BY <1>7, <3>1, LdWidthSame, SlotWidth DEF X86Like, X86_64
    <3>3. /\ LdVal(arch, q) = Plt(q) + ld_plt_entry(arch) * q.slot
          /\ LdVal(arch, p) = Plt(p) + ld_plt_entry(arch) * p.slot
      BY <1>7, <3>1 DEF LdVal, Addr, Slot, ppc64_Ds, X86Like, X86_64
    <3>4. q.slot \in Int /\ q.base \in Int /\ ld_plt_entry(arch) \in {16, 32}
      BY <1>1 DEF Typed, ld_plt_entry, X86Like, X86_64
    <3>5. q.mem.val = Plt(q) + ld_plt_entry(arch) * q.slot
      BY <2>2, <3>3 DEF FormA
    <3>6. p.mem = [width |-> q.class, val |-> q.mem.val + (b - q.base)]
      BY <1>2, <1>3, <1>4, <1>7 DEF Slot
    <3>7. q.mem.val + (b - q.base) = LdVal(arch, p)
      BY <1>3, <3>1, <3>3, <3>4, <3>5 DEF Plt, PltOffset
    <3> QED BY <3>2, <3>6, <3>7
  <2> QED BY <1>2, <1>3, <1>7, <2>1, <2>2, KinSlot DEF Frame
<1>8. CASE q.type \notin Addr \union Slot
  <2>1. KinA(arch, p, o) /\ p.mem = q.mem /\ p.addend = q.addend
    BY <1>2, <1>3, <1>4, <1>8, KinSame DEF Addr
  <2>2. FormA(arch, q) => p.mem = [width |-> ld_width(arch, p), val |-> LdVal(arch, p)]
    BY <1>3, <1>8, <2>1, MovedPlain DEF X86Like, X86_64, Names, RelArchs, Mips
  <2> QED BY <1>2, <2>1, <2>2
<1> QED BY <1>6, <1>7, <1>8

(* x86_64_prelink_rela writes the word.                                    *)
LEMMA X8664Prelink ==
  ASSUME NEW a, a \in X86_64, NEW q \in Relocs, LdType(a, q), q.class = ld_class(a),
             NEW s \in Syms,
         NEW m, m = PrelinkRel(a, q, s)
  PROVE  /\ Written(m, q)
         /\ q.type \in Still \union {"IRELATIVE"} => m = q
         /\ q.type = "RELATIVE" => m.mem = [width |-> q.class, val |-> q.addend]
<1>1. /\ q.addend \in Int /\ q.base \in Int /\ q.off \in Int /\ q.class \in Nat
           /\ q.exec \in BOOLEAN
      /\ s.val \in Int /\ s.tlsoffset \in Int /\ Written(q, q)
  <2>1. Typed(q) /\ Written(q, q)
    BY TypedFacts, PutWritten
  <2>2. s.val \in Int /\ s.tlsoffset \in Int
    BY DEF Syms
  <2> QED BY <2>1, <2>2 DEF Typed
<1>2. m = x86_64_prelink_rela(q, s)
  BY DEF PrelinkRel, X86_64, Ppc, Mips
<1>3. /\ q.type \in {"NONE", "RELATIVE", "COPY", "IRELATIVE", "GLOB_DAT", "JUMP_SLOT", "32",
                     "PC32", "64", "DTPMOD64", "DTPOFF64", "TPOFF64"}
      /\ q.exec => q.type # "DTPMOD64"
      /\ ~ q.exec => q.type # "COPY"
  BY DEF LdType, ld_exec_types, ld_types, X86_64, Mips, Ppc, DtpMod, DtpOff
<1>c1. CASE q.type \in {"NONE", "IRELATIVE", "COPY", "DTPMOD64"}
  <2>1. m = q
    BY <1>c1, <1>2, <1>3 DEF x86_64_prelink_rela
  <2> QED BY <1>c1, <1>1, <2>1 DEF Still
<1>c2. CASE q.type = "RELATIVE"
  <2>1. m = Put(q, q.class, q.addend)
    BY <1>c2, <1>2, <1>3 DEF x86_64_prelink_rela
  <2>2. m.mem = [width |-> q.class, val |-> q.addend]
    BY <1>1, <2>1, PutFacts
  <2>3. Written(m, q)
    BY <1>1, <2>1, PutWritten
  <2> QED BY <1>c2, <2>2, <2>3 DEF Still
<1>c3. CASE q.type \in {"GLOB_DAT", "JUMP_SLOT"}
  <2>1. m = Put(q, q.class, s.val + q.addend)
    BY <1>c3, <1>2, <1>3 DEF x86_64_prelink_rela
  <2>2. s.val + q.addend \in Int
    BY <1>1 DEF P
  <2> QED BY <1>c3, <1>1, <2>1, <2>2, PutWritten DEF Still
<1>c4. CASE q.type \in {"64", "DTPOFF64"}
  <2>1. m = Put(q, 8, s.val + q.addend)
    BY <1>c4, <1>2, <1>3 DEF x86_64_prelink_rela
  <2>2. s.val + q.addend \in Int
    BY <1>1 DEF P
  <2> QED BY <1>c4, <1>1, <2>1, <2>2, PutWritten DEF Still
<1>c5. CASE q.type = "32"
  <2>1. m = Put(q, 4, s.val + q.addend)
    BY <1>c5, <1>2, <1>3 DEF x86_64_prelink_rela
  <2>2. s.val + q.addend \in Int
    BY <1>1 DEF P
  <2> QED BY <1>c5, <1>1, <2>1, <2>2, PutWritten DEF Still
<1>c6. CASE q.type = "PC32"
  <2>1. m = Put(q, 4, s.val + q.addend - P(q))
    BY <1>c6, <1>2, <1>3 DEF x86_64_prelink_rela
  <2>2. s.val + q.addend - P(q) \in Int
    BY <1>1 DEF P
  <2> QED BY <1>c6, <1>1, <2>1, <2>2, PutWritten DEF Still
<1>c7. CASE q.type = "TPOFF64"
  <2>1. m \in {q, Put(q, 8, s.val + q.addend - s.tlsoffset)}
    BY <1>c7, <1>2, <1>3 DEF x86_64_prelink_rela
  <2>2. s.val + q.addend - s.tlsoffset \in Int
    BY <1>1 DEF P
  <2> QED BY <1>c7, <1>1, <2>1, <2>2, PutWritten DEF Still
<1> QED BY <1>3, <1>c1, <1>c2, <1>c3, <1>c4, <1>c5, <1>c6, <1>c7

(* s390_prelink_rela writes the word.                                      *)
LEMMA S390Prelink ==
  ASSUME NEW a, a = "s390", NEW q \in Relocs, LdType(a, q), q.class = ld_class(a),
             NEW s \in Syms,
         NEW m, m = PrelinkRel(a, q, s)
  PROVE  /\ Written(m, q)
         /\ q.type \in Still \union {"IRELATIVE"} => m = q
         /\ q.type = "RELATIVE" => m.mem = [width |-> 4, val |-> q.addend]
<1>1. /\ q.addend \in Int /\ q.base \in Int /\ q.off \in Int /\ q.class \in Nat
           /\ q.exec \in BOOLEAN
      /\ s.val \in Int /\ s.tlsoffset \in Int /\ Written(q, q)
  <2>1. Typed(q) /\ Written(q, q)
    BY TypedFacts, PutWritten
  <2>2. s.val \in Int /\ s.tlsoffset \in Int
    BY DEF Syms
  <2> QED BY <2>1, <2>2 DEF Typed
<1>2. m = s390_prelink_rela(q, s)
  BY DEF PrelinkRel, X86_64, Ppc, Mips
<1>3. /\ q.type \in {"NONE", "RELATIVE", "COPY", "IRELATIVE", "GLOB_DAT", "JMP_SLOT", "32", "PC32", "8"}
                   \union s390_Half \union s390_Dbl \union s390_Tls
      /\ q.exec => q.type # "TLS_DTPMOD"
      /\ ~ q.exec => q.type # "COPY"
  BY DEF LdType, ld_exec_types, ld_types, X86_64, Mips, Ppc, DtpMod, DtpOff, s390_Half,
     s390_Dbl, s390_Dbl16, s390_Tls
<1>c1. CASE q.type \in {"NONE", "IRELATIVE", "COPY", "TLS_DTPMOD"}
  <2>1. m = q
    BY <1>c1, <1>2, <1>3 DEF s390_prelink_rela, s390_Half, s390_Dbl, s390_Dbl16, s390_Tls
  <2> QED BY <1>c1, <1>1, <2>1 DEF Still
<1>c2. CASE q.type = "RELATIVE"
  <2>1. m = Put(q, 4, q.addend)
    BY <1>c2, <1>2, <1>3 DEF s390_prelink_rela, s390_Half, s390_Dbl, s390_Dbl16, s390_Tls
  <2>2. m.mem = [width |-> 4, val |-> q.addend]
    BY <1>1, <2>1, PutFacts
  <2>3. Written(m, q)
    BY <1>1, <2>1, PutWritten
  <2> QED BY <1>c2, <2>2, <2>3 DEF Still
<1>c3. CASE q.type \in {"GLOB_DAT", "JMP_SLOT"}
  <2>1. m = Put(q, 4, (s.val + q.addend) - q.addend)
    BY <1>c3, <1>2, <1>3 DEF s390_prelink_rela, s390_Half, s390_Dbl, s390_Dbl16, s390_Tls
  <2>2. (s.val + q.addend) - q.addend \in Int
    BY <1>1 DEF P
  <2> QED BY <1>c3, <1>1, <2>1, <2>2, PutWritten DEF Still
<1>c4. CASE q.type \in {"32", "TLS_DTPOFF"}
  <2>1. m = Put(q, 4, s.val + q.addend)
    BY <1>c4, <1>2, <1>3 DEF s390_prelink_rela, s390_Half, s390_Dbl, s390_Dbl16, s390_Tls
  <2>2. s.val + q.addend \in Int
    BY <1>1 DEF P
  <2> QED BY <1>c4, <1>1, <2>1, <2>2, PutWritten DEF Still
<1>c5. CASE q.type = "PC32"
  <2>1. m = Put(q, 4, (s.val + q.addend) - P(q))
    BY <1>c5, <1>2, <1>3 DEF s390_prelink_rela, s390_Half, s390_Dbl, s390_Dbl16, s390_Tls
  <2>2. (s.val + q.addend) - P(q) \in Int
    BY <1>1 DEF P
  <2> QED BY <1>c5, <1>1, <2>1, <2>2, PutWritten DEF Still
<1>c6. CASE q.type \in s390_Dbl
  <2>1. m = Put(q, 4, ((s.val + q.addend) - P(q)) \div 2)
    BY <1>c6, <1>2, <1>3 DEF s390_prelink_rela, s390_Half, s390_Dbl, s390_Dbl16, s390_Tls
  <2>2. ((s.val + q.addend) - P(q)) \div 2 \in Int
    BY <1>1 DEF P
  <2> QED BY <1>c6, <1>1, <2>1, <2>2, PutWritten DEF Still, s390_Dbl
<1>c7. CASE q.type = "16"
  <2>1. m = Put(q, 2, s.val + q.addend)
    BY <1>c7, <1>2, <1>3 DEF s390_prelink_rela, s390_Half, s390_Dbl, s390_Dbl16, s390_Tls
  <2>2. s.val + q.addend \in Int
    BY <1>1 DEF P
  <2> QED BY <1>c7, <1>1, <2>1, <2>2, PutWritten DEF Still
<1>c8. CASE q.type = "PC16"
  <2>1. m = Put(q, 2, (s.val + q.addend) - P(q))
    BY <1>c8, <1>2, <1>3 DEF s390_prelink_rela, s390_Half, s390_Dbl, s390_Dbl16, s390_Tls
  <2>2. (s.val + q.addend) - P(q) \in Int
    BY <1>1 DEF P
  <2> QED BY <1>c8, <1>1, <2>1, <2>2, PutWritten DEF Still
<1>c9. CASE q.type \in s390_Dbl16
  <2>1. m = Put(q, 2, ((s.val + q.addend) - P(q)) \div 2)
    BY <1>c9, <1>2, <1>3 DEF s390_prelink_rela, s390_Half, s390_Dbl, s390_Dbl16, s390_Tls
  <2>2. ((s.val + q.addend) - P(q)) \div 2 \in Int
    BY <1>1 DEF P
  <2> QED BY <1>c9, <1>1, <2>1, <2>2, PutWritten DEF Still, s390_Dbl16
<1>c10. CASE q.type = "8"
  <2>1. m = Put(q, 1, s.val + q.addend)
    BY <1>c10, <1>2, <1>3 DEF s390_prelink_rela, s390_Half, s390_Dbl, s390_Dbl16, s390_Tls
  <2>2. s.val + q.addend \in Int
    BY <1>1 DEF P
  <2> QED BY <1>c10, <1>1, <2>1, <2>2, PutWritten DEF Still
<1>c11. CASE q.type = "TLS_TPOFF"
  <2>1. m \in {q, Put(q, 4, (s.val + q.addend) - s.tlsoffset)}
    BY <1>c11, <1>2, <1>3 DEF s390_prelink_rela, s390_Half, s390_Dbl, s390_Dbl16, s390_Tls
  <2>2. (s.val + q.addend) - s.tlsoffset \in Int
    BY <1>1 DEF P
  <2> QED BY <1>c11, <1>1, <2>1, <2>2, PutWritten DEF Still
<1> QED BY <1>3, <1>c1, <1>c2, <1>c3, <1>c4, <1>c5, <1>c6, <1>c7, <1>c8, <1>c9, <1>c10, <1>c11
           DEF s390_Half, s390_Dbl, s390_Dbl16, s390_Tls

(* s390x_prelink_rela writes the word.                                     *)
LEMMA S390xPrelink ==
  ASSUME NEW a, a = "s390x", NEW q \in Relocs, LdType(a, q), q.class = ld_class(a),
             NEW s \in Syms,
         NEW m, m = PrelinkRel(a, q, s)
  PROVE  /\ Written(m, q)
         /\ q.type \in Still \union {"IRELATIVE"} => m = q
         /\ q.type = "RELATIVE" => m.mem = [width |-> 8, val |-> q.addend]
<1>1. /\ q.addend \in Int /\ q.base \in Int /\ q.off \in Int /\ q.class \in Nat
           /\ q.exec \in BOOLEAN
      /\ s.val \in Int /\ s.tlsoffset \in Int /\ Written(q, q)
  <2>1. Typed(q) /\ Written(q, q)
    BY TypedFacts, PutWritten
  <2>2. s.val \in Int /\ s.tlsoffset \in Int
    BY DEF Syms
  <2> QED BY <2>1, <2>2 DEF Typed
<1>2. m = s390x_prelink_rela(q, s)
  BY DEF PrelinkRel, X86_64, Ppc, Mips
<1>3. /\ q.type \in {"NONE", "RELATIVE", "COPY", "IRELATIVE", "GLOB_DAT", "JMP_SLOT", "32",
                     "PC32", "8", "64", "PC64"} \union s390_Half \union s390_Dbl \union s390_Tls
      /\ q.exec => q.type # "TLS_DTPMOD"
      /\ ~ q.exec => q.type # "COPY"
  BY DEF LdType, ld_exec_types, ld_types, X86_64, Mips, Ppc, DtpMod, DtpOff, s390_Half,
     s390_Dbl, s390_Dbl16, s390_Tls
<1>c1. CASE q.type \in {"NONE", "IRELATIVE", "COPY", "TLS_DTPMOD"}
  <2>1. m = q
    BY <1>c1, <1>2, <1>3 DEF s390x_prelink_rela, s390_Half, s390_Dbl, s390_Dbl16, s390_Tls
  <2> QED BY <1>c1, <1>1, <2>1 DEF Still
<1>c2. CASE q.type = "RELATIVE"
  <2>1. m = Put(q, 8, q.addend)
    BY <1>c2, <1>2, <1>3 DEF s390x_prelink_rela, s390_Half, s390_Dbl, s390_Dbl16, s390_Tls
  <2>2. m.mem = [width |-> 8, val |-> q.addend]
    BY <1>1, <2>1, PutFacts
  <2>3. Written(m, q)
    BY <1>1, <2>1, PutWritten
  <2> QED BY <1>c2, <2>2, <2>3 DEF Still
<1>c3. CASE q.type \in {"GLOB_DAT", "JMP_SLOT", "64", "TLS_DTPOFF"}
  <2>1. m = Put(q, 8, s.val + q.addend)
    BY <1>c3, <1>2, <1>3 DEF s390x_prelink_rela, s390_Half, s390_Dbl, s390_Dbl16, s390_Tls
  <2>2. s.val + q.addend \in Int
    BY <1>1 DEF P
  <2> QED BY <1>c3, <1>1, <2>1, <2>2, PutWritten DEF Still
<1>c4. CASE q.type = "PC64"
  <2>1. m = Put(q, 8, (s.val + q.addend) - P(q))
    BY <1>c4, <1>2, <1>3 DEF s390x_prelink_rela, s390_Half, s390_Dbl, s390_Dbl16, s390_Tls
  <2>2. (s.val + q.addend) - P(q) \in Int
    BY <1>1 DEF P
  <2> QED BY <1>c4, <1>1, <2>1, <2>2, PutWritten DEF Still
<1>c5. CASE q.type = "32"
  <2>1. m = Put(q, 4, s.val + q.addend)
    BY <1>c5, <1>2, <1>3 DEF s390x_prelink_rela, s390_Half, s390_Dbl, s390_Dbl16, s390_Tls
  <2>2. s.val + q.addend \in Int
    BY <1>1 DEF P
  <2> QED BY <1>c5, <1>1, <2>1, <2>2, PutWritten DEF Still
<1>c6. CASE q.type = "PC32"
  <2>1. m = Put(q, 4, (s.val + q.addend) - P(q))
    BY <1>c6, <1>2, <1>3 DEF s390x_prelink_rela, s390_Half, s390_Dbl, s390_Dbl16, s390_Tls
  <2>2. (s.val + q.addend) - P(q) \in Int
    BY <1>1 DEF P
  <2> QED BY <1>c6, <1>1, <2>1, <2>2, PutWritten DEF Still
<1>c7. CASE q.type \in s390_Dbl
  <2>1. m = Put(q, 4, ((s.val + q.addend) - P(q)) \div 2)
    BY <1>c7, <1>2, <1>3 DEF s390x_prelink_rela, s390_Half, s390_Dbl, s390_Dbl16, s390_Tls
  <2>2. ((s.val + q.addend) - P(q)) \div 2 \in Int
    BY <1>1 DEF P
  <2> QED BY <1>c7, <1>1, <2>1, <2>2, PutWritten DEF Still, s390_Dbl
<1>c8. CASE q.type = "16"
  <2>1. m = Put(q, 2, s.val + q.addend)
    BY <1>c8, <1>2, <1>3 DEF s390x_prelink_rela, s390_Half, s390_Dbl, s390_Dbl16, s390_Tls
  <2>2. s.val + q.addend \in Int
    BY <1>1 DEF P
  <2> QED BY <1>c8, <1>1, <2>1, <2>2, PutWritten DEF Still
<1>c9. CASE q.type = "PC16"
  <2>1. m = Put(q, 2, (s.val + q.addend) - P(q))
    BY <1>c9, <1>2, <1>3 DEF s390x_prelink_rela, s390_Half, s390_Dbl, s390_Dbl16, s390_Tls
  <2>2. (s.val + q.addend) - P(q) \in Int
    BY <1>1 DEF P
  <2> QED BY <1>c9, <1>1, <2>1, <2>2, PutWritten DEF Still
<1>c10. CASE q.type \in s390_Dbl16
  <2>1. m = Put(q, 2, ((s.val + q.addend) - P(q)) \div 2)
    BY <1>c10, <1>2, <1>3 DEF s390x_prelink_rela, s390_Half, s390_Dbl, s390_Dbl16, s390_Tls
  <2>2. ((s.val + q.addend) - P(q)) \div 2 \in Int
    BY <1>1 DEF P
  <2> QED BY <1>c10, <1>1, <2>1, <2>2, PutWritten DEF Still, s390_Dbl16
<1>c11. CASE q.type = "8"
  <2>1. m = Put(q, 1, s.val + q.addend)
    BY <1>c11, <1>2, <1>3 DEF s390x_prelink_rela, s390_Half, s390_Dbl, s390_Dbl16, s390_Tls
  <2>2. s.val + q.addend \in Int
    BY <1>1 DEF P
  <2> QED BY <1>c11, <1>1, <2>1, <2>2, PutWritten DEF Still
<1>c12. CASE q.type = "TLS_TPOFF"
  <2>1. m \in {q, Put(q, 8, (s.val + q.addend) - s.tlsoffset)}
    BY <1>c12, <1>2, <1>3 DEF s390x_prelink_rela, s390_Half, s390_Dbl, s390_Dbl16, s390_Tls
  <2>2. (s.val + q.addend) - s.tlsoffset \in Int
    BY <1>1 DEF P
  <2> QED BY <1>c12, <1>1, <2>1, <2>2, PutWritten DEF Still
<1> QED BY <1>3, <1>c1, <1>c2, <1>c3, <1>c4, <1>c5, <1>c6, <1>c7, <1>c8, <1>c9, <1>c10, <1>c11,
           <1>c12 DEF s390_Half, s390_Dbl, s390_Dbl16, s390_Tls

(* Prelinking keeps what undoing needs.                                    *)
LEMMA X86PrelinkKin ==
  ASSUME NEW a \in X86Like, NEW q, NEW o, KinA(a, q, o), FormA(a, o), NEW s \in Syms,
         NEW m, m = PrelinkRel(a, q, s)
  PROVE  KinA(a, m, o) /\ Kept(m, q)
<1>1. q \in Relocs /\ LdType(a, q) /\ q.class = ld_class(a) /\ q.type = o.type
  BY KinFacts
<1>2. /\ Written(m, q)
      /\ q.type \in Still \union {"IRELATIVE"} => m = q
      /\ q.type = "RELATIVE" => m.mem = [width |-> q.class, val |-> q.addend]
  <2>1. CASE a \in X86_64
    BY <1>1, <2>1, X8664Prelink
  <2>2. CASE a = "s390"
    BY <1>1, <2>2, S390Prelink DEF ld_class
  <2>3. CASE a = "s390x"
    BY <1>1, <2>3, S390xPrelink DEF ld_class
  <2> QED BY <2>1, <2>2, <2>3 DEF X86Like
<1>3. Kept(m, q) /\ Frame(m, q) /\ m.addend = q.addend /\ m.code = q.code /\ m.base = q.base
        /\ m.class = q.class
  BY <1>2, WrittenKept DEF Kept, Placed
<1>4. q.type \notin Insns \union Halves /\ q.type # "JMP_IREL"
  BY <1>1, X86Types
<1>5. CASE q.type \in Addr
  <2>1. q.addend = Target(q) /\ q.mem = [width |-> q.class, val |-> Target(q)]
          /\ q.code = o.code
    BY <1>5 DEF KinA, AddrKin, InWord, X86Like, X86_64
  <2>2. m.mem = q.mem /\ Target(m) = Target(q) /\ m.type = q.type
    BY <1>2, <1>3, <1>4, <1>5, <2>1 DEF Addr, Target, Kept
  <2>3. AddrKin(a, m, o)
    BY <1>3, <2>1, <2>2 DEF AddrKin, InWord, X86Like, X86_64, Ppc
  <2> QED BY <1>3, <1>5, <2>3, KinAddr
<1>6. CASE q.type \in Slot
  <2>1. SlotKin(a, m, o)
    BY <1>3, <1>6 DEF KinA, SlotKin, X86Like, X86_64
  <2> QED BY <1>3, <1>6, <2>1, KinSlot DEF Kept
<1>7. CASE q.type \in Still
  BY <1>2, <1>3, <1>7
<1>8. CASE q.type \notin Addr \union Slot \union Still
  BY <1>3, <1>4, <1>8, KinPut
<1> QED BY <1>3, <1>5, <1>6, <1>7, <1>8

(* x86_64_undo_prelink_rela restores the word.                             *)
LEMMA X8664Undo ==
  ASSUME NEW a, a \in X86_64, NEW q, NEW o, KinA(a, q, o), FormA(a, o), q.got = Plt(q),
         NEW m, m = UndoRel(a, q)
  PROVE  Kept(m, q) /\ KinA(a, m, o) /\ AsLinked(a, m)
<1>1. /\ q.slot \in Int /\ q.base \in Int /\ q.class \in Nat /\ q.class = ld_class(a)
           /\ q.got \in Int
      /\ q.inGot = (q.type \in Slot \union {"GLOB_DAT"}) /\ LdType(a, q) /\ a \in Names
  BY KinFacts DEF Names, X86_64
<1>2. m = x86_64_undo_prelink_rela(q)
  BY DEF UndoRel, X86_64, Ppc, Mips, RelArchs
<1>3. /\ q.type \in {"NONE", "RELATIVE", "COPY", "IRELATIVE", "GLOB_DAT", "JUMP_SLOT", "32",
                     "PC32", "64", "DTPMOD64", "DTPOFF64", "TPOFF64"}
      /\ ~ q.exec => q.type # "COPY"
  BY <1>1 DEF LdType, ld_exec_types, ld_types, X86_64, Mips, Ppc, DtpMod, DtpOff
<1>4. q.code = LdCode(a, q)
  <2>1. o.code = NoCode /\ LdCode(a, q) = NoCode
    BY DEF FormA, LdCode, X86_64
  <2> QED BY <2>1, <1>3 DEF KinA, AddrKin, SlotKin
<1>5. CASE q.type \in {"NONE", "COPY"}
  <2>1. m = q
    BY <1>5, <1>2, <1>3 DEF x86_64_undo_prelink_rela
  <2> QED BY <1>1, <1>5, <2>1, StillLinked, SameLinked DEF Still
<1>6. CASE q.type \in {"RELATIVE", "IRELATIVE"}
  <2>1. m = q
    BY <1>6, <1>2 DEF x86_64_undo_prelink_rela
  <2>2. q.mem = [width |-> q.class, val |-> Target(q)]
    BY <1>6 DEF KinA, AddrKin, InWord, X86Like, X86_64, Addr
  <2>3. ld_width(a, q) = q.class
    BY <1>6 DEF ld_width, Slot, Tls, TpOff, DtpOff, DtpMod, s390_Half, s390_Dbl16, ppc_Half,
       ppc_Low, ppc_DtpRel16, ppc_DtpRel, ppc_TpRel16, ppc_TpRel, ppc64_Ds, ppc64_Higher,
       mips_Got, mips_Global, mips_Undefined, mips_Defined, mips_DtpMod, mips_DtpRel,
       mips_TpRel, Mips
  <2>4. LdVal(a, q) = Target(q)
    BY <1>6 DEF LdVal, Addr, Slot, InWord, X86Like, X86_64, ppc64_Ds
  <2> QED BY <1>4, <2>1, <2>2, <2>3, <2>4, SameLinked DEF AsLinked
<1>7. CASE q.type = "JUMP_SLOT"
  <2>1. m = Put(q, q.class, 2 * (8 * q.slot) + q.got)
    BY <1>7, <1>1, <1>2 DEF x86_64_undo_prelink_rela, Slot
  <2>2. ld_width(a, q) = q.class
    BY <1>1, <1>7 DEF ld_class, X86_64, ld_width, Slot, Tls, TpOff, DtpOff, DtpMod, s390_Half,
       s390_Dbl16, ppc_Half, ppc_Low, ppc_DtpRel16, ppc_DtpRel, ppc_TpRel16, ppc_TpRel,
       ppc64_Ds, ppc64_Higher, mips_Got, mips_Global, mips_Undefined, mips_Defined, mips_DtpMod,
       mips_DtpRel, mips_TpRel, Mips
  <2>3. LdVal(a, q) = 2 * (8 * q.slot) + q.got
    BY <1>1, <1>7 DEF LdVal, Addr, Slot, InWord, X86Like, X86_64, ppc64_Ds, ld_plt_entry, Plt,
       PltOffset
  <2>4. 2 * (8 * q.slot) + q.got \in Int
    BY <1>1
  <2>5. q.type \notin Addr \union Insns \union Still \union ppc64_Ds
    BY <1>7 DEF Addr, Insns, Still, ppc64_Ds, ppc_Predicted, sparc64_Insns
  <2> QED BY <1>1, <1>4, <2>1, <2>2, <2>3, <2>4, <2>5, PutLinked DEF X86_64
<1>8. CASE q.type \in {"GLOB_DAT"}
  <2>1. m = Put(q, q.class, 0)
    BY <1>8, <1>2 DEF x86_64_undo_prelink_rela
  <2>2. ld_width(a, q) = q.class
    BY <1>1, <1>8 DEF ld_class, s390_Dbl, s390_Tls, ld_width, Slot, Tls, TpOff, DtpOff, DtpMod,
       s390_Half, s390_Dbl16, ppc_Half, ppc_Low, ppc_DtpRel16, ppc_DtpRel, ppc_TpRel16,
       ppc_TpRel, ppc64_Ds, ppc64_Higher, mips_Got, mips_Global, mips_Undefined, mips_Defined,
       mips_DtpMod, mips_DtpRel, mips_TpRel, Mips
  <2>3. q.type \notin Addr \union Insns \union Still \union ppc64_Ds \union Slot
          \union {"ADDR64", "PC24"}
    BY <1>8 DEF Addr, Insns, Still, ppc64_Ds, ppc_Predicted, sparc64_Insns, Slot
  <2>4. LdVal(a, q) = 0
    BY <2>3, PlainVal DEF X86_64
  <2> QED BY <1>1, <1>4, <2>1, <2>2, <2>3, <2>4, PutLinked
<1>9. CASE q.type \in {"64", "DTPMOD64", "DTPOFF64", "TPOFF64"}
  <2>1. m = Put(q, 8, 0)
    BY <1>9, <1>2 DEF x86_64_undo_prelink_rela
  <2>2. ld_width(a, q) = 8
    BY <1>1, <1>9 DEF ld_class, s390_Dbl, s390_Tls, ld_width, Slot, Tls, TpOff, DtpOff, DtpMod,
       s390_Half, s390_Dbl16, ppc_Half, ppc_Low, ppc_DtpRel16, ppc_DtpRel, ppc_TpRel16,
       ppc_TpRel, ppc64_Ds, ppc64_Higher, mips_Got, mips_Global, mips_Undefined, mips_Defined,
       mips_DtpMod, mips_DtpRel, mips_TpRel, Mips
  <2>3. q.type \notin Addr \union Insns \union Still \union ppc64_Ds \union Slot
          \union {"ADDR64", "PC24"}
    BY <1>9 DEF Addr, Insns, Still, ppc64_Ds, ppc_Predicted, sparc64_Insns, Slot
  <2>4. LdVal(a, q) = 0
    BY <2>3, PlainVal DEF X86_64
  <2> QED BY <1>1, <1>4, <2>1, <2>2, <2>3, <2>4, PutLinked
<1>10. CASE q.type \in {"32", "PC32"}
  <2>1. m = Put(q, 4, 0)
    BY <1>10, <1>2 DEF x86_64_undo_prelink_rela
  <2>2. ld_width(a, q) = 4
    BY <1>1, <1>10 DEF ld_class, s390_Dbl, s390_Tls, ld_width, Slot, Tls, TpOff, DtpOff, DtpMod,
       s390_Half, s390_Dbl16, ppc_Half, ppc_Low, ppc_DtpRel16, ppc_DtpRel, ppc_TpRel16,
       ppc_TpRel, ppc64_Ds, ppc64_Higher, mips_Got, mips_Global, mips_Undefined, mips_Defined,
       mips_DtpMod, mips_DtpRel, mips_TpRel, Mips
  <2>3. q.type \notin Addr \union Insns \union Still \union ppc64_Ds \union Slot
          \union {"ADDR64", "PC24"}
    BY <1>10 DEF Addr, Insns, Still, ppc64_Ds, ppc_Predicted, sparc64_Insns, Slot
  <2>4. LdVal(a, q) = 0
    BY <2>3, PlainVal DEF X86_64
  <2> QED BY <1>1, <1>4, <2>1, <2>2, <2>3, <2>4, PutLinked
<1> QED BY <1>3, <1>5, <1>6, <1>7, <1>8, <1>9, <1>10

(* s390_undo_prelink_rela restores the word.                               *)
LEMMA S390Undo ==
  ASSUME NEW a, a = "s390", NEW q, NEW o, KinA(a, q, o), FormA(a, o), q.got = Plt(q),
         NEW m, m = UndoRel(a, q)
  PROVE  Kept(m, q) /\ KinA(a, m, o) /\ AsLinked(a, m)
<1>1. /\ q.slot \in Int /\ q.base \in Int /\ q.class \in Nat /\ q.class = ld_class(a)
           /\ q.got \in Int
      /\ q.inGot = (q.type \in Slot \union {"GLOB_DAT"}) /\ LdType(a, q) /\ a \in Names
  BY KinFacts DEF Names, X86_64
<1>2. m = s390_undo_prelink_rela(q)
  BY DEF UndoRel, X86_64, Ppc, Mips, RelArchs
<1>3. /\ q.type \in {"NONE", "RELATIVE", "COPY", "IRELATIVE", "GLOB_DAT", "JMP_SLOT", "32", "PC32", "8"}
                   \union s390_Half \union s390_Dbl \union s390_Tls
      /\ ~ q.exec => q.type # "COPY"
  BY <1>1 DEF LdType, ld_exec_types, ld_types, X86_64, Mips, Ppc, DtpMod, DtpOff, s390_Half,
     s390_Dbl, s390_Dbl16, s390_Tls
<1>4. q.code = LdCode(a, q)
  <2>1. o.code = NoCode /\ LdCode(a, q) = NoCode
    BY DEF FormA, LdCode, X86_64
  <2> QED BY <2>1, <1>3 DEF KinA, AddrKin, SlotKin
<1>5. CASE q.type \in {"NONE", "COPY"}
  <2>1. m = q
    BY <1>5, <1>2, <1>3 DEF s390_undo_prelink_rela, s390_Half, s390_Dbl, s390_Dbl16, s390_Tls
  <2> QED BY <1>1, <1>5, <2>1, StillLinked, SameLinked DEF Still
<1>6. CASE q.type \in {"RELATIVE", "IRELATIVE"}
  <2>1. m = q
    BY <1>6, <1>2 DEF s390_undo_prelink_rela, s390_Half, s390_Dbl, s390_Dbl16, s390_Tls
  <2>2. q.mem = [width |-> q.class, val |-> Target(q)]
    BY <1>6 DEF KinA, AddrKin, InWord, X86Like, X86_64, Addr
  <2>3. ld_width(a, q) = q.class
    BY <1>6 DEF ld_width, Slot, Tls, TpOff, DtpOff, DtpMod, s390_Half, s390_Dbl16, ppc_Half,
       ppc_Low, ppc_DtpRel16, ppc_DtpRel, ppc_TpRel16, ppc_TpRel, ppc64_Ds, ppc64_Higher,
       mips_Got, mips_Global, mips_Undefined, mips_Defined, mips_DtpMod, mips_DtpRel,
       mips_TpRel, Mips
  <2>4. LdVal(a, q) = Target(q)
    BY <1>6 DEF LdVal, Addr, Slot, InWord, X86Like, X86_64, ppc64_Ds
  <2> QED BY <1>4, <2>1, <2>2, <2>3, <2>4, SameLinked DEF AsLinked
<1>7. CASE q.type = "JMP_SLOT"
  <2>1. m = Put(q, 4, 8 * (4 * q.slot) + q.got)
    BY <1>7, <1>1, <1>2 DEF s390_undo_prelink_rela, Slot, s390_Half, s390_Dbl, s390_Dbl16,
       s390_Tls
  <2>2. ld_width(a, q) = 4
    BY <1>1, <1>7 DEF ld_class, X86_64, ld_width, Slot, Tls, TpOff, DtpOff, DtpMod, s390_Half,
       s390_Dbl16, ppc_Half, ppc_Low, ppc_DtpRel16, ppc_DtpRel, ppc_TpRel16, ppc_TpRel,
       ppc64_Ds, ppc64_Higher, mips_Got, mips_Global, mips_Undefined, mips_Defined, mips_DtpMod,
       mips_DtpRel, mips_TpRel, Mips
  <2>3. LdVal(a, q) = 8 * (4 * q.slot) + q.got
    BY <1>1, <1>7 DEF LdVal, Addr, Slot, InWord, X86Like, X86_64, ppc64_Ds, ld_plt_entry, Plt,
       PltOffset
  <2>4. 8 * (4 * q.slot) + q.got \in Int
    BY <1>1
  <2>5. q.type \notin Addr \union Insns \union Still \union ppc64_Ds
    BY <1>7 DEF Addr, Insns, Still, ppc64_Ds, ppc_Predicted, sparc64_Insns
  <2> QED BY <1>1, <1>4, <2>1, <2>2, <2>3, <2>4, <2>5, PutLinked DEF X86_64
<1>8. CASE q.type \in {"GLOB_DAT", "32", "PC32"} \union s390_Dbl \union s390_Tls
  <2>1. m = Put(q, 4, 0)
    BY <1>8, <1>2 DEF s390_undo_prelink_rela, s390_Half, s390_Dbl, s390_Dbl16, s390_Tls
  <2>2. ld_width(a, q) = 4
    BY <1>1, <1>8 DEF ld_class, s390_Dbl, s390_Tls, ld_width, Slot, Tls, TpOff, DtpOff, DtpMod,
       s390_Half, s390_Dbl16, ppc_Half, ppc_Low, ppc_DtpRel16, ppc_DtpRel, ppc_TpRel16,
       ppc_TpRel, ppc64_Ds, ppc64_Higher, mips_Got, mips_Global, mips_Undefined, mips_Defined,
       mips_DtpMod, mips_DtpRel, mips_TpRel, Mips
  <2>3. q.type \notin Addr \union Insns \union Still \union ppc64_Ds \union Slot
          \union {"ADDR64", "PC24"}
    BY <1>8 DEF Addr, Insns, Still, ppc64_Ds, ppc_Predicted, sparc64_Insns, Slot, s390_Half,
       s390_Dbl, s390_Dbl16, s390_Tls
  <2>4. LdVal(a, q) = 0
    BY <2>3, PlainVal DEF X86_64
  <2> QED BY <1>1, <1>4, <2>1, <2>2, <2>3, <2>4, PutLinked
<1>9. CASE q.type \in s390_Half
  <2>1. m = Put(q, 2, 0)
    BY <1>9, <1>2 DEF s390_undo_prelink_rela, s390_Half, s390_Dbl, s390_Dbl16, s390_Tls
  <2>2. ld_width(a, q) = 2
    BY <1>1, <1>9 DEF ld_class, s390_Dbl, s390_Tls, ld_width, Slot, Tls, TpOff, DtpOff, DtpMod,
       s390_Half, s390_Dbl16, ppc_Half, ppc_Low, ppc_DtpRel16, ppc_DtpRel, ppc_TpRel16,
       ppc_TpRel, ppc64_Ds, ppc64_Higher, mips_Got, mips_Global, mips_Undefined, mips_Defined,
       mips_DtpMod, mips_DtpRel, mips_TpRel, Mips
  <2>3. q.type \notin Addr \union Insns \union Still \union ppc64_Ds \union Slot
          \union {"ADDR64", "PC24"}
    BY <1>9 DEF Addr, Insns, Still, ppc64_Ds, ppc_Predicted, sparc64_Insns, Slot, s390_Half,
       s390_Dbl, s390_Dbl16, s390_Tls
  <2>4. LdVal(a, q) = 0
    BY <2>3, PlainVal DEF X86_64
  <2> QED BY <1>1, <1>4, <2>1, <2>2, <2>3, <2>4, PutLinked
<1>10. CASE q.type \in {"8"}
  <2>1. m = Put(q, 1, 0)
    BY <1>10, <1>2 DEF s390_undo_prelink_rela, s390_Half, s390_Dbl, s390_Dbl16, s390_Tls
  <2>2. ld_width(a, q) = 1
    BY <1>1, <1>10 DEF ld_class, s390_Dbl, s390_Tls, ld_width, Slot, Tls, TpOff, DtpOff, DtpMod,
       s390_Half, s390_Dbl16, ppc_Half, ppc_Low, ppc_DtpRel16, ppc_DtpRel, ppc_TpRel16,
       ppc_TpRel, ppc64_Ds, ppc64_Higher, mips_Got, mips_Global, mips_Undefined, mips_Defined,
       mips_DtpMod, mips_DtpRel, mips_TpRel, Mips
  <2>3. q.type \notin Addr \union Insns \union Still \union ppc64_Ds \union Slot
          \union {"ADDR64", "PC24"}
    BY <1>10 DEF Addr, Insns, Still, ppc64_Ds, ppc_Predicted, sparc64_Insns, Slot, s390_Half,
       s390_Dbl, s390_Dbl16, s390_Tls
  <2>4. LdVal(a, q) = 0
    BY <2>3, PlainVal DEF X86_64
  <2> QED BY <1>1, <1>4, <2>1, <2>2, <2>3, <2>4, PutLinked
<1> QED BY <1>3, <1>5, <1>6, <1>7, <1>8, <1>9, <1>10 DEF s390_Half, s390_Dbl, s390_Dbl16,
           s390_Tls

(* s390x_undo_prelink_rela restores the word.                              *)
LEMMA S390xUndo ==
  ASSUME NEW a, a = "s390x", NEW q, NEW o, KinA(a, q, o), FormA(a, o), q.got = Plt(q),
         NEW m, m = UndoRel(a, q)
  PROVE  Kept(m, q) /\ KinA(a, m, o) /\ AsLinked(a, m)
<1>1. /\ q.slot \in Int /\ q.base \in Int /\ q.class \in Nat /\ q.class = ld_class(a)
           /\ q.got \in Int
      /\ q.inGot = (q.type \in Slot \union {"GLOB_DAT"}) /\ LdType(a, q) /\ a \in Names
  BY KinFacts DEF Names, X86_64
<1>2. m = s390x_undo_prelink_rela(q)
  BY DEF UndoRel, X86_64, Ppc, Mips, RelArchs
<1>3. /\ q.type \in {"NONE", "RELATIVE", "COPY", "IRELATIVE", "GLOB_DAT", "JMP_SLOT", "32",
                     "PC32", "8", "64", "PC64"} \union s390_Half \union s390_Dbl \union s390_Tls
      /\ ~ q.exec => q.type # "COPY"
  BY <1>1 DEF LdType, ld_exec_types, ld_types, X86_64, Mips, Ppc, DtpMod, DtpOff, s390_Half,
     s390_Dbl, s390_Dbl16, s390_Tls
<1>4. q.code = LdCode(a, q)
  <2>1. o.code = NoCode /\ LdCode(a, q) = NoCode
    BY DEF FormA, LdCode, X86_64
  <2> QED BY <2>1, <1>3 DEF KinA, AddrKin, SlotKin
<1>5. CASE q.type \in {"NONE", "COPY"}
  <2>1. m = q
    BY <1>5, <1>2, <1>3 DEF s390x_undo_prelink_rela, s390_Half, s390_Dbl, s390_Dbl16, s390_Tls
  <2> QED BY <1>1, <1>5, <2>1, StillLinked, SameLinked DEF Still
<1>6. CASE q.type \in {"RELATIVE", "IRELATIVE"}
  <2>1. m = q
    BY <1>6, <1>2 DEF s390x_undo_prelink_rela, s390_Half, s390_Dbl, s390_Dbl16, s390_Tls
  <2>2. q.mem = [width |-> q.class, val |-> Target(q)]
    BY <1>6 DEF KinA, AddrKin, InWord, X86Like, X86_64, Addr
  <2>3. ld_width(a, q) = q.class
    BY <1>6 DEF ld_width, Slot, Tls, TpOff, DtpOff, DtpMod, s390_Half, s390_Dbl16, ppc_Half,
       ppc_Low, ppc_DtpRel16, ppc_DtpRel, ppc_TpRel16, ppc_TpRel, ppc64_Ds, ppc64_Higher,
       mips_Got, mips_Global, mips_Undefined, mips_Defined, mips_DtpMod, mips_DtpRel,
       mips_TpRel, Mips
  <2>4. LdVal(a, q) = Target(q)
    BY <1>6 DEF LdVal, Addr, Slot, InWord, X86Like, X86_64, ppc64_Ds
  <2> QED BY <1>4, <2>1, <2>2, <2>3, <2>4, SameLinked DEF AsLinked
<1>7. CASE q.type = "JMP_SLOT"
  <2>1. m = Put(q, 8, 4 * (8 * q.slot) + q.got)
    BY <1>7, <1>1, <1>2 DEF s390x_undo_prelink_rela, Slot, s390_Half, s390_Dbl, s390_Dbl16,
       s390_Tls
  <2>2. ld_width(a, q) = 8
    BY <1>1, <1>7 DEF ld_class, X86_64, ld_width, Slot, Tls, TpOff, DtpOff, DtpMod, s390_Half,
       s390_Dbl16, ppc_Half, ppc_Low, ppc_DtpRel16, ppc_DtpRel, ppc_TpRel16, ppc_TpRel,
       ppc64_Ds, ppc64_Higher, mips_Got, mips_Global, mips_Undefined, mips_Defined, mips_DtpMod,
       mips_DtpRel, mips_TpRel, Mips
  <2>3. LdVal(a, q) = 4 * (8 * q.slot) + q.got
    BY <1>1, <1>7 DEF LdVal, Addr, Slot, InWord, X86Like, X86_64, ppc64_Ds, ld_plt_entry, Plt,
       PltOffset
  <2>4. 4 * (8 * q.slot) + q.got \in Int
    BY <1>1
  <2>5. q.type \notin Addr \union Insns \union Still \union ppc64_Ds
    BY <1>7 DEF Addr, Insns, Still, ppc64_Ds, ppc_Predicted, sparc64_Insns
  <2> QED BY <1>1, <1>4, <2>1, <2>2, <2>3, <2>4, <2>5, PutLinked DEF X86_64
<1>8. CASE q.type \in {"GLOB_DAT", "64", "PC64"} \union s390_Tls
  <2>1. m = Put(q, 8, 0)
    BY <1>8, <1>2 DEF s390x_undo_prelink_rela, s390_Half, s390_Dbl, s390_Dbl16, s390_Tls
  <2>2. ld_width(a, q) = 8
    BY <1>1, <1>8 DEF ld_class, s390_Dbl, s390_Tls, ld_width, Slot, Tls, TpOff, DtpOff, DtpMod,
       s390_Half, s390_Dbl16, ppc_Half, ppc_Low, ppc_DtpRel16, ppc_DtpRel, ppc_TpRel16,
       ppc_TpRel, ppc64_Ds, ppc64_Higher, mips_Got, mips_Global, mips_Undefined, mips_Defined,
       mips_DtpMod, mips_DtpRel, mips_TpRel, Mips
  <2>3. q.type \notin Addr \union Insns \union Still \union ppc64_Ds \union Slot
          \union {"ADDR64", "PC24"}
    BY <1>8 DEF Addr, Insns, Still, ppc64_Ds, ppc_Predicted, sparc64_Insns, Slot, s390_Half,
       s390_Dbl, s390_Dbl16, s390_Tls
  <2>4. LdVal(a, q) = 0
    BY <2>3, PlainVal DEF X86_64
  <2> QED BY <1>1, <1>4, <2>1, <2>2, <2>3, <2>4, PutLinked
<1>9. CASE q.type \in {"32", "PC32"} \union s390_Dbl
  <2>1. m = Put(q, 4, 0)
    BY <1>9, <1>2 DEF s390x_undo_prelink_rela, s390_Half, s390_Dbl, s390_Dbl16, s390_Tls
  <2>2. ld_width(a, q) = 4
    BY <1>1, <1>9 DEF ld_class, s390_Dbl, s390_Tls, ld_width, Slot, Tls, TpOff, DtpOff, DtpMod,
       s390_Half, s390_Dbl16, ppc_Half, ppc_Low, ppc_DtpRel16, ppc_DtpRel, ppc_TpRel16,
       ppc_TpRel, ppc64_Ds, ppc64_Higher, mips_Got, mips_Global, mips_Undefined, mips_Defined,
       mips_DtpMod, mips_DtpRel, mips_TpRel, Mips
  <2>3. q.type \notin Addr \union Insns \union Still \union ppc64_Ds \union Slot
          \union {"ADDR64", "PC24"}
    BY <1>9 DEF Addr, Insns, Still, ppc64_Ds, ppc_Predicted, sparc64_Insns, Slot, s390_Half,
       s390_Dbl, s390_Dbl16, s390_Tls
  <2>4. LdVal(a, q) = 0
    BY <2>3, PlainVal DEF X86_64
  <2> QED BY <1>1, <1>4, <2>1, <2>2, <2>3, <2>4, PutLinked
<1>10. CASE q.type \in s390_Half
  <2>1. m = Put(q, 2, 0)
    BY <1>10, <1>2 DEF s390x_undo_prelink_rela, s390_Half, s390_Dbl, s390_Dbl16, s390_Tls
  <2>2. ld_width(a, q) = 2
    BY <1>1, <1>10 DEF ld_class, s390_Dbl, s390_Tls, ld_width, Slot, Tls, TpOff, DtpOff, DtpMod,
       s390_Half, s390_Dbl16, ppc_Half, ppc_Low, ppc_DtpRel16, ppc_DtpRel, ppc_TpRel16,
       ppc_TpRel, ppc64_Ds, ppc64_Higher, mips_Got, mips_Global, mips_Undefined, mips_Defined,
       mips_DtpMod, mips_DtpRel, mips_TpRel, Mips
  <2>3. q.type \notin Addr \union Insns \union Still \union ppc64_Ds \union Slot
          \union {"ADDR64", "PC24"}
    BY <1>10 DEF Addr, Insns, Still, ppc64_Ds, ppc_Predicted, sparc64_Insns, Slot, s390_Half,
       s390_Dbl, s390_Dbl16, s390_Tls
  <2>4. LdVal(a, q) = 0
    BY <2>3, PlainVal DEF X86_64
  <2> QED BY <1>1, <1>4, <2>1, <2>2, <2>3, <2>4, PutLinked
<1>11. CASE q.type \in {"8"}
  <2>1. m = Put(q, 1, 0)
    BY <1>11, <1>2 DEF s390x_undo_prelink_rela, s390_Half, s390_Dbl, s390_Dbl16, s390_Tls
  <2>2. ld_width(a, q) = 1
    BY <1>1, <1>11 DEF ld_class, s390_Dbl, s390_Tls, ld_width, Slot, Tls, TpOff, DtpOff, DtpMod,
       s390_Half, s390_Dbl16, ppc_Half, ppc_Low, ppc_DtpRel16, ppc_DtpRel, ppc_TpRel16,
       ppc_TpRel, ppc64_Ds, ppc64_Higher, mips_Got, mips_Global, mips_Undefined, mips_Defined,
       mips_DtpMod, mips_DtpRel, mips_TpRel, Mips
  <2>3. q.type \notin Addr \union Insns \union Still \union ppc64_Ds \union Slot
          \union {"ADDR64", "PC24"}
    BY <1>11 DEF Addr, Insns, Still, ppc64_Ds, ppc_Predicted, sparc64_Insns, Slot, s390_Half,
       s390_Dbl, s390_Dbl16, s390_Tls
  <2>4. LdVal(a, q) = 0
    BY <2>3, PlainVal DEF X86_64
  <2> QED BY <1>1, <1>4, <2>1, <2>2, <2>3, <2>4, PutLinked
<1> QED BY <1>3, <1>5, <1>6, <1>7, <1>8, <1>9, <1>10, <1>11 DEF s390_Half, s390_Dbl, s390_Dbl16,
           s390_Tls

-----------------------------------------------------------------------------
(* sh.                                                                     *)

(* sh_adjust_rela: moving an object keeps what undoing needs, and one that *)
(* ld made is as ld would have made it.                                    *)
LEMMA ShMove ==
  ASSUME arch = "sh", NEW q, NEW o, KinA(arch, q, o), FormA(arch, o), NEW b \in Nat,
         NEW m, m = AdjustRel(arch, q, b - q.base), NEW p, p = Relocated(q, b)
  PROVE  /\ KinA(arch, p, o) /\ Alike(m, q)
         /\ FormA(arch, q) => p.mem = [width |-> ld_width(arch, p), val |-> LdVal(arch, p)]
<1> DEFINE d == b - q.base
           v == q.addend + d
           w == q.mem.val + d
<1>1. /\ q \in Relocs /\ d \in Int /\ v \in Int /\ w \in Int
      /\ q.addend \in Int /\ q.base \in Nat /\ q.slot \in Int /\ q.mem.val \in Int
      /\ q.class = 4 /\ LdType(arch, q) /\ q.type = o.type /\ arch \in Names \ RelArchs
  BY KinFacts DEF ld_class, Names, RelArchs, Mips
<1>2. m = sh_adjust_rela(q, d)
  BY DEF AdjustRel, X86_64, Ppc, Mips
<1>3. q.type \in {"NONE", "RELATIVE", "COPY", "GLOB_DAT", "JMP_SLOT", "DIR32", "REL32"}
  BY <1>1 DEF LdType, ld_exec_types, ld_types, X86_64, Mips, Ppc, DtpMod, DtpOff
<1> HIDE DEF d, v, w
<1>4. CASE q.type = "RELATIVE"
  <2>1. /\ q.code = o.code /\ q.addend = IF o.addend = 0 THEN 0 ELSE q.base + 44
        /\ q.addend = 0 => q.mem = [width |-> 4, val |-> q.base + 44]
    BY <1>4 DEF KinA, AddrKin, Addr, Target
  <2>2. CASE q.addend # 0
    <3>1. m = [q EXCEPT !.addend = v]
      BY <1>2, <1>4, <2>2 DEF sh_adjust_rela, v
    <3>2. Alike(m, q) /\ m.mem = q.mem /\ m.addend = v
      BY <1>1, <3>1, AddendIs
    <3>3. Frame(p, q) /\ p.base = b /\ p.addend = m.addend /\ p.mem = m.mem
      BY <1>1, <3>2, RelocatedFacts
    <3>4. p.addend = b + 44 /\ p.addend # 0 /\ p.code = q.code
      BY <1>1, <2>1, <2>2, <3>2, <3>3 DEF d, v, w, Frame
    <3>5. AddrKin(arch, p, o) /\ AddrKin(arch, p, q)
      BY <2>1, <2>2, <3>3, <3>4 DEF AddrKin, Target
    <3> QED BY <1>1, <1>4, <3>2, <3>3, <3>5, KinAddr, MovedAddr DEF Addr
  <2>3. CASE q.addend = 0
    <3>1. m = Put(q, 4, w)
      BY <1>2, <1>4, <2>3 DEF sh_adjust_rela, w
    <3>2. Alike(m, q) /\ m.mem = [width |-> 4, val |-> w] /\ m.addend = 0
      BY <1>1, <2>3, <3>1, PutFacts
    <3>3. Frame(p, q) /\ p.base = b /\ p.addend = m.addend /\ p.mem = m.mem
      BY <1>1, <3>2, RelocatedFacts
    <3>4. p.mem = [width |-> 4, val |-> b + 44] /\ p.addend = 0 /\ o.addend = 0
            /\ p.code = q.code
      BY <1>1, <2>1, <2>3, <3>2, <3>3 DEF d, v, w, Frame
    <3>5. AddrKin(arch, p, o) /\ AddrKin(arch, p, q)
      BY <2>1, <2>3, <3>3, <3>4 DEF AddrKin, Target
    <3> QED BY <1>1, <1>4, <3>2, <3>3, <3>4, <3>5, KinAddr, MovedAddr DEF Addr
  <2> QED BY <2>2, <2>3
<1>5. CASE q.type = "JMP_SLOT"
  <2>1. m = Put(q, 4, w)
    BY <1>2, <1>5 DEF sh_adjust_rela, w
  <2>2. Alike(m, q) /\ m.mem = [width |-> 4, val |-> w] /\ m.addend = q.addend
    BY <1>1, <2>1, PutFacts
  <2>3. Frame(p, q) /\ p.base = b /\ p.addend = m.addend /\ p.mem = m.mem
    BY <1>1, <2>2, RelocatedFacts
  <2>4. SlotKin(arch, p, o)
    BY <1>5, <2>2, <2>3 DEF KinA, SlotKin, Slot, Frame
  <2>5. ASSUME FormA(arch, q)
               PROVE p.mem = [width |-> ld_width(arch, p), val |-> LdVal(arch, p)]
    <3>1. p.type = q.type /\ p.class = q.class /\ p.slot = q.slot
      BY <2>3 DEF Frame, Placed
    <3>2. ld_width(arch, p) = 4
      BY <1>1, <1>5, <3>1, SlotWidth DEF Slot
    <3>3. LdVal(arch, q) = Plt(q) + 28 * q.slot /\ LdVal(arch, p) = Plt(p) + 28 * p.slot
      BY <1>5, <3>1 DEF LdVal, Addr, Slot, ppc64_Ds, ld_plt_entry, X86Like, X86_64
    <3>4. q.mem.val = Plt(q) + 28 * q.slot
      BY <2>5, <3>3 DEF FormA
    <3>5. w = LdVal(arch, p)
      <4>1. q.slot \in Int /\ q.base \in Int /\ b \in Int
        BY <1>1
      <4>2. ((q.base + 28) + 28 * q.slot) + (b - q.base) = (b + 28) + 28 * q.slot
        BY <4>1
      <4> QED BY <2>3, <3>1, <3>3, <3>4, <4>2 DEF Plt, PltOffset, d, w
    <3> QED BY <2>2, <2>3, <3>2, <3>5
  <2> QED BY <1>5, <2>2, <2>3, <2>4, <2>5, KinSlot DEF Frame, Slot
<1>6. CASE q.type \notin {"RELATIVE", "JMP_SLOT"}
  <2>1. m = q
    BY <1>2, <1>6 DEF sh_adjust_rela
  <2> QED BY <1>1, <1>3, <1>6, <2>1, MoveOther DEF Addr, Slot, d
<1> QED BY <1>4, <1>5, <1>6

(* sh_prelink_rela keeps what undoing needs.                               *)
LEMMA ShPrelink ==
  ASSUME NEW a, a = "sh", NEW q, NEW o, KinA(a, q, o), FormA(a, o), NEW s \in Syms,
         NEW m, m = PrelinkRel(a, q, s)
  PROVE  KinA(a, m, o) /\ Kept(m, q)
<1>1. /\ q.addend \in Int /\ q.base \in Int /\ q.off \in Int /\ q.slot \in Int
           /\ q.class \in Nat
      /\ q.mem.val \in Int /\ s.val \in Int /\ s.tlsoffset \in Int /\ q \in Relocs
           /\ LdType(a, q)
      /\ q.class = ld_class(a) /\ q.type = o.type
  BY KinFacts DEF Syms
<1>2. m = sh_prelink_rela(q, s)
  BY DEF PrelinkRel, X86_64, Ppc, Mips
<1>3. /\ q.type \in {"NONE", "RELATIVE", "COPY", "GLOB_DAT", "JMP_SLOT", "DIR32", "REL32"}
      /\ ~ q.exec => q.type # "COPY"
  BY <1>1 DEF LdType, ld_exec_types, ld_types, X86_64, Mips, Ppc, DtpMod, DtpOff, Slot
<1>4. CASE q.type \in {"NONE", "COPY"}
  <2>1. m = q
    BY <1>4, <1>2, <1>3 DEF sh_prelink_rela
  <2> QED BY <2>1, SameKin
<1>5. CASE q.type = "RELATIVE"
  <2>1. m = IF q.addend # 0 THEN Put(q, 4, q.addend) ELSE q
    BY <1>5, <1>2 DEF sh_prelink_rela
  <2>2. Written(m, q) /\ (q.addend = 0 => m = q)
    BY <1>1, <2>1, PutWritten
  <2>3. Kept(m, q) /\ Frame(m, q) /\ m.addend = q.addend /\ m.code = q.code
          /\ Target(m) = Target(q)
    BY <2>2, WrittenKept DEF Target
  <2>4. AddrKin(a, m, o)
    BY <1>5, <2>2, <2>3 DEF KinA, AddrKin, Addr
  <2> QED BY <1>5, <2>3, <2>4, KinAddr DEF Addr
<1>6. CASE q.type = "JMP_SLOT"
  <2>1. m = Put(q, 4, s.val + q.addend)
    BY <1>6, <1>2 DEF sh_prelink_rela
  <2>2. s.val + q.addend \in Int
    BY <1>1
  <2>3. q.type \notin Addr \union Insns \union Still \union Halves
    BY <1>6 DEF Addr, Insns, Still, ppc_Predicted, sparc64_Insns, Halves, ppc_Half, ppc_Low,
       ppc_DtpRel16, ppc_TpRel16
  <2> QED BY <2>1, <2>2, <2>3, PutKin
<1>7. CASE q.type \in {"GLOB_DAT", "DIR32"}
  <2>1. m = Put(q, 4, s.val + q.addend)
    BY <1>7, <1>2, <1>3 DEF sh_prelink_rela
  <2>2. s.val + q.addend \in Int
    BY <1>1 DEF P
  <2>3. q.type \notin Addr \union Insns \union Still \union Slot \union Halves
    BY <1>7 DEF Addr, Slot, Insns, Still, ppc_Predicted, sparc64_Insns, Halves, ppc_Half,
       ppc_Low, ppc_DtpRel16, ppc_TpRel16
  <2> QED BY <1>1, <2>1, <2>2, <2>3, PutKin
<1>8. CASE q.type = "REL32"
  <2>1. m = Put(q, 4, (s.val + q.addend) - q.addend)
    BY <1>8, <1>2, <1>3 DEF sh_prelink_rela
  <2>2. (s.val + q.addend) - q.addend \in Int
    BY <1>1 DEF P
  <2>3. q.type \notin Addr \union Insns \union Still \union Slot \union Halves
    BY <1>8 DEF Addr, Slot, Insns, Still, ppc_Predicted, sparc64_Insns, Halves, ppc_Half,
       ppc_Low, ppc_DtpRel16, ppc_TpRel16
  <2> QED BY <1>1, <2>1, <2>2, <2>3, PutKin
<1> QED BY <1>3, <1>4, <1>5, <1>6, <1>7, <1>8

(* sh_undo_prelink_rela restores the word.                                 *)
LEMMA ShUndo ==
  ASSUME NEW a, a = "sh", NEW q, NEW o, KinA(a, q, o), FormA(a, o), q.got = Plt(q),
         NEW m, m = UndoRel(a, q)
  PROVE  Kept(m, q) /\ KinA(a, m, o) /\ AsLinked(a, m)
<1>1. /\ q.slot \in Int /\ q.base \in Int /\ q.class \in Nat /\ q.class = ld_class(a)
           /\ q.got \in Int
      /\ q.addend \in Int /\ q.inGot = (q.type \in Slot \union {"GLOB_DAT"}) /\ LdType(a, q)
           /\ a \in Names
      /\ q \in Relocs /\ q.type = o.type
  BY KinFacts DEF Names, X86_64, Ppc
<1>2. m = sh_undo_prelink_rela(q)
  BY DEF UndoRel, X86_64, Ppc, Mips, RelArchs
<1>3. /\ q.type \in {"NONE", "RELATIVE", "COPY", "GLOB_DAT", "JMP_SLOT", "DIR32", "REL32"}
      /\ ~ q.exec => q.type # "COPY"
  BY <1>1 DEF LdType, ld_exec_types, ld_types, X86_64, Mips, Ppc, DtpMod, DtpOff, Slot
<1>4. CASE q.type \in {"NONE", "COPY"}
  <2>1. m = q
    BY <1>4, <1>2, <1>3 DEF sh_undo_prelink_rela
  <2> QED BY <1>1, <1>4, <2>1, StillLinked, SameLinked DEF Still
<1>5. CASE q.type = "RELATIVE"
  <2>1. /\ q.code = o.code /\ q.addend = IF o.addend = 0 THEN 0 ELSE Target(q)
        /\ q.addend = 0 => q.mem = [width |-> 4, val |-> Target(q)]
    BY <1>5 DEF KinA, AddrKin, Addr
  <2>2. ld_width(a, q) = 4 /\ LdVal(a, q) = Target(q) - q.addend /\ q.code = LdCode(a, q)
          /\ Target(q) \in Int
    BY <1>1, <1>5, <2>1, AddrWidth DEF LdVal, Addr, Slot, ppc64_Ds, FormA, LdCode, ld_class,
       Target
  <2>3. CASE q.addend = 0
    <3>1. m = q
      BY <1>2, <1>5, <2>3 DEF sh_undo_prelink_rela
    <3> QED BY <2>1, <2>2, <2>3, <3>1, SameLinked DEF AsLinked
  <2>4. CASE q.addend # 0
    <3>1. m = Put(q, 4, 0)
      BY <1>2, <1>5, <2>4 DEF sh_undo_prelink_rela
    <3>2. Written(m, q) /\ m.mem = [width |-> 4, val |-> 0]
      BY <1>1, <3>1, PutWritten DEF Put, Relocs
    <3>3. Kept(m, q) /\ Frame(m, q) /\ m.addend = q.addend /\ m.code = q.code
            /\ Target(m) = Target(q)
      BY <3>2, WrittenKept DEF Target
    <3>4. AddrKin(a, m, o)
      BY <2>1, <2>4, <3>3 DEF AddrKin
    <3>5. KinA(a, m, o)
      BY <1>5, <3>3, <3>4, KinAddr DEF Addr
    <3>6. LdVal(a, m) = LdVal(a, q) /\ ld_width(a, m) = ld_width(a, q)
            /\ LdCode(a, m) = LdCode(a, q)
      BY <1>5, <3>3, LinkedVal DEF Kept, Placed, LdCode, ppc64_Ds
    <3> QED BY <2>1, <2>2, <2>4, <3>2, <3>3, <3>5, <3>6 DEF AsLinked
  <2> QED BY <2>3, <2>4
<1>6. CASE q.type = "JMP_SLOT"
  <2>1. m = Put(q, 4, 7 * (4 * q.slot) + q.got)
    BY <1>6, <1>1, <1>2 DEF sh_undo_prelink_rela, Slot
  <2>2. ld_width(a, q) = 4
    BY <1>1, <1>6, SlotWidth DEF Slot, ld_class
  <2>3. LdVal(a, q) = 7 * (4 * q.slot) + q.got
    BY <1>1, <1>6 DEF LdVal, Addr, Slot, InWord, X86Like, X86_64, ppc64_Ds, ld_plt_entry, Plt,
       PltOffset
  <2>4. 7 * (4 * q.slot) + q.got \in Int
    BY <1>1
  <2>5. q.type \notin Addr \union Insns \union Still \union ppc64_Ds
    BY <1>6 DEF Addr, Insns, Still, ppc64_Ds, ppc_Predicted, sparc64_Insns
  <2>6. q.code = LdCode(a, q)
    BY <1>1, <1>6 DEF KinA, SlotKin, FormA, LdCode, Slot
  <2> QED BY <1>1, <2>1, <2>2, <2>3, <2>4, <2>5, <2>6, PutLinked
<1>7. CASE q.type \in {"GLOB_DAT", "DIR32", "REL32"}
  <2>1. m = Put(q, 4, 0)
    BY <1>7, <1>2 DEF sh_undo_prelink_rela
  <2>2. ld_width(a, q) = 4
    BY <1>1, <1>7 DEF ld_class, ld_width, Slot, Tls, TpOff, DtpOff, DtpMod, s390_Half,
       s390_Dbl16, ppc_Half, ppc_Low, ppc_DtpRel16, ppc_DtpRel, ppc_TpRel16, ppc_TpRel,
       ppc64_Ds, ppc64_Higher, mips_Got, mips_Global, mips_Undefined, mips_Defined, mips_DtpMod,
       mips_DtpRel, mips_TpRel, Mips
  <2>3. q.type \notin Addr \union Insns \union Still \union ppc64_Ds \union Slot
          \union {"ADDR64", "PC24"}
    BY <1>7 DEF Addr, Insns, Still, ppc64_Ds, ppc_Predicted, sparc64_Insns, Slot
  <2>4. LdVal(a, q) = 0
    BY <1>7, <2>3, PlainVal
  <2>5. q.code = LdCode(a, q)
    BY <1>1, <2>3 DEF KinA, FormA, LdCode
  <2> QED BY <1>1, <2>1, <2>2, <2>3, <2>4, <2>5, PutLinked
<1> QED BY <1>3, <1>4, <1>5, <1>6, <1>7

-----------------------------------------------------------------------------
(* alpha.                                                                  *)

(* alpha_adjust_rela: moving an object keeps what undoing needs, and one   *)
(* that ld made is as ld would have made it.                               *)
LEMMA AlphaMove ==
  ASSUME arch = "alpha", NEW q, NEW o, KinA(arch, q, o), FormA(arch, o), NEW b \in Nat,
         NEW m, m = AdjustRel(arch, q, b - q.base), NEW p, p = Relocated(q, b)
  PROVE  /\ KinA(arch, p, o) /\ Alike(m, q)
         /\ FormA(arch, q) => /\ p.mem = [width |-> ld_width(arch, p), val |-> LdVal(arch, p)]
                              /\ q.type \in Slot => p.addend = q.addend
<1> DEFINE d == b - q.base
           v == q.addend + d
           w == q.mem.val + d
           u == (q.mem.val - q.addend) + d + q.addend
           n == [q EXCEPT !.addend = v]
<1>1. /\ q \in Relocs /\ d \in Int /\ v \in Int /\ w \in Int /\ u \in Int
      /\ q.addend \in Int /\ q.base \in Nat /\ q.slot \in Nat /\ q.mem.val \in Int
      /\ q.class = 8 /\ LdType(arch, q) /\ q.type = o.type /\ arch \in Names \ RelArchs
  <2>1. /\ q \in Relocs /\ q.addend \in Int /\ q.base \in Nat /\ q.slot \in Nat
             /\ q.mem.val \in Int
        /\ q.class = 8 /\ LdType(arch, q) /\ q.type = o.type /\ arch \in Names \ RelArchs
    BY KinFacts DEF ld_class, Names, RelArchs, Mips
  <2> QED BY <2>1
<1>2. m = alpha_adjust_rela(q, d)
  BY DEF AdjustRel, X86_64, Ppc, Mips
<1>3. q.type \in {"NONE", "RELATIVE", "GLOB_DAT", "JMP_SLOT", "REFQUAD"} \union alpha_Tls
  BY <1>1 DEF LdType, ld_exec_types, ld_types, X86_64, Mips, Ppc, DtpMod, DtpOff
<1>4. m = CASE q.type \in {"RELATIVE", "JMP_SLOT"} -> Put(IF q.mem.val = q.addend THEN n ELSE q, 8, w)
            [] q.type = "GLOB_DAT" -> IF q.mem.val - q.addend # 0 THEN Put(q, 8, u) ELSE q
            [] OTHER -> q
  BY <1>2 DEF alpha_adjust_rela
<1>5. Alike(n, q) /\ n.mem = q.mem /\ n.addend = v /\ n \in Relocs
  BY <1>1, AddendFacts DEF Alike
<1> HIDE DEF d, v, w, u, n
<1>6. CASE q.type = "RELATIVE"
  <2>1. q.addend = q.base + 44 /\ q.mem = [width |-> 8, val |-> q.base + 44] /\ q.code = o.code
    BY <1>1, <1>6 DEF KinA, AddrKin, Addr, Target, InWord
  <2>2. m = Put(n, 8, w)
    BY <1>4, <1>6, <2>1
  <2>3. Alike(m, n) /\ m.mem = [width |-> 8, val |-> w] /\ m.addend = n.addend
    BY <1>1, <1>5, <2>2, PutFacts
  <2>4. Alike(m, q)
    BY <1>5, <2>3 DEF Alike, Placed
  <2>5. Frame(p, q) /\ p.base = b /\ p.addend = m.addend /\ p.mem = m.mem
    BY <1>1, <2>4, RelocatedFacts
  <2>6. p.addend = b + 44 /\ p.mem = [width |-> 8, val |-> b + 44] /\ p.code = q.code
          /\ p.class = 8
    BY <1>1, <1>5, <2>1, <2>3, <2>5 DEF d, v, w, Frame, Placed
  <2>7. AddrKin(arch, p, o) /\ AddrKin(arch, p, q) /\ InWord(arch, q.type)
    BY <2>1, <2>5, <2>6 DEF AddrKin, Target, InWord, Ppc
  <2> QED BY <1>1, <1>6, <2>4, <2>5, <2>7, KinAddr, MovedAddr DEF Addr, Slot
<1>7. CASE q.type = "JMP_SLOT"
  <2>1. CASE q.mem.val = q.addend
    <3>1. m = Put(n, 8, w)
      BY <1>4, <1>7, <2>1
    <3>2. Alike(m, n)
      <4>1. Written(Put(n, 8, w), n)
        BY <1>1, <1>5, PutWritten
      <4> QED BY <3>1, <4>1 DEF Written
    <3>3. Alike(m, q)
      BY <1>5, <3>2 DEF Alike, Placed
    <3>4. Frame(p, q)
      BY <1>1, <3>3, RelocatedFacts
    <3>5. SlotKin(arch, p, o)
      BY <1>7, <3>4 DEF KinA, SlotKin, Slot, Frame
    <3>6. ~ FormA(arch, q)
      <4>1. SUFFICES ASSUME FormA(arch, q) PROVE FALSE
        OBVIOUS
      <4>2. LdVal(arch, q) = Plt(q) + 12 * q.slot /\ q.addend = 0
        BY <1>7, <4>1 DEF LdVal, FormA, LdAddends, Addr, Slot, ppc64_Ds, X86Like, X86_64
      <4>3. Plt(q) + 12 * q.slot > 0
        BY <1>1 DEF Plt, PltOffset
      <4> QED BY <1>1, <2>1, <4>1, <4>2, <4>3 DEF FormA
    <3> QED BY <1>7, <3>3, <3>4, <3>5, <3>6, KinSlot DEF Frame, Slot
  <2>2. CASE q.mem.val # q.addend
    <3>1. m = Put(q, 8, w)
      BY <1>4, <1>7, <2>2
    <3>2. Alike(m, q) /\ m.mem = [width |-> 8, val |-> w] /\ m.addend = q.addend
      BY <1>1, <3>1, PutFacts
    <3>4. Frame(p, q) /\ p.base = b /\ p.addend = m.addend /\ p.mem = m.mem
      BY <1>1, <3>2, RelocatedFacts
    <3>5. SlotKin(arch, p, o)
      BY <1>7, <3>4 DEF KinA, SlotKin, Slot, Frame
    <3>6. ASSUME FormA(arch, q)
                 PROVE p.mem = [width |-> ld_width(arch, p), val |-> LdVal(arch, p)]
      <4>1. p.type = q.type /\ p.class = q.class /\ p.slot = q.slot
        BY <3>4 DEF Frame, Placed
      <4>2. ld_width(arch, p) = 8
        BY <1>1, <1>7, <4>1, SlotWidth DEF Slot
      <4>3. LdVal(arch, q) = Plt(q) + 12 * q.slot /\ LdVal(arch, p) = Plt(p) + 12 * p.slot
        BY <1>7, <4>1 DEF LdVal, Addr, Slot, ppc64_Ds, X86Like, X86_64
      <4>4. q.mem.val = Plt(q) + 12 * q.slot
        BY <3>6, <4>3 DEF FormA
      <4>5. ((q.base + 28) + 12 * q.slot) + (b - q.base) = (b + 28) + 12 * q.slot
        BY <1>1
      <4>6. w = LdVal(arch, p)
        BY <3>4, <4>1, <4>3, <4>4, <4>5 DEF Plt, PltOffset, d, w
      <4> QED BY <3>2, <3>4, <4>2, <4>6
    <3> QED BY <1>7, <3>2, <3>4, <3>5, <3>6, KinSlot DEF Frame, Slot
  <2> QED BY <2>1, <2>2
<1>8. CASE q.type = "GLOB_DAT"
  <2>1. m \in {q, Put(q, 8, u)} /\ (m = IF q.mem.val - q.addend # 0 THEN Put(q, 8, u) ELSE q)
    BY <1>4, <1>8
  <2>2. Written(m, q)
    BY <1>1, <2>1, PutWritten
  <2>3. Alike(m, q) /\ m.addend = q.addend
    BY <2>2 DEF Written
  <2>4. Frame(p, q) /\ p.base = b /\ p.addend = m.addend /\ p.mem = m.mem
    BY <1>1, <2>3, RelocatedFacts
  <2>5. q.type \notin Addr \union Slot \union Insns \union Still \union ppc64_Ds \union Halves
    BY <1>8 DEF Halves, ppc_Half, ppc_Low, ppc_DtpRel16, ppc_TpRel16, Addr, Slot, Insns, Still,
       ppc64_Ds, ppc_Predicted, sparc64_Insns
  <2>6. KinA(arch, p, o)
    BY <2>3, <2>4, <2>5, KinPut
  <2>7. ASSUME FormA(arch, q)
               PROVE p.mem = [width |-> ld_width(arch, p), val |-> LdVal(arch, p)]
    <3>1. p.type = q.type /\ p.class = q.class /\ p.def = q.def
      BY <2>4 DEF Frame, Placed
    <3>2. ld_width(arch, p) = 8 /\ ld_width(arch, q) = 8
      BY <1>1, <1>8, <3>1 DEF ld_width, Slot, Tls, TpOff, DtpOff, DtpMod, s390_Half, s390_Dbl16,
         ppc_Half, ppc_Low, ppc_DtpRel16, ppc_DtpRel, ppc_TpRel16, ppc_TpRel, ppc64_Ds,
         ppc64_Higher, mips_Got, mips_Global, mips_Undefined, mips_Defined, mips_DtpMod,
         mips_DtpRel, mips_TpRel, Mips
    <3>3. LdVal(arch, q) = StValue(q) + q.addend /\ LdVal(arch, p) = StValue(p) + q.addend
      BY <1>8, <2>3, <2>4, <2>5, <3>1 DEF LdVal
    <3>4. q.mem = [width |-> 8, val |-> StValue(q) + q.addend]
            /\ q.mem.val = StValue(q) + q.addend
      BY <2>7, <3>2, <3>3 DEF FormA
    <3>5. CASE q.def
      <4>1. StValue(q) = q.base + 12 /\ StValue(p) = b + 12
        BY <2>4, <3>1, <3>5 DEF StValue
      <4>2. m = Put(q, 8, u)
        BY <1>1, <2>1, <3>4, <4>1
      <4>3. m.mem = [width |-> 8, val |-> u]
        BY <1>1, <4>2 DEF Put, Relocs
      <4>4. u = LdVal(arch, p)
        BY <1>1, <3>3, <3>4, <4>1 DEF u, d
      <4> QED BY <2>4, <3>2, <4>3, <4>4
    <3>6. CASE ~ q.def
      <4>1. StValue(q) = 0 /\ StValue(p) = 0
        BY <3>1, <3>6 DEF StValue
      <4>2. m = q
        BY <1>1, <2>1, <3>4, <4>1
      <4> QED BY <2>4, <3>2, <3>3, <3>4, <4>1, <4>2
    <3> QED BY <3>5, <3>6
  <2> QED BY <2>3, <2>5, <2>6, <2>7
<1>9. CASE q.type \notin {"RELATIVE", "JMP_SLOT", "GLOB_DAT"}
  <2>1. m = q
    BY <1>4, <1>9
  <2> QED BY <1>1, <1>3, <1>9, <2>1, MoveOther DEF Addr, Slot, alpha_Tls
<1> QED BY <1>6, <1>7, <1>8, <1>9

(* alpha_prelink_rela keeps what undoing needs.                            *)
LEMMA AlphaPrelink ==
  ASSUME NEW a, a = "alpha", NEW q, NEW o, KinA(a, q, o), FormA(a, o), NEW s \in Syms,
         NEW m, m = PrelinkRel(a, q, s)
  PROVE  KinA(a, m, o) /\ Kept(m, q)
<1>1. /\ q.addend \in Int /\ q.base \in Int /\ q.off \in Int /\ q.slot \in Int
           /\ q.class \in Nat
      /\ q.mem.val \in Int /\ s.val \in Int /\ s.tlsoffset \in Int /\ q \in Relocs
           /\ LdType(a, q)
      /\ q.class = ld_class(a) /\ q.type = o.type
  BY KinFacts DEF Syms
<1>2. m = alpha_prelink_rela(q, s)
  BY DEF PrelinkRel, X86_64, Ppc, Mips
<1>3. /\ q.type \in {"NONE", "RELATIVE", "GLOB_DAT", "JMP_SLOT", "REFQUAD"} \union alpha_Tls
      /\ q.exec => q.type # "DTPMOD64"
  BY <1>1 DEF LdType, ld_exec_types, ld_types, X86_64, Mips, Ppc, DtpMod, DtpOff, alpha_Tls
<1>4. CASE q.type \in {"NONE", "RELATIVE", "DTPMOD64"}
  <2>1. m = q
    BY <1>4, <1>2, <1>3 DEF alpha_prelink_rela, alpha_Tls
  <2> QED BY <2>1, SameKin
<1>5. CASE q.type \in {"GLOB_DAT", "REFQUAD", "DTPREL64"}
  <2>1. m = Put(q, 8, s.val + q.addend)
    BY <1>5, <1>2, <1>3 DEF alpha_prelink_rela, alpha_Tls
  <2>2. s.val + q.addend \in Int
    BY <1>1 DEF P
  <2>3. q.type \notin Addr \union Insns \union Still \union Slot \union Halves
    BY <1>5 DEF Addr, Slot, Insns, Still, ppc_Predicted, sparc64_Insns, Halves, ppc_Half,
       ppc_Low, ppc_DtpRel16, ppc_TpRel16, alpha_Tls
  <2> QED BY <1>1, <2>1, <2>2, <2>3, PutKin
<1>6. CASE q.type = "TPREL64"
  <2>1. m \in {q, Put(q, 8, (s.val + q.addend) + s.tlsoffset)}
    BY <1>6, <1>2, <1>3 DEF alpha_prelink_rela, alpha_Tls
  <2>2. (s.val + q.addend) + s.tlsoffset \in Int
    BY <1>1 DEF P
  <2>3. q.type \notin Addr \union Insns \union Still \union Slot \union Halves
    BY <1>6 DEF Addr, Slot, Insns, Still, ppc_Predicted, sparc64_Insns, Halves, ppc_Half,
       ppc_Low, ppc_DtpRel16, ppc_TpRel16, alpha_Tls
  <2> QED BY <1>1, <2>1, <2>2, <2>3, PutKin
<1>7. CASE q.type = "JMP_SLOT"
  <2> DEFINE x == s.val + q.addend
             n == Put(q, 8, x)
             e == x - (Plt(n) + 12 * n.slot)
             i == P(n) - (Plt(n) + 12 * n.slot)
             c == IF Near(e) THEN Direct(e) ELSE Indirect(i)
  <2>1. m = [n EXCEPT !.code = c]
    BY <1>7, <1>2 DEF alpha_prelink_rela, alpha_fixup_plt
  <2>2. x \in Int
    BY <1>1
  <2>3. q.type \notin Addr \union Insns \union Still \union Halves
          /\ a \notin {"sparc", "ppc_bss", "sparc64"}
    BY <1>7 DEF Addr, Insns, Still, ppc_Predicted, sparc64_Insns, Halves, ppc_Half, ppc_Low,
       ppc_DtpRel16, ppc_TpRel16
  <2> HIDE DEF x
  <2>4. KinA(a, n, o) /\ Kept(n, q)
    BY <2>2, <2>3, PutKin
  <2>5. n.code = q.code /\ n.base = q.base /\ n.off = q.off /\ n.slot = q.slot
    <3>1. n.code = q.code
      BY <1>1 DEF Put, Relocs
    <3> QED BY <2>4, <3>1 DEF Kept, Placed
  <2>6. e \in Int /\ i \in Int
    BY <1>1, <2>2, <2>5 DEF Plt, PltOffset, P
  <2>7. q.code # NoCode
    BY <1>1, <1>7 DEF KinA, SlotKin, FormA, LdCode, Slot, Lazy, NoCode
  <2> HIDE DEF n, e, i
  <2>8. c \in Codes /\ c # NoCode
    BY <2>6, CodeIs
  <2> HIDE DEF c
  <2>9. KinA(a, m, o) /\ Kept(m, n)
    BY <1>7, <2>1, <2>4, <2>5, <2>7, <2>8, CodeKin DEF Kept, Slot
  <2> QED BY <2>4, <2>9 DEF Kept, Placed
<1> QED BY <1>3, <1>4, <1>5, <1>6, <1>7 DEF alpha_Tls

(* alpha_undo_prelink_rela restores the word and the code of the PLT       *)
(* entry.                                                                  *)
LEMMA AlphaUndo ==
  ASSUME NEW a, a = "alpha", NEW q, NEW o, KinA(a, q, o), FormA(a, o),
         NEW m, m = UndoRel(a, q)
  PROVE  Kept(m, q) /\ KinA(a, m, o) /\ AsLinked(a, m)
<1>1. /\ q.slot \in Int /\ q.base \in Int /\ q.class \in Nat /\ q.class = ld_class(a)
           /\ q.got \in Int
      /\ q.addend \in Int /\ q.inGot = (q.type \in Slot \union {"GLOB_DAT"}) /\ LdType(a, q)
           /\ a \in Names
      /\ q \in Relocs /\ q.type = o.type
  BY KinFacts DEF Names, X86_64, Ppc
<1>2. m = alpha_undo_prelink_rela(q)
  BY DEF UndoRel, X86_64, Ppc, Mips, RelArchs
<1>3. /\ q.type \in {"NONE", "RELATIVE", "GLOB_DAT", "JMP_SLOT", "REFQUAD"} \union alpha_Tls
  BY <1>1 DEF LdType, ld_exec_types, ld_types, X86_64, Mips, Ppc, DtpMod, DtpOff, alpha_Tls
<1>4. CASE q.type = "NONE"
  <2>1. m = q
    BY <1>4, <1>2 DEF alpha_undo_prelink_rela, alpha_Tls
  <2> QED BY <1>1, <1>4, <2>1, StillLinked, SameLinked DEF Still
<1>5. CASE q.type = "RELATIVE"
  <2>1. m = q
    BY <1>5, <1>2 DEF alpha_undo_prelink_rela, alpha_Tls
  <2>2. q.mem = [width |-> 8, val |-> Target(q)] /\ q.code = o.code
    BY <1>1, <1>5 DEF KinA, AddrKin, InWord, Addr, ld_class
  <2>3. ld_width(a, q) = 8
    BY <1>1, <1>5, AddrWidth DEF ld_class
  <2>4. LdVal(a, q) = Target(q) /\ q.code = LdCode(a, q)
    BY <1>1, <1>5, <2>2 DEF LdVal, Addr, Slot, InWord, ppc64_Ds, FormA, LdCode
  <2> QED BY <2>1, <2>2, <2>3, <2>4, SameLinked DEF AsLinked
<1>6. CASE q.type = "JMP_SLOT"
  <2> DEFINE x == Plt(q) + 12 * q.slot
             n == Put(q, 8, x)
  <2>1. m = [n EXCEPT !.code = Lazy]
    BY <1>6, <1>2 DEF alpha_undo_prelink_rela, alpha_Tls
  <2>2. x \in Int
    BY <1>1 DEF Plt, PltOffset
  <2>3. q.type \notin Addr \union Insns \union Still \union ppc64_Ds \union Halves
          /\ a \notin {"sparc", "ppc_bss", "sparc64"}
    BY <1>6 DEF Addr, Insns, Still, ppc_Predicted, sparc64_Insns, ppc64_Ds, Halves, ppc_Half,
       ppc_Low, ppc_DtpRel16, ppc_TpRel16
  <2>4. LdVal(a, q) = x
    BY <1>6 DEF LdVal, Addr, Slot, ppc64_Ds, X86Like, X86_64
  <2> HIDE DEF x
  <2>5. KinA(a, n, o) /\ Kept(n, q)
    BY <2>2, <2>3, PutKin
  <2>6. n.code = q.code /\ n.mem = [width |-> 8, val |-> x] /\ n.addend = q.addend
    BY <1>1, <2>2, PutFacts DEF Alike
  <2>7. q.code # NoCode
    BY <1>1, <1>6 DEF KinA, SlotKin, FormA, LdCode, Slot, Lazy, NoCode
  <2> HIDE DEF n
  <2>8. Lazy \in Codes /\ Lazy # NoCode
    BY CodeIs
  <2>9. KinA(a, m, o) /\ Kept(m, n) /\ m.mem = n.mem /\ m.addend = n.addend /\ m.code = Lazy
    BY <1>6, <2>1, <2>5, <2>6, <2>7, <2>8, CodeKin DEF Kept, Slot
  <2>10. Kept(m, q)
    BY <2>5, <2>9 DEF Kept, Placed
  <2>11. LdVal(a, m) = LdVal(a, q) /\ ld_width(a, m) = ld_width(a, q)
    BY <2>3, <2>6, <2>9, <2>10, LinkedVal DEF Kept, Placed
  <2>12. ld_width(a, q) = 8
    BY <1>1, <1>6, SlotWidth DEF Slot, ld_class
  <2>13. LdCode(a, m) = Lazy
    BY <1>6, <2>10 DEF LdCode, Kept, Slot
  <2> QED BY <2>4, <2>6, <2>9, <2>10, <2>11, <2>12, <2>13 DEF AsLinked
<1>7. CASE q.type = "GLOB_DAT"
  <2>1. m = Put(q, 8, StValue(q) + q.addend)
    BY <1>7, <1>2 DEF alpha_undo_prelink_rela, alpha_Tls
  <2>2. ld_width(a, q) = 8
    BY <1>1, <1>7 DEF ld_class, ld_width, Slot, Tls, TpOff, DtpOff, DtpMod, s390_Half,
       s390_Dbl16, ppc_Half, ppc_Low, ppc_DtpRel16, ppc_DtpRel, ppc_TpRel16, ppc_TpRel,
       ppc64_Ds, ppc64_Higher, mips_Got, mips_Global, mips_Undefined, mips_Defined, mips_DtpMod,
       mips_DtpRel, mips_TpRel, Mips
  <2>3. q.type \notin Addr \union Insns \union Still \union ppc64_Ds \union Slot
    BY <1>7 DEF Addr, Insns, Still, ppc64_Ds, ppc_Predicted, sparc64_Insns, Slot
  <2>4. LdVal(a, q) = StValue(q) + q.addend /\ StValue(q) + q.addend \in Int
    BY <1>1, <1>7, <2>3 DEF LdVal, StValue
  <2>5. q.code = LdCode(a, q)
    BY <1>1, <2>3 DEF KinA, FormA, LdCode
  <2> QED BY <1>1, <2>1, <2>2, <2>3, <2>4, <2>5, PutLinked
<1>8. CASE q.type \in {"REFQUAD"} \union alpha_Tls
  <2>1. m = Put(q, 8, 0)
    BY <1>8, <1>2 DEF alpha_undo_prelink_rela, alpha_Tls
  <2>2. ld_width(a, q) = 8
    BY <1>1, <1>8 DEF ld_class, ld_width, Slot, Tls, TpOff, DtpOff, DtpMod, s390_Half,
       s390_Dbl16, ppc_Half, ppc_Low, ppc_DtpRel16, ppc_DtpRel, ppc_TpRel16, ppc_TpRel,
       ppc64_Ds, ppc64_Higher, mips_Got, mips_Global, mips_Undefined, mips_Defined, mips_DtpMod,
       mips_DtpRel, mips_TpRel, Mips, alpha_Tls
  <2>3. q.type \notin Addr \union Insns \union Still \union ppc64_Ds \union Slot
          \union {"ADDR64", "PC24"}
    BY <1>8 DEF Addr, Insns, Still, ppc64_Ds, ppc_Predicted, sparc64_Insns, Slot, alpha_Tls
  <2>4. LdVal(a, q) = 0
    BY <1>8, <2>3, PlainVal DEF alpha_Tls
  <2>5. q.code = LdCode(a, q)
    BY <1>1, <2>3 DEF KinA, FormA, LdCode
  <2> QED BY <1>1, <2>1, <2>2, <2>3, <2>4, <2>5, PutLinked
<1> QED BY <1>3, <1>4, <1>5, <1>6, <1>7, <1>8 DEF alpha_Tls

-----------------------------------------------------------------------------
(* ppc.                                                                    *)

(* The halves of a value have 16 bits.                                     *)
LEMMA HalfParts ==
  \A x \in Int : /\ Lo16(x) \in Int /\ Hi16(x) \in Int /\ Ha16(x) \in Int
                 /\ HalfWord(Lo16(x)) /\ HalfWord(Hi16(x)) /\ HalfWord(Ha16(x))
<1>1. ASSUME NEW x \in Int PROVE Lo16(x) \in Int /\ HalfWord(Lo16(x))
  BY SMT DEF Lo16, HalfWord
<1>2. ASSUME NEW x \in Int PROVE Hi16(x) \in Int /\ HalfWord(Hi16(x))
  BY SMT DEF Hi16, HalfWord
<1>3. ASSUME NEW x \in Int PROVE Ha16(x) \in Int /\ HalfWord(Ha16(x))
  BY SMT, <1>2 DEF Ha16
<1> QED BY <1>1, <1>2, <1>3

(* The PLT of ppc is code in all of an object, or in nothing of it.        *)
LEMMA PpcCode ==
  ASSUME NEW a, a \in Ppc, NEW q, NEW o, KinA(a, q, o), FormA(a, o)
  PROVE  ppc_got(q) <=> a = "ppc"
<1>1. q.code = o.code \/ ((q.code = NoCode) <=> (o.code = NoCode))
  BY DEF KinA, AddrKin, SlotKin
<1>2. o.code = IF a = "ppc" THEN NoCode ELSE Lazy
  BY DEF FormA, LdCode, Ppc
<1> QED BY <1>1, <1>2, CodeIs DEF ppc_got, Ppc

(* ppc_adjust_rela: moving an object keeps what undoing needs, and one     *)
(* that ld made is as ld would have made it.                               *)
LEMMA PpcMove ==
  ASSUME arch \in Ppc, NEW q, NEW o, KinA(arch, q, o), FormA(arch, o), NEW b \in Nat,
         NEW m, m = AdjustRel(arch, q, b - q.base), NEW p, p = Relocated(q, b)
  PROVE  /\ KinA(arch, p, o) /\ Alike(m, q)
         /\ FormA(arch, q) => p.mem = [width |-> ld_width(arch, p), val |-> LdVal(arch, p)]
<1> DEFINE d == b - q.base
           v == q.addend + d
           w == q.mem.val + d
<1>1. /\ q \in Relocs /\ d \in Int /\ v \in Int /\ w \in Int
      /\ q.addend \in Int /\ q.base \in Nat /\ q.slot \in Int /\ q.mem.val \in Int
      /\ q.class = 4 /\ LdType(arch, q) /\ q.type = o.type /\ arch \in Names \ RelArchs
  BY KinFacts DEF ld_class, Names, RelArchs, Mips, Ppc
<1>2. m = ppc_adjust_rela(q, d)
  BY DEF AdjustRel, X86_64, Ppc, Mips
<1>3. q.type \in {"NONE", "RELATIVE", "IRELATIVE", "COPY", "JMP_SLOT", "ADDR24", "ADDR14", "REL24", "REL32", "DTPMOD32"}
                   \union ppc_Word \union ppc_Half \union ppc_Predicted \union ppc_DtpRel
                     \union ppc_TpRel
  BY <1>1 DEF LdType, ld_exec_types, ld_types, X86_64, Mips, Ppc, DtpMod, DtpOff, Predicted,
     ppc_Word, ppc_Half, ppc_Low, ppc_Predicted, ppc_DtpRel, ppc_DtpRel16, ppc_TpRel,
     ppc_TpRel16
<1> HIDE DEF d, v, w
<1>4. CASE q.type \in {"RELATIVE", "IRELATIVE"}
  <2>1. q.addend = q.base + 44 /\ q.code = o.code /\ (q.type = "IRELATIVE" => q.mem = o.mem)
    BY <1>4 DEF KinA, AddrKin, Addr, Target, Ppc
  <2>2. m = [q EXCEPT !.addend = v]
    BY <1>2, <1>4 DEF ppc_adjust_rela, v
  <2>3. Alike(m, q) /\ m.mem = q.mem /\ m.addend = v
    BY <1>1, <2>2, AddendIs
  <2>4. Frame(p, q) /\ p.base = b /\ p.addend = m.addend /\ p.mem = m.mem
    BY <1>1, <2>3, RelocatedFacts
  <2>5. p.addend = b + 44 /\ p.code = q.code /\ p.type = q.type
    BY <1>1, <2>1, <2>3, <2>4 DEF d, v, Frame
  <2>6. AddrKin(arch, p, o) /\ AddrKin(arch, p, q)
    BY <1>4, <2>1, <2>3, <2>4, <2>5 DEF AddrKin, Target, InWord, Ppc, X86Like, X86_64
  <2> QED BY <1>1, <1>4, <2>3, <2>4, <2>6, KinAddr, MovedAddr DEF Addr
<1>5. CASE q.type = "JMP_SLOT" /\ ppc_got(q)
  <2>1. m = Put(q, 4, w) /\ arch = "ppc"
    BY <1>2, <1>5, PpcCode DEF ppc_adjust_rela, w
  <2>2. Alike(m, q) /\ m.mem = [width |-> 4, val |-> w] /\ m.addend = q.addend
    BY <1>1, <2>1, PutIs
  <2>3. Frame(p, q) /\ p.base = b /\ p.addend = m.addend /\ p.mem = m.mem
    BY <1>1, <2>2, RelocatedFacts
  <2>4. SlotKin(arch, p, o)
    BY <1>5, <2>1, <2>2, <2>3 DEF KinA, SlotKin, Slot, Frame
  <2>5. ASSUME FormA(arch, q)
               PROVE p.mem = [width |-> ld_width(arch, p), val |-> LdVal(arch, p)]
    <3>1. p.type = q.type /\ p.class = q.class /\ p.slot = q.slot
      BY <2>3 DEF Frame, Placed
    <3>2. ld_width(arch, p) = 4
      BY <1>1, <1>5, <2>1, <3>1, SlotWidth DEF Slot
    <3>3. LdVal(arch, q) = Plt(q) + 4 * q.slot /\ LdVal(arch, p) = Plt(p) + 4 * p.slot
      BY <1>5, <2>1, <3>1 DEF LdVal, Addr, Slot, ppc64_Ds, ld_plt_entry, X86Like, X86_64
    <3>4. q.mem.val = Plt(q) + 4 * q.slot
      BY <2>5, <3>3 DEF FormA
    <3>5. ((q.base + 28) + 4 * q.slot) + (b - q.base) = (b + 28) + 4 * q.slot
      BY <1>1
    <3>6. w = LdVal(arch, p)
      BY <2>3, <3>1, <3>3, <3>4, <3>5 DEF Plt, PltOffset, d, w
    <3> QED BY <2>2, <2>3, <3>2, <3>6
  <2> QED BY <1>5, <2>2, <2>3, <2>4, <2>5, KinSlot DEF Frame, Slot
<1>6. CASE q.type = "JMP_SLOT" /\ ~ ppc_got(q)
  <2>1. m = q /\ arch = "ppc_bss"
    BY <1>2, <1>6, PpcCode DEF ppc_adjust_rela, Ppc
  <2>2. Alike(m, q) /\ m.mem = q.mem /\ m.addend = q.addend
    BY <1>1, <2>1 DEF Alike, Placed
  <2>3. Frame(p, q) /\ p.base = b /\ p.addend = m.addend /\ p.mem = m.mem
    BY <1>1, <2>2, RelocatedFacts
  <2>4. SlotKin(arch, p, o)
    BY <1>6, <2>1, <2>2, <2>3 DEF KinA, SlotKin, Slot, Frame
  <2>5. ASSUME FormA(arch, q)
               PROVE p.mem = [width |-> ld_width(arch, p), val |-> LdVal(arch, p)]
    <3>1. p.type = q.type /\ p.class = q.class
      BY <2>3 DEF Frame, Placed
    <3>2. ld_width(arch, p) = ld_width(arch, q)
      BY <3>1, LdWidthSame
    <3>3. LdVal(arch, q) = 0 /\ LdVal(arch, p) = 0
      BY <1>6, <2>1, <3>1 DEF LdVal, Addr, Slot, ppc64_Ds, X86Like, X86_64
    <3> QED BY <2>2, <2>3, <2>5, <3>2, <3>3 DEF FormA
  <2> QED BY <1>6, <2>2, <2>3, <2>4, <2>5, KinSlot DEF Frame, Slot
<1>7. CASE q.type \notin {"RELATIVE", "IRELATIVE", "JMP_SLOT"}
  <2>1. m = q
    BY <1>2, <1>7 DEF ppc_adjust_rela
  <2>2. q.type \notin Addr \union Slot /\ arch # "alpha"
    BY <1>3, <1>7 DEF Addr, Slot, Ppc, ppc_Word, ppc_Half, ppc_Low, ppc_Predicted, ppc_DtpRel,
       ppc_DtpRel16, ppc_TpRel, ppc_TpRel16
  <2> QED BY <1>1, <2>1, <2>2, MoveOther DEF d
<1> QED BY <1>4, <1>5, <1>6, <1>7

(* ppc_prelink_rela keeps what undoing needs.                              *)
LEMMA PpcPrelink ==
  ASSUME NEW a, a \in Ppc, NEW q, NEW o, KinA(a, q, o), FormA(a, o), NEW s \in Syms,
         NEW m, m = PrelinkRel(a, q, s)
  PROVE  KinA(a, m, o) /\ Kept(m, q)
<1>1. /\ q.addend \in Int /\ q.base \in Int /\ q.off \in Int /\ q.slot \in Int
           /\ q.class \in Nat
      /\ q.mem.val \in Int /\ s.val \in Int /\ s.tlsoffset \in Int /\ q \in Relocs
           /\ LdType(a, q)
      /\ q.class = ld_class(a) /\ q.type = o.type
  BY KinFacts DEF Syms
<1>2. m = ppc_prelink_rela(q, s)
  BY DEF PrelinkRel, X86_64, Ppc, Mips
<1>3. /\ q.type \in {"NONE", "RELATIVE", "IRELATIVE", "COPY", "JMP_SLOT", "ADDR24", "ADDR14", "REL24", "REL32", "DTPMOD32"}
                   \union ppc_Word \union ppc_Half \union ppc_Predicted \union ppc_DtpRel
                     \union ppc_TpRel
      /\ q.exec => q.type # "DTPMOD32"
      /\ ~ q.exec => q.type # "COPY"
  BY <1>1 DEF LdType, ld_exec_types, ld_types, X86_64, Mips, Ppc, DtpMod, DtpOff, Predicted,
     ppc_Word, ppc_Half, ppc_Low, ppc_Predicted, ppc_DtpRel, ppc_DtpRel16, ppc_TpRel,
     ppc_TpRel16
<1>4. CASE q.type \in {"NONE", "COPY", "IRELATIVE", "DTPMOD32"}
  <2>1. m = q
    BY <1>4, <1>2, <1>3 DEF ppc_prelink_rela, ppc_Word, ppc_Half, ppc_Low, ppc_Predicted,
       ppc_DtpRel, ppc_DtpRel16, ppc_TpRel, ppc_TpRel16
  <2> QED BY <2>1, SameKin
<1>5. CASE q.type = "RELATIVE"
  <2>1. m = Put(q, 4, q.addend)
    BY <1>5, <1>2 DEF ppc_prelink_rela, ppc_Word, ppc_Half, ppc_Low, ppc_Predicted, ppc_DtpRel,
       ppc_DtpRel16, ppc_TpRel, ppc_TpRel16
  <2>2. Written(m, q)
    BY <1>1, <2>1, PutWritten
  <2>3. Kept(m, q) /\ Frame(m, q) /\ m.addend = q.addend /\ m.code = q.code
          /\ Target(m) = Target(q) /\ m.type = q.type
    BY <2>2, WrittenKept DEF Target, Kept
  <2>4. AddrKin(a, m, o)
    BY <1>5, <2>2, <2>3 DEF KinA, AddrKin, Addr, InWord, Ppc, X86Like, X86_64
  <2> QED BY <1>5, <2>3, <2>4, KinAddr DEF Addr
<1>6. CASE q.type \in ppc_Word
  <2>1. m = Put(q, 4, s.val + q.addend)
    BY <1>6, <1>2, <1>3 DEF ppc_prelink_rela, ppc_Word, ppc_Half, ppc_Low, ppc_Predicted,
       ppc_DtpRel, ppc_DtpRel16, ppc_TpRel, ppc_TpRel16
  <2>2. s.val + q.addend \in Int
    BY <1>1 DEF P
  <2>3. q.type \notin Addr \union Insns \union Still \union Slot \union Halves
    BY <1>6 DEF Addr, Slot, Insns, Still, ppc_Predicted, sparc64_Insns, Halves, ppc_Half,
       ppc_Low, ppc_DtpRel16, ppc_TpRel16, ppc_Word, ppc_Half, ppc_Low, ppc_Predicted,
       ppc_DtpRel, ppc_DtpRel16, ppc_TpRel, ppc_TpRel16
  <2> QED BY <1>1, <2>1, <2>2, <2>3, PutKin
<1>7. CASE q.type = "DTPREL32"
  <2>1. m = Put(q, 4, (s.val + q.addend) - 32768)
    BY <1>7, <1>2, <1>3 DEF ppc_prelink_rela, ppc_Word, ppc_Half, ppc_Low, ppc_Predicted,
       ppc_DtpRel, ppc_DtpRel16, ppc_TpRel, ppc_TpRel16, ppc_dtprel, ppc_reloc_size
  <2>2. (s.val + q.addend) - 32768 \in Int
    BY <1>1 DEF P
  <2>3. q.type \notin Addr \union Insns \union Still \union Slot \union Halves
    BY <1>7 DEF Addr, Slot, Insns, Still, ppc_Predicted, sparc64_Insns, Halves, ppc_Half,
       ppc_Low, ppc_DtpRel16, ppc_TpRel16, ppc_Word, ppc_Half, ppc_Low, ppc_Predicted,
       ppc_DtpRel, ppc_DtpRel16, ppc_TpRel, ppc_TpRel16, ppc_dtprel, ppc_reloc_size
  <2> QED BY <1>1, <2>1, <2>2, <2>3, PutKin
<1>8. CASE q.type = "TPREL32"
  <2> DEFINE x == (s.val + q.addend) + s.tlsoffset - 28672
  <2>1. m \in {q, Put(q, 4, x)}
    BY <1>8, <1>2, <1>3 DEF ppc_prelink_rela, ppc_Word, ppc_Half, ppc_Low, ppc_Predicted,
       ppc_DtpRel, ppc_DtpRel16, ppc_TpRel, ppc_TpRel16, ppc_tprel, ppc_reloc_size
  <2>2. x \in Int
    BY <1>1 DEF P
  <2> HIDE DEF x
  <2>3. q.type \notin Addr \union Insns \union Still \union Slot \union Halves
    BY <1>8 DEF Addr, Slot, Insns, Still, ppc_Predicted, sparc64_Insns, Halves, ppc_Half,
       ppc_Low, ppc_DtpRel16, ppc_TpRel16, ppc_Word, ppc_Half, ppc_Low, ppc_Predicted,
       ppc_DtpRel, ppc_DtpRel16, ppc_TpRel, ppc_TpRel16, ppc_tprel, ppc_reloc_size
  <2> QED BY <1>1, <2>1, <2>2, <2>3, PutKin
<1>9. CASE q.type \in ppc_DtpRel16 \union ppc_TpRel16 \union ppc_Half
  <2> DEFINE x == s.val + q.addend
             y == x - 32768
             z == x + s.tlsoffset - 28672
  <2>1. x \in Int /\ y \in Int /\ z \in Int
    BY <1>1
  <2>2. CASE q.type \in ppc_DtpRel16
    <3>1. m \in {Put(q, 2, Lo16(y)), Put(q, 2, Hi16(y)), Put(q, 2, Hi16(x))}
      BY <1>2, <2>2 DEF ppc_prelink_rela, ppc_dtprel, ppc_reloc_size, ppc_Word, ppc_Half,
         ppc_Low, ppc_Predicted, ppc_DtpRel, ppc_DtpRel16, ppc_TpRel, ppc_TpRel16
    <3> HIDE DEF x, y
    <3> QED BY <2>1, <2>2, <3>1, HalfParts, HalfKin DEF Halves
  <2>3. CASE q.type \in ppc_TpRel16
    <3>1. m \in {q, Put(q, 2, Lo16(z)), Put(q, 2, Hi16(z)), Put(q, 2, Ha16(z))}
      BY <1>2, <2>3 DEF ppc_prelink_rela, ppc_tprel, ppc_reloc_size, ppc_Word, ppc_Half,
         ppc_Low, ppc_Predicted, ppc_DtpRel, ppc_DtpRel16, ppc_TpRel, ppc_TpRel16
    <3> HIDE DEF z
    <3> QED BY <2>1, <2>3, <3>1, HalfParts, HalfKin, SameKin DEF Halves
  <2>4. CASE q.type \in ppc_Half
    <3>1. m \in {Put(q, 2, Lo16(x)), Put(q, 2, Hi16(x)), Put(q, 2, Ha16(x))}
      BY <1>2, <2>4 DEF ppc_prelink_rela, ppc_half, ppc_Word, ppc_Half, ppc_Low, ppc_Predicted,
         ppc_DtpRel, ppc_DtpRel16, ppc_TpRel, ppc_TpRel16
    <3> HIDE DEF x
    <3> QED BY <2>1, <2>4, <3>1, HalfParts, HalfKin DEF Halves
  <2> QED BY <1>9, <2>2, <2>3, <2>4
<1>10. CASE q.type \in {"ADDR24", "REL24"}
  <2> DEFINE x == IF q.type = "ADDR24" THEN s.val + q.addend ELSE (s.val + q.addend) - P(q)
             v == Insert(q.mem.val, 2, 26, x)
  <2>1. m = Put(q, 4, v)
    BY <1>10, <1>2 DEF ppc_prelink_rela, ppc_Word, ppc_Half, ppc_Low, ppc_Predicted, ppc_DtpRel,
       ppc_DtpRel16, ppc_TpRel, ppc_TpRel16
  <2>2. x \in Int
    BY <1>1 DEF P
  <2> HIDE DEF x
  <2>3. v \in Int /\ Insert(v, 2, 26, 0) = Insert(q.mem.val, 2, 26, 0)
    BY <1>1, <2>2, InsertCleared26
  <2>4. Cleared(q.type, v) = Cleared(q.type, q.mem.val) /\ q.type \in Insns
    BY <1>10, <2>3 DEF Cleared, Insns, ppc_Predicted
  <2> HIDE DEF v
  <2> QED BY <2>1, <2>3, <2>4, InsnKin
<1>11. CASE q.type = "ADDR14"
  <2> DEFINE x == s.val + q.addend
             v == ppc_addr14(q.mem.val, x)
  <2>1. m = Put(q, 4, v)
    BY <1>11, <1>2 DEF ppc_prelink_rela, ppc_Word, ppc_Half, ppc_Low, ppc_Predicted, ppc_DtpRel,
       ppc_DtpRel16, ppc_TpRel, ppc_TpRel16
  <2>2. x \in Int
    BY <1>1
  <2> HIDE DEF x
  <2>3. v \in Int /\ ppc_addr14(v, 0) = ppc_addr14(q.mem.val, 0)
    BY <1>1, <2>2, InsertCleared16 DEF ppc_addr14
  <2>4. Cleared(q.type, v) = Cleared(q.type, q.mem.val) /\ q.type \in Insns
    BY <1>11, <2>3 DEF Cleared, Insns, ppc_Predicted
  <2> HIDE DEF v
  <2> QED BY <2>1, <2>3, <2>4, InsnKin
<1>12. CASE q.type \in ppc_Predicted
  <2> DEFINE x == s.val + q.addend
             t == q.type = "ADDR14_BRTAKEN"
             v == ppc_addr14_br(q.mem.val, x, t)
  <2>1. m = Put(q, 4, v)
    BY <1>12, <1>2 DEF ppc_prelink_rela, ppc_Word, ppc_Half, ppc_Low, ppc_Predicted, ppc_DtpRel,
       ppc_DtpRel16, ppc_TpRel, ppc_TpRel16
  <2>2. x \in Int
    BY <1>1
  <2> HIDE DEF x
  <2>3. v \in Int /\ ppc_addr14_br(v, 0, FALSE) = ppc_addr14_br(q.mem.val, 0, FALSE)
    <3>1. CASE t
      BY <1>1, <2>2, <3>1, PredictedCleared DEF ppc_addr14_br, ppc_addr14
    <3>2. CASE ~ t
      BY <1>1, <2>2, <3>2, PredictedCleared DEF ppc_addr14_br, ppc_addr14
    <3> QED BY <3>1, <3>2
  <2>4. Cleared(q.type, v) = Cleared(q.type, q.mem.val) /\ q.type \in Insns
    BY <1>12, <2>3 DEF Cleared, Insns, ppc_Predicted
  <2> HIDE DEF v
  <2> QED BY <2>1, <2>3, <2>4, InsnKin
<1>13. CASE q.type = "JMP_SLOT"
  <2> DEFINE x == s.val + q.addend
             e == x - P(q)
             c == IF Near(e) THEN Direct(e) ELSE Absolute(x)
  <2>1. m = IF ppc_got(q) THEN Put(q, 4, x) ELSE [q EXCEPT !.code = c]
    BY <1>13, <1>2 DEF ppc_prelink_rela, ppc_fixup_plt, ppc_Word, ppc_Half, ppc_Low,
       ppc_Predicted, ppc_DtpRel, ppc_DtpRel16, ppc_TpRel, ppc_TpRel16
  <2>2. x \in Int /\ e \in Int
    BY <1>1 DEF P
  <2> HIDE DEF x, e
  <2>3. CASE ppc_got(q)
    <3>1. q.type \notin Addr \union Insns \union Still \union Halves /\ a = "ppc"
      BY <1>13, <2>3, PpcCode DEF Addr, Insns, Still, ppc_Predicted, sparc64_Insns, Halves,
         ppc_Half, ppc_Low, ppc_DtpRel16, ppc_TpRel16
    <3> QED BY <2>1, <2>2, <2>3, <3>1, PutKin
  <2>4. CASE ~ ppc_got(q)
    <3>1. c \in Codes /\ c # NoCode
      BY <2>2, CodeIs
    <3> HIDE DEF c
    <3> QED BY <1>13, <2>1, <2>4, <3>1, CodeKin DEF Slot, ppc_got
  <2> QED BY <2>3, <2>4
<1>14. CASE q.type = "REL32"
  <2>1. m = Put(q, 4, (s.val + q.addend) - P(q))
    BY <1>14, <1>2, <1>3 DEF ppc_prelink_rela, ppc_Word, ppc_Half, ppc_Low, ppc_Predicted,
       ppc_DtpRel, ppc_DtpRel16, ppc_TpRel, ppc_TpRel16
  <2>2. (s.val + q.addend) - P(q) \in Int
    BY <1>1 DEF P
  <2>3. q.type \notin Addr \union Insns \union Still \union Slot \union Halves
    BY <1>14 DEF Addr, Slot, Insns, Still, ppc_Predicted, sparc64_Insns, Halves, ppc_Half,
       ppc_Low, ppc_DtpRel16, ppc_TpRel16, ppc_Word, ppc_Half, ppc_Low, ppc_Predicted,
       ppc_DtpRel, ppc_DtpRel16, ppc_TpRel, ppc_TpRel16
  <2> QED BY <1>1, <2>1, <2>2, <2>3, PutKin
<1> QED BY <1>3, <1>4, <1>5, <1>6, <1>7, <1>8, <1>9, <1>10, <1>11, <1>12, <1>13, <1>14 DEF
           ppc_DtpRel, ppc_TpRel

(* ppc_undo_prelink_rela restores the word, but for a PLT that is not      *)
(* code.                                                                   *)
LEMMA PpcUndo ==
  ASSUME NEW a, a \in Ppc, NEW q, NEW o, KinA(a, q, o), FormA(a, o), q.type = "JMP_SLOT" =>
             a = "ppc_bss",
         NEW m, m = UndoRel(a, q)
  PROVE  Kept(m, q) /\ KinA(a, m, o) /\ AsLinked(a, m)
<1>1. /\ q.slot \in Int /\ q.base \in Int /\ q.class \in Nat /\ q.class = ld_class(a)
           /\ q.got \in Int
      /\ q.addend \in Int /\ q.inGot = (q.type \in Slot \union {"GLOB_DAT"}) /\ LdType(a, q)
           /\ a \in Names
      /\ q \in Relocs /\ q.type = o.type
  BY KinFacts DEF Names, X86_64, Ppc
<1>2. m = ppc_undo_prelink_rela(q)
  BY DEF UndoRel, X86_64, Ppc, Mips, RelArchs
<1>3. /\ q.type \in {"NONE", "RELATIVE", "IRELATIVE", "COPY", "JMP_SLOT", "ADDR24", "ADDR14", "REL24", "REL32", "DTPMOD32"}
                   \union ppc_Word \union ppc_Half \union ppc_Predicted \union ppc_DtpRel
                     \union ppc_TpRel
      /\ ~ q.exec => q.type # "COPY"
  BY <1>1 DEF LdType, ld_exec_types, ld_types, X86_64, Mips, Ppc, DtpMod, DtpOff, Predicted,
     ppc_Word, ppc_Half, ppc_Low, ppc_Predicted, ppc_DtpRel, ppc_DtpRel16, ppc_TpRel,
     ppc_TpRel16
<1>4. CASE q.type \in {"NONE", "COPY"}
  <2>1. m = q
    BY <1>4, <1>2, <1>3 DEF ppc_undo_prelink_rela, ppc_Word, ppc_Half, ppc_Low, ppc_Predicted,
       ppc_DtpRel, ppc_DtpRel16, ppc_TpRel, ppc_TpRel16
  <2> QED BY <1>1, <1>4, <2>1, StillLinked, SameLinked DEF Still
<1>5. CASE q.type \in {"RELATIVE", "IRELATIVE"}
  <2>1. q.addend = Target(q) /\ q.code = o.code /\ (q.type = "IRELATIVE" => q.mem = o.mem)
    BY <1>5 DEF KinA, AddrKin, Addr, Ppc
  <2>2. LdVal(a, q) = 0 /\ ld_width(a, q) = 4 /\ LdVal(a, o) = 0 /\ ld_width(a, o) = 4
    <3>1. LdVal(a, q) = 0 /\ LdVal(a, o) = 0
      BY <1>1, <1>5 DEF LdVal, Addr, Slot, InWord, Ppc, X86Like, X86_64, ppc64_Ds
    <3>2. o.class = 4 /\ q.class = 4
      BY <1>1 DEF FormA, ld_class, Ppc
    <3> QED BY <1>1, <1>5, <3>1, <3>2, AddrWidth
  <2>3. q.code = LdCode(a, q)
    BY <1>1, <1>5, <2>1 DEF FormA, LdCode, Slot, Ppc
  <2>4. CASE q.type = "IRELATIVE"
    <3>1. m = q
      BY <1>2, <2>4 DEF ppc_undo_prelink_rela, ppc_Word, ppc_Half, ppc_Low, ppc_Predicted,
         ppc_DtpRel, ppc_DtpRel16, ppc_TpRel, ppc_TpRel16
    <3> QED BY <2>1, <2>2, <2>3, <2>4, <3>1, SameLinked DEF AsLinked, FormA
  <2>5. CASE q.type = "RELATIVE"
    <3>1. m = Put(q, 4, 0)
      BY <1>2, <2>5 DEF ppc_undo_prelink_rela, ppc_Word, ppc_Half, ppc_Low, ppc_Predicted,
         ppc_DtpRel, ppc_DtpRel16, ppc_TpRel, ppc_TpRel16
    <3>2. Written(m, q) /\ m.mem = [width |-> 4, val |-> 0]
      BY <1>1, <3>1, PutWritten DEF Put, Relocs
    <3>3. Kept(m, q) /\ Frame(m, q) /\ m.addend = q.addend /\ m.code = q.code
            /\ Target(m) = Target(q) /\ m.type = q.type
      BY <3>2, WrittenKept DEF Target, Kept
    <3>4. AddrKin(a, m, o)
      BY <2>1, <2>5, <3>3 DEF AddrKin, InWord, Ppc, X86Like, X86_64
    <3>5. KinA(a, m, o)
      BY <1>5, <3>3, <3>4, KinAddr DEF Addr
    <3>6. LdVal(a, m) = LdVal(a, q) /\ ld_width(a, m) = ld_width(a, q)
            /\ LdCode(a, m) = LdCode(a, q)
      BY <1>5, <3>3, LinkedVal DEF Kept, Placed, LdCode, ppc64_Ds
    <3> QED BY <2>2, <2>3, <3>2, <3>3, <3>5, <3>6 DEF AsLinked
  <2> QED BY <1>5, <2>4, <2>5
<1>6. CASE q.type = "JMP_SLOT"
  <2>1. a = "ppc_bss" /\ ~ ppc_got(q)
    BY <1>6, PpcCode
  <2>2. m = [q EXCEPT !.code = Lazy]
    BY <1>2, <1>6, <2>1 DEF ppc_undo_prelink_rela, ppc_Word, ppc_Half, ppc_Low, ppc_Predicted,
       ppc_DtpRel, ppc_DtpRel16, ppc_TpRel, ppc_TpRel16
  <2>3. KinA(a, m, o) /\ Kept(m, q) /\ m.mem = q.mem /\ m.addend = q.addend /\ m.code = Lazy
    BY <1>6, <2>1, <2>2, CodeIs, CodeKin DEF Slot, ppc_got
  <2>4. q.mem = o.mem /\ m.type = q.type /\ m.class = o.class /\ LdCode(a, m) = Lazy
    BY <1>6, <2>1, <2>3 DEF KinA, SlotKin, Slot, Kept, Placed, LdCode
  <2>5. LdVal(a, m) = 0 /\ LdVal(a, o) = 0
    BY <1>1, <1>6, <2>1, <2>4 DEF LdVal, Addr, Slot, X86Like, X86_64, ppc64_Ds
  <2>6. ld_width(a, m) = ld_width(a, o)
    BY <1>1, <2>4, LdWidthSame
  <2> QED BY <2>3, <2>4, <2>5, <2>6 DEF AsLinked, FormA
<1>7. CASE q.type \in ppc_Word \union {"REL32", "DTPMOD32", "DTPREL32", "TPREL32"}
  <2>1. m = Put(q, 4, 0)
    BY <1>7, <1>2 DEF ppc_undo_prelink_rela, ppc_Word, ppc_Half, ppc_Low, ppc_Predicted,
       ppc_DtpRel, ppc_DtpRel16, ppc_TpRel, ppc_TpRel16
  <2>2. ld_width(a, q) = 4
    BY <1>1, <1>7 DEF Ppc, ld_class, ld_width, Slot, Tls, TpOff, DtpOff, DtpMod, s390_Half,
       s390_Dbl16, ppc_Half, ppc_Low, ppc_DtpRel16, ppc_DtpRel, ppc_TpRel16, ppc_TpRel,
       ppc64_Ds, ppc64_Higher, mips_Got, mips_Global, mips_Undefined, mips_Defined, mips_DtpMod,
       mips_DtpRel, mips_TpRel, Mips, ppc_Word, ppc_Half, ppc_Low, ppc_Predicted, ppc_DtpRel,
       ppc_DtpRel16, ppc_TpRel, ppc_TpRel16
  <2>3. q.type \notin Addr \union Insns \union Still \union ppc64_Ds \union Slot
          \union {"ADDR64", "PC24"}
    BY <1>7 DEF Addr, Insns, Still, ppc64_Ds, ppc_Predicted, sparc64_Insns, Slot, ppc_Word,
       ppc_Half, ppc_Low, ppc_Predicted, ppc_DtpRel, ppc_DtpRel16, ppc_TpRel, ppc_TpRel16
  <2>4. LdVal(a, q) = 0
    BY <1>1, <2>3, PlainVal DEF Ppc
  <2>5. q.code = LdCode(a, q)
    BY <1>1, <2>3 DEF KinA, FormA, LdCode, Ppc
  <2> QED BY <1>1, <2>1, <2>2, <2>3, <2>4, <2>5, PutLinked
<1>8. CASE q.type \in ppc_Half \union ppc_DtpRel16 \union ppc_TpRel16
  <2>1. m = Put(q, 2, 0)
    BY <1>8, <1>2 DEF ppc_undo_prelink_rela, ppc_Word, ppc_Half, ppc_Low, ppc_Predicted,
       ppc_DtpRel, ppc_DtpRel16, ppc_TpRel, ppc_TpRel16
  <2>2. ld_width(a, q) = 2
    BY <1>1, <1>8 DEF Ppc, ld_class, ld_width, Slot, Tls, TpOff, DtpOff, DtpMod, s390_Half,
       s390_Dbl16, ppc_Half, ppc_Low, ppc_DtpRel16, ppc_DtpRel, ppc_TpRel16, ppc_TpRel,
       ppc64_Ds, ppc64_Higher, mips_Got, mips_Global, mips_Undefined, mips_Defined, mips_DtpMod,
       mips_DtpRel, mips_TpRel, Mips, ppc_Word, ppc_Half, ppc_Low, ppc_Predicted, ppc_DtpRel,
       ppc_DtpRel16, ppc_TpRel, ppc_TpRel16
  <2>3. q.type \notin Addr \union Insns \union Still \union ppc64_Ds \union Slot
          \union {"ADDR64", "PC24"}
    BY <1>8 DEF Addr, Insns, Still, ppc64_Ds, ppc_Predicted, sparc64_Insns, Slot, ppc_Word,
       ppc_Half, ppc_Low, ppc_Predicted, ppc_DtpRel, ppc_DtpRel16, ppc_TpRel, ppc_TpRel16
  <2>4. LdVal(a, q) = 0
    BY <1>1, <2>3, PlainVal DEF Ppc
  <2>5. q.code = LdCode(a, q)
    BY <1>1, <2>3 DEF KinA, FormA, LdCode, Ppc
  <2> QED BY <1>1, <2>1, <2>2, <2>3, <2>4, <2>5, PutLinked
<1>9. CASE q.type \in {"ADDR24", "REL24", "ADDR14"} \union ppc_Predicted
  <2>1. m = Put(q, 4, Cleared(q.type, q.mem.val))
    BY <1>2, <1>9 DEF Cleared, ppc_undo_prelink_rela, ppc_Word, ppc_Half, ppc_Low,
       ppc_Predicted, ppc_DtpRel, ppc_DtpRel16, ppc_TpRel, ppc_TpRel16
  <2>2. q.type \in Insns
    BY <1>9 DEF Insns
  <2> QED BY <1>1, <2>1, <2>2, InsnLinked
<1> QED BY <1>3, <1>4, <1>5, <1>6, <1>7, <1>8, <1>9 DEF ppc_DtpRel, ppc_TpRel

(* With DT_PPC_GOT the words of the PLT come back from the second word of  *)
(* the GOT.                                                                *)
LEMMA PpcSlotUndo ==
  ASSUME NEW a, a = "ppc", NEW q, NEW o, KinA(a, q, o), FormA(a, o), q.got = Plt(q),
             q.type = "JMP_SLOT",
         NEW m, m = Put(q, 4, q.got + 4 * q.slot)
  PROVE  Kept(m, q) /\ KinA(a, m, o) /\ AsLinked(a, m)
<1>1. /\ q.slot \in Int /\ q.base \in Int /\ q.class = 4 /\ q.got \in Int /\ a \in Names
  BY KinFacts DEF Names, Ppc, ld_class
<1>2. ld_width(a, q) = 4
  BY <1>1, SlotWidth DEF Slot
<1>3. LdVal(a, q) = q.got + 4 * q.slot
  BY <1>1 DEF LdVal, Addr, Slot, X86Like, X86_64, ppc64_Ds, ld_plt_entry
<1>4. q.got + 4 * q.slot \in Int
  BY <1>1
<1>5. q.type \notin Addr \union Insns \union Still \union ppc64_Ds
  BY DEF Addr, Insns, Still, ppc64_Ds, ppc_Predicted, sparc64_Insns
<1>6. q.code = LdCode(a, q)
  BY DEF KinA, SlotKin, FormA, LdCode, Slot
<1> QED BY <1>1, <1>2, <1>3, <1>4, <1>5, <1>6, PutLinked

-----------------------------------------------------------------------------
(* ppc64.                                                                  *)

(* ppc64_adjust_rela: moving an object keeps what undoing needs, and one   *)
(* that ld made is as ld would have made it.                               *)
LEMMA Ppc64Move ==
  ASSUME arch = "ppc64", NEW q, NEW o, KinA(arch, q, o), FormA(arch, o), NEW b \in Nat,
         NEW m, m = AdjustRel(arch, q, b - q.base), NEW p, p = Relocated(q, b)
  PROVE  /\ KinA(arch, p, o) /\ Alike(m, q)
         /\ FormA(arch, q) => p.mem = [width |-> ld_width(arch, p), val |-> LdVal(arch, p)]
<1> DEFINE d == b - q.base
           v == q.addend + d
           w == q.mem.val + d
           n == [q EXCEPT !.addend = v]
<1>1. /\ q \in Relocs /\ d \in Int /\ v \in Int /\ w \in Int
      /\ q.addend \in Int /\ q.base \in Nat /\ q.slot \in Int /\ q.mem.val \in Int
      /\ q.class = 8 /\ LdType(arch, q) /\ q.type = o.type /\ arch \in Names \ RelArchs
  BY KinFacts DEF ld_class, Names, RelArchs, Mips, Ppc
<1>2. m = ppc64_adjust_rela(q, d)
  BY DEF AdjustRel, X86_64, Ppc, Mips
<1>3. Alike(n, q) /\ n.mem = q.mem /\ n.addend = v /\ n \in Relocs
  BY <1>1, AddendFacts DEF Alike
<1> HIDE DEF d, v, w
<1>4. CASE q.type \in {"RELATIVE", "IRELATIVE"}
  <2>1. q.addend = q.base + 44 /\ q.mem = [width |-> 8, val |-> q.base + 44] /\ q.code = o.code
    BY <1>1, <1>4 DEF KinA, AddrKin, Addr, Target, InWord
  <2>2. m = Put(n, 8, w)
    BY <1>2, <1>4, <2>1 DEF ppc64_adjust_rela, v, w
  <2> HIDE DEF n
  <2>3. Alike(m, n) /\ m.mem = [width |-> 8, val |-> w] /\ m.addend = n.addend
    BY <1>1, <1>3, <2>2, PutIs
  <2>4. Alike(m, q)
    BY <1>3, <2>3 DEF Alike, Placed
  <2>5. Frame(p, q) /\ p.base = b /\ p.addend = m.addend /\ p.mem = m.mem
    BY <1>1, <2>4, RelocatedFacts
  <2>6. p.addend = b + 44 /\ p.mem = [width |-> 8, val |-> b + 44] /\ p.code = q.code
          /\ p.class = 8
    BY <1>1, <1>3, <2>1, <2>3, <2>5 DEF d, v, w, Frame, Placed
  <2>7. AddrKin(arch, p, o) /\ AddrKin(arch, p, q) /\ InWord(arch, q.type)
    BY <1>4, <2>1, <2>5, <2>6 DEF AddrKin, Target, InWord, Ppc
  <2> QED BY <1>1, <1>4, <2>4, <2>5, <2>7, KinAddr, MovedAddr DEF Addr
<1>5. CASE q.type = "JMP_IREL"
  <2>1. q.addend = q.base + 44 /\ q.code = o.code
    BY <1>5 DEF KinA, AddrKin, Addr, Target
  <2>2. m = n
    BY <1>2, <1>5 DEF ppc64_adjust_rela, v
  <2>3. Alike(m, q) /\ m.mem = q.mem /\ m.addend = v
    BY <1>3, <2>2
  <2>4. Frame(p, q) /\ p.base = b /\ p.addend = m.addend /\ p.mem = m.mem
    BY <1>1, <2>3, RelocatedFacts
  <2>5. p.addend = b + 44 /\ p.code = q.code /\ p.type = q.type
    BY <1>1, <2>1, <2>3, <2>4 DEF d, v, Frame
  <2>6. AddrKin(arch, p, o) /\ AddrKin(arch, p, q)
    BY <1>5, <2>1, <2>3, <2>4, <2>5 DEF AddrKin, Target, InWord, Ppc, X86Like, X86_64
  <2> QED BY <1>1, <1>5, <2>3, <2>4, <2>6, KinAddr, MovedAddr DEF Addr
<1>6. CASE q.type = "JMP_SLOT"
  <2>1. m = q
    BY <1>2, <1>6 DEF ppc64_adjust_rela
  <2>2. Alike(m, q) /\ m.mem = q.mem /\ m.addend = q.addend
    BY <1>1, <2>1 DEF Alike, Placed
  <2>3. Frame(p, q) /\ p.base = b /\ p.addend = m.addend /\ p.mem = m.mem
    BY <1>1, <2>2, RelocatedFacts
  <2>4. SlotKin(arch, p, o)
    BY <1>6, <2>1, <2>2, <2>3 DEF KinA, SlotKin, Slot, Frame
  <2>5. ASSUME FormA(arch, q)
               PROVE p.mem = [width |-> ld_width(arch, p), val |-> LdVal(arch, p)]
    <3>1. p.type = q.type /\ p.class = q.class
      BY <2>3 DEF Frame, Placed
    <3>2. ld_width(arch, p) = ld_width(arch, q)
      BY <3>1, LdWidthSame
    <3>3. LdVal(arch, q) = 0 /\ LdVal(arch, p) = 0
      BY <1>6, <2>1, <3>1 DEF LdVal, Addr, Slot, ppc64_Ds, X86Like, X86_64
    <3> QED BY <2>2, <2>3, <2>5, <3>2, <3>3 DEF FormA
  <2> QED BY <1>6, <2>2, <2>3, <2>4, <2>5, KinSlot DEF Frame, Slot
<1>7. CASE q.type \notin {"RELATIVE", "IRELATIVE", "JMP_IREL", "JMP_SLOT"}
  <2>1. m = q
    BY <1>2, <1>7 DEF ppc64_adjust_rela
  <2>2. q.type # "JUMP_SLOT"
    BY <1>1 DEF LdType, ld_exec_types, ld_types, X86_64, Mips, Ppc, DtpMod, DtpOff, Predicted,
       ppc64_Word, ppc_Half, ppc_Low, ppc64_Ds, ppc64_Higher, ppc_Predicted, ppc64_DtpRel,
       ppc_DtpRel16, ppc64_TpRel, ppc_TpRel16
  <2>3. q.type \notin Addr \union Slot
    BY <1>7, <2>2 DEF Addr, Slot
  <2> QED BY <1>1, <2>1, <2>3, MoveOther DEF d
<1> QED BY <1>4, <1>5, <1>6, <1>7

(* ppc64_prelink_rela keeps what undoing needs.                            *)
LEMMA Ppc64Prelink ==
  ASSUME NEW a, a = "ppc64", NEW q, NEW o, KinA(a, q, o), FormA(a, o), NEW s \in Syms,
         NEW m, m = PrelinkRel(a, q, s)
  PROVE  KinA(a, m, o) /\ Kept(m, q)
<1>1. /\ q.addend \in Int /\ q.base \in Int /\ q.off \in Int /\ q.slot \in Int
           /\ q.class \in Nat
      /\ q.mem.val \in Int /\ s.val \in Int /\ s.tlsoffset \in Int /\ q \in Relocs
           /\ LdType(a, q)
      /\ q.class = ld_class(a) /\ q.type = o.type
  BY KinFacts DEF Syms
<1>2. m = ppc64_prelink_rela(q, s)
  BY DEF PrelinkRel, X86_64, Ppc, Mips
<1>3. /\ q.type \in {"NONE", "RELATIVE", "IRELATIVE", "JMP_IREL", "COPY", "JMP_SLOT", "ADDR32",
                     "UADDR32", "ADDR24", "ADDR14", "REL24", "REL32", "REL64", "DTPMOD64"}
                   \union ppc64_Word \union ppc_Half \union ppc64_Ds \union ppc64_Higher
                     \union ppc_Predicted
                   \union ppc64_DtpRel \union ppc64_TpRel
      /\ q.exec => q.type # "DTPMOD64"
      /\ ~ q.exec => q.type # "COPY"
  BY <1>1 DEF LdType, ld_exec_types, ld_types, X86_64, Mips, Ppc, DtpMod, DtpOff, Predicted,
     ppc64_Word, ppc_Half, ppc_Low, ppc64_Ds, ppc64_Higher, ppc_Predicted, ppc64_DtpRel,
     ppc_DtpRel16, ppc64_TpRel, ppc_TpRel16
<1>4. CASE q.type \in {"NONE", "COPY", "IRELATIVE", "JMP_IREL", "DTPMOD64"}
  <2>1. m = q
    BY <1>4, <1>2, <1>3 DEF ppc64_prelink_rela, ppc64_Word, ppc_Half, ppc_Low, ppc64_Ds,
       ppc64_Higher, ppc_Predicted, ppc64_DtpRel, ppc_DtpRel16, ppc64_TpRel, ppc_TpRel16
  <2> QED BY <2>1, SameKin
<1>5. CASE q.type = "RELATIVE"
  <2>1. m = Put(q, 8, q.addend)
    BY <1>5, <1>2 DEF ppc64_prelink_rela, ppc64_Word, ppc_Half, ppc_Low, ppc64_Ds, ppc64_Higher,
       ppc_Predicted, ppc64_DtpRel, ppc_DtpRel16, ppc64_TpRel, ppc_TpRel16
  <2>2. Written(m, q) /\ m.mem = [width |-> 8, val |-> q.addend]
    BY <1>1, <2>1, PutIs
  <2>3. Kept(m, q) /\ Frame(m, q) /\ m.addend = q.addend /\ m.code = q.code
          /\ Target(m) = Target(q) /\ m.type = q.type
        /\ m.class = 8
    BY <1>1, <2>2, WrittenKept DEF Target, Kept, Placed, ld_class
  <2>4. AddrKin(a, m, o)
    BY <1>5, <2>2, <2>3 DEF KinA, AddrKin, Addr, InWord, Ppc, X86Like, X86_64
  <2> QED BY <1>5, <2>3, <2>4, KinAddr DEF Addr
<1>6. CASE q.type \in ppc64_Word
  <2>1. m = Put(q, 8, s.val + q.addend)
    BY <1>6, <1>2, <1>3 DEF ppc64_prelink_rela, ppc64_Word, ppc_Half, ppc_Low, ppc64_Ds,
       ppc64_Higher, ppc_Predicted, ppc64_DtpRel, ppc_DtpRel16, ppc64_TpRel, ppc_TpRel16
  <2>2. s.val + q.addend \in Int
    BY <1>1 DEF P
  <2>3. q.type \notin Addr \union Insns \union Still \union Slot \union Halves
    BY <1>6 DEF Addr, Slot, Insns, Still, ppc_Predicted, sparc64_Insns, Halves, ppc_Half,
       ppc_Low, ppc_DtpRel16, ppc_TpRel16, ppc64_Word, ppc_Half, ppc_Low, ppc64_Ds,
       ppc64_Higher, ppc_Predicted, ppc64_DtpRel, ppc_DtpRel16, ppc64_TpRel, ppc_TpRel16
  <2> QED BY <1>1, <2>1, <2>2, <2>3, PutKin
<1>7. CASE q.type = "DTPREL64"
  <2>1. m = Put(q, 8, (s.val + q.addend) - 32768)
    BY <1>7, <1>2, <1>3 DEF ppc64_prelink_rela, ppc64_Word, ppc_Half, ppc_Low, ppc64_Ds,
       ppc64_Higher, ppc_Predicted, ppc64_DtpRel, ppc_DtpRel16, ppc64_TpRel, ppc_TpRel16,
       ppc64_dtprel, ppc_dtprel, ppc64_reloc_size
  <2>2. (s.val + q.addend) - 32768 \in Int
    BY <1>1 DEF P
  <2>3. q.type \notin Addr \union Insns \union Still \union Slot \union Halves
    BY <1>7 DEF Addr, Slot, Insns, Still, ppc_Predicted, sparc64_Insns, Halves, ppc_Half,
       ppc_Low, ppc_DtpRel16, ppc_TpRel16, ppc64_Word, ppc_Half, ppc_Low, ppc64_Ds,
       ppc64_Higher, ppc_Predicted, ppc64_DtpRel, ppc_DtpRel16, ppc64_TpRel, ppc_TpRel16,
       ppc64_dtprel, ppc_dtprel, ppc64_reloc_size
  <2> QED BY <1>1, <2>1, <2>2, <2>3, PutKin
<1>8. CASE q.type = "TPREL64"
  <2> DEFINE x == (s.val + q.addend) + s.tlsoffset - 28672
  <2>1. m \in {q, Put(q, 8, x)}
    BY <1>8, <1>2, <1>3 DEF ppc64_prelink_rela, ppc64_Word, ppc_Half, ppc_Low, ppc64_Ds,
       ppc64_Higher, ppc_Predicted, ppc64_DtpRel, ppc_DtpRel16, ppc64_TpRel, ppc_TpRel16,
       ppc64_tprel, ppc_tprel, ppc64_reloc_size
  <2>2. x \in Int
    BY <1>1 DEF P
  <2> HIDE DEF x
  <2>3. q.type \notin Addr \union Insns \union Still \union Slot \union Halves
    BY <1>8 DEF Addr, Slot, Insns, Still, ppc_Predicted, sparc64_Insns, Halves, ppc_Half,
       ppc_Low, ppc_DtpRel16, ppc_TpRel16, ppc64_Word, ppc_Half, ppc_Low, ppc64_Ds,
       ppc64_Higher, ppc_Predicted, ppc64_DtpRel, ppc_DtpRel16, ppc64_TpRel, ppc_TpRel16,
       ppc64_tprel, ppc_tprel, ppc64_reloc_size
  <2> QED BY <1>1, <2>1, <2>2, <2>3, PutKin
<1>9. CASE q.type \in ppc_DtpRel16 \union ppc_TpRel16 \union ppc_Half
  <2> DEFINE x == s.val + q.addend
             y == x - 32768
             z == x + s.tlsoffset - 28672
  <2>1. x \in Int /\ y \in Int /\ z \in Int
    BY <1>1
  <2>2. CASE q.type \in ppc_DtpRel16
    <3>1. m \in {Put(q, 2, Lo16(y)), Put(q, 2, Hi16(y)), Put(q, 2, Hi16(x))}
      BY <1>2, <2>2 DEF ppc64_prelink_rela, ppc64_dtprel, ppc_dtprel, ppc64_reloc_size,
         ppc64_Word, ppc_Half, ppc_Low, ppc64_Ds, ppc64_Higher, ppc_Predicted, ppc64_DtpRel,
         ppc_DtpRel16, ppc64_TpRel, ppc_TpRel16
    <3> HIDE DEF x, y
    <3> QED BY <2>1, <2>2, <3>1, HalfParts, HalfKin DEF Halves
  <2>3. CASE q.type \in ppc_TpRel16
    <3>1. m \in {q, Put(q, 2, Lo16(z)), Put(q, 2, Hi16(z)), Put(q, 2, Ha16(z))}
      BY <1>2, <2>3 DEF ppc64_prelink_rela, ppc64_tprel, ppc_tprel, ppc64_reloc_size,
         ppc64_Word, ppc_Half, ppc_Low, ppc64_Ds, ppc64_Higher, ppc_Predicted, ppc64_DtpRel,
         ppc_DtpRel16, ppc64_TpRel, ppc_TpRel16
    <3> HIDE DEF z
    <3> QED BY <2>1, <2>3, <3>1, HalfParts, HalfKin, SameKin DEF Halves
  <2>4. CASE q.type \in ppc_Half
    <3>1. m \in {Put(q, 2, Lo16(x)), Put(q, 2, Hi16(x)), Put(q, 2, Ha16(x))}
      BY <1>2, <2>4 DEF ppc64_prelink_rela, ppc_half, ppc64_Word, ppc_Half, ppc_Low, ppc64_Ds,
         ppc64_Higher, ppc_Predicted, ppc64_DtpRel, ppc_DtpRel16, ppc64_TpRel, ppc_TpRel16
    <3> HIDE DEF x
    <3> QED BY <2>1, <2>4, <3>1, HalfParts, HalfKin DEF Halves
  <2> QED BY <1>9, <2>2, <2>3, <2>4
<1>10. CASE q.type \in {"ADDR24", "REL24"}
  <2> DEFINE x == IF q.type = "ADDR24" THEN s.val + q.addend ELSE (s.val + q.addend) - P(q)
             v == Insert(q.mem.val, 2, 26, x)
  <2>1. m = Put(q, 4, v)
    BY <1>10, <1>2 DEF ppc64_prelink_rela, ppc64_Word, ppc_Half, ppc_Low, ppc64_Ds,
       ppc64_Higher, ppc_Predicted, ppc64_DtpRel, ppc_DtpRel16, ppc64_TpRel, ppc_TpRel16
  <2>2. x \in Int
    BY <1>1 DEF P
  <2> HIDE DEF x
  <2>3. v \in Int /\ Insert(v, 2, 26, 0) = Insert(q.mem.val, 2, 26, 0)
    BY <1>1, <2>2, InsertCleared26
  <2>4. Cleared(q.type, v) = Cleared(q.type, q.mem.val) /\ q.type \in Insns
    BY <1>10, <2>3 DEF Cleared, Insns, ppc_Predicted
  <2> HIDE DEF v
  <2> QED BY <2>1, <2>3, <2>4, InsnKin
<1>11. CASE q.type = "ADDR14"
  <2> DEFINE x == s.val + q.addend
             v == ppc_addr14(q.mem.val, x)
  <2>1. m = Put(q, 4, v)
    BY <1>11, <1>2 DEF ppc64_prelink_rela, ppc64_Word, ppc_Half, ppc_Low, ppc64_Ds,
       ppc64_Higher, ppc_Predicted, ppc64_DtpRel, ppc_DtpRel16, ppc64_TpRel, ppc_TpRel16
  <2>2. x \in Int
    BY <1>1
  <2> HIDE DEF x
  <2>3. v \in Int /\ ppc_addr14(v, 0) = ppc_addr14(q.mem.val, 0)
    BY <1>1, <2>2, InsertCleared16 DEF ppc_addr14
  <2>4. Cleared(q.type, v) = Cleared(q.type, q.mem.val) /\ q.type \in Insns
    BY <1>11, <2>3 DEF Cleared, Insns, ppc_Predicted
  <2> HIDE DEF v
  <2> QED BY <2>1, <2>3, <2>4, InsnKin
<1>12. CASE q.type \in ppc_Predicted
  <2> DEFINE x == s.val + q.addend
             t == q.type = "ADDR14_BRTAKEN"
             v == ppc_addr14_br(q.mem.val, x, t)
  <2>1. m = Put(q, 4, v)
    BY <1>12, <1>2 DEF ppc64_prelink_rela, ppc64_Word, ppc_Half, ppc_Low, ppc64_Ds,
       ppc64_Higher, ppc_Predicted, ppc64_DtpRel, ppc_DtpRel16, ppc64_TpRel, ppc_TpRel16
  <2>2. x \in Int
    BY <1>1
  <2> HIDE DEF x
  <2>3. v \in Int /\ ppc_addr14_br(v, 0, FALSE) = ppc_addr14_br(q.mem.val, 0, FALSE)
    <3>1. CASE t
      BY <1>1, <2>2, <3>1, PredictedCleared DEF ppc_addr14_br, ppc_addr14
    <3>2. CASE ~ t
      BY <1>1, <2>2, <3>2, PredictedCleared DEF ppc_addr14_br, ppc_addr14
    <3> QED BY <3>1, <3>2
  <2>4. Cleared(q.type, v) = Cleared(q.type, q.mem.val) /\ q.type \in Insns
    BY <1>12, <2>3 DEF Cleared, Insns, ppc_Predicted
  <2> HIDE DEF v
  <2> QED BY <2>1, <2>3, <2>4, InsnKin
<1>13. CASE q.type = "JMP_SLOT"
  <2> DEFINE x == s.val + q.addend
             y == Opd(x)
  <2>1. m = Put(q, 24, y)
    BY <1>13, <1>2 DEF ppc64_prelink_rela, ppc64_fixup_plt, ppc64_Word, ppc_Half, ppc_Low,
       ppc64_Ds, ppc64_Higher, ppc_Predicted, ppc64_DtpRel, ppc_DtpRel16, ppc64_TpRel,
       ppc_TpRel16
  <2>2. y \in Int
    BY <1>1 DEF Opd
  <2> HIDE DEF y
  <2>3. q.type \notin Addr \union Insns \union Still \union Halves
    BY <1>13 DEF Addr, Insns, Still, ppc_Predicted, sparc64_Insns, Halves, ppc_Half, ppc_Low,
       ppc_DtpRel16, ppc_TpRel16
  <2> QED BY <2>1, <2>2, <2>3, PutKin
<1>14. CASE q.type = "REL32"
  <2>1. m = Put(q, 4, (s.val + q.addend) - P(q))
    BY <1>14, <1>2, <1>3 DEF ppc64_prelink_rela, ppc64_Word, ppc_Half, ppc_Low, ppc64_Ds,
       ppc64_Higher, ppc_Predicted, ppc64_DtpRel, ppc_DtpRel16, ppc64_TpRel, ppc_TpRel16
  <2>2. (s.val + q.addend) - P(q) \in Int
    BY <1>1 DEF P
  <2>3. q.type \notin Addr \union Insns \union Still \union Slot \union Halves
    BY <1>14 DEF Addr, Slot, Insns, Still, ppc_Predicted, sparc64_Insns, Halves, ppc_Half,
       ppc_Low, ppc_DtpRel16, ppc_TpRel16, ppc64_Word, ppc_Half, ppc_Low, ppc64_Ds,
       ppc64_Higher, ppc_Predicted, ppc64_DtpRel, ppc_DtpRel16, ppc64_TpRel, ppc_TpRel16
  <2> QED BY <1>1, <2>1, <2>2, <2>3, PutKin
<1>15. CASE q.type = "REL64"
  <2>1. m = Put(q, 8, (s.val + q.addend) - P(q))
    BY <1>15, <1>2, <1>3 DEF ppc64_prelink_rela, ppc64_Word, ppc_Half, ppc_Low, ppc64_Ds,
       ppc64_Higher, ppc_Predicted, ppc64_DtpRel, ppc_DtpRel16, ppc64_TpRel, ppc_TpRel16
  <2>2. (s.val + q.addend) - P(q) \in Int
    BY <1>1 DEF P
  <2>3. q.type \notin Addr \union Insns \union Still \union Slot \union Halves
    BY <1>15 DEF Addr, Slot, Insns, Still, ppc_Predicted, sparc64_Insns, Halves, ppc_Half,
       ppc_Low, ppc_DtpRel16, ppc_TpRel16, ppc64_Word, ppc_Half, ppc_Low, ppc64_Ds,
       ppc64_Higher, ppc_Predicted, ppc64_DtpRel, ppc_DtpRel16, ppc64_TpRel, ppc_TpRel16
  <2> QED BY <1>1, <2>1, <2>2, <2>3, PutKin
<1>16. CASE q.type \in {"ADDR32", "UADDR32"}
  <2>1. m = Put(q, 4, s.val + q.addend)
    BY <1>16, <1>2, <1>3 DEF ppc64_prelink_rela, ppc64_Word, ppc_Half, ppc_Low, ppc64_Ds,
       ppc64_Higher, ppc_Predicted, ppc64_DtpRel, ppc_DtpRel16, ppc64_TpRel, ppc_TpRel16
  <2>2. s.val + q.addend \in Int
    BY <1>1 DEF P
  <2>3. q.type \notin Addr \union Insns \union Still \union Slot \union Halves
    BY <1>16 DEF Addr, Slot, Insns, Still, ppc_Predicted, sparc64_Insns, Halves, ppc_Half,
       ppc_Low, ppc_DtpRel16, ppc_TpRel16, ppc64_Word, ppc_Half, ppc_Low, ppc64_Ds,
       ppc64_Higher, ppc_Predicted, ppc64_DtpRel, ppc_DtpRel16, ppc64_TpRel, ppc_TpRel16
  <2> QED BY <1>1, <2>1, <2>2, <2>3, PutKin
<1>17. CASE q.type \in ppc64_Higher
  <2>1. m = Put(q, 2, 0)
    BY <1>17, <1>2, <1>3 DEF ppc64_prelink_rela, ppc64_Word, ppc_Half, ppc_Low, ppc64_Ds,
       ppc64_Higher, ppc_Predicted, ppc64_DtpRel, ppc_DtpRel16, ppc64_TpRel, ppc_TpRel16,
       ppc64_higher
  <2>2. 0 \in Int
    BY <1>1 DEF P
  <2>3. q.type \notin Addr \union Insns \union Still \union Slot \union Halves
    BY <1>17 DEF Addr, Slot, Insns, Still, ppc_Predicted, sparc64_Insns, Halves, ppc_Half,
       ppc_Low, ppc_DtpRel16, ppc_TpRel16, ppc64_Word, ppc_Half, ppc_Low, ppc64_Ds,
       ppc64_Higher, ppc_Predicted, ppc64_DtpRel, ppc_DtpRel16, ppc64_TpRel, ppc_TpRel16,
       ppc64_higher
  <2> QED BY <1>1, <2>1, <2>2, <2>3, PutKin
<1>18. CASE q.type \in ppc64_Ds
  <2> DEFINE y == s.val + q.addend
             x == Field(y, 2, 16)
  <2>1. m = Put(q, 2, x)
    BY <1>18, <1>2, <1>3 DEF ppc64_prelink_rela, ppc64_Word, ppc_Half, ppc_Low, ppc64_Ds,
       ppc64_Higher, ppc_Predicted, ppc64_DtpRel, ppc_DtpRel16, ppc64_TpRel, ppc_TpRel16
  <2>2. x \in Int
    BY <1>1, SMT DEF Field
  <2> HIDE DEF x
  <2>3. q.type \notin Addr \union Insns \union Still \union Slot \union Halves
    BY <1>18 DEF Addr, Slot, Insns, Still, ppc_Predicted, sparc64_Insns, Halves, ppc_Half,
       ppc_Low, ppc_DtpRel16, ppc_TpRel16, ppc64_Word, ppc_Half, ppc_Low, ppc64_Ds,
       ppc64_Higher, ppc_Predicted, ppc64_DtpRel, ppc_DtpRel16, ppc64_TpRel, ppc_TpRel16
  <2> QED BY <1>1, <2>1, <2>2, <2>3, PutKin
<1> QED BY <1>3, <1>4, <1>5, <1>6, <1>7, <1>8, <1>9, <1>10, <1>11, <1>12, <1>13, <1>14, <1>15,
           <1>16, <1>17, <1>18 DEF ppc64_DtpRel, ppc64_TpRel

(* ppc64_undo_prelink_rela restores the word.                              *)
LEMMA Ppc64Undo ==
  ASSUME NEW a, a = "ppc64", NEW q, NEW o, KinA(a, q, o), FormA(a, o),
         NEW m, m = UndoRel(a, q)
  PROVE  Kept(m, q) /\ KinA(a, m, o) /\ AsLinked(a, m)
<1>1. /\ q.slot \in Int /\ q.base \in Int /\ q.class \in Nat /\ q.class = ld_class(a)
           /\ q.got \in Int
      /\ q.addend \in Int /\ q.inGot = (q.type \in Slot \union {"GLOB_DAT"}) /\ LdType(a, q)
           /\ a \in Names
      /\ q \in Relocs /\ q.type = o.type
  BY KinFacts DEF Names, X86_64, Ppc
<1>2. m = ppc64_undo_prelink_rela(q)
  BY DEF UndoRel, X86_64, Ppc, Mips, RelArchs
<1>3. /\ q.type \in {"NONE", "RELATIVE", "IRELATIVE", "JMP_IREL", "COPY", "JMP_SLOT", "ADDR32",
                     "UADDR32", "ADDR24", "ADDR14", "REL24", "REL32", "REL64", "DTPMOD64"}
                   \union ppc64_Word \union ppc_Half \union ppc64_Ds \union ppc64_Higher
                     \union ppc_Predicted
                   \union ppc64_DtpRel \union ppc64_TpRel
      /\ ~ q.exec => q.type # "COPY"
  BY <1>1 DEF LdType, ld_exec_types, ld_types, X86_64, Mips, Ppc, DtpMod, DtpOff, Predicted,
     ppc64_Word, ppc_Half, ppc_Low, ppc64_Ds, ppc64_Higher, ppc_Predicted, ppc64_DtpRel,
     ppc_DtpRel16, ppc64_TpRel, ppc_TpRel16
<1>4. CASE q.type \in {"NONE", "COPY"}
  <2>0. ppc64_reloc_size(q.type) # 2
    BY <1>4 DEF ppc64_reloc_size, ppc64_Word, ppc_Half, ppc_Low, ppc64_Ds, ppc64_Higher,
       ppc_Predicted, ppc64_DtpRel, ppc_DtpRel16, ppc64_TpRel, ppc_TpRel16
  <2>1. m = q
    BY <1>4, <1>2, <1>3, <2>0 DEF ppc64_undo_prelink_rela, ppc64_Word, ppc_Half, ppc_Low,
       ppc64_Ds, ppc64_Higher, ppc_Predicted, ppc64_DtpRel, ppc_DtpRel16, ppc64_TpRel,
       ppc_TpRel16
  <2> QED BY <1>1, <1>4, <2>1, StillLinked, SameLinked DEF Still
<1>5. CASE q.type \in {"RELATIVE", "IRELATIVE"}
  <2>0. ppc64_reloc_size(q.type) # 2
    BY <1>5 DEF ppc64_reloc_size, ppc64_Word, ppc_Half, ppc_Low, ppc64_Ds, ppc64_Higher,
       ppc_Predicted, ppc64_DtpRel, ppc_DtpRel16, ppc64_TpRel, ppc_TpRel16
  <2>1. q.addend = Target(q) /\ q.code = o.code
    BY <1>5 DEF KinA, AddrKin, Addr
  <2>2. LdVal(a, q) = Target(q) /\ ld_width(a, q) = 8
    <3>1. LdVal(a, q) = Target(q)
      BY <1>1, <1>5 DEF LdVal, Addr, Slot, InWord, ppc64_Ds
    <3>2. q.class = 8
      BY <1>1 DEF ld_class
    <3> QED BY <1>1, <1>5, <3>1, <3>2, AddrWidth
  <2>3. q.code = LdCode(a, q)
    BY <1>1, <1>5, <2>1 DEF FormA, LdCode, Slot
  <2>4. m = Put(q, 8, q.addend)
    BY <1>2, <1>5, <2>0 DEF ppc64_undo_prelink_rela, ppc64_Word, ppc_Half, ppc_Low, ppc64_Ds,
       ppc64_Higher, ppc_Predicted, ppc64_DtpRel, ppc_DtpRel16, ppc64_TpRel, ppc_TpRel16
  <2>5. Written(m, q) /\ m.mem = [width |-> 8, val |-> Target(q)]
    BY <1>1, <2>1, <2>4, PutIs
  <2>6. Kept(m, q) /\ Frame(m, q) /\ m.addend = q.addend /\ m.code = q.code
          /\ Target(m) = Target(q) /\ m.type = q.type
        /\ m.class = 8
    BY <1>1, <2>5, WrittenKept DEF Target, Kept, Placed, ld_class
  <2>7. AddrKin(a, m, o)
    BY <2>1, <2>5, <2>6 DEF AddrKin, InWord, Ppc
  <2>8. KinA(a, m, o)
    BY <1>5, <2>6, <2>7, KinAddr DEF Addr
  <2>9. LdVal(a, m) = LdVal(a, q) /\ ld_width(a, m) = ld_width(a, q)
          /\ LdCode(a, m) = LdCode(a, q)
    BY <1>5, <2>6, LinkedVal DEF Kept, Placed, LdCode, ppc64_Ds
  <2> QED BY <2>2, <2>3, <2>5, <2>6, <2>8, <2>9 DEF AsLinked
<1>6. CASE q.type = "JMP_IREL"
  <2>1. q.addend = Target(q) /\ q.code = o.code
    BY <1>6 DEF KinA, AddrKin, Addr
  <2>2. LdVal(a, q) = 0 /\ ld_width(a, q) = 24
    <3>1. LdVal(a, q) = 0
      BY <1>1, <1>6 DEF LdVal, Addr, Slot, InWord, ppc64_Ds, X86Like, X86_64
    <3>2. ld_width(a, q) = 24
      BY <1>6 DEF ld_width, Slot, Tls, TpOff, DtpOff, DtpMod, s390_Half, s390_Dbl16, ppc_Half,
         ppc_Low, ppc_DtpRel16, ppc_DtpRel, ppc_TpRel16, ppc_TpRel, ppc64_Ds, ppc64_Higher,
         mips_Got, mips_Global, mips_Undefined, mips_Defined, mips_DtpMod, mips_DtpRel,
         mips_TpRel, Mips
    <3> QED BY <3>1, <3>2
  <2>3. q.code = LdCode(a, q)
    BY <1>1, <1>6, <2>1 DEF FormA, LdCode, Slot
  <2>4. m = Put(q, 24, 0)
    BY <1>2, <1>6 DEF ppc64_undo_prelink_rela, ppc64_reloc_size, ppc64_Word, ppc_Half, ppc_Low,
       ppc64_Ds, ppc64_Higher, ppc_Predicted, ppc64_DtpRel, ppc_DtpRel16, ppc64_TpRel,
       ppc_TpRel16
  <2>5. Written(m, q) /\ m.mem = [width |-> 24, val |-> 0]
    BY <1>1, <2>4, PutIs
  <2>6. Kept(m, q) /\ Frame(m, q) /\ m.addend = q.addend /\ m.code = q.code
          /\ Target(m) = Target(q) /\ m.type = q.type
    BY <1>1, <2>5, WrittenKept DEF Target, Kept
  <2>7. AddrKin(a, m, o)
    BY <1>6, <2>1, <2>5, <2>6 DEF AddrKin, InWord, Ppc, X86Like, X86_64
  <2>8. KinA(a, m, o)
    BY <1>6, <2>6, <2>7, KinAddr DEF Addr
  <2>9. LdVal(a, m) = LdVal(a, q) /\ ld_width(a, m) = ld_width(a, q)
          /\ LdCode(a, m) = LdCode(a, q)
    BY <1>6, <2>6, LinkedVal DEF Kept, Placed, LdCode, ppc64_Ds
  <2> QED BY <2>2, <2>3, <2>5, <2>6, <2>8, <2>9 DEF AsLinked
<1>7. CASE q.type = "JMP_SLOT"
  <2>1. m = Put(q, 24, 0)
    BY <1>2, <1>7 DEF ppc64_undo_prelink_rela, ppc64_reloc_size, ppc64_Word, ppc_Half, ppc_Low,
       ppc64_Ds, ppc64_Higher, ppc_Predicted, ppc64_DtpRel, ppc_DtpRel16, ppc64_TpRel,
       ppc_TpRel16
  <2>2. ld_width(a, q) = 24
    BY <1>7 DEF ld_width, Slot, Tls, TpOff, DtpOff, DtpMod, s390_Half, s390_Dbl16, ppc_Half,
       ppc_Low, ppc_DtpRel16, ppc_DtpRel, ppc_TpRel16, ppc_TpRel, ppc64_Ds, ppc64_Higher,
       mips_Got, mips_Global, mips_Undefined, mips_Defined, mips_DtpMod, mips_DtpRel,
       mips_TpRel, Mips
  <2>3. LdVal(a, q) = 0
    BY <1>7 DEF LdVal, Addr, Slot, X86Like, X86_64, ppc64_Ds
  <2>4. q.type \notin Addr \union Insns \union Still \union ppc64_Ds
    BY <1>7 DEF Addr, Insns, Still, ppc64_Ds, ppc_Predicted, sparc64_Insns
  <2>5. q.code = LdCode(a, q)
    BY <1>1, <1>7 DEF KinA, SlotKin, FormA, LdCode, Slot
  <2> QED BY <1>1, <2>1, <2>2, <2>3, <2>4, <2>5, PutLinked
<1>8. CASE q.type = "ADDR64"
  <2>1. m = Put(q, 8, q.addend)
    BY <1>2, <1>8 DEF ppc64_undo_prelink_rela, ppc64_reloc_size, ppc64_Word, ppc_Half, ppc_Low,
       ppc64_Ds, ppc64_Higher, ppc_Predicted, ppc64_DtpRel, ppc_DtpRel16, ppc64_TpRel,
       ppc_TpRel16
  <2>2. ld_width(a, q) = 8
    BY <1>1, <1>8 DEF ld_class, ld_width, Slot, Tls, TpOff, DtpOff, DtpMod, s390_Half,
       s390_Dbl16, ppc_Half, ppc_Low, ppc_DtpRel16, ppc_DtpRel, ppc_TpRel16, ppc_TpRel,
       ppc64_Ds, ppc64_Higher, mips_Got, mips_Global, mips_Undefined, mips_Defined, mips_DtpMod,
       mips_DtpRel, mips_TpRel, Mips
  <2>3. LdVal(a, q) = q.addend
    BY <1>8 DEF LdVal, Addr, Slot, ppc64_Ds
  <2>4. q.type \notin Addr \union Insns \union Still \union ppc64_Ds \union Slot
    BY <1>8 DEF Addr, Insns, Still, ppc64_Ds, ppc_Predicted, sparc64_Insns, Slot
  <2>5. q.code = LdCode(a, q)
    BY <1>1, <2>4 DEF KinA, FormA, LdCode
  <2> QED BY <1>1, <2>1, <2>2, <2>3, <2>4, <2>5, PutLinked
<1>9. CASE q.type \in ppc64_Ds
  <2>1. m = Put(q, 2, 0)
    BY <1>2, <1>9 DEF ppc64_undo_prelink_rela, ppc64_reloc_size, ppc64_Word, ppc_Half, ppc_Low,
       ppc64_Ds, ppc64_Higher, ppc_Predicted, ppc64_DtpRel, ppc_DtpRel16, ppc64_TpRel,
       ppc_TpRel16
  <2>2. ld_width(a, q) = 2
    BY <1>9 DEF ld_width, Slot, Tls, TpOff, DtpOff, DtpMod, s390_Half, s390_Dbl16, ppc_Half,
       ppc_Low, ppc_DtpRel16, ppc_DtpRel, ppc_TpRel16, ppc_TpRel, ppc64_Ds, ppc64_Higher,
       mips_Got, mips_Global, mips_Undefined, mips_Defined, mips_DtpMod, mips_DtpRel,
       mips_TpRel, Mips
  <2>3. q.type \notin Addr \union Insns \union Still \union Slot \union Halves
          \union {"ADDR64", "GLOB_DAT"}
    BY <1>9 DEF Addr, Slot, Insns, Still, ppc64_Ds, ppc_Predicted, sparc64_Insns, Halves,
       ppc_Half, ppc_Low, ppc_DtpRel16, ppc_TpRel16
  <2>4. m.mem = [width |-> 2, val |-> 0] /\ m.code = q.code /\ m.type = q.type
          /\ m.class = q.class
    BY <1>1, <2>1, PutIs DEF Alike, Placed
  <2>5. KinA(a, m, o) /\ Kept(m, q)
    BY <2>1, <2>3, PutKin
  <2>6. LdVal(a, m) = 0 /\ ld_width(a, m) = 2
    BY <1>9, <2>2, <2>3, <2>4, LdWidthSame DEF LdVal
  <2>7. m.code = LdCode(a, m)
    BY <1>1, <2>3, <2>4 DEF KinA, FormA, LdCode
  <2> QED BY <2>4, <2>5, <2>6, <2>7 DEF AsLinked
<1>10. CASE q.type \in {"GLOB_DAT", "UADDR64", "DTPREL64", "TPREL64", "DTPMOD64", "REL64"}
  <2>1. m = Put(q, 8, 0)
    BY <1>10, <1>2 DEF ppc64_undo_prelink_rela, ppc64_reloc_size, ppc64_Word, ppc_Half, ppc_Low,
       ppc64_Ds, ppc64_Higher, ppc_Predicted, ppc64_DtpRel, ppc_DtpRel16, ppc64_TpRel,
       ppc_TpRel16
  <2>2. ld_width(a, q) = 8
    BY <1>1, <1>10 DEF ld_class, ld_width, Slot, Tls, TpOff, DtpOff, DtpMod, s390_Half,
       s390_Dbl16, ppc_Half, ppc_Low, ppc_DtpRel16, ppc_DtpRel, ppc_TpRel16, ppc_TpRel,
       ppc64_Ds, ppc64_Higher, mips_Got, mips_Global, mips_Undefined, mips_Defined, mips_DtpMod,
       mips_DtpRel, mips_TpRel, Mips, ppc64_Word, ppc_Half, ppc_Low, ppc64_Ds, ppc64_Higher,
       ppc_Predicted, ppc64_DtpRel, ppc_DtpRel16, ppc64_TpRel, ppc_TpRel16
  <2>3. q.type \notin Addr \union Insns \union Still \union ppc64_Ds \union Slot
          \union {"ADDR64", "PC24"}
    BY <1>10 DEF Addr, Insns, Still, ppc64_Ds, ppc_Predicted, sparc64_Insns, Slot, ppc64_Word,
       ppc_Half, ppc_Low, ppc64_Ds, ppc64_Higher, ppc_Predicted, ppc64_DtpRel, ppc_DtpRel16,
       ppc64_TpRel, ppc_TpRel16
  <2>4. LdVal(a, q) = 0
    BY <1>1, <2>3, PlainVal
  <2>5. q.code = LdCode(a, q)
    BY <1>1, <2>3 DEF KinA, FormA, LdCode
  <2> QED BY <1>1, <2>1, <2>2, <2>3, <2>4, <2>5, PutLinked
<1>11. CASE q.type \in {"ADDR32", "UADDR32", "REL32"}
  <2>1. m = Put(q, 4, 0)
    BY <1>11, <1>2 DEF ppc64_undo_prelink_rela, ppc64_reloc_size, ppc64_Word, ppc_Half, ppc_Low,
       ppc64_Ds, ppc64_Higher, ppc_Predicted, ppc64_DtpRel, ppc_DtpRel16, ppc64_TpRel,
       ppc_TpRel16
  <2>2. ld_width(a, q) = 4
    BY <1>1, <1>11 DEF ld_class, ld_width, Slot, Tls, TpOff, DtpOff, DtpMod, s390_Half,
       s390_Dbl16, ppc_Half, ppc_Low, ppc_DtpRel16, ppc_DtpRel, ppc_TpRel16, ppc_TpRel,
       ppc64_Ds, ppc64_Higher, mips_Got, mips_Global, mips_Undefined, mips_Defined, mips_DtpMod,
       mips_DtpRel, mips_TpRel, Mips, ppc64_Word, ppc_Half, ppc_Low, ppc64_Ds, ppc64_Higher,
       ppc_Predicted, ppc64_DtpRel, ppc_DtpRel16, ppc64_TpRel, ppc_TpRel16
  <2>3. q.type \notin Addr \union Insns \union Still \union ppc64_Ds \union Slot
          \union {"ADDR64", "PC24"}
    BY <1>11 DEF Addr, Insns, Still, ppc64_Ds, ppc_Predicted, sparc64_Insns, Slot, ppc64_Word,
       ppc_Half, ppc_Low, ppc64_Ds, ppc64_Higher, ppc_Predicted, ppc64_DtpRel, ppc_DtpRel16,
       ppc64_TpRel, ppc_TpRel16
  <2>4. LdVal(a, q) = 0
    BY <1>1, <2>3, PlainVal
  <2>5. q.code = LdCode(a, q)
    BY <1>1, <2>3 DEF KinA, FormA, LdCode
  <2> QED BY <1>1, <2>1, <2>2, <2>3, <2>4, <2>5, PutLinked
<1>12. CASE q.type \in ppc_Half \union ppc_DtpRel16 \union ppc_TpRel16 \union ppc64_Higher
  <2>1. m = Put(q, 2, 0)
    BY <1>12, <1>2 DEF ppc64_undo_prelink_rela, ppc64_reloc_size, ppc64_Word, ppc_Half, ppc_Low,
       ppc64_Ds, ppc64_Higher, ppc_Predicted, ppc64_DtpRel, ppc_DtpRel16, ppc64_TpRel,
       ppc_TpRel16
  <2>2. ld_width(a, q) = 2
    BY <1>1, <1>12 DEF ld_class, ld_width, Slot, Tls, TpOff, DtpOff, DtpMod, s390_Half,
       s390_Dbl16, ppc_Half, ppc_Low, ppc_DtpRel16, ppc_DtpRel, ppc_TpRel16, ppc_TpRel,
       ppc64_Ds, ppc64_Higher, mips_Got, mips_Global, mips_Undefined, mips_Defined, mips_DtpMod,
       mips_DtpRel, mips_TpRel, Mips, ppc64_Word, ppc_Half, ppc_Low, ppc64_Ds, ppc64_Higher,
       ppc_Predicted, ppc64_DtpRel, ppc_DtpRel16, ppc64_TpRel, ppc_TpRel16
  <2>3. q.type \notin Addr \union Insns \union Still \union ppc64_Ds \union Slot
          \union {"ADDR64", "PC24"}
    BY <1>12 DEF Addr, Insns, Still, ppc64_Ds, ppc_Predicted, sparc64_Insns, Slot, ppc64_Word,
       ppc_Half, ppc_Low, ppc64_Ds, ppc64_Higher, ppc_Predicted, ppc64_DtpRel, ppc_DtpRel16,
       ppc64_TpRel, ppc_TpRel16
  <2>4. LdVal(a, q) = 0
    BY <1>1, <2>3, PlainVal
  <2>5. q.code = LdCode(a, q)
    BY <1>1, <2>3 DEF KinA, FormA, LdCode
  <2> QED BY <1>1, <2>1, <2>2, <2>3, <2>4, <2>5, PutLinked
<1>13. CASE q.type \in {"ADDR24", "REL24", "ADDR14"} \union ppc_Predicted
  <2>1. m = Put(q, 4, Cleared(q.type, q.mem.val))
    <3>0. ppc64_reloc_size(q.type) = 4
      BY <1>13 DEF ppc64_reloc_size, ppc64_Word, ppc_Half, ppc_Low, ppc64_Ds, ppc64_Higher,
         ppc_Predicted, ppc64_DtpRel, ppc_DtpRel16, ppc64_TpRel, ppc_TpRel16
    <3>1. CASE q.type \in {"ADDR24", "REL24"}
      <4>1. m = Put(q, 4, Insert(q.mem.val, 2, 26, 0))
        <5>1. CASE q.type = "ADDR24"
          BY <1>2, <3>0, <5>1 DEF ppc64_undo_prelink_rela, ppc64_Word, ppc_Half, ppc_Low,
             ppc64_Ds, ppc64_Higher, ppc_Predicted, ppc64_DtpRel, ppc_DtpRel16, ppc64_TpRel,
             ppc_TpRel16
        <5>2. CASE q.type = "REL24"
          BY <1>2, <3>0, <5>2 DEF ppc64_undo_prelink_rela, ppc64_Word, ppc_Half, ppc_Low,
             ppc64_Ds, ppc64_Higher, ppc_Predicted, ppc64_DtpRel, ppc_DtpRel16, ppc64_TpRel,
             ppc_TpRel16
        <5> QED BY <3>1, <5>1, <5>2
      <4>2. Cleared(q.type, q.mem.val) = Insert(q.mem.val, 2, 26, 0)
        BY <3>1 DEF Cleared, ppc_Predicted
      <4> QED BY <4>1, <4>2
    <3>2. CASE q.type = "ADDR14"
      BY <1>2, <3>0, <3>2 DEF Cleared, ppc64_undo_prelink_rela, ppc64_Word, ppc_Half, ppc_Low,
         ppc64_Ds, ppc64_Higher, ppc_Predicted, ppc64_DtpRel, ppc_DtpRel16, ppc64_TpRel,
         ppc_TpRel16
    <3>3. CASE q.type \in ppc_Predicted
      <4>1. m = Put(q, 4, ppc_addr14_br(q.mem.val, 0, FALSE))
        <5>1. CASE q.type = "ADDR14_BRTAKEN"
          BY <1>2, <3>0, <5>1 DEF ppc64_undo_prelink_rela, ppc_Predicted, ppc_addr14_br
        <5>2. CASE q.type = "ADDR14_BRNTAKEN"
          BY <1>2, <3>0, <5>2 DEF ppc64_undo_prelink_rela, ppc_Predicted, ppc_addr14_br
        <5> QED BY <3>3, <5>1, <5>2 DEF ppc_Predicted
      <4>2. Cleared(q.type, q.mem.val) = ppc_addr14_br(q.mem.val, 0, FALSE)
        BY <3>3 DEF Cleared, ppc_Predicted
      <4> QED BY <4>1, <4>2
    <3> QED BY <1>13, <3>1, <3>2, <3>3
  <2>2. q.type \in Insns
    BY <1>13 DEF Insns
  <2> QED BY <1>1, <2>1, <2>2, InsnLinked
<1> QED BY <1>3, <1>4, <1>5, <1>6, <1>7, <1>8, <1>9, <1>10, <1>11, <1>12, <1>13 DEF
           ppc64_DtpRel, ppc64_TpRel, ppc64_Word

-----------------------------------------------------------------------------
(* sparc.                                                                  *)

(* How many bits the relocations of sparc and sparc64 have in an           *)
(* instruction.                                                            *)
SparcBits(type, k) ==
  \/ type \in {"LO10", "M44", "HM10"} /\ k = 10
  \/ type = "L44" /\ k = 12
  \/ type \in {"OLO10", "OLO10+8", "TLS_LE_LOX10"} /\ k = 13
  \/ type \in {"LM22", "HI22", "H44", "HH22", "TLS_LE_HIX22"} /\ k = 22
  \/ type = "WDISP30" /\ k = 30

(* Writing them leaves the rest of the instruction alone.                  *)
LEMMA SparcInsn ==
  ASSUME NEW type, NEW w \in Int, NEW x \in Int, NEW v, NEW k, SparcBits(type, k),
         v = Insert(w, 0, k, x)
  PROVE  v \in Int /\ Cleared(type, v) = Cleared(type, w) /\ type \in Insns
<1>1. v \in Int /\ Insert(v, 0, k, 0) = Insert(w, 0, k, 0)
  <2>1. CASE k = 10
    BY <2>1, InsertCleared10
  <2>2. CASE k = 12
    BY <2>2, InsertCleared12
  <2>3. CASE k = 13
    BY <2>3, InsertCleared13
  <2>4. CASE k = 22
    BY <2>4, InsertCleared22
  <2>5. CASE k = 30
    BY <2>5, InsertCleared30
  <2> QED BY <2>1, <2>2, <2>3, <2>4, <2>5 DEF SparcBits
<1>2. type \in Insns
  BY DEF Insns, sparc64_Insns, SparcBits
<1>3. Cleared(type, v) = Insert(v, 0, k, 0) /\ Cleared(type, w) = Insert(w, 0, k, 0)
  BY DEF Cleared, sparc64_bits, ppc_Predicted, SparcBits
<1> QED BY <1>1, <1>2, <1>3

(* sparc_adjust_rela: moving an object keeps what undoing needs, and one   *)
(* that ld made is as ld would have made it.                               *)
LEMMA SparcMove ==
  ASSUME arch = "sparc", NEW q, NEW o, KinA(arch, q, o), FormA(arch, o), NEW b \in Nat,
         NEW m, m = AdjustRel(arch, q, b - q.base), NEW p, p = Relocated(q, b)
  PROVE  /\ KinA(arch, p, o) /\ Alike(m, q)
         /\ FormA(arch, q) => p.mem = [width |-> ld_width(arch, p), val |-> LdVal(arch, p)]
         /\ q.type = "RELATIVE" => (p.addend = 0 <=> q.addend = 0)
<1> DEFINE d == b - q.base
           v == q.addend + d
           w == q.mem.val + d
<1>1. /\ q \in Relocs /\ d \in Int /\ v \in Int /\ w \in Int
      /\ q.addend \in Int /\ q.base \in Nat /\ q.slot \in Int /\ q.mem.val \in Int
      /\ q.class = 4 /\ LdType(arch, q) /\ q.type = o.type /\ arch \in Names \ RelArchs
  BY KinFacts DEF ld_class, Names, RelArchs, Mips
<1>2. m = sparc_adjust_rela(q, d)
  BY DEF AdjustRel, X86_64, Ppc, Mips
<1>3. q.type \in {"NONE", "RELATIVE", "COPY", "GLOB_DAT", "JMP_SLOT", "32", "UA32", "16",
                  "UA16", "8", "LO10", "HI22", "WDISP30", "DISP8", "DISP16", "DISP32"} \union
                  sparc_Tls
  BY <1>1 DEF LdType, ld_exec_types, ld_types, X86_64, Mips, Ppc, DtpMod, DtpOff
<1> HIDE DEF d, v, w
<1>4. CASE q.type = "RELATIVE"
  <2>1. /\ q.code = o.code /\ q.addend \in {0, q.base + 44}
        /\ q.mem = [width |-> 4, val |-> (q.base + 44) - q.addend]
    BY <1>4 DEF KinA, AddrKin, Addr, Target
  <2>2. CASE q.addend # 0
    <3>1. m = [q EXCEPT !.addend = v]
      BY <1>2, <1>4, <2>2 DEF sparc_adjust_rela, v
    <3>2. Alike(m, q) /\ m.mem = q.mem /\ m.addend = v
      BY <1>1, <3>1, AddendIs
    <3>3. Frame(p, q) /\ p.base = b /\ p.addend = m.addend /\ p.mem = m.mem
      BY <1>1, <3>2, RelocatedFacts
    <3>4. p.addend = b + 44 /\ p.addend # 0 /\ p.code = q.code
      BY <1>1, <2>1, <2>2, <3>2, <3>3 DEF d, v, w, Frame
    <3>5. p.mem = [width |-> 4, val |-> 0] /\ (b + 44) - (b + 44) = 0
      BY <1>1, <2>1, <2>2, <3>2, <3>3
    <3>6. AddrKin(arch, p, o) /\ AddrKin(arch, p, q)
      BY <2>1, <3>3, <3>4, <3>5 DEF AddrKin, Target
    <3> QED BY <1>1, <1>4, <2>2, <3>2, <3>3, <3>4, <3>6, KinAddr, MovedAddr DEF Addr
  <2>3. CASE q.addend = 0
    <3>1. m = Put(q, 4, w)
      BY <1>2, <1>4, <2>3 DEF sparc_adjust_rela, w
    <3>2. Alike(m, q) /\ m.mem = [width |-> 4, val |-> w] /\ m.addend = 0
      BY <1>1, <2>3, <3>1, PutIs
    <3>3. Frame(p, q) /\ p.base = b /\ p.addend = m.addend /\ p.mem = m.mem
      BY <1>1, <3>2, RelocatedFacts
    <3>4. w = (b + 44) - 0
      BY <1>1, <2>1, <2>3 DEF d, w
    <3>5. p.mem = [width |-> 4, val |-> (b + 44) - 0] /\ p.addend = 0 /\ p.code = q.code
      BY <3>2, <3>3, <3>4 DEF Frame
    <3>6. AddrKin(arch, p, o) /\ AddrKin(arch, p, q)
      BY <2>1, <3>3, <3>5 DEF AddrKin, Target
    <3> QED BY <1>1, <1>4, <2>3, <3>2, <3>3, <3>5, <3>6, KinAddr, MovedAddr DEF Addr
  <2> QED BY <2>2, <2>3
<1>5. CASE q.type = "JMP_SLOT"
  <2>1. m = q
    BY <1>2, <1>5 DEF sparc_adjust_rela
  <2>2. Alike(m, q) /\ m.mem = q.mem /\ m.addend = q.addend
    BY <1>1, <2>1 DEF Alike, Placed
  <2>3. Frame(p, q) /\ p.base = b /\ p.addend = m.addend /\ p.mem = m.mem
    BY <1>1, <2>2, RelocatedFacts
  <2>4. SlotKin(arch, p, o)
    BY <1>5, <2>1, <2>2, <2>3 DEF KinA, SlotKin, Slot, Frame
  <2>5. ASSUME FormA(arch, q)
               PROVE p.mem = [width |-> ld_width(arch, p), val |-> LdVal(arch, p)]
    <3>1. p.type = q.type /\ p.class = q.class
      BY <2>3 DEF Frame, Placed
    <3>2. ld_width(arch, p) = ld_width(arch, q)
      BY <3>1, LdWidthSame
    <3>3. LdVal(arch, q) = 0 /\ LdVal(arch, p) = 0
      BY <1>5, <2>1, <3>1 DEF LdVal, Addr, Slot, ppc64_Ds, X86Like, X86_64
    <3> QED BY <2>2, <2>3, <2>5, <3>2, <3>3 DEF FormA
  <2> QED BY <1>5, <2>2, <2>3, <2>4, <2>5, KinSlot DEF Frame, Slot
<1>6. CASE q.type \notin {"RELATIVE", "JMP_SLOT"}
  <2>1. m = q
    BY <1>2, <1>6 DEF sparc_adjust_rela
  <2> QED BY <1>1, <1>3, <1>6, <2>1, MoveOther DEF Addr, Slot, d, sparc_Tls
<1> QED BY <1>4, <1>5, <1>6

(* sparc_prelink_rela keeps what undoing needs.                            *)
LEMMA SparcPrelink ==
  ASSUME NEW a, a = "sparc", NEW q, NEW o, KinA(a, q, o), FormA(a, o), NEW s \in Syms,
         NEW m, m = PrelinkRel(a, q, s)
  PROVE  KinA(a, m, o) /\ Kept(m, q) /\ (q.type = "RELATIVE" => m.addend = 0)
<1>1. /\ q.addend \in Int /\ q.base \in Int /\ q.off \in Int /\ q.slot \in Int
           /\ q.class \in Nat
      /\ q.mem.val \in Int /\ s.val \in Int /\ s.tlsoffset \in Int /\ q \in Relocs
           /\ LdType(a, q)
      /\ q.class = ld_class(a) /\ q.type = o.type
  BY KinFacts DEF Syms
<1>2. m = sparc_prelink_rela(q, s)
  BY DEF PrelinkRel, X86_64, Ppc, Mips
<1>3. /\ q.type \in {"NONE", "RELATIVE", "COPY", "GLOB_DAT", "JMP_SLOT", "32", "UA32", "16",
                     "UA16", "8", "LO10", "HI22", "WDISP30", "DISP8", "DISP16", "DISP32"} \union
                     sparc_Tls
      /\ q.exec => q.type # "TLS_DTPMOD32"
      /\ ~ q.exec => q.type # "COPY"
  BY <1>1 DEF LdType, ld_exec_types, ld_types, X86_64, Mips, Ppc, DtpMod, DtpOff, sparc_Tls,
     mips_DtpMod, mips_DtpRel, ppc_DtpRel, ppc_DtpRel16
<1>4. CASE q.type \in {"NONE", "COPY", "TLS_DTPMOD32"}
  <2>1. m = q
    BY <1>4, <1>2, <1>3 DEF sparc_prelink_rela, sparc_Tls
  <2> QED BY <1>4, <2>1, SameKin
<1>5. CASE q.type = "RELATIVE"
  <2>1. /\ q.code = o.code /\ q.addend \in {0, Target(q)}
        /\ q.mem = [width |-> 4, val |-> Target(q) - q.addend]
    BY <1>5 DEF KinA, AddrKin, Addr
  <2>2. Target(q) \in Int
    BY <1>1 DEF Target
  <2>3. CASE q.addend = 0
    <3>1. m = q
      BY <1>2, <1>5, <2>3 DEF sparc_prelink_rela
    <3> QED BY <2>3, <3>1, SameKin
  <2>4. CASE q.addend # 0
    <3> DEFINE n == [q EXCEPT !.addend = 0]
    <3>1. m = Put(n, 4, q.mem.val + q.addend)
      BY <1>2, <1>5, <2>4 DEF sparc_prelink_rela
    <3>2. n \in Relocs /\ Alike(n, q) /\ n.addend = 0
      BY <1>1, AddendFacts DEF Alike
    <3>3. q.mem.val + q.addend = Target(q) - 0 /\ q.mem.val + q.addend \in Int
      BY <1>1, <2>1, <2>2
    <3> HIDE DEF n
    <3>4. Written(m, n) /\ m.mem = [width |-> 4, val |-> Target(q) - 0]
      BY <3>1, <3>2, <3>3, PutIs
    <3>5. Kept(m, n) /\ Frame(m, n) /\ m.addend = 0 /\ m.code = n.code /\ m.base = n.base
      BY <3>2, <3>4, WrittenKept
    <3>6. Kept(m, q) /\ Frame(m, q) /\ m.code = q.code /\ Target(m) = Target(q)
      BY <3>2, <3>5 DEF Kept, Frame, Alike, Placed, Target
    <3>7. AddrKin(a, m, o)
      BY <2>1, <3>4, <3>5, <3>6 DEF AddrKin
    <3> QED BY <1>5, <3>5, <3>6, <3>7, KinAddr DEF Addr
  <2> QED BY <2>3, <2>4
<1>6. CASE q.type \in {"GLOB_DAT", "32", "UA32"}
  <2>1. m = Put(q, 4, s.val + q.addend)
    BY <1>6, <1>2, <1>3 DEF sparc_prelink_rela, sparc_Tls
  <2>2. s.val + q.addend \in Int
    BY <1>1 DEF P
  <2>3. q.type \notin Addr \union Insns \union Still \union Slot \union Halves
    BY <1>6 DEF Addr, Slot, Insns, Still, ppc_Predicted, sparc64_Insns, Halves, ppc_Half,
       ppc_Low, ppc_DtpRel16, ppc_TpRel16, sparc_Tls
  <2> QED BY <1>6, <1>1, <2>1, <2>2, <2>3, PutKin
<1>7. CASE q.type = "8"
  <2>1. m = Put(q, 1, s.val + q.addend)
    BY <1>7, <1>2, <1>3 DEF sparc_prelink_rela, sparc_Tls
  <2>2. s.val + q.addend \in Int
    BY <1>1 DEF P
  <2>3. q.type \notin Addr \union Insns \union Still \union Slot \union Halves
    BY <1>7 DEF Addr, Slot, Insns, Still, ppc_Predicted, sparc64_Insns, Halves, ppc_Half,
       ppc_Low, ppc_DtpRel16, ppc_TpRel16, sparc_Tls
  <2> QED BY <1>7, <1>1, <2>1, <2>2, <2>3, PutKin
<1>8. CASE q.type \in {"16", "UA16"}
  <2>1. m = Put(q, 2, s.val + q.addend)
    BY <1>8, <1>2, <1>3 DEF sparc_prelink_rela, sparc_Tls
  <2>2. s.val + q.addend \in Int
    BY <1>1 DEF P
  <2>3. q.type \notin Addr \union Insns \union Still \union Slot \union Halves
    BY <1>8 DEF Addr, Slot, Insns, Still, ppc_Predicted, sparc64_Insns, Halves, ppc_Half,
       ppc_Low, ppc_DtpRel16, ppc_TpRel16, sparc_Tls
  <2> QED BY <1>8, <1>1, <2>1, <2>2, <2>3, PutKin
<1>9. CASE q.type = "DISP8"
  <2>1. m = Put(q, 1, (s.val + q.addend) - P(q))
    BY <1>9, <1>2, <1>3 DEF sparc_prelink_rela, sparc_Tls
  <2>2. (s.val + q.addend) - P(q) \in Int
    BY <1>1 DEF P
  <2>3. q.type \notin Addr \union Insns \union Still \union Slot \union Halves
    BY <1>9 DEF Addr, Slot, Insns, Still, ppc_Predicted, sparc64_Insns, Halves, ppc_Half,
       ppc_Low, ppc_DtpRel16, ppc_TpRel16, sparc_Tls
  <2> QED BY <1>9, <1>1, <2>1, <2>2, <2>3, PutKin
<1>10. CASE q.type = "DISP16"
  <2>1. m = Put(q, 2, (s.val + q.addend) - P(q))
    BY <1>10, <1>2, <1>3 DEF sparc_prelink_rela, sparc_Tls
  <2>2. (s.val + q.addend) - P(q) \in Int
    BY <1>1 DEF P
  <2>3. q.type \notin Addr \union Insns \union Still \union Slot \union Halves
    BY <1>10 DEF Addr, Slot, Insns, Still, ppc_Predicted, sparc64_Insns, Halves, ppc_Half,
       ppc_Low, ppc_DtpRel16, ppc_TpRel16, sparc_Tls
  <2> QED BY <1>10, <1>1, <2>1, <2>2, <2>3, PutKin
<1>11. CASE q.type = "DISP32"
  <2>1. m = Put(q, 4, (s.val + q.addend) - P(q))
    BY <1>11, <1>2, <1>3 DEF sparc_prelink_rela, sparc_Tls
  <2>2. (s.val + q.addend) - P(q) \in Int
    BY <1>1 DEF P
  <2>3. q.type \notin Addr \union Insns \union Still \union Slot \union Halves
    BY <1>11 DEF Addr, Slot, Insns, Still, ppc_Predicted, sparc64_Insns, Halves, ppc_Half,
       ppc_Low, ppc_DtpRel16, ppc_TpRel16, sparc_Tls
  <2> QED BY <1>11, <1>1, <2>1, <2>2, <2>3, PutKin
<1>12. CASE q.type = "TLS_DTPOFF32"
  <2>1. m = Put(q, 4, (s.val + q.addend) + q.addend)
    BY <1>12, <1>2, <1>3 DEF sparc_prelink_rela, sparc_Tls
  <2>2. (s.val + q.addend) + q.addend \in Int
    BY <1>1 DEF P
  <2>3. q.type \notin Addr \union Insns \union Still \union Slot \union Halves
    BY <1>12 DEF Addr, Slot, Insns, Still, ppc_Predicted, sparc64_Insns, Halves, ppc_Half,
       ppc_Low, ppc_DtpRel16, ppc_TpRel16, sparc_Tls
  <2> QED BY <1>12, <1>1, <2>1, <2>2, <2>3, PutKin
<1>13. CASE q.type = "TLS_TPOFF32"
  <2> DEFINE x == (s.val + q.addend) + q.addend - s.tlsoffset
  <2>1. m \in {q, Put(q, 4, x)}
    BY <1>13, <1>2, <1>3 DEF sparc_prelink_rela, sparc_Tls
  <2>2. x \in Int
    BY <1>1 DEF P
  <2> HIDE DEF x
  <2>3. q.type \notin Addr \union Insns \union Still \union Slot \union Halves
    BY <1>13 DEF Addr, Slot, Insns, Still, ppc_Predicted, sparc64_Insns, Halves, ppc_Half,
       ppc_Low, ppc_DtpRel16, ppc_TpRel16, sparc_Tls
  <2> QED BY <1>13, <1>1, <2>1, <2>2, <2>3, PutKin
<1>14. CASE q.type = "LO10"
  <2> DEFINE x == s.val + q.addend
             v == Insert(q.mem.val, 0, 10, x)
  <2>1. m = Put(q, 4, v)
    BY <1>14, <1>2 DEF sparc_prelink_rela, sparc_lo10, sparc_Tls
  <2>2. x \in Int
    BY <1>1, SMT DEF P
  <2> HIDE DEF x
  <2>3. v \in Int /\ Cleared(q.type, v) = Cleared(q.type, q.mem.val) /\ q.type \in Insns
    <3>1. SparcBits(q.type, 10)
      BY <1>14 DEF SparcBits
    <3> QED BY <1>1, <2>2, <3>1, SparcInsn
  <2> HIDE DEF v
  <2> QED BY <1>14, <2>1, <2>3, InsnKin
<1>15. CASE q.type = "HI22"
  <2> DEFINE x == (s.val + q.addend) \div 1024
             v == Insert(q.mem.val, 0, 22, x)
  <2>1. m = Put(q, 4, v)
    BY <1>15, <1>2 DEF sparc_prelink_rela, sparc_hi22, sparc_Tls
  <2>2. x \in Int
    BY <1>1, SMT DEF P
  <2> HIDE DEF x
  <2>3. v \in Int /\ Cleared(q.type, v) = Cleared(q.type, q.mem.val) /\ q.type \in Insns
    <3>1. SparcBits(q.type, 22)
      BY <1>15 DEF SparcBits
    <3> QED BY <1>1, <2>2, <3>1, SparcInsn
  <2> HIDE DEF v
  <2> QED BY <1>15, <2>1, <2>3, InsnKin
<1>16. CASE q.type = "WDISP30"
  <2> DEFINE x == ((s.val + q.addend) - P(q)) \div 4
             v == Insert(q.mem.val, 0, 30, x)
  <2>1. m = Put(q, 4, v)
    BY <1>16, <1>2 DEF sparc_prelink_rela, sparc_wdisp30, sparc_Tls
  <2>2. x \in Int
    BY <1>1, SMT DEF P
  <2> HIDE DEF x
  <2>3. v \in Int /\ Cleared(q.type, v) = Cleared(q.type, q.mem.val) /\ q.type \in Insns
    <3>1. SparcBits(q.type, 30)
      BY <1>16 DEF SparcBits
    <3> QED BY <1>1, <2>2, <3>1, SparcInsn
  <2> HIDE DEF v
  <2> QED BY <1>16, <2>1, <2>3, InsnKin
<1>17. CASE q.type = "TLS_LE_HIX22"
  <2> DEFINE x == (- ((s.val + q.addend) + q.addend - s.tlsoffset) - 1) \div 1024
             v == Insert(q.mem.val, 0, 22, x)
  <2>1. m \in {q, Put(q, 4, v)}
    BY <1>17, <1>2 DEF sparc_prelink_rela, sparc_hix22, sparc_Tls
  <2>2. x \in Int
    BY <1>1, SMT DEF P
  <2> HIDE DEF x
  <2>3. v \in Int /\ Cleared(q.type, v) = Cleared(q.type, q.mem.val) /\ q.type \in Insns
    <3>1. SparcBits(q.type, 22)
      BY <1>17 DEF SparcBits
    <3> QED BY <1>1, <2>2, <3>1, SparcInsn
  <2> HIDE DEF v
  <2> QED BY <1>17, <2>1, <2>3, InsnKin
<1>18. CASE q.type = "TLS_LE_LOX10"
  <2> DEFINE x == 7168 + (((s.val + q.addend) + q.addend - s.tlsoffset) % 1024)
             v == Insert(q.mem.val, 0, 13, x)
  <2>1. m \in {q, Put(q, 4, v)}
    BY <1>18, <1>2 DEF sparc_prelink_rela, sparc_lox10, sparc_Tls
  <2>2. x \in Int
    BY <1>1, SMT DEF P
  <2> HIDE DEF x
  <2>3. v \in Int /\ Cleared(q.type, v) = Cleared(q.type, q.mem.val) /\ q.type \in Insns
    <3>1. SparcBits(q.type, 13)
      BY <1>18 DEF SparcBits
    <3> QED BY <1>1, <2>2, <3>1, SparcInsn
  <2> HIDE DEF v
  <2> QED BY <1>18, <2>1, <2>3, InsnKin
<1>19. CASE q.type = "JMP_SLOT"
  <2> DEFINE x == s.val + q.addend
             e == x - P(q)
             c == IF Near(e) THEN Direct(e) ELSE Absolute(x)
  <2>1. m = [q EXCEPT !.code = c]
    BY <1>19, <1>2 DEF sparc_prelink_rela, sparc_fixup_plt, sparc_Tls
  <2>2. x \in Int /\ e \in Int
    BY <1>1 DEF P
  <2> HIDE DEF x, e
  <2>3. c \in Codes /\ c # NoCode
    BY <2>2, CodeIs
  <2> HIDE DEF c
  <2>4. q.code # NoCode
    BY <1>1, <1>19, CodeIs DEF KinA, SlotKin, FormA, LdCode, Slot
  <2> QED BY <1>19, <2>1, <2>3, <2>4, CodeKin DEF Slot
<1> QED BY <1>3, <1>4, <1>5, <1>6, <1>7, <1>8, <1>9, <1>10, <1>11, <1>12, <1>13, <1>14, <1>15,
           <1>16, <1>17, <1>18, <1>19 DEF sparc_Tls

(* sparc_undo_prelink_rela restores the word.                              *)
LEMMA SparcUndo ==
  ASSUME NEW a, a = "sparc", NEW q, NEW o, KinA(a, q, o), FormA(a, o), q.type = "RELATIVE" =>
             q.addend = 0,
         NEW m, m = UndoRel(a, q)
  PROVE  Kept(m, q) /\ KinA(a, m, o) /\ AsLinked(a, m)
<1>1. /\ q.slot \in Int /\ q.base \in Int /\ q.class \in Nat /\ q.class = ld_class(a)
           /\ q.got \in Int
      /\ q.addend \in Int /\ q.inGot = (q.type \in Slot \union {"GLOB_DAT"}) /\ LdType(a, q)
           /\ a \in Names
      /\ q \in Relocs /\ q.type = o.type
  BY KinFacts DEF Names, X86_64, Ppc
<1>2. m = sparc_undo_prelink_rela(q)
  BY DEF UndoRel, X86_64, Ppc, Mips, RelArchs
<1>3. /\ q.type \in {"NONE", "RELATIVE", "COPY", "GLOB_DAT", "JMP_SLOT", "32", "UA32", "16",
                     "UA16", "8", "LO10", "HI22", "WDISP30", "DISP8", "DISP16", "DISP32"} \union
                     sparc_Tls
      /\ ~ q.exec => q.type # "COPY"
  BY <1>1 DEF LdType, ld_exec_types, ld_types, X86_64, Mips, Ppc, DtpMod, DtpOff, sparc_Tls,
     mips_DtpMod, mips_DtpRel, ppc_DtpRel, ppc_DtpRel16
<1>4. CASE q.type \in {"NONE", "COPY"}
  <2>1. m = q
    BY <1>4, <1>2, <1>3 DEF sparc_undo_prelink_rela, sparc_Tls
  <2> QED BY <1>1, <1>4, <2>1, StillLinked, SameLinked DEF Still
<1>5. CASE q.type = "RELATIVE"
  <2> DEFINE n == [q EXCEPT !.addend = q.mem.val]
  <2>1. q.code = o.code /\ q.addend = 0 /\ q.mem = [width |-> 4, val |-> Target(q) - 0]
          /\ Target(q) \in Int
    BY <1>1, <1>5 DEF KinA, AddrKin, Addr, Target
  <2>2. m = Put(n, 4, 0)
    BY <1>2, <1>5, <2>1 DEF sparc_undo_prelink_rela
  <2>3. q.mem.val = Target(q)
    BY <2>1
  <2>4. n \in Relocs /\ Alike(n, q) /\ n.addend = Target(q)
    BY <1>1, <2>1, <2>3, AddendFacts DEF Alike
  <2> HIDE DEF n
  <2>5. Written(m, n) /\ m.mem = [width |-> 4, val |-> 0]
    BY <2>2, <2>4, PutIs
  <2>6. Kept(m, n) /\ Frame(m, n) /\ m.addend = Target(q) /\ m.code = n.code /\ m.base = n.base
    BY <2>4, <2>5, WrittenKept
  <2>7. Kept(m, q) /\ Frame(m, q) /\ m.code = q.code /\ Target(m) = Target(q)
          /\ m.class = q.class /\ m.type = q.type
    BY <2>4, <2>6 DEF Kept, Frame, Alike, Placed, Target
  <2>8. Target(q) - Target(q) = 0
    BY <2>1
  <2>9. AddrKin(a, m, o)
    BY <2>1, <2>5, <2>6, <2>7, <2>8 DEF AddrKin
  <2>10. KinA(a, m, o)
    BY <1>5, <2>7, <2>9, KinAddr DEF Addr
  <2>11. LdVal(a, m) = 0 /\ ld_width(a, m) = 4 /\ m.code = LdCode(a, m)
    <3>1. LdVal(a, m) = Target(m) - m.addend
      BY <1>5, <2>7 DEF LdVal, Addr, Slot, ppc64_Ds
    <3>2. ld_width(a, m) = 4
      BY <1>1, <1>5, <2>7, AddrWidth DEF ld_class
    <3>3. m.code = LdCode(a, m)
      BY <1>1, <1>5, <2>1, <2>7 DEF FormA, LdCode, Slot
    <3> QED BY <2>6, <2>7, <2>8, <3>1, <3>2, <3>3
  <2> QED BY <2>5, <2>7, <2>10, <2>11 DEF AsLinked
<1>6. CASE q.type = "JMP_SLOT"
  <2>1. q.code # NoCode
    BY <1>1, <1>6, CodeIs DEF KinA, SlotKin, FormA, LdCode, Slot
  <2>2. m = [q EXCEPT !.code = Lazy]
    BY <1>2, <1>6 DEF sparc_undo_prelink_rela, sparc_Tls
  <2>3. KinA(a, m, o) /\ Kept(m, q) /\ m.mem = q.mem /\ m.addend = q.addend /\ m.code = Lazy
    BY <1>6, <2>1, <2>2, CodeIs, CodeKin DEF Slot
  <2>4. q.mem = o.mem /\ m.type = q.type /\ m.class = o.class
    BY <1>6, <2>3 DEF KinA, SlotKin, Slot, Kept, Placed
  <2>5. LdVal(a, m) = 0 /\ LdVal(a, o) = 0 /\ LdCode(a, m) = Lazy
    BY <1>1, <1>6, <2>3, <2>4 DEF LdVal, LdCode, Addr, Slot, X86Like, X86_64, ppc64_Ds
  <2>6. ld_width(a, m) = ld_width(a, o)
    BY <1>1, <2>4, LdWidthSame
  <2> QED BY <2>3, <2>4, <2>5, <2>6 DEF AsLinked, FormA
<1>7. CASE q.type \in {"GLOB_DAT", "32", "UA32", "DISP32", "TLS_DTPMOD32", "TLS_DTPOFF32", "TLS_TPOFF32"}
  <2>1. m = Put(q, 4, 0)
    BY <1>7, <1>2 DEF sparc_undo_prelink_rela, sparc_Tls
  <2>2. ld_width(a, q) = 4
    BY <1>1, <1>7 DEF ld_class, ld_width, Slot, Tls, TpOff, DtpOff, DtpMod, s390_Half,
       s390_Dbl16, ppc_Half, ppc_Low, ppc_DtpRel16, ppc_DtpRel, ppc_TpRel16, ppc_TpRel,
       ppc64_Ds, ppc64_Higher, mips_Got, mips_Global, mips_Undefined, mips_Defined, mips_DtpMod,
       mips_DtpRel, mips_TpRel, Mips, sparc_Tls
  <2>3. q.type \notin Addr \union Insns \union Still \union ppc64_Ds \union Slot
          \union {"ADDR64", "PC24"}
    BY <1>7 DEF Addr, Insns, Still, ppc64_Ds, ppc_Predicted, sparc64_Insns, Slot, sparc_Tls
  <2>4. LdVal(a, q) = 0
    BY <1>1, <2>3, PlainVal
  <2>5. q.code = LdCode(a, q)
    BY <1>1, <2>3 DEF KinA, FormA, LdCode
  <2> QED BY <1>1, <2>1, <2>2, <2>3, <2>4, <2>5, PutLinked
<1>8. CASE q.type \in {"8", "DISP8"}
  <2>1. m = Put(q, 1, 0)
    BY <1>8, <1>2 DEF sparc_undo_prelink_rela, sparc_Tls
  <2>2. ld_width(a, q) = 1
    BY <1>1, <1>8 DEF ld_class, ld_width, Slot, Tls, TpOff, DtpOff, DtpMod, s390_Half,
       s390_Dbl16, ppc_Half, ppc_Low, ppc_DtpRel16, ppc_DtpRel, ppc_TpRel16, ppc_TpRel,
       ppc64_Ds, ppc64_Higher, mips_Got, mips_Global, mips_Undefined, mips_Defined, mips_DtpMod,
       mips_DtpRel, mips_TpRel, Mips, sparc_Tls
  <2>3. q.type \notin Addr \union Insns \union Still \union ppc64_Ds \union Slot
          \union {"ADDR64", "PC24"}
    BY <1>8 DEF Addr, Insns, Still, ppc64_Ds, ppc_Predicted, sparc64_Insns, Slot, sparc_Tls
  <2>4. LdVal(a, q) = 0
    BY <1>1, <2>3, PlainVal
  <2>5. q.code = LdCode(a, q)
    BY <1>1, <2>3 DEF KinA, FormA, LdCode
  <2> QED BY <1>1, <2>1, <2>2, <2>3, <2>4, <2>5, PutLinked
<1>9. CASE q.type \in {"16", "UA16", "DISP16"}
  <2>1. m = Put(q, 2, 0)
    BY <1>9, <1>2 DEF sparc_undo_prelink_rela, sparc_Tls
  <2>2. ld_width(a, q) = 2
    BY <1>1, <1>9 DEF ld_class, ld_width, Slot, Tls, TpOff, DtpOff, DtpMod, s390_Half,
       s390_Dbl16, ppc_Half, ppc_Low, ppc_DtpRel16, ppc_DtpRel, ppc_TpRel16, ppc_TpRel,
       ppc64_Ds, ppc64_Higher, mips_Got, mips_Global, mips_Undefined, mips_Defined, mips_DtpMod,
       mips_DtpRel, mips_TpRel, Mips, sparc_Tls
  <2>3. q.type \notin Addr \union Insns \union Still \union ppc64_Ds \union Slot
          \union {"ADDR64", "PC24"}
    BY <1>9 DEF Addr, Insns, Still, ppc64_Ds, ppc_Predicted, sparc64_Insns, Slot, sparc_Tls
  <2>4. LdVal(a, q) = 0
    BY <1>1, <2>3, PlainVal
  <2>5. q.code = LdCode(a, q)
    BY <1>1, <2>3 DEF KinA, FormA, LdCode
  <2> QED BY <1>1, <2>1, <2>2, <2>3, <2>4, <2>5, PutLinked
<1>10. CASE q.type = "LO10"
  <2>1. m = Put(q, 4, Insert(q.mem.val, 0, 10, 0))
    BY <1>2, <1>10 DEF sparc_undo_prelink_rela, sparc_Tls
  <2>2. Cleared(q.type, q.mem.val) = Insert(q.mem.val, 0, 10, 0)
    BY <1>10 DEF Cleared, sparc64_bits, ppc_Predicted
  <2>3. q.type \in Insns
    BY <1>10 DEF Insns, sparc64_Insns
  <2> QED BY <1>1, <2>1, <2>2, <2>3, InsnLinked
<1>11. CASE q.type = "TLS_LE_LOX10"
  <2>1. m = Put(q, 4, Insert(q.mem.val, 0, 13, 0))
    BY <1>2, <1>11 DEF sparc_undo_prelink_rela, sparc_Tls
  <2>2. Cleared(q.type, q.mem.val) = Insert(q.mem.val, 0, 13, 0)
    BY <1>11 DEF Cleared, sparc64_bits, ppc_Predicted
  <2>3. q.type \in Insns
    BY <1>11 DEF Insns, sparc64_Insns
  <2> QED BY <1>1, <2>1, <2>2, <2>3, InsnLinked
<1>12. CASE q.type \in {"HI22", "TLS_LE_HIX22"}
  <2>1. m = Put(q, 4, Insert(q.mem.val, 0, 22, 0))
    BY <1>2, <1>12 DEF sparc_undo_prelink_rela, sparc_Tls
  <2>2. Cleared(q.type, q.mem.val) = Insert(q.mem.val, 0, 22, 0)
    BY <1>12 DEF Cleared, sparc64_bits, ppc_Predicted
  <2>3. q.type \in Insns
    BY <1>12 DEF Insns, sparc64_Insns
  <2> QED BY <1>1, <2>1, <2>2, <2>3, InsnLinked
<1>13. CASE q.type = "WDISP30"
  <2>1. m = Put(q, 4, Insert(q.mem.val, 0, 30, 0))
    BY <1>2, <1>13 DEF sparc_undo_prelink_rela, sparc_Tls
  <2>2. Cleared(q.type, q.mem.val) = Insert(q.mem.val, 0, 30, 0)
    BY <1>13 DEF Cleared, sparc64_bits, ppc_Predicted
  <2>3. q.type \in Insns
    BY <1>13 DEF Insns, sparc64_Insns
  <2> QED BY <1>1, <2>1, <2>2, <2>3, InsnLinked
<1> QED BY <1>3, <1>4, <1>5, <1>6, <1>7, <1>8, <1>9, <1>10, <1>11, <1>12, <1>13 DEF sparc_Tls

-----------------------------------------------------------------------------
(* sparc64.                                                                *)

(* The far PLT entries of sparc64, relative to the base.                   *)
LEMMA FarFacts ==
  ASSUME NEW q \in Relocs
  PROVE  /\ sparc64_far(q) = q.base + (232 + 24 * q.slot) /\ 24 * q.slot \in Nat
         /\ Plt(q) - sparc64_far(q) = - (204 + 24 * q.slot) /\ sparc64_far(q) \in Int
         /\ - sparc64_far(q) # 0
<1>1. q.base \in Nat /\ q.slot \in Nat
  BY TypedFacts DEF Typed
<1>2. 24 * q.slot \in Nat
  BY <1>1
<1> QED BY <1>1, <1>2 DEF sparc64_far, Plt, PltOffset

(* sparc64_adjust_rela: moving an object keeps what undoing needs, and one *)
(* that ld made is as ld would have made it.                               *)
LEMMA Sparc64Move ==
  ASSUME arch = "sparc64", NEW q, NEW o, KinA(arch, q, o), FormA(arch, o), NEW b \in Nat,
         NEW m, m = AdjustRel(arch, q, b - q.base), NEW p, p = Relocated(q, b)
  PROVE  /\ KinA(arch, p, o) /\ Alike(m, q)
         /\ FormA(arch, q) => p.mem = [width |-> ld_width(arch, p), val |-> LdVal(arch, p)]
<1> DEFINE d == b - q.base
           v == q.addend + d
           w == q.addend - d
<1>1. /\ q \in Relocs /\ d \in Int /\ v \in Int /\ w \in Int
      /\ q.addend \in Int /\ q.base \in Nat /\ q.slot \in Nat
      /\ LdType(arch, q) /\ q.type = o.type /\ arch \in Names \ RelArchs
  BY KinFacts DEF Names, RelArchs, Mips
<1>2. m = sparc64_adjust_rela(q, d)
  BY DEF AdjustRel, X86_64, Ppc, Mips
<1> HIDE DEF d, v, w
<1>4. CASE q.type = "RELATIVE"
  <2>1. q.code = o.code /\ q.addend = q.base + 44
    BY <1>4 DEF KinA, AddrKin, Addr, Target
  <2>2. m = [q EXCEPT !.addend = v]
    BY <1>2, <1>4 DEF sparc64_adjust_rela, v
  <2>3. Alike(m, q) /\ m.mem = q.mem /\ m.addend = v
    BY <1>1, <2>2, AddendIs
  <2>4. Frame(p, q) /\ p.base = b /\ p.addend = m.addend /\ p.mem = m.mem
    BY <1>1, <2>3, RelocatedFacts
  <2>5. p.addend = b + 44 /\ p.code = q.code /\ p.type = q.type
    BY <1>1, <2>1, <2>3, <2>4 DEF d, v, Frame
  <2>6. AddrKin(arch, p, o) /\ AddrKin(arch, p, q)
    BY <1>4, <2>1, <2>4, <2>5 DEF AddrKin, Target, InWord, X86Like, X86_64, Ppc
  <2> QED BY <1>1, <1>4, <2>3, <2>4, <2>6, KinAddr, MovedAddr DEF Addr
<1>5. CASE q.type = "JMP_SLOT"
  <2>0. /\ q.addend = IF o.addend # 0 THEN - sparc64_far(q) ELSE 0
        /\ o.addend = 0 => q.mem = o.mem
        /\ (q.code = NoCode) <=> (o.code = NoCode)
    BY <1>5 DEF KinA, SlotKin, Slot
  <2>1. /\ Alike(m, q) /\ m.mem = q.mem
        /\ m.addend = IF o.addend # 0 THEN w ELSE 0
    <3>1. CASE o.addend # 0
      <4>1. m = [q EXCEPT !.addend = w]
        BY <1>1, <1>2, <1>5, <2>0, <3>1, FarFacts DEF sparc64_adjust_rela, w
      <4> QED BY <1>1, <3>1, <4>1, AddendIs
    <3>2. CASE o.addend = 0
      <4>1. m = q
        BY <1>2, <1>5, <2>0, <3>2 DEF sparc64_adjust_rela
      <4> QED BY <1>1, <2>0, <3>2, <4>1 DEF Alike, Placed
    <3> QED BY <3>1, <3>2
  <2>2. Frame(p, q) /\ p.base = b /\ p.addend = m.addend /\ p.mem = m.mem
    BY <1>1, <2>1, RelocatedFacts
  <2>3. p \in Relocs /\ p.slot = q.slot /\ p.type = q.type /\ p.class = q.class
          /\ p.code = q.code
    BY <2>2 DEF Frame, Placed
  <2>4. p.addend = IF o.addend # 0 THEN - sparc64_far(p) ELSE 0
    <3>1. CASE o.addend # 0
      <4> DEFINE k == 24 * q.slot
      <4>1. /\ k \in Nat /\ sparc64_far(q) = q.base + (232 + k)
                 /\ sparc64_far(p) = p.base + (232 + k)
        BY <1>1, <2>3, FarFacts
      <4> HIDE DEF k
      <4>2. - sparc64_far(p) = w
        BY <1>1, <2>0, <2>2, <3>1, <4>1 DEF w, d
      <4> QED BY <2>1, <2>2, <3>1, <4>2
    <3> QED BY <2>1, <2>2, <3>1
  <2>5. SlotKin(arch, p, o)
    BY <2>0, <2>1, <2>2, <2>3, <2>4 DEF SlotKin
  <2>6. ASSUME FormA(arch, q)
               PROVE p.mem = [width |-> ld_width(arch, p), val |-> LdVal(arch, p)]
    <3>2. ld_width(arch, p) = ld_width(arch, q)
      BY <2>3, LdWidthSame
    <3>3. LdVal(arch, q) = LdVal(arch, p)
      <4>1. /\ LdVal(arch, q) = IF q.addend = 0 THEN 0 ELSE Plt(q) - sparc64_far(q)
            /\ LdVal(arch, p) = IF p.addend = 0 THEN 0 ELSE Plt(p) - sparc64_far(p)
        BY <1>5, <2>3 DEF LdVal, Addr, Slot, ppc64_Ds, X86Like, X86_64
      <4>2. q.addend = 0 <=> p.addend = 0
        BY <1>1, <2>0, <2>3, <2>4, FarFacts
      <4>3. Plt(q) - sparc64_far(q) = Plt(p) - sparc64_far(p)
        BY <1>1, <2>3, FarFacts
      <4> QED BY <4>1, <4>2, <4>3
    <3> QED BY <2>1, <2>2, <2>6, <3>2, <3>3 DEF FormA
  <2> QED BY <1>5, <2>1, <2>2, <2>3, <2>5, <2>6, KinSlot DEF Frame, Slot
<1>6. CASE q.type \notin {"RELATIVE", "JMP_SLOT"}
  <2>1. m = q
    BY <1>2, <1>6 DEF sparc64_adjust_rela
  <2>2. q.type \notin Addr \union Slot
    BY <1>1, <1>6 DEF Addr, Slot, LdType, ld_exec_types, ld_types, X86_64, Mips, Ppc, DtpMod,
       DtpOff, sparc64_Tls, sparc64_Insns
  <2> QED BY <1>1, <1>6, <2>1, <2>2, MoveOther DEF d
<1> QED BY <1>4, <1>5, <1>6

(* sparc64_prelink_rela keeps what undoing needs.                          *)
LEMMA Sparc64Prelink ==
  ASSUME NEW a, a = "sparc64", NEW q, NEW o, KinA(a, q, o), FormA(a, o), NEW s \in Syms,
         NEW m, m = PrelinkRel(a, q, s)
  PROVE  KinA(a, m, o) /\ Kept(m, q)
<1>1. /\ q.addend \in Int /\ q.base \in Int /\ q.off \in Int /\ q.slot \in Int
           /\ q.class \in Nat
      /\ q.mem.val \in Int /\ s.val \in Int /\ s.tlsoffset \in Int /\ q \in Relocs
           /\ LdType(a, q)
      /\ q.class = ld_class(a) /\ q.type = o.type
  BY KinFacts DEF Syms
<1>2. m = sparc64_prelink_rela(q, s)
  BY DEF PrelinkRel, X86_64, Ppc, Mips
<1>3. /\ q.type \in {"NONE", "RELATIVE", "COPY", "GLOB_DAT", "JMP_SLOT", "64", "UA64", "32",
                     "UA32", "16", "UA16", "8", "DISP8", "DISP16", "DISP32", "DISP64"} \union
                     sparc64_Insns
                     \union sparc64_Tls
      /\ q.exec => q.type # "TLS_DTPMOD64"
      /\ ~ q.exec => q.type # "COPY"
  BY <1>1 DEF LdType, ld_exec_types, ld_types, X86_64, Mips, Ppc, DtpMod, DtpOff, sparc64_Tls,
     sparc64_Insns, mips_DtpMod, mips_DtpRel, ppc_DtpRel, ppc_DtpRel16
<1>4. CASE q.type \in {"NONE", "COPY", "TLS_DTPMOD64"}
  <2>1. m = q
    BY <1>4, <1>2, <1>3 DEF sparc64_prelink_rela, sparc64_Tls, sparc64_Insns
  <2> QED BY <2>1, SameKin
<1>5. CASE q.type = "RELATIVE"
  <2>1. q.code = o.code /\ q.addend = Target(q)
    BY <1>5 DEF KinA, AddrKin, Addr
  <2>2. m = Put(q, 8, q.addend)
    BY <1>2, <1>5 DEF sparc64_prelink_rela, sparc64_Tls, sparc64_Insns
  <2>3. Written(m, q)
    BY <1>1, <2>2, PutWritten
  <2>4. Kept(m, q) /\ Frame(m, q) /\ m.addend = q.addend /\ m.code = q.code /\ m.base = q.base
    BY <2>3, WrittenKept
  <2>5. AddrKin(a, m, o)
    BY <1>5, <2>1, <2>4 DEF AddrKin, Target, InWord, X86Like, X86_64, Ppc, Frame
  <2> QED BY <1>5, <2>4, <2>5, KinAddr DEF Addr
<1>6. CASE q.type \in {"GLOB_DAT", "64", "UA64"}
  <2>1. m = Put(q, 8, s.val + q.addend)
    BY <1>6, <1>2, <1>3 DEF sparc64_prelink_rela, sparc64_Tls, sparc64_Insns
  <2>2. s.val + q.addend \in Int
    BY <1>1 DEF P
  <2>3. q.type \notin Addr \union Insns \union Still \union Slot \union Halves
    BY <1>6 DEF Addr, Slot, Insns, Still, ppc_Predicted, sparc64_Insns, Halves, ppc_Half,
       ppc_Low, ppc_DtpRel16, ppc_TpRel16, sparc64_Tls, sparc64_Insns
  <2> QED BY <1>6, <1>1, <2>1, <2>2, <2>3, PutKin
<1>7. CASE q.type = "8"
  <2>1. m = Put(q, 1, s.val + q.addend)
    BY <1>7, <1>2, <1>3 DEF sparc64_prelink_rela, sparc64_Tls, sparc64_Insns
  <2>2. s.val + q.addend \in Int
    BY <1>1 DEF P
  <2>3. q.type \notin Addr \union Insns \union Still \union Slot \union Halves
    BY <1>7 DEF Addr, Slot, Insns, Still, ppc_Predicted, sparc64_Insns, Halves, ppc_Half,
       ppc_Low, ppc_DtpRel16, ppc_TpRel16, sparc64_Tls, sparc64_Insns
  <2> QED BY <1>7, <1>1, <2>1, <2>2, <2>3, PutKin
<1>8. CASE q.type \in {"16", "UA16"}
  <2>1. m = Put(q, 2, s.val + q.addend)
    BY <1>8, <1>2, <1>3 DEF sparc64_prelink_rela, sparc64_Tls, sparc64_Insns
  <2>2. s.val + q.addend \in Int
    BY <1>1 DEF P
  <2>3. q.type \notin Addr \union Insns \union Still \union Slot \union Halves
    BY <1>8 DEF Addr, Slot, Insns, Still, ppc_Predicted, sparc64_Insns, Halves, ppc_Half,
       ppc_Low, ppc_DtpRel16, ppc_TpRel16, sparc64_Tls, sparc64_Insns
  <2> QED BY <1>8, <1>1, <2>1, <2>2, <2>3, PutKin
<1>9. CASE q.type = "DISP8"
  <2>1. m = Put(q, 1, (s.val + q.addend) - P(q))
    BY <1>9, <1>2, <1>3 DEF sparc64_prelink_rela, sparc64_Tls, sparc64_Insns
  <2>2. (s.val + q.addend) - P(q) \in Int
    BY <1>1 DEF P
  <2>3. q.type \notin Addr \union Insns \union Still \union Slot \union Halves
    BY <1>9 DEF Addr, Slot, Insns, Still, ppc_Predicted, sparc64_Insns, Halves, ppc_Half,
       ppc_Low, ppc_DtpRel16, ppc_TpRel16, sparc64_Tls, sparc64_Insns
  <2> QED BY <1>9, <1>1, <2>1, <2>2, <2>3, PutKin
<1>10. CASE q.type = "DISP16"
  <2>1. m = Put(q, 2, (s.val + q.addend) - P(q))
    BY <1>10, <1>2, <1>3 DEF sparc64_prelink_rela, sparc64_Tls, sparc64_Insns
  <2>2. (s.val + q.addend) - P(q) \in Int
    BY <1>1 DEF P
  <2>3. q.type \notin Addr \union Insns \union Still \union Slot \union Halves
    BY <1>10 DEF Addr, Slot, Insns, Still, ppc_Predicted, sparc64_Insns, Halves, ppc_Half,
       ppc_Low, ppc_DtpRel16, ppc_TpRel16, sparc64_Tls, sparc64_Insns
  <2> QED BY <1>10, <1>1, <2>1, <2>2, <2>3, PutKin
<1>11. CASE q.type = "DISP32"
  <2>1. m = Put(q, 4, (s.val + q.addend) - P(q))
    BY <1>11, <1>2, <1>3 DEF sparc64_prelink_rela, sparc64_Tls, sparc64_Insns
  <2>2. (s.val + q.addend) - P(q) \in Int
    BY <1>1 DEF P
  <2>3. q.type \notin Addr \union Insns \union Still \union Slot \union Halves
    BY <1>11 DEF Addr, Slot, Insns, Still, ppc_Predicted, sparc64_Insns, Halves, ppc_Half,
       ppc_Low, ppc_DtpRel16, ppc_TpRel16, sparc64_Tls, sparc64_Insns
  <2> QED BY <1>11, <1>1, <2>1, <2>2, <2>3, PutKin
<1>12. CASE q.type = "DISP64"
  <2>1. m = Put(q, 8, (s.val + q.addend) - P(q))
    BY <1>12, <1>2, <1>3 DEF sparc64_prelink_rela, sparc64_Tls, sparc64_Insns
  <2>2. (s.val + q.addend) - P(q) \in Int
    BY <1>1 DEF P
  <2>3. q.type \notin Addr \union Insns \union Still \union Slot \union Halves
    BY <1>12 DEF Addr, Slot, Insns, Still, ppc_Predicted, sparc64_Insns, Halves, ppc_Half,
       ppc_Low, ppc_DtpRel16, ppc_TpRel16, sparc64_Tls, sparc64_Insns
  <2> QED BY <1>12, <1>1, <2>1, <2>2, <2>3, PutKin
<1>13. CASE q.type \in {"32", "UA32"}
  <2>1. m = Put(q, 4, s.val + q.addend)
    BY <1>13, <1>2, <1>3 DEF sparc64_prelink_rela, sparc64_Tls, sparc64_Insns
  <2>2. s.val + q.addend \in Int
    BY <1>1 DEF P
  <2>3. q.type \notin Addr \union Insns \union Still \union Slot \union Halves
    BY <1>13 DEF Addr, Slot, Insns, Still, ppc_Predicted, sparc64_Insns, Halves, ppc_Half,
       ppc_Low, ppc_DtpRel16, ppc_TpRel16, sparc64_Tls, sparc64_Insns
  <2> QED BY <1>13, <1>1, <2>1, <2>2, <2>3, PutKin
<1>14. CASE q.type = "TLS_DTPOFF64"
  <2>1. m = Put(q, 8, (s.val + q.addend) + q.addend)
    BY <1>14, <1>2, <1>3 DEF sparc64_prelink_rela, sparc64_Tls, sparc64_Insns
  <2>2. (s.val + q.addend) + q.addend \in Int
    BY <1>1 DEF P
  <2>3. q.type \notin Addr \union Insns \union Still \union Slot \union Halves
    BY <1>14 DEF Addr, Slot, Insns, Still, ppc_Predicted, sparc64_Insns, Halves, ppc_Half,
       ppc_Low, ppc_DtpRel16, ppc_TpRel16, sparc64_Tls, sparc64_Insns
  <2> QED BY <1>14, <1>1, <2>1, <2>2, <2>3, PutKin
<1>15. CASE q.type = "TLS_TPOFF64"
  <2> DEFINE x == (s.val + q.addend) + q.addend - s.tlsoffset
  <2>1. m \in {q, Put(q, 8, x)}
    BY <1>15, <1>2, <1>3 DEF sparc64_prelink_rela, sparc64_Tls, sparc64_Insns
  <2>2. x \in Int
    BY <1>1 DEF P
  <2> HIDE DEF x
  <2>3. q.type \notin Addr \union Insns \union Still \union Slot \union Halves
    BY <1>15 DEF Addr, Slot, Insns, Still, ppc_Predicted, sparc64_Insns, Halves, ppc_Half,
       ppc_Low, ppc_DtpRel16, ppc_TpRel16, sparc64_Tls, sparc64_Insns
  <2> QED BY <1>15, <1>1, <2>1, <2>2, <2>3, PutKin
<1>16. CASE q.type = "LO10"
  <2> DEFINE x == s.val + q.addend
             v == Insert(q.mem.val, 0, 10, x)
  <2>1. m = Put(q, 4, v)
    BY <1>16, <1>2 DEF sparc64_prelink_rela, sparc64_insn, SPARC64_R_TYPE, sparc64_data,
       sparc64_Tls, sparc64_Insns
  <2>2. x \in Int
    BY <1>1, SMT DEF P
  <2> HIDE DEF x
  <2>3. v \in Int /\ Cleared(q.type, v) = Cleared(q.type, q.mem.val) /\ q.type \in Insns
    <3>1. SparcBits(q.type, 10)
      BY <1>16 DEF SparcBits
    <3> QED BY <1>1, <2>2, <3>1, SparcInsn
  <2> HIDE DEF v
  <2> QED BY <1>16, <2>1, <2>3, InsnKin
<1>17. CASE q.type \in {"LM22", "HI22"}
  <2> DEFINE x == (s.val + q.addend) \div 2^10
             v == Insert(q.mem.val, 0, 22, x)
  <2>1. m = Put(q, 4, v)
    BY <1>17, <1>2 DEF sparc64_prelink_rela, sparc64_insn, SPARC64_R_TYPE, sparc64_data,
       sparc64_Tls, sparc64_Insns
  <2>2. x \in Int
    BY <1>1, SMT DEF P
  <2> HIDE DEF x
  <2>3. v \in Int /\ Cleared(q.type, v) = Cleared(q.type, q.mem.val) /\ q.type \in Insns
    <3>1. SparcBits(q.type, 22)
      BY <1>17 DEF SparcBits
    <3> QED BY <1>1, <2>2, <3>1, SparcInsn
  <2> HIDE DEF v
  <2> QED BY <1>17, <2>1, <2>3, InsnKin
<1>18. CASE q.type = "WDISP30"
  <2> DEFINE x == ((s.val + q.addend) - P(q)) \div 4
             v == Insert(q.mem.val, 0, 30, x)
  <2>1. m = Put(q, 4, v)
    BY <1>18, <1>2 DEF sparc64_prelink_rela, sparc64_insn, SPARC64_R_TYPE, sparc64_data,
       sparc_wdisp30, sparc64_Tls, sparc64_Insns
  <2>2. x \in Int
    BY <1>1, SMT DEF P
  <2> HIDE DEF x
  <2>3. v \in Int /\ Cleared(q.type, v) = Cleared(q.type, q.mem.val) /\ q.type \in Insns
    <3>1. SparcBits(q.type, 30)
      BY <1>18 DEF SparcBits
    <3> QED BY <1>1, <2>2, <3>1, SparcInsn
  <2> HIDE DEF v
  <2> QED BY <1>18, <2>1, <2>3, InsnKin
<1>19. CASE q.type = "H44"
  <2> DEFINE x == (s.val + q.addend) \div 2^22
             v == Insert(q.mem.val, 0, 22, x)
  <2>1. m = Put(q, 4, v)
    BY <1>19, <1>2 DEF sparc64_prelink_rela, sparc64_insn, SPARC64_R_TYPE, sparc64_data,
       sparc64_Tls, sparc64_Insns
  <2>2. x \in Int
    BY <1>1, SMT DEF P
  <2> HIDE DEF x
  <2>3. v \in Int /\ Cleared(q.type, v) = Cleared(q.type, q.mem.val) /\ q.type \in Insns
    <3>1. SparcBits(q.type, 22)
      BY <1>19 DEF SparcBits
    <3> QED BY <1>1, <2>2, <3>1, SparcInsn
  <2> HIDE DEF v
  <2> QED BY <1>19, <2>1, <2>3, InsnKin
<1>20. CASE q.type = "M44"
  <2> DEFINE x == (s.val + q.addend) \div 2^12
             v == Insert(q.mem.val, 0, 10, x)
  <2>1. m = Put(q, 4, v)
    BY <1>20, <1>2 DEF sparc64_prelink_rela, sparc64_insn, SPARC64_R_TYPE, sparc64_data,
       sparc64_Tls, sparc64_Insns
  <2>2. x \in Int
    BY <1>1, SMT DEF P
  <2> HIDE DEF x
  <2>3. v \in Int /\ Cleared(q.type, v) = Cleared(q.type, q.mem.val) /\ q.type \in Insns
    <3>1. SparcBits(q.type, 10)
      BY <1>20 DEF SparcBits
    <3> QED BY <1>1, <2>2, <3>1, SparcInsn
  <2> HIDE DEF v
  <2> QED BY <1>20, <2>1, <2>3, InsnKin
<1>21. CASE q.type = "L44"
  <2> DEFINE x == s.val + q.addend
             v == Insert(q.mem.val, 0, 12, x)
  <2>1. m = Put(q, 4, v)
    BY <1>21, <1>2 DEF sparc64_prelink_rela, sparc64_insn, SPARC64_R_TYPE, sparc64_data,
       sparc64_Tls, sparc64_Insns
  <2>2. x \in Int
    BY <1>1, SMT DEF P
  <2> HIDE DEF x
  <2>3. v \in Int /\ Cleared(q.type, v) = Cleared(q.type, q.mem.val) /\ q.type \in Insns
    <3>1. SparcBits(q.type, 12)
      BY <1>21 DEF SparcBits
    <3> QED BY <1>1, <2>2, <3>1, SparcInsn
  <2> HIDE DEF v
  <2> QED BY <1>21, <2>1, <2>3, InsnKin
<1>22. CASE q.type = "HH22"
  <2> DEFINE x == ((s.val + q.addend) \div 2^22) \div 2^20
             v == Insert(q.mem.val, 0, 22, x)
  <2>1. m = Put(q, 4, v)
    BY <1>22, <1>2 DEF sparc64_prelink_rela, sparc64_insn, SPARC64_R_TYPE, sparc64_data,
       sparc64_Tls, sparc64_Insns
  <2>2. x \in Int
    BY <1>1, SMT DEF P
  <2> HIDE DEF x
  <2>3. v \in Int /\ Cleared(q.type, v) = Cleared(q.type, q.mem.val) /\ q.type \in Insns
    <3>1. SparcBits(q.type, 22)
      BY <1>22 DEF SparcBits
    <3> QED BY <1>1, <2>2, <3>1, SparcInsn
  <2> HIDE DEF v
  <2> QED BY <1>22, <2>1, <2>3, InsnKin
<1>23. CASE q.type = "HM10"
  <2> DEFINE x == ((s.val + q.addend) \div 2^22) \div 2^10
             v == Insert(q.mem.val, 0, 10, x)
  <2>1. m = Put(q, 4, v)
    BY <1>23, <1>2 DEF sparc64_prelink_rela, sparc64_insn, SPARC64_R_TYPE, sparc64_data,
       sparc64_Tls, sparc64_Insns
  <2>2. x \in Int
    BY <1>1, SMT DEF P
  <2> HIDE DEF x
  <2>3. v \in Int /\ Cleared(q.type, v) = Cleared(q.type, q.mem.val) /\ q.type \in Insns
    <3>1. SparcBits(q.type, 10)
      BY <1>23 DEF SparcBits
    <3> QED BY <1>1, <2>2, <3>1, SparcInsn
  <2> HIDE DEF v
  <2> QED BY <1>23, <2>1, <2>3, InsnKin
<1>24. CASE q.type = "OLO10"
  <2> DEFINE x == ((s.val + q.addend) % 1024) + 0
             v == Insert(q.mem.val, 0, 13, x)
  <2>1. m = Put(q, 4, v)
    BY <1>24, <1>2 DEF sparc64_prelink_rela, sparc64_insn, SPARC64_R_TYPE, sparc64_data,
       sparc64_Tls, sparc64_Insns
  <2>2. x \in Int
    BY <1>1, SMT DEF P
  <2> HIDE DEF x
  <2>3. v \in Int /\ Cleared(q.type, v) = Cleared(q.type, q.mem.val) /\ q.type \in Insns
    <3>1. SparcBits(q.type, 13)
      BY <1>24 DEF SparcBits
    <3> QED BY <1>1, <2>2, <3>1, SparcInsn
  <2> HIDE DEF v
  <2> QED BY <1>24, <2>1, <2>3, InsnKin
<1>25. CASE q.type = "OLO10+8"
  <2> DEFINE x == ((s.val + q.addend) % 1024) + 8
             v == Insert(q.mem.val, 0, 13, x)
  <2>1. m = Put(q, 4, v)
    BY <1>25, <1>2 DEF sparc64_prelink_rela, sparc64_insn, SPARC64_R_TYPE, sparc64_data,
       sparc64_Tls, sparc64_Insns
  <2>2. x \in Int
    BY <1>1, SMT DEF P
  <2> HIDE DEF x
  <2>3. v \in Int /\ Cleared(q.type, v) = Cleared(q.type, q.mem.val) /\ q.type \in Insns
    <3>1. SparcBits(q.type, 13)
      BY <1>25 DEF SparcBits
    <3> QED BY <1>1, <2>2, <3>1, SparcInsn
  <2> HIDE DEF v
  <2> QED BY <1>25, <2>1, <2>3, InsnKin
<1>26. CASE q.type = "TLS_LE_HIX22"
  <2> DEFINE x == (- ((s.val + q.addend) + q.addend - s.tlsoffset) - 1) \div 1024
             v == Insert(q.mem.val, 0, 22, x)
  <2>1. m \in {q, Put(q, 4, v)}
    BY <1>26, <1>2 DEF sparc64_prelink_rela, sparc_hix22, sparc64_Tls, sparc64_Insns
  <2>2. x \in Int
    BY <1>1, SMT DEF P
  <2> HIDE DEF x
  <2>3. v \in Int /\ Cleared(q.type, v) = Cleared(q.type, q.mem.val) /\ q.type \in Insns
    <3>1. SparcBits(q.type, 22)
      BY <1>26 DEF SparcBits
    <3> QED BY <1>1, <2>2, <3>1, SparcInsn
  <2> HIDE DEF v
  <2> QED BY <1>26, <2>1, <2>3, InsnKin
<1>27. CASE q.type = "TLS_LE_LOX10"
  <2> DEFINE x == 7168 + (((s.val + q.addend) + q.addend - s.tlsoffset) % 1024)
             v == Insert(q.mem.val, 0, 13, x)
  <2>1. m \in {q, Put(q, 4, v)}
    BY <1>27, <1>2 DEF sparc64_prelink_rela, sparc_lox10, sparc64_Tls, sparc64_Insns
  <2>2. x \in Int
    BY <1>1, SMT DEF P
  <2> HIDE DEF x
  <2>3. v \in Int /\ Cleared(q.type, v) = Cleared(q.type, q.mem.val) /\ q.type \in Insns
    <3>1. SparcBits(q.type, 13)
      BY <1>27 DEF SparcBits
    <3> QED BY <1>1, <2>2, <3>1, SparcInsn
  <2> HIDE DEF v
  <2> QED BY <1>27, <2>1, <2>3, InsnKin
<1>28. CASE q.type = "JMP_SLOT" /\ q.addend = 0
  <2>0. o.addend = 0
    BY <1>1, <1>28, FarFacts DEF KinA, SlotKin, Slot
  <2> DEFINE x == s.val + q.addend
             e == x - P(q)
             c == IF Near(e) THEN Direct(e) ELSE Absolute(x)
  <2>1. m = [q EXCEPT !.code = c]
    BY <1>28, <1>2, <2>0 DEF sparc64_prelink_rela, sparc64_fixup_plt, sparc64_Tls, sparc64_Insns
  <2>2. x \in Int /\ e \in Int
    BY <1>1 DEF P
  <2> HIDE DEF x, e
  <2>3. c \in Codes /\ c # NoCode
    BY <2>2, CodeIs
  <2> HIDE DEF c
  <2>4. q.code # NoCode
    BY <1>1, <1>28, <2>0, CodeIs DEF KinA, SlotKin, FormA, LdCode, Slot
  <2> QED BY <1>28, <2>1, <2>3, <2>4, CodeKin DEF Slot
<1>29. CASE q.type = "JMP_SLOT" /\ q.addend # 0
  <2>1. m = Put(q, 8, s.val + q.addend) /\ s.val + q.addend \in Int
    BY <1>1, <1>2, <1>29 DEF sparc64_prelink_rela, sparc64_fixup_plt, sparc64_Tls, sparc64_Insns
  <2>2. Written(m, q)
    BY <1>1, <2>1, PutWritten
  <2>3. Kept(m, q) /\ m.addend = q.addend /\ m.code = q.code /\ m.base = q.base
    BY <2>2, WrittenKept
  <2>4. SlotKin(a, q, o) /\ o.addend # 0
    BY <1>29 DEF KinA, SlotKin, Slot
  <2>5. SlotKin(a, m, o)
    BY <2>3, <2>4 DEF SlotKin, sparc64_far, Plt, Kept, Placed
  <2> QED BY <1>29, <2>3, <2>5, KinSlot DEF Kept, Slot
<1> QED BY <1>3, <1>4, <1>5, <1>6, <1>7, <1>8, <1>9, <1>10, <1>11, <1>12, <1>13, <1>14, <1>15,
           <1>16, <1>17, <1>18, <1>19, <1>20, <1>21, <1>22, <1>23, <1>24, <1>25, <1>26, <1>27,
           <1>28, <1>29 DEF sparc64_Tls, sparc64_Insns

(* sparc64_undo_prelink_rela restores the word.                            *)
LEMMA Sparc64Undo ==
  ASSUME NEW a, a = "sparc64", NEW q, NEW o, KinA(a, q, o), FormA(a, o), q.type # "OLO10+8",
         NEW m, m = UndoRel(a, q)
  PROVE  Kept(m, q) /\ KinA(a, m, o) /\ AsLinked(a, m)
<1>1. /\ q.slot \in Int /\ q.base \in Int /\ q.class \in Nat /\ q.class = ld_class(a)
           /\ q.got \in Int
      /\ q.addend \in Int /\ q.inGot = (q.type \in Slot \union {"GLOB_DAT"}) /\ LdType(a, q)
           /\ a \in Names
      /\ q \in Relocs /\ q.type = o.type
  BY KinFacts DEF Names, X86_64, Ppc
<1>2. m = sparc64_undo_prelink_rela(q)
  BY DEF UndoRel, X86_64, Ppc, Mips, RelArchs
<1>3. /\ q.type \in {"NONE", "RELATIVE", "COPY", "GLOB_DAT", "JMP_SLOT", "64", "UA64", "32",
                     "UA32", "16", "UA16", "8", "DISP8", "DISP16", "DISP32", "DISP64"} \union
                     sparc64_Insns
                     \union sparc64_Tls
      /\ ~ q.exec => q.type # "COPY"
  BY <1>1 DEF LdType, ld_exec_types, ld_types, X86_64, Mips, Ppc, DtpMod, DtpOff, sparc64_Tls,
     sparc64_Insns, mips_DtpMod, mips_DtpRel, ppc_DtpRel, ppc_DtpRel16
<1>4. CASE q.type \in {"NONE", "COPY"}
  <2>1. m = q
    BY <1>4, <1>2, <1>3 DEF sparc64_undo_prelink_rela, sparc64_Tls, sparc64_Insns
  <2> QED BY <1>1, <1>4, <2>1, StillLinked, SameLinked DEF Still
<1>5. CASE q.type = "RELATIVE"
  <2>1. q.code = o.code /\ q.addend = Target(q)
    BY <1>5 DEF KinA, AddrKin, Addr
  <2>2. m = Put(q, 8, 0)
    BY <1>2, <1>5 DEF sparc64_undo_prelink_rela, sparc64_Insns
  <2>3. Written(m, q) /\ m.mem = [width |-> 8, val |-> 0]
    BY <1>1, <2>2, PutIs
  <2>4. Kept(m, q) /\ Frame(m, q) /\ m.addend = q.addend /\ m.code = q.code /\ m.base = q.base
    BY <2>3, WrittenKept
  <2>5. AddrKin(a, m, o)
    BY <1>5, <2>1, <2>4 DEF AddrKin, Target, InWord, X86Like, X86_64, Ppc, Frame
  <2>6. KinA(a, m, o)
    BY <1>5, <2>4, <2>5, KinAddr DEF Addr
  <2>7. m.type = "RELATIVE" /\ m.class = 8
    BY <1>1, <1>5, <2>4 DEF Frame, Placed, ld_class
  <2>8. LdVal(a, m) = 0
    BY <2>7 DEF LdVal, Addr, Slot, ppc64_Ds, InWord, X86Like, X86_64
  <2>9. ld_width(a, m) = 8
    BY <2>7, AddrWidth
  <2>10. m.code = LdCode(a, m)
    BY <1>1, <1>5, <2>1, <2>4, <2>7 DEF FormA, LdCode, Slot
  <2> QED BY <2>3, <2>4, <2>6, <2>8, <2>9, <2>10 DEF AsLinked
<1>6. CASE q.type = "JMP_SLOT" /\ q.addend = 0
  <2>0. o.addend = 0
    BY <1>1, <1>6, FarFacts DEF KinA, SlotKin, Slot
  <2>1. q.code # NoCode
    BY <1>1, <1>6, <2>0, CodeIs DEF KinA, SlotKin, FormA, LdCode, Slot
  <2>2. m = [q EXCEPT !.code = Lazy]
    BY <1>2, <1>6, <2>0 DEF sparc64_undo_prelink_rela, sparc64_Tls, sparc64_Insns
  <2>3. KinA(a, m, o) /\ Kept(m, q) /\ m.mem = q.mem /\ m.addend = q.addend /\ m.code = Lazy
    BY <1>6, <2>1, <2>2, CodeIs, CodeKin DEF Slot
  <2>4. q.mem = o.mem /\ m.type = q.type /\ m.class = o.class
    BY <1>6, <2>0, <2>3 DEF KinA, SlotKin, Slot, Kept, Placed
  <2>5. LdVal(a, m) = 0 /\ LdVal(a, o) = 0 /\ LdCode(a, m) = Lazy
    BY <1>1, <1>6, <2>0, <2>3, <2>4 DEF LdVal, LdCode, Addr, Slot, X86Like, X86_64, ppc64_Ds
  <2>6. ld_width(a, m) = ld_width(a, o)
    BY <1>1, <2>4, LdWidthSame
  <2> QED BY <2>3, <2>4, <2>5, <2>6 DEF AsLinked, FormA
<1>7. CASE q.type = "JMP_SLOT" /\ q.addend # 0
  <2> DEFINE v == Plt(q) - sparc64_far(q)
  <2>1. m = Put(q, 8, v)
    BY <1>2, <1>7 DEF sparc64_undo_prelink_rela, sparc64_Tls, sparc64_Insns
  <2>2. v \in Int
    BY <1>1, FarFacts
  <2> HIDE DEF v
  <2>3. Written(m, q) /\ m.mem = [width |-> 8, val |-> v]
    BY <1>1, <2>1, <2>2, PutIs
  <2>4. Kept(m, q) /\ m.addend = q.addend /\ m.code = q.code /\ m.base = q.base
    BY <2>3, WrittenKept
  <2>5. SlotKin(a, q, o) /\ o.addend # 0
    BY <1>7 DEF KinA, SlotKin, Slot
  <2>6. SlotKin(a, m, o)
    BY <2>4, <2>5 DEF SlotKin, sparc64_far, Plt, Kept, Placed
  <2>7. KinA(a, m, o)
    BY <1>7, <2>4, <2>6, KinSlot DEF Kept, Slot
  <2>8. m.type = "JMP_SLOT" /\ m.class = 8 /\ m.slot = q.slot
    BY <1>1, <1>7, <2>4 DEF Kept, Placed, ld_class
  <2>9. LdVal(a, m) = v
    BY <1>7, <2>4, <2>8 DEF LdVal, Addr, Slot, ppc64_Ds, X86Like, X86_64, v, sparc64_far, Plt
  <2>10. ld_width(a, m) = 8
    BY <2>8, SlotWidth DEF Slot
  <2>11. m.code = NoCode
    BY <1>1, <1>7, <2>4, <2>5 DEF SlotKin, FormA, LdCode
  <2>12. LdCode(a, m) = NoCode
    BY <1>7, <2>4 DEF LdCode
  <2> QED BY <2>3, <2>4, <2>7, <2>9, <2>10, <2>11, <2>12 DEF AsLinked
<1>8. CASE q.type \in {"GLOB_DAT", "64", "UA64", "DISP64", "TLS_DTPMOD64", "TLS_DTPOFF64", "TLS_TPOFF64"}
  <2>1. m = Put(q, 8, 0)
    BY <1>8, <1>2 DEF sparc64_undo_prelink_rela, sparc64_Tls, sparc64_Insns
  <2>2. ld_width(a, q) = 8
    BY <1>1, <1>8 DEF ld_class, ld_width, Slot, Tls, TpOff, DtpOff, DtpMod, s390_Half,
       s390_Dbl16, ppc_Half, ppc_Low, ppc_DtpRel16, ppc_DtpRel, ppc_TpRel16, ppc_TpRel,
       ppc64_Ds, ppc64_Higher, mips_Got, mips_Global, mips_Undefined, mips_Defined, mips_DtpMod,
       mips_DtpRel, mips_TpRel, Mips, sparc64_Tls, sparc64_Insns
  <2>3. q.type \notin Addr \union Insns \union Still \union ppc64_Ds \union Slot
          \union {"ADDR64", "PC24"}
    BY <1>8 DEF Addr, Insns, Still, ppc64_Ds, ppc_Predicted, sparc64_Insns, Slot, sparc64_Tls,
       sparc64_Insns
  <2>4. LdVal(a, q) = 0
    BY <1>1, <2>3, PlainVal
  <2>5. q.code = LdCode(a, q)
    BY <1>1, <2>3 DEF KinA, FormA, LdCode
  <2> QED BY <1>1, <2>1, <2>2, <2>3, <2>4, <2>5, PutLinked
<1>9. CASE q.type \in {"32", "UA32", "DISP32"}
  <2>1. m = Put(q, 4, 0)
    BY <1>9, <1>2 DEF sparc64_undo_prelink_rela, sparc64_Tls, sparc64_Insns
  <2>2. ld_width(a, q) = 4
    BY <1>1, <1>9 DEF ld_class, ld_width, Slot, Tls, TpOff, DtpOff, DtpMod, s390_Half,
       s390_Dbl16, ppc_Half, ppc_Low, ppc_DtpRel16, ppc_DtpRel, ppc_TpRel16, ppc_TpRel,
       ppc64_Ds, ppc64_Higher, mips_Got, mips_Global, mips_Undefined, mips_Defined, mips_DtpMod,
       mips_DtpRel, mips_TpRel, Mips, sparc64_Tls, sparc64_Insns
  <2>3. q.type \notin Addr \union Insns \union Still \union ppc64_Ds \union Slot
          \union {"ADDR64", "PC24"}
    BY <1>9 DEF Addr, Insns, Still, ppc64_Ds, ppc_Predicted, sparc64_Insns, Slot, sparc64_Tls,
       sparc64_Insns
  <2>4. LdVal(a, q) = 0
    BY <1>1, <2>3, PlainVal
  <2>5. q.code = LdCode(a, q)
    BY <1>1, <2>3 DEF KinA, FormA, LdCode
  <2> QED BY <1>1, <2>1, <2>2, <2>3, <2>4, <2>5, PutLinked
<1>10. CASE q.type \in {"8", "DISP8"}
  <2>1. m = Put(q, 1, 0)
    BY <1>10, <1>2 DEF sparc64_undo_prelink_rela, sparc64_Tls, sparc64_Insns
  <2>2. ld_width(a, q) = 1
    BY <1>1, <1>10 DEF ld_class, ld_width, Slot, Tls, TpOff, DtpOff, DtpMod, s390_Half,
       s390_Dbl16, ppc_Half, ppc_Low, ppc_DtpRel16, ppc_DtpRel, ppc_TpRel16, ppc_TpRel,
       ppc64_Ds, ppc64_Higher, mips_Got, mips_Global, mips_Undefined, mips_Defined, mips_DtpMod,
       mips_DtpRel, mips_TpRel, Mips, sparc64_Tls, sparc64_Insns
  <2>3. q.type \notin Addr \union Insns \union Still \union ppc64_Ds \union Slot
          \union {"ADDR64", "PC24"}
    BY <1>10 DEF Addr, Insns, Still, ppc64_Ds, ppc_Predicted, sparc64_Insns, Slot, sparc64_Tls,
       sparc64_Insns
  <2>4. LdVal(a, q) = 0
    BY <1>1, <2>3, PlainVal
  <2>5. q.code = LdCode(a, q)
    BY <1>1, <2>3 DEF KinA, FormA, LdCode
  <2> QED BY <1>1, <2>1, <2>2, <2>3, <2>4, <2>5, PutLinked
<1>11. CASE q.type \in {"16", "UA16", "DISP16"}
  <2>1. m = Put(q, 2, 0)
    BY <1>11, <1>2 DEF sparc64_undo_prelink_rela, sparc64_Tls, sparc64_Insns
  <2>2. ld_width(a, q) = 2
    BY <1>1, <1>11 DEF ld_class, ld_width, Slot, Tls, TpOff, DtpOff, DtpMod, s390_Half,
       s390_Dbl16, ppc_Half, ppc_Low, ppc_DtpRel16, ppc_DtpRel, ppc_TpRel16, ppc_TpRel,
       ppc64_Ds, ppc64_Higher, mips_Got, mips_Global, mips_Undefined, mips_Defined, mips_DtpMod,
       mips_DtpRel, mips_TpRel, Mips, sparc64_Tls, sparc64_Insns
  <2>3. q.type \notin Addr \union Insns \union Still \union ppc64_Ds \union Slot
          \union {"ADDR64", "PC24"}
    BY <1>11 DEF Addr, Insns, Still, ppc64_Ds, ppc_Predicted, sparc64_Insns, Slot, sparc64_Tls,
       sparc64_Insns
  <2>4. LdVal(a, q) = 0
    BY <1>1, <2>3, PlainVal
  <2>5. q.code = LdCode(a, q)
    BY <1>1, <2>3 DEF KinA, FormA, LdCode
  <2> QED BY <1>1, <2>1, <2>2, <2>3, <2>4, <2>5, PutLinked
<1>12. CASE q.type \in {"LO10", "M44", "HM10"}
  <2>1. m = Put(q, 4, Insert(q.mem.val, 0, 10, 0))
    BY <1>2, <1>12 DEF sparc64_undo_prelink_rela, sparc64_Tls, sparc64_Insns, sparc64_bits
  <2>2. Cleared(q.type, q.mem.val) = Insert(q.mem.val, 0, 10, 0)
    BY <1>12 DEF Cleared, sparc64_bits, ppc_Predicted
  <2>3. q.type \in Insns
    BY <1>12 DEF Insns, sparc64_Insns
  <2> QED BY <1>1, <2>1, <2>2, <2>3, InsnLinked
<1>13. CASE q.type = "L44"
  <2>1. m = Put(q, 4, Insert(q.mem.val, 0, 12, 0))
    BY <1>2, <1>13 DEF sparc64_undo_prelink_rela, sparc64_Tls, sparc64_Insns, sparc64_bits
  <2>2. Cleared(q.type, q.mem.val) = Insert(q.mem.val, 0, 12, 0)
    BY <1>13 DEF Cleared, sparc64_bits, ppc_Predicted
  <2>3. q.type \in Insns
    BY <1>13 DEF Insns, sparc64_Insns
  <2> QED BY <1>1, <2>1, <2>2, <2>3, InsnLinked
<1>14. CASE q.type \in {"OLO10", "TLS_LE_LOX10"}
  <2>1. m = Put(q, 4, Insert(q.mem.val, 0, 13, 0))
    BY <1>2, <1>14 DEF sparc64_undo_prelink_rela, sparc64_Tls, sparc64_Insns, sparc64_bits
  <2>2. Cleared(q.type, q.mem.val) = Insert(q.mem.val, 0, 13, 0)
    BY <1>14 DEF Cleared, sparc64_bits, ppc_Predicted
  <2>3. q.type \in Insns
    BY <1>14 DEF Insns, sparc64_Insns
  <2> QED BY <1>1, <2>1, <2>2, <2>3, InsnLinked
<1>15. CASE q.type \in {"LM22", "HI22", "H44", "HH22", "TLS_LE_HIX22"}
  <2>1. m = Put(q, 4, Insert(q.mem.val, 0, 22, 0))
    BY <1>2, <1>15 DEF sparc64_undo_prelink_rela, sparc64_Tls, sparc64_Insns, sparc64_bits
  <2>2. Cleared(q.type, q.mem.val) = Insert(q.mem.val, 0, 22, 0)
    BY <1>15 DEF Cleared, sparc64_bits, ppc_Predicted
  <2>3. q.type \in Insns
    BY <1>15 DEF Insns, sparc64_Insns
  <2> QED BY <1>1, <2>1, <2>2, <2>3, InsnLinked
<1>16. CASE q.type = "WDISP30"
  <2>1. m = Put(q, 4, Insert(q.mem.val, 0, 30, 0))
    BY <1>2, <1>16 DEF sparc64_undo_prelink_rela, sparc64_Tls, sparc64_Insns, sparc64_bits
  <2>2. Cleared(q.type, q.mem.val) = Insert(q.mem.val, 0, 30, 0)
    BY <1>16 DEF Cleared, sparc64_bits, ppc_Predicted
  <2>3. q.type \in Insns
    BY <1>16 DEF Insns, sparc64_Insns
  <2> QED BY <1>1, <2>1, <2>2, <2>3, InsnLinked
<1> QED BY <1>3, <1>4, <1>5, <1>6, <1>7, <1>8, <1>9, <1>10, <1>11, <1>12, <1>13, <1>14, <1>15,
           <1>16 DEF sparc64_Tls, sparc64_Insns
=============================================================================
