------------------------- MODULE TransparentProofs --------------------------
(***************************************************************************)
(* Prelinking is transparent, on every architecture with RELA relocations  *)
(* and for every set of bases, addends and slots: what a program finds at  *)
(* the place of a relocation when ld.so has used the prelinked objects and *)
(* applied the conflicts of the executable is what it finds when ld.so     *)
(* relocates the objects that ld made.  For each architecture: what        *)
(* prelinking and the conflicts leave in the word, and that ld.so computes *)
(* the same.                                                               *)
(***************************************************************************)
EXTENDS RelocationProofs

-----------------------------------------------------------------------------

(* The word of q when ld.so has applied what a conflict callback made.     *)
Out(a, q, cfl) == ld_so_conflicts(a, q, cfl.rela)

(* The PLT entry, if there is one, does not jump to a resolved function    *)
(* yet.                                                                    *)
Calm(q) == q.code.how \in {"none", "lazy"}

(* A slot that is calm has nothing to say of what is called.               *)
LEMMA CalmCalls ==
  ASSUME NEW a, NEW q, Calm(q), NEW v
  PROVE  ld_so_calls(a, q, v) = 0
  BY DEF Calm, ld_so_calls

(* Without a conflict the word is as prelinked.                            *)
LEMMA OutNone ==
  ASSUME NEW a, NEW q
  PROVE  Out(a, q, None) = Word(q.mem.width, q.mem.val, ld_so_calls(a, q, q.mem.val))
           /\ None.ok /\ None.rela = << >>
  BY DEF Out, ld_so_conflicts, None, Word

(* A callback that succeeds with an entry.                                 *)
LEMMA EntryIs ==
  ASSUME NEW t, NEW v
  PROVE  /\ Entry(t, v).ok /\ Entry(t, v).rela # << >> /\ Len(Entry(t, v).rela) = 1
         /\ Entry(t, v).rela[1] = [type |-> t, addend |-> v]
  BY DEF Entry

(* A callback that fails.                                                  *)
LEMMA RefuseIs == ~ Refuse.ok /\ Refuse.rela = << >>
  BY DEF Refuse

(* Conflicts of 8 bytes.                                                   *)
Doubles == {"64", "UA64", "ADDR64", "UADDR64"}

(* Conflicts of 4 bytes.                                                   *)
Singles == {"32", "UA32", "ADDR32", "UADDR32", "ABS32"}

(* What ld.so does with each type of conflict.                             *)
LEMMA OutEntry ==
  ASSUME NEW a, NEW q, NEW t, NEW v
  PROVE  /\ t = "TLS_DESC" =>
              Out(a, q, Entry(t, v)) = Word(q.mem.width, q.mem.val, ld_so_calls(a, q, q.mem.val))
         /\ t = "IRELATIVE" =>
              Out(a, q, Entry(t, v)) = Word(q.class, ld_so_ifunc(v), ld_so_calls(a, q, ld_so_ifunc(v)))
         /\ t = "JMP_IREL" =>
              Out(a, q, Entry(t, v)) = Word(24, Opd(ld_so_ifunc(v)), ld_so_calls(a, q, Opd(ld_so_ifunc(v))))
         /\ t \in Doubles => Out(a, q, Entry(t, v)) = Word(8, v, ld_so_calls(a, q, v))
         /\ t \in Singles => Out(a, q, Entry(t, v)) = Word(4, v, ld_so_calls(a, q, v))
         /\ t \in {"ADDR16", "UADDR16"} =>
              Out(a, q, Entry(t, v)) = Word(2, Lo16(v), ld_so_calls(a, q, Lo16(v)))
         /\ t \in {"16", "UA16"} => Out(a, q, Entry(t, v)) = Word(2, v, ld_so_calls(a, q, v))
         /\ t = "8" => Out(a, q, Entry(t, v)) = Word(1, v, ld_so_calls(a, q, v))
         /\ t \in {"GLOB_DAT", "REFQUAD", "DIR32", "REL32"} =>
              Out(a, q, Entry(t, v)) = Word(q.class, v, ld_so_calls(a, q, v))
         /\ t \in Slot /\ a = "ppc64" /\ q.code = NoCode =>
              Out(a, q, Entry(t, v)) = Word(24, Opd(v), ld_so_calls(a, q, Opd(v)))
         /\ t \in Slot /\ a # "ppc64" /\ q.code = NoCode =>
              Out(a, q, Entry(t, v)) = Word(q.class, v, ld_so_calls(a, q, v))
         /\ t \in Slot /\ a \notin {"ppc64", "alpha"} /\ q.code # NoCode =>
              Out(a, q, Entry(t, v)) = Word(q.mem.width, q.mem.val, v)
         /\ t \in Slot /\ a = "alpha" /\ q.code # NoCode =>
              Out(a, q, Entry(t, v)) = Word(8, v, v)
<1> DEFINE e == [type |-> t, addend |-> v]
           es == Entry(t, v).rela
<1>1. es # << >> /\ es[Len(es)] = e
  BY EntryIs
<1>2. e.type = t /\ e.addend = v
  OBVIOUS
<1> HIDE DEF e, es
<1>3. ASSUME t = "TLS_DESC"
             PROVE Out(a, q, Entry(t, v)) = Word(q.mem.width, q.mem.val, ld_so_calls(a, q, q.mem.val))
  BY <1>1, <1>2, <1>3 DEF Out, ld_so_conflicts, Word, Slot, es, Doubles, Singles
<1>4. ASSUME t = "IRELATIVE"
             PROVE Out(a, q, Entry(t, v)) = Word(q.class, ld_so_ifunc(v), ld_so_calls(a, q, ld_so_ifunc(v)))
  BY <1>1, <1>2, <1>4 DEF Out, ld_so_conflicts, Word, Slot, es, Doubles, Singles
<1>5. ASSUME t = "JMP_IREL"
             PROVE Out(a, q, Entry(t, v)) = Word(24, Opd(ld_so_ifunc(v)), ld_so_calls(a, q, Opd(ld_so_ifunc(v))))
  BY <1>1, <1>2, <1>5 DEF Out, ld_so_conflicts, Word, Slot, es, Doubles, Singles
<1>6. ASSUME t \in Doubles PROVE Out(a, q, Entry(t, v)) = Word(8, v, ld_so_calls(a, q, v))
  BY <1>1, <1>2, <1>6 DEF Out, ld_so_conflicts, Word, Slot, es, Doubles, Singles
<1>7. ASSUME t \in Singles PROVE Out(a, q, Entry(t, v)) = Word(4, v, ld_so_calls(a, q, v))
  BY <1>1, <1>2, <1>7 DEF Out, ld_so_conflicts, Word, Slot, es, Doubles, Singles
<1>8. ASSUME t \in {"ADDR16", "UADDR16"}
             PROVE Out(a, q, Entry(t, v)) = Word(2, Lo16(v), ld_so_calls(a, q, Lo16(v)))
  BY <1>1, <1>2, <1>8 DEF Out, ld_so_conflicts, Word, Slot, es, Doubles, Singles
<1>9. ASSUME t \in {"16", "UA16"}
             PROVE Out(a, q, Entry(t, v)) = Word(2, v, ld_so_calls(a, q, v))
  BY <1>1, <1>2, <1>9 DEF Out, ld_so_conflicts, Word, Slot, es, Doubles, Singles
<1>10. ASSUME t = "8" PROVE Out(a, q, Entry(t, v)) = Word(1, v, ld_so_calls(a, q, v))
  BY <1>1, <1>2, <1>10 DEF Out, ld_so_conflicts, Word, Slot, es, Doubles, Singles
<1>11. ASSUME t \in {"GLOB_DAT", "REFQUAD", "DIR32", "REL32"}
              PROVE Out(a, q, Entry(t, v)) = Word(q.class, v, ld_so_calls(a, q, v))
  BY <1>1, <1>2, <1>11 DEF Out, ld_so_conflicts, Word, Slot, es, Doubles, Singles
<1>12. ASSUME t \in Slot /\ a = "ppc64" /\ q.code = NoCode
              PROVE Out(a, q, Entry(t, v)) = Word(24, Opd(v), ld_so_calls(a, q, Opd(v)))
  BY <1>1, <1>2, <1>12 DEF Out, ld_so_conflicts, Word, Slot, es, Doubles, Singles
<1>13. ASSUME t \in Slot /\ a # "ppc64" /\ q.code = NoCode
              PROVE Out(a, q, Entry(t, v)) = Word(q.class, v, ld_so_calls(a, q, v))
  BY <1>1, <1>2, <1>13 DEF Out, ld_so_conflicts, Word, Slot, es, Doubles, Singles
<1>14. ASSUME t \in Slot /\ a \notin {"ppc64", "alpha"} /\ q.code # NoCode
              PROVE Out(a, q, Entry(t, v)) = Word(q.mem.width, q.mem.val, v)
  BY <1>1, <1>2, <1>14 DEF Out, ld_so_conflicts, Word, Slot, es, Doubles, Singles
<1>15. ASSUME t \in Slot /\ a = "alpha" /\ q.code # NoCode
              PROVE Out(a, q, Entry(t, v)) = Word(8, v, v)
  BY <1>1, <1>2, <1>15 DEF Out, ld_so_conflicts, Word, Slot, es, Doubles, Singles
<1> QED BY <1>3, <1>4, <1>5, <1>6, <1>7, <1>8, <1>9, <1>10, <1>11, <1>12, <1>13, <1>14, <1>15

(* The symbol of q as prelink resolved it (s) and as the conflict has it   *)
(* (c), against the value x that ld.so finds in the program: without a     *)
(* conflict they are the same, and with one the conflict has x, or the     *)
(* ifunc that returns it.                                                  *)
PlainSym(q, s, c, x) ==
  /\ s \in Syms /\ x \in Int /\ c.found \in BOOLEAN /\ c.ifunc \in BOOLEAN /\ c.val \in Int
  /\ ~ c.found => s.val = x /\ ~ c.ifunc
  /\ c.found /\ ~ c.ifunc => c.val = x /\ ~ q.exec
  /\ c.found /\ c.ifunc => ld_so_ifunc(c.val) = x

(* The same of a TLS symbol, with the TLS block b of the object that       *)
(* defines it: libraries have a conflict for each offset in a block, and   *)
(* an executable has none.                                                 *)
TlsSym(q, s, c, x, b) ==
  /\ s \in Syms /\ x \in Int /\ b.offset \in Int /\ b.modid \in Int
  /\ c.found \in BOOLEAN /\ c.same \in BOOLEAN /\ ~ c.ifunc
  /\ c.found => c.isTls /\ ~ q.exec
  /\ q.type \in DtpOff /\ ~ q.exec => c.found
  /\ ~ q.exec => ConflictValue(c) = x /\ ConflictTls(c, Block("self")) = b
  /\ q.exec \/ (c.found /\ c.same) => s.val = x /\ s.isTls /\ s.tlsoffset = b.offset
       /\ s.modid = b.modid

(* An object that is mapped where it was prelinked to is not moved.        *)
LEMMA MappedSame ==
  ASSUME NEW q \in Relocs
  PROVE  ld_so_mapped(q, q.base) = q
  BY DEF ld_so_mapped, Relocs

(* No conflict.                                                            *)
LEMMA NoConflictIs ==
  ASSUME NEW c, c = NoConflict
  PROVE  ~ c.found /\ ~ c.ifunc /\ ~ c.same /\ c.found \in BOOLEAN /\ c.ifunc \in BOOLEAN
           /\ c.val \in Int
  BY DEF NoConflict

(* prelink_get_relocations records a conflict whenever the lookups in the  *)
(* library and in the program disagree or find an ifunc.                   *)
LEMMA PlainSymIs ==
  ASSUME NEW o, o.type \notin Tls \union NoSymbol,
         NEW d \in OwnSymbols(arch, o), NEW g \in GlobalSymbols(arch, o, d),
         NEW p \in Relocs, NEW q \in Relocs, NEW z \in Relocs,
         p.base = q.base, z.base = q.base, p.exec = q.exec, z.exec = q.exec, o.exec = q.exec,
         p.type \notin Tls, q.type \notin Tls, z.type \notin Tls,
         RelocClass(arch, z.type) # "TLS",
         NEW s, s = Resolve(p, d), NEW c, c = ConflictOf(z, d, g)
  PROVE  /\ PlainSym(q, s, c, At(q, q.base, g))
         /\ c.ifunc => IfuncFits(arch, o)
<1> DEFINE none == [val |-> 0, isTls |-> FALSE, modid |-> 0, tlsoffset |-> 0]
<1>1. /\ d \in {"none", "self", "selfi", "other", "otheri"}
      /\ d \in Ifunc => IfuncFits(arch, o)
  BY DEF OwnSymbols, Fitting, Ifunc
<1>2. /\ g \in {"none", "self", "selfi", "other", "otheri", "exe"}
      /\ g \in Ifunc => IfuncFits(arch, o)
      /\ q.exec => g = d
  BY <1>1 DEF GlobalSymbols, Fitting, Ifunc
<1>3. q.base \in Nat /\ q.exec \in BOOLEAN
  BY DEF Relocs
<1>4. /\ Value(p, d) = Address(d, q.base) /\ Value(z, g) = Address(g, q.base)
           /\ Value(q, g) = Address(g, q.base)
  BY DEF Value
<1>5. Address(d, q.base) \in Int /\ Address(g, q.base) \in Int
  BY <1>1, <1>2, <1>3 DEF Address
<1>6. At(q, q.base, g) = IF g \in Ifunc THEN ld_so_ifunc(Address(g, q.base))
        ELSE Address(g, q.base)
  BY <1>4, MappedSame DEF At, ld_so_symbol
<1>7. Block(d).modid \in Int /\ Block(d).offset \in Int
  BY <1>1 DEF Block
<1>8. /\ s \in Syms
      /\ d \notin Ifunc => s.val = Address(d, q.base)
  <2>1. CASE d = "none" \/ (p.exec /\ d \in Ifunc)
    BY <1>1, <2>1 DEF Resolve, Syms, Address, Ifunc
  <2>2. CASE ~ (d = "none" \/ (p.exec /\ d \in Ifunc))
    <3>1. s = [val |-> Value(p, d), isTls |-> RelocClass(arch, p.type) = "TLS", modid |-> Block(d).modid, tlsoffset |-> Block(d).offset]
      BY <1>1, <2>2 DEF Resolve
    <3>2. (RelocClass(arch, p.type) = "TLS") \in BOOLEAN
      OBVIOUS
    <3> QED BY <1>4, <1>5, <1>7, <3>1, <3>2 DEF Syms
  <2> QED BY <2>1, <2>2
<1>9. CASE g # d \/ g \in Ifunc
  <2>1. c = [found |-> TRUE, val |-> Value(z, g), same |-> g = d, ifunc |-> g \in Ifunc,
        isTls |-> RelocClass(arch, z.type) = "TLS" /\ g # "none",
        modid |-> Block(g).modid, tlsoffset |-> Block(g).offset]
    BY <1>1, <1>9 DEF ConflictOf
  <2>2. c.found = TRUE /\ c.val = Value(z, g) /\ c.ifunc = (g \in Ifunc)
    BY <2>1
  <2>3. (g \in Ifunc) \in BOOLEAN /\ At(q, q.base, g) \in Int
    BY <1>5, <1>6 DEF ld_so_ifunc
  <2> HIDE <2>1
  <2>4. PlainSym(q, s, c, At(q, q.base, g))
    BY <1>2, <1>4, <1>5, <1>6, <1>8, <1>9, <2>2, <2>3 DEF PlainSym
  <2> QED BY <1>2, <2>2, <2>4
<1>10. CASE ~ (g # d \/ g \in Ifunc)
  <2>1. c = NoConflict
    BY <1>10 DEF ConflictOf
  <2>3. g = d /\ g \notin Ifunc
    BY <1>10
  <2>4. s.val = At(q, q.base, g) /\ At(q, q.base, g) \in Int
    BY <1>5, <1>6, <1>8, <2>3
  <2>5. ~ c.found /\ ~ c.ifunc /\ c.found \in BOOLEAN /\ c.ifunc \in BOOLEAN /\ c.val \in Int
    BY <2>1, NoConflictIs
  <2> HIDE <2>1
  <2>6. PlainSym(q, s, c, At(q, q.base, g))
    BY <1>8, <2>4, <2>5 DEF PlainSym
  <2> QED BY <2>5, <2>6
<1> QED BY <1>9, <1>10

(* prelink_get_relocations records every TLS lookup of a library as a      *)
(* conflict.                                                               *)
LEMMA TlsSymIs ==
  ASSUME NEW o, o.type \in Tls, NEW d \in OwnSymbols(arch, o),
             NEW g \in GlobalSymbols(arch, o, d),
         NEW p \in Relocs, NEW q \in Relocs, NEW z \in Relocs, o.type \notin NoSymbol,
         p.base = q.base, z.base = q.base, p.exec = q.exec, z.exec = q.exec, o.exec = q.exec,
         p.type = o.type, q.type = o.type, z.type = o.type, RelocClass(arch, o.type) = "TLS",
         NEW s, s = Resolve(p, d), NEW c, c = ConflictOf(z, d, g)
  PROVE  TlsSym(q, s, c, At(q, q.base, g), Block(g))
<1>1. d \in {"local", "self", "other"} /\ (d = "local" => ~ q.exec /\ q.type \notin DtpOff)
  BY DEF OwnSymbols
<1>2. g \in {"local", "self", "other", "exe"} /\ (q.exec \/ d = "local" => g = d)
  BY <1>1 DEF GlobalSymbols
<1>3. q.exec \in BOOLEAN
  BY DEF Relocs
<1>4. Value(p, d) = TlsAddress(d) /\ Value(z, g) = TlsAddress(g) /\ Value(q, g) = TlsAddress(g)
  BY DEF Value
<1>5. TlsAddress(d) \in Int /\ TlsAddress(g) \in Int
  BY <1>1, <1>2 DEF TlsAddress
<1>6. At(q, q.base, g) = TlsAddress(g)
  BY <1>2, <1>4, MappedSame DEF At, ld_so_symbol, Ifunc
<1>7. /\ Block(d).modid \in Int /\ Block(d).offset \in Int /\ Block(g).modid \in Int
           /\ Block(g).offset \in Int
      /\ Block("local") = Block("self") /\ TlsAddress("local") = 0
      /\ Block(g) = [modid |-> Block(g).modid, offset |-> Block(g).offset]
  BY <1>1, <1>2 DEF Block, TlsAddress
<1>8. /\ s \in Syms
      /\ d # "local" => s.val = TlsAddress(d) /\ s.isTls /\ s.modid = Block(d).modid
           /\ s.tlsoffset = Block(d).offset
  <2>1. CASE d = "local"
    BY <1>1, <2>1 DEF Resolve, Syms
  <2>2. CASE d # "local"
    <3>1. s = [val |-> Value(p, d), isTls |-> RelocClass(arch, p.type) = "TLS", modid |-> Block(d).modid, tlsoffset |-> Block(d).offset]
      BY <1>1, <2>2 DEF Resolve, Ifunc
    <3>2. (RelocClass(arch, p.type) = "TLS") = TRUE
      OBVIOUS
    <3>3. s = [val |-> Value(p, d), isTls |-> TRUE, modid |-> Block(d).modid, tlsoffset |-> Block(d).offset]
      BY <3>1, <3>2
    <3> HIDE <3>1
    <3>4. s.val = Value(p, d) /\ s.isTls = TRUE /\ s.modid = Block(d).modid
            /\ s.tlsoffset = Block(d).offset
      BY <3>3
    <3>5. s \in Syms
      BY <1>4, <1>5, <1>7, <3>3 DEF Syms
    <3> HIDE <3>3
    <3> QED BY <1>4, <3>4, <3>5
  <2> QED BY <2>1, <2>2
<1>9. CASE d # "local" /\ (g # d \/ ~ q.exec)
  <2>1. c = [found |-> TRUE, val |-> Value(z, g), same |-> g = d, ifunc |-> g \in Ifunc,
        isTls |-> RelocClass(arch, z.type) = "TLS" /\ g # "none",
        modid |-> Block(g).modid, tlsoffset |-> Block(g).offset]
    BY <1>9 DEF ConflictOf
  <2>2. c.found = TRUE /\ c.val = TlsAddress(g) /\ c.ifunc = FALSE /\ c.isTls = TRUE
          /\ c.same = (g = d)
        /\ c.modid = Block(g).modid /\ c.tlsoffset = Block(g).offset
    <3>1. g \notin Ifunc /\ g # "none"
      BY <1>2 DEF Ifunc
    <3>2. (RelocClass(arch, z.type) = "TLS" /\ g # "none") = TRUE /\ (g \in Ifunc) = FALSE
      BY <3>1
    <3>3. c = [found |-> TRUE, val |-> TlsAddress(g), same |-> g = d, ifunc |-> FALSE, isTls |-> TRUE,
               modid |-> Block(g).modid, tlsoffset |-> Block(g).offset]
      BY <1>4, <2>1, <3>2
    <3> QED BY <3>3
  <2> HIDE <2>1
  <2>3. ConflictValue(c) = TlsAddress(g) /\ ConflictTls(c, Block("self")) = Block(g)
    BY <1>7, <2>2 DEF ConflictValue, ConflictTls
  <2>4. ~ q.exec
    BY <1>2, <1>9
  <2>5. (g = d) \in BOOLEAN
    OBVIOUS
  <2> QED BY <1>5, <1>6, <1>7, <1>8, <1>9, <2>2, <2>3, <2>4, <2>5 DEF TlsSym
<1>10. CASE ~ (d # "local" /\ (g # d \/ ~ q.exec))
  <2>1. c = NoConflict
    BY <1>2, <1>10 DEF ConflictOf, Ifunc
  <2>2. c.found = FALSE /\ c.same = FALSE /\ c.ifunc = FALSE
    BY <2>1 DEF NoConflict
  <2>3. ConflictValue(c) = 0 /\ ConflictTls(c, Block("self")) = Block("self")
    BY <2>2 DEF ConflictValue, ConflictTls
  <2> HIDE <2>1
  <2>4. (q.exec /\ d # "local" /\ g = d) \/ (~ q.exec /\ d = "local" /\ g = d)
    BY <1>1, <1>2, <1>10
  <2>5. CASE q.exec /\ d # "local" /\ g = d
    BY <1>5, <1>6, <1>7, <1>8, <2>2, <2>5 DEF TlsSym
  <2>6. CASE ~ q.exec /\ d = "local" /\ g = d
    BY <1>1, <1>5, <1>6, <1>7, <1>8, <2>2, <2>3, <2>6 DEF TlsSym
  <2> QED BY <2>4, <2>5, <2>6
<1> QED BY <1>9, <1>10

(* Types of which ld.so changes a part of the word, or a scaled value.     *)
Partial == Insns \union Halves \union {"PC24"} \union ppc64_Ds \union Dbl \union ppc64_Higher

(* The others are written as they are.                                     *)
LEMMA WholeInsert ==
  ASSUME NEW t, t \notin Partial, NEW w, NEW x \in Int
  PROVE  ld_so_insert(t, w, x) = x
<1>1. t \notin Predicted \union ppc64_Higher \union Dbl \union ppc64_Ds \union SparcInsns
        \union ppc_Low
  BY DEF Partial, Insns, SparcInsns, Predicted, Halves, ppc_Half
<1>2. ld_so_field(t) = Bits(0, 1, 0, 0)
  BY <1>1 DEF ld_so_field, Partial, Insns, SparcInsns, sparc64_Insns, Halves, ppc_Half,
     ppc_DtpRel16, ppc_TpRel16
<1>3. ld_so_insert(t, w, x) = (x + 0) \div 1
  BY <1>1, <1>2 DEF ld_so_insert, Bits, SparcInsns, sparc64_Insns
<1> QED BY <1>3

(* What ld.so computes for a relocation of a whole word, of an object at   *)
(* its base.                                                               *)
LEMMA WholeFinal ==
  ASSUME NEW a, NEW q \in Relocs, q.rela, q.type \notin Special \union Partial \union DtpOff
             \union TpOff,
         NEW d, NEW x \in Int, x = At(q, q.base, d)
  PROVE  /\ q.type \notin PcRel(a) =>
              ld_so_relocate(a, q, q.base, d) = Word(ld_width(a, q), x + q.addend, 0)
         /\ q.type \in PcRel(a) =>
              ld_so_relocate(a, q, q.base, d) = Word(ld_width(a, q), x + q.addend - P(q), 0)
<1>1. ld_so_addend(a, q) = q.addend
  BY DEF ld_so_addend
<1>2. q.addend \in Int /\ P(q) \in Int
  BY DEF Relocs, P
<1>3. q.type \notin Special
  OBVIOUS
<1>4. ld_so_relocate(a, q, q.base, d) = Word(ld_width(a, q), ld_so_insert(q.type, q.mem.val, ld_so_operand(a, q, x + q.addend, d)), 0)
  BY <1>1, <1>3, RelocateOther, MappedSame
<1>5. CASE q.type \notin PcRel(a)
  <2>1. ld_so_operand(a, q, x + q.addend, d) = x + q.addend
    BY <1>5 DEF ld_so_operand
  <2> QED BY <1>2, <1>4, <1>5, <2>1, WholeInsert
<1>6. CASE q.type \in PcRel(a)
  <2>1. ld_so_operand(a, q, x + q.addend, d) = (x + q.addend) - P(q)
    BY <1>6 DEF ld_so_operand
  <2>2. (x + q.addend) - P(q) \in Int
    BY <1>2
  <2>3. ld_so_insert(q.type, q.mem.val, (x + q.addend) - P(q)) = (x + q.addend) - P(q)
    BY <2>2, WholeInsert
  <2> QED BY <1>2, <1>4, <1>6, <2>1, <2>3
<1> QED BY <1>5, <1>6

(* What ld.so computes for a PLT slot without code.                        *)
LEMMA SlotFinal ==
  ASSUME NEW a, a \notin {"ppc64", "sparc64"}, NEW q \in Relocs, q.rela, q.type \in Slot,
             q.code = NoCode,
         NEW d, NEW x \in Int, x = At(q, q.base, d)
  PROVE  ld_so_relocate(a, q, q.base, d) = Word(ld_width(a, q), x + q.addend, 0)
<1>1. ld_so_addend(a, q) = q.addend
  BY DEF ld_so_addend
<1>2. q.addend \in Int
  BY DEF Relocs
<1>3. ld_so_relocate(a, q, q.base, d) = Word(ld_width(a, q), ld_so_insert(q.type, q.mem.val, ld_so_operand(a, q, x + q.addend, d)), 0)
  BY <1>1, RelocateSlot, MappedSame
<1>4. q.type \notin Partial \union PcRel(a) \union DtpOff \union TpOff
  <2>1. q.type \notin Tls \union Insns \union Halves \union ppc64_Ds \union {"PC24"}
    BY SlotTypes
  <2>2. q.type \notin PcRel(a) \union Dbl \union ppc64_Higher
    BY DEF Slot, PcRel, Dbl, s390_Dbl, s390_Dbl16, ppc64_Higher
  <2> QED BY <2>1, <2>2 DEF Partial, Tls
<1>5. ld_so_operand(a, q, x + q.addend, d) = x + q.addend
  BY <1>4 DEF ld_so_operand
<1> QED BY <1>2, <1>3, <1>4, <1>5, WholeInsert

-----------------------------------------------------------------------------
(* x86_64 and x32.                                                         *)

(* One relocation when the conflicts of an executable are known: the       *)
(* original o, what arch_pre_prelink left (g), the prelinked one (q),      *)
(* whose word was computed with the symbol s, and the one that the         *)
(* conflict was computed from (z), which is the prelinked one in a         *)
(* library.                                                                *)
Scene(a, g, q, o, s, z) ==
  /\ KinA(a, g, o) /\ FormA(a, o) /\ KinA(a, q, o) /\ KinA(a, z, o)
  /\ q.base = g.base /\ z.base = q.base
  /\ ~ q.exec => z = q
  /\ q.mem = PrelinkRel(a, g, s).mem /\ q.code = PrelinkRel(a, g, s).code
       /\ q.addend = PrelinkRel(a, g, s).addend

(* All of these agree but for the word, the addends of addresses and       *)
(* slots, and the code.                                                    *)
LEMMA SceneFacts ==
  ASSUME NEW a, NEW g, NEW q, NEW o, NEW s, NEW z, Scene(a, g, q, o, s, z)
  PROVE  /\ q \in Relocs /\ g \in Relocs /\ z \in Relocs /\ q.rela /\ LdType(a, q)
         /\ q.type = o.type /\ g.type = q.type /\ z.type = q.type
         /\ q.class = ld_class(a) /\ g.class = q.class /\ z.class = q.class
         /\ g.exec = q.exec /\ z.exec = q.exec /\ o.exec = q.exec /\ q.exec \in BOOLEAN
         /\ q.addend \in Int /\ g.mem.val \in Int /\ q.mem.val \in Int
         /\ q.base \in Int /\ P(q) \in Int /\ P(g) = P(q) /\ P(z) = P(q)
         /\ q.type \notin Addr \union Slot => g.addend = q.addend /\ z.addend = q.addend
              /\ o.addend = q.addend
<1>1. /\ q \in Relocs /\ Typed(q) /\ LdType(a, q) /\ q.class = ld_class(a) /\ q.type = o.type
           /\ q.rela /\ Placed(q, o)
      /\ q.addend \in Int /\ q.mem.val \in Int /\ q.base \in Int /\ q.off \in Int
  BY KinFacts DEF Scene
<1>2. g \in Relocs /\ g.class = ld_class(a) /\ g.type = o.type /\ Placed(g, o)
        /\ g.mem.val \in Int /\ g.base = q.base
  BY KinFacts DEF Scene
<1>3. z \in Relocs /\ z.class = ld_class(a) /\ z.type = o.type /\ Placed(z, o)
        /\ z.base = q.base
  BY KinFacts DEF Scene
<1>4. P(q) \in Int /\ P(g) = P(q) /\ P(z) = P(q) /\ g.exec = q.exec /\ z.exec = q.exec
        /\ o.exec = q.exec
  BY <1>1, <1>2, <1>3 DEF P, Placed
<1>5. q.type \notin Addr \union Slot => g.addend = q.addend /\ z.addend = q.addend
        /\ o.addend = q.addend
  BY <1>1, <1>2, <1>3 DEF Scene, KinA
<1>6. q.exec \in BOOLEAN
  BY <1>1 DEF Typed
<1> QED BY <1>1, <1>2, <1>3, <1>4, <1>5, <1>6

(* Put writes the word and leaves the code.                                *)
LEMMA PutMem ==
  ASSUME NEW q \in Relocs, NEW w, NEW v
  PROVE  Put(q, w, v).mem = [width |-> w, val |-> v] /\ Put(q, w, v).code = q.code
  BY DEF Put, Relocs

(* x86_64, x32: the word of an absolute or relative relocation with a      *)
(* symbol.                                                                 *)
LEMMA X8664Plain ==
  ASSUME NEW a \in X86_64, NEW g, NEW q, NEW o, NEW s, NEW z, Scene(a, g, q, o, s, z),
         q.type \in {"GLOB_DAT", "64", "32", "PC32"},
         NEW c, NEW d, NEW x, x = At(q, q.base, d), PlainSym(q, s, c, x), c.ifunc =>
               IfuncFits(a, o),
         NEW cfl, cfl = ConflictRel(a, z, c, Block("self")), cfl.ok
  PROVE  Out(a, q, cfl) = ld_so_relocate(a, q, q.base, d)
<1> DEFINE n == q.addend
           v(y) == IF q.type = "PC32" THEN y + n - P(q) ELSE y + n
           w == ld_width(a, q)
           t == CASE q.type = "GLOB_DAT" -> (IF q.class = 4 THEN "32" ELSE "64") [] q.type = "PC32" -> "32" [] OTHER -> q.type
<1>1. /\ q \in Relocs /\ g \in Relocs /\ z \in Relocs /\ q.rela
      /\ g.type = q.type /\ z.type = q.type /\ z.class = q.class /\ g.class = q.class
           /\ z.exec = q.exec
      /\ q.addend \in Int /\ P(q) \in Int /\ P(g) = P(q) /\ P(z) = P(q) /\ q.exec \in BOOLEAN
      /\ q.class = ld_class(a)
  BY SceneFacts
<1>2. q.type \notin Special \union Partial \union DtpOff \union TpOff \union Addr \union Slot
  BY DEF Special, Partial, DtpOff, TpOff, Addr, Slot, DtpMod, mips_DtpMod, Insns, ppc_Predicted,
     sparc64_Insns, Halves, ppc_Half, ppc_Low, ppc_DtpRel16, ppc_TpRel16, ppc_DtpRel, ppc_TpRel,
     mips_DtpRel, mips_TpRel, ppc64_Ds, ppc64_Higher, Dbl, s390_Dbl, s390_Dbl16
<1>3. g.addend = n /\ z.addend = n
  BY <1>2, SceneFacts
<1>4. w = (CASE q.type = "GLOB_DAT" -> q.class [] q.type = "64" -> 8 [] OTHER -> 4)
  BY <1>2 DEF ld_width, Special, Slot, s390_Half, s390_Dbl16, ppc_Half, ppc_Low, ppc_DtpRel16,
     ppc_TpRel16, ppc64_Ds, ppc64_Higher, mips_Got, mips_Global, mips_Undefined, mips_Defined,
     Tls, DtpOff, TpOff, Mips, X86_64
<1>5. ld_so_relocate(a, q, q.base, d) = Word(w, v(x), 0)
  <2>1. x \in Int
    BY DEF PlainSym
  <2>2. q.type \in PcRel(a) <=> q.type = "PC32"
    BY DEF PcRel, X86_64, Mips, Dbl, s390_Dbl, s390_Dbl16
  <2>3. CASE q.type \in PcRel(a)
    <3>1. ld_so_relocate(a, q, q.base, d) = Word(w, x + q.addend - P(q), 0)
      BY <1>1, <1>2, <2>1, <2>3, WholeFinal, ZenonT(40)
    <3> QED BY <2>2, <2>3, <3>1
  <2>4. CASE q.type \notin PcRel(a)
    <3>1. ld_so_relocate(a, q, q.base, d) = Word(w, x + q.addend, 0)
      BY <1>1, <1>2, <2>1, <2>4, WholeFinal, ZenonT(40)
    <3> QED BY <2>2, <2>4, <3>1
  <2> QED BY <2>3, <2>4
<1>6. q.mem = [width |-> w, val |-> v(s.val)] /\ q.code = g.code
  <2>1. x86_64_prelink_rela(g, s) = Put(g, w, v(s.val))
    BY <1>1, <1>3, <1>4 DEF x86_64_prelink_rela
  <2>2. PrelinkRel(a, g, s) = x86_64_prelink_rela(g, s)
    BY DEF PrelinkRel, X86_64, Ppc, Mips
  <2> QED BY <1>1, <2>1, <2>2, PutMem DEF Scene
<1>7. \A y : ld_so_calls(a, q, y) = 0
  <2>1. g.code = NoCode
    BY <1>1, <1>2 DEF Scene, KinA, FormA, LdCode, X86_64
  <2> QED BY <1>6, <2>1, CalmCalls DEF Calm, NoCode
<1>8. ConflictRel(a, z, c, Block("self")) = x86_64_prelink_conflict_rela(z, c, Block("self"))
  BY DEF ConflictRel, X86_64, Ppc, Mips
<1>9. CASE ~ c.found
  <2>1. cfl = None
    BY <1>1, <1>8, <1>9 DEF x86_64_prelink_conflict_rela, Unneeded
  <2>2. s.val = x
    BY <1>9 DEF PlainSym
  <2> QED BY <1>5, <1>6, <1>7, <2>1, <2>2, OutNone
<1>10. CASE c.found /\ ~ c.ifunc
  <2>1. c.val = x /\ ~ q.exec
    BY <1>10 DEF PlainSym
  <2>2. cfl = Entry(t, v(c.val))
    BY <1>1, <1>3, <1>8, <1>10, <2>1 DEF x86_64_prelink_conflict_rela, Unneeded
  <2>3. Out(a, q, Entry(t, v(c.val))) = Word(w, v(c.val), 0)
    BY <1>1, <1>4, <1>7, OutEntry DEF Doubles, Singles, ld_class
  <2> QED BY <1>5, <2>1, <2>2, <2>3
<1>11. CASE c.found /\ c.ifunc
  <2>1. ld_so_ifunc(c.val) = x /\ c.val \in Int
    BY <1>11 DEF PlainSym
  <2>2. q.type # "PC32" /\ w = q.class /\ n = 0
    <3>1. IfuncFits(a, o) /\ o.type = q.type /\ o.class = q.class /\ o.rela
            /\ o.addend = q.addend
      BY <1>11, <1>2, SceneFacts, KinFacts DEF Scene, KinA, Placed
    <3> QED BY <1>2, <1>4, <3>1 DEF IfuncFits, Slot
  <2>3. cfl = Entry("IRELATIVE", c.val + n)
    BY <1>1, <1>3, <1>8, <1>11, <2>2 DEF x86_64_prelink_conflict_rela, Unneeded
  <2>4. Out(a, q, Entry("IRELATIVE", c.val + n)) = Word(q.class, ld_so_ifunc(c.val + n), 0)
    BY <1>7, OutEntry
  <2>5. c.val + n = c.val /\ x + n = x
    BY <2>1, <2>2 DEF ld_so_ifunc
  <2> QED BY <1>5, <2>1, <2>2, <2>3, <2>4, <2>5
<1> QED BY <1>9, <1>10, <1>11 DEF PlainSym

(* The kinds of TLS relocations, and the relocations that are treated on   *)
(* their own, are disjoint.                                                *)
LEMMA TlsApart ==
  /\ DtpOff \intersect TpOff = {} /\ DtpMod \intersect (DtpOff \union TpOff) = {}
  /\ (DtpOff \union TpOff) \intersect Special = {}
  /\ \A a : PcRel(a) \intersect (DtpOff \union TpOff) = {}
<1>1. DtpOff \intersect TpOff = {}
  BY DEF DtpOff, TpOff, ppc_TpRel, ppc_TpRel16, mips_TpRel, ppc_DtpRel, ppc_DtpRel16,
     mips_DtpRel
<1>2. DtpMod \intersect (DtpOff \union TpOff) = {}
  BY DEF DtpOff, TpOff, DtpMod, mips_DtpMod, ppc_TpRel, ppc_TpRel16, mips_TpRel, ppc_DtpRel,
     ppc_DtpRel16, mips_DtpRel
<1>3. (DtpOff \union TpOff) \intersect Special = {}
  BY <1>2 DEF DtpOff, TpOff, Special, Slot, ppc_TpRel, ppc_TpRel16, mips_TpRel, ppc_DtpRel,
     ppc_DtpRel16, mips_DtpRel
<1>4. \A a : PcRel(a) \intersect (DtpOff \union TpOff) = {}
  BY DEF DtpOff, TpOff, PcRel, Dbl, s390_Dbl, s390_Dbl16, ppc_TpRel, ppc_TpRel16, mips_TpRel,
     ppc_DtpRel, ppc_DtpRel16, mips_DtpRel
<1> QED BY <1>1, <1>2, <1>3, <1>4

(* Where offsets in a TLS block are counted from.                          *)
Bias(a) == IF a \in Ppc \union Mips \union {"ppc64"} THEN 32768 ELSE 0

(* What ld.so computes for an offset in a TLS block and from the thread    *)
(* pointer.                                                                *)
LEMMA TlsOperand ==
  ASSUME NEW a, NEW q, NEW y \in Int, NEW d, Block(d).offset \in Int
  PROVE  /\ q.type \in DtpOff => ld_so_operand(a, q, y, d) = y - Bias(a)
         /\ q.type \in TpOff =>
              ld_so_operand(a, q, y, d) = ld_so_tpoff(a, q, y, Block(d).offset)
         /\ ld_so_tpoff(a, q, y, Block(d).offset) \in Int /\ y - Bias(a) \in Int
<1>1. q.type \in DtpOff => ld_so_operand(a, q, y, d) = y - Bias(a)
  BY TlsApart DEF ld_so_operand, Bias
<1>2. q.type \in TpOff => ld_so_operand(a, q, y, d) = ld_so_tpoff(a, q, y, Block(d).offset)
  BY TlsApart DEF ld_so_operand
<1>3. ld_so_tpoff(a, q, y, Block(d).offset) \in Int /\ y - Bias(a) \in Int
  BY DEF ld_so_tpoff, Bias
<1> QED BY <1>1, <1>2, <1>3

(* What ld.so makes of the TLS relocations.                                *)
LEMMA TlsFinal ==
  ASSUME NEW a, NEW q \in Relocs, q.rela, NEW d, Block(d).offset \in Int, NEW x \in Int,
             x = At(q, q.base, d)
  PROVE  /\ q.type \in DtpMod =>
              ld_so_relocate(a, q, q.base, d) = Word(ld_width(a, q), Block(d).modid, 0)
         /\ q.type \in DtpOff \union TpOff =>
              ld_so_relocate(a, q, q.base, d)
                = Word(ld_width(a, q), ld_so_insert(q.type, q.mem.val, ld_so_operand(a, q, x + q.addend, d)), 0)
         /\ q.type \in DtpOff \ Partial =>
              ld_so_relocate(a, q, q.base, d) = Word(ld_width(a, q), (x + q.addend) - Bias(a), 0)
         /\ q.type \in TpOff \ Partial =>
              ld_so_relocate(a, q, q.base, d) = Word(ld_width(a, q), ld_so_tpoff(a, q, x + q.addend, Block(d).offset), 0)
<1>1. ld_so_addend(a, q) = q.addend
  BY DEF ld_so_addend
<1>2. q.addend \in Int /\ x + q.addend \in Int
  BY DEF Relocs
<1>3. ASSUME q.type \in DtpOff \union TpOff
      PROVE  ld_so_relocate(a, q, q.base, d) = Word(ld_width(a, q), ld_so_insert(q.type, q.mem.val, ld_so_operand(a, q, x + q.addend, d)), 0)
  <2>1. q.type \notin Special
    BY <1>3, TlsApart
  <2> QED BY <1>1, <2>1, RelocateOther, MappedSame
<1>4. q.type \in DtpMod =>
        ld_so_relocate(a, q, q.base, d) = Word(ld_width(a, q), Block(d).modid, 0)
  BY RelocateMod
<1>5. ASSUME q.type \in DtpOff \ Partial
             PROVE ld_so_relocate(a, q, q.base, d) = Word(ld_width(a, q), (x + q.addend) - Bias(a), 0)
  <2>0. \A y \in Int : ld_so_operand(a, q, y, d) = y - Bias(a) /\ y - Bias(a) \in Int
    BY <1>5, TlsOperand
  <2>1. ld_so_operand(a, q, x + q.addend, d) = (x + q.addend) - Bias(a)
          /\ (x + q.addend) - Bias(a) \in Int
    BY <1>2, <2>0
  <2> QED BY <1>3, <1>5, <2>1, WholeInsert
<1>6. ASSUME q.type \in TpOff \ Partial
      PROVE  ld_so_relocate(a, q, q.base, d) = Word(ld_width(a, q), ld_so_tpoff(a, q, x + q.addend, Block(d).offset), 0)
  <2> DEFINE y == ld_so_tpoff(a, q, x + q.addend, Block(d).offset)
  <2>0. \A u \in Int : /\ ld_so_operand(a, q, u, d) = ld_so_tpoff(a, q, u, Block(d).offset)
                       /\ ld_so_tpoff(a, q, u, Block(d).offset) \in Int
    BY <1>6, TlsOperand
  <2>1. ld_so_operand(a, q, x + q.addend, d) = y /\ y \in Int
    BY <1>2, <2>0
  <2> HIDE DEF y
  <2>2. ld_so_relocate(a, q, q.base, d) = Word(ld_width(a, q), y, 0)
    BY <1>3, <1>6, <2>1, WholeInsert
  <2> QED BY <2>2 DEF y
<1> QED BY <1>3, <1>4, <1>5, <1>6

(* x86_64, x32: the word of a TLS relocation.                              *)
LEMMA X8664TlsWord ==
  ASSUME NEW a \in X86_64, NEW g, NEW q, NEW o, NEW s, NEW z, Scene(a, g, q, o, s, z),
         q.type \in {"DTPMOD64", "DTPOFF64", "TPOFF64"},
         NEW c, NEW d, NEW x, x = At(q, q.base, d), TlsSym(q, s, c, x, Block(d)),
         NEW cfl, cfl = ConflictRel(a, z, c, Block("self")), cfl.ok
  PROVE  Out(a, q, cfl) = ld_so_relocate(a, q, q.base, d)
<1> DEFINE n == q.addend
           v(y, b) == CASE q.type = "DTPMOD64" -> b.modid [] q.type = "DTPOFF64" -> y + n [] q.type = "TPOFF64" -> (y + n) - b.offset
<1>1. /\ q \in Relocs /\ g \in Relocs /\ z \in Relocs /\ q.rela /\ LdType(a, q)
      /\ g.type = q.type /\ z.type = q.type /\ z.class = q.class /\ g.class = q.class
           /\ z.exec = q.exec /\ g.exec = q.exec
      /\ q.addend \in Int /\ q.exec \in BOOLEAN
  BY SceneFacts
<1>2. q.type \notin Partial \union Addr \union Slot
  BY DEF Partial, Addr, Slot, Insns, ppc_Predicted, sparc64_Insns, Halves, ppc_Half, ppc_Low,
     ppc_DtpRel16, ppc_TpRel16, ppc64_Ds, ppc64_Higher, Dbl, s390_Dbl, s390_Dbl16
<1>3. g.addend = n /\ z.addend = n
  BY <1>2, SceneFacts
<1>4. ld_width(a, q) = 8
  BY <1>2 DEF ld_width, Slot, s390_Half, s390_Dbl16, ppc_Half, ppc_Low, ppc_DtpRel16,
     ppc_TpRel16, ppc64_Ds, ppc64_Higher, mips_Got, mips_Global, mips_Undefined, mips_Defined,
     Tls
<1>5. x \in Int /\ Block(d).offset \in Int /\ Block(d).modid \in Int /\ s \in Syms
        /\ s.val \in Int /\ s.tlsoffset \in Int
  BY DEF TlsSym, Syms
<1>6. ld_so_relocate(a, q, q.base, d) = Word(8, v(x, Block(d)), 0)
  <2>1. (q.type = "DTPMOD64" => q.type \in DtpMod)
          /\ (q.type = "DTPOFF64" => q.type \in DtpOff)
          /\ (q.type = "TPOFF64" => q.type \in TpOff)
    BY DEF DtpMod, DtpOff, TpOff
  <2>2. Bias(a) = 0 /\ ld_so_tpoff(a, q, x + n, Block(d).offset) = (x + n) - Block(d).offset
    BY <1>2, <1>5 DEF Bias, ld_so_tpoff, X86_64, Ppc, Mips
  <2>3. CASE q.type = "DTPMOD64"
    BY <1>1, <1>4, <1>5, <2>1, <2>3, TlsFinal
  <2>4. CASE q.type = "DTPOFF64"
    BY <1>1, <1>2, <1>4, <1>5, <2>1, <2>2, <2>4, TlsFinal
  <2>5. CASE q.type = "TPOFF64"
    BY <1>1, <1>2, <1>4, <1>5, <2>1, <2>2, <2>5, TlsFinal
  <2> QED BY <2>3, <2>4, <2>5
<1>7. \A y : ld_so_calls(a, q, y) = 0
  <2>1. q.code = NoCode
    BY <1>1, <1>2 DEF Scene, KinA, FormA, LdCode, X86_64
  <2> QED BY <2>1, CalmCalls DEF Calm, NoCode
<1>8. ConflictRel(a, z, c, Block("self")) = x86_64_prelink_conflict_rela(z, c, Block("self"))
  BY DEF ConflictRel, X86_64, Ppc, Mips
<1>9. q.exec => q.type = "TPOFF64"
  BY <1>1 DEF LdType, ld_exec_types, DtpMod, DtpOff, X86_64, Mips
<1>10. Block("self").modid = 2
  BY DEF Block
<1>11. CASE q.exec \/ (q.type = "DTPOFF64" /\ c.found /\ c.same)
  <2>1. s.val = x /\ s.isTls /\ s.tlsoffset = Block(d).offset
    BY <1>11 DEF TlsSym
  <2>2. PrelinkRel(a, g, s) = x86_64_prelink_rela(g, s)
    BY DEF PrelinkRel, X86_64, Ppc, Mips
  <2>3. x86_64_prelink_rela(g, s) = Put(g, 8, v(x, Block(d)))
    BY <1>1, <1>3, <1>5, <1>9, <1>11, <2>1 DEF x86_64_prelink_rela
  <2>4. q.mem = [width |-> 8, val |-> v(x, Block(d))]
    BY <1>1, <2>2, <2>3, PutMem DEF Scene
  <2>5. cfl = None
    <3>1. q.exec => ~ c.found
      BY DEF TlsSym
    <3> QED BY <1>1, <1>8, <1>9, <1>11, <3>1 DEF x86_64_prelink_conflict_rela, Unneeded
  <2> QED BY <1>6, <1>7, <2>4, <2>5, OutNone
<1>12. CASE ~ (q.exec \/ (q.type = "DTPOFF64" /\ c.found /\ c.same))
  <2>1. ConflictValue(c) = x /\ ConflictTls(c, Block("self")) = Block(d) /\ ~ c.ifunc
          /\ (c.found => c.isTls)
        /\ (q.type \in DtpOff => c.found)
    BY <1>12 DEF TlsSym
  <2>2. cfl = Entry("64", v(x, Block(d)))
    <3>1. "DTPOFF64" \in DtpOff
      BY DEF DtpOff
    <3> DEFINE b == ConflictTls(c, Block("self"))
               y == ConflictValue(c)
    <3>2. x86_64_prelink_conflict_rela(z, c, Block("self")) = Entry("64", v(y, b))
      <4>1. ~ c.ifunc /\ (c.found => c.isTls) /\ (q.type \in DtpOff => c.found)
              /\ z.exec = FALSE
        BY <1>1, <1>12, <2>1
      <4>2. ~ Unneeded(z, c, Block("self"), {"DTPMOD64", "TPOFF64"}, "DTPOFF64")
        BY <1>1, <1>10, <1>12, <3>1, <4>1 DEF Unneeded
      <4>3. b = IF c.found THEN [modid |-> c.modid, offset |-> c.tlsoffset] ELSE Block("self")
        BY DEF ConflictTls
      <4>4. y = IF c.found THEN c.val ELSE 0
        BY DEF ConflictValue
      <4>5. y \in Int /\ b.offset \in Int
        BY <1>5, <2>1
      <4> HIDE DEF b, y
      <4> QED BY <1>1, <1>3, <4>1, <4>2, <4>3, <4>4, <4>5 DEF x86_64_prelink_conflict_rela
    <3> QED BY <1>8, <2>1, <3>2
  <2>3. Out(a, q, Entry("64", v(x, Block(d)))) = Word(8, v(x, Block(d)), 0)
    BY <1>7, OutEntry DEF Doubles
  <2> QED BY <1>6, <2>2, <2>3
<1> QED BY <1>11, <1>12

(* x86_64, x32: the word of a PLT slot.                                    *)
LEMMA X8664Slot ==
  ASSUME NEW a \in X86_64, NEW g, NEW q, NEW o, NEW s, NEW z, Scene(a, g, q, o, s, z),
             q.type \in Slot,
         NEW c, NEW d, NEW x, x = At(q, q.base, d), PlainSym(q, s, c, x),
         NEW cfl, cfl = ConflictRel(a, z, c, Block("self")), cfl.ok
  PROVE  Out(a, q, cfl) = ld_so_relocate(a, q, q.base, d)
<1>1. /\ q \in Relocs /\ g \in Relocs /\ z \in Relocs /\ q.rela /\ LdType(a, q)
      /\ g.type = q.type /\ z.type = q.type /\ z.class = q.class /\ g.class = q.class
           /\ z.exec = q.exec
      /\ q.exec \in BOOLEAN
  BY SceneFacts
<1>2. q.type = "JUMP_SLOT"
  BY <1>1 DEF LdType, ld_exec_types, ld_types, X86_64, Mips, Slot
<1>3. q.addend = 0 /\ z.addend = 0 /\ g.addend = 0 /\ q.code = NoCode
  <2>1. o.type \in Slot /\ o.type \notin Addr
    BY SceneFacts, SlotTypes
  <2>2. o.addend = 0 /\ o.code = NoCode
    BY <2>1 DEF Scene, FormA, LdAddends, LdCode, X86_64
  <2>3. SlotKin(a, q, o) /\ SlotKin(a, z, o) /\ SlotKin(a, g, o)
    BY <1>1, <2>1 DEF Scene, KinA
  <2> QED BY <2>2, <2>3 DEF SlotKin, X86_64
<1>4. ld_width(a, q) = q.class
  BY <1>2 DEF ld_width, Slot, s390_Half, s390_Dbl16, ppc_Half, ppc_Low, ppc_DtpRel16,
     ppc_TpRel16, ppc64_Ds, ppc64_Higher, X86_64
<1>5. x \in Int /\ s.val \in Int /\ c.val \in Int
  BY DEF PlainSym, Syms
<1>6. ld_so_relocate(a, q, q.base, d) = Word(q.class, x, 0)
  <2>1. a \notin {"ppc64", "sparc64"}
    BY DEF X86_64
  <2>2. ld_so_relocate(a, q, q.base, d) = Word(ld_width(a, q), x + q.addend, 0)
    BY <1>1, <1>3, <1>5, <2>1, SlotFinal
  <2>3. x + q.addend = x
    BY <1>3, <1>5
  <2> QED BY <1>4, <2>2, <2>3
<1>7. q.mem = [width |-> q.class, val |-> s.val]
  <2>1. x86_64_prelink_rela(g, s) = Put(g, q.class, s.val + 0)
    BY <1>1, <1>2, <1>3 DEF x86_64_prelink_rela
  <2>2. PrelinkRel(a, g, s) = x86_64_prelink_rela(g, s)
    BY DEF PrelinkRel, X86_64, Ppc, Mips
  <2>3. s.val + 0 = s.val
    BY <1>5
  <2> QED BY <1>1, <2>1, <2>2, <2>3, PutMem DEF Scene
<1>8. \A y : ld_so_calls(a, q, y) = 0
  BY <1>3, CalmCalls DEF Calm, NoCode
<1>9. ConflictRel(a, z, c, Block("self")) = x86_64_prelink_conflict_rela(z, c, Block("self"))
  BY DEF ConflictRel, X86_64, Ppc, Mips
<1>10. CASE ~ c.found
  <2>1. cfl = None
    BY <1>1, <1>2, <1>9, <1>10 DEF x86_64_prelink_conflict_rela, Unneeded
  <2>2. s.val = x
    BY <1>10 DEF PlainSym
  <2> QED BY <1>6, <1>7, <1>8, <2>1, <2>2, OutNone
<1>11. CASE c.found /\ ~ c.ifunc
  <2>1. c.val = x /\ ~ q.exec
    BY <1>11 DEF PlainSym
  <2>2. cfl = Entry("JUMP_SLOT", c.val + 0)
    BY <1>1, <1>2, <1>3, <1>9, <1>11, <2>1 DEF x86_64_prelink_conflict_rela, Unneeded
  <2>3. \A v : Out(a, q, Entry("JUMP_SLOT", v)) = Word(q.class, v, 0)
    BY <1>3, <1>8, OutEntry DEF Slot, X86_64
  <2>4. c.val + 0 = c.val
    BY <1>5
  <2> QED BY <1>6, <2>1, <2>2, <2>3, <2>4
<1>12. CASE c.found /\ c.ifunc
  <2>1. ld_so_ifunc(c.val) = x
    BY <1>12 DEF PlainSym
  <2>2. cfl = Entry("IRELATIVE", c.val + 0)
    BY <1>1, <1>2, <1>3, <1>9, <1>12 DEF x86_64_prelink_conflict_rela, Unneeded
  <2>3. \A v : Out(a, q, Entry("IRELATIVE", v)) = Word(q.class, ld_so_ifunc(v), 0)
    BY <1>8, OutEntry
  <2>4. c.val + 0 = c.val
    BY <1>5
  <2> QED BY <1>6, <2>1, <2>2, <2>3, <2>4
<1> QED BY <1>10, <1>11, <1>12 DEF PlainSym

(* x86_64, x32: the relocations without a symbol; an IRELATIVE is a        *)
(* conflict of its own.                                                    *)
LEMMA X8664Local ==
  ASSUME NEW a \in X86_64, NEW g, NEW q, NEW o, NEW s, NEW z, Scene(a, g, q, o, s, z),
             q.type \in NoSymbol,
         NEW d, NEW cfl, cfl = ConflictRel(a, z, NoConflict, Block("self"))
  PROVE  Out(a, q, cfl) = ld_so_relocate(a, q, q.base, d)
<1>1. /\ q \in Relocs /\ g \in Relocs /\ z \in Relocs /\ q.rela /\ LdType(a, q)
      /\ g.type = q.type /\ z.type = q.type /\ z.class = q.class /\ g.class = q.class
           /\ o.type = q.type
      /\ q.addend \in Int /\ q.base \in Int /\ q.mem.val \in Int
  BY SceneFacts
<1>2. q.type \in {"NONE", "COPY", "RELATIVE", "IRELATIVE"}
  BY <1>1 DEF LdType, ld_exec_types, ld_types, X86_64, Mips, NoSymbol
<1>3. q.code = NoCode
  <2>1. q.type \notin Slot
    BY <1>2 DEF Slot
  <2>2. o.code = NoCode
    BY <1>1, <2>1 DEF Scene, FormA, LdCode, X86_64
  <2>3. q.code = o.code
    BY <1>1, <2>1 DEF Scene, KinA, AddrKin
  <2> QED BY <2>2, <2>3
<1>4. \A y : ld_so_calls(a, q, y) = 0
  BY <1>3, CalmCalls DEF Calm, NoCode
<1>5. ConflictRel(a, z, NoConflict, Block("self")) = x86_64_prelink_conflict_rela(z, NoConflict, Block("self"))
  BY DEF ConflictRel, X86_64, Ppc, Mips
<1>6. ~ NoConflict.found /\ ~ NoConflict.ifunc
  BY DEF NoConflict
<1>7. q.type \in Addr => q.mem = [width |-> q.class, val |-> q.addend] /\ q.addend = Target(q)
                         /\ z.addend = Target(z) /\ Target(z) = Target(q)
  BY <1>1 DEF Scene, KinA, AddrKin, InWord, X86Like, X86_64, Target
<1>8. CASE q.type \in {"NONE", "COPY"}
  <2>1. cfl = None
    BY <1>1, <1>5, <1>6, <1>8 DEF x86_64_prelink_conflict_rela, Unneeded
  <2> QED BY <1>4, <1>8, <2>1, OutNone, RelocateStill
<1>9. CASE q.type = "RELATIVE"
  <2>1. cfl = None
    BY <1>1, <1>5, <1>6, <1>9 DEF x86_64_prelink_conflict_rela, Unneeded
  <2>2. ld_width(a, q) = q.class
    BY <1>9 DEF ld_width, Slot, s390_Half, s390_Dbl16, ppc_Half, ppc_Low, ppc_DtpRel16,
       ppc_TpRel16, ppc64_Ds, ppc64_Higher
  <2>3. ld_so_addend(a, q) = q.addend
    BY <1>1 DEF ld_so_addend
  <2>4. a \notin {"sparc", "alpha", "sh"}
    BY DEF X86_64
  <2>5. ld_so_relocate(a, q, q.base, d) = Word(q.class, (q.base - q.base) + q.addend, 0)
    BY <1>9, <2>2, <2>3, <2>4, RelocateRelative
  <2>6. (q.base - q.base) + q.addend = q.addend
    BY <1>1
  <2>7. Out(a, q, cfl) = Word(q.class, q.addend, 0)
    BY <1>4, <1>7, <1>9, <2>1, OutNone DEF Addr
  <2> QED BY <2>5, <2>6, <2>7
<1>10. CASE q.type = "IRELATIVE"
  <2>1. cfl = Entry("IRELATIVE", 0 + z.addend)
    BY <1>1, <1>5, <1>6, <1>10 DEF x86_64_prelink_conflict_rela, Unneeded
  <2>2. 0 + z.addend = q.addend
    BY <1>1, <1>7, <1>10 DEF Addr
  <2>3. ld_width(a, q) = q.class
    BY <1>10 DEF ld_width, Slot, s390_Half, s390_Dbl16, ppc_Half, ppc_Low, ppc_DtpRel16,
       ppc_TpRel16, ppc64_Ds, ppc64_Higher
  <2>4. ld_so_addend(a, q) = q.addend
    BY <1>1 DEF ld_so_addend
  <2>5. ld_so_relocate(a, q, q.base, d) = Word(q.class, ld_so_ifunc(q.addend + (q.base - q.base)), 0)
    BY <1>10, <2>3, <2>4, RelocateIRelative
  <2>6. q.addend + (q.base - q.base) = q.addend
    BY <1>1
  <2>7. Out(a, q, Entry("IRELATIVE", q.addend)) = Word(q.class, ld_so_ifunc(q.addend), 0)
    BY <1>4, OutEntry
  <2> QED BY <2>1, <2>2, <2>5, <2>6, <2>7
<1> QED BY <1>2, <1>8, <1>9, <1>10

(* x86_64, x32: the types, and which of them are for TLS.                  *)
LEMMA X8664Types ==
  ASSUME NEW a \in X86_64, NEW q, LdType(a, q)
  PROVE  /\ q.type \in NoSymbol \union Slot \union {"GLOB_DAT", "64", "32", "PC32"}
              \union {"DTPMOD64", "DTPOFF64", "TPOFF64"}
         /\ q.type \in Tls <=> q.type \in {"DTPMOD64", "DTPOFF64", "TPOFF64"}
         /\ RelocClass(a, q.type) = "TLS" <=> q.type \in Tls
<1>1. q.type \in {"NONE", "COPY", "RELATIVE", "IRELATIVE", "JUMP_SLOT", "GLOB_DAT", "64", "32", "PC32", "DTPMOD64", "DTPOFF64", "TPOFF64"}
  BY DEF LdType, ld_exec_types, ld_types, X86_64, Mips
<1>2. q.type \in Tls <=> q.type \in {"DTPMOD64", "DTPOFF64", "TPOFF64"}
  BY <1>1 DEF Tls, TpOff, DtpOff, DtpMod, ppc_TpRel, ppc_TpRel16, mips_TpRel, ppc_DtpRel,
     ppc_DtpRel16, mips_DtpRel, mips_DtpMod
<1>3. RelocClass(a, q.type) = x86_64_reloc_class(q.type)
  BY DEF RelocClass, X86_64, Ppc, Mips
<1>4. RelocClass(a, q.type) = "TLS" <=> q.type \in {"DTPMOD64", "DTPOFF64", "TPOFF64"}
  BY <1>1, <1>3 DEF x86_64_reloc_class
<1> QED BY <1>1, <1>2, <1>4 DEF NoSymbol, Slot

(* What is known of the symbol of q, by the kind of its type.              *)
Viewed(a, q, o, s, c, g) ==
  /\ q.type \in NoSymbol => c = NoConflict
  /\ q.type \notin NoSymbol \union Tls => PlainSym(q, s, c, At(q, q.base, g))
       /\ (c.ifunc => IfuncFits(a, o))
  /\ q.type \in Tls => TlsSym(q, s, c, At(q, q.base, g), Block(g))

(* TLS relocations have a symbol.                                          *)
LEMMA TlsHasSymbol == Tls \intersect NoSymbol = {}
  BY DEF Tls, TpOff, DtpOff, DtpMod, NoSymbol, ppc_TpRel, ppc_TpRel16, mips_TpRel, ppc_DtpRel,
     ppc_DtpRel16, mips_DtpRel, mips_DtpMod

(* What resolving the symbol in the library, and the conflict of the       *)
(* program, say of it.                                                     *)
LEMMA ViewA ==
  ASSUME NEW p, NEW q, NEW o, NEW d \in OwnSymbols(arch, o),
             NEW g \in GlobalSymbols(arch, o, d), NEW z,
         p \in Relocs, q \in Relocs, z \in Relocs, p.base = q.base, z.base = q.base,
         p.exec = q.exec, z.exec = q.exec, o.exec = q.exec, p.type = o.type, q.type = o.type,
           z.type = o.type,
         RelocClass(arch, o.type) = "TLS" <=> o.type \in Tls
  PROVE  Viewed(arch, q, o, Resolve(p, d), ConflictOf(z, d, g), g)
<1> DEFINE s == Resolve(p, d)
           c == ConflictOf(z, d, g)
<1>1. ASSUME q.type \in NoSymbol PROVE c = NoConflict
  <2>1. d = "local"
    BY <1>1, TlsHasSymbol DEF OwnSymbols
  <2> QED BY <2>1 DEF ConflictOf
<1>2. ASSUME q.type \notin NoSymbol \union Tls
      PROVE  PlainSym(q, s, c, At(q, q.base, g)) /\ (c.ifunc => IfuncFits(arch, o))
  BY <1>2, PlainSymIs
<1>3. ASSUME q.type \in Tls PROVE TlsSym(q, s, c, At(q, q.base, g), Block(g))
  BY <1>3, TlsHasSymbol, TlsSymIs
<1> QED BY <1>1, <1>2, <1>3 DEF Viewed

(* x86_64, x32: prelinking and the conflict make the word that ld.so makes *)
(* of the relocation.                                                      *)
LEMMA X8664Word ==
  ASSUME NEW a \in X86_64, NEW g, NEW q, NEW o, NEW s, NEW z, Scene(a, g, q, o, s, z),
         NEW c, NEW d, Viewed(a, q, o, s, c, d), NEW cfl,
               cfl = ConflictRel(a, z, c, Block("self")), cfl.ok
  PROVE  Out(a, q, cfl) = ld_so_relocate(a, q, q.base, d)
<1>1. LdType(a, q)
  BY SceneFacts
<1>2. /\ q.type \in NoSymbol \union Slot \union {"GLOB_DAT", "64", "32", "PC32"}
           \union {"DTPMOD64", "DTPOFF64", "TPOFF64"}
      /\ q.type \in Tls <=> q.type \in {"DTPMOD64", "DTPOFF64", "TPOFF64"}
  BY <1>1, X8664Types
<1>3. CASE q.type \in NoSymbol
  BY <1>3, X8664Local DEF Viewed
<1>4. CASE q.type \in {"DTPMOD64", "DTPOFF64", "TPOFF64"}
  BY <1>2, <1>4, X8664TlsWord DEF Viewed
<1>5. CASE q.type \notin NoSymbol \union {"DTPMOD64", "DTPOFF64", "TPOFF64"}
  <2>1. PlainSym(q, s, c, At(q, q.base, d)) /\ (c.ifunc => IfuncFits(a, o))
    BY <1>2, <1>5 DEF Viewed
  <2>2. CASE q.type \in Slot
    BY <2>1, <2>2, X8664Slot
  <2>3. CASE q.type \in {"GLOB_DAT", "64", "32", "PC32"}
    BY <2>1, <2>3, X8664Plain
  <2> QED BY <1>2, <1>5, <2>2, <2>3
<1> QED BY <1>3, <1>4, <1>5

-----------------------------------------------------------------------------
(* s390 and s390x.                                                         *)

(* The halfword-scaled types of s390.                                      *)
LEMMA DblInsert ==
  ASSUME NEW t \in Dbl, NEW w, NEW x \in Int
  PROVE  ld_so_insert(t, w, x) = x \div 2
<1>1. t \notin Predicted \union ppc64_Higher \union SparcInsns
  BY DEF Dbl, s390_Dbl, s390_Dbl16, Predicted, ppc_Predicted, ppc64_Higher, SparcInsns,
     sparc64_Insns
<1>2. ld_so_field(t) = Bits(0, 2, 0, 0)
  BY DEF ld_so_field, Dbl, s390_Dbl, s390_Dbl16, Predicted, ppc_Predicted, ppc64_Ds, ppc_Low
<1>3. ld_so_insert(t, w, x) = (x + 0) \div 2
  BY <1>1, <1>2 DEF ld_so_insert, Bits, SparcInsns, sparc64_Insns
<1> QED BY <1>3

(* The two architectures of arch-s390.c and arch-s390x.c.                  *)
S390 == {"s390", "s390x"}

(* Relative to the place.                                                  *)
S390Pc == {"PC32", "PC16", "PC64"}

(* The relocations with a symbol, but for TLS.                             *)
S390Plain == {"GLOB_DAT", "JMP_SLOT", "32", "64", "16", "8"} \union S390Pc \union Dbl

(* s390: the types, and which of them are for TLS.                         *)
LEMMA S390Types ==
  ASSUME NEW a \in S390, NEW q, LdType(a, q)
  PROVE  /\ q.type \in {"NONE", "COPY", "RELATIVE", "IRELATIVE"} \union S390Plain
              \union s390_Tls
         /\ a = "s390" => q.type \notin {"64", "PC64"}
         /\ q.type \in Tls <=> q.type \in s390_Tls
         /\ q.type \in NoSymbol <=> q.type \in {"NONE", "COPY", "RELATIVE", "IRELATIVE"}
         /\ RelocClass(a, q.type) = "TLS" <=> q.type \in Tls
<1>1. /\ q.type \in {"NONE", "COPY", "RELATIVE", "IRELATIVE"} \union S390Plain \union s390_Tls
      /\ a = "s390" => q.type \notin {"64", "PC64"}
  <2>1. CASE a = "s390"
    <3>1. ld_types(a) = {"NONE", "RELATIVE", "IRELATIVE", "GLOB_DAT", "JMP_SLOT", "32", "PC32", "8"} \union s390_Half \union s390_Dbl \union s390_Tls
      BY <2>1 DEF ld_types, X86_64, Ppc
    <3>2. q.type \in ld_types(a) \union {"COPY"}
      BY <2>1 DEF LdType, ld_exec_types, Mips
    <3> QED BY <2>1, <3>1, <3>2 DEF S390Plain, S390Pc, Dbl, s390_Half, s390_Dbl, s390_Dbl16,
               s390_Tls
  <2>2. CASE a = "s390x"
    <3>1. ld_types(a) = {"NONE", "RELATIVE", "IRELATIVE", "GLOB_DAT", "JMP_SLOT", "32", "PC32", "8"} \union s390_Half \union s390_Dbl \union s390_Tls
                          \union {"64", "PC64"}
      BY <2>2 DEF ld_types, X86_64, Ppc
    <3>2. q.type \in ld_types(a) \union {"COPY"}
      BY <2>2 DEF LdType, ld_exec_types, Mips
    <3> QED BY <2>2, <3>1, <3>2 DEF S390Plain, S390Pc, Dbl, s390_Half, s390_Dbl, s390_Dbl16,
               s390_Tls
  <2> QED BY <2>1, <2>2 DEF S390
<1>2. q.type \in Tls <=> q.type \in s390_Tls
  BY <1>1 DEF Tls, TpOff, DtpOff, DtpMod, ppc_TpRel, ppc_TpRel16, mips_TpRel, ppc_DtpRel,
     ppc_DtpRel16, mips_DtpRel, mips_DtpMod, S390Plain, S390Pc, Dbl, s390_Dbl, s390_Dbl16,
     s390_Tls
<1>3. RelocClass(a, q.type) = "TLS" <=> q.type \in s390_Tls
  BY <1>1 DEF RelocClass, s390_reloc_class, s390x_reloc_class, X86_64, Ppc, Mips, S390, s390_Tls
<1>4. q.type \in NoSymbol <=> q.type \in {"NONE", "COPY", "RELATIVE", "IRELATIVE"}
  BY <1>1 DEF NoSymbol, S390Plain, S390Pc, Dbl, s390_Dbl, s390_Dbl16, s390_Tls
<1> QED BY <1>1, <1>2, <1>3, <1>4

(* s390: what ld.so computes.                                              *)
LEMMA S390Final ==
  ASSUME NEW a \in S390, NEW q \in Relocs, q.rela, q.type \in S390Plain, q.code = NoCode,
             q.class = ld_class(a),
         NEW d, NEW x \in Int, x = At(q, q.base, d)
  PROVE  /\ q.type \in Dbl =>
              ld_so_relocate(a, q, q.base, d) = Word(ld_width(a, q), ((x + q.addend) - P(q)) \div 2, 0)
         /\ q.type \in S390Pc =>
              ld_so_relocate(a, q, q.base, d) = Word(ld_width(a, q), (x + q.addend) - P(q), 0)
         /\ q.type \notin Dbl \union S390Pc =>
              ld_so_relocate(a, q, q.base, d) = Word(ld_width(a, q), x + q.addend, 0)
<1>1. a \notin Mips /\ a \notin {"ppc64", "sparc64"}
  BY DEF S390, Mips
<1>2. q.addend \in Int /\ P(q) \in Int
  BY DEF Relocs, P
<1>3. CASE q.type \in Dbl
  <2>1. q.type \notin Special /\ q.type \in PcRel(a) /\ q.type \notin S390Pc
    BY <1>1, <1>3 DEF Special, Slot, DtpMod, mips_DtpMod, PcRel, Dbl, s390_Dbl, s390_Dbl16,
       S390Pc
  <2>2. ld_so_addend(a, q) = q.addend
    BY DEF ld_so_addend
  <2>3. ld_so_relocate(a, q, q.base, d) = Word(ld_width(a, q), ld_so_insert(q.type, q.mem.val, ld_so_operand(a, q, x + q.addend, d)), 0)
    BY <2>1, <2>2, RelocateOther, MappedSame
  <2>4. ld_so_operand(a, q, x + q.addend, d) = (x + q.addend) - P(q)
    BY <2>1, TlsApart DEF ld_so_operand
  <2>5. \A y \in Int : ld_so_insert(q.type, q.mem.val, y) = y \div 2
    BY <1>3, DblInsert
  <2>6. (x + q.addend) - P(q) \in Int
    BY <1>2
  <2> QED BY <1>3, <2>1, <2>3, <2>4, <2>5, <2>6
<1>4. CASE q.type \in S390Pc
  <2>1. q.type \notin Special \union Partial \union DtpOff \union TpOff \union Dbl
          /\ q.type \in PcRel(a)
    BY <1>1, <1>4 DEF Special, Slot, DtpMod, mips_DtpMod, PcRel, Dbl, s390_Dbl, s390_Dbl16,
       S390Pc, Partial, DtpOff, TpOff, Insns, ppc_Predicted, sparc64_Insns, Halves, ppc_Half,
       ppc_Low, ppc_DtpRel16, ppc_TpRel16, ppc_DtpRel, ppc_TpRel, mips_DtpRel, mips_TpRel,
       ppc64_Ds, ppc64_Higher
  <2>2. ld_so_relocate(a, q, q.base, d) = Word(ld_width(a, q), x + q.addend - P(q), 0)
    BY <2>1, WholeFinal
  <2>3. x + q.addend - P(q) = (x + q.addend) - P(q)
    BY <1>2
  <2> QED BY <1>4, <2>1, <2>2, <2>3
<1>5. CASE q.type = "JMP_SLOT"
  <2>1. q.type \in Slot /\ q.type \notin Dbl \union S390Pc
    BY <1>5 DEF Slot, Dbl, s390_Dbl, s390_Dbl16, S390Pc
  <2> QED BY <1>1, <2>1, SlotFinal
<1>6. CASE q.type \in {"GLOB_DAT", "32", "64", "16", "8"}
  <2>1. q.type \notin Special \union Partial \union DtpOff \union TpOff \union Dbl
          \union S390Pc /\ q.type \notin PcRel(a)
    BY <1>1, <1>6 DEF Special, Slot, DtpMod, mips_DtpMod, PcRel, Dbl, s390_Dbl, s390_Dbl16,
       S390Pc, Partial, DtpOff, TpOff, Insns, ppc_Predicted, sparc64_Insns, Halves, ppc_Half,
       ppc_Low, ppc_DtpRel16, ppc_TpRel16, ppc_DtpRel, ppc_TpRel, mips_DtpRel, mips_TpRel,
       ppc64_Ds, ppc64_Higher
  <2>2. ld_so_relocate(a, q, q.base, d) = Word(ld_width(a, q), x + q.addend, 0)
    BY <2>1, WholeFinal
  <2> QED BY <2>1, <2>2
<1> QED BY <1>3, <1>4, <1>5, <1>6 DEF S390Plain

(* s390: how wide the words are.                                           *)
LEMMA S390Width ==
  ASSUME NEW a \in S390, NEW q, q.type \in S390Plain, q.class = ld_class(a)
  PROVE  ld_width(a, q) = (CASE q.type \in {"GLOB_DAT", "JMP_SLOT"} -> q.class [] q.type \in {"64", "PC64"} -> 8
                             [] q.type \in s390_Half -> 2 [] q.type = "8" -> 1 [] q.type \in {"32", "PC32"} \union s390_Dbl -> 4)
  BY DEF ld_width, Slot, s390_Half, s390_Dbl, s390_Dbl16, ppc_Half, ppc_Low, ppc_DtpRel16,
     ppc_TpRel16, ppc64_Ds, ppc64_Higher, S390, mips_Got, S390Plain, S390Pc, Dbl, mips_Global,
     mips_Undefined, mips_Defined, Tls, DtpOff, TpOff, DtpMod, mips_DtpMod, Mips, ppc_DtpRel,
     ppc_TpRel, mips_DtpRel, mips_TpRel

(* Relocations without a symbol, for all architectures: it is enough that  *)
(* prelinking leaves the address of a RELATIVE in the word, and that an    *)
(* IRELATIVE is a conflict.                                                *)
LEMMA LocalOut ==
  ASSUME NEW a \in RelaArchs, NEW q, NEW o, KinA(a, q, o), FormA(a, o), q.type \in NoSymbol,
             Calm(q), NEW d, NEW cfl,
         q.type \in {"NONE", "COPY", "RELATIVE"} => cfl = None,
         q.type \in {"IRELATIVE", "JMP_IREL"} => cfl = Entry(q.type, Target(q)),
         q.type = "RELATIVE" => q.mem = [width |-> q.class, val |-> Target(q)]
           /\ (a = "sparc" => q.addend = 0),
         q.type = "JMP_IREL" => a = "ppc64"
  PROVE  Out(a, q, cfl) = ld_so_relocate(a, q, q.base, d)
<1>1. /\ q \in Relocs /\ q.rela /\ LdType(a, q) /\ q.addend \in Int /\ q.base \in Int
           /\ q.mem.val \in Int /\ Target(q) \in Int
      /\ q.base - q.base = 0
  BY KinFacts DEF Target
<1>2. q.type \in {"NONE", "COPY", "RELATIVE", "IRELATIVE", "JMP_IREL"}
  <2>1. q.type # "GOT_L"
    BY <1>1, BranchTypes
  <2> QED BY <2>1 DEF NoSymbol
<1>3. ld_so_addend(a, q) = q.addend
  BY <1>1 DEF ld_so_addend
<1>4. \A y : ld_so_calls(a, q, y) = 0
  BY CalmCalls
<1>5. CASE q.type \in {"NONE", "COPY"}
  BY <1>4, <1>5, OutNone, RelocateStill
<1>6. CASE q.type = "RELATIVE"
  <2>1. Out(a, q, cfl) = Word(q.class, Target(q), 0)
    BY <1>4, <1>6, OutNone
  <2>2. ld_width(a, q) = q.class
    BY <1>6 DEF ld_width, Slot, s390_Half, s390_Dbl16, ppc_Half, ppc_Low, ppc_DtpRel16,
       ppc_TpRel16, ppc64_Ds, ppc64_Higher
  <2>3. q.mem.val = Target(q) /\ q.addend \in {0, Target(q)}
          /\ (a \notin {"sparc", "sh"} => q.addend = Target(q))
    BY <1>6 DEF KinA, AddrKin, Addr
  <2>4. Target(q) # 0
    <3>1. q.base \in Nat
      BY KinFacts
    <3> QED BY <3>1 DEF Target
  <2>5. (CASE a = "sparc" -> q.mem.val + q.addend [] a = "alpha" \/ (a = "sh" /\ q.addend = 0) -> q.mem.val
           [] OTHER -> ld_so_addend(a, q)) = Target(q)
    BY <1>1, <1>3, <1>6, <2>3
  <2>6. (q.base - q.base) + Target(q) = Target(q)
    BY <1>1
  <2> QED BY <1>6, <2>1, <2>2, <2>5, <2>6, RelocateRelative
<1>7. CASE q.type \in {"IRELATIVE", "JMP_IREL"}
  <2>1. q.addend = Target(q)
    <3>1. a \notin {"sparc", "sh"}
      BY <1>1, <1>7 DEF LdType, ld_exec_types, ld_types, X86_64, Ppc, Mips, sparc_Tls
    <3> QED BY <1>7, <3>1 DEF KinA, AddrKin, Addr
  <2>2. ld_so_addend(a, q) + (q.base - q.base) = Target(q)
    BY <1>1, <1>3, <2>1
  <2>3. CASE q.type = "IRELATIVE"
    <3>1. ld_width(a, q) = q.class
      BY <2>3 DEF ld_width, Slot, s390_Half, s390_Dbl16, ppc_Half, ppc_Low, ppc_DtpRel16,
         ppc_TpRel16, ppc64_Ds, ppc64_Higher
    <3>2. Out(a, q, Entry("IRELATIVE", Target(q))) = Word(q.class, ld_so_ifunc(Target(q)), 0)
      BY <1>4, OutEntry
    <3> QED BY <2>2, <2>3, <3>1, <3>2, RelocateIRelative
  <2>4. CASE q.type = "JMP_IREL"
    <3>1. ld_width(a, q) = 24
      BY <2>4 DEF ld_width, Slot, s390_Half, s390_Dbl16, ppc_Half, ppc_Low, ppc_DtpRel16,
         ppc_TpRel16, ppc64_Ds, ppc64_Higher, Tls, TpOff, DtpOff, DtpMod, mips_DtpMod,
         ppc_DtpRel, ppc_TpRel, mips_DtpRel, mips_TpRel, mips_Got, mips_Global, mips_Undefined,
         mips_Defined
    <3>2. Out(a, q, Entry("JMP_IREL", Target(q))) = Word(24, Opd(ld_so_ifunc(Target(q))), 0)
      BY <1>4, OutEntry
    <3> QED BY <2>2, <2>4, <3>1, <3>2, RelocateJmpIRel
  <2> QED BY <1>7, <2>3, <2>4
<1> QED BY <1>2, <1>5, <1>6, <1>7

(* A GLOB_DAT of ld has no addend.  (s390 leaves it out of a conflict.)    *)
Bare(o) == o.type = "GLOB_DAT" => o.addend = 0

(* s390: the word of a relocation with a symbol.                           *)
LEMMA S390Words ==
  ASSUME NEW a \in S390, NEW g, NEW q, NEW o, NEW s, NEW z, Scene(a, g, q, o, s, z), Bare(o),
             q.type \in S390Plain,
         NEW c, NEW d, NEW x, x = At(q, q.base, d), PlainSym(q, s, c, x), c.ifunc =>
               IfuncFits(a, o),
         NEW cfl, cfl = ConflictRel(a, z, c, Block("self")), cfl.ok
  PROVE  Out(a, q, cfl) = ld_so_relocate(a, q, q.base, d)
<1> DEFINE n == q.addend
           v(y) == CASE q.type \in Dbl -> ((y + n) - P(q)) \div 2 [] q.type \in S390Pc -> (y + n) - P(q) [] OTHER -> y + n
           w == ld_width(a, q)
           t == CASE w = 8 -> "64" [] w = 4 -> "32" [] w = 2 -> "16" [] w = 1 -> "8"
<1>1. /\ q \in Relocs /\ g \in Relocs /\ z \in Relocs /\ q.rela /\ LdType(a, q)
      /\ g.type = q.type /\ z.type = q.type /\ z.class = q.class /\ g.class = q.class
           /\ z.exec = q.exec /\ o.type = q.type
      /\ q.addend \in Int /\ P(q) \in Int /\ P(g) = P(q) /\ P(z) = P(q) /\ q.exec \in BOOLEAN
      /\ q.class = ld_class(a)
  BY SceneFacts
<1>2. q.type \notin Addr /\ (q.type \in Slot <=> q.type = "JMP_SLOT")
        /\ (q.type \in Dbl => q.type \notin S390Pc)
  BY DEF Addr, Slot, S390Plain, S390Pc, Dbl, s390_Dbl, s390_Dbl16
<1>3. g.addend = n /\ z.addend = n /\ (q.type \in {"GLOB_DAT", "JMP_SLOT"} => n = 0)
        /\ q.code = NoCode
  <2>1. CASE q.type = "JMP_SLOT"
    <3>1. o.type \in Slot /\ o.type \notin Addr
      BY <1>1, <1>2, <2>1
    <3>2. o.addend = 0 /\ o.code = NoCode
      BY <3>1 DEF Scene, FormA, LdAddends, LdCode, S390
    <3>3. SlotKin(a, q, o) /\ SlotKin(a, z, o) /\ SlotKin(a, g, o)
      BY <1>1, <3>1 DEF Scene, KinA
    <3> QED BY <3>2, <3>3 DEF SlotKin, S390
  <2>2. CASE q.type # "JMP_SLOT"
    <3>1. q.type \notin Addr \union Slot
      BY <1>2, <2>2
    <3>2. o.code = NoCode /\ q.code = o.code
      BY <1>1, <3>1 DEF Scene, FormA, KinA, LdCode, S390
    <3>3. g.addend = n /\ z.addend = n /\ o.addend = n
      BY <3>1, SceneFacts
    <3> QED BY <1>1, <2>2, <3>2, <3>3 DEF Bare
  <2> QED BY <2>1, <2>2
<1>4. /\ w = (CASE q.type \in {"GLOB_DAT", "JMP_SLOT"} -> q.class [] q.type \in {"64", "PC64"} -> 8
                [] q.type \in s390_Half -> 2 [] q.type = "8" -> 1 [] q.type \in {"32", "PC32"}
                  \union s390_Dbl -> 4)
      /\ q.class = IF a = "s390" THEN 4 ELSE 8
      /\ a = "s390" => q.type \notin {"64", "PC64"}
  BY <1>1, S390Width, S390Types DEF ld_class, S390
<1>5. x \in Int /\ s.val \in Int /\ c.val \in Int
  BY DEF PlainSym, Syms
<1>6. ld_so_relocate(a, q, q.base, d) = Word(w, v(x), 0)
  BY <1>1, <1>2, <1>3, <1>5, S390Final
<1>7. q.mem = [width |-> w, val |-> v(s.val)]
  <2>1. PrelinkRel(a, g, s) = Put(g, w, v(s.val))
    <3>1. CASE a = "s390"
      <4>1. PrelinkRel(a, g, s) = s390_prelink_rela(g, s)
        BY <3>1 DEF PrelinkRel, X86_64, Ppc, Mips
      <4> QED BY <1>1, <1>2, <1>3, <1>4, <1>5, <3>1, <4>1 DEF s390_prelink_rela, S390Plain,
                 S390Pc, Dbl, s390_Half, s390_Dbl, s390_Dbl16
    <3>2. CASE a = "s390x"
      <4>1. PrelinkRel(a, g, s) = s390x_prelink_rela(g, s)
        BY <3>2 DEF PrelinkRel, X86_64, Ppc, Mips
      <4> QED BY <1>1, <1>2, <1>3, <1>4, <1>5, <3>2, <4>1 DEF s390x_prelink_rela, S390Plain,
                 S390Pc, Dbl, s390_Half, s390_Dbl, s390_Dbl16
    <3> QED BY <3>1, <3>2 DEF S390
  <2> QED BY <1>1, <2>1, PutMem DEF Scene
<1>8. \A y : ld_so_calls(a, q, y) = 0
  BY <1>3, CalmCalls DEF Calm, NoCode
<1> DEFINE e == IF a = "s390" THEN s390_prelink_conflict_rela(z, c, Block("self"))
             ELSE s390x_prelink_conflict_rela(z, c, Block("self"))
<1>9. ConflictRel(a, z, c, Block("self")) = e
  BY DEF ConflictRel, S390, X86_64, Ppc, Mips
<1>10. CASE ~ c.found
  <2>1. cfl = None
    <3>1. Unneeded(z, c, Block("self"), {"TLS_DTPMOD", "TLS_TPOFF"}, "TLS_DTPOFF")
      BY <1>1, <1>10 DEF Unneeded, S390Plain, S390Pc, Dbl, s390_Dbl, s390_Dbl16
    <3> QED BY <1>9, <3>1 DEF s390_prelink_conflict_rela, s390x_prelink_conflict_rela
  <2>2. s.val = x
    BY <1>10 DEF PlainSym
  <2> QED BY <1>6, <1>7, <1>8, <2>1, <2>2, OutNone
<1>11. CASE c.found
  <2>1. c.ifunc \/ (c.val = x /\ ~ q.exec)
    BY <1>11 DEF PlainSym
  <2>2. ~ Unneeded(z, c, Block("self"), {"TLS_DTPMOD", "TLS_TPOFF"}, "TLS_DTPOFF")
          /\ z.type \notin s390_Tls
    BY <1>1, <1>11, <2>1 DEF Unneeded, S390Plain, S390Pc, Dbl, s390_Dbl, s390_Dbl16, s390_Tls
  <2>3. ConflictValue(c) = c.val
    BY <1>11 DEF ConflictValue
  <2>4. CASE ~ c.ifunc
    <3>1. e = Entry(t, v(c.val))
      <4>1. CASE a = "s390"
        BY <1>1, <1>2, <1>3, <1>4, <1>5, <2>2, <2>3, <2>4, <4>1 DEF s390_prelink_conflict_rela,
           S390Plain, S390Pc, Dbl, s390_Half, s390_Dbl, s390_Dbl16
      <4>2. CASE a = "s390x"
        BY <1>1, <1>2, <1>3, <1>4, <1>5, <2>2, <2>3, <2>4, <4>2 DEF s390x_prelink_conflict_rela,
           S390Plain, S390Pc, Dbl, s390_Half, s390_Dbl, s390_Dbl16
      <4> QED BY <4>1, <4>2 DEF S390
    <3>2. w \in {1, 2, 4, 8}
      BY <1>4 DEF S390Plain, S390Pc, Dbl, s390_Half
    <3>3. \A y : Out(a, q, Entry(t, y)) = Word(w, y, 0)
      BY <1>8, <3>2, OutEntry DEF Doubles, Singles
    <3> QED BY <1>6, <1>9, <2>1, <2>4, <3>1, <3>3
  <2>5. CASE c.ifunc
    <3>1. ld_so_ifunc(c.val) = x
      BY <1>11, <2>5 DEF PlainSym
    <3>2. IfuncFits(a, o) /\ o.class = q.class /\ o.rela
            /\ (q.type \notin Slot => o.addend = q.addend)
      BY <1>2, <2>5, SceneFacts, KinFacts DEF Scene, KinA, Placed
    <3>3. /\ q.type \in {"GLOB_DAT", "JMP_SLOT"} \/ (a = "s390" /\ q.type = "32")
               \/ (a = "s390x" /\ q.type = "64")
          /\ n = 0
      <4>1. \/ /\ o.type \in {"GLOB_DAT", "ABS32"}
                    \/ (o.type \in {"32", "ADDR32", "UADDR32"} /\ o.class = 4)
                  \/ (o.type \in {"64", "ADDR64", "UADDR64"} /\ o.class = 8)
               /\ o.addend = 0
            \/ o.type \in Slot
        BY <3>2 DEF IfuncFits
      <4>2. o.class = IF a = "s390" THEN 4 ELSE 8
        BY <1>4, <3>2
      <4>3. q.type \notin {"ABS32", "ADDR32", "UADDR32", "ADDR64", "UADDR64", "JUMP_SLOT"}
              /\ a \in {"s390", "s390x"}
        BY DEF S390, S390Plain, S390Pc, Dbl, s390_Dbl, s390_Dbl16
      <4> QED BY <1>1, <1>2, <1>3, <3>2, <4>1, <4>2, <4>3
    <3>4. e = Entry("IRELATIVE", c.val + 0) /\ w = q.class /\ v(x) = x
      <4>1. w = q.class /\ v(x) = x
        <5>1. q.type \notin Dbl \union S390Pc
          BY <3>3 DEF Dbl, S390Pc, s390_Dbl, s390_Dbl16
        <5>2. x + 0 = x
          BY <1>5
        <5>3. w = q.class
          BY <1>4, <3>3 DEF s390_Half, s390_Dbl, s390_Dbl16
        <5> QED BY <3>3, <5>1, <5>2, <5>3
      <4>2. c.val + 0 - 0 = c.val + 0 /\ (c.val + 0) - 0 = c.val + 0
        BY <1>5
      <4>3. e = Entry("IRELATIVE", c.val + 0)
        BY <1>1, <1>3, <2>2, <2>3, <2>5, <3>3, <4>2 DEF s390_prelink_conflict_rela,
           s390x_prelink_conflict_rela, s390_Dbl, s390_Dbl16
      <4> QED BY <4>1, <4>3
    <3>5. c.val + 0 = c.val
      BY <1>5
    <3>6. Out(a, q, Entry("IRELATIVE", c.val)) = Word(q.class, ld_so_ifunc(c.val), 0)
      BY <1>8, OutEntry
    <3> QED BY <1>6, <1>9, <3>1, <3>4, <3>5, <3>6
  <2> QED BY <2>4, <2>5
<1> QED BY <1>10, <1>11

(* s390: the word of a TLS relocation.                                     *)
LEMMA S390TlsWord ==
  ASSUME NEW a \in S390, NEW g, NEW q, NEW o, NEW s, NEW z, Scene(a, g, q, o, s, z),
             q.type \in s390_Tls,
         NEW c, NEW d, NEW x, x = At(q, q.base, d), TlsSym(q, s, c, x, Block(d)),
         NEW cfl, cfl = ConflictRel(a, z, c, Block("self")), cfl.ok
  PROVE  Out(a, q, cfl) = ld_so_relocate(a, q, q.base, d)
<1> DEFINE n == q.addend
           v(y, b) == CASE q.type = "TLS_DTPMOD" -> b.modid [] q.type = "TLS_DTPOFF" -> y + n [] OTHER -> (y + n) - b.offset
           e == IF a = "s390" THEN s390_prelink_conflict_rela(z, c, Block("self"))
             ELSE s390x_prelink_conflict_rela(z, c, Block("self"))
           t == IF a = "s390" THEN "32" ELSE "64"
<1>1. /\ q \in Relocs /\ g \in Relocs /\ z \in Relocs /\ q.rela /\ LdType(a, q)
      /\ g.type = q.type /\ z.type = q.type /\ z.class = q.class /\ g.class = q.class
           /\ z.exec = q.exec /\ g.exec = q.exec
      /\ q.addend \in Int /\ q.exec \in BOOLEAN /\ q.class = ld_class(a)
  BY SceneFacts
<1>2. q.type \notin Partial \union Addr \union Slot
  BY DEF Partial, Addr, Slot, Insns, ppc_Predicted, sparc64_Insns, Halves, ppc_Half, ppc_Low,
     s390_Tls, ppc_DtpRel16, ppc_TpRel16, ppc64_Ds, ppc64_Higher, Dbl, s390_Dbl, s390_Dbl16
<1>3. g.addend = n /\ z.addend = n
  BY <1>2, SceneFacts
<1>4. ld_width(a, q) = q.class /\ q.class = IF a = "s390" THEN 4 ELSE 8
  <2>1. ld_width(a, q) = q.class
    <3>1. q.type \notin {"TLS_LE_HIX22", "TLS_LE_LOX10"} /\ q.type \in Tls
      BY DEF s390_Tls, Tls, TpOff, DtpOff, DtpMod
    <3> QED BY <1>2, <3>1 DEF ld_width, Slot, s390_Half, s390_Dbl16, ppc_Half, ppc_Low,
               ppc_DtpRel16, ppc_TpRel16, ppc64_Ds, ppc64_Higher, s390_Tls
  <2> QED BY <1>1, <2>1 DEF ld_class, S390
<1>5. x \in Int /\ Block(d).offset \in Int /\ Block(d).modid \in Int /\ s \in Syms
        /\ s.val \in Int /\ s.tlsoffset \in Int
  BY DEF TlsSym, Syms
<1>6. ld_so_relocate(a, q, q.base, d) = Word(q.class, v(x, Block(d)), 0)
  <2>1. /\ q.type = "TLS_DTPMOD" => q.type \in DtpMod
        /\ q.type = "TLS_DTPOFF" => q.type \in DtpOff
        /\ q.type = "TLS_TPOFF" => q.type \in TpOff
    BY DEF DtpMod, DtpOff, TpOff
  <2>2. Bias(a) = 0 /\ ld_so_tpoff(a, q, x + n, Block(d).offset) = (x + n) - Block(d).offset
    BY <1>5 DEF Bias, ld_so_tpoff, S390, Ppc, Mips
  <2>3. CASE q.type = "TLS_DTPMOD"
    BY <1>1, <1>4, <1>5, <2>1, <2>3, TlsFinal
  <2>4. CASE q.type = "TLS_DTPOFF"
    BY <1>1, <1>2, <1>4, <1>5, <2>1, <2>2, <2>4, TlsFinal
  <2>5. CASE q.type = "TLS_TPOFF"
    BY <1>1, <1>2, <1>4, <1>5, <2>1, <2>2, <2>5, TlsFinal
  <2> QED BY <2>3, <2>4, <2>5 DEF s390_Tls
<1>7. \A y : ld_so_calls(a, q, y) = 0
  <2>1. q.code = NoCode
    BY <1>1, <1>2 DEF Scene, KinA, FormA, LdCode, S390
  <2> QED BY <2>1, CalmCalls DEF Calm, NoCode
<1>8. ConflictRel(a, z, c, Block("self")) = e
  BY DEF ConflictRel, S390, X86_64, Ppc, Mips
<1>9. q.exec => q.type = "TLS_TPOFF"
  <2>1. q.exec => q.type \notin DtpMod \union DtpOff
    BY <1>1 DEF LdType, ld_exec_types, S390, Mips, s390_Tls
  <2> QED BY <2>1 DEF s390_Tls, DtpMod, DtpOff
<1>10. Block("self").modid = 2
  BY DEF Block
<1>11. CASE q.exec \/ (q.type = "TLS_DTPOFF" /\ c.found /\ c.same)
  <2>1. s.val = x /\ s.isTls /\ s.tlsoffset = Block(d).offset
    BY <1>11 DEF TlsSym
  <2>2. PrelinkRel(a, g, s) = IF a = "s390" THEN s390_prelink_rela(g, s)
          ELSE s390x_prelink_rela(g, s)
    BY DEF PrelinkRel, S390, X86_64, Ppc, Mips
  <2>3. PrelinkRel(a, g, s) = Put(g, q.class, v(x, Block(d)))
    BY <1>1, <1>3, <1>4, <1>5, <1>9, <1>11, <2>1, <2>2 DEF s390_prelink_rela,
       s390x_prelink_rela, s390_Dbl, s390_Dbl16
  <2>4. q.mem = [width |-> q.class, val |-> v(x, Block(d))]
    <3> DEFINE u == v(x, Block(d))
    <3>1. PrelinkRel(a, g, s) = Put(g, q.class, u)
      BY <2>3
    <3> HIDE DEF u
    <3>2. q.mem = [width |-> q.class, val |-> u]
      BY <1>1, <3>1, PutMem DEF Scene
    <3> QED BY <3>2 DEF u
  <2>5. cfl = None
    <3>1. q.exec => ~ c.found
      BY DEF TlsSym
    <3>2. Unneeded(z, c, Block("self"), {"TLS_DTPMOD", "TLS_TPOFF"}, "TLS_DTPOFF")
      BY <1>1, <1>9, <1>11, <3>1 DEF Unneeded
    <3> QED BY <1>8, <3>2 DEF s390_prelink_conflict_rela, s390x_prelink_conflict_rela
  <2> QED BY <1>6, <1>7, <2>4, <2>5, OutNone
<1>12. CASE ~ (q.exec \/ (q.type = "TLS_DTPOFF" /\ c.found /\ c.same))
  <2>1. ConflictValue(c) = x /\ ConflictTls(c, Block("self")) = Block(d) /\ ~ c.ifunc
          /\ (c.found => c.isTls)
        /\ (q.type \in DtpOff => c.found)
    BY <1>12 DEF TlsSym
  <2>2. cfl = Entry(t, v(x, Block(d)))
    <3>1. "TLS_DTPOFF" \in DtpOff
      BY DEF DtpOff
    <3> DEFINE b == ConflictTls(c, Block("self"))
               y == ConflictValue(c)
    <3>2. ~ c.ifunc /\ (c.found => c.isTls) /\ (q.type \in DtpOff => c.found) /\ z.exec = FALSE
      BY <1>1, <1>12, <2>1
    <3>3. ~ Unneeded(z, c, Block("self"), {"TLS_DTPMOD", "TLS_TPOFF"}, "TLS_DTPOFF")
      BY <1>1, <1>10, <1>12, <3>1, <3>2 DEF Unneeded, s390_Tls
    <3>4. e = Entry(t, v(y, b))
      <4>1. y \in Int /\ b.offset \in Int
        BY <1>5, <2>1
      <4>2. y = ConflictValue(c) /\ b = ConflictTls(c, Block("self"))
        OBVIOUS
      <4> HIDE DEF b, y
      <4> QED BY <1>1, <1>3, <3>2, <3>3, <4>1, <4>2 DEF s390_prelink_conflict_rela,
                 s390x_prelink_conflict_rela, s390_Tls, s390_Dbl, s390_Dbl16
    <3> QED BY <1>8, <2>1, <3>4
  <2>3. Out(a, q, Entry(t, v(x, Block(d)))) = Word(q.class, v(x, Block(d)), 0)
    <3>1. \A u : Out(a, q, Entry(t, u)) = Word(q.class, u, 0)
      BY <1>4, <1>7, OutEntry DEF Doubles, Singles
    <3> QED BY <3>1
  <2> QED BY <1>6, <2>2, <2>3
<1> QED BY <1>11, <1>12

(* s390: prelinking and the conflict make the word that ld.so makes of the *)
(* relocation.                                                             *)
LEMMA S390Word ==
  ASSUME NEW a \in S390, NEW g, NEW q, NEW o, NEW s, NEW z, Scene(a, g, q, o, s, z), Bare(o),
         NEW c, NEW d, Viewed(a, q, o, s, c, d), NEW cfl,
               cfl = ConflictRel(a, z, c, Block("self")), cfl.ok
  PROVE  Out(a, q, cfl) = ld_so_relocate(a, q, q.base, d)
<1>1. /\ LdType(a, q) /\ q \in Relocs /\ z \in Relocs /\ q.type = z.type /\ q.base = z.base
           /\ o.type = q.type /\ z.addend \in Int
      /\ z.class = q.class
  BY SceneFacts DEF Scene, Relocs
<1>2. /\ q.type \in {"NONE", "COPY", "RELATIVE", "IRELATIVE"} \union S390Plain \union s390_Tls
      /\ q.type \in Tls <=> q.type \in s390_Tls
      /\ q.type \in NoSymbol <=> q.type \in {"NONE", "COPY", "RELATIVE", "IRELATIVE"}
  BY <1>1, S390Types
<1>3. CASE q.type \in NoSymbol
  <2>1. c = NoConflict /\ ~ NoConflict.found /\ ~ NoConflict.ifunc
    BY <1>3, NoConflictIs DEF Viewed
  <2>2. ConflictRel(a, z, c, Block("self")) = IF a = "s390"
          THEN s390_prelink_conflict_rela(z, c, Block("self"))
                                              ELSE s390x_prelink_conflict_rela(z, c, Block("self"))
    BY DEF ConflictRel, S390, X86_64, Ppc, Mips
  <2>3. q.type \in {"NONE", "COPY", "RELATIVE"} => cfl = None
    BY <1>1, <2>1, <2>2 DEF s390_prelink_conflict_rela, s390x_prelink_conflict_rela, Unneeded
  <2>4. q.type \in Addr => q.mem = [width |-> q.class, val |-> Target(q)]
          /\ z.addend = Target(q)
    BY <1>1 DEF Scene, KinA, AddrKin, InWord, X86Like, S390, Target
  <2>5. ASSUME q.type = "IRELATIVE" PROVE cfl = Entry(q.type, Target(q))
    <3>1. cfl = Entry("IRELATIVE", 0 + z.addend)
      BY <1>1, <2>1, <2>2, <2>5 DEF s390_prelink_conflict_rela, s390x_prelink_conflict_rela,
         Unneeded, ConflictValue, s390_Tls, s390_Dbl, s390_Dbl16
    <3>2. 0 + z.addend = Target(q)
      BY <1>1, <2>4, <2>5 DEF Addr
    <3> QED BY <2>5, <3>1, <3>2
  <2>6. q.code = NoCode
    <3>1. q.type \notin Slot
      BY <1>2, <1>3 DEF Slot
    <3> QED BY <1>1, <3>1 DEF Scene, FormA, LdCode, S390, KinA, AddrKin
  <2>7. a \in RelaArchs /\ a # "sparc"
    BY DEF RelaArchs, Names, S390, RelArchs, Mips
  <2>8. Calm(q) /\ q.type # "JMP_IREL" /\ KinA(a, q, o) /\ FormA(a, o)
    BY <1>2, <1>3, <2>6 DEF Calm, NoCode, Scene
  <2>9. q.type = "RELATIVE" => q.mem = [width |-> q.class, val |-> Target(q)]
    BY <2>4 DEF Addr
  <2> QED BY <1>3, <2>3, <2>5, <2>7, <2>8, <2>9, LocalOut
<1>4. CASE q.type \in s390_Tls
  BY <1>2, <1>4, S390TlsWord DEF Viewed
<1>5. CASE q.type \in S390Plain
  <2>1. q.type \notin NoSymbol \union Tls
    BY <1>2, <1>5 DEF S390Plain, S390Pc, Dbl, s390_Dbl, s390_Dbl16, s390_Tls
  <2>2. PlainSym(q, s, c, At(q, q.base, d)) /\ (c.ifunc => IfuncFits(a, o))
    BY <2>1 DEF Viewed
  <2> QED BY <1>5, <2>2, S390Words
<1> QED BY <1>2, <1>3, <1>4, <1>5

-----------------------------------------------------------------------------
(* sh.                                                                     *)

(* sh: the types.                                                          *)
LEMMA ShTypes ==
  ASSUME NEW q, LdType("sh", q)
  PROVE  /\ q.type \in {"NONE", "COPY", "RELATIVE", "GLOB_DAT", "JMP_SLOT", "DIR32", "REL32"}
         /\ q.type \in NoSymbol <=> q.type \in {"NONE", "COPY", "RELATIVE"}
         /\ q.type \notin Tls /\ RelocClass("sh", q.type) # "TLS"
<1>1. q.type \in {"NONE", "COPY", "RELATIVE", "GLOB_DAT", "JMP_SLOT", "DIR32", "REL32"}
  BY DEF LdType, ld_exec_types, ld_types, X86_64, Ppc, Mips
<1>2. q.type \notin Tls
  BY <1>1 DEF Tls, TpOff, DtpOff, DtpMod, ppc_TpRel, ppc_TpRel16, mips_TpRel, ppc_DtpRel,
     ppc_DtpRel16, mips_DtpRel, mips_DtpMod
<1>3. RelocClass("sh", q.type) # "TLS"
  BY <1>1 DEF RelocClass, sh_reloc_class, X86_64, Ppc, Mips
<1> QED BY <1>1, <1>2, <1>3 DEF NoSymbol

(* sh: the word of a relocation with a symbol.  A conflict has the addend  *)
(* twice: not of one with an addend.                                       *)
LEMMA ShPlain ==
  ASSUME NEW g, NEW q, NEW o, NEW s, NEW z, Scene("sh", g, q, o, s, z),
             q.type \in {"GLOB_DAT", "JMP_SLOT", "DIR32"},
         NEW c, NEW d, NEW x, x = At(q, q.base, d), PlainSym(q, s, c, x), ~ c.ifunc,
         NEW cfl, cfl = ConflictRel("sh", z, c, Block("self")), cfl.ok, cfl.rela # << >> =>
               q.addend = 0
  PROVE  Out("sh", q, cfl) = ld_so_relocate("sh", q, q.base, d)
<1>1. /\ q \in Relocs /\ g \in Relocs /\ z \in Relocs /\ q.rela
      /\ g.type = q.type /\ z.type = q.type /\ z.exec = q.exec /\ o.type = q.type
      /\ q.addend \in Int /\ q.exec \in BOOLEAN /\ q.class = 4
  BY SceneFacts DEF ld_class
<1>2. q.type \notin Addr /\ (q.type \in Slot <=> q.type = "JMP_SLOT")
  BY DEF Addr, Slot
<1>3. g.addend = q.addend /\ z.addend = q.addend /\ q.code = NoCode
  <2>1. CASE q.type = "JMP_SLOT"
    <3>1. o.type \in Slot /\ o.type \notin Addr
      BY <1>1, <1>2, <2>1
    <3>2. o.code = NoCode
      BY <3>1 DEF Scene, FormA, LdCode
    <3>3. SlotKin("sh", q, o) /\ SlotKin("sh", z, o) /\ SlotKin("sh", g, o)
      BY <1>1, <3>1 DEF Scene, KinA
    <3> QED BY <3>2, <3>3 DEF SlotKin
  <2>2. CASE q.type # "JMP_SLOT"
    <3>1. q.type \notin Addr \union Slot
      BY <1>2, <2>2
    <3>2. o.code = NoCode /\ q.code = o.code
      BY <1>1, <3>1 DEF Scene, FormA, KinA, LdCode
    <3> QED BY <3>1, <3>2, SceneFacts
  <2> QED BY <2>1, <2>2
<1>4. ld_width("sh", q) = 4
  BY <1>1, <1>2 DEF ld_width, Slot, s390_Half, s390_Dbl16, ppc_Half, ppc_Low, ppc_DtpRel16,
     ppc_TpRel16, ppc64_Ds, ppc64_Higher
<1>5. x \in Int /\ s.val \in Int /\ c.val \in Int
  BY DEF PlainSym, Syms
<1>6. ld_so_relocate("sh", q, q.base, d) = Word(4, x + q.addend, 0)
  <2>1. CASE q.type = "JMP_SLOT"
    <3>1. q.type \in Slot /\ "sh" \notin {"ppc64", "sparc64"}
      BY <1>2, <2>1
    <3> HIDE <2>1
    <3>2. ld_so_relocate("sh", q, q.base, d) = Word(ld_width("sh", q), x + q.addend, 0)
      BY <1>1, <1>3, <1>5, <3>1, SlotFinal
    <3> QED BY <1>4, <3>2
  <2>2. CASE q.type # "JMP_SLOT"
    <3>1. q.type \notin Special \union Partial \union DtpOff \union TpOff \union PcRel("sh")
      BY <2>2 DEF Special, Slot, DtpMod, mips_DtpMod, PcRel, Dbl, s390_Dbl, s390_Dbl16, Partial,
         DtpOff, TpOff, Insns, Mips, ppc_Predicted, sparc64_Insns, Halves, ppc_Half, ppc_Low,
         ppc_DtpRel16, ppc_TpRel16, ppc_DtpRel, ppc_TpRel, mips_DtpRel, mips_TpRel, ppc64_Ds,
         ppc64_Higher
    <3> QED BY <1>1, <1>4, <1>5, <3>1, WholeFinal
  <2> QED BY <2>1, <2>2
<1>7. q.mem = [width |-> 4, val |-> s.val + q.addend]
  <2>1. PrelinkRel("sh", g, s) = sh_prelink_rela(g, s)
    BY DEF PrelinkRel, X86_64, Ppc, Mips
  <2>2. sh_prelink_rela(g, s) = Put(g, 4, s.val + q.addend)
    BY <1>1, <1>3 DEF sh_prelink_rela
  <2> QED BY <1>1, <2>1, <2>2, PutMem DEF Scene
<1>8. \A y : ld_so_calls("sh", q, y) = 0
  BY <1>3, CalmCalls DEF Calm, NoCode
<1>9. ConflictRel("sh", z, c, Block("self")) = sh_prelink_conflict_rela(z, c, Block("self"))
  BY DEF ConflictRel, X86_64, Ppc, Mips
<1>10. CASE ~ c.found
  <2>1. cfl = None
    BY <1>9, <1>10 DEF sh_prelink_conflict_rela
  <2>2. s.val = x
    BY <1>10 DEF PlainSym
  <2> QED BY <1>6, <1>7, <1>8, <2>1, <2>2, OutNone
<1>11. CASE c.found
  <2>1. c.val = x /\ ~ q.exec
    BY <1>11 DEF PlainSym
  <2>2. \E t \in {"GLOB_DAT", "DIR32", "JMP_SLOT"} : cfl = Entry(t, (c.val + q.addend) + q.addend)
    BY <1>1, <1>3, <1>9, <1>11, <2>1 DEF sh_prelink_conflict_rela
  <2>3. PICK t \in {"GLOB_DAT", "DIR32", "JMP_SLOT"} : cfl = Entry(t, (c.val + q.addend) + q.addend)
    BY <2>2
  <2>4. q.addend = 0
    <3>1. \A u, v : Entry(u, v).rela # << >>
      BY EntryIs
    <3>2. cfl.rela # << >>
      BY <2>3, <3>1
    <3> QED BY <3>2
  <2>5. (c.val + q.addend) + q.addend = x + q.addend
    BY <1>5, <2>1, <2>4
  <2>6. Out("sh", q, Entry(t, x + q.addend)) = Word(4, x + q.addend, 0)
    BY <1>1, <1>3, <1>8, <2>3, OutEntry DEF Slot
  <2> QED BY <1>6, <2>3, <2>5, <2>6
<1> QED BY <1>10, <1>11

(* sh: prelinking and the conflict make the word that ld.so makes of the   *)
(* relocation.                                                             *)
LEMMA ShWord ==
  ASSUME NEW g, NEW q, NEW o, NEW s, NEW z, Scene("sh", g, q, o, s, z), q.type # "REL32",
         NEW c, NEW d, Viewed("sh", q, o, s, c, d), NEW cfl,
               cfl = ConflictRel("sh", z, c, Block("self")), cfl.ok,
         cfl.rela # << >> => q.addend = 0
  PROVE  Out("sh", q, cfl) = ld_so_relocate("sh", q, q.base, d)
<1>1. LdType("sh", q) /\ q \in Relocs /\ g \in Relocs /\ q.type = z.type /\ o.type = q.type
        /\ g.type = q.type /\ q.base = g.base /\ q.class = 4
  BY SceneFacts DEF Scene, ld_class
<1>2. /\ q.type \in {"NONE", "COPY", "RELATIVE", "GLOB_DAT", "JMP_SLOT", "DIR32"}
      /\ q.type \in NoSymbol <=> q.type \in {"NONE", "COPY", "RELATIVE"}
      /\ q.type \notin Tls
  BY <1>1, ShTypes
<1>3. CASE q.type \in NoSymbol
  <2>1. c = NoConflict /\ ~ NoConflict.found
    BY <1>3, NoConflictIs DEF Viewed
  <2>2. cfl = None
    BY <2>1 DEF ConflictRel, X86_64, Ppc, Mips, sh_prelink_conflict_rela
  <2>3. q.code = NoCode
    <3>1. q.type \notin Slot
      BY <1>2, <1>3 DEF Slot
    <3> QED BY <1>1, <3>1 DEF Scene, FormA, LdCode, KinA, AddrKin
  <2>4. ASSUME q.type = "RELATIVE" PROVE q.mem = [width |-> q.class, val |-> Target(q)]
    <3>1. AddrKin("sh", q, o) /\ AddrKin("sh", g, o) /\ Target(g) = Target(q)
      BY <1>1, <2>4 DEF Scene, KinA, Addr, Target
    <3>2. CASE o.addend = 0
      BY <1>1, <3>1, <3>2 DEF AddrKin
    <3>3. CASE o.addend # 0
      <4>1. g.addend = Target(q) /\ g.addend # 0
        <5>1. q.base \in Nat
          BY <1>1 DEF Relocs
        <5> QED BY <3>1, <3>3, <5>1 DEF AddrKin, Target
      <4>2. PrelinkRel("sh", g, s) = Put(g, 4, Target(q))
        BY <1>1, <2>4, <4>1 DEF PrelinkRel, X86_64, Ppc, Mips, sh_prelink_rela
      <4> QED BY <1>1, <4>2, PutMem DEF Scene
    <3> QED BY <3>2, <3>3
  <2>5. Calm(q) /\ q.type \notin {"JMP_IREL", "IRELATIVE"} /\ KinA("sh", q, o)
          /\ FormA("sh", o) /\ "sh" \in RelaArchs /\ "sh" # "sparc"
    BY <1>2, <1>3, <2>3 DEF Calm, NoCode, Scene, RelaArchs, Names, RelArchs, Mips
  <2> QED BY <1>3, <2>2, <2>4, <2>5, LocalOut
<1>4. CASE q.type \in {"GLOB_DAT", "JMP_SLOT", "DIR32"}
  <2>1. PlainSym(q, s, c, At(q, q.base, d)) /\ (c.ifunc => IfuncFits("sh", o))
    BY <1>2, <1>4 DEF Viewed
  <2>2. ~ c.ifunc
    BY <2>1 DEF IfuncFits, X86_64, RelArchs, Mips, Ppc
  <2> QED BY <1>4, <2>1, <2>2, ShPlain
<1> QED BY <1>2, <1>3, <1>4

-----------------------------------------------------------------------------
(* alpha.                                                                  *)

(* alpha: the types, and which of them are for TLS.                        *)
LEMMA AlphaTypes ==
  ASSUME NEW q, LdType("alpha", q)
  PROVE  /\ q.type \in {"NONE", "RELATIVE", "GLOB_DAT", "JMP_SLOT", "REFQUAD"} \union alpha_Tls
         /\ q.type \in NoSymbol <=> q.type \in {"NONE", "RELATIVE"}
         /\ q.type \in Tls <=> q.type \in alpha_Tls
         /\ RelocClass("alpha", q.type) = "TLS" <=> q.type \in Tls
<1>1. q.type \in {"NONE", "RELATIVE", "GLOB_DAT", "JMP_SLOT", "REFQUAD"} \union alpha_Tls
  BY DEF LdType, ld_exec_types, ld_types, X86_64, Ppc, Mips
<1>2. q.type \in Tls <=> q.type \in alpha_Tls
  BY <1>1 DEF Tls, TpOff, DtpOff, DtpMod, ppc_TpRel, ppc_TpRel16, mips_TpRel, ppc_DtpRel,
     ppc_DtpRel16, mips_DtpRel, mips_DtpMod, alpha_Tls
<1>3. RelocClass("alpha", q.type) = "TLS" <=> q.type \in alpha_Tls
  BY <1>1 DEF RelocClass, alpha_reloc_class, X86_64, Ppc, Mips, alpha_Tls
<1> QED BY <1>1, <1>2, <1>3 DEF NoSymbol, alpha_Tls

(* alpha: the word of an address.                                          *)
LEMMA AlphaPlain ==
  ASSUME NEW g, NEW q, NEW o, NEW s, NEW z, Scene("alpha", g, q, o, s, z),
             q.type \in {"GLOB_DAT", "REFQUAD"},
         NEW c, NEW d, NEW x, x = At(q, q.base, d), PlainSym(q, s, c, x), ~ c.ifunc,
         NEW cfl, cfl = ConflictRel("alpha", z, c, Block("self")), cfl.ok
  PROVE  Out("alpha", q, cfl) = ld_so_relocate("alpha", q, q.base, d)
<1>1. /\ q \in Relocs /\ g \in Relocs /\ z \in Relocs /\ q.rela
      /\ g.type = q.type /\ z.type = q.type /\ z.exec = q.exec /\ o.type = q.type
      /\ q.addend \in Int /\ q.exec \in BOOLEAN /\ q.class = 8
  BY SceneFacts DEF ld_class
<1>2. q.type \notin Addr \union Slot
  BY DEF Addr, Slot
<1>3. g.addend = q.addend /\ z.addend = q.addend /\ q.code = NoCode
  <2>1. o.code = NoCode /\ q.code = o.code
    BY <1>1, <1>2 DEF Scene, FormA, KinA, LdCode
  <2> QED BY <1>2, <2>1, SceneFacts
<1>4. ld_width("alpha", q) = 8
  BY <1>1 DEF ld_width, Slot, s390_Half, s390_Dbl16, ppc_Half, ppc_Low, ppc_DtpRel16,
     ppc_TpRel16, ppc64_Ds, ppc64_Higher
<1>5. x \in Int /\ s.val \in Int /\ c.val \in Int
  BY DEF PlainSym, Syms
<1>6. ld_so_relocate("alpha", q, q.base, d) = Word(8, x + q.addend, 0)
  <2>1. q.type \notin Special \union Partial \union DtpOff \union TpOff \union PcRel("alpha")
    BY DEF Special, Slot, DtpMod, mips_DtpMod, PcRel, Dbl, s390_Dbl, s390_Dbl16, Partial,
       DtpOff, TpOff, Insns, Mips, ppc_Predicted, sparc64_Insns, Halves, ppc_Half, ppc_Low,
       ppc_DtpRel16, ppc_TpRel16, ppc_DtpRel, ppc_TpRel, mips_DtpRel, mips_TpRel, ppc64_Ds,
       ppc64_Higher
  <2>2. ld_so_relocate("alpha", q, q.base, d) = Word(ld_width("alpha", q), x + q.addend, 0)
    <3>1. q.type \notin Special \union Partial \union DtpOff \union TpOff
            /\ q.type \notin PcRel("alpha") /\ q \in Relocs /\ q.rela
      BY <1>1, <2>1
    <3> QED BY <1>5, <3>1, WholeFinal
  <2> QED BY <1>4, <2>2
<1>7. q.mem = [width |-> 8, val |-> s.val + q.addend]
  <2>1. PrelinkRel("alpha", g, s) = alpha_prelink_rela(g, s)
    BY DEF PrelinkRel, X86_64, Ppc, Mips
  <2>2. alpha_prelink_rela(g, s) = Put(g, 8, s.val + q.addend)
    BY <1>1, <1>3 DEF alpha_prelink_rela
  <2> QED BY <1>1, <2>1, <2>2, PutMem DEF Scene
<1>8. \A y : ld_so_calls("alpha", q, y) = 0
  BY <1>3, CalmCalls DEF Calm, NoCode
<1>9. ConflictRel("alpha", z, c, Block("self")) = alpha_prelink_conflict_rela(z, c, Block("self"))
  BY DEF ConflictRel, X86_64, Ppc, Mips
<1>10. CASE ~ c.found
  <2>1. cfl = None
    BY <1>1, <1>9, <1>10 DEF alpha_prelink_conflict_rela
  <2>2. s.val = x
    BY <1>10 DEF PlainSym
  <2> QED BY <1>6, <1>7, <1>8, <2>1, <2>2, OutNone
<1>11. CASE c.found
  <2>1. c.val = x /\ ~ q.exec
    BY <1>11 DEF PlainSym
  <2>2. cfl = Entry(q.type, c.val + q.addend)
    BY <1>1, <1>3, <1>9, <1>11, <2>1 DEF alpha_prelink_conflict_rela, alpha_Tls, ConflictValue
  <2>3. \A y : Out("alpha", q, Entry(q.type, y)) = Word(8, y, 0)
    BY <1>1, <1>8, OutEntry
  <2> QED BY <1>6, <2>1, <2>2, <2>3
<1> QED BY <1>10, <1>11

(* alpha: the word of a TLS relocation.                                    *)
LEMMA AlphaTlsWord ==
  ASSUME NEW g, NEW q, NEW o, NEW s, NEW z, Scene("alpha", g, q, o, s, z), q.type \in alpha_Tls,
         NEW c, NEW d, NEW x, x = At(q, q.base, d), TlsSym(q, s, c, x, Block(d)),
         NEW cfl, cfl = ConflictRel("alpha", z, c, Block("self")), cfl.ok
  PROVE  Out("alpha", q, cfl) = ld_so_relocate("alpha", q, q.base, d)
<1> DEFINE n == q.addend
           v(y, b) == CASE q.type = "DTPMOD64" -> b.modid [] q.type = "DTPREL64" -> y + n [] OTHER -> (y + n) + b.offset
           e == alpha_prelink_conflict_rela(z, c, Block("self"))
<1>1. /\ q \in Relocs /\ g \in Relocs /\ z \in Relocs /\ q.rela /\ LdType("alpha", q)
      /\ g.type = q.type /\ z.type = q.type /\ z.exec = q.exec /\ g.exec = q.exec
      /\ q.addend \in Int /\ q.exec \in BOOLEAN /\ q.class = 8
  BY SceneFacts DEF ld_class
<1>2. q.type \notin Partial \union Addr \union Slot
  BY DEF Partial, Addr, Slot, Insns, ppc_Predicted, sparc64_Insns, Halves, ppc_Half, ppc_Low,
     alpha_Tls, ppc_DtpRel16, ppc_TpRel16, ppc64_Ds, ppc64_Higher, Dbl, s390_Dbl, s390_Dbl16
<1>3. g.addend = n /\ z.addend = n
  BY <1>2, SceneFacts
<1>4. ld_width("alpha", q) = 8
  <2>1. q.type \notin {"TLS_LE_HIX22", "TLS_LE_LOX10"} /\ q.type \in Tls
    BY DEF alpha_Tls, Tls, TpOff, DtpOff, DtpMod
  <2> QED BY <1>1, <1>2, <2>1 DEF ld_width, Slot, s390_Half, s390_Dbl16, ppc_Half, ppc_Low,
             ppc_DtpRel16, ppc_TpRel16, ppc64_Ds, ppc64_Higher, alpha_Tls
<1>5. x \in Int /\ Block(d).offset \in Int /\ Block(d).modid \in Int /\ s \in Syms
        /\ s.val \in Int /\ s.tlsoffset \in Int
  BY DEF TlsSym, Syms
<1>6. ld_so_relocate("alpha", q, q.base, d) = Word(8, v(x, Block(d)), 0)
  <2>1. /\ q.type = "DTPMOD64" => q.type \in DtpMod
        /\ q.type = "DTPREL64" => q.type \in DtpOff
        /\ q.type = "TPREL64" => q.type \in TpOff
    BY DEF DtpMod, DtpOff, TpOff
  <2>2. Bias("alpha") = 0
          /\ ld_so_tpoff("alpha", q, x + n, Block(d).offset) = (x + n) + Block(d).offset
    BY <1>5 DEF Bias, ld_so_tpoff, Ppc, Mips
  <2>3. CASE q.type = "DTPMOD64"
    BY <1>1, <1>4, <1>5, <2>1, <2>3, TlsFinal
  <2>4. CASE q.type = "DTPREL64"
    BY <1>1, <1>2, <1>4, <1>5, <2>1, <2>2, <2>4, TlsFinal
  <2>5. CASE q.type = "TPREL64"
    BY <1>1, <1>2, <1>4, <1>5, <2>1, <2>2, <2>5, TlsFinal
  <2> QED BY <2>3, <2>4, <2>5 DEF alpha_Tls
<1>7. \A y : ld_so_calls("alpha", q, y) = 0
  <2>1. q.code = NoCode
    BY <1>1, <1>2 DEF Scene, KinA, FormA, LdCode
  <2> QED BY <2>1, CalmCalls DEF Calm, NoCode
<1>8. ConflictRel("alpha", z, c, Block("self")) = e
  BY DEF ConflictRel, X86_64, Ppc, Mips
<1>9. q.exec => q.type = "TPREL64"
  <2>1. q.exec => q.type \notin DtpMod \union DtpOff
    BY <1>1 DEF LdType, ld_exec_types, Mips, alpha_Tls
  <2> QED BY <2>1 DEF alpha_Tls, DtpMod, DtpOff
<1>10. Block("self").modid = 2
  BY DEF Block
<1>11. CASE q.exec \/ (q.type = "DTPREL64" /\ c.found /\ c.same)
  <2>1. s.val = x /\ s.isTls /\ s.tlsoffset = Block(d).offset
    BY <1>11 DEF TlsSym
  <2>2. PrelinkRel("alpha", g, s) = alpha_prelink_rela(g, s)
    BY DEF PrelinkRel, X86_64, Ppc, Mips
  <2>3. PrelinkRel("alpha", g, s) = Put(g, 8, v(x, Block(d)))
    BY <1>1, <1>3, <1>5, <1>9, <1>11, <2>1, <2>2 DEF alpha_prelink_rela
  <2>4. q.mem = [width |-> 8, val |-> v(x, Block(d))]
    <3> DEFINE u == v(x, Block(d))
    <3>1. PrelinkRel("alpha", g, s) = Put(g, 8, u)
      BY <2>3
    <3> HIDE DEF u
    <3>2. q.mem = [width |-> 8, val |-> u]
      BY <1>1, <3>1, PutMem DEF Scene
    <3> QED BY <3>2 DEF u
  <2>5. cfl = None
    <3>1. ~ c.ifunc /\ z.exec = q.exec
      BY <1>1 DEF TlsSym
    <3> QED BY <1>1, <1>8, <1>11, <3>1 DEF alpha_prelink_conflict_rela
  <2> QED BY <1>6, <1>7, <2>4, <2>5, OutNone
<1>12. CASE ~ (q.exec \/ (q.type = "DTPREL64" /\ c.found /\ c.same))
  <2>1. ConflictValue(c) = x /\ ConflictTls(c, Block("self")) = Block(d) /\ ~ c.ifunc
          /\ (c.found => c.isTls)
        /\ (q.type \in DtpOff => c.found)
    BY <1>12 DEF TlsSym
  <2>2. cfl = Entry("GLOB_DAT", v(x, Block(d)))
    <3>1. "DTPREL64" \in DtpOff
      BY DEF DtpOff
    <3> DEFINE b == ConflictTls(c, Block("self"))
               y == ConflictValue(c)
    <3>2. ~ c.ifunc /\ (c.found => c.isTls) /\ (q.type \in DtpOff => c.found) /\ z.exec = FALSE
      BY <1>1, <1>12, <2>1
    <3>4. e = Entry("GLOB_DAT", v(y, b))
      <4>1. y \in Int /\ b.offset \in Int
        BY <1>5, <2>1
      <4>2. y = ConflictValue(c) /\ b = ConflictTls(c, Block("self"))
        OBVIOUS
      <4> HIDE DEF b, y
      <4> QED BY <1>1, <1>3, <1>10, <1>12, <3>1, <3>2, <4>1, <4>2 DEF
                 alpha_prelink_conflict_rela, alpha_Tls
    <3> QED BY <1>8, <2>1, <3>4
  <2>3. Out("alpha", q, Entry("GLOB_DAT", v(x, Block(d)))) = Word(8, v(x, Block(d)), 0)
    <3>1. \A u : Out("alpha", q, Entry("GLOB_DAT", u)) = Word(8, u, 0)
      BY <1>1, <1>7, OutEntry
    <3> QED BY <3>1
  <2> QED BY <1>6, <2>2, <2>3
<1> QED BY <1>11, <1>12

(* alpha: the word of a PLT slot and the function that its entry calls.    *)
LEMMA AlphaSlot ==
  ASSUME NEW g, NEW q, NEW o, NEW s, NEW z, Scene("alpha", g, q, o, s, z), q.type \in Slot,
             q.addend = o.addend,
         NEW c, NEW d, NEW x, x = At(q, q.base, d), PlainSym(q, s, c, x), ~ c.ifunc,
         NEW cfl, cfl = ConflictRel("alpha", z, c, Block("self")), cfl.ok
  PROVE  Out("alpha", q, cfl) = ld_so_relocate("alpha", q, q.base, d)
<1> DEFINE plt == Plt(q) + 12 * q.slot
<1>1. /\ q \in Relocs /\ g \in Relocs /\ z \in Relocs /\ q.rela /\ LdType("alpha", q)
           /\ o.type = q.type
      /\ g.type = q.type /\ z.type = q.type /\ z.exec = q.exec /\ q.exec \in BOOLEAN
           /\ q.class = 8
      /\ P(q) \in Int /\ P(g) = P(q)
  BY SceneFacts DEF ld_class
<1>2. q.type = "JMP_SLOT" /\ q.type \notin Addr
  BY <1>1, AlphaSlotType DEF Addr
<1>3. q.addend = 0 /\ (~ q.exec => z = q)
  <2>1. o.addend = 0
    BY <1>1, <1>2 DEF Scene, FormA, LdAddends
  <2> QED BY <2>1 DEF Scene
<1>4. plt \in Int /\ Plt(g) + 12 * g.slot = plt
  <2>1. Placed(g, o) /\ Placed(q, o) /\ g.base = q.base
    BY DEF Scene, KinA
  <2>2. q.base \in Nat /\ q.slot \in Nat
    BY <1>1 DEF Relocs
  <2> QED BY <2>1, <2>2 DEF Placed, Plt, PltOffset
<1> HIDE DEF plt
<1>5. x \in Int /\ s.val \in Int /\ c.val \in Int
  BY DEF PlainSym, Syms
<1> DEFINE val == s.val + g.addend
           code == IF Near(val - plt) THEN Direct(val - plt) ELSE Indirect(P(q) - plt)
           m == [Put(g, 8, val) EXCEPT !.code = code]
<1>6. PrelinkRel("alpha", g, s) = m
  <2>1. PrelinkRel("alpha", g, s) = alpha_prelink_rela(g, s)
    BY DEF PrelinkRel, X86_64, Ppc, Mips
  <2>2. alpha_prelink_rela(g, s) = alpha_fixup_plt(Put(g, 8, val), val)
    BY <1>1, <1>2 DEF alpha_prelink_rela
  <2>3. Plt(Put(g, 8, val)) + 12 * Put(g, 8, val).slot = plt /\ P(Put(g, 8, val)) = P(q)
    BY <1>1, <1>4 DEF Put, Plt, P, Relocs
  <2> QED BY <2>1, <2>2, <2>3 DEF alpha_fixup_plt
<1>7. g.addend = 0 /\ q.mem = [width |-> 8, val |-> val] /\ q.code = code
  <2>1. m.addend = g.addend /\ m.mem = [width |-> 8, val |-> val] /\ m.code = code
    <3> HIDE DEF val, code
    <3> QED BY <1>1 DEF Put, Relocs
  <2> HIDE DEF m, code, val
  <2>2. q.addend = m.addend /\ q.mem = m.mem /\ q.code = m.code
    BY <1>6 DEF Scene
  <2> QED BY <1>3, <2>1, <2>2
<1>8. val = s.val
  BY <1>5, <1>7
<1>9. q.code # NoCode /\ ld_so_addend("alpha", q) = 0
  <2>1. \A y : Direct(y) # NoCode /\ Indirect(y) # NoCode
    BY DEF Direct, Indirect, NoCode
  <2> QED BY <1>1, <1>3, <1>7, <2>1 DEF ld_so_addend
<1>10. ld_so_relocate("alpha", q, q.base, d) = Word(8, x, x)
  <2>1. ld_width("alpha", q) = 8
    BY <1>1, <1>2 DEF ld_width, Slot, s390_Half, s390_Dbl16, ppc_Half, ppc_Low, ppc_DtpRel16,
       ppc_TpRel16, ppc64_Ds, ppc64_Higher
  <2>2. At(q, q.base, d) + ld_so_addend("alpha", q) = x
    BY <1>5, <1>9
  <2> QED BY <1>9, <2>1, <2>2, RelocateCode
<1>11. ASSUME NEW y, y = val \/ q.code = Indirect(P(q) - plt)
                  PROVE ld_so_calls("alpha", q, y) = y
  <2>1. plt + (P(q) - plt) = P(q) /\ plt + (val - plt) = val
    BY <1>1, <1>4, <1>5, <1>8
  <2>2. \A k : /\ Direct(k).how = "direct" /\ Direct(k).to = k
               /\ Indirect(k).how = "indirect" /\ Indirect(k).to = k
    BY DEF Direct, Indirect
  <2>3. CASE q.code = Indirect(P(q) - plt)
    <3>1. q.code.how = "indirect" /\ plt + q.code.to = P(q)
      BY <2>1, <2>2, <2>3
    <3> QED BY <3>1 DEF ld_so_calls, plt
  <2>4. CASE q.code # Indirect(P(q) - plt)
    <3>1. q.code = Direct(val - plt) /\ y = val
      BY <1>7, <1>11, <2>4
    <3>2. q.code.how = "direct" /\ plt + q.code.to = val
      BY <2>1, <2>2, <3>1
    <3> QED BY <3>1, <3>2 DEF ld_so_calls, plt
  <2> QED BY <2>3, <2>4
<1> HIDE DEF val, code, m
<1>12. ConflictRel("alpha", z, c, Block("self")) = alpha_prelink_conflict_rela(z, c, Block("self"))
  BY DEF ConflictRel, X86_64, Ppc, Mips
<1>13. CASE ~ c.found
  <2>1. cfl = None
    BY <1>1, <1>2, <1>12, <1>13 DEF alpha_prelink_conflict_rela
  <2>2. val = x
    BY <1>8, <1>13 DEF PlainSym
  <2>3. ld_so_calls("alpha", q, val) = val
    BY <1>11
  <2>4. Out("alpha", q, None) = Word(8, val, val)
    BY <1>7, <2>3, OutNone
  <2> QED BY <1>10, <2>1, <2>2, <2>4
<1>14. CASE c.found
  <2>1. c.val = x /\ ~ q.exec
    BY <1>14 DEF PlainSym
  <2>2. z = q
    BY <1>3, <2>1
  <2>3. cfl = Entry(IF alpha_is_indirect_plt(q) THEN "GLOB_DAT" ELSE "JMP_SLOT", c.val + q.addend)
    BY <1>1, <1>2, <1>12, <1>14, <2>1, <2>2 DEF alpha_prelink_conflict_rela, ConflictValue,
       alpha_Tls
  <2>4. c.val + q.addend = x
    BY <1>3, <1>5, <2>1
  <2>5. CASE q.code = Indirect(P(q) - plt)
    <3>1. cfl = Entry("GLOB_DAT", x)
      BY <2>3, <2>4, <2>5 DEF alpha_is_indirect_plt, plt
    <3>2. \A y : ld_so_calls("alpha", q, y) = y
      BY <1>11, <2>5
    <3>3. \A y : Out("alpha", q, Entry("GLOB_DAT", y)) = Word(8, y, y)
      BY <1>1, <3>2, OutEntry
    <3> QED BY <1>10, <3>1, <3>3
  <2>6. CASE q.code # Indirect(P(q) - plt)
    <3>1. cfl = Entry("JMP_SLOT", x)
      BY <2>3, <2>4, <2>6 DEF alpha_is_indirect_plt, plt
    <3>2. \A y : Out("alpha", q, Entry("JMP_SLOT", y)) = Word(8, y, y)
      BY <1>9, OutEntry DEF Slot
    <3> QED BY <1>10, <3>1, <3>2
  <2> QED BY <2>5, <2>6
<1> QED BY <1>13, <1>14

(* alpha: prelinking and the conflict make the word that ld.so makes of    *)
(* the relocation.                                                         *)
LEMMA AlphaWord ==
  ASSUME NEW g, NEW q, NEW o, NEW s, NEW z, Scene("alpha", g, q, o, s, z),
             q.type = "JMP_SLOT" => q.addend = o.addend,
         NEW c, NEW d, Viewed("alpha", q, o, s, c, d), NEW cfl,
               cfl = ConflictRel("alpha", z, c, Block("self")), cfl.ok
  PROVE  Out("alpha", q, cfl) = ld_so_relocate("alpha", q, q.base, d)
<1>1. LdType("alpha", q) /\ q.type = z.type /\ o.type = q.type
  BY SceneFacts
<1>2. /\ q.type \in {"NONE", "RELATIVE", "GLOB_DAT", "JMP_SLOT", "REFQUAD"} \union alpha_Tls
      /\ q.type \in NoSymbol <=> q.type \in {"NONE", "RELATIVE"}
      /\ q.type \in Tls <=> q.type \in alpha_Tls
  BY <1>1, AlphaTypes
<1>3. CASE q.type \in NoSymbol
  <2>1. q.type \in {"NONE", "RELATIVE"}
    BY <1>2, <1>3
  <2>2. cfl = None
    BY <1>1, <2>1 DEF ConflictRel, X86_64, Ppc, Mips, alpha_prelink_conflict_rela
  <2>3. q.code = NoCode
    <3>1. q.type \notin Slot
      BY <2>1 DEF Slot
    <3> QED BY <1>1, <3>1 DEF Scene, FormA, LdCode, KinA, AddrKin
  <2>4. q.type = "RELATIVE" => q.mem = [width |-> q.class, val |-> Target(q)]
    BY <1>1 DEF Scene, KinA, AddrKin, InWord, Addr, X86Like, X86_64
  <2>5. Calm(q) /\ q.type \notin {"JMP_IREL", "IRELATIVE"} /\ KinA("alpha", q, o)
          /\ FormA("alpha", o) /\ "alpha" \in RelaArchs /\ "alpha" # "sparc"
    BY <2>1, <2>3 DEF Calm, NoCode, Scene, RelaArchs, Names, RelArchs, Mips
  <2> QED BY <1>3, <2>2, <2>4, <2>5, LocalOut
<1>4. CASE q.type \in alpha_Tls
  BY <1>2, <1>4, AlphaTlsWord DEF Viewed
<1>5. CASE q.type \in {"GLOB_DAT", "JMP_SLOT", "REFQUAD"}
  <2>0. q.type \notin NoSymbol \union Tls
    BY <1>2, <1>5 DEF alpha_Tls
  <2>1. PlainSym(q, s, c, At(q, q.base, d)) /\ (c.ifunc => IfuncFits("alpha", o))
    BY <2>0 DEF Viewed
  <2>2. ~ c.ifunc
    BY <2>1 DEF IfuncFits, X86_64, RelArchs, Mips, Ppc
  <2>3. CASE q.type \in Slot
    <3>1. q.addend = o.addend
      BY <1>5, <2>3 DEF Slot
    <3> QED BY <2>1, <2>2, <2>3, <3>1, AlphaSlot
  <2>4. CASE q.type \in {"GLOB_DAT", "REFQUAD"}
    BY <2>1, <2>2, <2>4, AlphaPlain
  <2> QED BY <1>5, <2>3, <2>4 DEF Slot
<1> QED BY <1>2, <1>3, <1>4, <1>5

-----------------------------------------------------------------------------
(* Fields of instructions, and what the callbacks of the others have in    *)
(* common.                                                                 *)

(* Values of 16 bits, and their sign.                                      *)
LEMMA HalfValues ==
  ASSUME NEW y \in Int
  PROVE  /\ HalfWord(Lo16(y)) /\ HalfWord(Hi16(y)) /\ HalfWord(Ha16(y))
         /\ Lo16(Signed16(y)) = Lo16(y)
         /\ HalfWord(y) => Lo16(Signed16(y)) = y
<1>1. HalfWord(Lo16(y))
  BY SMT DEF HalfWord, Lo16
<1>2. HalfWord(Hi16(y))
  BY SMT DEF HalfWord, Hi16
<1>3. HalfWord(Ha16(y))
  BY SMT DEF HalfWord, Ha16, Hi16
<1>4. Lo16(Signed16(y)) = Lo16(y)
  BY SMT DEF Signed16, Lo16
<1>5. HalfWord(y) => Lo16(y) = y
  BY SMT DEF HalfWord, Lo16
<1> QED BY <1>1, <1>2, <1>3, <1>4, <1>5

(* What ld.so writes into a field of 16 bits.                              *)
LEMMA HalfField ==
  ASSUME NEW t \in Halves, NEW w, HalfWord(w), NEW x \in Int
  PROVE  /\ t \in ppc_Low \union {"DTPREL16", "DTPREL16_LO", "TPREL16", "TPREL16_LO"} =>
              ld_so_insert(t, w, x) = Lo16(x)
         /\ t \in {"ADDR16_HI", "DTPREL16_HI", "TPREL16_HI"} => ld_so_insert(t, w, x) = Hi16(x)
         /\ t \in {"ADDR16_HA", "DTPREL16_HA", "TPREL16_HA"} => ld_so_insert(t, w, x) = Ha16(x)
<1>1. t \notin Predicted \union ppc64_Higher \union Dbl \union ppc64_Ds
        \union {"ADDR24", "REL24", "ADDR14"}
  BY DEF Halves, ppc_Half, ppc_Low, ppc_DtpRel16, ppc_TpRel16, Predicted, ppc_Predicted,
     ppc64_Higher, Dbl, s390_Dbl, s390_Dbl16, ppc64_Ds
<1>2. t \notin SparcInsns
  BY DEF Halves, ppc_Half, ppc_Low, ppc_DtpRel16, ppc_TpRel16, SparcInsns, sparc64_Insns
<1>3. ASSUME t \in ppc_Low \union {"DTPREL16", "DTPREL16_LO", "TPREL16", "TPREL16_LO"}
             PROVE ld_so_insert(t, w, x) = Lo16(x)
  <2>1. ld_so_field(t) = Bits(0, 1, 0, 16)
    BY <1>1, <1>3 DEF ld_so_field, ppc_Low
  <2>2. ld_so_insert(t, w, x) = Insert(w, 0, 16, (x + 0) \div 1)
    BY <1>1, <1>2, <2>1 DEF ld_so_insert, Bits, SparcInsns, sparc64_Insns
  <2>3. (x + 0) \div 1 = x
    OBVIOUS
  <2> QED BY <2>2, <2>3, AnewHalf DEF Lo16
<1>4. ASSUME t \in {"ADDR16_HI", "DTPREL16_HI", "TPREL16_HI"}
             PROVE ld_so_insert(t, w, x) = Hi16(x)
  <2>1. ld_so_field(t) = Bits(0, 65536, 0, 16)
    BY <1>1, <1>4 DEF ld_so_field, ppc_Low
  <2>2. ld_so_insert(t, w, x) = Insert(w, 0, 16, (x + 0) \div 65536)
    BY <1>1, <1>2, <2>1 DEF ld_so_insert, Bits, SparcInsns, sparc64_Insns
  <2>3. (x + 0) \div 65536 = x \div 65536 /\ x \div 65536 \in Int
    OBVIOUS
  <2> QED BY <2>2, <2>3, AnewHalf DEF Hi16
<1>5. ASSUME t \in {"ADDR16_HA", "DTPREL16_HA", "TPREL16_HA"}
             PROVE ld_so_insert(t, w, x) = Ha16(x)
  <2>1. ld_so_field(t) = Bits(32768, 65536, 0, 16)
    BY <1>1, <1>5 DEF ld_so_field, ppc_Low
  <2>2. ld_so_insert(t, w, x) = Insert(w, 0, 16, (x + 32768) \div 65536)
    BY <1>1, <1>2, <2>1 DEF ld_so_insert, Bits, SparcInsns, sparc64_Insns
  <2>3. (x + 32768) \div 65536 \in Int
    OBVIOUS
  <2> QED BY <2>2, <2>3, AnewHalf DEF Ha16, Hi16
<1> QED BY <1>3, <1>4, <1>5

(* ppc: prelink and ld.so write the same fields of an instruction.         *)
LEMMA PpcField ==
  ASSUME NEW t, NEW w \in Int, NEW x \in Int, t \in ppc_Half => HalfWord(w)
  PROVE  /\ t \in ppc_Half => ld_so_insert(t, w, x) = ppc_half(t, x) /\ HalfWord(ppc_half(t, x))
         /\ t \in {"ADDR24", "REL24"} => ld_so_insert(t, w, x) = Insert(w, 2, 26, x)
         /\ t = "ADDR14" => ld_so_insert(t, w, x) = ppc_addr14(w, x)
         /\ t \in ppc_Predicted =>
              ld_so_insert(t, w, x) = ppc_addr14_br(w, x, t = "ADDR14_BRTAKEN")
         /\ t \in ppc64_Higher => ld_so_insert(t, w, x) = 0
<1>1. ASSUME t \in ppc_Half PROVE ld_so_insert(t, w, x) = ppc_half(t, x)
             /\ HalfWord(ppc_half(t, x))
  <2>0. t \in Halves /\ HalfWord(w)
    BY <1>1 DEF Halves
  <2>1. CASE t \in ppc_Low
    <3>1. ppc_half(t, x) = Lo16(x)
      BY <2>1 DEF ppc_half, ppc_Low
    <3> QED BY <2>0, <2>1, <3>1, HalfField, HalfValues
  <2>2. CASE t = "ADDR16_HI"
    <3>1. ppc_half(t, x) = Hi16(x)
      BY <2>2 DEF ppc_half, ppc_Low
    <3> QED BY <2>0, <2>2, <3>1, HalfField, HalfValues
  <2>3. CASE t = "ADDR16_HA"
    <3>1. ppc_half(t, x) = Ha16(x)
      BY <2>3 DEF ppc_half, ppc_Low
    <3> QED BY <2>0, <2>3, <3>1, HalfField, HalfValues
  <2> QED BY <1>1, <2>1, <2>2, <2>3 DEF ppc_Half
<1>2. ASSUME t \in {"ADDR24", "REL24", "ADDR14"} PROVE t \notin Predicted \union ppc64_Higher
             \union Dbl \union ppc64_Ds \union SparcInsns \union ppc_Low
  BY <1>2 DEF SparcInsns, sparc64_Insns, Predicted, ppc_Predicted, ppc64_Higher, Dbl, s390_Dbl,
     s390_Dbl16, ppc64_Ds, ppc_Low
<1>3. ASSUME t \in {"ADDR24", "REL24"} PROVE ld_so_insert(t, w, x) = Insert(w, 2, 26, x)
  <2>1. ld_so_field(t) = Bits(0, 1, 2, 26)
    BY <1>2, <1>3 DEF ld_so_field
  <2>2. ld_so_insert(t, w, x) = Insert(w, 2, 26, (x + 0) \div 1)
    BY <1>2, <1>3, <2>1 DEF ld_so_insert, Bits, SparcInsns, sparc64_Insns
  <2>3. (x + 0) \div 1 = x
    OBVIOUS
  <2> QED BY <2>2, <2>3
<1>4. ASSUME t = "ADDR14" PROVE ld_so_insert(t, w, x) = ppc_addr14(w, x)
  <2>1. ld_so_field(t) = Bits(0, 1, 2, 16)
    BY <1>2, <1>4 DEF ld_so_field
  <2>2. ld_so_insert(t, w, x) = Insert(w, 2, 16, (x + 0) \div 1)
    BY <1>2, <1>4, <2>1 DEF ld_so_insert, Bits, SparcInsns, sparc64_Insns
  <2>3. (x + 0) \div 1 = x
    OBVIOUS
  <2> QED BY <2>2, <2>3 DEF ppc_addr14
<1>5. t \in ppc_Predicted => ld_so_insert(t, w, x) = ppc_addr14_br(w, x, t = "ADDR14_BRTAKEN")
  BY DEF ld_so_insert, ppc_addr14_br, ppc_addr14, Predicted, ppc_Predicted, ppc64_Higher
<1>6. t \in ppc64_Higher => ld_so_insert(t, w, x) = 0
  BY DEF ld_so_insert, Predicted, ppc_Predicted, ppc64_Higher
<1> QED BY <1>1, <1>3, <1>4, <1>5, <1>6

(* ppc: the same of offsets in a TLS block.                                *)
LEMMA PpcTlsField ==
  ASSUME NEW t, NEW w, HalfWord(w), NEW x \in Int, NEW b \in Int
  PROVE  /\ t \in ppc_DtpRel16 => ld_so_insert(t, w, x - 32768) = ppc_dtprel(t, x)
              /\ HalfWord(ppc_dtprel(t, x))
         /\ t \in ppc_TpRel16 => ld_so_insert(t, w, x + b - 28672) = ppc_tprel(t, x, b)
              /\ HalfWord(ppc_tprel(t, x, b))
         /\ ppc_dtprel("DTPREL32", x) = x - 32768 /\ ppc_tprel("TPREL32", x, b) = x + b - 28672
<1>1. x - 32768 \in Int /\ (x - 32768) + 32768 = x /\ x + b - 28672 \in Int
  OBVIOUS
<1> DEFINE u == x + b - 28672
<1>2. u = x + b - 28672
  OBVIOUS
<1>3. ASSUME t \in ppc_DtpRel16 PROVE ld_so_insert(t, w, x - 32768) = ppc_dtprel(t, x)
             /\ HalfWord(ppc_dtprel(t, x))
  <2>1. t \in Halves
    BY <1>3 DEF Halves
  <2>2. CASE t \in {"DTPREL16", "DTPREL16_LO"}
    <3>1. ppc_dtprel(t, x) = Lo16(x - 32768)
      BY <2>2 DEF ppc_dtprel
    <3> QED BY <1>1, <2>1, <2>2, <3>1, HalfField, HalfValues
  <2>3. CASE t = "DTPREL16_HI"
    <3>1. ppc_dtprel(t, x) = Hi16(x - 32768)
      BY <2>3 DEF ppc_dtprel
    <3> QED BY <1>1, <2>1, <2>3, <3>1, HalfField, HalfValues
  <2>4. CASE t = "DTPREL16_HA"
    <3>1. ppc_dtprel(t, x) = Hi16(x)
      BY <2>4 DEF ppc_dtprel
    <3>2. Ha16(x - 32768) = Hi16(x)
      BY <1>1 DEF Ha16
    <3> QED BY <1>1, <2>1, <2>4, <3>1, <3>2, HalfField, HalfValues
  <2> QED BY <1>3, <2>2, <2>3, <2>4 DEF ppc_DtpRel16
<1>4. ASSUME t \in ppc_TpRel16 PROVE ld_so_insert(t, w, u) = ppc_tprel(t, x, b)
             /\ HalfWord(ppc_tprel(t, x, b))
  <2>1. t \in Halves /\ u \in Int
    BY <1>1, <1>4 DEF Halves
  <2>2. CASE t \in {"TPREL16", "TPREL16_LO"}
    <3>1. ppc_tprel(t, x, b) = Lo16(u)
      BY <2>2 DEF ppc_tprel
    <3> HIDE DEF u
    <3> QED BY <2>1, <2>2, <3>1, HalfField, HalfValues
  <2>3. CASE t = "TPREL16_HI"
    <3>1. ppc_tprel(t, x, b) = Hi16(u)
      BY <2>3 DEF ppc_tprel
    <3> HIDE DEF u
    <3> QED BY <2>1, <2>3, <3>1, HalfField, HalfValues
  <2>4. CASE t = "TPREL16_HA"
    <3>1. ppc_tprel(t, x, b) = Ha16(u)
      BY <2>4 DEF ppc_tprel
    <3> HIDE DEF u
    <3> QED BY <2>1, <2>4, <3>1, HalfField, HalfValues
  <2> QED BY <1>4, <2>2, <2>3, <2>4 DEF ppc_TpRel16
<1>5. ppc_dtprel("DTPREL32", x) = x - 32768 /\ ppc_tprel("TPREL32", x, b) = x + b - 28672
  BY DEF ppc_dtprel, ppc_tprel
<1> QED BY <1>3, <1>4, <1>5

(* The words of two stages of a relocation differ only where the           *)
(* relocation writes.                                                      *)
LEMMA KinWords ==
  ASSUME NEW a \in RelaArchs, NEW p, NEW q, NEW o, KinA(a, p, o), KinA(a, q, o), FormA(a, o),
             q.type \notin ppc64_Ds
  PROVE  Interchangeable(q.type, p.mem.val, q.mem.val) /\ p.mem.val \in Int /\ q.mem.val \in Int
<1>1. p.type = q.type /\ o.type = q.type /\ p \in Relocs /\ q \in Relocs /\ LdType(a, o)
  BY DEF KinA, FormA
<1>2. q.type # "PC24"
  BY <1>1, BranchTypes
<1>3. p.mem.val \in Int /\ q.mem.val \in Int
  BY <1>1, KinFacts
<1> QED BY <1>1, <1>2, <1>3 DEF KinA, Interchangeable

(* What ld.so makes of an ordinary relocation.                             *)
LEMMA InsertFinal ==
  ASSUME NEW a, NEW q \in Relocs, q.rela, q.type \notin Special, NEW d, NEW x \in Int,
             x = At(q, q.base, d)
  PROVE  ld_so_relocate(a, q, q.base, d)
           = Word(ld_width(a, q), ld_so_insert(q.type, q.mem.val, ld_so_operand(a, q, x + q.addend, d)), 0)
<1>1. ld_so_addend(a, q) = q.addend
  BY DEF ld_so_addend
<1> QED BY <1>1, RelocateOther, MappedSame

(* The value of a relocation: y, or how far that is from the place.        *)
Oper(a, q, y) == IF q.type \in PcRel(a) THEN y - P(q) ELSE y

(* What is written for a TLS relocation, over the word w.                  *)
TlsPut(a, q, w, y, b) ==
  CASE q.type \in DtpMod -> b.modid
    [] q.type \in DtpOff -> ld_so_insert(q.type, w, y - Bias(a))
    [] OTHER -> ld_so_insert(q.type, w, ld_so_tpoff(a, q, y, b.offset))

(* prelink writes the value of the relocation, with the symbol it          *)
(* resolved.                                                               *)
PutPlain(a, g, q, s) ==
  PrelinkRel(a, g, s).mem
    = [width |-> ld_width(a, q), val |-> ld_so_insert(q.type, g.mem.val, Oper(a, q, s.val + q.addend))]

(* The conflict, if there is one, writes the value of the relocation, with *)
(* the symbol of the program.                                              *)
OutPlain(a, q, z, c, cfl) ==
  /\ ~ c.found => cfl = None
  /\ c.found /\ ~ c.ifunc =>
       Out(a, q, cfl) = Word(ld_width(a, q), ld_so_insert(q.type, z.mem.val, Oper(a, q, c.val + q.addend)), 0)
  /\ c.found /\ c.ifunc => /\ Out(a, q, cfl) = Word(ld_width(a, q), ld_so_ifunc(c.val), 0)
                           /\ q.addend = 0 /\ q.type \notin Partial \union PcRel(a)

(* TLS words that prelink computes itself.                                 *)
InPlace(q, c) == q.exec \/ (q.type \in DtpOff /\ c.found /\ c.same)

(* prelink writes the offset of the TLS symbol that it resolved.           *)
PutTls(a, g, q, s) ==
  s.isTls => PrelinkRel(a, g, s).mem
               = [width |-> ld_width(a, q),
                  val |-> TlsPut(a, q, g.mem.val, s.val + q.addend, [modid |-> s.modid, offset |-> s.tlsoffset])]

(* For the others the conflict writes the offset in the program.           *)
OutTls(a, q, z, c, cfl) ==
  IF InPlace(q, c) THEN cfl = None
  ELSE Out(a, q, cfl) = Word(ld_width(a, q),
         TlsPut(a, q, z.mem.val, ConflictValue(c) + q.addend, ConflictTls(c, Block("self"))), 0)

(* A callback with PutPlain and a conflict with OutPlain make the word     *)
(* that ld.so makes of the relocation.                                     *)
LEMMA PlainOut ==
  ASSUME NEW a \in RelaArchs, NEW g, NEW q, NEW o, NEW s, NEW z, Scene(a, g, q, o, s, z),
             Calm(q),
         q.type \notin Special, q.type \notin DtpOff \union TpOff, q.type \notin ppc64_Ds,
         NEW c, NEW d, NEW x, x = At(q, q.base, d), PlainSym(q, s, c, x), NEW cfl,
         PutPlain(a, g, q, s), OutPlain(a, q, z, c, cfl)
  PROVE  Out(a, q, cfl) = ld_so_relocate(a, q, q.base, d)
<1>1. q \in Relocs /\ q.rela /\ q.addend \in Int /\ P(q) \in Int
  BY SceneFacts
<1>2. x \in Int /\ s.val \in Int /\ c.val \in Int
  BY DEF PlainSym, Syms
<1>3. \A y \in Int : ld_so_operand(a, q, y, d) = Oper(a, q, y) /\ Oper(a, q, y) \in Int
  BY <1>1 DEF ld_so_operand, Oper
<1>4. x + q.addend \in Int
  BY <1>1, <1>2
<1>5. ld_so_relocate(a, q, q.base, d)
        = Word(ld_width(a, q), ld_so_insert(q.type, q.mem.val, Oper(a, q, x + q.addend)), 0)
  <2>1. ld_so_relocate(a, q, q.base, d)
          = Word(ld_width(a, q), ld_so_insert(q.type, q.mem.val, ld_so_operand(a, q, x + q.addend, d)), 0)
    BY <1>1, <1>2, InsertFinal
  <2>2. ld_so_operand(a, q, x + q.addend, d) = Oper(a, q, x + q.addend)
    BY <1>3, <1>4
  <2> QED BY <2>1, <2>2
<1>6. /\ \A y \in Int : ld_so_insert(q.type, g.mem.val, y) = ld_so_insert(q.type, q.mem.val, y)
      /\ \A y \in Int : ld_so_insert(q.type, z.mem.val, y) = ld_so_insert(q.type, q.mem.val, y)
  <2>1. Interchangeable(q.type, g.mem.val, q.mem.val) /\ g.mem.val \in Int /\ q.mem.val \in Int
    BY KinWords DEF Scene
  <2>2. Interchangeable(q.type, z.mem.val, q.mem.val) /\ z.mem.val \in Int
    BY KinWords DEF Scene
  <2> QED BY <2>1, <2>2, InsertSame
<1> DEFINE k == Oper(a, q, x + q.addend)
<1>7. k \in Int
  BY <1>3, <1>4
<1>8. CASE ~ c.found
  <2>1. s.val = x /\ cfl = None
    BY <1>8 DEF PlainSym, OutPlain
  <2>2. q.mem = [width |-> ld_width(a, q), val |-> ld_so_insert(q.type, g.mem.val, k)]
    BY <2>1 DEF Scene, PutPlain
  <2>3. q.mem.width = ld_width(a, q) /\ q.mem.val = ld_so_insert(q.type, g.mem.val, k)
    BY <2>2
  <2> HIDE DEF k
  <2> HIDE <2>2
  <2>4. q.mem.val = ld_so_insert(q.type, q.mem.val, k)
    BY <1>6, <1>7, <2>3
  <2>5. Out(a, q, None) = Word(q.mem.width, q.mem.val, 0)
    BY OutNone, CalmCalls
  <2>6. ld_so_relocate(a, q, q.base, d) = Word(ld_width(a, q), ld_so_insert(q.type, q.mem.val, k), 0)
    BY <1>5 DEF k
  <2> QED BY <2>1, <2>3, <2>4, <2>5, <2>6
<1>9. CASE c.found /\ ~ c.ifunc
  <2>1. c.val = x
    BY <1>9 DEF PlainSym
  <2>2. Out(a, q, cfl) = Word(ld_width(a, q), ld_so_insert(q.type, z.mem.val, k), 0)
    BY <1>9, <2>1 DEF OutPlain
  <2> HIDE DEF k
  <2>3. ld_so_insert(q.type, z.mem.val, k) = ld_so_insert(q.type, q.mem.val, k)
    BY <1>6, <1>7
  <2>4. ld_so_relocate(a, q, q.base, d) = Word(ld_width(a, q), ld_so_insert(q.type, q.mem.val, k), 0)
    BY <1>5 DEF k
  <2> QED BY <2>2, <2>3, <2>4
<1>10. CASE c.found /\ c.ifunc
  <2>1. ld_so_ifunc(c.val) = x
    BY <1>10 DEF PlainSym
  <2>2. q.addend = 0 /\ q.type \notin Partial /\ q.type \notin PcRel(a)
    BY <1>10 DEF OutPlain
  <2>3. k = x
    BY <1>2, <2>2 DEF Oper
  <2>4. ld_so_insert(q.type, q.mem.val, x) = x
    BY <1>2, <2>2, WholeInsert
  <2> QED BY <1>5, <1>10, <2>1, <2>3, <2>4 DEF OutPlain
<1> QED BY <1>8, <1>9, <1>10 DEF PlainSym

(* The same of TLS relocations.                                            *)
LEMMA TlsOut ==
  ASSUME NEW a \in RelaArchs, NEW g, NEW q, NEW o, NEW s, NEW z, Scene(a, g, q, o, s, z),
             Calm(q),
         q.type \in DtpOff \union TpOff \union DtpMod, q.type \notin ppc64_Ds, q.exec =>
           q.type \in TpOff,
         NEW c, NEW d, NEW x, x = At(q, q.base, d), TlsSym(q, s, c, x, Block(d)), NEW cfl,
         InPlace(q, c) => PutTls(a, g, q, s), OutTls(a, q, z, c, cfl)
  PROVE  Out(a, q, cfl) = ld_so_relocate(a, q, q.base, d)
<1> DEFINE n == q.addend
           f(w) == TlsPut(a, q, w, x + n, Block(d))
<1>1. q \in Relocs /\ q.rela /\ q.addend \in Int
  BY SceneFacts
<1>2. x \in Int /\ Block(d).offset \in Int /\ Block(d).modid \in Int /\ x + n \in Int
  BY <1>1 DEF TlsSym
<1>3. ld_so_relocate(a, q, q.base, d) = Word(ld_width(a, q), f(q.mem.val), 0)
  <2>1. CASE q.type \in DtpMod
    <3>1. f(q.mem.val) = Block(d).modid
      BY <2>1, TlsApart DEF TlsPut
    <3> HIDE DEF f
    <3> QED BY <1>1, <1>2, <2>1, <3>1, TlsFinal
  <2>2. CASE q.type \in DtpOff
    <3>0. \A y \in Int : ld_so_operand(a, q, y, d) = y - Bias(a)
      BY <1>2, <2>2, TlsOperand
    <3>1. f(q.mem.val) = ld_so_insert(q.type, q.mem.val, ld_so_operand(a, q, x + n, d))
      BY <1>2, <2>2, <3>0, TlsApart DEF TlsPut
    <3> HIDE DEF f
    <3> QED BY <1>1, <1>2, <2>2, <3>1, TlsFinal
  <2>3. CASE q.type \in TpOff
    <3>0. \A y \in Int : ld_so_operand(a, q, y, d) = ld_so_tpoff(a, q, y, Block(d).offset)
      BY <1>2, <2>3, TlsOperand
    <3>1. f(q.mem.val) = ld_so_insert(q.type, q.mem.val, ld_so_operand(a, q, x + n, d))
      BY <1>2, <2>3, <3>0, TlsApart DEF TlsPut
    <3> HIDE DEF f
    <3> QED BY <1>1, <1>2, <2>3, <3>1, TlsFinal
  <2> QED BY <2>1, <2>2, <2>3
<1>4. f(g.mem.val) = f(q.mem.val) /\ f(z.mem.val) = f(q.mem.val)
  <2>1. Interchangeable(q.type, g.mem.val, q.mem.val) /\ g.mem.val \in Int /\ q.mem.val \in Int
    BY KinWords DEF Scene
  <2>2. Interchangeable(q.type, z.mem.val, q.mem.val) /\ z.mem.val \in Int
    BY KinWords DEF Scene
  <2>3. \A y \in Int : /\ ld_so_insert(q.type, g.mem.val, y) = ld_so_insert(q.type, q.mem.val, y)
                       /\ ld_so_insert(q.type, z.mem.val, y) = ld_so_insert(q.type, q.mem.val, y)
    BY <2>1, <2>2, InsertSame
  <2>4. \A y \in Int : ld_so_tpoff(a, q, y, Block(d).offset) \in Int /\ y - Bias(a) \in Int
    BY <1>2, TlsOperand
  <2> QED BY <1>2, <2>3, <2>4 DEF TlsPut
<1>5. \A u, w, y : TlsPut(a, q, w, y, u) = TlsPut(a, q, w, y, [modid |-> u.modid, offset |-> u.offset])
  BY DEF TlsPut
<1> HIDE DEF f
<1>6. CASE q.exec \/ (q.type \in DtpOff /\ c.found /\ c.same)
  <2>1. s.val = x /\ s.isTls /\ s.tlsoffset = Block(d).offset /\ s.modid = Block(d).modid
    BY <1>6 DEF TlsSym
  <2>2. TlsPut(a, q, g.mem.val, s.val + q.addend, [modid |-> s.modid, offset |-> s.tlsoffset]) = f(g.mem.val)
    BY <1>5, <2>1 DEF f
  <2>3. q.mem.width = ld_width(a, q) /\ q.mem.val = f(g.mem.val)
    <3>1. q.mem = [width |-> ld_width(a, q), val |-> f(g.mem.val)]
      BY <1>6, <2>1, <2>2 DEF Scene, InPlace, PutTls
    <3> QED BY <3>1
  <2>4. Out(a, q, None) = Word(q.mem.width, q.mem.val, 0)
    BY OutNone, CalmCalls
  <2>5. cfl = None
    BY <1>6 DEF OutTls, InPlace
  <2> QED BY <1>3, <1>4, <2>3, <2>4, <2>5
<1>7. CASE ~ (q.exec \/ (q.type \in DtpOff /\ c.found /\ c.same))
  <2>1. q.exec \in BOOLEAN /\ ~ q.exec
    BY <1>7, SceneFacts
  <2>2. ConflictValue(c) = x /\ ConflictTls(c, Block("self")) = Block(d)
    BY <2>1 DEF TlsSym
  <2>3. Out(a, q, cfl) = Word(ld_width(a, q), f(z.mem.val), 0)
    BY <1>7, <2>2 DEF f, OutTls, InPlace
  <2> QED BY <1>3, <1>4, <2>3
<1> QED BY <1>6, <1>7

-----------------------------------------------------------------------------
(* ppc.                                                                    *)

(* ppc: branches and relative words.                                       *)
PpcRest == {"ADDR24", "ADDR14", "REL24", "REL32"}

(* ppc: the relocations with a symbol, but for PLT slots and TLS.          *)
PpcPlain == PpcRest \union ppc_Word \union ppc_Half \union ppc_Predicted

(* The architectures of arch-ppc.c and arch-ppc64.c.                       *)
PpcAll == Ppc \union {"ppc64"}

(* ppc64: the same, with words of 8 bytes.                                 *)
Ppc64Plain == PpcPlain \union {"ADDR64", "UADDR64", "REL64"} \union ppc64_Higher

(* ppc: the TLS relocations.                                               *)
PpcTls == {"DTPMOD32"} \union ppc_DtpRel \union ppc_TpRel

(* ppc: the types, and which of them are for TLS.                          *)
LEMMA PpcTypes ==
  ASSUME NEW a \in Ppc, NEW q, LdType(a, q)
  PROVE  /\ q.type \in {"NONE", "COPY", "RELATIVE", "IRELATIVE", "JMP_SLOT"} \union PpcPlain
              \union PpcTls
         /\ q.type \in NoSymbol <=> q.type \in {"NONE", "COPY", "RELATIVE", "IRELATIVE"}
         /\ q.type \in Tls <=> q.type \in PpcTls
         /\ RelocClass(a, q.type) = "TLS" <=> q.type \in Tls
<1>1. q.type \in {"NONE", "COPY", "RELATIVE", "IRELATIVE", "JMP_SLOT"} \union PpcPlain
        \union PpcTls
  <2>1. ld_types(a) = {"NONE", "RELATIVE"}
          \union {"IRELATIVE", "JMP_SLOT", "ADDR24", "ADDR14", "REL24", "REL32", "DTPMOD32"}
           \union ppc_Word \union ppc_Half \union Predicted \union ppc_DtpRel \union ppc_TpRel
    BY DEF ld_types, X86_64, Ppc
  <2>2. q.type \in ld_types(a) \union {"COPY"}
    BY DEF LdType, ld_exec_types, Mips, Ppc
  <2> QED BY <2>1, <2>2 DEF PpcPlain, PpcRest, PpcTls, Predicted
<1>2. q.type \in Tls <=> q.type \in PpcTls
  BY <1>1 DEF Tls, TpOff, DtpOff, DtpMod, ppc_TpRel, ppc_TpRel16, mips_TpRel, ppc_DtpRel,
     ppc_DtpRel16, mips_DtpRel, mips_DtpMod, PpcPlain, PpcRest, PpcTls, ppc_Word, ppc_Half,
     ppc_Low, ppc_Predicted
<1>3. RelocClass(a, q.type) = ppc_reloc_class(q.type)
  BY DEF RelocClass, X86_64, Ppc, Mips
<1>4. ppc_reloc_class(q.type) = "TLS" <=> q.type \in PpcTls
  BY <1>1 DEF ppc_reloc_class, PpcTls, ppc_DtpRel, ppc_DtpRel16, ppc_TpRel, ppc_TpRel16
<1>5. q.type \in NoSymbol <=> q.type \in {"NONE", "COPY", "RELATIVE", "IRELATIVE"}
  BY <1>1 DEF NoSymbol, PpcPlain, PpcRest, PpcTls, ppc_Word, ppc_Half, ppc_Low, ppc_Predicted,
     ppc_DtpRel, ppc_DtpRel16, ppc_TpRel, ppc_TpRel16
<1> QED BY <1>1, <1>2, <1>3, <1>4, <1>5

(* ppc, ppc64: what kind of relocations these are for ld.so.               *)
LEMMA PpcKinds ==
  ASSUME NEW a \in Ppc \union {"ppc64"}, NEW q, q.type \in PpcPlain
             \union {"ADDR64", "UADDR64", "REL64"} \union ppc64_Higher
  PROVE  /\ q.type \notin Special \union DtpOff \union TpOff \union ppc64_Ds \union Addr
              \union Slot
         /\ q.type \in ppc_Word \union {"ADDR64", "UADDR64", "REL32", "REL64"} =>
              q.type \notin Partial
         /\ q.type \in PcRel(a) <=> q.type \in {"REL24", "REL32", "REL64"}
<1>1. q.type \notin Special \union DtpOff \union TpOff \union ppc64_Ds \union Addr \union Slot
  BY DEF PpcPlain, PpcRest, ppc_Word, ppc_Half, ppc_Low, ppc_Predicted, ppc64_Higher, Special,
     Slot, DtpMod, mips_DtpMod, DtpOff, TpOff, ppc_TpRel, ppc_TpRel16, mips_TpRel, ppc_DtpRel,
     ppc_DtpRel16, mips_DtpRel, ppc64_Ds, Addr
<1>2. q.type \in ppc_Word \union {"ADDR64", "UADDR64", "REL32", "REL64"} =>
        q.type \notin Partial
  BY DEF ppc_Word, Partial, Insns, sparc64_Insns, Halves, ppc_Half, ppc_Low, ppc_Predicted,
     ppc_DtpRel16, ppc_TpRel16, ppc64_Ds, ppc64_Higher, Dbl, s390_Dbl, s390_Dbl16
<1>3. q.type \in PcRel(a) <=> q.type \in {"REL24", "REL32", "REL64"}
  BY DEF PcRel, Mips, Ppc, Dbl, s390_Dbl, s390_Dbl16, PpcPlain, PpcRest, ppc_Word, ppc_Half,
     ppc_Low, ppc_Predicted, ppc64_Higher
<1> QED BY <1>1, <1>2, <1>3

(* ppc, ppc64: what ld.so writes for each type.                            *)
LEMMA PpcPut ==
  ASSUME NEW a \in PpcAll, NEW q, q.type \in Ppc64Plain,
         P(q) \in Int, NEW w \in Int, q.type \in ppc_Half => HalfWord(w), NEW y \in Int
  PROVE  /\ q.type \in ppc_Word \union {"ADDR64", "UADDR64"} =>
              ld_so_insert(q.type, w, Oper(a, q, y)) = y
         /\ q.type \in {"REL32", "REL64"} => ld_so_insert(q.type, w, Oper(a, q, y)) = y - P(q)
         /\ q.type \in ppc_Half => ld_so_insert(q.type, w, Oper(a, q, y)) = ppc_half(q.type, y)
              /\ HalfWord(ppc_half(q.type, y))
         /\ q.type \in {"ADDR24"} =>
              ld_so_insert(q.type, w, Oper(a, q, y)) = Insert(w, 2, 26, y)
         /\ q.type \in {"REL24"} =>
              ld_so_insert(q.type, w, Oper(a, q, y)) = Insert(w, 2, 26, y - P(q))
         /\ q.type \in {"ADDR14"} => ld_so_insert(q.type, w, Oper(a, q, y)) = ppc_addr14(w, y)
         /\ q.type \in ppc_Predicted =>
              ld_so_insert(q.type, w, Oper(a, q, y)) = ppc_addr14_br(w, y, q.type = "ADDR14_BRTAKEN")
         /\ q.type \in ppc64_Higher => ld_so_insert(q.type, w, Oper(a, q, y)) = 0
<1>1. q.type \in {"REL24", "REL32", "REL64"} => Oper(a, q, y) = y - P(q)
  BY PpcKinds DEF Oper, Ppc64Plain, PpcAll
<1>2. q.type \notin {"REL24", "REL32", "REL64"} => Oper(a, q, y) = y
  BY PpcKinds DEF Oper, Ppc64Plain, PpcAll
<1>3. y - P(q) \in Int
  OBVIOUS
<1>4. CASE q.type \in ppc_Word \union {"ADDR64", "UADDR64"}
  <2>1. q.type \notin Partial /\ q.type \notin {"REL24", "REL32", "REL64"} \union ppc_Half
          \union {"ADDR24", "ADDR14"} \union ppc_Predicted \union ppc64_Higher
    BY <1>4, PpcKinds DEF PpcAll, Ppc64Plain, ppc_Word, ppc_Half, ppc_Low, ppc_Predicted,
       ppc64_Higher
  <2>2. ld_so_insert(q.type, w, y) = y
    BY <2>1, WholeInsert
  <2> QED BY <1>2, <2>1, <2>2
<1>5. CASE q.type \in {"REL32", "REL64"}
  <2>1. q.type \notin Partial /\ q.type \notin {"REL24"} \union ppc_Word
          \union {"ADDR64", "UADDR64"} \union ppc_Half \union {"ADDR24", "ADDR14"}
          \union ppc_Predicted \union ppc64_Higher
    BY <1>5, PpcKinds DEF PpcAll, Ppc64Plain, ppc_Word, ppc_Half, ppc_Low, ppc_Predicted,
       ppc64_Higher
  <2>2. ld_so_insert(q.type, w, y - P(q)) = y - P(q)
    BY <1>3, <2>1, WholeInsert
  <2> QED BY <1>1, <1>5, <2>1, <2>2
<1>6. CASE q.type \in ppc_Half \union {"ADDR24", "ADDR14"} \union ppc_Predicted
             \union ppc64_Higher
  <2>1. q.type \notin {"REL24", "REL32", "REL64"} \union ppc_Word \union {"ADDR64", "UADDR64"}
    BY <1>6 DEF ppc_Word, ppc_Half, ppc_Low, ppc_Predicted, ppc64_Higher
  <2>2. Oper(a, q, y) = y
    BY <1>2, <2>1
  <2>3. /\ q.type \in ppc_Half => ld_so_insert(q.type, w, y) = ppc_half(q.type, y)
             /\ HalfWord(ppc_half(q.type, y))
        /\ q.type \in {"ADDR24", "REL24"} => ld_so_insert(q.type, w, y) = Insert(w, 2, 26, y)
        /\ q.type = "ADDR14" => ld_so_insert(q.type, w, y) = ppc_addr14(w, y)
        /\ q.type \in ppc_Predicted =>
             ld_so_insert(q.type, w, y) = ppc_addr14_br(w, y, q.type = "ADDR14_BRTAKEN")
        /\ q.type \in ppc64_Higher => ld_so_insert(q.type, w, y) = 0
    BY PpcField
  <2> QED BY <2>1, <2>2, <2>3
<1>7. CASE q.type \in {"REL24"}
  <2>1. q.type \notin {"REL32", "REL64", "ADDR24", "ADDR14"} \union ppc_Word
          \union {"ADDR64", "UADDR64"} \union ppc_Half \union ppc_Predicted \union ppc64_Higher
    BY <1>7 DEF ppc_Word, ppc_Half, ppc_Low, ppc_Predicted, ppc64_Higher
  <2>2. ld_so_insert(q.type, w, y - P(q)) = Insert(w, 2, 26, y - P(q))
    BY <1>3, <1>7, <2>1, PpcField
  <2> QED BY <1>1, <1>7, <2>1, <2>2
<1> QED BY <1>4, <1>5, <1>6, <1>7 DEF Ppc64Plain, PpcPlain, PpcRest

(* ppc, ppc64: only a PLT slot has code.                                   *)
LEMMA PpcCalm ==
  ASSUME NEW a \in Ppc \union {"ppc64"}, NEW q, NEW o, KinA(a, q, o), FormA(a, o),
             q.type \notin Slot
  PROVE  Calm(q)
<1>1. o.type = q.type /\ o.code = LdCode(a, o)
  BY DEF KinA, FormA
<1>2. q.code = o.code
  BY DEF KinA, AddrKin
<1> QED BY <1>1, <1>2 DEF LdCode, Calm, Lazy, NoCode

(* ppc: the word of a relocation with a symbol.  A conflict loses the      *)
(* prediction bit of an ADDR14_BRTAKEN: not of that one.                   *)
LEMMA PpcWords ==
  ASSUME NEW a \in Ppc, NEW g, NEW q, NEW o, NEW s, NEW z, Scene(a, g, q, o, s, z),
             q.type \in PpcPlain,
         NEW c, NEW d, NEW x, x = At(q, q.base, d), PlainSym(q, s, c, x), c.ifunc =>
               IfuncFits(a, o),
         NEW cfl, cfl = ConflictRel(a, z, c, Block("self")), cfl.ok, cfl.rela # << >> =>
               q.type # "ADDR14_BRTAKEN"
  PROVE  Out(a, q, cfl) = ld_so_relocate(a, q, q.base, d)
<1> DEFINE n == q.addend
           f(w, y) == ld_so_insert(q.type, w, Oper(a, q, y))
           width == IF q.type \in ppc_Half THEN 2 ELSE 4
<1>1. /\ q \in Relocs /\ g \in Relocs /\ z \in Relocs /\ q.rela /\ LdType(a, q)
      /\ g.type = q.type /\ z.type = q.type /\ z.exec = q.exec /\ o.type = q.type
           /\ g.exec = q.exec
      /\ q.addend \in Int /\ P(q) \in Int /\ P(g) = P(q) /\ P(z) = P(q) /\ q.exec \in BOOLEAN
      /\ q.class = 4 /\ g.mem.val \in Int /\ z.mem.val \in Int
  BY SceneFacts, KinFacts, SMTT(20) DEF ld_class, Ppc, Scene
<1>2. /\ q.type \notin Special /\ q.type \notin DtpOff \union TpOff /\ q.type \notin ppc64_Ds
           /\ q.type \notin Addr \union Slot
      /\ a \in RelaArchs
  BY PpcKinds DEF Ppc, RelaArchs, Names, RelArchs, Mips
<1>3. g.addend = n /\ z.addend = n /\ o.addend = n
  BY <1>2, SceneFacts
<1>4. ld_width(a, q) = width
  BY <1>1, <1>2 DEF ld_width, Slot, s390_Half, s390_Dbl16, ppc_Half, ppc_Low, ppc_DtpRel16,
     ppc_TpRel16, ppc64_Ds, ppc64_Higher, mips_Got, mips_Global, mips_Undefined, mips_Defined,
     Tls, Special, PpcPlain, PpcRest, ppc_Word, ppc_Predicted, Mips, Ppc
<1>5. x \in Int /\ s.val \in Int /\ c.val \in Int
  BY DEF PlainSym, Syms
<1>6. q.type \in ppc_Half => HalfWord(g.mem.val) /\ HalfWord(z.mem.val)
  BY <1>1 DEF Scene, KinA, Halves
<1>7. \A w \in Int, y \in Int : (q.type \in ppc_Half => HalfWord(w)) =>
         /\ q.type \in ppc_Word => f(w, y) = y
         /\ q.type \in {"REL32"} => f(w, y) = y - P(q)
         /\ q.type \in ppc_Half => f(w, y) = ppc_half(q.type, y)
              /\ HalfWord(ppc_half(q.type, y))
         /\ q.type \in {"ADDR24"} => f(w, y) = Insert(w, 2, 26, y)
         /\ q.type \in {"REL24"} => f(w, y) = Insert(w, 2, 26, y - P(q))
         /\ q.type \in {"ADDR14"} => f(w, y) = ppc_addr14(w, y)
         /\ q.type \in ppc_Predicted => f(w, y) = ppc_addr14_br(w, y, q.type = "ADDR14_BRTAKEN")
  <2>1. q.type \in Ppc64Plain /\ a \in PpcAll
    BY DEF Ppc64Plain, PpcAll
  <2> QED BY <1>1, <2>1, PpcPut
<1> HIDE DEF f
<1>8. PrelinkRel(a, g, s).mem = [width |-> ld_width(a, q), val |-> f(g.mem.val, s.val + n)]
  <2>1. PrelinkRel(a, g, s) = ppc_prelink_rela(g, s)
    BY DEF PrelinkRel, X86_64, Ppc, Mips
  <2>2. s.val + n \in Int
    BY <1>1, <1>5
  <2>3. ppc_prelink_rela(g, s) = Put(g, width, f(g.mem.val, s.val + n))
    BY <1>1, <1>3, <1>6, <1>7, <2>2 DEF ppc_prelink_rela, PpcPlain, PpcRest, ppc_Word, ppc_Half,
       ppc_Low, ppc_Predicted, ppc_DtpRel, ppc_DtpRel16, ppc_TpRel, ppc_TpRel16
  <2> HIDE DEF width
  <2> QED BY <1>1, <1>4, <2>1, <2>3, PutMem
<1>9. Calm(q) /\ \A y : ld_so_calls(a, q, y) = 0
  <2>1. KinA(a, q, o) /\ FormA(a, o) /\ q.type \notin Slot
    BY <1>2 DEF Scene
  <2>2. Calm(q)
    BY <2>1, PpcCalm
  <2> QED BY <2>2, CalmCalls
<1> DEFINE e == ppc_prelink_conflict_rela(z, c, Block("self"))
           dtprel == IF z.type \in ppc_DtpRel THEN z.type ELSE "DTPREL32"
           none == Unneeded(z, c, Block("self"), {"DTPMOD32"} \union ppc_TpRel, dtprel)
<1>10. ConflictRel(a, z, c, Block("self")) = e
  BY DEF ConflictRel, X86_64, Ppc, Mips
<1>11. /\ q.type \notin {"DTPMOD32", "IRELATIVE", "RELATIVE", "NONE", "JMP_SLOT", "DTPREL32"}
            \union ppc_DtpRel \union ppc_TpRel
       /\ ppc_reloc_class(q.type) # "TLS"
  BY DEF PpcPlain, PpcRest, ppc_Word, ppc_Half, ppc_Low, ppc_Predicted, ppc_DtpRel,
     ppc_DtpRel16, ppc_TpRel, ppc_TpRel16, ppc_reloc_class
<1>12. ~ c.found => cfl = None
  BY <1>1, <1>10, <1>11 DEF ppc_prelink_conflict_rela, Unneeded
<1>13. ASSUME c.found, c.ifunc \/ ~ q.exec PROVE ~ none
  BY <1>1, <1>11, <1>13 DEF Unneeded
<1>14. ASSUME c.found /\ ~ c.ifunc
       PROVE  Out(a, q, cfl) = Word(ld_width(a, q), f(z.mem.val, c.val + n), 0)
  <2>1. ~ none
    BY <1>13, <1>14 DEF PlainSym
  <2> DEFINE k == c.val + n
  <2>2. k \in Int /\ ConflictValue(c) + z.addend = k
    BY <1>1, <1>3, <1>5, <1>14 DEF ConflictValue
  <2> HIDE DEF k, none
  <2>3. CASE q.type \in ppc_Word \union {"REL32", "ADDR24", "REL24", "ADDR14"}
    <3>0. q.type \notin ppc_Half /\ {"ADDR32", "UADDR32"} \subseteq Singles
      BY <2>3 DEF ppc_Word, ppc_Half, ppc_Low, Singles
    <3>1. \E t \in Singles : e = Entry(t, f(z.mem.val, k))
      <4>1. CASE q.type \in ppc_Word
        <5>1. f(z.mem.val, k) = k
          BY <1>1, <1>7, <2>2, <3>0, <4>1
        <5>2. \E t \in {"ADDR32", "UADDR32"} : e = Entry(t, k)
          BY <1>1, <1>11, <1>14, <2>1, <2>2, <4>1 DEF ppc_prelink_conflict_rela, ppc_Word,
             ppc_Half, ppc_Low, ppc_Predicted, none
        <5> QED BY <3>0, <5>1, <5>2
      <4>2. CASE q.type \in {"REL32", "ADDR24", "REL24", "ADDR14"}
        <5>1. /\ q.type \in {"REL32"} => f(z.mem.val, k) = k - P(q)
              /\ q.type \in {"ADDR24"} => f(z.mem.val, k) = Insert(z.mem.val, 2, 26, k)
              /\ q.type \in {"REL24"} => f(z.mem.val, k) = Insert(z.mem.val, 2, 26, k - P(q))
              /\ q.type \in {"ADDR14"} => f(z.mem.val, k) = ppc_addr14(z.mem.val, k)
          BY <1>1, <1>7, <2>2, <3>0
        <5>2. e = Entry("ADDR32", f(z.mem.val, k))
          BY <1>1, <1>11, <1>14, <2>1, <2>2, <4>2, <5>1 DEF ppc_prelink_conflict_rela, ppc_Word,
             ppc_Half, ppc_Low, ppc_Predicted, none
        <5> QED BY <3>0, <5>2
      <4> QED BY <2>3, <4>1, <4>2
    <3>2. width = 4
      BY <2>3 DEF ppc_Word, ppc_Half, ppc_Low
    <3> HIDE DEF e
    <3>3. \A t \in Singles : \A v : Out(a, q, Entry(t, v)) = Word(4, v, 0)
      BY <1>9, OutEntry
    <3> QED BY <1>4, <1>10, <3>1, <3>2, <3>3 DEF k
  <2>4. CASE q.type \in ppc_Predicted
    <3>1. e = Entry("ADDR32", ppc_addr14_br(z.mem.val, k, FALSE))
      BY <1>1, <1>11, <1>14, <2>1, <2>2, <2>4 DEF ppc_prelink_conflict_rela, ppc_Word, ppc_Half,
         ppc_Low, ppc_Predicted, none
    <3>2. width = 4
      BY <2>4 DEF ppc_Predicted, ppc_Half, ppc_Low
    <3> HIDE DEF e
    <3>3. \A t \in Singles : \A v : Out(a, q, Entry(t, v)) = Word(4, v, 0)
      BY <1>9, OutEntry
    <3>3a. \A t, v : Entry(t, v).rela # << >>
      BY EntryIs
    <3>4. "ADDR32" \in Singles
      BY DEF Singles
    <3>5. q.type # "ADDR14_BRTAKEN"
      BY <1>10, <3>1, <3>3a
    <3>6. f(z.mem.val, k) = ppc_addr14_br(z.mem.val, k, q.type = "ADDR14_BRTAKEN")
      <4>1. q.type \notin ppc_Half
        BY <2>4 DEF ppc_Predicted, ppc_Half, ppc_Low
      <4> QED BY <1>1, <1>7, <2>2, <2>4, <4>1
    <3>7. f(z.mem.val, k) = ppc_addr14_br(z.mem.val, k, FALSE)
      BY <3>5, <3>6 DEF ppc_addr14_br
    <3> QED BY <1>4, <1>10, <3>1, <3>2, <3>3, <3>4, <3>7 DEF k
  <2>5. CASE q.type \in ppc_Half
    <3>1. f(z.mem.val, k) = ppc_half(q.type, k) /\ HalfWord(ppc_half(q.type, k))
      BY <1>1, <1>6, <1>7, <2>2, <2>5
    <3>2. \E t \in {"ADDR16", "UADDR16"}, u \in Int : e = Entry(t, Signed16(u))
            /\ Lo16(u) = ppc_half(q.type, k)
      <4>1. CASE q.type \in {"UADDR16"}
        <5>1. e = Entry("UADDR16", Signed16(k))
          BY <1>1, <1>11, <1>14, <2>1, <2>2, <4>1 DEF ppc_prelink_conflict_rela, ppc_Word,
             ppc_Half, ppc_Low, ppc_Predicted, none
        <5>2. Lo16(k) = ppc_half(q.type, k)
          BY <4>1 DEF ppc_half, ppc_Low
        <5> QED BY <2>2, <5>1, <5>2
      <4>2. CASE q.type \notin {"UADDR16"}
        <5>1. e = Entry("ADDR16", Signed16(ppc_half(q.type, k)))
          BY <1>1, <1>11, <1>14, <2>1, <2>2, <2>5, <4>2 DEF ppc_prelink_conflict_rela, ppc_Word,
             ppc_Half, ppc_Low, ppc_Predicted, none
        <5>2. \A h : HalfWord(h) => h \in Int /\ Lo16(h) = h
          BY SMT DEF HalfWord, Lo16
        <5> QED BY <3>1, <5>1, <5>2
      <4> QED BY <4>1, <4>2
    <3> HIDE DEF e
    <3>3. PICK t \in {"ADDR16", "UADDR16"}, u \in Int : e = Entry(t, Signed16(u))
            /\ Lo16(u) = ppc_half(q.type, k)
      BY <3>2
    <3>4. Out(a, q, Entry(t, Signed16(u))) = Word(2, Lo16(Signed16(u)), 0)
      BY <1>9, OutEntry
    <3>5. Lo16(Signed16(u)) = Lo16(u)
      BY HalfValues
    <3> QED BY <1>4, <1>10, <2>5, <3>1, <3>3, <3>4, <3>5 DEF k
  <2> QED BY <2>3, <2>4, <2>5 DEF PpcPlain, PpcRest
<1>15. ASSUME c.found /\ c.ifunc
       PROVE  /\ Out(a, q, cfl) = Word(ld_width(a, q), ld_so_ifunc(c.val), 0)
              /\ q.addend = 0 /\ q.type \notin Partial \union PcRel(a)
  <2>1. ~ none
    BY <1>13, <1>15
  <2>2. IfuncFits(a, o) /\ o.rela
    BY <1>15 DEF Scene, FormA
  <2>3. q.type \in ppc_Word /\ n = 0
    BY <1>1, <1>2, <1>3, <2>2 DEF IfuncFits, PpcPlain, PpcRest, ppc_Word, ppc_Half, ppc_Low,
       ppc_Predicted
  <2>4. ConflictValue(c) + z.addend = c.val
    BY <1>3, <1>5, <1>15, <2>3 DEF ConflictValue
  <2> HIDE DEF none
  <2>5. e = Entry("IRELATIVE", c.val)
    BY <1>1, <1>11, <1>15, <2>1, <2>3, <2>4 DEF ppc_prelink_conflict_rela, ppc_Word, ppc_Half,
       ppc_Low, ppc_Predicted, none
  <2> HIDE DEF e
  <2>6. \A v : Out(a, q, Entry("IRELATIVE", v)) = Word(q.class, ld_so_ifunc(v), 0)
    BY <1>9, OutEntry
  <2>7. width = 4
    BY <2>3 DEF ppc_Word, ppc_Half, ppc_Low
  <2>8. q.type \notin Partial /\ q.type \notin PcRel(a)
    <3>1. q.type \notin {"REL24", "REL32", "REL64"}
      BY <2>3 DEF ppc_Word
    <3> QED BY <2>3, <3>1, PpcKinds
  <2> QED BY <1>1, <1>4, <1>10, <2>3, <2>5, <2>6, <2>7, <2>8
<1> HIDE DEF e, none, dtprel
<1>16. PutPlain(a, g, q, s)
  BY <1>8 DEF f, PutPlain
<1>17. OutPlain(a, q, z, c, cfl)
  BY <1>12, <1>14, <1>15 DEF f, OutPlain
<1>18. Calm(q) /\ a \in RelaArchs
  BY <1>2, <1>9
<1> QED BY <1>2, <1>16, <1>17, <1>18, PlainOut, ZenonT(40)

(* ppc, ppc64: what ld.so writes for each TLS type.                        *)
LEMMA PpcTlsPut ==
  ASSUME NEW a \in PpcAll, NEW q, NEW w \in Int, q.type \in Halves => HalfWord(w),
             NEW y \in Int,
         NEW b, b.offset \in Int
  PROVE  /\ q.type \in ppc_DtpRel16 => TlsPut(a, q, w, y, b) = ppc_dtprel(q.type, y)
              /\ HalfWord(ppc_dtprel(q.type, y))
         /\ q.type \in ppc_TpRel16 => /\ TlsPut(a, q, w, y, b) = ppc_tprel(q.type, y, b.offset)
                                      /\ HalfWord(ppc_tprel(q.type, y, b.offset))
         /\ q.type \in {"DTPREL32", "DTPREL64"} => TlsPut(a, q, w, y, b) = y - 32768
         /\ q.type \in {"TPREL32", "TPREL64"} => TlsPut(a, q, w, y, b) = y + b.offset - 28672
         /\ q.type \in DtpMod => TlsPut(a, q, w, y, b) = b.modid
<1>1. Bias(a) = 32768 /\ ld_so_tpoff(a, q, y, b.offset) = y + b.offset - 28672
  BY DEF Bias, ld_so_tpoff, PpcAll, Ppc, Mips
<1>2. /\ ppc_DtpRel16 \union {"DTPREL32", "DTPREL64"} \subseteq DtpOff /\ ppc_TpRel16
           \union {"TPREL32", "TPREL64"} \subseteq TpOff
      /\ ppc_DtpRel16 \union ppc_TpRel16 \subseteq Halves
      /\ ({"DTPREL32", "DTPREL64", "TPREL32", "TPREL64"} \intersect Partial) = {}
  <2>1. ppc_DtpRel16 \union {"DTPREL32", "DTPREL64"} \subseteq DtpOff /\ ppc_TpRel16
          \union {"TPREL32", "TPREL64"} \subseteq TpOff
    BY DEF DtpOff, TpOff, ppc_DtpRel, ppc_TpRel
  <2>2. ppc_DtpRel16 \union ppc_TpRel16 \subseteq Halves
    BY DEF Halves
  <2>3. ({"DTPREL32", "DTPREL64", "TPREL32", "TPREL64"} \intersect Partial) = {}
    BY DEF Partial, Insns, sparc64_Insns, Halves, ppc_Half, ppc_Low, ppc_Predicted,
       ppc_DtpRel16, ppc_TpRel16, ppc64_Ds, ppc64_Higher, Dbl, s390_Dbl, s390_Dbl16
  <2> QED BY <2>1, <2>2, <2>3
<1>3. /\ q.type \in DtpOff => TlsPut(a, q, w, y, b) = ld_so_insert(q.type, w, y - 32768)
      /\ q.type \in TpOff =>
           TlsPut(a, q, w, y, b) = ld_so_insert(q.type, w, y + b.offset - 28672)
      /\ q.type \in DtpMod => TlsPut(a, q, w, y, b) = b.modid
  BY <1>1, TlsApart DEF TlsPut
<1>4. y - 32768 \in Int /\ y + b.offset - 28672 \in Int
  OBVIOUS
<1>5. q.type \in {"DTPREL32", "DTPREL64"} => TlsPut(a, q, w, y, b) = y - 32768
  <2>1. \A t, v : v \in Int /\ t \notin Partial => ld_so_insert(t, w, v) = v
    BY WholeInsert
  <2> QED BY <1>2, <1>3, <1>4, <2>1
<1>6. q.type \in {"TPREL32", "TPREL64"} => TlsPut(a, q, w, y, b) = y + b.offset - 28672
  <2> DEFINE u == y + b.offset - 28672
  <2>1. q.type \in TpOff => TlsPut(a, q, w, y, b) = ld_so_insert(q.type, w, u)
    BY <1>3
  <2>2. u \in Int
    BY <1>4
  <2> HIDE DEF u
  <2>3. q.type \in {"TPREL32", "TPREL64"} => TlsPut(a, q, w, y, b) = u
    BY <1>2, <2>1, <2>2, WholeInsert
  <2> QED BY <2>3 DEF u
<1>7. q.type \in ppc_DtpRel16 => TlsPut(a, q, w, y, b) = ppc_dtprel(q.type, y)
        /\ HalfWord(ppc_dtprel(q.type, y))
  BY <1>2, <1>3, PpcTlsField
<1>8. q.type \in ppc_TpRel16 => /\ TlsPut(a, q, w, y, b) = ppc_tprel(q.type, y, b.offset)
                                /\ HalfWord(ppc_tprel(q.type, y, b.offset))
  BY <1>2, <1>3, PpcTlsField
<1> QED BY <1>3, <1>5, <1>6, <1>7, <1>8

(* ppc: the word of a TLS relocation.                                      *)
LEMMA PpcTlsWord ==
  ASSUME NEW a \in Ppc, NEW g, NEW q, NEW o, NEW s, NEW z, Scene(a, g, q, o, s, z),
             q.type \in PpcTls,
         NEW c, NEW d, NEW x, x = At(q, q.base, d), TlsSym(q, s, c, x, Block(d)),
         NEW cfl, cfl = ConflictRel(a, z, c, Block("self")), cfl.ok
  PROVE  Out(a, q, cfl) = ld_so_relocate(a, q, q.base, d)
<1> DEFINE n == q.addend
           half == ppc_DtpRel16 \union ppc_TpRel16
<1>1. /\ q \in Relocs /\ g \in Relocs /\ z \in Relocs /\ q.rela /\ LdType(a, q)
      /\ g.type = q.type /\ z.type = q.type /\ z.exec = q.exec /\ o.type = q.type
           /\ g.exec = q.exec
      /\ q.addend \in Int /\ q.exec \in BOOLEAN
      /\ q.class = 4 /\ g.mem.val \in Int /\ z.mem.val \in Int
  BY SceneFacts, KinFacts DEF ld_class, Ppc, Scene
<1>2. /\ q.type \notin ppc64_Ds /\ q.type \notin Addr \union Slot /\ a \in RelaArchs
      /\ q.type \in {"DTPMOD32"} <=> q.type \in DtpMod
      /\ q.type \in ppc_DtpRel <=> q.type \in DtpOff
      /\ q.type \in ppc_TpRel <=> q.type \in TpOff
  <2>1. q.type \notin ppc64_Ds /\ q.type \notin Addr \union Slot /\ a \in RelaArchs
    BY DEF PpcTls, ppc_DtpRel, ppc_DtpRel16, ppc_TpRel, ppc_TpRel16, ppc64_Ds, Addr, Slot, Ppc,
       RelaArchs, Names, RelArchs, Mips
  <2>2. ({"DTPMOD32"} \subseteq DtpMod) /\ (ppc_DtpRel \subseteq DtpOff)
          /\ (ppc_TpRel \subseteq TpOff)
    BY DEF DtpMod, DtpOff, TpOff
  <2> QED BY <2>1, <2>2, TlsApart DEF PpcTls
<1>3. g.addend = n /\ z.addend = n
  BY <1>2, SceneFacts
<1>4. ld_width(a, q) = IF q.type \in half THEN 2 ELSE 4
  <2>1. q.type \in Tls /\ q.type \notin {"TLS_LE_HIX22", "TLS_LE_LOX10"}
    BY <1>2 DEF PpcTls, Tls, ppc_DtpRel, ppc_DtpRel16, ppc_TpRel, ppc_TpRel16
  <2>2. CASE q.type \in half
    <3>1. q.type \notin {"8", "DISP8", "JMP_IREL", "64", "UA64", "DISP64", "PC64", "DTPMOD64",
                         "DTPOFF64", "TPOFF64", "GLOB_DAT", "RELATIVE", "IRELATIVE", "NONE",
                         "COPY", "ADDR64", "UADDR64", "REL64", "REFQUAD", "REL32"} \union Slot
                         \union mips_Got
      BY <2>2 DEF ppc_DtpRel16, ppc_TpRel16, Slot, mips_Got, mips_Global, mips_Undefined,
         mips_Defined
    <3> QED BY <2>2, <3>1 DEF ld_width
  <2>3. CASE q.type \in {"DTPMOD32", "DTPREL32", "TPREL32"}
    BY <1>1, <2>1, <2>3 DEF ld_width, Slot, s390_Half, s390_Dbl16, ppc_Half, ppc_Low,
       ppc_DtpRel16, ppc_TpRel16, ppc64_Ds, ppc64_Higher
  <2> QED BY <2>2, <2>3 DEF PpcTls, ppc_DtpRel, ppc_TpRel
<1>5. x \in Int /\ s.val \in Int /\ s.tlsoffset \in Int
  BY DEF TlsSym, Syms
<1>6. q.type \in Halves => HalfWord(g.mem.val) /\ HalfWord(z.mem.val)
  BY <1>1 DEF Scene, KinA
<1>7. \A w \in Int, y \in Int : \A b : ((q.type \in Halves => HalfWord(w)) /\ b.offset \in Int) =>
         /\ q.type \in ppc_DtpRel => TlsPut(a, q, w, y, b) = ppc_dtprel(q.type, y)
         /\ q.type \in ppc_TpRel => TlsPut(a, q, w, y, b) = ppc_tprel(q.type, y, b.offset)
         /\ q.type \in {"DTPMOD32"} => TlsPut(a, q, w, y, b) = b.modid
         /\ q.type \in half => HalfWord(TlsPut(a, q, w, y, b))
  <2> TAKE w \in Int, y \in Int
  <2> TAKE b
  <2> HAVE (q.type \in Halves => HalfWord(w)) /\ b.offset \in Int
  <2>1. /\ q.type \in ppc_DtpRel16 => TlsPut(a, q, w, y, b) = ppc_dtprel(q.type, y)
             /\ HalfWord(ppc_dtprel(q.type, y))
        /\ q.type \in ppc_TpRel16 => /\ TlsPut(a, q, w, y, b) = ppc_tprel(q.type, y, b.offset)
                                     /\ HalfWord(ppc_tprel(q.type, y, b.offset))
        /\ q.type \in {"DTPREL32", "DTPREL64"} => TlsPut(a, q, w, y, b) = y - 32768
        /\ q.type \in {"TPREL32", "TPREL64"} => TlsPut(a, q, w, y, b) = y + b.offset - 28672
        /\ q.type \in DtpMod => TlsPut(a, q, w, y, b) = b.modid
    <3>1. a \in PpcAll
      BY DEF PpcAll
    <3> QED BY <3>1, PpcTlsPut
  <2>2. ppc_dtprel("DTPREL32", y) = y - 32768
          /\ ppc_tprel("TPREL32", y, b.offset) = y + b.offset - 28672
    BY DEF ppc_dtprel, ppc_tprel
  <2> QED BY <1>2, <2>1, <2>2 DEF ppc_DtpRel, ppc_TpRel
<1>8. Calm(q) /\ \A y : ld_so_calls(a, q, y) = 0
  <2>1. KinA(a, q, o) /\ FormA(a, o) /\ q.type \notin Slot
    BY <1>2 DEF Scene
  <2>2. Calm(q)
    BY <2>1, PpcCalm
  <2> QED BY <2>2, CalmCalls
<1>9. q.exec => q.type \in ppc_TpRel
  <2>1. q.exec => q.type \notin DtpMod \union DtpOff
    BY <1>1 DEF LdType, ld_exec_types, Ppc, Mips, Slot, PpcTls, ppc_DtpRel, ppc_DtpRel16,
       ppc_TpRel, ppc_TpRel16
  <2> QED BY <1>2, <2>1 DEF PpcTls
<1>10. ppc_reloc_size(q.type) = IF q.type \in half THEN 2 ELSE 4
  BY DEF ppc_reloc_size, PpcTls, ppc_Half, ppc_Low, ppc_DtpRel, ppc_DtpRel16, ppc_TpRel,
     ppc_TpRel16
<1>11. InPlace(q, c) => PutTls(a, g, q, s)
  <2> SUFFICES ASSUME InPlace(q, c), s.isTls
               PROVE  PrelinkRel(a, g, s).mem
                        = [width |-> ld_width(a, q),
                           val |-> TlsPut(a, q, g.mem.val, s.val + q.addend, [modid |-> s.modid, offset |-> s.tlsoffset])]
    BY DEF PutTls
  <2> DEFINE b == [modid |-> s.modid, offset |-> s.tlsoffset]
             u == TlsPut(a, q, g.mem.val, s.val + n, b)
  <2>1. PrelinkRel(a, g, s) = ppc_prelink_rela(g, s)
    BY DEF PrelinkRel, X86_64, Ppc, Mips
  <2>2. s.val + n \in Int /\ b.offset = s.tlsoffset
    BY <1>1, <1>5
  <2>3. /\ q.type \in ppc_DtpRel => u = ppc_dtprel(q.type, s.val + n)
        /\ q.type \in ppc_TpRel => u = ppc_tprel(q.type, s.val + n, s.tlsoffset)
    <3> HIDE DEF b
    <3> QED BY <1>1, <1>5, <1>6, <1>7, <2>2
  <2> HIDE DEF u
  <2>4. ppc_prelink_rela(g, s) = Put(g, ppc_reloc_size(q.type), u)
    <3>1. CASE q.type \in ppc_DtpRel
      BY <1>1, <1>3, <2>3, <3>1 DEF ppc_prelink_rela, ppc_DtpRel, ppc_DtpRel16, ppc_Word,
         ppc_Half, ppc_Low, ppc_Predicted, ppc_TpRel, ppc_TpRel16
    <3>2. CASE q.type \in ppc_TpRel /\ q.exec
      BY <1>1, <1>3, <2>3, <3>2 DEF ppc_prelink_rela, ppc_DtpRel, ppc_DtpRel16, ppc_Word,
         ppc_Half, ppc_Low, ppc_Predicted, ppc_TpRel, ppc_TpRel16
    <3> QED BY <1>2, <1>9, <3>1, <3>2 DEF InPlace
  <2>5. PrelinkRel(a, g, s).mem = [width |-> ld_width(a, q), val |-> u]
    <3>1. ppc_reloc_size(q.type) = ld_width(a, q)
      BY <1>4, <1>10
    <3> QED BY <1>1, <2>1, <2>4, <3>1, PutMem
  <2> QED BY <2>5 DEF u
<1> DEFINE e == ppc_prelink_conflict_rela(z, c, Block("self"))
           dtprel == IF z.type \in ppc_DtpRel THEN z.type ELSE "DTPREL32"
           none == Unneeded(z, c, Block("self"), {"DTPMOD32"} \union ppc_TpRel, dtprel)
<1>12. ConflictRel(a, z, c, Block("self")) = e
  BY DEF ConflictRel, X86_64, Ppc, Mips
<1>13. OutTls(a, q, z, c, cfl)
  <2>1. CASE InPlace(q, c)
    <3>1. none
      <4>1. q.exec => ~ c.found
        BY DEF TlsSym
      <4>2. q.exec \in BOOLEAN /\ c.found \in BOOLEAN
        BY <1>1 DEF TlsSym
      <4>3. q.type \notin {"IRELATIVE"}
        BY DEF PpcTls, ppc_DtpRel, ppc_DtpRel16, ppc_TpRel, ppc_TpRel16
      <4> QED BY <1>1, <1>2, <1>9, <2>1, <4>1, <4>2, <4>3 DEF Unneeded, InPlace
    <3>2. e = None
      BY <3>1 DEF ppc_prelink_conflict_rela
    <3> QED BY <1>12, <2>1, <3>2 DEF OutTls
  <2>2. CASE ~ InPlace(q, c)
    <3> DEFINE b == ConflictTls(c, Block("self"))
               y == ConflictValue(c) + n
               u == TlsPut(a, q, z.mem.val, y, b)
    <3>1. ~ q.exec /\ ~ (q.type \in ppc_DtpRel /\ c.found /\ c.same) /\ z.exec = FALSE
      BY <1>1, <1>2, <2>2 DEF InPlace
    <3>2. /\ ConflictValue(c) = x /\ b.offset \in Int /\ ~ c.ifunc /\ (c.found => c.isTls)
          /\ (q.type \in ppc_DtpRel => c.found) /\ c.found \in BOOLEAN
      BY <1>2, <3>1 DEF TlsSym
    <3>3. Block("self").modid # 0
      BY DEF Block
    <3>4. q.type \notin {"NONE", "RELATIVE", "IRELATIVE"}
            /\ (q.type \notin ppc_DtpRel => q.type # "DTPREL32")
      BY DEF PpcTls, ppc_DtpRel, ppc_DtpRel16, ppc_TpRel, ppc_TpRel16
    <3>5. ~ none
      BY <1>1, <3>1, <3>2, <3>3, <3>4 DEF Unneeded, PpcTls
    <3>6. y \in Int
      BY <1>1, <1>5, <3>2
    <3>7. /\ q.type \in ppc_DtpRel => u = ppc_dtprel(q.type, y)
          /\ q.type \in ppc_TpRel => u = ppc_tprel(q.type, y, b.offset)
          /\ q.type \in {"DTPMOD32"} => u = b.modid
          /\ q.type \in half => HalfWord(u)
      <4> HIDE DEF b, y
      <4> QED BY <1>1, <1>6, <1>7, <3>2, <3>6
    <3>8. ConflictValue(c) + z.addend = y /\ ConflictTls(c, Block("self")) = b
      BY <1>3
    <3> HIDE DEF none, b, y, u
    <3>9. e = IF ppc_reloc_size(q.type) = 4 THEN Entry("ADDR32", u)
            ELSE Entry("ADDR16", Signed16(u))
      BY <1>1, <3>2, <3>5, <3>7, <3>8 DEF ppc_prelink_conflict_rela, none, PpcTls, ppc_DtpRel,
         ppc_DtpRel16, ppc_Word, ppc_Half, ppc_Low, ppc_Predicted, ppc_TpRel, ppc_TpRel16
    <3> HIDE DEF e
    <3>10. Out(a, q, cfl) = Word(ld_width(a, q), u, 0)
      <4>1. CASE q.type \in half
        <5>1. \A v : Out(a, q, Entry("ADDR16", v)) = Word(2, Lo16(v), 0)
          BY <1>8, OutEntry
        <5>2. u \in Int /\ Lo16(Signed16(u)) = u
          <6>1. HalfWord(u) /\ u \in Int
            BY <3>7, <4>1 DEF HalfWord
          <6> QED BY <6>1, HalfValues
        <5> QED BY <1>4, <1>10, <1>12, <3>9, <4>1, <5>1, <5>2
      <4>2. CASE q.type \notin half
        <5>1. \A v : Out(a, q, Entry("ADDR32", v)) = Word(4, v, 0)
          BY <1>8, OutEntry DEF Singles
        <5> QED BY <1>4, <1>10, <1>12, <3>9, <4>2, <5>1
      <4> QED BY <4>1, <4>2
    <3> QED BY <2>2, <3>10 DEF OutTls, u, y, b
  <2> QED BY <2>1, <2>2
<1>14. Calm(q) /\ a \in RelaArchs /\ q.type \notin ppc64_Ds
  BY <1>2, <1>8
<1>15. q.type \in DtpOff \union TpOff \union DtpMod /\ (q.exec => q.type \in TpOff)
  BY <1>2, <1>9 DEF PpcTls
<1> HIDE DEF e, none, dtprel
<1> QED BY <1>11, <1>13, <1>14, <1>15, TlsOut

(* ppc with a read-only PLT: the word of a PLT slot.                       *)
LEMMA PpcSlot ==
  ASSUME NEW g, NEW q, NEW o, NEW s, NEW z, Scene("ppc", g, q, o, s, z), q.type \in Slot,
         NEW c, NEW d, NEW x, x = At(q, q.base, d), PlainSym(q, s, c, x),
         NEW cfl, cfl = ConflictRel("ppc", z, c, Block("self")), cfl.ok
  PROVE  Out("ppc", q, cfl) = ld_so_relocate("ppc", q, q.base, d)
<1>1. /\ q \in Relocs /\ g \in Relocs /\ z \in Relocs /\ q.rela /\ LdType("ppc", q)
           /\ o.type = q.type
      /\ g.type = q.type /\ z.type = q.type /\ z.exec = q.exec /\ q.exec \in BOOLEAN
           /\ q.class = 4
  BY SceneFacts DEF ld_class, Ppc
<1>2. q.type = "JMP_SLOT"
  BY <1>1, PpcTypes DEF Slot, Ppc, PpcPlain, PpcRest, PpcTls, ppc_Word, ppc_Half, ppc_Low,
     ppc_Predicted, ppc_DtpRel, ppc_DtpRel16, ppc_TpRel, ppc_TpRel16
<1>3. q.addend = 0 /\ z.addend = 0 /\ g.addend = 0 /\ q.code = NoCode /\ g.code = NoCode
        /\ z.code = NoCode
  <2>1. o.type \in Slot /\ o.type \notin Addr
    BY <1>1, SlotTypes
  <2>2. o.addend = 0 /\ o.code = NoCode
    BY <2>1 DEF Scene, FormA, LdAddends, LdCode
  <2>3. SlotKin("ppc", q, o) /\ SlotKin("ppc", z, o) /\ SlotKin("ppc", g, o)
    BY <1>1, <2>1 DEF Scene, KinA
  <2> QED BY <2>2, <2>3 DEF SlotKin
<1>4. ld_width("ppc", q) = 4
  BY <1>1, <1>2 DEF ld_width, Slot, s390_Half, s390_Dbl16, ppc_Half, ppc_Low, ppc_DtpRel16,
     ppc_TpRel16, ppc64_Ds, ppc64_Higher
<1>5. x \in Int /\ s.val \in Int /\ c.val \in Int
  BY DEF PlainSym, Syms
<1>6. ld_so_relocate("ppc", q, q.base, d) = Word(4, x, 0)
  <2>1. "ppc" \notin {"ppc64", "sparc64"}
    OBVIOUS
  <2>2. ld_so_relocate("ppc", q, q.base, d) = Word(ld_width("ppc", q), x + q.addend, 0)
    BY <1>1, <1>3, <1>5, <2>1, SlotFinal
  <2>3. x + q.addend = x
    BY <1>3, <1>5
  <2> QED BY <1>4, <2>2, <2>3
<1>7. q.mem = [width |-> 4, val |-> s.val]
  <2>1. PrelinkRel("ppc", g, s) = ppc_prelink_rela(g, s)
    BY DEF PrelinkRel, X86_64, Ppc, Mips
  <2>2. ppc_prelink_rela(g, s) = Put(g, 4, s.val + 0)
    BY <1>1, <1>2, <1>3 DEF ppc_prelink_rela, ppc_got, ppc_Word, ppc_DtpRel, ppc_DtpRel16,
       ppc_Half, ppc_Low, ppc_Predicted, ppc_TpRel, ppc_TpRel16
  <2>3. s.val + 0 = s.val
    BY <1>5
  <2> QED BY <1>1, <2>1, <2>2, <2>3, PutMem DEF Scene
<1>8. \A y : ld_so_calls("ppc", q, y) = 0
  BY <1>3, CalmCalls DEF Calm, NoCode
<1> DEFINE e == ppc_prelink_conflict_rela(z, c, Block("self"))
<1>9. ConflictRel("ppc", z, c, Block("self")) = e
  BY DEF ConflictRel, X86_64, Ppc, Mips
<1>10. CASE ~ c.found
  <2>1. cfl = None
    BY <1>1, <1>2, <1>9, <1>10 DEF ppc_prelink_conflict_rela, Unneeded, ppc_TpRel, ppc_TpRel16
  <2>2. s.val = x
    BY <1>10 DEF PlainSym
  <2> QED BY <1>6, <1>7, <1>8, <2>1, <2>2, OutNone
<1>11. CASE c.found
  <2>1. c.ifunc \in BOOLEAN /\ (~ c.ifunc => c.val = x /\ ~ q.exec)
          /\ (c.ifunc => ld_so_ifunc(c.val) = x)
    BY <1>11 DEF PlainSym
  <2>2. e = Entry(IF c.ifunc THEN "IRELATIVE" ELSE "ADDR32", c.val + 0)
    BY <1>1, <1>2, <1>3, <1>11, <2>1 DEF ppc_prelink_conflict_rela, Unneeded, ConflictValue,
       ppc_got, ppc_reloc_class, ppc_TpRel, ppc_TpRel16, ppc_DtpRel, ppc_DtpRel16, ppc_Half,
       ppc_Low, ppc_Predicted
  <2> HIDE DEF e
  <2>3. c.val + 0 = c.val
    BY <1>5
  <2>4. \A v : /\ Out("ppc", q, Entry("ADDR32", v)) = Word(4, v, 0)
               /\ Out("ppc", q, Entry("IRELATIVE", v)) = Word(q.class, ld_so_ifunc(v), 0)
    BY <1>8, OutEntry DEF Singles
  <2> QED BY <1>1, <1>6, <1>9, <2>1, <2>2, <2>3, <2>4
<1> QED BY <1>10, <1>11

(* ppc with a PLT in .bss: the function that the code of a slot calls.     *)
LEMMA PpcBssSlot ==
  ASSUME NEW g, NEW q, NEW o, NEW s, NEW z, Scene("ppc_bss", g, q, o, s, z), q.type \in Slot,
         NEW c, NEW d, NEW x, x = At(q, q.base, d), PlainSym(q, s, c, x), ~ c.ifunc,
         NEW cfl, cfl = ConflictRel("ppc_bss", z, c, Block("self")), cfl.ok
  PROVE  Out("ppc_bss", q, cfl) = ld_so_relocate("ppc_bss", q, q.base, d)
<1>1. /\ q \in Relocs /\ g \in Relocs /\ z \in Relocs /\ q.rela /\ LdType("ppc_bss", q)
           /\ o.type = q.type
      /\ g.type = q.type /\ z.type = q.type /\ z.exec = q.exec /\ q.exec \in BOOLEAN
           /\ q.class = 4
      /\ P(q) \in Int /\ P(g) = P(q)
  BY SceneFacts DEF ld_class, Ppc
<1>2. q.type = "JMP_SLOT"
  BY <1>1, PpcTypes DEF Slot, Ppc, PpcPlain, PpcRest, PpcTls, ppc_Word, ppc_Half, ppc_Low,
     ppc_Predicted, ppc_DtpRel, ppc_DtpRel16, ppc_TpRel, ppc_TpRel16
<1>3. q.addend = 0 /\ z.addend = 0 /\ g.addend = 0 /\ q.code # NoCode /\ g.code # NoCode
        /\ z.code # NoCode
  <2>1. o.type \in Slot /\ o.type \notin Addr
    BY <1>1, SlotTypes
  <2>2. o.addend = 0 /\ o.code = Lazy /\ Lazy # NoCode
    BY <2>1 DEF Scene, FormA, LdAddends, LdCode, Lazy, NoCode
  <2>3. SlotKin("ppc_bss", q, o) /\ SlotKin("ppc_bss", z, o) /\ SlotKin("ppc_bss", g, o)
    BY <1>1, <2>1 DEF Scene, KinA
  <2> QED BY <2>2, <2>3 DEF SlotKin
<1>5. x \in Int /\ s.val \in Int /\ c.val \in Int
  BY DEF PlainSym, Syms
<1>6. ld_so_relocate("ppc_bss", q, q.base, d) = Word(q.mem.width, q.mem.val, x)
  <2>1. ld_so_addend("ppc_bss", q) = 0
    BY <1>1, <1>3 DEF ld_so_addend
  <2>2. At(q, q.base, d) + ld_so_addend("ppc_bss", q) = x
    BY <1>5, <2>1
  <2>3. ld_so_relocate("ppc_bss", q, q.base, d)
          = Word(q.mem.width, q.mem.val, At(q, q.base, d) + ld_so_addend("ppc_bss", q))
    BY <1>3, RelocateCode
  <2> QED BY <2>2, <2>3
<1> DEFINE v == s.val + 0
           code == IF Near(v - P(q)) THEN Direct(v - P(q)) ELSE Absolute(v)
<1>7. q.code = code
  <2>1. PrelinkRel("ppc_bss", g, s) = ppc_prelink_rela(g, s)
    BY DEF PrelinkRel, X86_64, Ppc, Mips
  <2>2. ppc_prelink_rela(g, s) = [g EXCEPT !.code = code]
    BY <1>1, <1>2, <1>3 DEF ppc_prelink_rela, ppc_fixup_plt, ppc_got, ppc_Word, ppc_DtpRel,
       ppc_DtpRel16, ppc_Half, ppc_Low, ppc_Predicted, ppc_TpRel, ppc_TpRel16
  <2> HIDE DEF code
  <2>3. [g EXCEPT !.code = code].code = code
    BY <1>1 DEF Relocs
  <2> QED BY <2>1, <2>2, <2>3 DEF Scene
<1>8. v = s.val /\ v \in Int
  BY <1>5
<1> HIDE DEF v
<1>9. \A y : ld_so_calls("ppc_bss", q, y) = v
  <2>1. P(q) + (v - P(q)) = v
    BY <1>1, <1>8
  <2>2. \A k : /\ Direct(k).how = "direct" /\ Direct(k).to = k
               /\ Absolute(k).how = "absolute" /\ Absolute(k).to = k
    BY DEF Direct, Absolute
  <2>3. CASE Near(v - P(q))
    <3>1. q.code.how = "direct" /\ q.code.to = v - P(q)
      BY <1>7, <2>2, <2>3
    <3> QED BY <2>1, <3>1 DEF ld_so_calls
  <2>4. CASE ~ Near(v - P(q))
    <3>1. q.code.how = "absolute" /\ q.code.to = v
      BY <1>7, <2>2, <2>4
    <3> QED BY <3>1 DEF ld_so_calls
  <2> QED BY <2>3, <2>4
<1> HIDE DEF code
<1> DEFINE e == ppc_prelink_conflict_rela(z, c, Block("self"))
<1>10. ConflictRel("ppc_bss", z, c, Block("self")) = e
  BY DEF ConflictRel, X86_64, Ppc, Mips
<1>11. CASE ~ c.found
  <2>1. cfl = None
    BY <1>1, <1>2, <1>10, <1>11 DEF ppc_prelink_conflict_rela, Unneeded, ppc_TpRel, ppc_TpRel16
  <2>2. s.val = x
    BY <1>11 DEF PlainSym
  <2> QED BY <1>6, <1>8, <1>9, <2>1, <2>2, OutNone
<1>12. CASE c.found
  <2>1. c.val = x /\ ~ q.exec
    BY <1>12 DEF PlainSym
  <2>2. e = Entry("JMP_SLOT", c.val + 0)
    BY <1>1, <1>2, <1>3, <1>12, <2>1 DEF ppc_prelink_conflict_rela, Unneeded, ConflictValue,
       ppc_got, ppc_reloc_class, ppc_TpRel, ppc_TpRel16, ppc_DtpRel, ppc_DtpRel16, ppc_Half,
       ppc_Low, ppc_Predicted
  <2> HIDE DEF e
  <2>3. c.val + 0 = c.val
    BY <1>5
  <2>4. \A y : Out("ppc_bss", q, Entry("JMP_SLOT", y)) = Word(q.mem.width, q.mem.val, y)
    BY <1>3, OutEntry DEF Slot
  <2> QED BY <1>6, <1>10, <2>1, <2>2, <2>3, <2>4
<1> QED BY <1>11, <1>12

(* ppc: the relocations without a symbol.                                  *)
LEMMA PpcLocal ==
  ASSUME NEW a \in Ppc, NEW g, NEW q, NEW o, NEW s, NEW z, Scene(a, g, q, o, s, z),
             q.type \in NoSymbol,
         NEW d, NEW cfl, cfl = ConflictRel(a, z, NoConflict, Block("self"))
  PROVE  Out(a, q, cfl) = ld_so_relocate(a, q, q.base, d)
<1>1. /\ q \in Relocs /\ g \in Relocs /\ z \in Relocs /\ q.rela /\ LdType(a, q)
           /\ o.type = q.type
      /\ g.type = q.type /\ z.type = q.type /\ q.class = 4 /\ q.base = g.base
           /\ z.base = q.base /\ q.base \in Int
  BY SceneFacts DEF ld_class, Ppc, Scene
<1>2. q.type \in {"NONE", "COPY", "RELATIVE", "IRELATIVE"}
  BY <1>1, PpcTypes
<1>3. ~ NoConflict.found /\ ~ NoConflict.ifunc
  BY NoConflictIs
<1>4. ConflictRel(a, z, NoConflict, Block("self")) = ppc_prelink_conflict_rela(z, NoConflict, Block("self"))
  BY DEF ConflictRel, X86_64, Ppc, Mips
<1>5. q.type \in {"NONE", "COPY", "RELATIVE"} => cfl = None
  BY <1>1, <1>3, <1>4 DEF ppc_prelink_conflict_rela, Unneeded, ppc_TpRel, ppc_TpRel16
<1>6. q.type \in {"RELATIVE", "IRELATIVE"} => g.addend = Target(q) /\ z.addend = Target(q)
        /\ Target(q) \in Int
  BY <1>1 DEF Scene, KinA, AddrKin, Addr, Target, Ppc
<1>7. ASSUME q.type = "IRELATIVE" PROVE cfl = Entry(q.type, Target(q))
  <2>1. cfl = Entry("IRELATIVE", 0 + z.addend)
    BY <1>1, <1>3, <1>4, <1>7 DEF ppc_prelink_conflict_rela, Unneeded, ConflictValue,
       ppc_reloc_class, ppc_TpRel, ppc_TpRel16, ppc_DtpRel, ppc_DtpRel16, ppc_Half, ppc_Low,
       ppc_Predicted
  <2>2. 0 + z.addend = Target(q)
    BY <1>6, <1>7
  <2> QED BY <1>7, <2>1, <2>2
<1>8. ASSUME q.type = "RELATIVE" PROVE q.mem = [width |-> q.class, val |-> Target(q)]
  <2>1. PrelinkRel(a, g, s) = Put(g, 4, Target(q))
    BY <1>1, <1>6, <1>8 DEF PrelinkRel, X86_64, Ppc, Mips, ppc_prelink_rela, ppc_Word,
       ppc_DtpRel, ppc_DtpRel16, ppc_Half, ppc_Low, ppc_Predicted, ppc_TpRel, ppc_TpRel16
  <2> QED BY <1>1, <2>1, PutMem DEF Scene
<1>9. Calm(q) /\ q.type # "JMP_IREL" /\ KinA(a, q, o) /\ FormA(a, o)
  <2>1. q.type \notin Slot /\ q.type # "JMP_IREL"
    BY <1>2 DEF Slot
  <2>2. KinA(a, q, o) /\ FormA(a, o)
    BY DEF Scene
  <2> QED BY <2>1, <2>2, PpcCalm
<1>10. a \in RelaArchs /\ a # "sparc"
  BY DEF RelaArchs, Names, Ppc, RelArchs, Mips
<1> QED BY <1>5, <1>7, <1>8, <1>9, <1>10, LocalOut

(* ppc: prelinking and the conflict make the word that ld.so makes of the  *)
(* relocation.                                                             *)
LEMMA PpcWordIs ==
  ASSUME NEW a \in Ppc, NEW g, NEW q, NEW o, NEW s, NEW z, Scene(a, g, q, o, s, z),
         NEW c, NEW d, Viewed(a, q, o, s, c, d), NEW cfl,
               cfl = ConflictRel(a, z, c, Block("self")), cfl.ok,
         cfl.rela # << >> => q.type # "ADDR14_BRTAKEN"
  PROVE  Out(a, q, cfl) = ld_so_relocate(a, q, q.base, d)
<1>1. LdType(a, q) /\ o.type = q.type
  BY SceneFacts
<1>2. /\ q.type \in {"NONE", "COPY", "RELATIVE", "IRELATIVE", "JMP_SLOT"} \union PpcPlain
           \union PpcTls
      /\ q.type \in NoSymbol <=> q.type \in {"NONE", "COPY", "RELATIVE", "IRELATIVE"}
      /\ q.type \in Tls <=> q.type \in PpcTls
  BY <1>1, PpcTypes
<1>3. CASE q.type \in NoSymbol
  BY <1>3, PpcLocal DEF Viewed
<1>4. CASE q.type \in PpcTls
  BY <1>2, <1>4, PpcTlsWord DEF Viewed
<1>5. CASE q.type \notin NoSymbol \union PpcTls
  <2>1. PlainSym(q, s, c, At(q, q.base, d)) /\ (c.ifunc => IfuncFits(a, o))
    BY <1>2, <1>5 DEF Viewed
  <2>2. CASE q.type \in PpcPlain
    BY <2>1, <2>2, PpcWords
  <2>3. CASE q.type \in Slot
    <3>1. CASE a = "ppc"
      BY <2>1, <2>3, <3>1, PpcSlot
    <3>2. CASE a = "ppc_bss"
      <4>1. ~ c.ifunc
        BY <1>1, <2>1, <2>3, <3>2 DEF IfuncFits, Slot, X86_64
      <4> QED BY <2>1, <2>3, <3>2, <4>1, PpcBssSlot
    <3> QED BY <3>1, <3>2 DEF Ppc
  <2> QED BY <1>2, <1>5, <2>2, <2>3 DEF Slot
<1> QED BY <1>3, <1>4, <1>5

-----------------------------------------------------------------------------
(* ppc64.                                                                  *)

(* ppc64: the TLS relocations.                                             *)
Ppc64Tls == {"DTPMOD64"} \union ppc64_DtpRel \union ppc64_TpRel

(* ppc64: the relocations of 2 bytes.                                      *)
Ppc64Two == ppc_Half \union ppc64_Higher

(* ppc64: the relocations of 8 bytes.                                      *)
Ppc64Eight == ppc64_Word \union {"REL64"}

(* ppc64: the types, and which of them are for TLS.                        *)
LEMMA Ppc64Types ==
  ASSUME NEW q, LdType("ppc64", q), q.type \notin ppc64_Ds
  PROVE  /\ q.type \in {"NONE", "COPY", "RELATIVE", "IRELATIVE", "JMP_IREL", "JMP_SLOT"}
              \union Ppc64Plain \union Ppc64Tls
         /\ q.type \in NoSymbol <=> q.type \in {"NONE", "COPY", "RELATIVE", "IRELATIVE", "JMP_IREL"}
         /\ q.type \in Tls <=> q.type \in Ppc64Tls
<1>1. q.type \in {"NONE", "COPY", "RELATIVE", "IRELATIVE", "JMP_IREL", "JMP_SLOT"}
        \union Ppc64Plain \union Ppc64Tls
  <2>1. ld_types("ppc64") = {"NONE", "RELATIVE"}
          \union {"IRELATIVE", "JMP_IREL", "JMP_SLOT", "ADDR32", "UADDR32", "ADDR24", "ADDR14",
                  "REL24", "REL32", "REL64", "DTPMOD64"}
           \union ppc64_Word \union ppc_Half \union ppc64_Ds \union ppc64_Higher
             \union Predicted
           \union ppc64_DtpRel \union ppc64_TpRel
    BY DEF ld_types, X86_64, Ppc
  <2>2. q.type \in ld_types("ppc64") \union {"COPY"}
    BY DEF LdType, ld_exec_types, Mips, Ppc
  <2> QED BY <2>1, <2>2 DEF Ppc64Plain, PpcPlain, PpcRest, Ppc64Tls, Predicted, ppc64_Word,
             ppc_Word
<1>2. q.type \in Tls <=> q.type \in Ppc64Tls
  BY <1>1 DEF Tls, TpOff, DtpOff, DtpMod, ppc_TpRel, ppc_TpRel16, mips_TpRel, ppc_DtpRel,
     ppc_DtpRel16, mips_DtpRel, mips_DtpMod, Ppc64Plain, PpcPlain, PpcRest, Ppc64Tls, ppc_Word,
     ppc_Half, ppc_Low, ppc_Predicted, ppc64_Higher, ppc64_DtpRel, ppc64_TpRel
<1>5. q.type \in NoSymbol <=> q.type \in {"NONE", "COPY", "RELATIVE", "IRELATIVE", "JMP_IREL"}
  BY <1>1 DEF NoSymbol, Ppc64Plain, PpcPlain, PpcRest, Ppc64Tls, ppc_Word, ppc_Half, ppc_Low,
     ppc_Predicted, ppc64_DtpRel, ppc_DtpRel16, ppc64_TpRel, ppc_TpRel16, ppc64_Higher
<1> QED BY <1>1, <1>2, <1>5

(* ppc64: TLS lookups are those for TLS relocations.                       *)
LEMMA Ppc64Class ==
  ASSUME NEW q, LdType("ppc64", q)
  PROVE  RelocClass("ppc64", q.type) = "TLS" <=> q.type \in Tls
<1>1. RelocClass("ppc64", q.type) = ppc64_reloc_class(q.type)
  BY DEF RelocClass, X86_64, Ppc, Mips
<1>2. ppc64_reloc_class(q.type) = "TLS" <=> q.type \in Ppc64Tls
  BY DEF ppc64_reloc_class, Ppc64Tls, ppc64_DtpRel, ppc_DtpRel16, ppc64_TpRel, ppc_TpRel16
<1>3. CASE q.type \notin ppc64_Ds
  BY <1>1, <1>2, <1>3, Ppc64Types
<1>4. CASE q.type \in ppc64_Ds
  BY <1>1, <1>2, <1>4 DEF ppc64_Ds, Tls, TpOff, DtpOff, DtpMod, ppc_TpRel, ppc_TpRel16,
     mips_TpRel, ppc_DtpRel, ppc_DtpRel16, mips_DtpRel, mips_DtpMod, Ppc64Tls, ppc64_DtpRel,
     ppc64_TpRel
<1> QED BY <1>3, <1>4

(* ppc64: the word of a relocation with a symbol.  As on ppc, not of an    *)
(* ADDR14_BRTAKEN with a conflict.                                         *)
LEMMA Ppc64Words ==
  ASSUME NEW g, NEW q, NEW o, NEW s, NEW z, Scene("ppc64", g, q, o, s, z),
             q.type \in Ppc64Plain,
         NEW c, NEW d, NEW x, x = At(q, q.base, d), PlainSym(q, s, c, x), c.ifunc =>
               IfuncFits("ppc64", o),
         NEW cfl, cfl = ConflictRel("ppc64", z, c, Block("self")), cfl.ok, cfl.rela # << >> =>
               q.type # "ADDR14_BRTAKEN"
  PROVE  Out("ppc64", q, cfl) = ld_so_relocate("ppc64", q, q.base, d)
<1> DEFINE n == q.addend
           f(w, y) == ld_so_insert(q.type, w, Oper("ppc64", q, y))
           width == IF q.type \in Ppc64Two THEN 2 ELSE IF q.type \in Ppc64Eight THEN 8 ELSE 4
<1>1. /\ q \in Relocs /\ g \in Relocs /\ z \in Relocs /\ q.rela /\ LdType("ppc64", q)
      /\ g.type = q.type /\ z.type = q.type /\ z.exec = q.exec /\ o.type = q.type
           /\ g.exec = q.exec
      /\ q.addend \in Int /\ P(q) \in Int /\ P(g) = P(q) /\ P(z) = P(q) /\ q.exec \in BOOLEAN
      /\ q.class = 8 /\ g.mem.val \in Int /\ z.mem.val \in Int
  BY SceneFacts, KinFacts DEF ld_class, Ppc, Scene
<1>2. /\ q.type \notin Special /\ q.type \notin DtpOff \union TpOff /\ q.type \notin ppc64_Ds
           /\ q.type \notin Addr \union Slot
      /\ "ppc64" \in RelaArchs
  BY PpcKinds DEF Ppc64Plain, Ppc, RelaArchs, Names, RelArchs, Mips
<1>3. g.addend = n /\ z.addend = n /\ o.addend = n
  BY <1>2, SceneFacts
<1>4. ld_width("ppc64", q) = width
  BY <1>1, <1>2 DEF ld_width, Slot, s390_Half, s390_Dbl16, ppc_Half, ppc_Low, ppc_DtpRel16,
     ppc_TpRel16, ppc64_Ds, ppc64_Higher, mips_Got, mips_Global, mips_Undefined, mips_Defined,
     Tls, Special, Ppc64Plain, PpcPlain, PpcRest, ppc_Word, ppc_Predicted, Mips, Ppc, Ppc64Two,
     Ppc64Eight, ppc64_Word
<1>5. x \in Int /\ s.val \in Int /\ c.val \in Int
  BY DEF PlainSym, Syms
<1>6. q.type \in ppc_Half => HalfWord(g.mem.val) /\ HalfWord(z.mem.val)
  BY <1>1 DEF Scene, KinA, Halves
<1>7. \A w \in Int, y \in Int : (q.type \in ppc_Half => HalfWord(w)) =>
         /\ q.type \in ppc_Word \union {"ADDR64", "UADDR64"} => f(w, y) = y
         /\ q.type \in {"REL32", "REL64"} => f(w, y) = y - P(q)
         /\ q.type \in ppc_Half => f(w, y) = ppc_half(q.type, y)
              /\ HalfWord(ppc_half(q.type, y))
         /\ q.type \in {"ADDR24"} => f(w, y) = Insert(w, 2, 26, y)
         /\ q.type \in {"REL24"} => f(w, y) = Insert(w, 2, 26, y - P(q))
         /\ q.type \in {"ADDR14"} => f(w, y) = ppc_addr14(w, y)
         /\ q.type \in ppc_Predicted => f(w, y) = ppc_addr14_br(w, y, q.type = "ADDR14_BRTAKEN")
         /\ q.type \in ppc64_Higher => f(w, y) = 0
  <2>1. "ppc64" \in PpcAll
    BY DEF PpcAll
  <2> QED BY <1>1, <2>1, PpcPut
<1> HIDE DEF f
<1>8. PrelinkRel("ppc64", g, s).mem = [width |-> ld_width("ppc64", q), val |-> f(g.mem.val, s.val + n)]
  <2>1. PrelinkRel("ppc64", g, s) = ppc64_prelink_rela(g, s)
    BY DEF PrelinkRel, X86_64, Ppc, Mips
  <2>2. s.val + n \in Int
    BY <1>1, <1>5
  <2>3. ppc64_prelink_rela(g, s) = Put(g, width, f(g.mem.val, s.val + n))
    BY <1>1, <1>3, <1>6, <1>7, <2>2 DEF ppc64_prelink_rela, ppc64_higher, Ppc64Plain, Ppc64Two,
       Ppc64Eight, ppc64_Word, ppc64_Higher, ppc64_Ds, PpcPlain, PpcRest, ppc_Word, ppc_Half,
       ppc_Low, ppc_Predicted, ppc64_DtpRel, ppc_DtpRel16, ppc64_TpRel, ppc_TpRel16
  <2> HIDE DEF width
  <2> QED BY <1>1, <1>4, <2>1, <2>3, PutMem
<1>9. Calm(q) /\ \A y : ld_so_calls("ppc64", q, y) = 0
  <2>1. KinA("ppc64", q, o) /\ FormA("ppc64", o) /\ q.type \notin Slot
    BY <1>2 DEF Scene
  <2>2. Calm(q)
    BY <2>1, PpcCalm
  <2> QED BY <2>2, CalmCalls
<1> DEFINE e == ppc64_prelink_conflict_rela(z, c, Block("self"))
           dtprel == IF z.type \in ppc64_DtpRel THEN z.type ELSE "DTPREL64"
           none == Unneeded(z, c, Block("self"), {"DTPMOD64"} \union ppc64_TpRel, dtprel)
<1>10. ConflictRel("ppc64", z, c, Block("self")) = e
  BY DEF ConflictRel, X86_64, Ppc, Mips
<1>11. /\ q.type \notin {"DTPMOD64", "IRELATIVE", "RELATIVE", "NONE", "JMP_SLOT", "JMP_IREL", "DTPREL64"} \union ppc64_DtpRel \union ppc64_TpRel
       /\ ppc64_reloc_class(q.type) # "TLS"
  BY DEF Ppc64Plain, ppc64_Higher, PpcPlain, PpcRest, ppc_Word, ppc_Half, ppc_Low,
     ppc_Predicted, ppc64_DtpRel, ppc_DtpRel16, ppc64_TpRel, ppc_TpRel16, ppc64_reloc_class
<1>12. ~ c.found => cfl = None
  BY <1>1, <1>10, <1>11 DEF ppc64_prelink_conflict_rela, Unneeded
<1>13. ASSUME c.found, c.ifunc \/ ~ q.exec PROVE ~ none
  BY <1>1, <1>11, <1>13 DEF Unneeded
<1>14. ASSUME c.found /\ ~ c.ifunc
       PROVE  Out("ppc64", q, cfl) = Word(ld_width("ppc64", q), f(z.mem.val, c.val + n), 0)
  <2>1. ~ none
    BY <1>13, <1>14 DEF PlainSym
  <2> DEFINE k == c.val + n
  <2>2. k \in Int /\ ConflictValue(c) + z.addend = k
    BY <1>1, <1>3, <1>5, <1>14 DEF ConflictValue
  <2> HIDE DEF k, none
  <2>3. CASE q.type \in ppc_Word \union {"ADDR64", "UADDR64"}
    <3>0. q.type \notin ppc_Half /\ {"ADDR32", "UADDR32"} \subseteq Singles
            /\ {"ADDR64", "UADDR64"} \subseteq Doubles
      BY <2>3 DEF ppc_Word, ppc_Half, ppc_Low, Singles, Doubles
    <3>1. f(z.mem.val, k) = k
      BY <1>1, <1>7, <2>2, <2>3, <3>0
    <3>2. CASE q.type \in {"ADDR32", "UADDR32"}
      <4>1. e = Entry(q.type, k)
        BY <1>1, <1>11, <1>14, <2>1, <2>2, <3>2 DEF ppc64_prelink_conflict_rela, ppc_Word,
           ppc64_Word, ppc_Half, ppc_Low, ppc_Predicted, ppc64_Higher, ppc64_Ds, none
      <4>2. width = 4
        BY <3>2 DEF Ppc64Two, Ppc64Eight, ppc_Half, ppc_Low, ppc64_Higher, ppc64_Word
      <4> HIDE DEF e
      <4>3. \A t \in Singles : \A v : Out("ppc64", q, Entry(t, v)) = Word(4, v, 0)
        BY <1>9, OutEntry
      <4> QED BY <1>4, <1>10, <3>0, <3>1, <3>2, <4>1, <4>2, <4>3 DEF k
    <3>3. CASE q.type \in {"GLOB_DAT", "ADDR64", "UADDR64"}
      <4>1. \E t \in {"ADDR64", "UADDR64"} : e = Entry(t, k)
        BY <1>1, <1>11, <1>14, <2>1, <2>2, <3>3 DEF ppc64_prelink_conflict_rela, ppc_Word,
           ppc64_Word, ppc_Half, ppc_Low, ppc_Predicted, ppc64_Higher, ppc64_Ds, none
      <4>2. width = 8
        BY <3>3 DEF Ppc64Two, Ppc64Eight, ppc_Half, ppc_Low, ppc64_Higher, ppc64_Word
      <4> HIDE DEF e
      <4>3. \A t \in Doubles : \A v : Out("ppc64", q, Entry(t, v)) = Word(8, v, 0)
        BY <1>9, OutEntry
      <4> QED BY <1>4, <1>10, <3>0, <3>1, <3>3, <4>1, <4>2, <4>3 DEF k
    <3> QED BY <2>3, <3>2, <3>3 DEF ppc_Word
  <2>3a. CASE q.type \in {"REL32", "ADDR24", "REL24", "ADDR14"}
    <3>0. q.type \notin ppc_Half /\ "ADDR32" \in Singles
      BY <2>3a DEF ppc_Half, ppc_Low, Singles
    <3>1. /\ q.type \in {"REL32"} => f(z.mem.val, k) = k - P(q)
          /\ q.type \in {"ADDR24"} => f(z.mem.val, k) = Insert(z.mem.val, 2, 26, k)
          /\ q.type \in {"REL24"} => f(z.mem.val, k) = Insert(z.mem.val, 2, 26, k - P(q))
          /\ q.type \in {"ADDR14"} => f(z.mem.val, k) = ppc_addr14(z.mem.val, k)
      BY <1>1, <1>7, <2>2, <3>0
    <3>2. e = Entry("ADDR32", f(z.mem.val, k))
      BY <1>1, <1>11, <1>14, <2>1, <2>2, <2>3a, <3>1 DEF ppc64_prelink_conflict_rela, ppc_Word,
         ppc64_Word, ppc_Half, ppc_Low, ppc_Predicted, ppc64_Higher, ppc64_Ds, none
    <3>3. width = 4
      BY <2>3a DEF Ppc64Two, Ppc64Eight, ppc_Half, ppc_Low, ppc64_Higher, ppc64_Word
    <3> HIDE DEF e
    <3>4. \A t \in Singles : \A v : Out("ppc64", q, Entry(t, v)) = Word(4, v, 0)
      BY <1>9, OutEntry
    <3> QED BY <1>4, <1>10, <3>0, <3>2, <3>3, <3>4 DEF k
  <2>3b. CASE q.type \in {"REL64"}
    <3>0. q.type \notin ppc_Half /\ "ADDR64" \in Doubles
      BY <2>3b DEF ppc_Half, ppc_Low, Doubles
    <3>1. f(z.mem.val, k) = k - P(q)
      BY <1>1, <1>7, <2>2, <2>3b, <3>0
    <3>2. e = Entry("ADDR64", k - P(q))
      BY <1>1, <1>11, <1>14, <2>1, <2>2, <2>3b DEF ppc64_prelink_conflict_rela, ppc_Word,
         ppc64_Word, ppc_Half, ppc_Low, ppc_Predicted, ppc64_Higher, ppc64_Ds, none
    <3>3. width = 8
      BY <2>3b DEF Ppc64Two, Ppc64Eight, ppc_Half, ppc_Low, ppc64_Higher, ppc64_Word
    <3> HIDE DEF e
    <3>4. \A t \in Doubles : \A v : Out("ppc64", q, Entry(t, v)) = Word(8, v, 0)
      BY <1>9, OutEntry
    <3> QED BY <1>4, <1>10, <3>0, <3>1, <3>2, <3>3, <3>4 DEF k
  <2>3c. CASE q.type \in ppc64_Higher
    <3>0. q.type \notin ppc_Half /\ width = 2
      BY <2>3c DEF ppc64_Higher, ppc_Half, ppc_Low, Ppc64Two
    <3>1. f(z.mem.val, k) = 0
      BY <1>1, <1>7, <2>2, <2>3c, <3>0
    <3>2. e = Entry("ADDR16", 0)
      BY <1>1, <1>11, <1>14, <2>1, <2>2, <2>3c DEF ppc64_prelink_conflict_rela, ppc_Word,
         ppc64_Word, ppc_Half, ppc_Low, ppc_Predicted, ppc64_Higher, ppc64_Ds, none,
         ppc64_higher
    <3> HIDE DEF e
    <3>3. \A v : Out("ppc64", q, Entry("ADDR16", v)) = Word(2, Lo16(v), 0)
      BY <1>9, OutEntry
    <3>4. Lo16(0) = 0
      BY SMT DEF Lo16
    <3> QED BY <1>4, <1>10, <3>0, <3>1, <3>2, <3>3, <3>4 DEF k
  <2>4. CASE q.type \in ppc_Predicted
    <3>1. e = Entry("ADDR32", ppc_addr14_br(z.mem.val, k, FALSE))
      BY <1>1, <1>11, <1>14, <2>1, <2>2, <2>4 DEF ppc64_prelink_conflict_rela, ppc_Word,
         ppc64_Word, ppc_Half, ppc_Low, ppc_Predicted, ppc64_Higher, ppc64_Ds, none
    <3>2. width = 4
      BY <2>4 DEF ppc_Predicted, ppc_Half, ppc_Low, Ppc64Two, Ppc64Eight, ppc64_Word,
         ppc64_Higher
    <3> HIDE DEF e
    <3>3. \A t \in Singles : \A v : Out("ppc64", q, Entry(t, v)) = Word(4, v, 0)
      BY <1>9, OutEntry
    <3>3a. \A t, v : Entry(t, v).rela # << >>
      BY EntryIs
    <3>4. "ADDR32" \in Singles
      BY DEF Singles
    <3>5. q.type # "ADDR14_BRTAKEN"
      BY <1>10, <3>1, <3>3a
    <3>6. f(z.mem.val, k) = ppc_addr14_br(z.mem.val, k, q.type = "ADDR14_BRTAKEN")
      <4>1. q.type \notin ppc_Half
        BY <2>4 DEF ppc_Predicted, ppc_Half, ppc_Low
      <4> QED BY <1>1, <1>7, <2>2, <2>4, <4>1
    <3>7. f(z.mem.val, k) = ppc_addr14_br(z.mem.val, k, FALSE)
      BY <3>5, <3>6 DEF ppc_addr14_br
    <3> QED BY <1>4, <1>10, <3>1, <3>2, <3>3, <3>4, <3>7 DEF k
  <2>5. CASE q.type \in ppc_Half
    <3>1. f(z.mem.val, k) = ppc_half(q.type, k) /\ HalfWord(ppc_half(q.type, k))
      BY <1>1, <1>6, <1>7, <2>2, <2>5
    <3>2. \E t \in {"ADDR16", "UADDR16"}, u \in Int : e = Entry(t, Signed16(u))
            /\ Lo16(u) = ppc_half(q.type, k)
      <4>1. CASE q.type \in {"UADDR16"}
        <5>1. e = Entry("UADDR16", Signed16(k))
          BY <1>1, <1>11, <1>14, <2>1, <2>2, <4>1 DEF ppc64_prelink_conflict_rela, ppc_Word,
             ppc64_Word, ppc_Half, ppc_Low, ppc_Predicted, ppc64_Higher, ppc64_Ds, none
        <5>2. Lo16(k) = ppc_half(q.type, k)
          BY <4>1 DEF ppc_half, ppc_Low
        <5> QED BY <2>2, <5>1, <5>2
      <4>2. CASE q.type \notin {"UADDR16"}
        <5>1. e = Entry("ADDR16", Signed16(ppc_half(q.type, k)))
          BY <1>1, <1>11, <1>14, <2>1, <2>2, <2>5, <4>2 DEF ppc64_prelink_conflict_rela,
             ppc_Word, ppc64_Word, ppc_Half, ppc_Low, ppc_Predicted, ppc64_Higher, ppc64_Ds,
             none
        <5>2. \A h : HalfWord(h) => h \in Int /\ Lo16(h) = h
          BY SMT DEF HalfWord, Lo16
        <5> QED BY <3>1, <5>1, <5>2
      <4> QED BY <4>1, <4>2
    <3> HIDE DEF e
    <3>3. PICK t \in {"ADDR16", "UADDR16"}, u \in Int : e = Entry(t, Signed16(u))
            /\ Lo16(u) = ppc_half(q.type, k)
      BY <3>2
    <3>4. Out("ppc64", q, Entry(t, Signed16(u))) = Word(2, Lo16(Signed16(u)), 0)
      BY <1>9, OutEntry
    <3>5. Lo16(Signed16(u)) = Lo16(u)
      BY HalfValues
    <3> QED BY <1>4, <1>10, <2>5, <3>1, <3>3, <3>4, <3>5 DEF k, Ppc64Two
  <2> QED BY <2>3, <2>3a, <2>3b, <2>3c, <2>4, <2>5 DEF Ppc64Plain, PpcPlain, PpcRest
<1>15. ASSUME c.found /\ c.ifunc
       PROVE  /\ Out("ppc64", q, cfl) = Word(ld_width("ppc64", q), ld_so_ifunc(c.val), 0)
              /\ q.addend = 0 /\ q.type \notin Partial \union PcRel("ppc64")
  <2>1. ~ none
    BY <1>13, <1>15
  <2>2. IfuncFits("ppc64", o) /\ o.rela
    BY <1>15 DEF Scene, FormA
  <2>3. q.type \in ppc64_Word /\ n = 0
    BY <1>1, <1>2, <1>3, <2>2 DEF IfuncFits, Scene, KinA, Placed, Ppc64Plain, ppc64_Word,
       ppc64_Higher, PpcPlain, PpcRest, ppc_Word, ppc_Half, ppc_Low, ppc_Predicted
  <2>4. ConflictValue(c) + z.addend = c.val
    BY <1>3, <1>5, <1>15, <2>3 DEF ConflictValue
  <2> HIDE DEF none
  <2>5. e = Entry("IRELATIVE", c.val)
    BY <1>1, <1>11, <1>15, <2>1, <2>3, <2>4 DEF ppc64_prelink_conflict_rela, ppc_Word,
       ppc64_Word, ppc_Half, ppc_Low, ppc_Predicted, ppc64_Higher, ppc64_Ds, none
  <2> HIDE DEF e
  <2>6. \A v : Out("ppc64", q, Entry("IRELATIVE", v)) = Word(q.class, ld_so_ifunc(v), 0)
    BY <1>9, OutEntry
  <2>7. width = 8
    BY <2>3 DEF Ppc64Two, Ppc64Eight, ppc64_Word, ppc64_Higher, ppc_Half, ppc_Low
  <2>8. q.type \notin Partial /\ q.type \notin PcRel("ppc64")
    <3>1. q.type \notin {"REL24", "REL32", "REL64"}
      BY <2>3 DEF ppc64_Word
    <3> QED BY <2>3, <3>1, PpcKinds DEF ppc64_Word, ppc_Word, Ppc64Plain
  <2> QED BY <1>1, <1>4, <1>10, <2>3, <2>5, <2>6, <2>7, <2>8
<1> HIDE DEF e, none, dtprel
<1>16. PutPlain("ppc64", g, q, s)
  BY <1>8 DEF f, PutPlain
<1>17. OutPlain("ppc64", q, z, c, cfl)
  BY <1>12, <1>14, <1>15 DEF f, OutPlain
<1>18. Calm(q) /\ "ppc64" \in RelaArchs
  BY <1>2, <1>9
<1> QED BY <1>2, <1>16, <1>17, <1>18, PlainOut, ZenonT(40)

(* ppc64: the word of a TLS relocation.                                    *)
LEMMA Ppc64TlsWord ==
  ASSUME NEW a, a = "ppc64", NEW g, NEW q, NEW o, NEW s, NEW z, Scene(a, g, q, o, s, z),
             q.type \in Ppc64Tls,
         NEW c, NEW d, NEW x, x = At(q, q.base, d), TlsSym(q, s, c, x, Block(d)),
         NEW cfl, cfl = ConflictRel(a, z, c, Block("self")), cfl.ok
  PROVE  Out(a, q, cfl) = ld_so_relocate(a, q, q.base, d)
<1> DEFINE n == q.addend
           half == ppc_DtpRel16 \union ppc_TpRel16
<1>1. /\ q \in Relocs /\ g \in Relocs /\ z \in Relocs /\ q.rela /\ LdType(a, q)
      /\ g.type = q.type /\ z.type = q.type /\ z.exec = q.exec /\ o.type = q.type
           /\ g.exec = q.exec
      /\ q.addend \in Int /\ q.exec \in BOOLEAN
      /\ q.class = 8 /\ g.mem.val \in Int /\ z.mem.val \in Int
  BY SceneFacts, KinFacts DEF ld_class, Ppc, Scene
<1>2. /\ q.type \notin ppc64_Ds /\ q.type \notin Addr \union Slot /\ a \in RelaArchs
      /\ q.type \in {"DTPMOD64"} <=> q.type \in DtpMod
      /\ q.type \in ppc64_DtpRel <=> q.type \in DtpOff
      /\ q.type \in ppc64_TpRel <=> q.type \in TpOff
  <2>1. q.type \notin ppc64_Ds /\ q.type \notin Addr \union Slot /\ a \in RelaArchs
    BY DEF Ppc64Tls, ppc64_DtpRel, ppc_DtpRel16, ppc64_TpRel, ppc_TpRel16, ppc64_Ds, Addr, Slot,
       Ppc, RelaArchs, Names, RelArchs, Mips
  <2>2. ({"DTPMOD64"} \subseteq DtpMod) /\ (ppc64_DtpRel \subseteq DtpOff)
          /\ (ppc64_TpRel \subseteq TpOff)
    BY DEF DtpMod, DtpOff, TpOff, ppc_DtpRel, ppc_TpRel, ppc64_DtpRel, ppc64_TpRel
  <2> QED BY <2>1, <2>2, TlsApart DEF Ppc64Tls
<1>3. g.addend = n /\ z.addend = n
  BY <1>2, SceneFacts
<1>4. ld_width(a, q) = IF q.type \in half THEN 2 ELSE 8
  <2>1. q.type \in Tls /\ q.type \notin {"TLS_LE_HIX22", "TLS_LE_LOX10"}
    BY <1>2 DEF Ppc64Tls, Tls, ppc64_DtpRel, ppc_DtpRel16, ppc64_TpRel, ppc_TpRel16
  <2>2. CASE q.type \in half
    <3>1. q.type \notin {"8", "DISP8", "JMP_IREL", "64", "UA64", "DISP64", "PC64", "DTPMOD64",
                         "DTPOFF64", "TPOFF64", "GLOB_DAT", "RELATIVE", "IRELATIVE", "NONE",
                         "COPY", "ADDR64", "UADDR64", "REL64", "REFQUAD", "REL32"} \union Slot
                         \union mips_Got
      BY <2>2 DEF ppc_DtpRel16, ppc_TpRel16, Slot, mips_Got, mips_Global, mips_Undefined,
         mips_Defined
    <3> QED BY <2>2, <3>1 DEF ld_width
  <2>3. CASE q.type \in {"DTPMOD64", "DTPREL64", "TPREL64"}
    BY <1>1, <2>1, <2>3 DEF ld_width, Slot, s390_Half, s390_Dbl16, ppc_Half, ppc_Low,
       ppc_DtpRel16, ppc_TpRel16, ppc64_Ds, ppc64_Higher
  <2> QED BY <2>2, <2>3 DEF Ppc64Tls, ppc64_DtpRel, ppc64_TpRel
<1>5. x \in Int /\ s.val \in Int /\ s.tlsoffset \in Int
  BY DEF TlsSym, Syms
<1>6. q.type \in Halves => HalfWord(g.mem.val) /\ HalfWord(z.mem.val)
  BY <1>1 DEF Scene, KinA
<1>7. \A w \in Int, y \in Int : \A b : ((q.type \in Halves => HalfWord(w)) /\ b.offset \in Int) =>
         /\ q.type \in ppc64_DtpRel => TlsPut(a, q, w, y, b) = ppc64_dtprel(q.type, y)
         /\ q.type \in ppc64_TpRel => TlsPut(a, q, w, y, b) = ppc64_tprel(q.type, y, b.offset)
         /\ q.type \in {"DTPMOD64"} => TlsPut(a, q, w, y, b) = b.modid
         /\ q.type \in half => HalfWord(TlsPut(a, q, w, y, b))
  <2> TAKE w \in Int, y \in Int
  <2> TAKE b
  <2> HAVE (q.type \in Halves => HalfWord(w)) /\ b.offset \in Int
  <2>1. /\ q.type \in ppc_DtpRel16 => TlsPut(a, q, w, y, b) = ppc_dtprel(q.type, y)
             /\ HalfWord(ppc_dtprel(q.type, y))
        /\ q.type \in ppc_TpRel16 => /\ TlsPut(a, q, w, y, b) = ppc_tprel(q.type, y, b.offset)
                                     /\ HalfWord(ppc_tprel(q.type, y, b.offset))
        /\ q.type \in {"DTPREL32", "DTPREL64"} => TlsPut(a, q, w, y, b) = y - 32768
        /\ q.type \in {"TPREL32", "TPREL64"} => TlsPut(a, q, w, y, b) = y + b.offset - 28672
        /\ q.type \in DtpMod => TlsPut(a, q, w, y, b) = b.modid
    <3>1. a \in PpcAll
      BY DEF PpcAll
    <3> QED BY <3>1, PpcTlsPut
  <2>2. ppc64_dtprel("DTPREL64", y) = y - 32768
          /\ ppc64_tprel("TPREL64", y, b.offset) = y + b.offset - 28672
    BY DEF ppc64_dtprel, ppc64_tprel, ppc_dtprel, ppc_tprel
  <2>3. /\ q.type \in ppc_DtpRel16 => ppc64_dtprel(q.type, y) = ppc_dtprel(q.type, y)
        /\ q.type \in ppc_TpRel16 =>
             ppc64_tprel(q.type, y, b.offset) = ppc_tprel(q.type, y, b.offset)
    BY DEF ppc64_dtprel, ppc64_tprel, ppc_DtpRel16, ppc_TpRel16
  <2> QED BY <1>2, <2>1, <2>2, <2>3 DEF ppc64_DtpRel, ppc64_TpRel
<1>8. Calm(q) /\ \A y : ld_so_calls(a, q, y) = 0
  <2>1. KinA(a, q, o) /\ FormA(a, o) /\ q.type \notin Slot
    BY <1>2 DEF Scene
  <2>2. Calm(q)
    BY <2>1, PpcCalm
  <2> QED BY <2>2, CalmCalls
<1>9. q.exec => q.type \in ppc64_TpRel
  <2>1. q.exec => q.type \notin DtpMod \union DtpOff
    BY <1>1 DEF LdType, ld_exec_types, Ppc, Mips, Slot, Ppc64Tls, ppc64_DtpRel, ppc_DtpRel16,
       ppc64_TpRel, ppc_TpRel16
  <2> QED BY <1>2, <2>1 DEF Ppc64Tls
<1>10. ppc64_reloc_size(q.type) = IF q.type \in half THEN 2 ELSE 8
  BY DEF ppc64_reloc_size, Ppc64Tls, ppc64_Word, ppc64_Ds, ppc64_Higher, ppc_Half, ppc_Low,
     ppc64_DtpRel, ppc_DtpRel16, ppc64_TpRel, ppc_TpRel16
<1>11. InPlace(q, c) => PutTls(a, g, q, s)
  <2> SUFFICES ASSUME InPlace(q, c), s.isTls
               PROVE  PrelinkRel(a, g, s).mem
                        = [width |-> ld_width(a, q),
                           val |-> TlsPut(a, q, g.mem.val, s.val + q.addend, [modid |-> s.modid, offset |-> s.tlsoffset])]
    BY DEF PutTls
  <2> DEFINE b == [modid |-> s.modid, offset |-> s.tlsoffset]
             u == TlsPut(a, q, g.mem.val, s.val + n, b)
  <2>1. PrelinkRel(a, g, s) = ppc64_prelink_rela(g, s)
    BY DEF PrelinkRel, X86_64, Ppc, Mips
  <2>2. s.val + n \in Int /\ b.offset = s.tlsoffset
    BY <1>1, <1>5
  <2>3. /\ q.type \in ppc64_DtpRel => u = ppc64_dtprel(q.type, s.val + n)
        /\ q.type \in ppc64_TpRel => u = ppc64_tprel(q.type, s.val + n, s.tlsoffset)
    <3> HIDE DEF b
    <3> QED BY <1>1, <1>5, <1>6, <1>7, <2>2
  <2> HIDE DEF u
  <2>4. ppc64_prelink_rela(g, s) = Put(g, ppc64_reloc_size(q.type), u)
    <3>1. CASE q.type \in ppc64_DtpRel
      BY <1>1, <1>3, <2>3, <3>1 DEF ppc64_prelink_rela, ppc64_Word, ppc64_Ds, ppc64_Higher,
         ppc64_DtpRel, ppc_DtpRel16, ppc_Word, ppc_Half, ppc_Low, ppc_Predicted, ppc64_TpRel,
         ppc_TpRel16
    <3>2. CASE q.type \in ppc64_TpRel /\ q.exec
      BY <1>1, <1>3, <2>3, <3>2 DEF ppc64_prelink_rela, ppc64_Word, ppc64_Ds, ppc64_Higher,
         ppc64_DtpRel, ppc_DtpRel16, ppc_Word, ppc_Half, ppc_Low, ppc_Predicted, ppc64_TpRel,
         ppc_TpRel16
    <3> QED BY <1>2, <1>9, <3>1, <3>2 DEF InPlace
  <2>5. PrelinkRel(a, g, s).mem = [width |-> ld_width(a, q), val |-> u]
    <3>1. ppc64_reloc_size(q.type) = ld_width(a, q)
      BY <1>4, <1>10
    <3> QED BY <1>1, <2>1, <2>4, <3>1, PutMem
  <2> QED BY <2>5 DEF u
<1> DEFINE e == ppc64_prelink_conflict_rela(z, c, Block("self"))
           dtprel == IF z.type \in ppc64_DtpRel THEN z.type ELSE "DTPREL64"
           none == Unneeded(z, c, Block("self"), {"DTPMOD64"} \union ppc64_TpRel, dtprel)
<1>12. ConflictRel(a, z, c, Block("self")) = e
  BY DEF ConflictRel, X86_64, Ppc, Mips
<1>13. OutTls(a, q, z, c, cfl)
  <2>1. CASE InPlace(q, c)
    <3>1. none
      <4>1. q.exec => ~ c.found
        BY DEF TlsSym
      <4>2. q.exec \in BOOLEAN /\ c.found \in BOOLEAN
        BY <1>1 DEF TlsSym
      <4>3. q.type \notin {"IRELATIVE"}
        BY DEF Ppc64Tls, ppc64_DtpRel, ppc_DtpRel16, ppc64_TpRel, ppc_TpRel16
      <4> QED BY <1>1, <1>2, <1>9, <2>1, <4>1, <4>2, <4>3 DEF Unneeded, InPlace
    <3>2. e = None
      <4>1. q.type # "JMP_IREL"
        BY DEF Ppc64Tls, ppc64_DtpRel, ppc_DtpRel16, ppc64_TpRel, ppc_TpRel16
      <4> QED BY <1>1, <3>1, <4>1 DEF ppc64_prelink_conflict_rela
    <3> QED BY <1>12, <2>1, <3>2 DEF OutTls
  <2>2. CASE ~ InPlace(q, c)
    <3> DEFINE b == ConflictTls(c, Block("self"))
               y == ConflictValue(c) + n
               u == TlsPut(a, q, z.mem.val, y, b)
    <3>1. ~ q.exec /\ ~ (q.type \in ppc64_DtpRel /\ c.found /\ c.same) /\ z.exec = FALSE
      BY <1>1, <1>2, <2>2 DEF InPlace
    <3>2. /\ ConflictValue(c) = x /\ b.offset \in Int /\ ~ c.ifunc /\ (c.found => c.isTls)
          /\ (q.type \in ppc64_DtpRel => c.found) /\ c.found \in BOOLEAN
      BY <1>2, <3>1 DEF TlsSym
    <3>3. Block("self").modid # 0
      BY DEF Block
    <3>4. q.type \notin {"NONE", "RELATIVE", "IRELATIVE"}
            /\ (q.type \notin ppc64_DtpRel => q.type # "DTPREL64")
      BY DEF Ppc64Tls, ppc64_DtpRel, ppc_DtpRel16, ppc64_TpRel, ppc_TpRel16
    <3>5. ~ none
      BY <1>1, <3>1, <3>2, <3>3, <3>4 DEF Unneeded, Ppc64Tls
    <3>6. y \in Int
      BY <1>1, <1>5, <3>2
    <3>7. /\ q.type \in ppc64_DtpRel => u = ppc64_dtprel(q.type, y)
          /\ q.type \in ppc64_TpRel => u = ppc64_tprel(q.type, y, b.offset)
          /\ q.type \in {"DTPMOD64"} => u = b.modid
          /\ q.type \in half => HalfWord(u)
      <4> HIDE DEF b, y
      <4> QED BY <1>1, <1>6, <1>7, <3>2, <3>6
    <3>8. ConflictValue(c) + z.addend = y /\ ConflictTls(c, Block("self")) = b
      BY <1>3
    <3> HIDE DEF none, b, y, u
    <3>9. e = IF ppc64_reloc_size(q.type) = 8 THEN Entry("ADDR64", u)
            ELSE Entry("ADDR16", Signed16(u))
      BY <1>1, <3>2, <3>5, <3>7, <3>8 DEF ppc64_prelink_conflict_rela, none, Ppc64Tls,
         ppc64_Word, ppc64_Ds, ppc64_Higher, ppc64_DtpRel, ppc_DtpRel16, ppc_Word, ppc_Half,
         ppc_Low, ppc_Predicted, ppc64_TpRel, ppc_TpRel16
    <3> HIDE DEF e
    <3>10. Out(a, q, cfl) = Word(ld_width(a, q), u, 0)
      <4>1. CASE q.type \in half
        <5>1. \A v : Out(a, q, Entry("ADDR16", v)) = Word(2, Lo16(v), 0)
          BY <1>8, OutEntry
        <5>2. u \in Int /\ Lo16(Signed16(u)) = u
          <6>1. HalfWord(u) /\ u \in Int
            BY <3>7, <4>1 DEF HalfWord
          <6> QED BY <6>1, HalfValues
        <5> QED BY <1>4, <1>10, <1>12, <3>9, <4>1, <5>1, <5>2
      <4>2. CASE q.type \notin half
        <5>1. \A v : Out(a, q, Entry("ADDR64", v)) = Word(8, v, 0)
          BY <1>8, OutEntry DEF Doubles
        <5> QED BY <1>4, <1>10, <1>12, <3>9, <4>2, <5>1
      <4> QED BY <4>1, <4>2
    <3> QED BY <2>2, <3>10 DEF OutTls, u, y, b
  <2> QED BY <2>1, <2>2
<1>14. Calm(q) /\ a \in RelaArchs /\ q.type \notin ppc64_Ds
  BY <1>2, <1>8
<1>15. q.type \in DtpOff \union TpOff \union DtpMod /\ (q.exec => q.type \in TpOff)
  BY <1>2, <1>9 DEF Ppc64Tls
<1> HIDE DEF e, none, dtprel
<1> QED BY <1>11, <1>13, <1>14, <1>15, TlsOut

(* ppc64: the function descriptor that a PLT slot is.                      *)
LEMMA Ppc64Slot ==
  ASSUME NEW g, NEW q, NEW o, NEW s, NEW z, Scene("ppc64", g, q, o, s, z), q.type \in Slot,
         NEW c, NEW d, NEW x, x = At(q, q.base, d), PlainSym(q, s, c, x),
         NEW cfl, cfl = ConflictRel("ppc64", z, c, Block("self")), cfl.ok
  PROVE  Out("ppc64", q, cfl) = ld_so_relocate("ppc64", q, q.base, d)
<1>1. /\ q \in Relocs /\ g \in Relocs /\ z \in Relocs /\ q.rela /\ LdType("ppc64", q)
           /\ o.type = q.type
      /\ g.type = q.type /\ z.type = q.type /\ z.exec = q.exec /\ q.exec \in BOOLEAN
           /\ q.class = 8
  BY SceneFacts DEF ld_class, Ppc
<1>2. q.type = "JMP_SLOT"
  <2>1. q.type \notin ppc64_Ds
    BY DEF Slot, ppc64_Ds
  <2> QED BY <1>1, <2>1, Ppc64Types DEF Slot, Ppc64Plain, PpcPlain, PpcRest, Ppc64Tls, ppc_Word,
             ppc_Half, ppc_Low, ppc_Predicted, ppc64_DtpRel, ppc_DtpRel16, ppc64_TpRel,
             ppc_TpRel16, ppc64_Higher
<1>3. q.addend = 0 /\ z.addend = 0 /\ g.addend = 0 /\ q.code = NoCode /\ g.code = NoCode
        /\ z.code = NoCode
  <2>1. o.type \in Slot /\ o.type \notin Addr
    BY <1>1, SlotTypes
  <2>2. o.addend = 0 /\ o.code = NoCode
    BY <2>1 DEF Scene, FormA, LdAddends, LdCode
  <2>3. SlotKin("ppc64", q, o) /\ SlotKin("ppc64", z, o) /\ SlotKin("ppc64", g, o)
    BY <1>1, <2>1 DEF Scene, KinA
  <2> QED BY <2>2, <2>3 DEF SlotKin
<1>4. ld_width("ppc64", q) = 24
  BY <1>1, <1>2 DEF ld_width, Slot, s390_Half, s390_Dbl16, ppc_Half, ppc_Low, ppc_DtpRel16,
     ppc_TpRel16, ppc64_Ds, ppc64_Higher, Tls, TpOff, DtpOff, DtpMod, mips_DtpMod, ppc_DtpRel,
     ppc_TpRel, mips_DtpRel, mips_TpRel, mips_Got, mips_Global, mips_Undefined, mips_Defined
<1>5. x \in Int /\ s.val \in Int /\ c.val \in Int
  BY DEF PlainSym, Syms
<1>6. ld_so_relocate("ppc64", q, q.base, d) = Word(24, Opd(x), 0)
  <2>1. ld_so_addend("ppc64", q) = 0
    BY <1>1, <1>3 DEF ld_so_addend
  <2>2. At(q, q.base, d) + ld_so_addend("ppc64", q) = x
    BY <1>5, <2>1
  <2> QED BY <1>2, <1>3, <1>4, <2>2, RelocateSlot DEF Slot
<1>7. q.mem = [width |-> 24, val |-> Opd(s.val)]
  <2>1. PrelinkRel("ppc64", g, s) = ppc64_prelink_rela(g, s)
    BY DEF PrelinkRel, X86_64, Ppc, Mips
  <2>2. ppc64_prelink_rela(g, s) = Put(g, 24, Opd(s.val + 0))
    BY <1>1, <1>2, <1>3 DEF ppc64_prelink_rela, ppc64_fixup_plt, ppc64_Word, ppc64_DtpRel,
       ppc_DtpRel16, ppc_Half, ppc_Low, ppc_Predicted, ppc64_TpRel, ppc_TpRel16, ppc64_Ds,
       ppc64_Higher
  <2>3. s.val + 0 = s.val
    BY <1>5
  <2> QED BY <1>1, <2>1, <2>2, <2>3, PutMem DEF Scene
<1>8. \A y : ld_so_calls("ppc64", q, y) = 0
  BY <1>3, CalmCalls DEF Calm, NoCode
<1> DEFINE e == ppc64_prelink_conflict_rela(z, c, Block("self"))
<1>9. ConflictRel("ppc64", z, c, Block("self")) = e
  BY DEF ConflictRel, X86_64, Ppc, Mips
<1>10. CASE ~ c.found
  <2>1. cfl = None
    BY <1>1, <1>2, <1>9, <1>10 DEF ppc64_prelink_conflict_rela, Unneeded, ppc64_TpRel,
       ppc_TpRel16, ppc64_DtpRel, ppc_DtpRel16
  <2>2. s.val = x
    BY <1>10 DEF PlainSym
  <2> QED BY <1>6, <1>7, <1>8, <2>1, <2>2, OutNone
<1>11. CASE c.found
  <2>1. c.ifunc \in BOOLEAN /\ (~ c.ifunc => c.val = x /\ ~ q.exec)
          /\ (c.ifunc => ld_so_ifunc(c.val) = x)
    BY <1>11 DEF PlainSym
  <2>2. e = Entry(IF c.ifunc THEN "JMP_IREL" ELSE "JMP_SLOT", c.val + 0)
    BY <1>1, <1>2, <1>3, <1>11, <2>1 DEF ppc64_prelink_conflict_rela, Unneeded, ConflictValue,
       ppc64_reloc_class, ppc64_TpRel, ppc_TpRel16, ppc64_DtpRel, ppc_DtpRel16, ppc_Half,
       ppc_Low, ppc_Predicted, ppc64_Ds, ppc64_Higher, ppc64_Word
  <2> HIDE DEF e
  <2>3. c.val + 0 = c.val
    BY <1>5
  <2>4. \A v : /\ Out("ppc64", q, Entry("JMP_SLOT", v)) = Word(24, Opd(v), 0)
               /\ Out("ppc64", q, Entry("JMP_IREL", v)) = Word(24, Opd(ld_so_ifunc(v)), 0)
    BY <1>3, <1>8, OutEntry DEF Slot
  <2> QED BY <1>6, <1>9, <2>1, <2>2, <2>3, <2>4
<1> QED BY <1>10, <1>11

(* ppc64: the relocations without a symbol.                                *)
LEMMA Ppc64Local ==
  ASSUME NEW a, a = "ppc64", NEW g, NEW q, NEW o, NEW s, NEW z, Scene(a, g, q, o, s, z),
             q.type \in NoSymbol,
         NEW d, NEW cfl, cfl = ConflictRel(a, z, NoConflict, Block("self"))
  PROVE  Out(a, q, cfl) = ld_so_relocate(a, q, q.base, d)
<1>1. /\ q \in Relocs /\ g \in Relocs /\ z \in Relocs /\ q.rela /\ LdType(a, q)
           /\ o.type = q.type
      /\ g.type = q.type /\ z.type = q.type /\ q.class = 8 /\ q.base = g.base
           /\ z.base = q.base /\ q.base \in Int
  BY SceneFacts DEF ld_class, Ppc, Scene
<1>2. q.type \in {"NONE", "COPY", "RELATIVE", "IRELATIVE", "JMP_IREL"}
  <2>1. q.type \notin ppc64_Ds
    BY DEF NoSymbol, ppc64_Ds
  <2> QED BY <1>1, <2>1, Ppc64Types
<1>3. ~ NoConflict.found /\ ~ NoConflict.ifunc
  BY NoConflictIs
<1>4. ConflictRel(a, z, NoConflict, Block("self")) = ppc64_prelink_conflict_rela(z, NoConflict, Block("self"))
  BY DEF ConflictRel, X86_64, Ppc, Mips
<1>5. q.type \in {"NONE", "COPY", "RELATIVE"} => cfl = None
  BY <1>1, <1>3, <1>4 DEF ppc64_prelink_conflict_rela, Unneeded, ppc64_TpRel, ppc_TpRel16,
     ppc64_DtpRel, ppc_DtpRel16
<1>6. q.type \in {"RELATIVE", "IRELATIVE", "JMP_IREL"} => g.addend = Target(q)
        /\ z.addend = Target(q) /\ Target(q) \in Int
  BY <1>1 DEF Scene, KinA, AddrKin, Addr, Target, Ppc
<1>7. ASSUME q.type \in {"IRELATIVE", "JMP_IREL"} PROVE cfl = Entry(q.type, Target(q))
  <2>1. cfl = Entry(q.type, 0 + z.addend)
    BY <1>1, <1>3, <1>4, <1>7 DEF ppc64_prelink_conflict_rela, Unneeded, ConflictValue,
       ppc64_reloc_class, ppc64_TpRel, ppc_TpRel16, ppc64_DtpRel, ppc_DtpRel16, ppc_Half,
       ppc_Low, ppc_Predicted, ppc64_Ds, ppc64_Higher, ppc64_Word
  <2>2. 0 + z.addend = Target(q)
    BY <1>6, <1>7
  <2> QED BY <2>1, <2>2
<1>8. ASSUME q.type = "RELATIVE" PROVE q.mem = [width |-> q.class, val |-> Target(q)]
  <2>1. PrelinkRel(a, g, s) = Put(g, 8, Target(q))
    BY <1>1, <1>6, <1>8 DEF PrelinkRel, X86_64, Ppc, Mips, ppc64_prelink_rela, ppc64_Word,
       ppc64_DtpRel, ppc_DtpRel16, ppc_Half, ppc_Low, ppc_Predicted, ppc64_TpRel, ppc_TpRel16,
       ppc64_Ds, ppc64_Higher
  <2> QED BY <1>1, <2>1, PutMem DEF Scene
<1>9. Calm(q) /\ KinA(a, q, o) /\ FormA(a, o)
  <2>1. q.type \notin Slot
    BY <1>2 DEF Slot
  <2>2. KinA(a, q, o) /\ FormA(a, o)
    BY DEF Scene
  <2> QED BY <2>1, <2>2, PpcCalm
<1>10. a \in RelaArchs /\ a # "sparc"
  BY DEF RelaArchs, Names, Ppc, RelArchs, Mips
<1> QED BY <1>5, <1>7, <1>8, <1>9, <1>10, LocalOut

(* ppc64: prelinking and the conflict make the word that ld.so makes of    *)
(* the relocation.                                                         *)
LEMMA Ppc64WordIs ==
  ASSUME NEW a, a = "ppc64", NEW g, NEW q, NEW o, NEW s, NEW z, Scene(a, g, q, o, s, z),
         NEW c, NEW d, Viewed(a, q, o, s, c, d), NEW cfl,
               cfl = ConflictRel(a, z, c, Block("self")), cfl.ok,
         q.type \notin ppc64_Ds, cfl.rela # << >> => q.type # "ADDR14_BRTAKEN"
  PROVE  Out(a, q, cfl) = ld_so_relocate(a, q, q.base, d)
<1>1. LdType(a, q) /\ o.type = q.type
  BY SceneFacts
<1>2. /\ q.type \in {"NONE", "COPY", "RELATIVE", "IRELATIVE", "JMP_IREL", "JMP_SLOT"}
           \union Ppc64Plain \union Ppc64Tls
      /\ q.type \in NoSymbol <=> q.type \in {"NONE", "COPY", "RELATIVE", "IRELATIVE", "JMP_IREL"}
      /\ q.type \in Tls <=> q.type \in Ppc64Tls
  BY <1>1, Ppc64Types
<1>3. CASE q.type \in NoSymbol
  BY <1>3, Ppc64Local DEF Viewed
<1>4. CASE q.type \in Ppc64Tls
  BY <1>2, <1>4, Ppc64TlsWord DEF Viewed
<1>5. CASE q.type \notin NoSymbol \union Ppc64Tls
  <2>1. PlainSym(q, s, c, At(q, q.base, d)) /\ (c.ifunc => IfuncFits(a, o))
    BY <1>2, <1>5 DEF Viewed
  <2>2. CASE q.type \in Ppc64Plain
    <3> DEFINE x == At(q, q.base, d)
    <3>1. /\ Scene("ppc64", g, q, o, s, z) /\ PlainSym(q, s, c, x)
               /\ (c.ifunc => IfuncFits("ppc64", o))
          /\ cfl = ConflictRel("ppc64", z, c, Block("self")) /\ x = At(q, q.base, d)
      BY <2>1
    <3> HIDE DEF x
    <3>2. Out("ppc64", q, cfl) = ld_so_relocate("ppc64", q, q.base, d)
      BY <2>2, <3>1, Ppc64Words
    <3> QED BY <3>2
  <2>3. CASE q.type \in Slot
    BY <2>1, <2>3, Ppc64Slot
  <2> QED BY <1>2, <1>5, <2>2, <2>3 DEF Slot
<1> QED BY <1>3, <1>4, <1>5

-----------------------------------------------------------------------------
(* sparc and sparc64.                                                      *)

(* The architectures of arch-sparc.c and arch-sparc64.c.                   *)
Sparcs == {"sparc", "sparc64"}

(* sparc, sparc64: whole words.                                            *)
SparcWhole == {"GLOB_DAT", "64", "UA64", "32", "UA32", "16", "UA16", "8"}

(* sparc, sparc64: relative to the place.                                  *)
SparcDisp == {"DISP8", "DISP16", "DISP32", "DISP64"}

(* sparc: the relocations with a symbol, but for PLT slots and TLS.        *)
SparcPlain == {"GLOB_DAT", "32", "UA32", "16", "UA16", "8", "LO10", "HI22", "WDISP30", "DISP8", "DISP16", "DISP32"}

(* sparc64: the same.                                                      *)
Sparc64Plain == SparcWhole \union SparcDisp \union sparc64_Insns

(* The TLS relocations of either.                                          *)
SparcTls(a) == IF a = "sparc" THEN sparc_Tls ELSE sparc64_Tls

(* sparc, sparc64: the types, and which of them are for TLS.               *)
LEMMA SparcTypes ==
  ASSUME NEW a \in Sparcs, NEW q, LdType(a, q)
  PROVE  /\ q.type \in {"NONE", "COPY", "RELATIVE", "JMP_SLOT"} \union Sparc64Plain
              \union SparcTls(a)
         /\ a = "sparc" => q.type \in {"NONE", "COPY", "RELATIVE", "JMP_SLOT"}
              \union SparcPlain \union SparcTls(a)
         /\ q.type \in NoSymbol <=> q.type \in {"NONE", "COPY", "RELATIVE"}
         /\ q.type \in Tls <=> q.type \in SparcTls(a)
         /\ RelocClass(a, q.type) = "TLS" <=> q.type \in Tls
<1>1. /\ q.type \in {"NONE", "COPY", "RELATIVE", "JMP_SLOT"} \union Sparc64Plain
           \union SparcTls(a)
      /\ a = "sparc" => q.type \in {"NONE", "COPY", "RELATIVE", "JMP_SLOT"} \union SparcPlain
           \union SparcTls(a)
  <2>1. q.type \in ld_types(a) \union {"COPY"}
    BY DEF LdType, ld_exec_types, Mips, Sparcs
  <2>2. CASE a = "sparc"
    <3>1. ld_types(a) = {"NONE", "RELATIVE"}
            \union {"GLOB_DAT", "JMP_SLOT", "32", "UA32", "16", "UA16", "8", "LO10", "HI22",
                    "WDISP30", "DISP8", "DISP16", "DISP32"} \union sparc_Tls
      BY <2>2 DEF ld_types, X86_64, Ppc
    <3> QED BY <2>1, <2>2, <3>1 DEF SparcPlain, Sparc64Plain, SparcWhole, SparcDisp,
               sparc64_Insns, SparcTls
  <2>3. CASE a = "sparc64"
    <3>1. ld_types(a) = {"NONE", "RELATIVE"}
            \union {"GLOB_DAT", "JMP_SLOT", "64", "UA64", "32", "UA32", "16", "UA16", "8",
                    "DISP8", "DISP16", "DISP32", "DISP64"} \union sparc64_Insns \union
                    sparc64_Tls
      BY <2>3 DEF ld_types, X86_64, Ppc
    <3> QED BY <2>1, <2>3, <3>1 DEF Sparc64Plain, SparcWhole, SparcDisp, SparcTls
  <2> QED BY <2>2, <2>3 DEF Sparcs
<1>2. q.type \in Tls <=> q.type \in SparcTls(a)
  BY <1>1 DEF Tls, TpOff, DtpOff, DtpMod, ppc_TpRel, ppc_TpRel16, mips_TpRel, ppc_DtpRel,
     ppc_DtpRel16, mips_DtpRel, mips_DtpMod, Sparc64Plain, SparcWhole, SparcDisp, sparc64_Insns,
     SparcTls, sparc_Tls, sparc64_Tls
<1>3. RelocClass(a, q.type) = IF a = "sparc" THEN sparc_reloc_class(q.type)
        ELSE sparc64_reloc_class(q.type)
  BY DEF RelocClass, X86_64, Ppc, Mips, Sparcs
<1>4. RelocClass(a, q.type) = "TLS" <=> q.type \in SparcTls(a)
  BY <1>3 DEF sparc_reloc_class, sparc64_reloc_class, SparcTls, sparc_Tls, sparc64_Tls
<1>5. q.type \in NoSymbol <=> q.type \in {"NONE", "COPY", "RELATIVE"}
  BY <1>1 DEF NoSymbol, Sparc64Plain, SparcWhole, SparcDisp, sparc64_Insns, SparcTls, sparc_Tls,
     sparc64_Tls
<1> QED BY <1>1, <1>2, <1>4, <1>5

(* sparc, sparc64: only a PLT slot has code.                               *)
LEMMA SparcCalm ==
  ASSUME NEW a \in Sparcs, NEW q, NEW o, KinA(a, q, o), FormA(a, o), q.type \notin Slot
  PROVE  Calm(q)
<1>1. o.type = q.type /\ o.code = LdCode(a, o)
  BY DEF KinA, FormA
<1>2. q.code = o.code
  BY DEF KinA, AddrKin
<1> QED BY <1>1, <1>2 DEF LdCode, Calm, Lazy, NoCode, Sparcs

(* sparc, sparc64: what is written into the field of an instruction.       *)
LEMMA SparcInsnIs ==
  ASSUME NEW q, q.type \in sparc64_Insns, P(q) \in Int, NEW w \in Int, NEW y \in Int
  PROVE  sparc64_insn(q, w, y) = Insert(w, 0, Width(q.type), Operand(q.type, IF q.type = "WDISP30" THEN y - P(q) ELSE y))
<1>1. 2^10 = 1024 /\ 2^12 = 4096 /\ 2^20 = 1048576 /\ 2^22 = 4194304
  OBVIOUS
<1>2. CASE q.type \in {"OLO10", "OLO10+8"}
  <2>1. (y % 1024) + 0 = y % 1024
    OBVIOUS
  <2> QED BY <1>2, <2>1 DEF sparc64_insn, SPARC64_R_TYPE, sparc64_data, Width, Operand,
             sparc64_bits
<1>3. CASE q.type \notin {"OLO10", "OLO10+8"}
  BY <1>1, <1>3 DEF sparc64_insn, SPARC64_R_TYPE, Width, Operand, sparc64_bits, sparc_wdisp30,
     sparc64_Insns
<1> QED BY <1>2, <1>3

(* sparc, sparc64: what ld.so writes for each type.                        *)
LEMMA SparcPut ==
  ASSUME NEW a \in Sparcs, NEW q, q.type \in Sparc64Plain, P(q) \in Int, NEW w \in Int,
             NEW y \in Int
  PROVE  /\ q.type \in SparcWhole => ld_so_insert(q.type, w, Oper(a, q, y)) = y
         /\ q.type \in SparcDisp => ld_so_insert(q.type, w, Oper(a, q, y)) = y - P(q)
         /\ q.type \in sparc64_Insns =>
              ld_so_insert(q.type, w, Oper(a, q, y)) = sparc64_insn(q, w, y)
<1>1. q.type \in PcRel(a) <=> q.type \in SparcDisp \union {"WDISP30"}
  BY DEF PcRel, Sparcs, Mips, SparcDisp, Sparc64Plain, SparcWhole, sparc64_Insns, Dbl, s390_Dbl,
     s390_Dbl16
<1>2. y - P(q) \in Int
  OBVIOUS
<1>3. CASE q.type \in SparcWhole
  <2>1. q.type \notin Partial /\ q.type \notin SparcDisp \union sparc64_Insns
    BY <1>3 DEF SparcWhole, SparcDisp, sparc64_Insns, Partial, Insns, Halves, ppc_Half, ppc_Low,
       ppc_Predicted, ppc_DtpRel16, ppc_TpRel16, ppc64_Ds, ppc64_Higher, Dbl, s390_Dbl,
       s390_Dbl16
  <2>2. Oper(a, q, y) = y
    BY <1>1, <2>1 DEF Oper, sparc64_Insns
  <2>3. ld_so_insert(q.type, w, y) = y
    BY <2>1, WholeInsert
  <2> QED BY <2>1, <2>2, <2>3
<1>4. CASE q.type \in SparcDisp
  <2>1. q.type \notin Partial /\ q.type \notin SparcWhole \union sparc64_Insns
    BY <1>4 DEF SparcWhole, SparcDisp, sparc64_Insns, Partial, Insns, Halves, ppc_Half, ppc_Low,
       ppc_Predicted, ppc_DtpRel16, ppc_TpRel16, ppc64_Ds, ppc64_Higher, Dbl, s390_Dbl,
       s390_Dbl16
  <2>2. Oper(a, q, y) = y - P(q)
    BY <1>1, <1>4 DEF Oper
  <2>3. ld_so_insert(q.type, w, y - P(q)) = y - P(q)
    BY <1>2, <2>1, WholeInsert
  <2> QED BY <2>1, <2>2, <2>3
<1>5. CASE q.type \in sparc64_Insns
  <2>1. q.type \notin SparcWhole \union SparcDisp /\ q.type \in SparcInsns
    BY <1>5 DEF SparcWhole, SparcDisp, sparc64_Insns, SparcInsns
  <2>2. Oper(a, q, y) = IF q.type = "WDISP30" THEN y - P(q) ELSE y
    BY <1>1, <2>1 DEF Oper
  <2> DEFINE x == IF q.type = "WDISP30" THEN y - P(q) ELSE y
  <2>3. x \in Int /\ Oper(a, q, y) = x
    BY <1>2, <2>2
  <2>4. sparc64_insn(q, w, y) = Insert(w, 0, Width(q.type), Operand(q.type, x))
    BY <1>5, SparcInsnIs
  <2> HIDE DEF x
  <2>5. ld_so_insert(q.type, w, x) = Insert(w, 0, Width(q.type), Operand(q.type, x))
    BY <2>1, <2>3, SparcInsert
  <2> QED BY <2>1, <2>3, <2>4, <2>5
<1> QED BY <1>3, <1>4, <1>5 DEF Sparc64Plain

(* sparc, sparc64: how wide the words are.                                 *)
LEMMA SparcWidth ==
  ASSUME NEW a, NEW q, q.type \in Sparc64Plain
  PROVE  ld_width(a, q) = IF q.type \in {"8", "DISP8"} THEN 1
           ELSE IF q.type \in {"16", "UA16", "DISP16"} THEN 2
                          ELSE IF q.type \in {"64", "UA64", "DISP64"} THEN 8
                            ELSE IF q.type = "GLOB_DAT" THEN q.class ELSE 4
<1>1. /\ q.type \notin Slot \union {"JMP_IREL"} \union mips_Got /\ q.type \notin Tls
      /\ q.type \notin ppc_Half \union ppc_DtpRel16 \union ppc_TpRel16 \union ppc64_Ds
           \union ppc64_Higher
  BY DEF Sparc64Plain, SparcWhole, SparcDisp, sparc64_Insns, Tls, TpOff, DtpOff, DtpMod,
     ppc_TpRel, ppc_TpRel16, mips_TpRel, ppc_DtpRel, ppc_DtpRel16, mips_DtpRel, mips_DtpMod,
     Slot, mips_Got, mips_Global, mips_Undefined, mips_Defined, ppc_Half, ppc_Low, ppc64_Ds,
     ppc64_Higher
<1>2. q.type \in s390_Half <=> q.type = "16"
  BY DEF s390_Half, s390_Dbl16, Sparc64Plain, SparcWhole, SparcDisp, sparc64_Insns
<1>3. q.type \in {"8", "DISP8", "16", "UA16", "DISP16", "64", "UA64", "DISP64", "GLOB_DAT"}
        \union ({"32", "UA32", "DISP32"} \union sparc64_Insns)
  BY DEF Sparc64Plain, SparcWhole, SparcDisp
<1> QED BY <1>1, <1>2, <1>3 DEF ld_width, sparc64_Insns

(* sparc, sparc64: the word of a relocation with a symbol.                 *)
LEMMA SparcWords ==
  ASSUME NEW a \in Sparcs, NEW g, NEW q, NEW o, NEW s, NEW z, Scene(a, g, q, o, s, z),
             q.type \in Sparc64Plain,
         a = "sparc" => q.type \in SparcPlain,
         NEW c, NEW d, NEW x, x = At(q, q.base, d), PlainSym(q, s, c, x), ~ c.ifunc,
         NEW cfl, cfl = ConflictRel(a, z, c, Block("self")), cfl.ok
  PROVE  Out(a, q, cfl) = ld_so_relocate(a, q, q.base, d)
<1> DEFINE n == q.addend
           f(w, y) == ld_so_insert(q.type, w, Oper(a, q, y))
           width == IF q.type \in {"8", "DISP8"} THEN 1
             ELSE IF q.type \in {"16", "UA16", "DISP16"} THEN 2
                    ELSE IF q.type \in {"64", "UA64", "DISP64"} THEN 8
                      ELSE IF q.type = "GLOB_DAT" THEN q.class ELSE 4
<1>1. /\ q \in Relocs /\ g \in Relocs /\ z \in Relocs /\ q.rela /\ LdType(a, q)
      /\ g.type = q.type /\ z.type = q.type /\ z.exec = q.exec /\ o.type = q.type
           /\ g.exec = q.exec
      /\ q.addend \in Int /\ P(q) \in Int /\ P(g) = P(q) /\ P(z) = P(q) /\ q.exec \in BOOLEAN
      /\ q.class = IF a = "sparc" THEN 4 ELSE 8
      /\ g.mem.val \in Int /\ z.mem.val \in Int
  <2>1. q.class = ld_class(a) /\ z.mem.val \in Int
    BY SceneFacts, KinFacts DEF Scene
  <2>2. ld_class(a) = IF a = "sparc" THEN 4 ELSE 8
    BY DEF ld_class, Sparcs
  <2> QED BY <2>1, <2>2, SceneFacts
<1>2. /\ q.type \notin Special /\ q.type \notin DtpOff \union TpOff /\ q.type \notin ppc64_Ds
           /\ q.type \notin Addr \union Slot
      /\ a \in RelaArchs
  BY DEF Sparc64Plain, SparcWhole, SparcDisp, sparc64_Insns, Special, TpOff, DtpOff, DtpMod,
     ppc_TpRel, ppc_TpRel16, mips_TpRel, ppc_DtpRel, ppc_DtpRel16, mips_DtpRel, mips_DtpMod,
     Slot, Addr, ppc64_Ds, Sparcs, RelaArchs, Names, RelArchs, Mips
<1>3. g.addend = n /\ z.addend = n
  BY <1>2, SceneFacts
<1>4. ld_width(a, q) = width
  BY SparcWidth
<1>5. x \in Int /\ s.val \in Int /\ c.val \in Int
  BY DEF PlainSym, Syms
<1>6. \A w \in Int, y \in Int :
         /\ q.type \in SparcWhole => f(w, y) = y
         /\ q.type \in SparcDisp => f(w, y) = y - P(q)
         /\ q.type \in sparc64_Insns => f(w, y) = sparc64_insn(q, w, y)
  BY <1>1, SparcPut
<1>7. \A w, y : sparc64_insn(g, w, y) = sparc64_insn(q, w, y)
        /\ sparc64_insn(z, w, y) = sparc64_insn(q, w, y)
  BY <1>1 DEF sparc64_insn
<1>8. \A w, y : /\ q.type = "LO10" => sparc64_insn(q, w, y) = sparc_lo10(w, y)
                /\ q.type = "HI22" => sparc64_insn(q, w, y) = sparc_hi22(w, y)
                /\ q.type = "WDISP30" => sparc64_insn(q, w, y) = sparc_wdisp30(w, y - P(q))
  <2>1. 2^10 = 1024
    OBVIOUS
  <2> QED BY <2>1 DEF sparc64_insn, sparc_lo10, sparc_hi22, SPARC64_R_TYPE
<1> HIDE DEF f
<1>9. PutPlain(a, g, q, s)
  <2> DEFINE v == s.val + n
             u == f(g.mem.val, v)
  <2>1. v \in Int
    BY <1>1, <1>5
  <2>2. s.val + g.addend = v
    BY <1>3
  <2>3. /\ q.type \in SparcWhole => u = v
        /\ q.type \in SparcDisp => u = v - P(q)
        /\ q.type \in sparc64_Insns => u = sparc64_insn(q, g.mem.val, v)
    BY <1>1, <1>6, <2>1
  <2> HIDE DEF v, u
  <2>4. PrelinkRel(a, g, s) = Put(g, width, u)
    <3>1. CASE a = "sparc"
      <4>1. PrelinkRel(a, g, s) = sparc_prelink_rela(g, s)
        BY <3>1 DEF PrelinkRel, X86_64, Ppc, Mips
      <4>2. sparc_prelink_rela(g, s) = Put(g, width, u)
        BY <1>1, <1>8, <2>2, <2>3, <3>1 DEF sparc_prelink_rela, SparcPlain, SparcWhole,
           SparcDisp, sparc64_Insns
      <4> QED BY <4>1, <4>2
    <3>2. CASE a = "sparc64"
      <4>1. PrelinkRel(a, g, s) = sparc64_prelink_rela(g, s)
        BY <3>2 DEF PrelinkRel, X86_64, Ppc, Mips
      <4>2. sparc64_prelink_rela(g, s) = Put(g, width, u)
        BY <1>1, <1>7, <2>2, <2>3, <3>2 DEF sparc64_prelink_rela, Sparc64Plain, SparcWhole,
           SparcDisp, sparc64_Insns
      <4> QED BY <4>1, <4>2
    <3> QED BY <3>1, <3>2 DEF Sparcs
  <2> HIDE DEF width
  <2>5. PrelinkRel(a, g, s).mem = [width |-> ld_width(a, q), val |-> u]
    BY <1>1, <1>4, <2>4, PutMem
  <2> QED BY <2>5 DEF PutPlain, u, v, f
<1>10. Calm(q) /\ \A y : ld_so_calls(a, q, y) = 0
  <2>1. KinA(a, q, o) /\ FormA(a, o) /\ q.type \notin Slot
    BY <1>2 DEF Scene
  <2>2. Calm(q)
    BY <2>1, SparcCalm
  <2> QED BY <2>2, CalmCalls
<1>11. q.type \notin {"RELATIVE", "NONE", "JMP_SLOT"} \union sparc_Tls \union sparc64_Tls
  BY DEF Sparc64Plain, SparcWhole, SparcDisp, sparc64_Insns, sparc_Tls, sparc64_Tls
<1> DEFINE e == IF a = "sparc" THEN sparc_prelink_conflict_rela(z, c, Block("self"))
             ELSE sparc64_prelink_conflict_rela(z, c, Block("self"))
<1>12. ConflictRel(a, z, c, Block("self")) = e
  BY DEF ConflictRel, X86_64, Ppc, Mips, Sparcs
<1>13. ~ c.found => cfl = None
  BY <1>1, <1>11, <1>12 DEF sparc_prelink_conflict_rela, sparc64_prelink_conflict_rela
<1>14. ASSUME c.found
       PROVE  Out(a, q, cfl) = Word(ld_width(a, q), f(z.mem.val, c.val + n), 0)
  <2> DEFINE k == c.val + n
             u == f(z.mem.val, k)
  <2>1. ~ q.exec /\ z.exec = FALSE /\ c.found = TRUE
    BY <1>1, <1>14 DEF PlainSym
  <2>2. k \in Int /\ ConflictValue(c) + z.addend = k
    BY <1>1, <1>3, <1>5, <1>14 DEF ConflictValue
  <2>3. /\ q.type \in SparcWhole => u = k
        /\ q.type \in SparcDisp => u = k - P(q)
        /\ q.type \in sparc64_Insns => u = sparc64_insn(q, z.mem.val, k)
    BY <1>1, <1>6, <2>2
  <2> HIDE DEF k, u
  <2> DEFINE t == IF q.type \in {"8", "DISP8"} THEN "8"
               ELSE IF q.type \in {"UA16", "UA32", "UA64"} THEN q.type
                  ELSE IF width = 2 THEN "16" ELSE IF width = 8 THEN "64" ELSE "32"
  <2>4. e = Entry(t, u)
    <3>1. CASE a = "sparc"
      BY <1>1, <1>8, <1>11, <2>1, <2>2, <2>3, <3>1 DEF sparc_prelink_conflict_rela, SparcPlain,
         SparcWhole, SparcDisp, sparc64_Insns
    <3>2. CASE a = "sparc64"
      BY <1>1, <1>7, <1>11, <2>1, <2>2, <2>3, <3>2 DEF sparc64_prelink_conflict_rela,
         Sparc64Plain, SparcWhole, SparcDisp, sparc64_Insns
    <3> QED BY <3>1, <3>2 DEF Sparcs
  <2>5. /\ t = "8" => width = 1
        /\ t \in {"16", "UA16"} => width = 2
        /\ t \in {"32", "UA32"} => width = 4
        /\ t \in {"64", "UA64"} => width = 8
        /\ t \in {"8", "16", "UA16", "32", "UA32", "64", "UA64"}
    BY <1>1
  <2> HIDE DEF t, width, e
  <2>6. /\ t = "8" => Out(a, q, Entry(t, u)) = Word(1, u, 0)
        /\ t \in {"16", "UA16"} => Out(a, q, Entry(t, u)) = Word(2, u, 0)
        /\ t \in {"32", "UA32"} => Out(a, q, Entry(t, u)) = Word(4, u, 0)
        /\ t \in {"64", "UA64"} => Out(a, q, Entry(t, u)) = Word(8, u, 0)
    BY <1>10, OutEntry DEF Singles, Doubles
  <2>7. Out(a, q, Entry(t, u)) = Word(width, u, 0)
    BY <2>5, <2>6
  <2> QED BY <1>4, <1>12, <2>4, <2>7 DEF u, k
<1>15. OutPlain(a, q, z, c, cfl)
  BY <1>13, <1>14 DEF OutPlain, f
<1> QED BY <1>2, <1>9, <1>10, <1>15, PlainOut, ZenonT(40)

(* The number of a module.                                                 *)
SparcMod == {"TLS_DTPMOD32", "TLS_DTPMOD64"}

(* An offset in a TLS block.                                               *)
SparcDtp == {"TLS_DTPOFF32", "TLS_DTPOFF64"}

(* An offset from the thread pointer.                                      *)
SparcTp == {"TLS_TPOFF32", "TLS_TPOFF64"}

(* The same, in an instruction.                                            *)
SparcLe == {"TLS_LE_HIX22", "TLS_LE_LOX10"}

(* sparc, sparc64: what kind of TLS relocations these are for ld.so.       *)
LEMMA SparcTlsKinds ==
  ASSUME NEW a \in Sparcs, NEW t, t \in SparcTls(a)
  PROVE  /\ t \in SparcMod \union SparcDtp \union SparcTp \union SparcLe
         /\ t \in SparcMod <=> t \in DtpMod
         /\ t \in SparcDtp <=> t \in DtpOff
         /\ t \in SparcTp \union SparcLe <=> t \in TpOff
         /\ t \notin ppc64_Ds /\ t \notin Addr \union Slot
         /\ t \in Partial <=> t \in SparcLe
<1>1. t \in SparcMod \union SparcDtp \union SparcTp \union SparcLe
  BY DEF SparcTls, sparc_Tls, sparc64_Tls, SparcMod, SparcDtp, SparcTp, SparcLe
<1>2. SparcMod \subseteq DtpMod /\ SparcDtp \subseteq DtpOff
        /\ (SparcTp \union SparcLe) \subseteq TpOff
  BY DEF SparcMod, SparcDtp, SparcTp, SparcLe, DtpMod, DtpOff, TpOff, mips_DtpMod
<1>3. t \notin ppc64_Ds /\ t \notin Addr \union Slot
  BY <1>1 DEF SparcMod, SparcDtp, SparcTp, SparcLe, ppc64_Ds, Addr, Slot
<1>4. t \in Partial <=> t \in SparcLe
  BY <1>1 DEF SparcMod, SparcDtp, SparcTp, SparcLe, Partial, Insns, sparc64_Insns, Halves,
     ppc_Half, ppc_Low, ppc_Predicted, ppc_DtpRel16, ppc_TpRel16, ppc64_Ds, ppc64_Higher, Dbl,
     s390_Dbl, s390_Dbl16
<1> QED BY <1>1, <1>2, <1>3, <1>4, TlsApart

(* sparc, sparc64: what ld.so writes for each TLS type.                    *)
LEMMA SparcTlsPut ==
  ASSUME NEW a \in Sparcs, NEW q, q.type \in SparcTls(a), NEW w \in Int, NEW y \in Int, NEW b,
             b.offset \in Int
  PROVE  /\ q.type \in SparcMod => TlsPut(a, q, w, y, b) = b.modid
         /\ q.type \in SparcDtp => TlsPut(a, q, w, y, b) = y
         /\ q.type \in SparcTp => TlsPut(a, q, w, y, b) = y - b.offset
         /\ q.type = "TLS_LE_HIX22" => TlsPut(a, q, w, y, b) = sparc_hix22(w, y - b.offset)
         /\ q.type = "TLS_LE_LOX10" => TlsPut(a, q, w, y, b) = sparc_lox10(w, y - b.offset)
<1>1. Bias(a) = 0 /\ ld_so_tpoff(a, q, y, b.offset) = y - b.offset
  BY DEF Bias, ld_so_tpoff, Ppc, Mips, Sparcs
<1>2. /\ q.type \in SparcMod \union SparcDtp \union SparcTp \union SparcLe
      /\ q.type \in SparcMod <=> q.type \in DtpMod
      /\ q.type \in SparcDtp <=> q.type \in DtpOff
      /\ q.type \in Partial <=> q.type \in SparcLe
  BY SparcTlsKinds
<1>3. y - 0 = y /\ y - b.offset \in Int
  OBVIOUS
<1> DEFINE k == y - b.offset
<1>4. /\ q.type \in SparcMod => TlsPut(a, q, w, y, b) = b.modid
      /\ q.type \in SparcDtp => TlsPut(a, q, w, y, b) = ld_so_insert(q.type, w, y)
      /\ q.type \in SparcTp \union SparcLe => TlsPut(a, q, w, y, b) = ld_so_insert(q.type, w, k)
  BY <1>1, <1>2, <1>3 DEF TlsPut, SparcMod, SparcDtp, SparcTp, SparcLe
<1>5. k \in Int
  BY <1>3
<1> HIDE DEF k
<1>6. \A t, v : v \in Int /\ t \notin Partial => ld_so_insert(t, w, v) = v
  BY WholeInsert
<1>7. q.type \in SparcDtp => TlsPut(a, q, w, y, b) = y
  BY <1>2, <1>4, <1>6 DEF SparcDtp, SparcLe
<1>8. q.type \in SparcTp => TlsPut(a, q, w, y, b) = k
  BY <1>2, <1>4, <1>5, <1>6 DEF SparcTp, SparcLe
<1>9. ld_so_insert("TLS_LE_HIX22", w, k) = sparc_hix22(w, k)
        /\ ld_so_insert("TLS_LE_LOX10", w, k) = sparc_lox10(w, k)
  <2>1. (k % 1024) + 7168 = 7168 + (k % 1024)
    BY <1>5
  <2> QED BY <2>1 DEF ld_so_insert, sparc_hix22, sparc_lox10, Predicted, ppc_Predicted,
             ppc64_Higher
<1> QED BY <1>4, <1>7, <1>8, <1>9 DEF k, SparcLe

(* sparc, sparc64: the word of a TLS relocation.  prelink adds the addend  *)
(* twice: not of one with an addend.                                       *)
LEMMA SparcTlsWord ==
  ASSUME NEW a \in Sparcs, NEW g, NEW q, NEW o, NEW s, NEW z, Scene(a, g, q, o, s, z),
             q.type \in SparcTls(a), q.addend = 0,
         NEW c, NEW d, NEW x, x = At(q, q.base, d), TlsSym(q, s, c, x, Block(d)),
         NEW cfl, cfl = ConflictRel(a, z, c, Block("self")), cfl.ok
  PROVE  Out(a, q, cfl) = ld_so_relocate(a, q, q.base, d)
<1> DEFINE width == IF q.type \in SparcLe THEN 4 ELSE q.class
<1>1. /\ q \in Relocs /\ g \in Relocs /\ z \in Relocs /\ q.rela /\ LdType(a, q)
      /\ g.type = q.type /\ z.type = q.type /\ z.exec = q.exec /\ o.type = q.type
           /\ g.exec = q.exec
      /\ q.exec \in BOOLEAN
      /\ q.class = IF a = "sparc" THEN 4 ELSE 8
      /\ g.mem.val \in Int /\ z.mem.val \in Int
  <2>1. q.class = ld_class(a) /\ z.mem.val \in Int
    BY SceneFacts, KinFacts DEF Scene
  <2>2. ld_class(a) = IF a = "sparc" THEN 4 ELSE 8
    BY DEF ld_class, Sparcs
  <2> QED BY <2>1, <2>2, SceneFacts
<1>2. /\ q.type \in SparcMod \union SparcDtp \union SparcTp \union SparcLe
      /\ q.type \in SparcMod <=> q.type \in DtpMod
      /\ q.type \in SparcDtp <=> q.type \in DtpOff
      /\ q.type \in SparcTp \union SparcLe <=> q.type \in TpOff
      /\ q.type \notin ppc64_Ds /\ q.type \notin Addr \union Slot
  BY SparcTlsKinds
<1>2a. a \in RelaArchs
  BY DEF Sparcs, RelaArchs, Names, RelArchs, Mips
<1>3. g.addend = 0 /\ z.addend = 0
  BY <1>2, SceneFacts
<1>4. ld_width(a, q) = width
  <2>1. q.type \in Tls
    BY <1>2 DEF Tls
  <2> QED BY <1>2, <2>1 DEF ld_width, SparcMod, SparcDtp, SparcTp, SparcLe, Slot, s390_Half,
             s390_Dbl16, ppc_Half, ppc_Low, ppc_DtpRel16, ppc_TpRel16, ppc64_Ds, ppc64_Higher,
             mips_Got, mips_Global, mips_Undefined, mips_Defined
<1>5. x \in Int /\ s.val \in Int /\ s.tlsoffset \in Int
  BY DEF TlsSym, Syms
<1>6. \A w \in Int, y \in Int : \A b : b.offset \in Int =>
         /\ q.type \in SparcMod => TlsPut(a, q, w, y, b) = b.modid
         /\ q.type \in SparcDtp => TlsPut(a, q, w, y, b) = y
         /\ q.type \in SparcTp => TlsPut(a, q, w, y, b) = y - b.offset
         /\ q.type = "TLS_LE_HIX22" => TlsPut(a, q, w, y, b) = sparc_hix22(w, y - b.offset)
         /\ q.type = "TLS_LE_LOX10" => TlsPut(a, q, w, y, b) = sparc_lox10(w, y - b.offset)
  BY SparcTlsPut
<1>7. Calm(q) /\ \A y : ld_so_calls(a, q, y) = 0
  <2>1. KinA(a, q, o) /\ FormA(a, o) /\ q.type \notin Slot
    BY <1>2 DEF Scene
  <2>2. Calm(q)
    BY <2>1, SparcCalm
  <2> QED BY <2>2, CalmCalls
<1>8. q.exec => q.type \in TpOff
  <2>1. q.exec => q.type \notin DtpMod \union DtpOff
    BY <1>1, <1>2 DEF LdType, ld_exec_types, Sparcs, Mips, SparcMod, SparcDtp, SparcTp, SparcLe
  <2> QED BY <1>2, <2>1
<1>9. InPlace(q, c) => PutTls(a, g, q, s)
  <2> SUFFICES ASSUME InPlace(q, c), s.isTls
               PROVE  PrelinkRel(a, g, s).mem
                        = [width |-> ld_width(a, q),
                           val |-> TlsPut(a, q, g.mem.val, s.val + q.addend, [modid |-> s.modid, offset |-> s.tlsoffset])]
    BY DEF PutTls
  <2> DEFINE b == [modid |-> s.modid, offset |-> s.tlsoffset]
             y == s.val + q.addend
             u == TlsPut(a, q, g.mem.val, y, b)
             m == s.val + g.addend
  <2>1. y \in Int /\ b.offset = s.tlsoffset /\ m = y /\ m + g.addend = y
          /\ m + g.addend - s.tlsoffset = y - s.tlsoffset
    BY <1>3, <1>5
  <2>2. /\ q.type \in SparcDtp => u = y
        /\ q.type \in SparcTp => u = y - s.tlsoffset
        /\ q.type = "TLS_LE_HIX22" => u = sparc_hix22(g.mem.val, y - s.tlsoffset)
        /\ q.type = "TLS_LE_LOX10" => u = sparc_lox10(g.mem.val, y - s.tlsoffset)
    <3> HIDE DEF b, y
    <3> QED BY <1>1, <1>5, <1>6, <2>1
  <2>3. m = s.val + g.addend
    OBVIOUS
  <2> HIDE DEF u, y, m
  <2>4. PrelinkRel(a, g, s) = Put(g, width, u)
    <3>1. q.type \in SparcDtp \/ (q.exec /\ q.type \in SparcTp \union SparcLe)
      BY <1>2, <1>8 DEF InPlace
    <3>2. CASE a = "sparc"
      <4>1. PrelinkRel(a, g, s) = sparc_prelink_rela(g, s)
        BY <3>2 DEF PrelinkRel, X86_64, Ppc, Mips
      <4>2. sparc_prelink_rela(g, s) = Put(g, width, u)
        BY <1>1, <2>1, <2>2, <2>3, <3>1, <3>2 DEF sparc_prelink_rela, SparcDtp, SparcTp,
           SparcLe, SparcTls, sparc_Tls
      <4> QED BY <4>1, <4>2
    <3>3. CASE a = "sparc64"
      <4>1. PrelinkRel(a, g, s) = sparc64_prelink_rela(g, s)
        BY <3>3 DEF PrelinkRel, X86_64, Ppc, Mips
      <4>2. sparc64_prelink_rela(g, s) = Put(g, width, u)
        BY <1>1, <2>1, <2>2, <2>3, <3>1, <3>3 DEF sparc64_prelink_rela, SparcDtp, SparcTp,
           SparcLe, SparcTls, sparc64_Tls, sparc64_Insns
      <4> QED BY <4>1, <4>2
    <3> QED BY <3>2, <3>3 DEF Sparcs
  <2> HIDE DEF width
  <2>5. PrelinkRel(a, g, s).mem = [width |-> ld_width(a, q), val |-> u]
    BY <1>1, <1>4, <2>4, PutMem
  <2> QED BY <2>5 DEF u, y
<1> DEFINE e == IF a = "sparc" THEN sparc_prelink_conflict_rela(z, c, Block("self"))
             ELSE sparc64_prelink_conflict_rela(z, c, Block("self"))
<1>10. ConflictRel(a, z, c, Block("self")) = e
  BY DEF ConflictRel, X86_64, Ppc, Mips, Sparcs
<1>11. ~ c.ifunc /\ c.found \in BOOLEAN /\ c.same \in BOOLEAN /\ (q.exec => ~ c.found)
  BY DEF TlsSym
<1>12. OutTls(a, q, z, c, cfl)
  <2>1. CASE InPlace(q, c)
    <3>1. e = None
      BY <1>1, <1>2, <1>11, <2>1 DEF sparc_prelink_conflict_rela, sparc64_prelink_conflict_rela,
         InPlace, SparcDtp, SparcTls, sparc_Tls, sparc64_Tls
    <3> QED BY <1>10, <2>1, <3>1 DEF OutTls
  <2>2. CASE ~ InPlace(q, c)
    <3> DEFINE b == ConflictTls(c, Block("self"))
               y == ConflictValue(c) + q.addend
               u == TlsPut(a, q, z.mem.val, y, b)
    <3>1. ~ q.exec /\ ~ (q.type \in SparcDtp /\ c.found /\ c.same) /\ z.exec = FALSE
      BY <1>1, <1>2, <2>2 DEF InPlace
    <3>2. /\ ConflictValue(c) = x /\ b.offset \in Int /\ (c.found => c.isTls)
               /\ (q.type \in SparcDtp => c.found)
      BY <1>2, <3>1 DEF TlsSym
    <3>3. Block("self").modid # 0
      BY DEF Block
    <3>4. y \in Int /\ ConflictValue(c) + z.addend = y /\ ConflictTls(c, Block("self")) = b
      BY <1>3, <1>5, <3>2
    <3>5. /\ q.type \in SparcMod => u = b.modid
          /\ q.type \in SparcDtp => u = y
          /\ q.type \in SparcTp => u = y - b.offset
          /\ q.type = "TLS_LE_HIX22" => u = sparc_hix22(z.mem.val, y - b.offset)
          /\ q.type = "TLS_LE_LOX10" => u = sparc_lox10(z.mem.val, y - b.offset)
      <4> HIDE DEF b, y
      <4> QED BY <1>1, <1>6, <3>2, <3>4
    <3> HIDE DEF b, y, u
    <3>6. e = Entry(IF width = 4 THEN "32" ELSE "64", u)
      <4>1. CASE a = "sparc"
        BY <1>1, <1>11, <3>1, <3>2, <3>3, <3>4, <3>5, <4>1 DEF sparc_prelink_conflict_rela,
           SparcMod, SparcDtp, SparcTp, SparcLe, SparcTls, sparc_Tls
      <4>2. CASE a = "sparc64"
        BY <1>1, <1>11, <3>1, <3>2, <3>3, <3>4, <3>5, <4>2 DEF sparc64_prelink_conflict_rela,
           SparcMod, SparcDtp, SparcTp, SparcLe, SparcTls, sparc64_Tls, sparc64_Insns
      <4> QED BY <4>1, <4>2 DEF Sparcs
    <3>7. width \in {4, 8}
      BY <1>1
    <3> HIDE DEF e, width
    <3>8. \A v : Out(a, q, Entry("32", v)) = Word(4, v, 0)
            /\ Out(a, q, Entry("64", v)) = Word(8, v, 0)
      BY <1>7, OutEntry DEF Singles, Doubles
    <3>9. Out(a, q, cfl) = Word(ld_width(a, q), u, 0)
      BY <1>4, <1>10, <3>6, <3>7, <3>8
    <3> QED BY <2>2, <3>9 DEF OutTls, u, y, b
  <2> QED BY <2>1, <2>2
<1>13. q.type \in DtpOff \union TpOff \union DtpMod
  BY <1>2
<1> HIDE DEF e
<1> QED BY <1>2, <1>2a, <1>7, <1>8, <1>9, <1>12, <1>13, TlsOut, ZenonT(40)

(* sparc, sparc64: there is one type of PLT slots.                         *)
LEMMA SparcSlotType ==
  ASSUME NEW a \in Sparcs, NEW q, LdType(a, q), q.type \in Slot
  PROVE  q.type = "JMP_SLOT"
  BY SparcTypes DEF Slot, Sparc64Plain, SparcWhole, SparcDisp, sparc64_Insns, SparcTls,
     sparc_Tls, sparc64_Tls

(* sparc, sparc64: the function that the code of a PLT slot calls.         *)
LEMMA SparcSlot ==
  ASSUME NEW a \in Sparcs, NEW g, NEW q, NEW o, NEW s, NEW z, Scene(a, g, q, o, s, z),
             q.type \in Slot, a = "sparc64" => q.addend = 0,
         NEW c, NEW d, NEW x, x = At(q, q.base, d), PlainSym(q, s, c, x), ~ c.ifunc,
         NEW cfl, cfl = ConflictRel(a, z, c, Block("self")), cfl.ok
  PROVE  Out(a, q, cfl) = ld_so_relocate(a, q, q.base, d)
<1>1. /\ q \in Relocs /\ g \in Relocs /\ z \in Relocs /\ q.rela /\ LdType(a, q)
           /\ o.type = q.type
      /\ g.type = q.type /\ z.type = q.type /\ z.exec = q.exec /\ q.exec \in BOOLEAN
      /\ P(q) \in Int /\ P(g) = P(q)
  BY SceneFacts
<1>2. q.type = "JMP_SLOT"
  BY <1>1, SparcSlotType
<1>3. q.addend = 0 /\ z.addend = 0 /\ g.addend = 0 /\ q.code # NoCode /\ g.code # NoCode
        /\ z.code # NoCode
  <2>1. o.type \in Slot /\ o.type \notin Addr
    BY <1>1, SlotTypes
  <2>2. SlotKin(a, q, o) /\ SlotKin(a, z, o) /\ SlotKin(a, g, o)
    BY <1>1, <2>1 DEF Scene, KinA
  <2>3. o.addend = 0
    <3>1. CASE a = "sparc"
      BY <2>1, <3>1 DEF Scene, FormA, LdAddends
    <3>2. CASE a = "sparc64"
      BY <1>1, <2>2, <3>2, FarFacts DEF SlotKin
    <3> QED BY <3>1, <3>2 DEF Sparcs
  <2>4. o.code = Lazy /\ Lazy # NoCode
    BY <2>1, <2>3 DEF Scene, FormA, LdCode, Lazy, NoCode, Sparcs
  <2> QED BY <2>2, <2>3, <2>4 DEF SlotKin, Sparcs
<1>3a. a # "alpha" /\ a # "ppc64"
  BY DEF Sparcs
<1>5. x \in Int /\ s.val \in Int /\ c.val \in Int
  BY DEF PlainSym, Syms
<1>6. ld_so_relocate(a, q, q.base, d) = Word(q.mem.width, q.mem.val, x)
  <2>1. ld_so_addend(a, q) = 0
    BY <1>1, <1>3 DEF ld_so_addend
  <2>2. At(q, q.base, d) + ld_so_addend(a, q) = x
    BY <1>5, <2>1
  <2>3. ld_so_relocate(a, q, q.base, d)
          = Word(q.mem.width, q.mem.val, At(q, q.base, d) + ld_so_addend(a, q))
    BY <1>3, <1>3a, RelocateCode
  <2> QED BY <2>2, <2>3
<1> DEFINE v == s.val + 0
           code == IF Near(v - P(q)) THEN Direct(v - P(q)) ELSE Absolute(v)
<1>7. q.code = code
  <2>1. PrelinkRel(a, g, s) = IF a = "sparc" THEN sparc_prelink_rela(g, s)
          ELSE sparc64_prelink_rela(g, s)
    BY DEF PrelinkRel, X86_64, Ppc, Mips, Sparcs
  <2>2. sparc_prelink_rela(g, s) = [g EXCEPT !.code = code]
          /\ sparc64_prelink_rela(g, s) = [g EXCEPT !.code = code]
    BY <1>1, <1>2, <1>3 DEF sparc_prelink_rela, sparc_fixup_plt, sparc64_prelink_rela,
       sparc64_fixup_plt, sparc64_Insns
  <2> HIDE DEF code
  <2>3. [g EXCEPT !.code = code].code = code
    BY <1>1 DEF Relocs
  <2> QED BY <2>1, <2>2, <2>3 DEF Scene
<1>8. v = s.val /\ v \in Int
  BY <1>5
<1> HIDE DEF v
<1>9. \A y : ld_so_calls(a, q, y) = v
  <2>1. P(q) + (v - P(q)) = v
    BY <1>1, <1>8
  <2>2. \A k : /\ Direct(k).how = "direct" /\ Direct(k).to = k
               /\ Absolute(k).how = "absolute" /\ Absolute(k).to = k
    BY DEF Direct, Absolute
  <2>3. CASE Near(v - P(q))
    <3>1. q.code.how = "direct" /\ q.code.to = v - P(q)
      BY <1>7, <2>2, <2>3
    <3> QED BY <2>1, <3>1 DEF ld_so_calls, Sparcs
  <2>4. CASE ~ Near(v - P(q))
    <3>1. q.code.how = "absolute" /\ q.code.to = v
      BY <1>7, <2>2, <2>4
    <3> QED BY <3>1 DEF ld_so_calls, Sparcs
  <2> QED BY <2>3, <2>4
<1> HIDE DEF code
<1> DEFINE e == IF a = "sparc" THEN sparc_prelink_conflict_rela(z, c, Block("self"))
             ELSE sparc64_prelink_conflict_rela(z, c, Block("self"))
<1>10. ConflictRel(a, z, c, Block("self")) = e
  BY DEF ConflictRel, X86_64, Ppc, Mips, Sparcs
<1>11. CASE ~ c.found
  <2>1. cfl = None
    BY <1>1, <1>2, <1>10, <1>11 DEF sparc_prelink_conflict_rela, sparc64_prelink_conflict_rela,
       sparc_Tls, sparc64_Tls
  <2>2. s.val = x
    BY <1>11 DEF PlainSym
  <2> QED BY <1>6, <1>8, <1>9, <2>1, <2>2, OutNone
<1>12. CASE c.found
  <2>1. c.val = x /\ ~ q.exec
    BY <1>12 DEF PlainSym
  <2>2. e = Entry("JMP_SLOT", c.val + 0)
    BY <1>1, <1>2, <1>3, <1>12, <2>1 DEF sparc_prelink_conflict_rela,
       sparc64_prelink_conflict_rela, ConflictValue, sparc_Tls, sparc64_Tls, sparc64_Insns
  <2> HIDE DEF e
  <2>3. c.val + 0 = c.val
    BY <1>5
  <2>4. \A y : Out(a, q, Entry("JMP_SLOT", y)) = Word(q.mem.width, q.mem.val, y)
    BY <1>3, <1>3a, OutEntry DEF Slot
  <2> QED BY <1>6, <1>10, <2>1, <2>2, <2>3, <2>4
<1> QED BY <1>11, <1>12

(* sparc64: a slot far into the PLT, which has the distance in a word.     *)
LEMMA SparcFarSlot ==
  ASSUME NEW a, a = "sparc64", NEW g, NEW q, NEW o, NEW s, NEW z, Scene(a, g, q, o, s, z),
             q.type \in Slot, q.addend # 0,
         NEW c, NEW d, NEW x, x = At(q, q.base, d), PlainSym(q, s, c, x), ~ c.ifunc,
         NEW cfl, cfl = ConflictRel(a, z, c, Block("self")), cfl.ok
  PROVE  Out(a, q, cfl) = ld_so_relocate(a, q, q.base, d)
<1> DEFINE n == q.addend
<1>1. /\ q \in Relocs /\ g \in Relocs /\ z \in Relocs /\ q.rela /\ LdType(a, q)
           /\ o.type = q.type
      /\ g.type = q.type /\ z.type = q.type /\ z.exec = q.exec /\ q.exec \in BOOLEAN
           /\ q.class = 8
      /\ q.addend \in Int /\ q.base \in Int
  BY SceneFacts DEF ld_class
<1>2. q.type = "JMP_SLOT"
  BY <1>1, SparcSlotType DEF Sparcs
<1>3. z.addend = n /\ g.addend = n /\ q.code = NoCode
  <2>1. o.type \in Slot /\ o.type \notin Addr
    BY <1>1, SlotTypes
  <2>2. SlotKin(a, q, o) /\ SlotKin(a, z, o) /\ SlotKin(a, g, o)
    BY <1>1, <2>1 DEF Scene, KinA
  <2>3. o.addend # 0
    BY <2>2 DEF SlotKin
  <2>4. o.code = NoCode
    BY <2>1, <2>3 DEF Scene, FormA, LdCode
  <2>5. sparc64_far(z) = sparc64_far(q) /\ sparc64_far(g) = sparc64_far(q)
    <3>1. z.base = q.base /\ g.base = q.base /\ z.slot = q.slot /\ g.slot = q.slot
      BY DEF Scene, KinA, Placed
    <3> QED BY <3>1 DEF sparc64_far, Plt
  <2> QED BY <2>2, <2>3, <2>4, <2>5 DEF SlotKin
<1>4. ld_width(a, q) = 8
  BY <1>1, <1>2 DEF ld_width, Slot, s390_Half, s390_Dbl16, ppc_Half, ppc_Low, ppc_DtpRel16,
     ppc_TpRel16, ppc64_Ds, ppc64_Higher
<1>5. x \in Int /\ s.val \in Int /\ c.val \in Int
  BY DEF PlainSym, Syms
<1>6. ld_so_relocate(a, q, q.base, d) = Word(8, x + n, 0)
  <2>1. ld_so_addend(a, q) = n
    BY <1>1 DEF ld_so_addend
  <2>2. (At(q, q.base, d) + ld_so_addend(a, q)) - (q.base - q.base) = x + n
    BY <1>1, <1>5, <2>1
  <2> QED BY <1>3, <1>4, <2>2, RelocateSlot
<1>7. q.mem = [width |-> 8, val |-> s.val + n]
  <2>1. PrelinkRel(a, g, s) = sparc64_prelink_rela(g, s)
    BY DEF PrelinkRel, X86_64, Ppc, Mips
  <2>2. sparc64_prelink_rela(g, s) = Put(g, 8, s.val + n)
    BY <1>1, <1>2, <1>3 DEF sparc64_prelink_rela, sparc64_fixup_plt, sparc64_Insns
  <2> QED BY <1>1, <2>1, <2>2, PutMem DEF Scene
<1>8. \A y : ld_so_calls(a, q, y) = 0
  BY <1>3, CalmCalls DEF Calm, NoCode
<1> DEFINE e == sparc64_prelink_conflict_rela(z, c, Block("self"))
<1>9. ConflictRel(a, z, c, Block("self")) = e
  BY DEF ConflictRel, X86_64, Ppc, Mips
<1>10. CASE ~ c.found
  <2>1. cfl = None
    BY <1>1, <1>2, <1>9, <1>10 DEF sparc64_prelink_conflict_rela, sparc64_Tls
  <2>2. s.val = x
    BY <1>10 DEF PlainSym
  <2> QED BY <1>6, <1>7, <1>8, <2>1, <2>2, OutNone
<1>11. CASE c.found
  <2>1. c.val = x /\ ~ q.exec
    BY <1>11 DEF PlainSym
  <2>2. e = Entry("64", c.val + n)
    BY <1>1, <1>2, <1>3, <1>11, <2>1 DEF sparc64_prelink_conflict_rela, ConflictValue,
       sparc64_Tls, sparc64_Insns
  <2> HIDE DEF e
  <2>3. \A v : Out(a, q, Entry("64", v)) = Word(8, v, 0)
    BY <1>8, OutEntry DEF Doubles
  <2> QED BY <1>6, <1>9, <2>1, <2>2, <2>3
<1> QED BY <1>10, <1>11

(* sparc, sparc64: the relocations without a symbol.                       *)
LEMMA SparcLocal ==
  ASSUME NEW a \in Sparcs, NEW g, NEW q, NEW o, NEW s, NEW z, Scene(a, g, q, o, s, z),
             q.type \in NoSymbol,
         NEW d, NEW cfl, cfl = ConflictRel(a, z, NoConflict, Block("self"))
  PROVE  Out(a, q, cfl) = ld_so_relocate(a, q, q.base, d)
<1>1. /\ q \in Relocs /\ g \in Relocs /\ z \in Relocs /\ q.rela /\ LdType(a, q)
           /\ o.type = q.type
      /\ g.type = q.type /\ z.type = q.type /\ q.base = g.base /\ q.base \in Nat
           /\ q.class = ld_class(a)
  BY SceneFacts, KinFacts DEF Scene
<1>1a. ld_class(a) = IF a = "sparc" THEN 4 ELSE 8
  BY DEF ld_class, Sparcs
<1>2. q.type \in {"NONE", "COPY", "RELATIVE"}
  BY <1>1, SparcTypes
<1>3. ~ NoConflict.found /\ ~ NoConflict.ifunc
  BY NoConflictIs
<1>4. ConflictRel(a, z, NoConflict, Block("self"))
        = IF a = "sparc" THEN sparc_prelink_conflict_rela(z, NoConflict, Block("self"))
          ELSE sparc64_prelink_conflict_rela(z, NoConflict, Block("self"))
  BY DEF ConflictRel, X86_64, Ppc, Mips, Sparcs
<1>5. cfl = None
  BY <1>1, <1>2, <1>3, <1>4 DEF sparc_prelink_conflict_rela, sparc64_prelink_conflict_rela,
     sparc_Tls, sparc64_Tls
<1>6. Target(q) \in Int /\ Target(q) # 0 /\ Target(g) = Target(q)
  BY <1>1 DEF Target
<1>7. ASSUME q.type = "RELATIVE" PROVE q.mem = [width |-> q.class, val |-> Target(q)]
             /\ (a = "sparc" => q.addend = 0)
  <2>1. AddrKin(a, g, o)
    BY <1>1, <1>7 DEF Scene, KinA, Addr
  <2>2. CASE a = "sparc"
    <3>1. g.addend \in {0, Target(q)} /\ g.mem = [width |-> 4, val |-> Target(q) - g.addend]
      BY <1>6, <2>1, <2>2 DEF AddrKin
    <3>2. PrelinkRel(a, g, s) = sparc_prelink_rela(g, s)
      BY <2>2 DEF PrelinkRel, X86_64, Ppc, Mips
    <3>3. CASE g.addend = 0
      <4>1. sparc_prelink_rela(g, s) = g
        BY <1>1, <1>7, <3>3 DEF sparc_prelink_rela
      <4>2. Target(q) - 0 = Target(q)
        BY <1>6
      <4>3. q.mem = g.mem /\ q.addend = g.addend
        BY <3>2, <4>1 DEF Scene
      <4> QED BY <1>1, <1>1a, <2>2, <3>1, <3>3, <4>2, <4>3
    <3>4. CASE g.addend # 0
      <4>1. g.mem.val + g.addend = Target(q)
        BY <1>6, <3>1, <3>4
      <4> DEFINE h == [g EXCEPT !.addend = 0]
      <4>2. sparc_prelink_rela(g, s) = Put(h, 4, Target(q))
        BY <1>1, <1>7, <3>4, <4>1 DEF sparc_prelink_rela
      <4>3. h \in Relocs /\ h.addend = 0
        BY <1>1 DEF Relocs
      <4> HIDE DEF h
      <4>4. Put(h, 4, Target(q)).mem = [width |-> 4, val |-> Target(q)]
        BY <4>3, PutMem
      <4>5. Put(h, 4, Target(q)).addend = 0
        BY <4>3 DEF Put, Relocs
      <4>6. q.mem = Put(h, 4, Target(q)).mem /\ q.addend = Put(h, 4, Target(q)).addend
        BY <3>2, <4>2 DEF Scene
      <4> QED BY <1>1, <1>1a, <2>2, <4>4, <4>5, <4>6
    <3> QED BY <3>3, <3>4
  <2>3. CASE a = "sparc64"
    <3>1. g.addend = Target(q)
      BY <1>6, <2>1, <2>3 DEF AddrKin
    <3>2. PrelinkRel(a, g, s) = sparc64_prelink_rela(g, s)
      BY <2>3 DEF PrelinkRel, X86_64, Ppc, Mips
    <3>3. sparc64_prelink_rela(g, s) = Put(g, 8, Target(q))
      BY <1>1, <1>7, <3>1 DEF sparc64_prelink_rela, sparc64_Insns
    <3> QED BY <1>1, <1>1a, <2>3, <3>2, <3>3, PutMem DEF Scene
  <2> QED BY <2>2, <2>3 DEF Sparcs
<1>8. Calm(q) /\ KinA(a, q, o) /\ FormA(a, o)
  <2>1. q.type \notin Slot
    BY <1>2 DEF Slot
  <2>2. KinA(a, q, o) /\ FormA(a, o)
    BY DEF Scene
  <2> QED BY <2>1, <2>2, SparcCalm
<1>9. a \in RelaArchs /\ q.type \notin {"IRELATIVE", "JMP_IREL"}
  BY <1>2 DEF Sparcs, RelaArchs, Names, RelArchs, Mips
<1> QED BY <1>5, <1>7, <1>8, <1>9, LocalOut

(* sparc, sparc64: prelinking and the conflict make the word that ld.so    *)
(* makes of the relocation.                                                *)
LEMMA SparcWordIs ==
  ASSUME NEW a \in Sparcs, NEW g, NEW q, NEW o, NEW s, NEW z, Scene(a, g, q, o, s, z),
         NEW c, NEW d, Viewed(a, q, o, s, c, d), NEW cfl,
               cfl = ConflictRel(a, z, c, Block("self")), cfl.ok,
         q.type \in Tls => q.addend = 0
  PROVE  Out(a, q, cfl) = ld_so_relocate(a, q, q.base, d)
<1>1. LdType(a, q) /\ o.type = q.type
  BY SceneFacts
<1>2. /\ q.type \in {"NONE", "COPY", "RELATIVE", "JMP_SLOT"} \union Sparc64Plain
           \union SparcTls(a)
      /\ a = "sparc" => q.type \in {"NONE", "COPY", "RELATIVE", "JMP_SLOT"} \union SparcPlain
           \union SparcTls(a)
      /\ q.type \in NoSymbol <=> q.type \in {"NONE", "COPY", "RELATIVE"}
      /\ q.type \in Tls <=> q.type \in SparcTls(a)
  BY <1>1, SparcTypes
<1>3. CASE q.type \in NoSymbol
  BY <1>3, SparcLocal DEF Viewed
<1>4. CASE q.type \in SparcTls(a)
  <2>1. TlsSym(q, s, c, At(q, q.base, d), Block(d)) /\ q.addend = 0
    BY <1>2, <1>4 DEF Viewed
  <2> QED BY <1>4, <2>1, SparcTlsWord
<1>5. CASE q.type \notin NoSymbol /\ q.type \notin SparcTls(a)
  <2>1. PlainSym(q, s, c, At(q, q.base, d)) /\ (c.ifunc => IfuncFits(a, o))
    BY <1>2, <1>5 DEF Viewed
  <2>2. ~ c.ifunc
    BY <2>1 DEF IfuncFits, Sparcs, X86_64, RelArchs, Mips, Ppc
  <2>3. CASE q.type \in Sparc64Plain
    <3>1. a = "sparc" => q.type \in SparcPlain
      BY <1>2, <1>5, <2>3 DEF Sparc64Plain, SparcWhole, SparcDisp, sparc64_Insns
    <3> QED BY <2>1, <2>2, <2>3, <3>1, SparcWords
  <2>4. CASE q.type \in Slot
    <3>1. CASE a = "sparc64" => q.addend = 0
      BY <2>1, <2>2, <2>4, <3>1, SparcSlot
    <3>2. CASE ~ (a = "sparc64" => q.addend = 0)
      BY <2>1, <2>2, <2>4, <3>2, SparcFarSlot
    <3> QED BY <3>1, <3>2
  <2> QED BY <1>2, <1>5, <2>3, <2>4 DEF Slot
<1> QED BY <1>3, <1>4, <1>5

-----------------------------------------------------------------------------
(* All of them, and the theorem.                                           *)

(* The complement of WrongWord, for one relocation and its conflict: what  *)
(* the back ends compute as ld.so does.                                    *)
Right(a, q, o, rela) ==
  /\ ~ (a = "alpha" /\ q.type = "JMP_SLOT" /\ q.addend # o.addend)
  /\ ~ (a = "sh" /\ q.type = "REL32")
  /\ ~ (a \in {"sparc", "sparc64"} /\ q.type \in Tls /\ q.addend # 0)
  /\ q.type \notin ppc64_Ds
  /\ ~ (rela # << >> /\ ((a = "sh" /\ q.addend # 0) \/ q.type = "ADDR14_BRTAKEN"))

(* The architectures with RELA relocations.                                *)
LEMMA RelaNames ==
  ASSUME NEW a \in RelaArchs
  PROVE  a \in X86_64 \/ a \in S390 \/ a = "sh" \/ a = "alpha" \/ a \in Ppc \/ a = "ppc64"
           \/ a \in Sparcs
  BY DEF RelaArchs, Names, RelArchs, S390, Sparcs

(* TLS lookups are those for TLS relocations.                              *)
LEMMA TlsTypes ==
  ASSUME NEW a \in RelaArchs, NEW q, LdType(a, q)
  PROVE  RelocClass(a, q.type) = "TLS" <=> q.type \in Tls
<1>1. CASE a \in X86_64
  BY <1>1, X8664Types
<1>2. CASE a \in S390
  BY <1>2, S390Types
<1>3. CASE a = "sh"
  BY <1>3, ShTypes
<1>4. CASE a = "alpha"
  BY <1>4, AlphaTypes
<1>5. CASE a \in Ppc
  BY <1>5, PpcTypes
<1>6. CASE a = "ppc64"
  BY <1>6, Ppc64Class
<1>7. CASE a \in Sparcs
  BY <1>7, SparcTypes
<1> QED BY <1>1, <1>2, <1>3, <1>4, <1>5, <1>6, <1>7, RelaNames

(* On every architecture with RELA relocations prelinking and the conflict *)
(* make the word that ld.so makes of the relocation.                       *)
LEMMA WordA ==
  ASSUME NEW a \in RelaArchs, NEW g, NEW q, NEW o, NEW s, NEW z, Scene(a, g, q, o, s, z),
             Bare(o),
         NEW c, NEW d, Viewed(a, q, o, s, c, d), NEW cfl,
               cfl = ConflictRel(a, z, c, Block("self")), cfl.ok,
         Right(a, q, o, cfl.rela)
  PROVE  Out(a, q, cfl) = ld_so_relocate(a, q, q.base, d)
<1>1. CASE a \in X86_64
  BY <1>1, X8664Word
<1>2. CASE a \in S390
  BY <1>2, S390Word
<1>3. CASE a = "sh"
  <2>1. q.type # "REL32" /\ (cfl.rela # << >> => q.addend = 0)
    BY <1>3 DEF Right
  <2> QED BY <1>3, <2>1, ShWord
<1>4. CASE a = "alpha"
  <2>1. q.type = "JMP_SLOT" => q.addend = o.addend
    BY <1>4 DEF Right
  <2> QED BY <1>4, <2>1, AlphaWord
<1>5. cfl.rela # << >> => q.type # "ADDR14_BRTAKEN"
  BY DEF Right
<1>6. CASE a \in Ppc
  BY <1>5, <1>6, PpcWordIs
<1>7. CASE a = "ppc64"
  <2>1. q.type \notin ppc64_Ds
    BY DEF Right
  <2> QED BY <1>5, <1>7, <2>1, Ppc64WordIs
<1>8. CASE a \in Sparcs
  <2>1. q.type \in Tls => q.addend = 0
    BY <1>8 DEF Right, Sparcs
  <2> QED BY <1>8, <2>1, SparcWordIs
<1> QED BY <1>1, <1>2, <1>3, <1>4, <1>6, <1>7, <1>8, RelaNames

(* Prelinking sets the scene.                                              *)
LEMMA PrelinkedScene ==
  ASSUME arch \in RelaArchs, NEW p, NEW o, KinA(arch, p, o), FormA(arch, o),
         p.got \in {0, GotOf(arch, p)},
         NEW d, NEW s, s = Resolve(p, d), s \in Syms, NEW q, q = Prelinked(p, d), NEW z,
               KinA(arch, z, o),
         z.base = p.base, ~ q.exec => z = q
  PROVE  /\ \E g : Scene(arch, g, q, o, s, z)
         /\ KinA(arch, q, o) /\ q.base = p.base
<1> DEFINE g == ArchPrePrelink(arch, p)
           m == PrelinkRel(arch, g, s)
<1>1. q = ArchPrelink(arch, m, s)
  BY DEF Prelinked
<1>2. KinA(arch, q, o) /\ q.base = p.base
  BY <1>1, PrelinkA
<1>3. g \in {p, [p EXCEPT !.got = Plt(p)]}
  BY DEF ArchPrePrelink, ppc_arch_pre_prelink
<1> HIDE DEF g
<1>4. KinA(arch, g, o) /\ g.base = p.base
  BY <1>3, GotTouched
<1>5. q \in {m, [m EXCEPT !.got = Plt(m)]}
  BY <1>1, ArchCases DEF ArchPrelink, x86_64_arch_prelink, s390_arch_prelink,
     s390x_arch_prelink, sh_arch_prelink, X86_64, Mips
<1>6. q.mem = m.mem /\ q.code = m.code /\ q.addend = m.addend
  <2>1. m \in Relocs
    BY <1>4, WrittenA DEF KinA
  <2> HIDE DEF m
  <2> QED BY <1>5, <2>1 DEF Relocs
<1>7. Scene(arch, g, q, o, s, z)
  BY <1>2, <1>4, <1>6 DEF Scene
<1> QED BY <1>2, <1>7

(* Prelinking with any symbol and a program in which another may be found: *)
(* with the conflict, the word is what ld.so makes of the original.        *)
LEMMA Clear ==
  ASSUME Inv, Bare(orig), arch \in RelaArchs, NEW p, Fit(p, orig),
         NEW d \in OwnSymbols(arch, orig),
         NEW q, q = Prelinked(p, d), NEW e \in GlobalSymbols(arch, orig, d),
         NEW z, KinA(arch, z, orig), z.base = p.base, ~ q.exec => z = q,
         NEW cfl, cfl = ConflictRel(arch, z, ConflictOf(z, d, e), Block("self")), cfl.ok,
         Right(arch, q, orig, cfl.rela)
  PROVE  ld_so_conflicts(arch, q, cfl.rela) = ld_so_relocate(arch, orig, q.base, e)
<1> DEFINE s == Resolve(p, d)
           c == ConflictOf(z, d, e)
<1>1. arch \in Names /\ KinA(arch, p, orig) /\ FormA(arch, orig)
        /\ p.got \in {0, GotOf(arch, p)} /\ arch \notin RelArchs
  BY Known DEF Inv, KinInv, Fit, Kin, Form, RelaArchs
<1>2. s \in Syms
  BY <1>1, Resolved DEF Kin, Form
<1>3. /\ \E g : Scene(arch, g, q, orig, s, z)
      /\ KinA(arch, q, orig) /\ q.base = p.base
  BY <1>1, <1>2, PrelinkedScene
<1>4. PICK g : Scene(arch, g, q, orig, s, z)
  BY <1>3
<1>5. LdType(arch, orig)
  BY <1>1 DEF FormA
<1>6. /\ p \in Relocs /\ q \in Relocs /\ z \in Relocs /\ p.type = orig.type
           /\ q.type = orig.type /\ z.type = orig.type
      /\ p.exec = q.exec /\ z.exec = q.exec /\ orig.exec = q.exec
  BY <1>1, <1>3 DEF KinA, Placed
<1>7. Viewed(arch, q, orig, s, c, e)
  BY <1>3, <1>5, <1>6, TlsTypes, ViewA
<1> HIDE DEF s, c
<1>8. Out(arch, q, cfl) = ld_so_relocate(arch, q, q.base, e)
  BY <1>4, <1>7, WordA DEF c
<1>9. e \in Somebody /\ (orig.type \in Tls => e \in {"local", "self", "other", "exe"})
  BY GlobalIs
<1>10. q.type \notin ppc64_Ds
         /\ (arch = "alpha" /\ q.type = "JMP_SLOT" => q.addend = orig.addend)
  BY DEF Right
<1>11. q.base \in Nat /\ Kin(arch, q, orig) /\ Form(arch, orig)
  BY <1>1, <1>3, <1>6 DEF Relocs, Kin, Form
<1>12. ld_so_relocate(arch, q, q.base, e) = ld_so_relocate(arch, orig, q.base, e)
  BY <1>1, <1>9, <1>10, <1>11, SameWord
<1> QED BY <1>8, <1>12 DEF Out

(* No step gives a GLOB_DAT an addend.                                     *)
BareInv == arch \in RelaArchs => Bare(orig)

(* A prelinked file is one that was fit to be prelinked, after it was      *)
(* prelinked with the symbol that is known of it, unless -r moved it       *)
(* since.                                                                  *)
WordInv == own # "no" /\ ~ moved /\ r.ok => \E p : Fit(p, orig) /\ r = Prelinked(p, own)

(* Transparent, on these architectures.                                    *)
TransInv == arch \in RelaArchs => Transparent

(* ld gives a GLOB_DAT no addend.                                          *)
LEMMA BareInit == Init => BareInv
<1> SUFFICES ASSUME Init, arch \in RelaArchs, orig.type = "GLOB_DAT" PROVE orig.addend = 0
  BY DEF BareInv, Bare
<1>1. arch \in Names /\ r = orig /\ arch \notin RelArchs
  BY DEF Init, RelaArchs
<1>2. PICK q, n : /\ IsBlank(arch, q) /\ n \in ld_addends(arch, q.type, q.base, Addends)
                  /\ r \in ld_words(arch, q, n)
  BY <1>1, BlankOf DEF Init
<1>3. q.type = "GLOB_DAT"
  BY <1>1, <1>2, LinkedSlotA, LinkedOtherA
<1>4. n = 0
  BY <1>2, <1>3 DEF ld_addends, Slot
<1>5. r \in ld_rela_words(arch, q, n)
  BY <1>1, <1>2, <1>3 DEF ld_words, Slot
<1>6. \E v : r = ld_rela(arch, q, v, 0)
  BY <1>3, <1>4, <1>5 DEF ld_rela_words
<1>7. q \in Relocs
  BY <1>2 DEF IsBlank
<1> QED BY <1>1, <1>6, <1>7 DEF ld_rela, ld_rel, Put, Relocs

(* A step keeps that.                                                      *)
LEMMA BareStep ==
  ASSUME Inv, BareInv, [Next]_vars
  PROVE  BareInv'
<1>1. arch' = arch
  BY DEF Next, vars, PrelinkLibrary, PrelinkUser, PrelinkExecutable, Undo, RelocOnly
<1>2. CASE orig' = orig
  BY <1>1, <1>2 DEF BareInv
<1>3. CASE orig' # orig
  <2>1. PICK b \in Bases : RelocOnly(b)
    BY <1>3 DEF Next, vars, PrelinkLibrary, PrelinkUser, PrelinkExecutable, Undo
  <2>2. orig' = Relocated(r, b) /\ ~ r.exec
    BY <1>3, <2>1 DEF RelocOnly
  <2>3. arch \in Names /\ Kin(arch, r, orig) /\ Form(arch, orig) /\ b \in Nat
    BY Known, RelocationAssumption DEF Inv, KinInv
  <2>4. Kin(arch, Relocated(r, b), orig)
    BY <2>2, <2>3, Moved
  <2> SUFFICES ASSUME arch \in RelaArchs, orig'.type = "GLOB_DAT" PROVE orig'.addend = 0
    BY <1>1 DEF BareInv, Bare
  <2>5. KinA(arch, orig', orig)
    BY <2>2, <2>4 DEF Kin, RelaArchs
  <2>6. orig.type = "GLOB_DAT" /\ orig'.addend = orig.addend
    BY <2>5 DEF KinA, Addr, Slot
  <2> QED BY <2>6 DEF BareInv, Bare
<1> QED BY <1>2, <1>3

(* Prelinking establishes WordInv.                                         *)
LEMMA WordPrelinked ==
  ASSUME arch' = arch, mixed' = mixed, orig' = orig, NEW p, NEW d, Fit(p, orig),
         r' = Prelinked(p, d), own' = d
  PROVE  WordInv'
<1>1. (Fit(p, orig))'
  BY DEF Fit
<1>2. r' = (Prelinked(p, own))'
  BY DEF Prelinked, Resolve
<1> QED BY <1>1, <1>2 DEF WordInv

(* A step that leaves the file alone keeps it.                             *)
LEMMA WordSame ==
  ASSUME WordInv, arch' = arch, mixed' = mixed, orig' = orig, r' = r, own' = own, moved' = moved
  PROVE  WordInv'
<1>1. CASE own # "no" /\ ~ moved /\ r.ok
  <2>1. PICK p : Fit(p, orig) /\ r = Prelinked(p, own)
    BY <1>1 DEF WordInv
  <2>2. PICK d : d = own
    OBVIOUS
  <2> QED BY <2>1, <2>2, WordPrelinked
<1>2. CASE ~ (own # "no" /\ ~ moved /\ r.ok)
  BY <1>2 DEF WordInv
<1> QED BY <1>1, <1>2

(* Every step keeps it.                                                    *)
LEMMA WordStep ==
  ASSUME Inv, WordInv, [Next]_vars
  PROVE  WordInv'
<1>1. ASSUME NEW b \in Bases, NEW d \in OwnSymbols(arch, orig), PrelinkLibrary(b, d)
      PROVE  WordInv'
  <2>1. /\ r' = (IF Prelinked(Relocated(Prepared(r), b), d).ok THEN Prelinked(Relocated(Prepared(r), b), d) ELSE Bad(r))
        /\ own' = IF Prelinked(Relocated(Prepared(r), b), d).ok THEN d ELSE own
        /\ arch' = arch /\ mixed' = mixed /\ orig' = orig /\ ~ r.exec
    BY <1>1 DEF PrelinkLibrary
  <2>2. arch \in Names /\ KinInv /\ FreshInv /\ Form(arch, orig) /\ b \in Nat /\ r \in Relocs
    BY Known, KinIs, RelocationAssumption DEF Inv, KinInv
  <2>3. PICK q0 : q0 = Prepared(r)
    OBVIOUS
  <2>4. /\ Fit(q0, orig) /\ q0.exec = r.exec
        /\ own = "no" /\ q0.type = "TLS_DESC" => Form(arch, q0)
        /\ q0.got = IF own = "no" THEN 0 ELSE GotOf(arch, q0)
    BY <2>2, <2>3, FitPrepared
  <2>5. PICK p : p = Relocated(q0, b)
    OBVIOUS
  <2>6. Fit(p, orig)
    <3>1. ~ q0.exec
      BY <2>1, <2>4
    <3> QED BY <2>2, <2>4, <2>5, <3>1, FitMoved
  <2>7. CASE Prelinked(p, d).ok
    <3>1. r' = Prelinked(p, d) /\ own' = d
      BY <2>1, <2>3, <2>5, <2>7
    <3>2. PICK e : e = d
      OBVIOUS
    <3> QED BY <2>1, <2>6, <3>1, <3>2, WordPrelinked
  <2>8. CASE ~ Prelinked(p, d).ok
    <3>1. r' = Bad(r)
      BY <2>1, <2>3, <2>5, <2>8
    <3>2. ~ r'.ok
      BY <2>2, <3>1, BadFacts
    <3> QED BY <3>2 DEF WordInv
  <2> QED BY <2>7, <2>8
<1>2. ASSUME NEW g \in GlobalSymbols(arch, orig, own), NEW copied \in BOOLEAN,
                 NEW full \in BOOLEAN, PrelinkUser(g, copied, full)
      PROVE  WordInv'
  BY <1>2, WordSame DEF PrelinkUser
<1>3. ASSUME NEW d \in OwnSymbols(arch, orig), PrelinkExecutable(d)
      PROVE  WordInv'
  <2> DEFINE cfl == ConflictRel(arch, r, ConflictOf(r, d, d), Block("self"))
  <2>1. /\ arch' = arch /\ mixed' = mixed /\ orig' = orig /\ moved' = moved
        /\ IF cfl.ok /\ Prelinked(Prepared(r), d).ok THEN r' = Prelinked(Prepared(r), d)
             /\ own' = d
           ELSE r' = (IF cfl.ok THEN Bad(r) ELSE r) /\ own' = own
    BY <1>3 DEF PrelinkExecutable
  <2> HIDE DEF cfl
  <2>2. arch \in Names /\ KinInv /\ FreshInv /\ r \in Relocs
    BY Known, KinIs DEF Inv, KinInv
  <2>3. PICK p : p = Prepared(r)
    OBVIOUS
  <2>4. Fit(p, orig)
    BY <2>2, <2>3, FitPrepared
  <2>5. CASE cfl.ok /\ Prelinked(p, d).ok
    <3>1. r' = Prelinked(p, d) /\ own' = d
      BY <2>1, <2>3, <2>5
    <3>2. PICK e : e = d
      OBVIOUS
    <3> QED BY <2>1, <2>4, <3>1, <3>2, WordPrelinked
  <2>6. CASE cfl.ok /\ ~ Prelinked(p, d).ok
    <3>1. r' = Bad(r)
      BY <2>1, <2>3, <2>6
    <3>2. ~ r'.ok
      BY <2>2, <3>1, BadFacts
    <3> QED BY <3>2 DEF WordInv
  <2>7. CASE ~ cfl.ok
    BY <2>1, <2>7, WordSame
  <2> QED BY <2>5, <2>6, <2>7
<1>4. ASSUME Undo PROVE WordInv'
  <2>1. r \in Relocs
    BY KinIs DEF Inv, KinInv
  <2>2. own' = "no" \/ r' = Bad(r)
    BY <1>4 DEF Undo
  <2>3. ~ Bad(r).ok
    BY <2>1, BadFacts
  <2> QED BY <2>2, <2>3 DEF WordInv
<1>5. ASSUME NEW b \in Bases, RelocOnly(b) PROVE WordInv'
  <2>1. own' = "no" \/ moved'
    BY <1>5 DEF RelocOnly
  <2> QED BY <2>1 DEF WordInv
<1>6. ASSUME UNCHANGED vars PROVE WordInv'
  BY <1>6, WordSame DEF vars
<1> QED BY <1>1, <1>2, <1>3, <1>4, <1>5, <1>6 DEF Next

(* There is nothing to show until an executable is prelinked.              *)
LEMMA NoExeClear ==
  ASSUME exe' = NoExe
  PROVE  TransInv'
  BY DEF TransInv, Transparent, NoExe

(* Nor when that failed.                                                   *)
LEMMA RefusedClear ==
  ASSUME NEW g, exe' = RefusedExe(g)
  PROVE  TransInv'
<1>1. ~ RefusedExe(g).done
  BY DEF RefusedExe, NoExe
<1>2. ~ exe'.done
  BY <1>1
<1> QED BY <1>2 DEF TransInv, Transparent

(* Prelinking an executable that uses the library is transparent for the   *)
(* words of the library.                                                   *)
LEMMA TransUser ==
  ASSUME Inv, BareInv, WordInv, NEW g \in GlobalSymbols(arch, orig, own),
         NEW copied \in BOOLEAN, NEW full \in BOOLEAN, PrelinkUser(g, copied, full)
  PROVE  TransInv'
<1> DEFINE cfl == ConflictRel(arch, r, ConflictOf(r, own, g), Block("self"))
           copy == CopyOf(r, cfl.rela, full)
           fits == cfl.ok /\ (copied => copy.ok)
           x == Executable(g, cfl.rela, full, copied, copy)
<1>1. /\ arch' = arch /\ orig' = orig /\ moved' = moved /\ r' = r /\ own # "no" /\ r.ok
           /\ ~ r.exec
      /\ exe' = IF fits THEN x ELSE RefusedExe(g)
  BY DEF PrelinkUser
<1>2. x.global = g /\ x.rela = cfl.rela
  BY DEF Executable
<1>2a. fits => cfl.ok
  OBVIOUS
<1> HIDE DEF x, fits, copy
<1>3. CASE ~ fits
  <2>1. exe' = RefusedExe(g)
    BY <1>1, <1>3
  <2> QED BY <2>1, RefusedClear
<1>4. CASE fits
  <2>1. exe' = x /\ cfl.ok
    BY <1>1, <1>2a, <1>4
  <2> HIDE DEF cfl
  <2> SUFFICES ASSUME arch \in RelaArchs, ~ moved, Right(arch, r, orig, cfl.rela)
               PROVE  ld_so_conflicts(arch, r, cfl.rela) = ld_so_relocate(arch, orig, r.base, g)
    BY <1>1, <1>2, <2>1 DEF TransInv, Transparent, WrongWord, WrongAddend, WrongConflict, Right
  <2>2. arch \in RelaArchs /\ Bare(orig)
    BY DEF BareInv
  <2>3. PICK p : Fit(p, orig) /\ r = Prelinked(p, own)
    BY <1>1 DEF WordInv
  <2>4. arch \in Names /\ KinInv /\ own \in OwnSymbols(arch, orig) /\ KinA(arch, r, orig)
    BY <1>1, <2>2, Known DEF Inv, TypeInv, KinInv, Kin, RelaArchs
  <2>5. r.base = p.base
    BY <2>3, <2>4, PrelinkedFit
  <2> QED BY <2>1, <2>2, <2>3, <2>4, <2>5, Clear DEF cfl
<1> QED BY <1>3, <1>4

(* It is transparent for its own words.                                    *)
LEMMA TransExecutable ==
  ASSUME Inv, BareInv, TransInv, NEW d \in OwnSymbols(arch, orig), PrelinkExecutable(d)
  PROVE  TransInv'
<1> DEFINE cfl == ConflictRel(arch, r, ConflictOf(r, d, d), Block("self"))
           seen == ApplyRel(arch, r, Resolve(r, d))
           p == Prepared(r)
           q == Prelinked(p, d)
           x == Executable(d, cfl.rela, FALSE, orig.type \in ld_data,
                           [ok |-> seen.ok, mem |-> seen.mem, rela |-> << >>])
<1>1. /\ arch' = arch /\ orig' = orig /\ moved' = moved /\ r.exec /\ r.ok
      /\ IF cfl.ok /\ q.ok THEN r' = q /\ exe' = x
         ELSE /\ r' = (IF cfl.ok THEN Bad(r) ELSE r)
              /\ exe' = IF cfl.ok THEN exe ELSE RefusedExe(d)
  BY DEF PrelinkExecutable, Followed
<1>2. x.global = d /\ x.rela = cfl.rela
  BY DEF Executable
<1> HIDE DEF x
<1>3. arch \in Names /\ KinInv /\ FreshInv /\ Form(arch, orig) /\ Kin(arch, r, orig)
  BY Known DEF Inv, KinInv
<1>4. Fit(p, orig) /\ p.ok = r.ok /\ p.type = r.type /\ p.base = r.base /\ p.exec = r.exec
  BY <1>3, FitPrepared
<1> HIDE DEF p
<1>5. q.base = p.base /\ q.exec = p.exec /\ (p.type \notin {"PC24", "TLS_DESC_NOW"} => q.ok = p.ok)
  BY <1>3, <1>4, PrelinkedFit
<1>6. CASE cfl.ok /\ q.ok
  <2>1. r' = q /\ exe' = x
    BY <1>1, <1>6
  <2> HIDE DEF cfl, q
  <2> SUFFICES ASSUME arch \in RelaArchs, Right(arch, q, orig, cfl.rela)
               PROVE  ld_so_conflicts(arch, q, cfl.rela) = ld_so_relocate(arch, orig, q.base, d)
    BY <1>1, <1>2, <2>1 DEF TransInv, Transparent, WrongWord, WrongAddend, WrongConflict, Right
  <2>2. arch \in RelaArchs /\ Bare(orig)
    BY DEF BareInv
  <2>3. KinA(arch, r, orig) /\ d \in GlobalSymbols(arch, orig, d) /\ q.exec
    BY <1>1, <1>3, <1>4, <1>5, <2>2, OwnIs DEF Kin, RelaArchs
  <2> QED BY <1>4, <1>6, <2>2, <2>3, Clear DEF cfl, q
<1>7. CASE cfl.ok /\ ~ q.ok
  <2>1. r.type \in {"PC24", "TLS_DESC_NOW"}
    BY <1>1, <1>4, <1>5, <1>7
  <2>2. arch \notin RelaArchs
    <3>1. ASSUME arch \in RelaArchs PROVE FALSE
      <4>1. arch \in RelaArchs
        BY <3>1
      <4>2. KinA(arch, r, orig) /\ FormA(arch, orig)
        BY <1>3, <4>1 DEF Kin, Form, RelaArchs
      <4>3. orig.type \in {"PC24", "TLS_DESC_NOW"} /\ LdType(arch, orig)
        BY <2>1, <4>2 DEF KinA, FormA
      <4> QED BY <4>1, <4>3, BranchTypes
    <3> QED BY <3>1
  <2> QED BY <1>1, <2>2 DEF TransInv
<1>8. CASE ~ cfl.ok
  <2>1. exe' = RefusedExe(d)
    BY <1>1, <1>8
  <2> QED BY <2>1, RefusedClear
<1> QED BY <1>6, <1>7, <1>8

(* Prelinking is transparent on every architecture with RELA relocations   *)
(* (x86_64, x32, s390, s390x, sh, alpha, ppc, ppc64, sparc, sparc64):      *)
(* whatever was moved, prelinked and undone before, and whatever symbol    *)
(* the program has, the prelinked word with the conflicts applied is what  *)
(* ld.so makes of the original.  Transparent names what the back ends get  *)
(* wrong; nothing else is left out here.                                   *)
THEOREM TransparentHolds == Spec => [](arch \in RelaArchs => Transparent)
<1>1. Init => BareInv /\ WordInv /\ TransInv
  <2>1. Init => WordInv /\ TransInv
    BY DEF Init, WordInv, TransInv, Transparent, NoExe
  <2> QED BY <2>1, BareInit
<1>2. Inv /\ BareInv /\ WordInv /\ TransInv /\ [Next]_vars => BareInv' /\ WordInv' /\ TransInv'
  <2> SUFFICES ASSUME Inv, BareInv, WordInv, TransInv, [Next]_vars PROVE TransInv'
    BY BareStep, WordStep
  <2>1. ASSUME NEW b \in Bases, NEW d \in OwnSymbols(arch, orig), PrelinkLibrary(b, d)
                   PROVE TransInv'
    BY <2>1, NoExeClear DEF PrelinkLibrary
  <2>2. ASSUME NEW g \in GlobalSymbols(arch, orig, own), NEW copied \in BOOLEAN,
                   NEW full \in BOOLEAN, PrelinkUser(g, copied, full) PROVE TransInv'
    BY <2>2, TransUser
  <2>3. ASSUME NEW d \in OwnSymbols(arch, orig), PrelinkExecutable(d) PROVE TransInv'
    BY <2>3, TransExecutable
  <2>4. ASSUME Undo PROVE TransInv'
    BY <2>4, NoExeClear DEF Undo
  <2>5. ASSUME NEW b \in Bases, RelocOnly(b) PROVE TransInv'
    BY <2>5, NoExeClear DEF RelocOnly
  <2>6. ASSUME UNCHANGED vars PROVE TransInv'
    BY <2>6 DEF vars, TransInv, Transparent, WrongWord, WrongAddend, WrongConflict
  <2> QED BY <2>1, <2>2, <2>3, <2>4, <2>5, <2>6 DEF Next
<1>3. TransInv => (arch \in RelaArchs => Transparent)
  BY DEF TransInv
<1> QED BY <1>1, <1>2, <1>3, Inductive, PTL DEF Spec
-----------------------------------------------------------------------------
(* The conflicts of an executable can be built.                            *)

(* The words that an ifunc fits.                                           *)
IfuncWord(a, z) ==
  /\ a \in X86_64 \union Ppc \union {"s390", "s390x", "ppc64"}
  /\ \/ z.type = "GLOB_DAT"
     \/ z.type \in {"32", "ADDR32", "UADDR32"} /\ z.class = 4
     \/ z.type \in {"64", "ADDR64", "UADDR64"} /\ z.class = 8
     \/ z.type \in Slot /\ a # "ppc_bss"

(* What a callback may rely on: only such words have an ifunc, and TLS     *)
(* relocations have TLS symbols.                                           *)
Sound(a, z, c) ==
  /\ c.found \in BOOLEAN /\ c.ifunc \in BOOLEAN
  /\ c.ifunc => IfuncWord(a, z)
  /\ z.type \in Tls => ~ c.ifunc /\ (c.found => c.isTls)
  /\ z.type \in NoSymbol => ~ c.found /\ ~ c.ifunc

(* The conflict is accepted, there is one entry at most, and if the word   *)
(* is in a variable, the entry fits and can be applied to its copy.        *)
Fits(a, z, e) == RelocSize(a, e.type) <= ld_width(a, z) /\ ApplyConflict(a, z, e).ok

Taken(a, z, cfl) ==
  \/ cfl = None
  \/ \E t, v : /\ cfl = Entry(t, v)
               /\ z.type \in ld_data => Fits(a, z, [type |-> t, addend |-> v])

(* Writing a word refuses nothing.                                         *)
LEMMA PutOk ==
  ASSUME NEW z \in Relocs, z.ok, NEW w, NEW v
  PROVE  Put(z, w, v).ok
  BY DEF Put, Relocs

(* x86_64, x32.                                                            *)
LEMMA X8664Takes ==
  ASSUME NEW a \in X86_64, NEW z \in Relocs, z.ok, LdType(a, z), z.class = ld_class(a),
         NEW c, Sound(a, z, c), NEW cfl, cfl = ConflictRel(a, z, c, Block("self"))
  PROVE  Taken(a, z, cfl)
<1> DEFINE T == {"NONE", "COPY", "RELATIVE", "IRELATIVE", "JUMP_SLOT", "GLOB_DAT", "64", "32",
                 "PC32", "DTPMOD64", "DTPOFF64", "TPOFF64"}
<1>1. z.type \in T
  BY DEF LdType, ld_exec_types, ld_types, X86_64, Mips
<1>2. cfl = x86_64_prelink_conflict_rela(z, c, Block("self"))
  BY DEF ConflictRel, X86_64, Ppc, Mips
<1>3. z.type \in {"DTPMOD64", "DTPOFF64", "TPOFF64"} => z.type \in Tls
  BY DEF Tls, TpOff, DtpOff, DtpMod
<1>4. ASSUME z.type \in ld_data, NEW t, NEW v,
             t \in {"IRELATIVE", "32", "64"},
             z.type \in {"32", "PC32"} => t = "32" \/ (t = "IRELATIVE" /\ z.class = 4),
             z.type = "64" => t = "64" \/ (t = "IRELATIVE" /\ z.class = 8),
             z.type \in {"RELATIVE", "IRELATIVE"} => t = "IRELATIVE"
      PROVE  Fits(a, z, [type |-> t, addend |-> v])
  <2>1. z.type \in {"RELATIVE", "IRELATIVE", "64", "32", "PC32"}
    BY <1>1, <1>4 DEF ld_data
  <2>2. PICK e : e = [type |-> t, addend |-> v]
    OBVIOUS
  <2>3. e.type = t
    BY <2>2
  <2>4. ApplyConflict(a, z, e) = x86_64_apply_conflict_rela(z, e)
    BY DEF ApplyConflict, X86_64, Ppc, Mips
  <2>5. x86_64_apply_conflict_rela(z, e).ok
    BY <1>4, <2>3, PutOk DEF x86_64_apply_conflict_rela
  <2>6. ld_width(a, z) = (CASE z.type = "64" -> 8 [] z.type \in {"32", "PC32"} -> 4 [] OTHER -> z.class)
    BY <2>1 DEF ld_width, Slot, s390_Half, s390_Dbl16, ppc_Half, ppc_Low, ppc_DtpRel16,
       ppc_TpRel16, ppc64_Ds, ppc64_Higher, mips_Got, mips_Global, mips_Undefined, mips_Defined,
       Tls, DtpOff, TpOff, DtpMod, Mips, X86_64, ppc_TpRel, ppc_DtpRel, mips_DtpRel, mips_TpRel,
       mips_DtpMod
  <2>7. RelocSize(a, t) <= ld_width(a, z)
    BY <1>4, <2>1, <2>6 DEF RelocSize, x86_64_reloc_size, x86_64_x32_reloc_size, X86_64, Ppc,
       Mips, ld_class
  <2> QED BY <2>2, <2>3, <2>4, <2>5, <2>7 DEF Fits
<1>5. CASE z.type \in {"NONE", "COPY", "RELATIVE"}
  BY <1>2, <1>5 DEF x86_64_prelink_conflict_rela, Unneeded, Sound, NoSymbol, Taken
<1>6. CASE z.type \in {"DTPMOD64", "DTPOFF64", "TPOFF64"}
  BY <1>2, <1>3, <1>6 DEF x86_64_prelink_conflict_rela, Sound, ld_data, Taken
<1>7. CASE z.type \in {"JUMP_SLOT", "GLOB_DAT", "64", "32", "PC32", "IRELATIVE"}
  <2>1. cfl = None \/ \E t, v :
          /\ cfl = Entry(t, v)
          /\ z.type \in ld_data =>
               /\ t \in {"IRELATIVE", "32", "64"}
               /\ z.type \in {"32", "PC32"} => t = "32" \/ (t = "IRELATIVE" /\ z.class = 4)
               /\ z.type = "64" => t = "64" \/ (t = "IRELATIVE" /\ z.class = 8)
               /\ z.type \in {"RELATIVE", "IRELATIVE"} => t = "IRELATIVE"
    BY <1>2, <1>7 DEF x86_64_prelink_conflict_rela, Sound, IfuncWord, Slot, ld_data, NoSymbol
  <2> QED BY <1>4, <2>1 DEF Taken
<1> QED BY <1>1, <1>5, <1>6, <1>7

(* s390.                                                                   *)
LEMMA S390Takes ==
  ASSUME NEW z \in Relocs, z.ok, LdType("s390", z), z.class = ld_class("s390"),
         NEW c, Sound("s390", z, c), NEW cfl, cfl = ConflictRel("s390", z, c, Block("self"))
  PROVE  Taken("s390", z, cfl)
<1> DEFINE Pair(t) ==
             \/ z.type \in {"RELATIVE", "IRELATIVE"} /\ t \in {"IRELATIVE"}
             \/ z.type \in {"32", "PC32"} /\ t \in {"32", "IRELATIVE"}
             \/ z.type \in {"16", "PC16"} /\ t \in {"16"}
             \/ z.type \in {"8"} /\ t \in {"8"}
<1>1. z.class = 4 /\ (z.type \in ld_data => z.type \in {"RELATIVE", "IRELATIVE", "32", "PC32", "16", "PC16", "8"})
  BY S390Types DEF ld_class, ld_data, S390, S390Plain, S390Pc, Dbl, s390_Dbl, s390_Dbl16, s390_Tls
<1>2. cfl = s390_prelink_conflict_rela(z, c, Block("self"))
  BY DEF ConflictRel, X86_64, Ppc, Mips
<1>3. ASSUME NEW t, NEW v, Pair(t) PROVE Fits("s390", z, [type |-> t, addend |-> v])
  <2>1. PICK e : e = [type |-> t, addend |-> v]
    OBVIOUS
  <2>2. e.type = t
    BY <2>1
  <2>3. ApplyConflict("s390", z, e) = s390_apply_conflict_rela(z, e)
    BY DEF ApplyConflict, X86_64, Ppc, Mips
  <2>4. s390_apply_conflict_rela(z, e).ok
    BY <1>3, <2>2, PutOk DEF s390_apply_conflict_rela
  <2>5. ld_width("s390", z) = (CASE z.type \in {"RELATIVE", "IRELATIVE"} -> z.class [] z.type \in {"32", "PC32"} -> 4 [] z.type \in {"16", "PC16"} -> 2
            [] z.type = "8" -> 1 [] OTHER -> 8)
    BY <1>1, <1>3 DEF ld_width, Slot, s390_Half, s390_Dbl16, ppc_Half, ppc_Low, ppc_DtpRel16,
       ppc_TpRel16, ppc64_Ds, ppc64_Higher, mips_Got, mips_Global, mips_Undefined, mips_Defined,
       Tls, DtpOff, TpOff, DtpMod, Mips, X86_64, ppc_TpRel, ppc_DtpRel, mips_DtpRel, mips_TpRel,
       mips_DtpMod
  <2>6. RelocSize("s390", t) <= ld_width("s390", z)
    BY <1>1, <1>3, <2>5 DEF RelocSize, s390_reloc_size, s390_Half, s390_Dbl16, X86_64, Ppc, Mips
  <2> QED BY <2>1, <2>2, <2>3, <2>4, <2>6 DEF Fits
<1>4. ASSUME cfl = None \/ \E t, v : cfl = Entry(t, v) /\ (z.type \in ld_data => Pair(t))
      PROVE  Taken("s390", z, cfl)
  BY <1>3, <1>4 DEF Taken
<1>5. CASE z.type \in {"NONE", "COPY", "RELATIVE", "IRELATIVE"}
  <2>1. cfl = None \/ \E t, v : cfl = Entry(t, v) /\ (z.type \in ld_data => Pair(t))
    BY <1>1, <1>2, <1>5 DEF s390_prelink_conflict_rela, Sound, IfuncWord, Slot, Unneeded,
       NoSymbol, s390_Dbl, s390_Dbl16, s390_Tls
  <2> QED BY <1>4, <2>1
<1>6. CASE z.type \in s390_Tls
  <2>1. cfl = None \/ \E t, v : cfl = Entry(t, v) /\ (z.type \in ld_data => Pair(t))
    BY <1>1, <1>2, <1>6, S390Types DEF s390_prelink_conflict_rela, Sound, IfuncWord, Slot, S390,
       s390_Dbl, s390_Dbl16, s390_Tls
  <2> QED BY <1>4, <2>1
<1>7. CASE z.type \in Dbl
  <2>1. cfl = None \/ \E t, v : cfl = Entry(t, v) /\ (z.type \in ld_data => Pair(t))
    BY <1>1, <1>2, <1>7 DEF s390_prelink_conflict_rela, Sound, IfuncWord, Slot, s390_Dbl,
       s390_Dbl16, s390_Tls, Dbl
  <2> QED BY <1>4, <2>1
<1>8. CASE z.type \in S390Plain \ Dbl
  <2>1. cfl = None \/ \E t, v : cfl = Entry(t, v) /\ (z.type \in ld_data => Pair(t))
    BY <1>1, <1>2, <1>8, S390Types DEF s390_prelink_conflict_rela, Sound, IfuncWord, Slot,
       s390_Dbl, s390_Dbl16, s390_Tls, Dbl, S390, S390Plain, S390Pc
  <2> QED BY <1>4, <2>1
<1> QED BY <1>5, <1>6, <1>7, <1>8, S390Types DEF S390, S390Plain, S390Pc, Dbl, s390_Dbl,
   s390_Dbl16, s390_Tls

(* s390x.                                                                  *)
LEMMA S390xTakes ==
  ASSUME NEW z \in Relocs, z.ok, LdType("s390x", z), z.class = ld_class("s390x"),
         NEW c, Sound("s390x", z, c), NEW cfl, cfl = ConflictRel("s390x", z, c, Block("self"))
  PROVE  Taken("s390x", z, cfl)
<1> DEFINE Pair(t) ==
             \/ z.type \in {"RELATIVE", "IRELATIVE"} /\ t \in {"IRELATIVE"}
             \/ z.type \in {"32", "PC32"} /\ t \in {"32"}
             \/ z.type \in {"16", "PC16"} /\ t \in {"16"}
             \/ z.type \in {"8"} /\ t \in {"8"}
             \/ z.type \in {"64", "PC64"} /\ t \in {"64", "IRELATIVE"}
<1>1. z.class = 8 /\ (z.type \in ld_data => z.type \in {"RELATIVE", "IRELATIVE", "32", "PC32", "16", "PC16", "8", "64", "PC64"})
  BY S390Types DEF ld_class, ld_data, S390, S390Plain, S390Pc, Dbl, s390_Dbl, s390_Dbl16, s390_Tls
<1>2. cfl = s390x_prelink_conflict_rela(z, c, Block("self"))
  BY DEF ConflictRel, X86_64, Ppc, Mips
<1>3. ASSUME NEW t, NEW v, Pair(t) PROVE Fits("s390x", z, [type |-> t, addend |-> v])
  <2>1. PICK e : e = [type |-> t, addend |-> v]
    OBVIOUS
  <2>2. e.type = t
    BY <2>1
  <2>3. ApplyConflict("s390x", z, e) = s390x_apply_conflict_rela(z, e)
    BY DEF ApplyConflict, X86_64, Ppc, Mips
  <2>4. s390x_apply_conflict_rela(z, e).ok
    BY <1>3, <2>2, PutOk DEF s390x_apply_conflict_rela
  <2>5. ld_width("s390x", z) = (CASE z.type \in {"RELATIVE", "IRELATIVE"} -> z.class [] z.type \in {"32", "PC32"} -> 4 [] z.type \in {"16", "PC16"} -> 2
            [] z.type = "8" -> 1 [] OTHER -> 8)
    BY <1>1, <1>3 DEF ld_width, Slot, s390_Half, s390_Dbl16, ppc_Half, ppc_Low, ppc_DtpRel16,
       ppc_TpRel16, ppc64_Ds, ppc64_Higher, mips_Got, mips_Global, mips_Undefined, mips_Defined,
       Tls, DtpOff, TpOff, DtpMod, Mips, X86_64, ppc_TpRel, ppc_DtpRel, mips_DtpRel, mips_TpRel,
       mips_DtpMod
  <2>6. RelocSize("s390x", t) <= ld_width("s390x", z)
    BY <1>1, <1>3, <2>5 DEF RelocSize, s390x_reloc_size, s390_Half, s390_Dbl16, X86_64, Ppc, Mips
  <2> QED BY <2>1, <2>2, <2>3, <2>4, <2>6 DEF Fits
<1>4. ASSUME cfl = None \/ \E t, v : cfl = Entry(t, v) /\ (z.type \in ld_data => Pair(t))
      PROVE  Taken("s390x", z, cfl)
  BY <1>3, <1>4 DEF Taken
<1>5. CASE z.type \in {"NONE", "COPY", "RELATIVE", "IRELATIVE"}
  <2>1. cfl = None \/ \E t, v : cfl = Entry(t, v) /\ (z.type \in ld_data => Pair(t))
    BY <1>1, <1>2, <1>5 DEF s390x_prelink_conflict_rela, Sound, IfuncWord, Slot, Unneeded,
       NoSymbol, s390_Dbl, s390_Dbl16, s390_Tls
  <2> QED BY <1>4, <2>1
<1>6. CASE z.type \in s390_Tls
  <2>1. cfl = None \/ \E t, v : cfl = Entry(t, v) /\ (z.type \in ld_data => Pair(t))
    BY <1>1, <1>2, <1>6, S390Types DEF s390x_prelink_conflict_rela, Sound, IfuncWord, Slot, S390,
       s390_Dbl, s390_Dbl16, s390_Tls
  <2> QED BY <1>4, <2>1
<1>7. CASE z.type \in Dbl
  <2>1. cfl = None \/ \E t, v : cfl = Entry(t, v) /\ (z.type \in ld_data => Pair(t))
    BY <1>1, <1>2, <1>7 DEF s390x_prelink_conflict_rela, Sound, IfuncWord, Slot, s390_Dbl,
       s390_Dbl16, s390_Tls, Dbl
  <2> QED BY <1>4, <2>1
<1>8. CASE z.type \in S390Plain \ Dbl
  <2>1. cfl = None \/ \E t, v : cfl = Entry(t, v) /\ (z.type \in ld_data => Pair(t))
    BY <1>1, <1>2, <1>8, S390Types DEF s390x_prelink_conflict_rela, Sound, IfuncWord, Slot,
       s390_Dbl, s390_Dbl16, s390_Tls, Dbl, S390, S390Plain, S390Pc
  <2> QED BY <1>4, <2>1
<1> QED BY <1>5, <1>6, <1>7, <1>8, S390Types DEF S390, S390Plain, S390Pc, Dbl, s390_Dbl,
   s390_Dbl16, s390_Tls

(* sh.                                                                     *)
LEMMA ShTakes ==
  ASSUME NEW z \in Relocs, z.ok, LdType("sh", z), z.class = ld_class("sh"),
         NEW c, Sound("sh", z, c), NEW cfl, cfl = ConflictRel("sh", z, c, Block("self"))
  PROVE  Taken("sh", z, cfl)
<1> DEFINE Pair(t) ==
             \/ z.type \in {"RELATIVE", "DIR32", "REL32"} /\ t \in {"GLOB_DAT", "DIR32"}
<1>1. z.class = 4 /\ (z.type \in ld_data => z.type \in {"RELATIVE", "DIR32", "REL32"})
  BY ShTypes DEF ld_class, ld_data
<1>2. cfl = sh_prelink_conflict_rela(z, c, Block("self"))
  BY DEF ConflictRel, X86_64, Ppc, Mips
<1>3. ASSUME NEW t, NEW v, Pair(t) PROVE Fits("sh", z, [type |-> t, addend |-> v])
  <2>1. PICK e : e = [type |-> t, addend |-> v]
    OBVIOUS
  <2>2. e.type = t
    BY <2>1
  <2>3. ApplyConflict("sh", z, e) = sh_apply_conflict_rela(z, e)
    BY DEF ApplyConflict, X86_64, Ppc, Mips
  <2>4. sh_apply_conflict_rela(z, e).ok
    BY <1>3, <2>2, PutOk DEF sh_apply_conflict_rela
  <2>5. ld_width("sh", z) = 4
    BY <1>1, <1>3 DEF ld_width, Slot, s390_Half, s390_Dbl16, ppc_Half, ppc_Low, ppc_DtpRel16,
       ppc_TpRel16, ppc64_Ds, ppc64_Higher, mips_Got, mips_Global, mips_Undefined, mips_Defined,
       Tls, DtpOff, TpOff, DtpMod, Mips, X86_64, ppc_TpRel, ppc_DtpRel, mips_DtpRel, mips_TpRel,
       mips_DtpMod
  <2>6. RelocSize("sh", t) <= ld_width("sh", z)
    BY <1>1, <1>3, <2>5 DEF RelocSize, sh_reloc_size, X86_64, Ppc, Mips
  <2> QED BY <2>1, <2>2, <2>3, <2>4, <2>6 DEF Fits
<1>4. ASSUME cfl = None \/ \E t, v : cfl = Entry(t, v) /\ (z.type \in ld_data => Pair(t))
      PROVE  Taken("sh", z, cfl)
  BY <1>3, <1>4 DEF Taken
<1>5. CASE z.type \in {"NONE", "COPY", "RELATIVE"}
  <2>1. cfl = None \/ \E t, v : cfl = Entry(t, v) /\ (z.type \in ld_data => Pair(t))
    BY <1>1, <1>2, <1>5 DEF sh_prelink_conflict_rela, Sound, IfuncWord, Slot, NoSymbol
  <2> QED BY <1>4, <2>1
<1>6. CASE z.type \in {"GLOB_DAT", "JMP_SLOT", "DIR32", "REL32"}
  <2>1. cfl = None \/ \E t, v : cfl = Entry(t, v) /\ (z.type \in ld_data => Pair(t))
    BY <1>1, <1>2, <1>6 DEF sh_prelink_conflict_rela, Sound, IfuncWord, Slot, X86_64, Ppc
  <2> QED BY <1>4, <2>1
<1> QED BY <1>5, <1>6, ShTypes

(* alpha.                                                                  *)
LEMMA AlphaTakes ==
  ASSUME NEW z \in Relocs, z.ok, LdType("alpha", z), z.class = ld_class("alpha"),
         NEW c, Sound("alpha", z, c), NEW cfl, cfl = ConflictRel("alpha", z, c, Block("self"))
  PROVE  Taken("alpha", z, cfl)
<1> DEFINE Pair(t) ==
             \/ z.type \in {"RELATIVE", "REFQUAD"} /\ t \in {"GLOB_DAT", "REFQUAD"}
<1>1. z.class = 8 /\ (z.type \in ld_data => z.type \in {"RELATIVE", "REFQUAD"})
  BY AlphaTypes DEF ld_class, ld_data, alpha_Tls
<1>2. cfl = alpha_prelink_conflict_rela(z, c, Block("self"))
  BY DEF ConflictRel, X86_64, Ppc, Mips
<1>3. ASSUME NEW t, NEW v, Pair(t) PROVE Fits("alpha", z, [type |-> t, addend |-> v])
  <2>1. PICK e : e = [type |-> t, addend |-> v]
    OBVIOUS
  <2>2. e.type = t
    BY <2>1
  <2>3. ApplyConflict("alpha", z, e) = alpha_apply_conflict_rela(z, e)
    BY DEF ApplyConflict, X86_64, Ppc, Mips
  <2>4. alpha_apply_conflict_rela(z, e).ok
    BY <1>3, <2>2, PutOk DEF alpha_apply_conflict_rela
  <2>5. ld_width("alpha", z) = 8
    BY <1>1, <1>3 DEF ld_width, Slot, s390_Half, s390_Dbl16, ppc_Half, ppc_Low, ppc_DtpRel16,
       ppc_TpRel16, ppc64_Ds, ppc64_Higher, mips_Got, mips_Global, mips_Undefined, mips_Defined,
       Tls, DtpOff, TpOff, DtpMod, Mips, X86_64, ppc_TpRel, ppc_DtpRel, mips_DtpRel, mips_TpRel,
       mips_DtpMod
  <2>6. RelocSize("alpha", t) <= ld_width("alpha", z)
    BY <1>1, <1>3, <2>5 DEF RelocSize, alpha_reloc_size, X86_64, Ppc, Mips
  <2> QED BY <2>1, <2>2, <2>3, <2>4, <2>6 DEF Fits
<1>4. ASSUME cfl = None \/ \E t, v : cfl = Entry(t, v) /\ (z.type \in ld_data => Pair(t))
      PROVE  Taken("alpha", z, cfl)
  BY <1>3, <1>4 DEF Taken
<1>5. CASE z.type \in {"NONE", "RELATIVE"}
  <2>1. cfl = None \/ \E t, v : cfl = Entry(t, v) /\ (z.type \in ld_data => Pair(t))
    BY <1>1, <1>2, <1>5 DEF alpha_prelink_conflict_rela, Sound, IfuncWord, Slot
  <2> QED BY <1>4, <2>1
<1>6. CASE z.type \in alpha_Tls
  <2>1. cfl = None \/ \E t, v : cfl = Entry(t, v) /\ (z.type \in ld_data => Pair(t))
    BY <1>1, <1>2, <1>6, AlphaTypes DEF alpha_prelink_conflict_rela, Sound, IfuncWord, Slot,
       alpha_Tls, ld_data
  <2> QED BY <1>4, <2>1
<1>7. CASE z.type \in {"GLOB_DAT", "JMP_SLOT", "REFQUAD"}
  <2>1. cfl = None \/ \E t, v : cfl = Entry(t, v) /\ (z.type \in ld_data => Pair(t))
    BY <1>1, <1>2, <1>7 DEF alpha_prelink_conflict_rela, Sound, IfuncWord, Slot, X86_64, Ppc,
       alpha_Tls
  <2> QED BY <1>4, <2>1
<1> QED BY <1>5, <1>6, <1>7, AlphaTypes DEF alpha_Tls

(* ppc.                                                                    *)
LEMMA PpcTakes ==
  ASSUME NEW a \in Ppc, NEW z \in Relocs, z.ok, LdType(a, z), z.class = ld_class(a),
         NEW c, Sound(a, z, c), NEW cfl, cfl = ConflictRel(a, z, c, Block("self")),
         z.type = "JMP_SLOT" /\ c.ifunc => ppc_got(z)
  PROVE  Taken(a, z, cfl)
<1> DEFINE Pair(t) ==
             \/ z.type \in {"RELATIVE", "IRELATIVE"} /\ t \in {"IRELATIVE"}
             \/ z.type \in {"ADDR32"} /\ t \in {"ADDR32", "IRELATIVE"}
             \/ z.type \in {"UADDR32"} /\ t \in {"UADDR32", "IRELATIVE"}
             \/ z.type \in {"REL32"} /\ t \in {"ADDR32"}
             \/ z.type \in {"ADDR16", "UADDR16"} /\ t \in {"ADDR16", "UADDR16"}
<1>1. z.class = 4 /\ (z.type \in ld_data => z.type \in {"RELATIVE", "IRELATIVE", "ADDR32", "UADDR32", "ADDR16", "UADDR16", "REL32"})
  BY PpcTypes DEF ld_class, ld_data, Ppc, PpcPlain, PpcRest, PpcTls, ppc_Word, ppc_Half, ppc_Low,
     ppc_Predicted, ppc_DtpRel, ppc_DtpRel16, ppc_TpRel, ppc_TpRel16
<1>2. cfl = ppc_prelink_conflict_rela(z, c, Block("self"))
  BY DEF ConflictRel, X86_64, Ppc, Mips
<1>3. ASSUME NEW t, NEW v, Pair(t) PROVE Fits(a, z, [type |-> t, addend |-> v])
  <2>1. PICK e : e = [type |-> t, addend |-> v]
    OBVIOUS
  <2>2. e.type = t
    BY <2>1
  <2>3. ApplyConflict(a, z, e) = ppc_apply_conflict_rela(z, e)
    BY DEF ApplyConflict, X86_64, Ppc, Mips
  <2>4. ppc_apply_conflict_rela(z, e).ok
    BY <1>3, <2>2, PutOk DEF ppc_apply_conflict_rela
  <2>5. ld_width(a, z) = (CASE z.type \in {"ADDR16", "UADDR16"} -> 2 [] OTHER -> 4)
    BY <1>1, <1>3 DEF ld_width, Slot, s390_Half, s390_Dbl16, ppc_Half, ppc_Low, ppc_DtpRel16,
       ppc_TpRel16, ppc64_Ds, ppc64_Higher, mips_Got, mips_Global, mips_Undefined, mips_Defined,
       Tls, DtpOff, TpOff, DtpMod, Mips, X86_64, ppc_TpRel, ppc_DtpRel, mips_DtpRel, mips_TpRel,
       mips_DtpMod, Ppc
  <2>6. RelocSize(a, t) <= ld_width(a, z)
    BY <1>1, <1>3, <2>5 DEF RelocSize, ppc_reloc_size, ppc_Half, ppc_Low,
       ppc_DtpRel16, ppc_TpRel16, X86_64, Ppc, Mips
  <2> QED BY <2>1, <2>2, <2>3, <2>4, <2>6 DEF Fits
<1>4. ASSUME cfl = None \/ \E t, v : cfl = Entry(t, v) /\ (z.type \in ld_data => Pair(t))
      PROVE  Taken(a, z, cfl)
  BY <1>3, <1>4 DEF Taken
<1>5. CASE z.type \in {"NONE", "COPY", "RELATIVE", "IRELATIVE"}
  <2>1. cfl = None \/ \E t, v : cfl = Entry(t, v) /\ (z.type \in ld_data => Pair(t))
    BY <1>1, <1>2, <1>5 DEF ppc_prelink_conflict_rela, Sound, IfuncWord, Slot, Unneeded,
       NoSymbol, ppc_TpRel, PpcPlain, PpcRest, PpcTls, ppc_Word, ppc_Half, ppc_Low,
       ppc_Predicted, ppc_DtpRel,
       ppc_DtpRel16, ppc_TpRel, ppc_TpRel16
  <2> QED BY <1>4, <2>1
<1>6. CASE z.type \in {"JMP_SLOT"}
  <2>0. z.type \notin ld_data \union PpcTls
    BY <1>1, <1>6 DEF ld_data, PpcPlain, PpcRest, PpcTls, ppc_Word, ppc_Half, ppc_Low,
       ppc_Predicted, ppc_DtpRel,
       ppc_DtpRel16, ppc_TpRel, ppc_TpRel16
  <2>1. cfl = None \/ \E t, v : cfl = Entry(t, v) /\ (z.type \in ld_data => Pair(t))
    BY <1>1, <1>2, <1>6, <2>0 DEF ppc_prelink_conflict_rela, Sound, IfuncWord, Slot, Unneeded,
       ppc_reloc_class, ppc_Word, ppc_Half, ppc_Low, ppc_Predicted, ppc_DtpRel,
       ppc_DtpRel16, ppc_TpRel, ppc_TpRel16
  <2> QED BY <1>4, <2>1
<1>7. CASE z.type \in ppc_Word
  <2>0. z.type \notin PpcTls /\ ppc_reloc_class(z.type) # "TLS"
    BY <1>1, <1>7 DEF ppc_reloc_class, PpcPlain, PpcRest, PpcTls, ppc_Word, ppc_Half, ppc_Low,
       ppc_Predicted, ppc_DtpRel,
       ppc_DtpRel16, ppc_TpRel, ppc_TpRel16
  <2>1. cfl = None \/ \E t, v : cfl = Entry(t, v) /\ (z.type \in ld_data => Pair(t))
    BY <1>1, <1>2, <1>7, <2>0 DEF ppc_prelink_conflict_rela, Sound, IfuncWord, Slot, Unneeded,
       ppc_Word, ppc_Half, ppc_Low, ppc_Predicted, ppc_DtpRel,
       ppc_DtpRel16, ppc_TpRel, ppc_TpRel16, PpcRest
  <2> QED BY <1>4, <2>1
<1>8. CASE z.type \in ppc_Half
  <2>0. z.type \notin PpcTls /\ ppc_reloc_class(z.type) # "TLS" /\ ~ c.ifunc
    BY <1>1, <1>8 DEF ppc_reloc_class, Sound, IfuncWord, Slot, PpcPlain, PpcRest, PpcTls,
       ppc_Word, ppc_Half, ppc_Low, ppc_Predicted, ppc_DtpRel,
       ppc_DtpRel16, ppc_TpRel, ppc_TpRel16
  <2>1. cfl = None \/ \E t, v : cfl = Entry(t, v) /\ (z.type \in ld_data => Pair(t))
    BY <1>1, <1>2, <1>8, <2>0 DEF ppc_prelink_conflict_rela, Sound, IfuncWord, Slot, Unneeded,
       ppc_Word, ppc_Half, ppc_Low, ppc_Predicted, ppc_DtpRel,
       ppc_DtpRel16, ppc_TpRel, ppc_TpRel16, PpcRest
  <2> QED BY <1>4, <2>1
<1>9. CASE z.type \in PpcRest \union ppc_Predicted
  <2>0. z.type \notin PpcTls /\ ppc_reloc_class(z.type) # "TLS" /\ ~ c.ifunc
    BY <1>1, <1>9 DEF ppc_reloc_class, Sound, IfuncWord, Slot, PpcPlain, PpcRest, PpcTls,
       ppc_Word, ppc_Half, ppc_Low, ppc_Predicted, ppc_DtpRel,
       ppc_DtpRel16, ppc_TpRel, ppc_TpRel16
  <2>1. cfl = None \/ \E t, v : cfl = Entry(t, v) /\ (z.type \in ld_data => Pair(t))
    BY <1>1, <1>2, <1>9, <2>0 DEF ppc_prelink_conflict_rela, Sound, IfuncWord, Slot, Unneeded,
       ppc_Word, ppc_Half, ppc_Low, ppc_Predicted, ppc_DtpRel,
       ppc_DtpRel16, ppc_TpRel, ppc_TpRel16, PpcRest
  <2> QED BY <1>4, <2>1
<1>10. CASE z.type \in {"DTPMOD32"}
  <2>0. z.type \notin ld_data /\ z.type \in Tls /\ (c.found => c.isTls)
    BY <1>1, <1>10, PpcTypes DEF Sound, ld_data, PpcPlain, PpcRest, PpcTls, ppc_Word, ppc_Half,
       ppc_Low, ppc_Predicted, ppc_DtpRel,
       ppc_DtpRel16, ppc_TpRel, ppc_TpRel16
  <2>1. cfl = None \/ \E t, v : cfl = Entry(t, v) /\ (z.type \in ld_data => Pair(t))
    BY <1>1, <1>2, <1>10, <2>0 DEF ppc_prelink_conflict_rela, Sound, IfuncWord, Slot, Unneeded,
       ppc_Word, ppc_Half, ppc_Low, ppc_Predicted, ppc_DtpRel,
       ppc_DtpRel16, ppc_TpRel, ppc_TpRel16, PpcRest
  <2> QED BY <1>4, <2>1
<1>11. CASE z.type \in ppc_DtpRel
  <2>0. z.type \notin ld_data /\ z.type \in Tls /\ (c.found => c.isTls)
    BY <1>1, <1>11, PpcTypes DEF Sound, ld_data, PpcPlain, PpcRest, PpcTls, ppc_Word, ppc_Half,
       ppc_Low, ppc_Predicted, ppc_DtpRel,
       ppc_DtpRel16, ppc_TpRel, ppc_TpRel16
  <2>1. cfl = None \/ \E t, v : cfl = Entry(t, v) /\ (z.type \in ld_data => Pair(t))
    BY <1>1, <1>2, <1>11, <2>0 DEF ppc_prelink_conflict_rela, Sound, IfuncWord, Slot, Unneeded,
       ppc_Word, ppc_Half, ppc_Low, ppc_Predicted, ppc_DtpRel,
       ppc_DtpRel16, ppc_TpRel, ppc_TpRel16, PpcRest
  <2> QED BY <1>4, <2>1
<1>12. CASE z.type \in ppc_TpRel
  <2>0. z.type \notin ld_data /\ z.type \in Tls /\ (c.found => c.isTls)
    BY <1>1, <1>12, PpcTypes DEF Sound, ld_data, PpcPlain, PpcRest, PpcTls, ppc_Word, ppc_Half,
       ppc_Low, ppc_Predicted, ppc_DtpRel,
       ppc_DtpRel16, ppc_TpRel, ppc_TpRel16
  <2>1. cfl = None \/ \E t, v : cfl = Entry(t, v) /\ (z.type \in ld_data => Pair(t))
    BY <1>1, <1>2, <1>12, <2>0 DEF ppc_prelink_conflict_rela, Sound, IfuncWord, Slot, Unneeded,
       ppc_Word, ppc_Half, ppc_Low, ppc_Predicted, ppc_DtpRel,
       ppc_DtpRel16, ppc_TpRel, ppc_TpRel16, PpcRest
  <2> QED BY <1>4, <2>1
<1> QED BY <1>5, <1>6, <1>7, <1>8, <1>9, <1>10, <1>11, <1>12, PpcTypes DEF Ppc, PpcPlain,
   PpcRest, PpcTls, ppc_Word, ppc_Half, ppc_Low, ppc_Predicted, ppc_DtpRel, ppc_DtpRel16,
   ppc_TpRel, ppc_TpRel16

(* ppc64.                                                                  *)
LEMMA Ppc64Takes ==
  ASSUME NEW z \in Relocs, z.ok, LdType("ppc64", z), z.class = ld_class("ppc64"),
         NEW c, Sound("ppc64", z, c), NEW cfl, cfl = ConflictRel("ppc64", z, c, Block("self"))
  PROVE  Taken("ppc64", z, cfl)
<1> DEFINE Pair(t) ==
             \/ z.type \in {"RELATIVE", "IRELATIVE"} /\ t \in {"IRELATIVE"}
             \/ z.type \in {"ADDR64", "UADDR64"} /\ t \in {"ADDR64", "UADDR64", "IRELATIVE"}
             \/ z.type \in {"ADDR32", "UADDR32", "REL32"} /\ t \in {"ADDR32", "UADDR32"}
             \/ z.type \in {"REL64"} /\ t \in {"ADDR64"}
             \/ z.type \in {"ADDR16", "UADDR16"} /\ t \in {"ADDR16", "UADDR16"}
<1>1. z.class = 8 /\ (z.type \in ld_data => z.type \in {"RELATIVE", "IRELATIVE", "ADDR32", "UADDR32", "ADDR64", "UADDR64", "ADDR16", "UADDR16", "REL32", "REL64"})
  BY Ppc64Types DEF ld_class, ld_data, Ppc64Plain, PpcPlain, PpcRest, Ppc64Tls, ppc_Word,
     ppc_Half, ppc_Low, ppc_Predicted, ppc64_Ds, ppc64_Higher, ppc64_DtpRel, ppc64_TpRel,
     ppc_DtpRel16, ppc_TpRel16, ppc64_Word
<1>2. cfl = ppc64_prelink_conflict_rela(z, c, Block("self"))
  BY DEF ConflictRel, X86_64, Ppc, Mips
<1>3. ASSUME NEW t, NEW v, Pair(t) PROVE Fits("ppc64", z, [type |-> t, addend |-> v])
  <2>1. PICK e : e = [type |-> t, addend |-> v]
    OBVIOUS
  <2>2. e.type = t
    BY <2>1
  <2>3. ApplyConflict("ppc64", z, e) = ppc64_apply_conflict_rela(z, e)
    BY DEF ApplyConflict, X86_64, Ppc, Mips
  <2>4. ppc64_apply_conflict_rela(z, e).ok
    BY <1>3, <2>2, PutOk DEF ppc64_apply_conflict_rela
  <2>5. ld_width("ppc64", z) = (CASE z.type \in {"ADDR16", "UADDR16"} -> 2 [] z.type \in {"ADDR32", "UADDR32", "REL32"} -> 4 [] OTHER -> 8)
    BY <1>1, <1>3 DEF ld_width, Slot, s390_Half, s390_Dbl16, ppc_Half, ppc_Low, ppc_DtpRel16,
       ppc_TpRel16, ppc64_Ds, ppc64_Higher, mips_Got, mips_Global, mips_Undefined, mips_Defined,
       Tls, DtpOff, TpOff, DtpMod, Mips, X86_64, ppc_TpRel, ppc_DtpRel, mips_DtpRel, mips_TpRel,
       mips_DtpMod
  <2>6. RelocSize("ppc64", t) <= ld_width("ppc64", z)
    BY <1>1, <1>3, <2>5 DEF RelocSize, ppc64_reloc_size, Ppc64Plain, PpcPlain, PpcRest, Ppc64Tls,
       ppc_Word, ppc_Half, ppc_Low,
       ppc_Predicted, ppc64_Ds, ppc64_Higher, ppc64_DtpRel, ppc64_TpRel, ppc_DtpRel16, ppc_TpRel16, ppc64_Word, X86_64, Ppc, Mips
  <2> QED BY <2>1, <2>2, <2>3, <2>4, <2>6 DEF Fits
<1>4. ASSUME cfl = None \/ \E t, v : cfl = Entry(t, v) /\ (z.type \in ld_data => Pair(t))
      PROVE  Taken("ppc64", z, cfl)
  BY <1>3, <1>4 DEF Taken
<1>5. CASE z.type \in {"NONE", "COPY", "RELATIVE", "IRELATIVE", "JMP_IREL"}
  <2>1. cfl = None \/ \E t, v : cfl = Entry(t, v) /\ (z.type \in ld_data => Pair(t))
    BY <1>1, <1>2, <1>5 DEF ppc64_prelink_conflict_rela, Sound, IfuncWord, Slot, Unneeded,
       NoSymbol, ld_data, Ppc64Plain, PpcPlain, PpcRest, Ppc64Tls, ppc_Word, ppc_Half, ppc_Low,
       ppc_Predicted, ppc64_Ds, ppc64_Higher, ppc64_DtpRel, ppc64_TpRel, ppc_DtpRel16, ppc_TpRel16, ppc64_Word
  <2> QED BY <1>4, <2>1
<1>6. CASE z.type \in {"JMP_SLOT"}
  <2>0. z.type \notin ld_data /\ z.type \notin Ppc64Tls /\ ppc64_reloc_class(z.type) # "TLS"
    BY <1>1, <1>6 DEF ppc64_reloc_class, Ppc64Plain, PpcPlain, PpcRest, Ppc64Tls, ppc_Word,
       ppc_Half, ppc_Low,
       ppc_Predicted, ppc64_Ds, ppc64_Higher, ppc64_DtpRel, ppc64_TpRel, ppc_DtpRel16, ppc_TpRel16, ppc64_Word, ld_data
  <2>1. cfl = None \/ \E t, v : cfl = Entry(t, v) /\ (z.type \in ld_data => Pair(t))
    BY <1>1, <1>2, <1>6, <2>0 DEF ppc64_prelink_conflict_rela, Sound, IfuncWord, Slot, Unneeded,
       Ppc64Plain, PpcPlain, PpcRest, Ppc64Tls, ppc_Word, ppc_Half, ppc_Low,
       ppc_Predicted, ppc64_Ds, ppc64_Higher, ppc64_DtpRel, ppc64_TpRel, ppc_DtpRel16, ppc_TpRel16, ppc64_Word
  <2> QED BY <1>4, <2>1
<1>7. CASE z.type \in ppc64_Word \union {"ADDR32", "UADDR32"}
  <2>0. z.type \notin Ppc64Tls /\ ppc64_reloc_class(z.type) # "TLS" /\ (z.type \in {"ADDR32", "UADDR32"} => ~ c.ifunc)
    BY <1>1, <1>7 DEF ppc64_reloc_class, Sound, IfuncWord, Slot, NoSymbol, Ppc64Plain, PpcPlain,
       PpcRest, Ppc64Tls, ppc_Word, ppc_Half, ppc_Low,
       ppc_Predicted, ppc64_Ds, ppc64_Higher, ppc64_DtpRel, ppc64_TpRel, ppc_DtpRel16, ppc_TpRel16, ppc64_Word
  <2>1. cfl = None \/ \E t, v : cfl = Entry(t, v) /\ (z.type \in ld_data => Pair(t))
    BY <1>1, <1>2, <1>7, <2>0 DEF ppc64_prelink_conflict_rela, Sound, IfuncWord, Slot, Unneeded,
       Ppc64Plain, PpcPlain, PpcRest, Ppc64Tls, ppc_Word, ppc_Half, ppc_Low,
       ppc_Predicted, ppc64_Ds, ppc64_Higher, ppc64_DtpRel, ppc64_TpRel, ppc_DtpRel16, ppc_TpRel16, ppc64_Word
  <2> QED BY <1>4, <2>1
<1>8. CASE z.type \in ppc_Half
  <2>0. z.type \notin Ppc64Tls /\ ppc64_reloc_class(z.type) # "TLS" /\ ~ c.ifunc
    BY <1>1, <1>8 DEF ppc64_reloc_class, Sound, IfuncWord, Slot, NoSymbol, Ppc64Plain, PpcPlain,
       PpcRest, Ppc64Tls, ppc_Word, ppc_Half, ppc_Low,
       ppc_Predicted, ppc64_Ds, ppc64_Higher, ppc64_DtpRel, ppc64_TpRel, ppc_DtpRel16, ppc_TpRel16, ppc64_Word
  <2>1. cfl = None \/ \E t, v : cfl = Entry(t, v) /\ (z.type \in ld_data => Pair(t))
    BY <1>1, <1>2, <1>8, <2>0 DEF ppc64_prelink_conflict_rela, Sound, IfuncWord, Slot, Unneeded,
       Ppc64Plain, PpcPlain, PpcRest, Ppc64Tls, ppc_Word, ppc_Half, ppc_Low,
       ppc_Predicted, ppc64_Ds, ppc64_Higher, ppc64_DtpRel, ppc64_TpRel, ppc_DtpRel16, ppc_TpRel16, ppc64_Word
  <2> QED BY <1>4, <2>1
<1>9. CASE z.type \in ppc64_Higher \union ppc64_Ds
  <2>0. z.type \notin Ppc64Tls /\ ppc64_reloc_class(z.type) # "TLS" /\ ~ c.ifunc /\ z.type \notin ld_data
    BY <1>1, <1>9 DEF ppc64_reloc_class, Sound, IfuncWord, Slot, NoSymbol, Ppc64Plain, PpcPlain,
       PpcRest, Ppc64Tls, ppc_Word, ppc_Half, ppc_Low,
       ppc_Predicted, ppc64_Ds, ppc64_Higher, ppc64_DtpRel, ppc64_TpRel, ppc_DtpRel16, ppc_TpRel16, ppc64_Word, ld_data
  <2>1. cfl = None \/ \E t, v : cfl = Entry(t, v) /\ (z.type \in ld_data => Pair(t))
    BY <1>1, <1>2, <1>9, <2>0 DEF ppc64_prelink_conflict_rela, Sound, IfuncWord, Slot, Unneeded,
       Ppc64Plain, PpcPlain, PpcRest, Ppc64Tls, ppc_Word, ppc_Half, ppc_Low,
       ppc_Predicted, ppc64_Ds, ppc64_Higher, ppc64_DtpRel, ppc64_TpRel, ppc_DtpRel16, ppc_TpRel16, ppc64_Word
  <2> QED BY <1>4, <2>1
<1>10. CASE z.type \in {"REL32", "REL64"}
  <2>0. z.type \notin Ppc64Tls /\ ppc64_reloc_class(z.type) # "TLS" /\ ~ c.ifunc
    BY <1>1, <1>10 DEF ppc64_reloc_class, Sound, IfuncWord, Slot, NoSymbol, Ppc64Plain, PpcPlain,
       PpcRest, Ppc64Tls, ppc_Word, ppc_Half, ppc_Low,
       ppc_Predicted, ppc64_Ds, ppc64_Higher, ppc64_DtpRel, ppc64_TpRel, ppc_DtpRel16, ppc_TpRel16, ppc64_Word
  <2>1. cfl = None \/ \E t, v : cfl = Entry(t, v) /\ (z.type \in ld_data => Pair(t))
    BY <1>1, <1>2, <1>10, <2>0 DEF ppc64_prelink_conflict_rela, Sound, IfuncWord, Slot, Unneeded,
       Ppc64Plain, PpcPlain, PpcRest, Ppc64Tls, ppc_Word, ppc_Half, ppc_Low,
       ppc_Predicted, ppc64_Ds, ppc64_Higher, ppc64_DtpRel, ppc64_TpRel, ppc_DtpRel16, ppc_TpRel16, ppc64_Word
  <2> QED BY <1>4, <2>1
<1>11. CASE z.type \in {"ADDR24", "ADDR14", "REL24"} \union ppc_Predicted
  <2>0. z.type \notin Ppc64Tls /\ ppc64_reloc_class(z.type) # "TLS" /\ ~ c.ifunc /\ z.type \notin ld_data
    BY <1>1, <1>11 DEF ppc64_reloc_class, Sound, IfuncWord, Slot, NoSymbol, Ppc64Plain, PpcPlain,
       PpcRest, Ppc64Tls, ppc_Word, ppc_Half, ppc_Low,
       ppc_Predicted, ppc64_Ds, ppc64_Higher, ppc64_DtpRel, ppc64_TpRel, ppc_DtpRel16, ppc_TpRel16, ppc64_Word, ld_data
  <2>1. cfl = None \/ \E t, v : cfl = Entry(t, v) /\ (z.type \in ld_data => Pair(t))
    BY <1>1, <1>2, <1>11, <2>0 DEF ppc64_prelink_conflict_rela, Sound, IfuncWord, Slot, Unneeded,
       Ppc64Plain, PpcPlain, PpcRest, Ppc64Tls, ppc_Word, ppc_Half, ppc_Low,
       ppc_Predicted, ppc64_Ds, ppc64_Higher, ppc64_DtpRel, ppc64_TpRel, ppc_DtpRel16, ppc_TpRel16, ppc64_Word
  <2> QED BY <1>4, <2>1
<1>12. CASE z.type \in {"DTPMOD64"}
  <2>0. z.type \notin ld_data /\ z.type \in Tls /\ (c.found => c.isTls)
    BY <1>1, <1>12, Ppc64Types DEF Sound, ld_data, Ppc64Plain, PpcPlain, PpcRest, Ppc64Tls,
       ppc_Word, ppc_Half, ppc_Low,
       ppc_Predicted, ppc64_Ds, ppc64_Higher, ppc64_DtpRel, ppc64_TpRel, ppc_DtpRel16, ppc_TpRel16, ppc64_Word
  <2>1. cfl = None \/ \E t, v : cfl = Entry(t, v) /\ (z.type \in ld_data => Pair(t))
    BY <1>1, <1>2, <1>12, <2>0 DEF ppc64_prelink_conflict_rela, Sound, IfuncWord, Slot, Unneeded,
       Ppc64Plain, PpcPlain, PpcRest, Ppc64Tls, ppc_Word, ppc_Half, ppc_Low,
       ppc_Predicted, ppc64_Ds, ppc64_Higher, ppc64_DtpRel, ppc64_TpRel, ppc_DtpRel16, ppc_TpRel16, ppc64_Word
  <2> QED BY <1>4, <2>1
<1>13. CASE z.type \in ppc64_DtpRel
  <2>0. z.type \notin ld_data /\ z.type \in Tls /\ (c.found => c.isTls)
    BY <1>1, <1>13, Ppc64Types DEF Sound, ld_data, Ppc64Plain, PpcPlain, PpcRest, Ppc64Tls,
       ppc_Word, ppc_Half, ppc_Low,
       ppc_Predicted, ppc64_Ds, ppc64_Higher, ppc64_DtpRel, ppc64_TpRel, ppc_DtpRel16, ppc_TpRel16, ppc64_Word
  <2>1. cfl = None \/ \E t, v : cfl = Entry(t, v) /\ (z.type \in ld_data => Pair(t))
    BY <1>1, <1>2, <1>13, <2>0 DEF ppc64_prelink_conflict_rela, Sound, IfuncWord, Slot, Unneeded,
       Ppc64Plain, PpcPlain, PpcRest, Ppc64Tls, ppc_Word, ppc_Half, ppc_Low,
       ppc_Predicted, ppc64_Ds, ppc64_Higher, ppc64_DtpRel, ppc64_TpRel, ppc_DtpRel16, ppc_TpRel16, ppc64_Word
  <2> QED BY <1>4, <2>1
<1>14. CASE z.type \in ppc64_TpRel
  <2>0. z.type \notin ld_data /\ z.type \in Tls /\ (c.found => c.isTls)
    BY <1>1, <1>14, Ppc64Types DEF Sound, ld_data, Ppc64Plain, PpcPlain, PpcRest, Ppc64Tls,
       ppc_Word, ppc_Half, ppc_Low,
       ppc_Predicted, ppc64_Ds, ppc64_Higher, ppc64_DtpRel, ppc64_TpRel, ppc_DtpRel16, ppc_TpRel16, ppc64_Word
  <2>1. cfl = None \/ \E t, v : cfl = Entry(t, v) /\ (z.type \in ld_data => Pair(t))
    BY <1>1, <1>2, <1>14, <2>0 DEF ppc64_prelink_conflict_rela, Sound, IfuncWord, Slot, Unneeded,
       Ppc64Plain, PpcPlain, PpcRest, Ppc64Tls, ppc_Word, ppc_Half, ppc_Low,
       ppc_Predicted, ppc64_Ds, ppc64_Higher, ppc64_DtpRel, ppc64_TpRel, ppc_DtpRel16, ppc_TpRel16, ppc64_Word
  <2> QED BY <1>4, <2>1
<1> QED BY <1>5, <1>6, <1>7, <1>8, <1>9, <1>10, <1>11, <1>12, <1>13, <1>14, Ppc64Types
   DEF Ppc64Plain, PpcPlain, PpcRest, Ppc64Tls, ppc_Word, ppc_Half, ppc_Low, ppc_Predicted,
   ppc64_Ds, ppc64_Higher, ppc64_DtpRel, ppc64_TpRel, ppc_DtpRel16, ppc_TpRel16, ppc64_Word

(* sparc.                                                                  *)
LEMMA SparcTakes ==
  ASSUME NEW z \in Relocs, z.ok, LdType("sparc", z), z.class = ld_class("sparc"),
         NEW c, Sound("sparc", z, c), NEW cfl, cfl = ConflictRel("sparc", z, c, Block("self"))
  PROVE  Taken("sparc", z, cfl)
<1> DEFINE Pair(t) ==
             \/ z.type \in {"32", "UA32", "DISP32"} /\ t \in {"32", "UA32"}
             \/ z.type \in {"16", "UA16", "DISP16"} /\ t \in {"16", "UA16"}
             \/ z.type \in {"8", "DISP8"} /\ t \in {"8"}
<1>1. z.class = 4 /\ (z.type \in ld_data => z.type \in {"RELATIVE", "32", "UA32", "16", "UA16", "8", "DISP8", "DISP16", "DISP32"})
  BY SparcTypes DEF ld_class, ld_data, Sparcs, SparcPlain, Sparc64Plain, SparcWhole, SparcDisp,
     sparc64_Insns, SparcTls, sparc_Tls, sparc64_Tls
<1>2. cfl = sparc_prelink_conflict_rela(z, c, Block("self"))
  BY DEF ConflictRel, X86_64, Ppc, Mips
<1>3. ASSUME NEW t, NEW v, Pair(t) PROVE Fits("sparc", z, [type |-> t, addend |-> v])
  <2>1. PICK e : e = [type |-> t, addend |-> v]
    OBVIOUS
  <2>2. e.type = t
    BY <2>1
  <2>3. ApplyConflict("sparc", z, e) = sparc_apply_conflict_rela(z, e)
    BY DEF ApplyConflict, X86_64, Ppc, Mips
  <2>4. sparc_apply_conflict_rela(z, e).ok
    BY <1>3, <2>2, PutOk DEF sparc_apply_conflict_rela
  <2>5. ld_width("sparc", z) = (CASE z.type \in {"32", "UA32", "DISP32"} -> 4 [] z.type \in {"16", "UA16", "DISP16"} -> 2
            [] z.type \in {"8", "DISP8"} -> 1 [] OTHER -> 8)
    BY <1>1, <1>3 DEF ld_width, Slot, s390_Half, s390_Dbl16, ppc_Half, ppc_Low, ppc_DtpRel16,
       ppc_TpRel16, ppc64_Ds, ppc64_Higher, mips_Got, mips_Global, mips_Undefined, mips_Defined,
       Tls, DtpOff, TpOff, DtpMod, Mips, X86_64, ppc_TpRel, ppc_DtpRel, mips_DtpRel, mips_TpRel,
       mips_DtpMod
  <2>6. RelocSize("sparc", t) <= ld_width("sparc", z)
    BY <1>1, <1>3, <2>5 DEF RelocSize, sparc_reloc_size, X86_64, Ppc, Mips
  <2> QED BY <2>1, <2>2, <2>3, <2>4, <2>6 DEF Fits
<1>4. ASSUME cfl = None \/ \E t, v : cfl = Entry(t, v) /\ (z.type \in ld_data => Pair(t))
      PROVE  Taken("sparc", z, cfl)
  BY <1>3, <1>4 DEF Taken
<1>5. CASE z.type \in {"NONE", "COPY", "RELATIVE"}
  <2>1. cfl = None \/ \E t, v : cfl = Entry(t, v) /\ (z.type \in ld_data => Pair(t))
    BY <1>1, <1>2, <1>5 DEF sparc_prelink_conflict_rela, Sound, IfuncWord, Slot, NoSymbol, sparc_Tls
  <2> QED BY <1>4, <2>1
<1>6. CASE z.type \in sparc_Tls
  <2>0. z.type \notin ld_data /\ z.type \in Tls /\ (c.found => c.isTls) /\ ~ c.ifunc
    BY <1>1, <1>6, SparcTypes DEF Sound, ld_data, Sparcs, SparcPlain, Sparc64Plain, SparcWhole,
       SparcDisp, sparc64_Insns, SparcTls,
       sparc_Tls, sparc64_Tls
  <2>1. cfl = None \/ \E t, v : cfl = Entry(t, v) /\ (z.type \in ld_data => Pair(t))
    BY <1>1, <1>2, <1>6, <2>0 DEF sparc_prelink_conflict_rela, Sound, IfuncWord, Slot, sparc_Tls,
       sparc64_Tls, sparc64_Insns, ld_data
  <2> QED BY <1>4, <2>1
<1>7. CASE z.type \in {"JMP_SLOT"} \union SparcPlain
  <2>0. ~ c.ifunc /\ z.type \notin sparc_Tls
    BY <1>1, <1>7 DEF Sound, IfuncWord, X86_64, Ppc, Sparcs, SparcPlain, Sparc64Plain,
       SparcWhole, SparcDisp, sparc64_Insns, SparcTls,
       sparc_Tls, sparc64_Tls
  <2>1. cfl = None \/ \E t, v : cfl = Entry(t, v) /\ (z.type \in ld_data => Pair(t))
    BY <1>1, <1>2, <1>7, <2>0 DEF sparc_prelink_conflict_rela, Sound, IfuncWord, Slot, sparc_Tls,
       sparc64_Tls, sparc64_Insns, ld_data, SparcPlain
  <2> QED BY <1>4, <2>1
<1> QED BY <1>5, <1>6, <1>7, SparcTypes DEF Sparcs, SparcPlain, Sparc64Plain, SparcWhole,
   SparcDisp, sparc64_Insns, SparcTls, sparc_Tls, sparc64_Tls

(* sparc64.                                                                *)
LEMMA Sparc64Takes ==
  ASSUME NEW z \in Relocs, z.ok, LdType("sparc64", z), z.class = ld_class("sparc64"),
         NEW c, Sound("sparc64", z, c), NEW cfl, cfl = ConflictRel("sparc64", z, c, Block("self"))
  PROVE  Taken("sparc64", z, cfl)
<1> DEFINE Pair(t) ==
             \/ z.type \in {"32", "UA32", "DISP32"} /\ t \in {"32", "UA32"}
             \/ z.type \in {"16", "UA16", "DISP16"} /\ t \in {"16", "UA16"}
             \/ z.type \in {"8", "DISP8"} /\ t \in {"8"}
             \/ z.type \in {"64", "UA64", "DISP64"} /\ t \in {"64", "UA64"}
<1>1. z.class = 8 /\ (z.type \in ld_data => z.type \in {"RELATIVE", "32", "UA32", "16", "UA16", "8", "DISP8", "DISP16", "DISP32", "64", "UA64", "DISP64"})
  BY SparcTypes DEF ld_class, ld_data, Sparcs, SparcPlain, Sparc64Plain, SparcWhole, SparcDisp,
     sparc64_Insns, SparcTls, sparc_Tls, sparc64_Tls
<1>2. cfl = sparc64_prelink_conflict_rela(z, c, Block("self"))
  BY DEF ConflictRel, X86_64, Ppc, Mips
<1>3. ASSUME NEW t, NEW v, Pair(t) PROVE Fits("sparc64", z, [type |-> t, addend |-> v])
  <2>1. PICK e : e = [type |-> t, addend |-> v]
    OBVIOUS
  <2>2. e.type = t
    BY <2>1
  <2>3. ApplyConflict("sparc64", z, e) = sparc64_apply_conflict_rela(z, e)
    BY DEF ApplyConflict, X86_64, Ppc, Mips
  <2>4. sparc64_apply_conflict_rela(z, e).ok
    BY <1>3, <2>2, PutOk DEF sparc64_apply_conflict_rela, sparc_apply_conflict_rela
  <2>5. ld_width("sparc64", z) = (CASE z.type \in {"32", "UA32", "DISP32"} -> 4 [] z.type \in {"16", "UA16", "DISP16"} -> 2
            [] z.type \in {"8", "DISP8"} -> 1 [] OTHER -> 8)
    BY <1>1, <1>3 DEF ld_width, Slot, s390_Half, s390_Dbl16, ppc_Half, ppc_Low, ppc_DtpRel16,
       ppc_TpRel16, ppc64_Ds, ppc64_Higher, mips_Got, mips_Global, mips_Undefined, mips_Defined,
       Tls, DtpOff, TpOff, DtpMod, Mips, X86_64, ppc_TpRel, ppc_DtpRel, mips_DtpRel, mips_TpRel,
       mips_DtpMod
  <2>6. RelocSize("sparc64", t) <= ld_width("sparc64", z)
    BY <1>1, <1>3, <2>5 DEF RelocSize, sparc64_reloc_size, SPARC64_R_TYPE, X86_64, Ppc, Mips
  <2> QED BY <2>1, <2>2, <2>3, <2>4, <2>6 DEF Fits
<1>4. ASSUME cfl = None \/ \E t, v : cfl = Entry(t, v) /\ (z.type \in ld_data => Pair(t))
      PROVE  Taken("sparc64", z, cfl)
  BY <1>3, <1>4 DEF Taken
<1>5. CASE z.type \in {"NONE", "COPY", "RELATIVE"}
  <2>1. cfl = None \/ \E t, v : cfl = Entry(t, v) /\ (z.type \in ld_data => Pair(t))
    BY <1>1, <1>2, <1>5 DEF sparc64_prelink_conflict_rela, Sound, IfuncWord, Slot, NoSymbol,
       sparc64_Tls
  <2> QED BY <1>4, <2>1
<1>6. CASE z.type \in sparc64_Tls
  <2>0. z.type \notin ld_data /\ z.type \in Tls /\ (c.found => c.isTls) /\ ~ c.ifunc
    BY <1>1, <1>6, SparcTypes DEF Sound, ld_data, Sparcs, SparcPlain, Sparc64Plain, SparcWhole,
       SparcDisp, sparc64_Insns, SparcTls,
       sparc_Tls, sparc64_Tls
  <2>1. cfl = None \/ \E t, v : cfl = Entry(t, v) /\ (z.type \in ld_data => Pair(t))
    BY <1>1, <1>2, <1>6, <2>0 DEF sparc64_prelink_conflict_rela, Sound, IfuncWord, Slot,
       sparc_Tls, sparc64_Tls, sparc64_Insns, ld_data
  <2> QED BY <1>4, <2>1
<1>7. CASE z.type \in {"JMP_SLOT"} \union SparcWhole \union SparcDisp
  <2>0. ~ c.ifunc /\ z.type \notin sparc64_Tls
    BY <1>1, <1>7 DEF Sound, IfuncWord, X86_64, Ppc, Sparcs, SparcPlain, Sparc64Plain,
       SparcWhole, SparcDisp, sparc64_Insns, SparcTls,
       sparc_Tls, sparc64_Tls
  <2>1. cfl = None \/ \E t, v : cfl = Entry(t, v) /\ (z.type \in ld_data => Pair(t))
    BY <1>1, <1>2, <1>7, <2>0 DEF sparc64_prelink_conflict_rela, Sound, IfuncWord, Slot,
       sparc_Tls, sparc64_Tls, sparc64_Insns, ld_data, SparcWhole, SparcDisp
  <2> QED BY <1>4, <2>1
<1>8. CASE z.type \in sparc64_Insns
  <2>0. ~ c.ifunc /\ z.type \notin sparc64_Tls
    BY <1>1, <1>8 DEF Sound, IfuncWord, X86_64, Ppc, Sparcs, SparcPlain, Sparc64Plain,
       SparcWhole, SparcDisp, sparc64_Insns, SparcTls,
       sparc_Tls, sparc64_Tls
  <2>1. cfl = None \/ \E t, v : cfl = Entry(t, v) /\ (z.type \in ld_data => Pair(t))
    BY <1>1, <1>2, <1>8, <2>0 DEF sparc64_prelink_conflict_rela, Sound, IfuncWord, Slot,
       sparc_Tls, sparc64_Tls, sparc64_Insns, ld_data
  <2> QED BY <1>4, <2>1
<1> QED BY <1>5, <1>6, <1>7, <1>8, SparcTypes DEF Sparcs, SparcPlain, Sparc64Plain, SparcWhole,
   SparcDisp, sparc64_Insns, SparcTls, sparc_Tls, sparc64_Tls

(* Being a member is true or false.                                        *)
LEMMA MemberIs ==
  ASSUME NEW b, NEW S, NEW x, b = (x \in S)
  PROVE  b \in BOOLEAN
<1>1. CASE x \in S
  BY SMT, <1>1
<1>2. CASE x \notin S
  BY SMT, <1>2
<1> QED BY <1>1, <1>2

(* The conflict of a word satisfies what the callbacks rely on.            *)
LEMMA SoundIs ==
  ASSUME arch \in RelaArchs, NEW z, FormA(arch, orig), KinA(arch, z, orig),
         NEW d \in OwnSymbols(arch, orig), NEW g \in GlobalSymbols(arch, orig, d),
         NEW c, c = ConflictOf(z, d, g)
  PROVE  Sound(arch, z, c)
<1> DEFINE s == Resolve(z, d)
<1>1. z \in Relocs /\ z.type = orig.type /\ z.exec = orig.exec /\ z.class = orig.class
  BY DEF KinA, Placed
<1>2. RelocClass(arch, orig.type) = "TLS" <=> orig.type \in Tls
  BY TlsTypes DEF FormA
<1>3. Viewed(arch, z, orig, s, c, g)
  BY <1>1, <1>2, ViewA
<1> HIDE DEF s
<1>4. CASE z.type \in NoSymbol
  <2>1. c = NoConflict /\ z.type \notin Tls
    BY <1>3, <1>4, TlsHasSymbol DEF Viewed
  <2>2. ~ c.found /\ ~ c.ifunc /\ c.found \in BOOLEAN /\ c.ifunc \in BOOLEAN
    BY <2>1, NoConflictIs
  <2> QED BY <2>1, <2>2 DEF Sound
<1>5. CASE z.type \in Tls
  <2>1. c.found \in BOOLEAN /\ ~ c.ifunc /\ (c.found => c.isTls) /\ z.type \notin NoSymbol
    BY <1>3, <1>5, TlsHasSymbol DEF Viewed, TlsSym
  <2>2. c.ifunc \in BOOLEAN
    <3>1. c = NoConflict \/ c.ifunc = (g \in Ifunc)
      BY DEF ConflictOf
    <3>2. CASE c = NoConflict
      BY <3>2, NoConflictIs
    <3>3. CASE c.ifunc = (g \in Ifunc)
      BY <3>3, MemberIs
    <3> QED BY <3>1, <3>2, <3>3
  <2> QED BY <2>1, <2>2 DEF Sound
<1>6. CASE z.type \notin NoSymbol \union Tls
  <2>1. c.found \in BOOLEAN /\ c.ifunc \in BOOLEAN /\ (c.ifunc => IfuncFits(arch, orig))
    BY <1>3, <1>6 DEF Viewed, PlainSym
  <2>2. IfuncFits(arch, orig) => IfuncWord(arch, z)
    <3>1. arch \notin RelArchs /\ orig.type # "ABS32"
      <4>1. LdType(arch, orig)
        BY DEF FormA
      <4> QED BY <4>1, BranchTypes, ArchCases
    <3> QED BY <1>1, <3>1 DEF IfuncFits, IfuncWord, RelArchs, Mips, X86_64, Ppc
  <2> QED BY <1>6, <2>1, <2>2 DEF Sound
<1> QED BY <1>4, <1>5, <1>6

(* So every conflict is accepted.                                          *)
LEMMA ConflictTaken ==
  ASSUME arch \in RelaArchs, NEW z, FormA(arch, orig), KinA(arch, z, orig), z.ok,
         NEW d \in OwnSymbols(arch, orig), NEW g \in GlobalSymbols(arch, orig, d),
         NEW cfl, cfl = ConflictRel(arch, z, ConflictOf(z, d, g), Block("self"))
  PROVE  Taken(arch, z, cfl)
<1>1. PICK c : c = ConflictOf(z, d, g)
  OBVIOUS
<1>2. Sound(arch, z, c) /\ cfl = ConflictRel(arch, z, c, Block("self"))
  BY <1>1, SoundIs
<1>3. z \in Relocs /\ z.class = ld_class(arch) /\ LdType(arch, z)
  BY DEF KinA, FormA, Placed, LdType
<1>4. CASE arch \in X86_64
  BY <1>2, <1>3, <1>4, X8664Takes
<1>5. CASE arch \in S390
  BY <1>2, <1>3, <1>5, S390Takes, S390xTakes DEF S390
<1>6. CASE arch = "sh"
  BY <1>2, <1>3, <1>6, ShTakes
<1>7. CASE arch = "alpha"
  BY <1>2, <1>3, <1>7, AlphaTakes
<1>8. CASE arch \in Ppc
  <2>1. z.type = "JMP_SLOT" /\ c.ifunc => ppc_got(z)
    <3> SUFFICES ASSUME z.type = "JMP_SLOT", c.ifunc PROVE ppc_got(z)
      OBVIOUS
    <3>1. arch = "ppc"
      BY <1>2, <1>8 DEF Sound, IfuncWord, Ppc, Slot
    <3> QED BY <1>8, <3>1, PpcCode DEF Slot
  <2> QED BY <1>2, <1>3, <1>8, <2>1, PpcTakes
<1>9. CASE arch = "ppc64"
  BY <1>2, <1>3, <1>9, Ppc64Takes
<1>10. CASE arch \in Sparcs
  BY <1>2, <1>3, <1>10, SparcTakes, Sparc64Takes DEF Sparcs
<1> QED BY <1>4, <1>5, <1>6, <1>7, <1>8, <1>9, <1>10, RelaNames

(* The conflicts of an executable have always been built.                  *)
NoRefusal == arch \in RelaArchs => ~ exe.refused

(* ConflictsAccepted: on every architecture with RELA relocations, no      *)
(* sequence of prelinking, moving and undoing brings a word into a state   *)
(* from which prelink_build_conflicts fails: no conflict callback refuses  *)
(* it, and its conflict fits into the copy of the variable that it is in   *)
(* and can be applied there (get_relocated_mem).                           *)
THEOREM ConflictsAcceptedHolds == Spec => [](arch \in RelaArchs => ConflictsAccepted)
<1>1. Init => NoRefusal
  BY DEF Init, NoRefusal, NoExe
<1>2. Inv /\ NoRefusal /\ [Next]_vars => NoRefusal'
  <2> SUFFICES ASSUME Inv, NoRefusal, [Next]_vars PROVE NoRefusal'
    OBVIOUS
  <2>1. ~ NoExe.refused
    BY DEF NoExe
  <2>2. arch' = arch
    BY DEF Next, vars, PrelinkLibrary, PrelinkUser, PrelinkExecutable, Undo, RelocOnly
  <2>3. CASE exe' = NoExe \/ exe' = exe
    BY <2>1, <2>2, <2>3 DEF NoRefusal
  <2>4. ASSUME arch \in RelaArchs
        PROVE  FormA(arch, orig) /\ KinA(arch, r, orig) /\ r.type = orig.type
    BY <2>4 DEF Inv, KinInv, Kin, Form, RelaArchs, KinA
  <2>5. ASSUME NEW g \in GlobalSymbols(arch, orig, own), NEW copied \in BOOLEAN,
               NEW full \in BOOLEAN, PrelinkUser(g, copied, full)
        PROVE  NoRefusal'
    <3> SUFFICES ASSUME arch \in RelaArchs PROVE ~ exe'.refused
      BY <2>2 DEF NoRefusal
    <3> DEFINE cfl == ConflictRel(arch, r, ConflictOf(r, own, g), Block("self"))
               copy == CopyOf(r, cfl.rela, full)
               x == Executable(g, cfl.rela, full, copied, copy)
    <3>1. /\ r.ok /\ own # "no" /\ (copied => orig.type \in ld_data)
          /\ exe' = IF cfl.ok /\ (copied => copy.ok) THEN x ELSE RefusedExe(g)
      BY <2>5 DEF PrelinkUser
    <3>2. own \in OwnSymbols(arch, orig)
      BY <3>1 DEF Inv, TypeInv
    <3>3. Taken(arch, r, cfl)
      BY <2>4, <3>1, <3>2, ConflictTaken
    <3>4. ~ x.refused
      BY DEF Executable
    <3> HIDE DEF cfl, x
    <3>5. cfl.ok /\ (copied => copy.ok)
      <4>1. CASE cfl = None
        BY <4>1 DEF None, CopyOf
      <4>2. CASE cfl # None
        <5>1. PICK t, v : /\ cfl = Entry(t, v)
                          /\ r.type \in ld_data => Fits(arch, r, [type |-> t, addend |-> v])
          BY <3>3, <4>2 DEF Taken
        <5>2. cfl.ok /\ cfl.rela # << >> /\ cfl.rela[1] = [type |-> t, addend |-> v]
          BY <5>1, EntryIs
        <5>3. ASSUME copied PROVE copy.ok
          <6>1. PICK e : e = cfl.rela[1]
            OBVIOUS
          <6>2. Fits(arch, r, e)
            BY <2>4, <3>1, <5>1, <5>2, <5>3, <6>1
          <6>3. copy.ok = (RelocSize(arch, e.type) <= ld_width(arch, r) /\ ApplyConflict(arch, r, e).ok)
            BY <5>2, <6>1 DEF CopyOf
          <6> QED BY <6>2, <6>3 DEF Fits
        <5> QED BY <5>2, <5>3
      <4> QED BY <4>1, <4>2
    <3> QED BY <3>1, <3>4, <3>5
  <2>6. ASSUME NEW d \in OwnSymbols(arch, orig), PrelinkExecutable(d)
        PROVE  NoRefusal'
    <3> SUFFICES ASSUME arch \in RelaArchs PROVE ~ exe'.refused
      BY <2>2 DEF NoRefusal
    <3> DEFINE cfl == ConflictRel(arch, r, ConflictOf(r, d, d), Block("self"))
               seen == ApplyRel(arch, r, Resolve(r, d))
               x == Executable(d, cfl.rela, FALSE, orig.type \in ld_data,
                               [ok |-> seen.ok, mem |-> seen.mem, rela |-> << >>])
    <3>1. r.ok /\ (cfl.ok => exe' \in {x, exe})
      BY <2>6 DEF PrelinkExecutable, Followed
    <3>2. d \in GlobalSymbols(arch, orig, d)
      BY OwnIs
    <3>3. Taken(arch, r, cfl)
      BY <2>4, <3>1, <3>2, ConflictTaken
    <3>4. ~ x.refused
      BY DEF Executable
    <3> HIDE DEF cfl, x
    <3>5. cfl.ok
      <4>1. CASE cfl = None
        BY <4>1 DEF None
      <4>2. CASE cfl # None
        <5>1. PICK t, v : cfl = Entry(t, v)
          BY <3>3, <4>2 DEF Taken
        <5> QED BY <5>1, EntryIs
      <4> QED BY <4>1, <4>2
    <3>6. CASE exe' = x
      BY <3>4, <3>6
    <3>7. CASE exe' = exe
      BY <3>7 DEF NoRefusal
    <3>8. exe' = x \/ exe' = exe
      BY <3>1, <3>5
    <3> QED BY <3>6, <3>7, <3>8
  <2>7. ASSUME NEW b \in Bases, NEW d \in OwnSymbols(arch, orig), PrelinkLibrary(b, d)
        PROVE  NoRefusal'
    BY <2>3, <2>7 DEF PrelinkLibrary
  <2>8. ASSUME Undo PROVE NoRefusal'
    BY <2>3, <2>8 DEF Undo
  <2>9. ASSUME NEW b \in Bases, RelocOnly(b) PROVE NoRefusal'
    BY <2>3, <2>9 DEF RelocOnly
  <2>10. ASSUME UNCHANGED vars PROVE NoRefusal'
    BY <2>3, <2>10 DEF vars
  <2> QED BY <2>5, <2>6, <2>7, <2>8, <2>9, <2>10 DEF Next
<1>3. NoRefusal => (arch \in RelaArchs => ConflictsAccepted)
  BY DEF NoRefusal, ConflictsAccepted
<1> QED BY <1>1, <1>2, <1>3, Inductive, PTL DEF Spec
=============================================================================
