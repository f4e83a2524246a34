-------------------------------- MODULE LdSo --------------------------------
(***************************************************************************)
(* ld and ld.so, which are not part of the repository: what prelink relies *)
(* on.  What ld leaves in the words of an object, what ld.so makes of a    *)
(* relocation and of a conflict, and what the symbol of a relocation may   *)
(* be.  `a' is the architecture, `q' a relocation (module Reloc).          *)
(***************************************************************************)
EXTENDS PLArch

Slot == {"JUMP_SLOT", "JMP_SLOT"}
TpOff == {"TPOFF64", "TLS_TPOFF", "TLS_TPOFF32", "TLS_TPOFF64", "TPREL64", "TLS_LE_HIX22",
          "TLS_LE_LOX10"} \union ppc_TpRel \union mips_TpRel
DtpOff == {"DTPOFF64", "TLS_DTPOFF", "TLS_DTPOFF32", "TLS_DTPOFF64", "DTPREL64"}
            \union ppc_DtpRel \union mips_DtpRel
DtpMod == {"DTPMOD64", "TLS_DTPMOD", "DTPMOD32"} \union mips_DtpMod
Tls == TpOff \union DtpOff \union DtpMod \union {"TLS_DESC", "TLS_DESC_NOW"}
NoSymbol == {"NONE", "RELATIVE", "IRELATIVE", "JMP_IREL", "COPY", "GOT_L"}
Predicted == ppc_Predicted
Dbl == s390_Dbl \union s390_Dbl16

PcRel(a) ==
  IF a \in Mips THEN {}
  ELSE {"PC64", "PC32", "PC16", "REL24", "REL32", "REL64", "DISP8", "DISP16", "DISP32", "DISP64",
        "WDISP30", "PC24"} \union Dbl

-----------------------------------------------------------------------------
(* Symbols.  A relocation has no symbol ("local"), or its symbol is found  *)
(* nowhere, in the object itself, in another library or in the executable; *)
(* selfi and otheri are ifuncs.                                            *)
Ifunc == {"selfi", "otheri"}

Address(d, base) ==
  CASE d \in {"none", "local"} -> 0
    [] d = "self" -> base + 12
    [] d = "selfi" -> base + 20
    [] d = "other" -> 5000000
    [] d = "otheri" -> 6000000
    [] d = "exe" -> 7000000

TlsAddress(d) == CASE d \in {"none", "local"} -> 0 [] d = "self" -> 12
                   [] d = "other" -> 20 [] d = "exe" -> 28

(* struct prelink_tls: the module and its offset from the thread pointer.  *)
Block(d) == CASE d \in {"local", "self"} -> [modid |-> 2, offset |-> 40]
              [] d = "other" -> [modid |-> 3, offset |-> 60]
              [] d = "exe" -> [modid |-> 1, offset |-> 24]
              [] OTHER -> [modid |-> 0, offset |-> 0]

Value(q, d) == IF q.type \in Tls THEN TlsAddress(d) ELSE Address(d, q.base)

(* An ifunc has no addend, and a word of the size of an address.           *)
IfuncFits(a, q) ==
  \/ /\ a \in X86_64 \union RelArchs \union {"s390", "s390x"} \union Ppc \union {"ppc64"}
     /\ a \notin Mips
     /\ \/ q.type \in {"GLOB_DAT", "ABS32"}
        \/ q.type \in {"32", "ADDR32", "UADDR32"} /\ q.class = 4
        \/ q.type \in {"64", "ADDR64", "UADDR64"} /\ q.class = 8
     /\ (IF q.rela THEN q.addend ELSE q.mem.val) = 0
  \/ a \in X86_64 \union {"i386", "s390", "s390x", "ppc", "ppc64", "arm"} /\ q.type \in Slot

Fitting(a, q, ds) == IF IfuncFits(a, q) THEN ds ELSE ds \ Ifunc

(* What the symbol may be when the object is prelinked, looked up in the   *)
(* object and its dependencies.                                            *)
OwnSymbols(a, q) ==
  CASE q.type \in NoSymbol -> {"local"}
    [] q.type \in Tls -> IF q.def THEN {"self"} ELSE {"other"} \union
                           (IF q.exec \/ q.type \in DtpOff THEN {} ELSE {"local"})
    [] OTHER -> Fitting(a, q, IF q.def THEN {"self", "selfi"} ELSE {"none", "other", "otheri"})

(* What it may be in a program: the same or, found first, something else.  *)
GlobalSymbols(a, q, d) ==
  IF d = "local" \/ q.exec THEN {d}
  ELSE {d} \union IF q.type \in Tls THEN {"other", "exe"} ELSE Fitting(a, q, {"other", "otheri", "exe"})

-----------------------------------------------------------------------------
(* What ld.so does.                                                        *)

(* The relocations of words in a variable, which are not instructions and  *)
(* not in the GOT or the PLT.                                              *)
ld_data == {"RELATIVE", "IRELATIVE", "8", "16", "UA16", "32", "UA32", "64", "UA64", "PC16", "PC32",
            "PC64", "DISP8", "DISP16", "DISP32", "DISP64", "ADDR16", "UADDR16", "ADDR32", "UADDR32",
            "ADDR64", "UADDR64", "REL32", "REL64", "DIR32", "REFQUAD", "ABS32"}

(* How many bytes the word has. *)
ld_width(a, q) ==
  LET half == {"16", "UA16", "DISP16"} \union s390_Half \union ppc_Half \union ppc_DtpRel16
                \union ppc_TpRel16 \union ppc64_Ds \union ppc64_Higher
      double == {"64", "UA64", "DISP64", "PC64", "DTPMOD64", "DTPOFF64", "TPOFF64"}
  IN  CASE q.type \in {"8", "DISP8"} -> 1
        [] q.type \in half -> 2
        [] q.type \in Slot \union {"JMP_IREL"} /\ a = "ppc64" -> 24
        [] q.type \in double -> 8
        [] \/ q.type \in {"GLOB_DAT", "RELATIVE", "IRELATIVE", "NONE", "COPY", "ADDR64", "UADDR64",
                         "REL64", "REFQUAD"} \union mips_Got
           \/ q.type \in Slot /\ a # "ppc64"
           \/ q.type \in Tls \ ({"TLS_LE_HIX22", "TLS_LE_LOX10"} \union half \union double)
           \/ q.type = "REL32" /\ a \in Mips -> q.class
        [] OTHER -> 4

(* A resolver, called. *)
ld_so_ifunc(addr) == addr + 1000

(* How a value goes into an instruction: divided, after rounding, into the *)
(* bits from lo to hi - 1; or, if hi is 0, all of the word.                *)
Bits(round, unit, lo, hi) == [round |-> round, unit |-> unit, lo |-> lo, hi |-> hi]

ld_so_field(type) ==
  CASE type \in Dbl -> Bits(0, 2, 0, 0)
    [] type \in {"ADDR24", "REL24"} -> Bits(0, 1, 2, 26)
    [] type \in {"ADDR14"} \union Predicted \union ppc64_Ds -> Bits(0, 1, 2, 16)
    [] type \in ppc_Low \union {"DTPREL16", "DTPREL16_LO", "TPREL16", "TPREL16_LO"} ->
         Bits(0, 1, 0, 16)
    [] type \in {"ADDR16_HI", "DTPREL16_HI", "TPREL16_HI"} -> Bits(0, 2^16, 0, 16)
    [] type \in {"ADDR16_HA", "DTPREL16_HA", "TPREL16_HA"} -> Bits(2^15, 2^16, 0, 16)
    [] type = "LO10" -> Bits(0, 1, 0, 10)
    [] type \in {"HI22", "LM22"} -> Bits(0, 2^10, 0, 22)
    [] type = "WDISP30" -> Bits(0, 4, 0, 30)
    [] type = "H44" -> Bits(0, 2^22, 0, 22)
    [] type = "M44" -> Bits(0, 2^12, 0, 10)
    [] type = "L44" -> Bits(0, 1, 0, 12)
    [] type = "PC24" -> Bits(0, 4, 0, 24)
    [] OTHER -> Bits(0, 1, 0, 0)

(* The halves above the 32nd bit are 0 for the addresses of the model. *)
ld_so_insert(type, word, x) ==
  LET f == ld_so_field(type)
      y == (x + f.round) \div f.unit
  IN  CASE type \in Predicted ->
             Insert(Insert(word, 2, 16, x), 21, 22, IF type = "ADDR14_BRTAKEN" THEN 2^21 ELSE 0)
        [] type \in ppc64_Higher -> 0
        [] type = "HH22" -> Insert(word, 0, 22, (x \div 2^22) \div 2^20)
        [] type = "HM10" -> Insert(word, 0, 10, (x \div 2^22) \div 2^10)
        [] type = "OLO10" -> Insert(word, 0, 13, x % 1024)
        [] type = "OLO10+8" -> Insert(word, 0, 13, (x % 1024) + 8)
        [] type = "TLS_LE_HIX22" -> Insert(word, 0, 22, (- x - 1) \div 1024)
        [] type = "TLS_LE_LOX10" -> Insert(word, 0, 13, (x % 1024) + 7168)
        [] OTHER -> IF f.hi = 0 THEN y ELSE Insert(word, f.lo, f.hi, y)

(* The addend that ld.so reads. *)
ld_so_addend(a, q) ==
  CASE q.rela -> q.addend
    [] ~ q.rela /\ q.type = "PC24" -> arm_pc24_addend(q.mem.val)
    [] ~ q.rela /\ ( \/ q.type \in {"GLOB_DAT", "TLS_DESC", "TLS_DESC_NOW"} \union Slot \union DtpMod
                       \union mips_Global
                     \/ q.type = "TLS_DTPOFF32" /\ a = "i386" ) -> 0
    [] OTHER -> q.mem.val

ld_so_tpoff(a, q, x, offset) ==
  CASE q.type = "TLS_TPOFF32" /\ a = "i386" -> offset - x
    [] a \in {"alpha", "arm"} -> x + offset
    [] a \in Ppc \union Mips \union {"ppc64"} -> x + offset - 28672
    [] OTHER -> x - offset

(* What the symbol d is, and the object, when ld.so maps it at base. *)
ld_so_mapped(q, base) == [q EXCEPT !.base = base]
ld_so_symbol(q, d) == IF d \in Ifunc THEN ld_so_ifunc(Value(q, d)) ELSE Value(q, d)

(* What is put into the word: s is the symbol and the addend. *)
ld_so_operand(a, q, s, d) ==
  CASE q.type \in PcRel(a) -> s - P(q)
    [] q.type \in DtpOff -> s - IF a \in Ppc \union Mips \union {"ppc64"} THEN 32768 ELSE 0
    [] q.type \in TpOff -> ld_so_tpoff(a, q, s, Block(d).offset)
    [] OTHER -> s

(* The word of q, and what its PLT entry calls, when ld.so maps the object *)
(* at base and the symbol is d.                                            *)
ld_so_relocate(a, q, base, d) ==
  LET at == ld_so_mapped(q, base)
      delta == base - q.base
      addend == ld_so_addend(a, q)
      s == ld_so_symbol(at, d) + addend
      word(x) == [width |-> ld_width(a, q), val |-> x, calls |-> 0]
      same == [width |-> q.mem.width, val |-> q.mem.val, calls |-> 0]
  IN  CASE q.type \in {"NONE", "COPY"} -> same
        [] q.type = "RELATIVE" ->
             word(delta + CASE a = "sparc" -> q.mem.val + q.addend
                            [] a = "alpha" \/ (a = "sh" /\ q.addend = 0) -> q.mem.val
                            [] OTHER -> addend)
        [] q.type = "IRELATIVE" -> word(ld_so_ifunc(addend + delta))
        [] q.type = "JMP_IREL" -> word(Opd(ld_so_ifunc(addend + delta)))
        [] q.type = "GOT_L" -> word(q.mem.val + delta)
        [] q.type = "TLS_DESC" -> word(arm_tlsdesc_plt(at))
        [] q.type = "TLS_DESC_NOW" -> word(s + Block(d).offset)
        [] q.type \in Slot /\ q.code # NoCode ->
             [(IF a = "alpha" THEN word(s) ELSE same) EXCEPT !.calls = s]
        [] q.type \in Slot /\ a = "sparc64" /\ q.addend # 0 -> word(s - delta)
        [] q.type \in Slot /\ a = "ppc64" -> word(Opd(s))
        [] q.type \in DtpMod -> word(Block(d).modid)
        [] OTHER -> word(ld_so_insert(q.type, q.mem.val, ld_so_operand(a, at, s, d)))

(* A slot of the GOT when it is bound lazily: got[1], if it is set, says   *)
(* where the PLT was.  Where the PLT is code, ld.so writes it anew.        *)
ld_plt_entry(a) ==
  CASE a \in X86_64 \union {"i386"} -> 16
    [] a \in {"s390", "s390x"} -> 32
    [] a = "sh" -> 28
    [] a = "ppc" -> 4
    [] OTHER -> 0

ld_so_lazy(a, q, base) ==
  CASE q.type = "GOT_E" -> q.mem.val + base - q.base
    [] q.type \in Slot /\ a \in X86_64 \union {"i386", "s390", "s390x", "sh", "ppc", "arm"}
                                \union Mips ->
         base - q.base + IF q.got = 0 THEN q.mem.val ELSE q.got + ld_plt_entry(a) * q.slot
    [] OTHER -> 0

(* What a PLT entry that is code calls, when the word is val. *)
ld_so_calls(a, q, val) ==
  LET entry == IF a = "alpha" THEN Plt(q) + 12 * q.slot ELSE P(q)
  IN  CASE q.code.how = "direct" -> entry + q.code.to
        [] q.code.how = "absolute" -> q.code.to
        [] q.code.how = "indirect" /\ entry + q.code.to = P(q) -> val
        [] OTHER -> 0

(* The word of a prelinked file after the conflicts of the executable have *)
(* been applied.                                                           *)
ld_so_conflicts(a, q, entries) ==
  LET e == entries[Len(entries)]
      word(width, val) == [width |-> width, val |-> val, calls |-> ld_so_calls(a, q, val)]
  IN  IF entries = << >> THEN word(q.mem.width, q.mem.val)
      ELSE CASE e.type = "TLS_DESC" -> word(q.mem.width, q.mem.val)
             [] e.type = "IRELATIVE" -> word(q.class, ld_so_ifunc(e.addend))
             [] e.type = "JMP_IREL" -> word(24, Opd(ld_so_ifunc(e.addend)))
             [] e.type \in Slot /\ a = "ppc64" -> word(24, Opd(e.addend))
             [] e.type \in Slot /\ q.code # NoCode ->
                  [(IF a = "alpha" THEN word(8, e.addend) ELSE word(q.mem.width, q.mem.val))
                     EXCEPT !.calls = e.addend]
             [] e.type \in {"64", "UA64", "ADDR64", "UADDR64"} -> word(8, e.addend)
             [] e.type \in {"32", "UA32", "ADDR32", "UADDR32", "ABS32"} -> word(4, e.addend)
             [] e.type \in {"ADDR16", "UADDR16"} -> word(2, Lo16(e.addend))
             [] e.type \in {"16", "UA16"} -> word(2, e.addend)
             [] e.type = "8" -> word(1, e.addend)
             [] OTHER -> word(q.class, e.addend)

-----------------------------------------------------------------------------
(* What ld leaves.                                                         *)

ld_types(a) ==
  {"NONE", "RELATIVE"} \union
  CASE a \in X86_64 -> {"IRELATIVE", "GLOB_DAT", "JUMP_SLOT", "32", "PC32", "64", "DTPMOD64",
                        "DTPOFF64", "TPOFF64"}
    [] a = "i386" -> {"IRELATIVE", "GLOB_DAT", "JMP_SLOT", "32", "PC32"} \union i386_tls
    [] a \in {"s390", "s390x"} ->
         {"IRELATIVE", "GLOB_DAT", "JMP_SLOT", "32", "PC32", "8"} \union s390_Half
           \union s390_Dbl \union s390_Tls \union (IF a = "s390" THEN {} ELSE {"64", "PC64"})
    [] a = "sh" -> {"GLOB_DAT", "JMP_SLOT", "DIR32", "REL32"}
    [] a = "alpha" -> {"GLOB_DAT", "JMP_SLOT", "REFQUAD"} \union alpha_Tls
    [] a \in Ppc ->
         {"IRELATIVE", "JMP_SLOT", "ADDR24", "ADDR14", "REL24", "REL32", "DTPMOD32"}
           \union ppc_Word \union ppc_Half \union Predicted \union ppc_DtpRel \union ppc_TpRel
    [] a = "ppc64" ->
         {"IRELATIVE", "JMP_IREL", "JMP_SLOT", "ADDR32", "UADDR32", "ADDR24", "ADDR14", "REL24",
          "REL32", "REL64", "DTPMOD64"}
           \union ppc64_Word \union ppc_Half \union ppc64_Ds \union ppc64_Higher \union Predicted
           \union ppc64_DtpRel \union ppc64_TpRel
    [] a = "sparc" ->
         {"GLOB_DAT", "JMP_SLOT", "32", "UA32", "16", "UA16", "8", "LO10", "HI22", "WDISP30",
          "DISP8", "DISP16", "DISP32"} \union sparc_Tls
    [] a = "sparc64" ->
         {"GLOB_DAT", "JMP_SLOT", "64", "UA64", "32", "UA32", "16", "UA16", "8", "DISP8",
          "DISP16", "DISP32", "DISP64"} \union sparc64_Insns \union sparc64_Tls
    [] a = "arm" -> {"IRELATIVE", "PC24", "TLS_DESC", "TLS_DESC_NOW"} \union arm_Words \union arm_Tls
    [] a = "mips" -> {"REL32", "TLS_DTPMOD32", "TLS_DTPREL32", "TLS_TPREL32"} \union mips_Got
    [] a = "mips64" -> {"REL32", "TLS_DTPMOD64", "TLS_DTPREL64", "TLS_TPREL64"} \union mips_Got

(* Executables are not relative, and the linker knows their TLS module;    *)
(* only they have COPY relocations (alpha has none) and, on MIPS, a PLT.   *)
ld_exec_types(a) ==
  (ld_types(a) \ ({"RELATIVE", "GOT_L", "GOT_E", "TLS_DESC", "TLS_DESC_NOW"}
                    \union IF a \in Mips THEN {} ELSE DtpMod \union DtpOff))
    \union (IF a = "alpha" THEN {} ELSE {"COPY"})
    \union (IF a = "mips" THEN {"JUMP_SLOT"} ELSE {})

ld_addends(a, type, base, addends) ==
  CASE type \in {"RELATIVE", "IRELATIVE", "JMP_IREL"} -> {base + 44}
    [] \/ type \in {"NONE", "COPY", "GLOB_DAT", "TLS_DESC", "TLS_DESC_NOW"} \union Slot
                    \union DtpMod \union mips_Got
       \/ type \in {"TLS_DTPOFF32", "TLS_TPOFF32"} /\ a = "i386" -> {0}
    [] OTHER -> addends

(* An instruction whose fields are clear. *)
ld_insn(type) ==
  CASE type \in {"ADDR24", "REL24"} -> 2^26 + 1
    [] type \in {"ADDR14"} \union Predicted -> 5 * 2^16 + 1
    [] type \in ppc64_Ds -> 1
    [] type \in sparc64_Insns \union {"TLS_LE_HIX22", "TLS_LE_LOX10"} -> 2^30
    [] type = "PC24" -> 5 * 2^24
    [] OTHER -> 0

(* q with a word of a REL or of a RELA section, and with a PLT entry that  *)
(* is code.                                                                *)
ld_rel(a, q, val) == Put(q, ld_width(a, q), val)
ld_rela(a, q, val, addend) == [ld_rel(a, q, val) EXCEPT !.rela = TRUE, !.addend = addend]
ld_lazy(a, q, val) == [ld_rela(a, q, val, 0) EXCEPT !.code = Lazy]

(* The relocation of a PLT slot; sparc64 has far PLT entries.              *)
ld_slot_words(a, q) ==
  LET plt == Plt(q) + ld_plt_entry(a) * q.slot
  IN  CASE a \in RelArchs -> {ld_rel(a, q, plt)}
        [] a \in {"sparc", "ppc_bss"} -> {ld_lazy(a, q, 0)}
        [] a = "sparc64" ->
             {ld_lazy(a, q, 0), ld_rela(a, q, Plt(q) - sparc64_far(q), - sparc64_far(q))}
        [] a = "alpha" -> {ld_lazy(a, q, Plt(q) + 12 * q.slot)}
        [] a = "ppc64" -> {ld_rela(a, q, 0, 0)}
        [] a \in X86_64 \union {"s390", "s390x", "sh", "ppc"} -> {ld_rela(a, q, plt, 0)}

(* The word of the MIPS GOT. *)
ld_got(q) ==
  CASE q.type = "GOT_L" -> q.base + 44
    [] q.type \in {"GOT_B", "GOT_E"} -> mips_stub(q)
    [] q.type = "GOT_F" -> StValue(q)
    [] OTHER -> 0

(* The relocation of another word: sh and sparc have the address of a      *)
(* RELATIVE in the addend or in the word.                                  *)
ld_rel_words(a, q, addend) ==
  CASE q.type \in mips_Got -> {ld_rel(a, q, ld_got(q))}
    [] q.type = "PC24" -> {ld_rel(a, q, arm_pc24(ld_insn("PC24"), addend))}
    [] OTHER -> {ld_rel(a, q, addend)}

ld_rela_words(a, q, addend) ==
  CASE q.type = "RELATIVE" /\ a \in {"sh", "sparc"} ->
         {ld_rela(a, q, 0, addend), ld_rela(a, q, addend, 0)}
    [] \/ q.type = "RELATIVE" /\ a \in X86_64 \union {"s390", "s390x", "alpha", "ppc64"}
       \/ q.type = "IRELATIVE" /\ a \in X86_64 \union {"s390", "s390x", "ppc64"}
       \/ q.type = "ADDR64" -> {ld_rela(a, q, addend, addend)}
    [] q.type = "GLOB_DAT" /\ a = "alpha" -> {ld_rela(a, q, StValue(q) + addend, addend)}
    [] OTHER -> {ld_rela(a, q, ld_insn(q.type), addend)}

(* q with the words that ld may give it. *)
ld_words(a, q, addend) ==
  IF q.type \in Slot THEN ld_slot_words(a, q)
  ELSE IF a \in RelArchs THEN ld_rel_words(a, q, addend) ELSE ld_rela_words(a, q, addend)

ld_class(a) ==
  IF a \in {"x86_64", "s390x", "alpha", "ppc64", "sparc64", "mips64"} THEN 8 ELSE 4

(* The symbol of an executable's relocation is defined in a library.       *)
ld_defined(type, exec) ==
  CASE type \in NoSymbol \union mips_Undefined \union {"GOT_D"} -> {FALSE}
    [] type \in mips_Defined -> {TRUE}
    [] OTHER -> IF exec THEN {FALSE} ELSE BOOLEAN

(* Libraries are linked at 0. *)
ld_base(exec) == IF exec THEN 100000 ELSE 0

(* A relocation whose word is still to be written.  ppc has the PLT in     *)
(* code or not for all of an object.                                       *)
ld_blank(a, type, slot, exec, def) ==
  [type |-> type, rela |-> FALSE, addend |-> 0, mem |-> [width |-> 0, val |-> 0], got |-> 0,
   base |-> ld_base(exec), off |-> 32 + 9 * slot, inGot |-> type \in Slot \union {"GLOB_DAT"},
   slot |-> slot, exec |-> exec, class |-> ld_class(a), def |-> def,
   code |-> IF a = "ppc_bss" THEN Lazy ELSE NoCode, ok |-> TRUE]

(* The relocations of objects of architecture a. *)
ld_relocations(a, slots, addends) ==
  UNION {UNION {UNION {ld_words(a, ld_blank(a, t, s, x, f), n) :
      n \in ld_addends(a, t, ld_base(x), addends), s \in slots, f \in ld_defined(t, x)} :
    t \in IF x THEN ld_exec_types(a) ELSE ld_types(a)} : x \in BOOLEAN}
=============================================================================
