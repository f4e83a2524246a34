------------------------------ MODULE ArchMips ------------------------------
(***************************************************************************)
(* The relocation callbacks of arch-mips.c (MIPS, 32 and 64 bits).  Words  *)
(* have their addend in place (REL); sections become RELA where it would   *)
(* be lost.  A REL32 without symbol is relative: here it has the type      *)
(* RELATIVE; with a symbol it has the type REL32.                          *)
(*                                                                         *)
(* Entries of the GOT are relocated without relocations.  They are         *)
(* modelled as relocations, with the types of the table in arch-mips.c:    *)
(*   GOT_L  a local entry                                                  *)
(*   GOT_A  the symbol is undefined (A and C: st_value is 0)               *)
(*   GOT_B  the symbol is undefined, st_value is the lazy binding stub     *)
(*   GOT_D  the symbol is SHN_COMMON                                       *)
(*   GOT_E  the symbol is defined, the entry is the lazy binding stub      *)
(*   GOT_F  the symbol is defined, the entry is st_value                   *)
(***************************************************************************)
EXTENDS Reloc

TLS_TP_OFFSET == 28672
TLS_DTV_OFFSET == 32768

mips_DtpMod == {"TLS_DTPMOD32", "TLS_DTPMOD64"}
mips_DtpRel == {"TLS_DTPREL32", "TLS_DTPREL64"}
mips_TpRel == {"TLS_TPREL32", "TLS_TPREL64"}
mips_Tls == mips_DtpMod \union mips_DtpRel \union mips_TpRel
mips_Undefined == {"GOT_A", "GOT_B"}
mips_Defined == {"GOT_E", "GOT_F"}
mips_Global == mips_Undefined \union mips_Defined \union {"GOT_D"}
mips_Got == mips_Global \union {"GOT_L"}

(* The lazy binding stub of the symbol, and the st_value of the symbol of  *)
(* a GOT entry (of SHN_COMMON, the alignment).                             *)
mips_stub(r) == r.base + 72
mips_st_value(r) ==
  CASE r.type = "GOT_A" -> 0 [] r.type = "GOT_B" -> mips_stub(r)
    [] r.type = "GOT_D" -> 8 [] r.type \in mips_Defined -> StValue(r)

(* arch_adjust comes before the symbol table is adjusted. *)
mips_arch_adjust(r, adjust) ==
  IF \/ r.type = "GOT_L"
     \/ /\ r.type \in mips_Global \ {"GOT_D"}
        /\ r.mem.val >= r.base
        /\ IF r.mem.val = mips_st_value(r) THEN mips_st_value(r) # 0
                                           ELSE r.type \notin mips_Undefined
  THEN Put(r, r.class, r.mem.val + adjust) ELSE r

(* mips_read_32bit_addend, mips_read_64bit_addend *)
mips_read_addend(r) == IF r.rela THEN r.addend ELSE r.mem.val

mips_adjust_reloc(r, adjust) ==
  CASE r.type = "RELATIVE" /\ r.rela -> [r EXCEPT !.addend = @ + adjust]
    [] r.type = "RELATIVE" /\ ~ r.rela -> Put(r, r.class, r.mem.val + adjust)
    [] OTHER -> r

(* mips_prelink_32bit_reloc, mips_prelink_64bit_reloc: assert (rela) *)
mips_prelink_word(r, value) == IF r.rela THEN Put(r, r.class, value + r.addend) ELSE Bad(r)

mips_prelink_reloc(r, s) ==
  CASE r.type \in {"NONE"} \union mips_Got -> r
    [] r.type = "RELATIVE" -> IF r.rela THEN mips_prelink_word(r, 0) ELSE r
    [] r.type = "REL32" -> mips_prelink_word(r, s.val)
    [] r.type = "GLOB_DAT" -> Put(r, r.class, s.val)
    [] r.type = "JUMP_SLOT" -> Put(r, 4, s.val)
    [] r.type \in mips_DtpMod ->
         IF r.exec /\ s.isTls THEN mips_prelink_word(r, s.modid) ELSE r
    [] r.type \in mips_DtpRel -> mips_prelink_word(r, s.val - TLS_DTV_OFFSET)
    [] r.type \in mips_TpRel ->
         IF r.exec THEN mips_prelink_word(r, s.val + s.tlsoffset - TLS_TP_OFFSET) ELSE r
    [] r.type = "COPY" -> IF r.exec THEN r ELSE Bad(r)
    [] OTHER -> Bad(r)

(* A REL32 without addend becomes a GLOB_DAT. *)
mips_prelink_rel(r, s) ==
  IF r.type = "REL32" /\ r.mem.val = 0
  THEN Put([r EXCEPT !.type = "GLOB_DAT"], r.class, s.val) ELSE mips_prelink_reloc(r, s)

mips_prelink_conflict_reloc(r, c, curtls) ==
  LET value == ConflictValue(c) + mips_read_addend(r)
      tls == ConflictTls(c, curtls)
  IN  IF \/ r.exec \/ r.type \in mips_Got
         \/ ~ c.found /\ (r.type \notin mips_DtpMod \union mips_TpRel \/ curtls.modid = 0)
      THEN None
      ELSE IF c.ifunc THEN Refuse
      ELSE IF c.found /\ r.type \in mips_DtpRel /\ c.same THEN None
      ELSE IF r.type \in mips_DtpMod \union mips_TpRel /\ c.found /\ ~ c.isTls THEN Refuse
      ELSE CASE r.type = "REL32" -> Entry("REL32", value)
        [] r.type = "GLOB_DAT" -> Entry("REL32", ConflictValue(c))
        [] r.type \in mips_DtpRel -> Entry("REL32", value - TLS_DTV_OFFSET)
        [] r.type \in mips_DtpMod -> Entry("REL32", tls.modid)
        [] r.type \in mips_TpRel -> Entry("REL32", value + tls.offset - TLS_TP_OFFSET)
        [] OTHER -> Refuse

(* Only GOT entries that do not have the right value need a conflict.      *)
mips_arch_prelink_conflict(r, c) ==
  LET value == IF c.found THEN c.val ELSE mips_st_value(r)
  IN  IF \/ r.exec
         \/ ~ c.found /\ r.type \notin mips_Defined
         \/ r.mem.val = value
      THEN None ELSE Entry("REL32", value)

mips_apply_conflict_rela(r, e) ==
  CASE e.type = "REL32" -> Put(r, r.class, e.addend)
    [] e.type = "JUMP_SLOT" -> Put(r, 4, e.addend)
    [] OTHER -> Bad(r)

mips_apply_reloc(r, s) ==
  CASE r.type = "NONE" -> r
    [] r.type = "JUMP_SLOT" -> Put(r, 4, s.val)
    [] r.type \in {"REL32", "RELATIVE"} -> Put(r, r.class, s.val + mips_read_addend(r))
    [] OTHER -> Bad(r)

mips_InPlace == {"RELATIVE", "REL32"} \union mips_DtpRel \union mips_TpRel

mips_rel_to_rela(r) ==
  CASE r.type \in mips_InPlace -> [r EXCEPT !.rela = TRUE, !.addend = r.mem.val]
    [] r.type \in {"NONE", "COPY", "GLOB_DAT"} \union mips_DtpMod ->
         [r EXCEPT !.rela = TRUE, !.addend = 0]
    [] OTHER -> Bad(r)

mips_rela_to_rel(r) ==
  LET rel == [r EXCEPT !.rela = FALSE, !.addend = 0]
  IN  CASE r.type \in {"NONE", "COPY"} -> rel
        [] r.type \in mips_InPlace \union {"GLOB_DAT"} \union mips_DtpMod ->
             Put(rel, r.class, r.addend)
        [] OTHER -> Bad(r)

(* This relocation makes its section a RELA section. *)
mips_need_rel_to_rela(r) ==
  \/ r.type = "REL32" /\ r.mem.val # 0
  \/ r.type \in mips_DtpRel
  \/ r.type \in mips_TpRel /\ r.exec

mips_reloc_size(type) == 4

mips_reloc_class(type) ==
  CASE type = "COPY" -> "COPY"
    [] type = "JUMP_SLOT" -> "PLT"
    [] type \in mips_Tls -> "TLS"
    [] OTHER -> "VALID"

(* gotplt[1] gets the address of the PLT, and undefined and common entries *)
(* of the GOT the value of the symbol; only executables have the former.   *)
mips_arch_prelink(r, s) ==
  LET q == IF r.exec THEN [r EXCEPT !.got = Plt(r)] ELSE r
  IN  CASE r.type \in mips_Undefined \union {"GOT_D"} -> Put(q, r.class, s.val)
        [] r.type \in mips_Defined /\ r.exec /\ s.val # r.mem.val -> Bad(q)
        [] OTHER -> q

mips_arch_undo_prelink(r) ==
  LET q == IF r.got = Plt(r) THEN [r EXCEPT !.got = 0] ELSE r
  IN  CASE r.type \in mips_Undefined -> Put(q, r.class, mips_st_value(r))
        [] r.type = "GOT_D" -> Put(q, r.class, 0)
        [] OTHER -> q

mips_undo_prelink_rel(r) ==
  CASE r.type = "GLOB_DAT" -> Put([r EXCEPT !.type = "REL32"], r.class, 0)
    [] r.type = "JUMP_SLOT" -> IF r.inGot THEN Put(r, 4, r.got) ELSE Bad(r)
    [] OTHER -> r
=============================================================================
