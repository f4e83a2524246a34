----------------------------- MODULE ArchAlpha ------------------------------
(***************************************************************************)
(* The relocation callbacks of arch-alpha.c: RELA only.  The PLT is code   *)
(* that prelinking rewrites: an entry branches to the function if that is  *)
(* near, and otherwise jumps through the GOT slot.  The word of a GLOB_DAT *)
(* is what the symbol table has for the symbol, which is not cleared.      *)
(***************************************************************************)
EXTENDS Reloc

alpha_Tls == {"DTPMOD64", "DTPREL64", "TPREL64"}

alpha_adjust_rela(r, adjust) ==
  LET val == r.mem.val - r.addend
  IN  CASE r.type \in {"RELATIVE", "JMP_SLOT"} ->
             Put(IF r.mem.val = r.addend THEN [r EXCEPT !.addend = @ + adjust] ELSE r,
                 8, r.mem.val + adjust)
        [] r.type = "GLOB_DAT" ->
             IF val # 0 THEN Put(r, 8, val + adjust + r.addend) ELSE r
        [] OTHER -> r

(* The entry: ldah, lda and br with the distance to the function, or ldah, *)
(* ldq and jmp with the distance to the GOT slot.                          *)
alpha_fixup_plt(r, value) ==
  LET plt == Plt(r) + 12 * r.slot
  IN  [r EXCEPT !.code = IF Near(value - plt) THEN Direct(value - plt) ELSE Indirect(P(r) - plt)]

alpha_is_indirect_plt(r) == r.code = Indirect(P(r) - (Plt(r) + 12 * r.slot))

alpha_prelink_rela(r, s) ==
  LET value == s.val + r.addend
  IN  CASE r.type \in {"RELATIVE", "NONE"} -> r
        [] r.type \in {"GLOB_DAT", "REFQUAD", "DTPREL64"} -> Put(r, 8, value)
        [] r.type = "JMP_SLOT" -> alpha_fixup_plt(Put(r, 8, value), value)
        [] r.type = "DTPMOD64" -> IF r.exec THEN Bad(r) ELSE r
        [] r.type = "TPREL64" -> IF r.exec /\ s.isTls THEN Put(r, 8, value + s.tlsoffset) ELSE r
        [] OTHER -> Bad(r)

alpha_apply_conflict_rela(r, e) ==
  IF e.type \in {"GLOB_DAT", "REFQUAD", "JMP_SLOT"} THEN Put(r, 8, e.addend) ELSE Bad(r)

alpha_apply_rela(r, s) ==
  CASE r.type = "NONE" -> r
    [] r.type \in {"GLOB_DAT", "REFQUAD", "JMP_SLOT"} -> Put(r, 8, s.val + r.addend)
    [] OTHER -> Bad(r)

(* (Faulty variant: the PLT entry is not looked at.)                       *)
alpha_prelink_conflict_rela_got(r, c, curtls) ==
  IF c.found /\ ~ r.exec THEN Entry("GLOB_DAT", c.val + r.addend) ELSE None

(* ld.so must rewrite a PLT entry that does not look at the GOT slot. *)
alpha_prelink_conflict_rela(r, c, curtls) ==
  LET value == ConflictValue(c) + r.addend
      tls == ConflictTls(c, curtls)
  IN  IF \/ r.type \in {"RELATIVE", "NONE"} \/ r.exec
         \/ ~ c.found /\ (curtls.modid = 0 \/ r.type \notin {"DTPMOD64", "TPREL64"})
      THEN None
      ELSE IF c.ifunc THEN Refuse
      ELSE IF c.found /\ r.type = "DTPREL64" /\ c.same THEN None
      ELSE IF r.type \in alpha_Tls /\ c.found /\ ~ c.isTls THEN Refuse
      ELSE CASE r.type \in {"GLOB_DAT", "REFQUAD"} -> Entry(r.type, value)
        [] r.type = "JMP_SLOT" ->
             Entry(IF alpha_is_indirect_plt(r) THEN "GLOB_DAT" ELSE "JMP_SLOT", value)
        [] r.type = "DTPMOD64" -> Entry("GLOB_DAT", tls.modid)
        [] r.type = "DTPREL64" -> Entry("GLOB_DAT", value)
        [] r.type = "TPREL64" -> Entry("GLOB_DAT", value + tls.offset)
        [] OTHER -> Refuse

(* The PLT entry branches to the start of the PLT again. *)
alpha_undo_prelink_rela(r) ==
  CASE r.type \in {"NONE", "RELATIVE"} -> r
    [] r.type = "JMP_SLOT" -> [Put(r, 8, Plt(r) + 12 * r.slot) EXCEPT !.code = Lazy]
    [] r.type = "GLOB_DAT" -> Put(r, 8, StValue(r) + r.addend)
    [] r.type \in {"REFQUAD"} \union alpha_Tls -> Put(r, 8, 0)
    [] OTHER -> Bad(r)

alpha_reloc_size(type) == 8

alpha_reloc_class(type) ==
  CASE type = "JMP_SLOT" -> "PLT" [] type \in alpha_Tls -> "TLS" [] OTHER -> "VALID"
=============================================================================
