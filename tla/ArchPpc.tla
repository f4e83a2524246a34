------------------------------ MODULE ArchPpc -------------------------------
(***************************************************************************)
(* The relocation callbacks of arch-ppc.c (PowerPC, 32 bits): RELA only.   *)
(* The PLT is data if the object has DT_PPC_GOT, and otherwise code that   *)
(* only ld.so and prelink write.  Instructions have their immediate fields *)
(* relocated.                                                              *)
(***************************************************************************)
EXTENDS Reloc

ppc_Word == {"GLOB_DAT", "ADDR32", "UADDR32"}
ppc_Low == {"ADDR16", "UADDR16", "ADDR16_LO"}
ppc_Half == ppc_Low \union {"ADDR16_HI", "ADDR16_HA"}
ppc_Predicted == {"ADDR14_BRTAKEN", "ADDR14_BRNTAKEN"}
ppc_DtpRel16 == {"DTPREL16", "DTPREL16_LO", "DTPREL16_HI", "DTPREL16_HA"}
ppc_DtpRel == {"DTPREL32"} \union ppc_DtpRel16
ppc_TpRel16 == {"TPREL16", "TPREL16_LO", "TPREL16_HI", "TPREL16_HA"}
ppc_TpRel == {"TPREL32"} \union ppc_TpRel16

(* DT_PPC_GOT is set. *)
ppc_got(r) == r.code = NoCode

(* The branch with the bits of its target, and bit 21 that predicts it:    *)
(* addresses have their highest bit clear.                                 *)
ppc_addr14(word, value) == Insert(word, 2, 16, value)
ppc_addr14_br(word, value, taken) ==
  Insert(ppc_addr14(word, value), 21, 22, IF taken THEN 2^21 ELSE 0)

(* 0x8000 and 0x7000 are the biases of DTPREL and TPREL. *)
ppc_dtprel(type, value) ==
  CASE type = "DTPREL32" -> value - 32768
    [] type \in {"DTPREL16", "DTPREL16_LO"} -> Lo16(value - 32768)
    [] type = "DTPREL16_HI" -> Hi16(value - 32768)
    [] type = "DTPREL16_HA" -> Hi16(value)

ppc_tprel(type, value, offset) ==
  LET x == value + offset - 28672
  IN  CASE type = "TPREL32" -> x
        [] type \in {"TPREL16", "TPREL16_LO"} -> Lo16(x)
        [] type = "TPREL16_HI" -> Hi16(x)
        [] type = "TPREL16_HA" -> Ha16(x)

ppc_half(type, value) ==
  CASE type \in ppc_Low -> Lo16(value)
    [] type = "ADDR16_HI" -> Hi16(value)
    [] type = "ADDR16_HA" -> Ha16(value)

ppc_reloc_size(type) ==
  IF type \in ppc_Half \union ppc_DtpRel16 \union ppc_TpRel16 THEN 2 ELSE 4

ppc_reloc_class(type) ==
  CASE type = "COPY" -> "COPY"
    [] type = "JMP_SLOT" -> "PLT"
    [] type \in {"DTPMOD32"} \union ppc_DtpRel \union ppc_TpRel -> "TLS"
    [] OTHER -> "VALID"

(* The second word of the GOT points to .glink in prelinked libraries. *)
ppc_adjust_dyn(r, adjust) ==
  IF ppc_got(r) /\ r.got # 0 THEN [r EXCEPT !.got = @ + adjust] ELSE r

ppc_adjust_rela(r, adjust) ==
  CASE r.type \in {"RELATIVE", "IRELATIVE"} -> [r EXCEPT !.addend = @ + adjust]
    [] r.type = "JMP_SLOT" /\ ppc_got(r) -> Put(r, 4, r.mem.val + adjust)
    [] OTHER -> r

(* A relative branch, an absolute one, or one through a table behind the   *)
(* PLT, or (for an entry of 16 bytes) over a register.                     *)
ppc_fixup_plt(r, value) ==
  [r EXCEPT !.code = IF Near(value - P(r)) THEN Direct(value - P(r)) ELSE Absolute(value)]

ppc_prelink_rela(r, s) ==
  LET value == s.val + r.addend
      word == r.mem.val
  IN  CASE r.type \in {"NONE", "IRELATIVE"} -> r
        [] r.type = "RELATIVE" -> Put(r, 4, r.addend)
        [] r.type \in ppc_Word -> Put(r, 4, value)
        [] r.type \in ppc_DtpRel -> Put(r, ppc_reloc_size(r.type), ppc_dtprel(r.type, value))
        [] r.type = "JMP_SLOT" -> IF ppc_got(r) THEN Put(r, 4, value) ELSE ppc_fixup_plt(r, value)
        [] r.type \in ppc_Half -> Put(r, 2, ppc_half(r.type, value))
        [] r.type = "ADDR24" -> Put(r, 4, Insert(word, 2, 26, value))
        [] r.type = "ADDR14" -> Put(r, 4, ppc_addr14(word, value))
        [] r.type \in ppc_Predicted ->
             Put(r, 4, ppc_addr14_br(word, value, r.type = "ADDR14_BRTAKEN"))
        [] r.type = "REL24" -> Put(r, 4, Insert(word, 2, 26, value - P(r)))
        [] r.type = "REL32" -> Put(r, 4, value - P(r))
        [] r.type = "DTPMOD32" -> IF r.exec THEN Bad(r) ELSE r
        [] r.type \in ppc_TpRel ->
             IF r.exec /\ s.isTls
             THEN Put(r, ppc_reloc_size(r.type), ppc_tprel(r.type, value, s.tlsoffset)) ELSE r
        [] r.type = "COPY" -> IF r.exec THEN r ELSE Bad(r)
        [] OTHER -> Bad(r)

ppc_apply_conflict_rela(r, e) ==
  CASE e.type \in {"ADDR32", "UADDR32"} -> Put(r, 4, e.addend)
    [] e.type \in {"ADDR16", "UADDR16"} -> Put(r, 2, Lo16(e.addend))
    [] e.type = "IRELATIVE" -> r
    [] OTHER -> Bad(r)

ppc_apply_rela(r, s) ==
  LET value == s.val + r.addend
      word == r.mem.val
  IN  CASE r.type = "NONE" -> r
        [] r.type \in ppc_Word -> Put(r, 4, value)
        [] r.type \in ppc_Half -> Put(r, 2, ppc_half(r.type, value))
        [] r.type = "ADDR24" -> Put(r, 4, Insert(word, 2, 26, value))
        [] r.type = "ADDR14" -> Put(r, 4, ppc_addr14(word, value))
        [] r.type \in ppc_Predicted ->
             Put(r, 4, ppc_addr14_br(word, value, r.type = "ADDR14_BRTAKEN"))
        [] r.type = "REL24" -> Put(r, 4, Insert(word, 2, 26, value - P(r)))
        [] r.type = "REL32" -> Put(r, 4, value - P(r))
        [] OTHER -> Bad(r)

(* An ifunc needs an IRELATIVE, or the conflict is refused; an entry of an *)
(* instruction has the rest of it too.  When the prediction bit is         *)
(* computed, r_type is no longer what it is compared with.                 *)
ppc_prelink_conflict_rela(r, c, curtls) ==
  LET value == ConflictValue(c) + r.addend
      tls == ConflictTls(c, curtls)
      word == r.mem.val
      dtprel == IF r.type \in ppc_DtpRel THEN r.type ELSE "DTPREL32"
      plain(entry) == IF c.ifunc THEN Refuse ELSE entry
      ifunc(type) == IF c.ifunc THEN "IRELATIVE" ELSE type
      sized(x) == IF ppc_reloc_size(r.type) = 4 THEN Entry("ADDR32", x)
                  ELSE Entry("ADDR16", Signed16(x))
  IN  IF Unneeded(r, c, curtls, {"DTPMOD32"} \union ppc_TpRel, dtprel) THEN None
      ELSE IF ppc_reloc_class(r.type) = "TLS" /\ c.found /\ ~ c.isTls THEN Refuse
      ELSE CASE r.type = "GLOB_DAT" -> Entry(ifunc("ADDR32"), value)
        [] r.type \in {"ADDR32", "UADDR32", "IRELATIVE"} -> Entry(ifunc(r.type), value)
        [] r.type = "JMP_SLOT" ->
             IF ppc_got(r) THEN Entry(ifunc("ADDR32"), value) ELSE plain(Entry("JMP_SLOT", value))
        [] r.type = "UADDR16" -> plain(Entry("UADDR16", Signed16(value)))
        [] r.type \in ppc_Half \ {"UADDR16"} ->
             plain(Entry("ADDR16", Signed16(ppc_half(r.type, value))))
        [] r.type = "ADDR24" -> plain(Entry("ADDR32", Insert(word, 2, 26, value)))
        [] r.type = "ADDR14" -> plain(Entry("ADDR32", ppc_addr14(word, value)))
        [] r.type \in ppc_Predicted -> plain(Entry("ADDR32", ppc_addr14_br(word, value, FALSE)))
        [] r.type = "REL24" -> plain(Entry("ADDR32", Insert(word, 2, 26, value - P(r))))
        [] r.type = "REL32" -> plain(Entry("ADDR32", value - P(r)))
        [] r.type = "DTPMOD32" -> sized(tls.modid)
        [] r.type \in ppc_DtpRel -> sized(ppc_dtprel(r.type, value))
        [] r.type \in ppc_TpRel -> sized(ppc_tprel(r.type, value, tls.offset))
        [] OTHER -> Refuse

(* The first word of the PLT is what ld left there: the address of .glink. *)
ppc_arch_pre_prelink(r) ==
  IF ppc_got(r) /\ r.got = 0 THEN [r EXCEPT !.got = Plt(r)] ELSE r

(* All of the PLT gets back what it had, from the second word of the GOT.  *)
ppc_arch_undo_prelink(r) ==
  IF ppc_got(r) /\ r.got # 0
  THEN [(IF r.type = "JMP_SLOT" THEN Put(r, 4, r.got + 4 * r.slot) ELSE r) EXCEPT !.got = 0]
  ELSE r

(* A PLT that is code becomes SHT_NOBITS again. *)
ppc_undo_prelink_rela(r) ==
  LET word == r.mem.val
  IN  CASE r.type = "NONE" -> r
        [] r.type = "JMP_SLOT" -> IF ppc_got(r) THEN r ELSE [r EXCEPT !.code = Lazy]
        [] r.type = "IRELATIVE" -> r
        [] r.type \in ppc_Word \union {"RELATIVE", "REL32", "DTPMOD32", "DTPREL32", "TPREL32"} ->
             Put(r, 4, 0)
        [] r.type \in ppc_Half \union ppc_DtpRel16 \union ppc_TpRel16 -> Put(r, 2, 0)
        [] r.type \in {"ADDR24", "REL24"} -> Put(r, 4, Insert(word, 2, 26, 0))
        [] r.type = "ADDR14" -> Put(r, 4, ppc_addr14(word, 0))
        [] r.type \in ppc_Predicted -> Put(r, 4, ppc_addr14_br(word, 0, FALSE))
        [] r.type = "COPY" -> IF r.exec THEN r ELSE Bad(r)
        [] OTHER -> Bad(r)
=============================================================================
