------------------------------ MODULE ArchArm -------------------------------
(***************************************************************************)
(* The relocation callbacks of arch-arm.c (ARM): REL sections, with the    *)
(* addend in the word, that become RELA where an addend would be lost.     *)
(* The word of a TLS_DESC is the second one of its two, the one that is    *)
(* prelinked: DT_TLSDESC_PLT.  All PLT slots begin at the first PLT entry. *)
(***************************************************************************)
EXTENDS Reloc

arm_Tls == {"TLS_DTPMOD32", "TLS_DTPOFF32", "TLS_TPOFF32"}
arm_Words == {"GLOB_DAT", "JUMP_SLOT", "ABS32"}

(* An object that is not bound lazily has no DT_TLSDESC_PLT: a TLS_DESC is *)
(* called TLS_DESC_NOW there.                                              *)
arm_Desc == {"TLS_DESC", "TLS_DESC_NOW"}

(* DT_TLSDESC_PLT of the object. *)
arm_tlsdesc_plt(r) == Plt(r) + 100

(* The distance a PC24 branches over is in words, in the low 24 bits of    *)
(* the instruction.                                                        *)
arm_pc24(word, distance) == Insert(word, 0, 24, distance \div 4)
arm_pc24_fits(distance) == (distance \div 4) \in (0 - 2^23)..(2^23 - 1)
arm_pc24_addend(word) == 4 * (((word + 2^23) % 2^24) - 2^23)

arm_adjust_dyn(r, adjust) == IF r.got = Plt(r) THEN [r EXCEPT !.got = @ + adjust] ELSE r

arm_adjust_rel(r, adjust) ==
  IF r.type \in {"RELATIVE", "JUMP_SLOT", "IRELATIVE"} THEN Put(r, 4, r.mem.val + adjust) ELSE r

arm_adjust_rela(r, adjust) ==
  CASE r.type \in {"RELATIVE", "IRELATIVE"} ->
         Put([r EXCEPT !.addend = @ + adjust], 4, r.addend + adjust)
    [] r.type = "JUMP_SLOT" -> Put(r, 4, r.mem.val + adjust)
    [] OTHER -> r

(* The part of the two prelink callbacks that does not depend on addends.  *)
(* In a file that is not prelinked, got[1] is clear and so must be the     *)
(* word of a TLS_DESC.                                                     *)
arm_prelink_common(r) ==
  CASE r.type \in {"RELATIVE", "IRELATIVE", "NONE"} -> r
    [] r.type \in {"COPY"} -> IF r.exec THEN r ELSE Bad(r)
    [] r.type = "TLS_DTPMOD32" -> IF r.exec THEN Bad(r) ELSE r
    [] r.type = "TLS_DESC_NOW" -> Bad(r)
    [] r.type = "TLS_DESC" ->
         IF r.mem.val # 0 /\ r.got = 0 THEN Bad(r) ELSE Put(r, 4, arm_tlsdesc_plt(r))
    [] OTHER -> Bad(r)

(* An ABS32 without addend becomes a GLOB_DAT. *)
arm_prelink_rel(r, s) ==
  CASE r.type \in {"GLOB_DAT", "JUMP_SLOT", "TLS_DTPOFF32"} -> Put(r, 4, s.val)
    [] r.type = "ABS32" ->
         IF r.mem.val # 0 THEN Bad(r) ELSE Put([r EXCEPT !.type = "GLOB_DAT"], 4, s.val)
    [] r.type = "TLS_TPOFF32" -> r
    [] OTHER -> arm_prelink_common(r)

arm_prelink_rela(r, s) ==
  LET value == s.val + r.addend
  IN  CASE r.type \in arm_Words \union {"TLS_DTPOFF32"} -> Put(r, 4, value)
        [] r.type = "PC24" ->
             IF arm_pc24_fits(value - P(r))
             THEN Put(r, 4, arm_pc24(r.mem.val, value - P(r))) ELSE Bad(r)
        [] r.type = "TLS_TPOFF32" ->
             IF r.exec /\ s.isTls THEN Put(r, 4, value + s.tlsoffset) ELSE r
        [] OTHER -> arm_prelink_common(r)

arm_apply_conflict_rela(r, e) ==
  CASE e.type \in arm_Words -> Put(r, 4, e.addend)
    [] e.type = "IRELATIVE" -> r
    [] OTHER -> Bad(r)

(* The offset is added to a PC24 where it should be subtracted. *)
arm_apply_rel(r, s) ==
  LET branch == s.val + P(r) + arm_pc24_addend(r.mem.val)
  IN  CASE r.type = "NONE" -> r
        [] r.type \in {"GLOB_DAT", "JUMP_SLOT"} -> Put(r, 4, s.val)
        [] r.type = "ABS32" -> Put(r, 4, s.val + r.mem.val)
        [] r.type = "PC24" /\ arm_pc24_fits(branch) -> Put(r, 4, arm_pc24(r.mem.val, branch))
        [] OTHER -> Bad(r)

arm_apply_rela(r, s) ==
  LET branch == s.val + r.addend - P(r)
  IN  CASE r.type = "NONE" -> r
        [] r.type \in arm_Words -> Put(r, 4, s.val + r.addend)
        [] r.type = "PC24" /\ arm_pc24_fits(branch) -> Put(r, 4, arm_pc24(r.mem.val, branch))
        [] OTHER -> Bad(r)

(* A TLS_DESC always has a conflict, whose addend is not set. *)
arm_unneeded(r, c, curtls) ==
  IF r.type \in arm_Desc THEN c.found /\ r.exec /\ ~ c.ifunc
  ELSE Unneeded(r, c, curtls, {"TLS_DTPMOD32", "TLS_TPOFF32"}, "TLS_DTPOFF32")

arm_prelink_conflict_rel(r, c, curtls) ==
  LET value == ConflictValue(c)
      tls == ConflictTls(c, curtls)
  IN  IF arm_unneeded(r, c, curtls) THEN None
      ELSE IF r.type \in arm_Tls /\ c.found /\ ~ c.isTls THEN Refuse
      ELSE CASE r.type \in {"GLOB_DAT", "JUMP_SLOT"} ->
             Entry(IF c.ifunc THEN "IRELATIVE" ELSE r.type, value)
        [] r.type = "IRELATIVE" -> Entry("IRELATIVE", r.mem.val)
        [] r.type = "TLS_DTPMOD32" -> Entry("ABS32", tls.modid)
        [] r.type = "TLS_DTPOFF32" -> Entry("ABS32", value + r.mem.val)
        [] r.type = "TLS_TPOFF32" -> Entry("ABS32", value + r.mem.val + tls.offset)
        [] r.type \in arm_Desc -> Entry("TLS_DESC", 0)
        [] OTHER -> Refuse

arm_prelink_conflict_rela(r, c, curtls) ==
  LET value == ConflictValue(c) + r.addend
      tls == ConflictTls(c, curtls)
  IN  IF arm_unneeded(r, c, curtls) THEN None
      ELSE IF r.type \in arm_Tls /\ c.found /\ ~ c.isTls THEN Refuse
      ELSE CASE r.type \in arm_Words \union {"IRELATIVE"} ->
             Entry(IF c.ifunc THEN "IRELATIVE" ELSE r.type, value)
        [] r.type = "PC24" /\ arm_pc24_fits(value - P(r)) ->
             Entry("ABS32", arm_pc24(r.mem.val, value - P(r)))
        [] r.type = "TLS_DTPMOD32" -> Entry("ABS32", tls.modid)
        [] r.type = "TLS_DTPOFF32" -> Entry("ABS32", value)
        [] r.type = "TLS_TPOFF32" -> Entry("ABS32", value + tls.offset)
        [] r.type \in arm_Desc -> Entry("TLS_DESC", 0)
        [] OTHER -> Refuse

arm_InPlace == {"RELATIVE", "IRELATIVE", "ABS32", "TLS_TPOFF32", "TLS_DTPOFF32"}

arm_rel_to_rela(r) ==
  CASE r.type = "JUMP_SLOT" -> Bad(r)
    [] r.type \in arm_InPlace -> [r EXCEPT !.rela = TRUE, !.addend = r.mem.val]
    [] r.type = "PC24" -> [r EXCEPT !.rela = TRUE, !.addend = arm_pc24_addend(r.mem.val)]
    [] OTHER -> [r EXCEPT !.rela = TRUE, !.addend = 0]

(* Nothing is written for COPY and TLS_DESC. *)
arm_rela_to_rel(r) ==
  LET rel == [r EXCEPT !.rela = FALSE, !.addend = 0]
  IN  CASE r.type = "JUMP_SLOT" -> Bad(r)
        [] r.type \in arm_InPlace -> Put(rel, 4, r.addend)
        [] r.type = "PC24" -> Put(rel, 4, arm_pc24(r.mem.val, r.addend))
        [] r.type \in {"GLOB_DAT", "TLS_DTPMOD32"} -> Put(rel, 4, 0)
        [] OTHER -> rel

(* This relocation makes its section a RELA section. *)
arm_need_rel_to_rela(r) ==
  \/ r.type = "ABS32" /\ r.mem.val # 0
  \/ r.type \in {"PC24", "TLS_TPOFF32", "TLS_DTPOFF32"}

arm_arch_prelink(r) == [r EXCEPT !.got = Plt(r)]

arm_arch_undo_prelink(r) == IF r.got = Plt(r) THEN [r EXCEPT !.got = 0] ELSE r

arm_undo_prelink_rel(r) ==
  CASE r.type \in {"NONE", "RELATIVE", "IRELATIVE", "TLS_TPOFF32"} -> r
    [] r.type = "JUMP_SLOT" -> IF r.inGot THEN Put(r, 4, r.got) ELSE Bad(r)
    [] r.type = "GLOB_DAT" ->
         Put(IF r.inGot THEN r ELSE [r EXCEPT !.type = "ABS32"], 4, 0)
    [] r.type \in {"TLS_DTPMOD32", "TLS_DTPOFF32"} \union arm_Desc -> Put(r, 4, 0)
    [] r.type = "COPY" -> IF r.exec THEN r ELSE Bad(r)
    [] OTHER -> Bad(r)

arm_reloc_size(type) == 4

arm_reloc_class(type) ==
  CASE type = "COPY" -> "COPY"
    [] type = "JUMP_SLOT" -> "PLT"
    [] type \in arm_Tls \union arm_Desc -> "TLS"
    [] OTHER -> "VALID"
=============================================================================
