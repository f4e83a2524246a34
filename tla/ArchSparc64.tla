---------------------------- MODULE ArchSparc64 -----------------------------
(***************************************************************************)
(* The relocation callbacks of arch-sparc64.c (SPARC, 64 bits): RELA only. *)
(* r_info has room for a number besides the type, which OLO10 adds to the  *)
(* address: "OLO10+8" is one that has 8 there.  A PLT entry from the       *)
(* 32768th on has a word with the distance to jump: such a JMP_SLOT has an *)
(* addend, the negative of where the jump is relative to.                  *)
(***************************************************************************)
EXTENDS ArchSparc

SPARC64_R_TYPE(type) == IF type = "OLO10+8" THEN "OLO10" ELSE type
sparc64_data(type) == IF type = "OLO10+8" THEN 8 ELSE 0

sparc64_Tls == {"TLS_DTPMOD64", "TLS_DTPOFF64", "TLS_TPOFF64", "TLS_LE_HIX22", "TLS_LE_LOX10"}

(* Where the jump of a PLT entry from the 32768th on is relative to. *)
sparc64_far(r) == Plt(r) + 204 + 24 * r.slot

sparc64_adjust_rela(r, adjust) ==
  CASE r.type = "RELATIVE" -> [r EXCEPT !.addend = @ + adjust]
    [] r.type = "JMP_SLOT" /\ r.addend # 0 -> [r EXCEPT !.addend = @ - adjust]
    [] OTHER -> r

(* b,a; or a jump to an address, in one of three forms *)
sparc64_fixup_plt(r, value) ==
  IF r.addend # 0 THEN Put(r, 8, value)
  ELSE [r EXCEPT !.code = IF Near(value - P(r)) THEN Direct(value - P(r)) ELSE Absolute(value)]

(* The types that relocate a field of an instruction: the new instruction. *)
sparc64_Insns == {"LO10", "LM22", "HI22", "WDISP30", "H44", "M44", "L44", "HH22", "HM10",
                  "OLO10", "OLO10+8"}

sparc64_insn(r, word, value) ==
  CASE r.type = "LO10" -> Insert(word, 0, 10, value)
    [] r.type \in {"LM22", "HI22"} -> Insert(word, 0, 22, value \div 2^10)
    [] r.type = "WDISP30" -> sparc_wdisp30(word, value - P(r))
    [] r.type = "H44" -> Insert(word, 0, 22, value \div 2^22)
    [] r.type = "M44" -> Insert(word, 0, 10, value \div 2^12)
    [] r.type = "L44" -> Insert(word, 0, 12, value)
    [] r.type = "HH22" -> Insert(word, 0, 22, (value \div 2^22) \div 2^20)
    [] r.type = "HM10" -> Insert(word, 0, 10, (value \div 2^22) \div 2^10)
    [] SPARC64_R_TYPE(r.type) = "OLO10" ->
         Insert(word, 0, 13, (value % 1024) + sparc64_data(r.type))

(* How many low bits of the instruction that is. *)
sparc64_bits(type) ==
  CASE type \in {"LO10", "M44", "HM10"} -> 10
    [] type = "L44" -> 12
    [] type \in {"OLO10", "TLS_LE_LOX10"} -> 13
    [] type \in {"LM22", "HI22", "H44", "HH22", "TLS_LE_HIX22"} -> 22
    [] type = "WDISP30" -> 30

(* The addend of TLS words is added twice. *)
sparc64_prelink_rela(r, s) ==
  LET value == s.val + r.addend
      tpoff == value + r.addend - s.tlsoffset
      inExec(q) == IF r.exec /\ s.isTls THEN q ELSE r
  IN  CASE r.type = "NONE" -> r
        [] r.type = "RELATIVE" -> Put(r, 8, r.addend)
        [] r.type \in {"GLOB_DAT", "64", "UA64"} -> Put(r, 8, value)
        [] r.type \in {"32", "UA32"} -> Put(r, 4, value)
        [] r.type = "JMP_SLOT" -> sparc64_fixup_plt(r, value)
        [] r.type = "8" -> Put(r, 1, value)
        [] r.type \in {"16", "UA16"} -> Put(r, 2, value)
        [] r.type = "DISP8" -> Put(r, 1, value - P(r))
        [] r.type = "DISP16" -> Put(r, 2, value - P(r))
        [] r.type = "DISP32" -> Put(r, 4, value - P(r))
        [] r.type = "DISP64" -> Put(r, 8, value - P(r))
        [] r.type \in sparc64_Insns -> Put(r, 4, sparc64_insn(r, r.mem.val, value))
        [] r.type = "TLS_DTPOFF64" -> Put(r, 8, value + r.addend)
        [] r.type = "TLS_DTPMOD64" -> IF r.exec THEN Bad(r) ELSE r
        [] r.type = "TLS_TPOFF64" -> inExec(Put(r, 8, tpoff))
        [] r.type = "TLS_LE_HIX22" -> inExec(Put(r, 4, sparc_hix22(r.mem.val, tpoff)))
        [] r.type = "TLS_LE_LOX10" -> inExec(Put(r, 4, sparc_lox10(r.mem.val, tpoff)))
        [] r.type = "COPY" -> IF r.exec THEN r ELSE Bad(r)
        [] OTHER -> Bad(r)

sparc64_apply_conflict_rela(r, e) ==
  CASE e.type \in {"64", "UA64"} -> Put(r, 8, e.addend)
    [] OTHER -> sparc_apply_conflict_rela(r, e)

sparc64_apply_rela(r, s) ==
  LET value == s.val + r.addend
  IN  CASE r.type = "NONE" -> r
        [] r.type \in {"GLOB_DAT", "64", "UA64"} -> Put(r, 8, value)
        [] r.type = "DISP64" -> Put(r, 8, value - P(r))
        [] r.type \in {"32", "UA32"} -> Put(r, 4, value)
        [] r.type = "DISP32" -> Put(r, 4, value - P(r))
        [] r.type \in {"16", "UA16"} -> Put(r, 2, value)
        [] r.type = "DISP16" -> Put(r, 2, value - P(r))
        [] r.type = "8" -> Put(r, 1, value)
        [] r.type = "DISP8" -> Put(r, 1, value - P(r))
        [] r.type \in sparc64_Insns -> Put(r, 4, sparc64_insn(r, r.mem.val, value))
        [] OTHER -> Bad(r)

sparc64_prelink_conflict_rela(r, c, curtls) ==
  LET value == ConflictValue(c) + r.addend
      tls == ConflictTls(c, curtls)
      word == r.mem.val
  IN  IF \/ r.type \in {"RELATIVE", "NONE"} \/ r.exec
         \/ ~ c.found /\ (curtls.modid = 0 \/ r.type \notin sparc64_Tls \ {"TLS_DTPOFF64"})
      THEN None
      ELSE IF c.ifunc THEN Refuse
      ELSE IF c.found /\ r.type = "TLS_DTPOFF64" /\ c.same THEN None
      ELSE IF r.type \in sparc64_Tls /\ c.found /\ ~ c.isTls THEN Refuse
      ELSE CASE r.type \in {"GLOB_DAT", "64"} -> Entry("64", value)
        [] r.type = "DISP64" -> Entry("64", value - P(r))
        [] r.type = "32" -> Entry("32", value)
        [] r.type = "DISP32" -> Entry("32", value - P(r))
        [] r.type = "16" -> Entry("16", value)
        [] r.type = "DISP16" -> Entry("16", value - P(r))
        [] r.type = "8" -> Entry("8", value)
        [] r.type = "DISP8" -> Entry("8", value - P(r))
        [] r.type \in sparc64_Insns -> Entry("32", sparc64_insn(r, word, value))
        [] r.type = "JMP_SLOT" -> Entry(IF r.addend # 0 THEN "64" ELSE "JMP_SLOT", value)
        [] r.type \in {"UA16", "UA32", "UA64"} -> Entry(r.type, value)
        [] r.type = "TLS_DTPMOD64" -> Entry("64", tls.modid)
        [] r.type = "TLS_DTPOFF64" -> Entry("64", value)
        [] r.type = "TLS_TPOFF64" -> Entry("64", value - tls.offset)
        [] r.type = "TLS_LE_HIX22" -> Entry("32", sparc_hix22(word, value - tls.offset))
        [] r.type = "TLS_LE_LOX10" -> Entry("32", sparc_lox10(word, value - tls.offset))
        [] OTHER -> Refuse

(* The type is not masked here: that of an OLO10 with a number is unknown. *)
sparc64_undo_prelink_rela(r) ==
  CASE r.type = "NONE" -> r
    [] r.type = "JMP_SLOT" /\ r.addend = 0 -> [r EXCEPT !.code = Lazy]
    [] r.type = "JMP_SLOT" /\ r.addend # 0 -> Put(r, 8, Plt(r) - sparc64_far(r))
    [] r.type \in {"RELATIVE", "GLOB_DAT", "64", "UA64", "DISP64", "TLS_DTPMOD64",
                   "TLS_DTPOFF64", "TLS_TPOFF64"} -> Put(r, 8, 0)
    [] r.type \in {"32", "UA32", "DISP32"} -> Put(r, 4, 0)
    [] r.type \in {"8", "DISP8"} -> Put(r, 1, 0)
    [] r.type \in {"16", "UA16", "DISP16"} -> Put(r, 2, 0)
    [] r.type \in (sparc64_Insns \ {"OLO10+8"}) \union {"TLS_LE_LOX10", "TLS_LE_HIX22"} ->
         Put(r, 4, Insert(r.mem.val, 0, sparc64_bits(r.type), 0))
    [] r.type = "COPY" -> IF r.exec THEN r ELSE Bad(r)
    [] OTHER -> Bad(r)

sparc64_reloc_size(type) ==
  CASE type \in {"8", "DISP8"} -> 1
    [] type \in {"16", "DISP16", "UA16"} -> 2
    [] type \in {"RELATIVE", "64", "UA64", "GLOB_DAT"} -> 8
    [] OTHER -> 4

sparc64_reloc_class(type) ==
  CASE type = "COPY" -> "COPY"
    [] type = "JMP_SLOT" -> "PLT"
    [] type \in sparc64_Tls -> "TLS"
    [] OTHER -> "VALID"
=============================================================================
