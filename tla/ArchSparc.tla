----------------------------- MODULE ArchSparc ------------------------------
(***************************************************************************)
(* The relocation callbacks of arch-sparc.c (SPARC, 32 bits): RELA only.   *)
(* ld.so adds the addend of a RELATIVE to the word, so that the address is *)
(* in the one or in the other; the PLT is code; instructions have their    *)
(* fields relocated.                                                       *)
(***************************************************************************)
EXTENDS Reloc

sparc_Tls == {"TLS_DTPMOD32", "TLS_DTPOFF32", "TLS_TPOFF32", "TLS_LE_HIX22", "TLS_LE_LOX10"}

sparc_lo10(word, value) == Insert(word, 0, 10, value)
sparc_hi22(word, value) == Insert(word, 0, 22, value \div 1024)
sparc_wdisp30(word, distance) == Insert(word, 0, 30, distance \div 4)
sparc_hix22(word, tpoff) == Insert(word, 0, 22, (- tpoff - 1) \div 1024)
sparc_lox10(word, tpoff) == Insert(word, 0, 13, 7168 + (tpoff % 1024))

sparc_adjust_rela(r, adjust) ==
  CASE r.type = "RELATIVE" /\ r.addend # 0 -> [r EXCEPT !.addend = @ + adjust]
    [] r.type = "RELATIVE" /\ r.addend = 0 -> Put(r, 4, r.mem.val + adjust)
    [] OTHER -> r

(* b,a or sethi and jmpl *)
sparc_fixup_plt(r, value) ==
  [r EXCEPT !.code = IF Near(value - P(r)) THEN Direct(value - P(r)) ELSE Absolute(value)]

(* The address of a RELATIVE goes into the word.  The addend of TLS words  *)
(* is added twice.                                                         *)
sparc_prelink_rela(r, s) ==
  LET value == s.val + r.addend
      word == r.mem.val
      tpoff == value + r.addend - s.tlsoffset
      inExec(q) == IF r.exec /\ s.isTls THEN q ELSE r
  IN  CASE r.type = "NONE" -> r
        [] r.type = "RELATIVE" ->
             IF r.addend = 0 THEN r ELSE Put([r EXCEPT !.addend = 0], 4, word + r.addend)
        [] r.type \in {"GLOB_DAT", "32", "UA32"} -> Put(r, 4, value)
        [] r.type = "JMP_SLOT" -> sparc_fixup_plt(r, value)
        [] r.type = "8" -> Put(r, 1, value)
        [] r.type \in {"16", "UA16"} -> Put(r, 2, value)
        [] r.type = "LO10" -> Put(r, 4, sparc_lo10(word, value))
        [] r.type = "HI22" -> Put(r, 4, sparc_hi22(word, value))
        [] r.type = "DISP8" -> Put(r, 1, value - P(r))
        [] r.type = "DISP16" -> Put(r, 2, value - P(r))
        [] r.type = "DISP32" -> Put(r, 4, value - P(r))
        [] r.type = "WDISP30" -> Put(r, 4, sparc_wdisp30(word, value - P(r)))
        [] r.type = "TLS_DTPOFF32" -> Put(r, 4, value + r.addend)
        [] r.type = "TLS_DTPMOD32" -> IF r.exec THEN Bad(r) ELSE r
        [] r.type = "TLS_TPOFF32" -> inExec(Put(r, 4, tpoff))
        [] r.type = "TLS_LE_HIX22" -> inExec(Put(r, 4, sparc_hix22(word, tpoff)))
        [] r.type = "TLS_LE_LOX10" -> inExec(Put(r, 4, sparc_lox10(word, tpoff)))
        [] r.type = "COPY" -> IF r.exec THEN r ELSE Bad(r)
        [] OTHER -> Bad(r)

sparc_apply_conflict_rela(r, e) ==
  CASE e.type \in {"32", "UA32"} -> Put(r, 4, e.addend)
    [] e.type \in {"16", "UA16"} -> Put(r, 2, e.addend)
    [] e.type = "8" -> Put(r, 1, e.addend)
    [] OTHER -> Bad(r)

sparc_apply_rela(r, s) ==
  LET value == s.val + r.addend
      word == r.mem.val
  IN  CASE r.type = "NONE" -> r
        [] r.type \in {"GLOB_DAT", "32", "UA32"} -> Put(r, 4, value)
        [] r.type = "DISP32" -> Put(r, 4, value - P(r))
        [] r.type \in {"16", "UA16"} -> Put(r, 2, value)
        [] r.type = "DISP16" -> Put(r, 2, value - P(r))
        [] r.type = "8" -> Put(r, 1, value)
        [] r.type = "DISP8" -> Put(r, 1, value - P(r))
        [] r.type = "LO10" -> Put(r, 4, sparc_lo10(word, value))
        [] r.type = "HI22" -> Put(r, 4, sparc_hi22(word, value))
        [] r.type = "WDISP30" -> Put(r, 4, sparc_wdisp30(word, value - P(r)))
        [] OTHER -> Bad(r)

(* What ld.so would have to read and write becomes a plain word. *)
sparc_prelink_conflict_rela(r, c, curtls) ==
  LET value == ConflictValue(c) + r.addend
      tls == ConflictTls(c, curtls)
      word == r.mem.val
  IN  IF \/ r.type \in {"RELATIVE", "NONE"} \/ r.exec
         \/ ~ c.found /\ (curtls.modid = 0 \/ r.type \notin sparc_Tls \ {"TLS_DTPOFF32"})
      THEN None
      ELSE IF c.ifunc THEN Refuse
      ELSE IF c.found /\ r.type = "TLS_DTPOFF32" /\ c.same THEN None
      ELSE IF r.type \in sparc_Tls /\ c.found /\ ~ c.isTls THEN Refuse
      ELSE CASE r.type \in {"GLOB_DAT", "32"} -> Entry("32", value)
        [] r.type = "DISP32" -> Entry("32", value - P(r))
        [] r.type = "16" -> Entry("16", value)
        [] r.type = "DISP16" -> Entry("16", value - P(r))
        [] r.type = "8" -> Entry("8", value)
        [] r.type = "DISP8" -> Entry("8", value - P(r))
        [] r.type = "LO10" -> Entry("32", sparc_lo10(word, value))
        [] r.type = "HI22" -> Entry("32", sparc_hi22(word, value))
        [] r.type = "WDISP30" -> Entry("32", sparc_wdisp30(word, value - P(r)))
        [] r.type \in {"UA16", "UA32", "JMP_SLOT"} -> Entry(r.type, value)
        [] r.type = "TLS_DTPMOD32" -> Entry("32", tls.modid)
        [] r.type = "TLS_DTPOFF32" -> Entry("32", value)
        [] r.type = "TLS_TPOFF32" -> Entry("32", value - tls.offset)
        [] r.type = "TLS_LE_HIX22" -> Entry("32", sparc_hix22(word, value - tls.offset))
        [] r.type = "TLS_LE_LOX10" -> Entry("32", sparc_lox10(word, value - tls.offset))
        [] OTHER -> Refuse

(* The address of a RELATIVE goes into the addend, wherever it was. *)
sparc_undo_prelink_rela(r) ==
  LET word == r.mem.val
  IN  CASE r.type = "NONE" -> r
        [] r.type = "RELATIVE" ->
             IF r.addend = 0 THEN Put([r EXCEPT !.addend = word], 4, 0) ELSE Bad(r)
        [] r.type \in {"GLOB_DAT", "32", "UA32", "DISP32", "TLS_DTPMOD32", "TLS_DTPOFF32",
                       "TLS_TPOFF32"} -> Put(r, 4, 0)
        [] r.type = "JMP_SLOT" -> [r EXCEPT !.code = Lazy]
        [] r.type \in {"8", "DISP8"} -> Put(r, 1, 0)
        [] r.type \in {"16", "UA16", "DISP16"} -> Put(r, 2, 0)
        [] r.type = "LO10" -> Put(r, 4, Insert(word, 0, 10, 0))
        [] r.type = "TLS_LE_LOX10" -> Put(r, 4, Insert(word, 0, 13, 0))
        [] r.type \in {"HI22", "TLS_LE_HIX22"} -> Put(r, 4, Insert(word, 0, 22, 0))
        [] r.type = "WDISP30" -> Put(r, 4, Insert(word, 0, 30, 0))
        [] r.type = "COPY" -> IF r.exec THEN r ELSE Bad(r)
        [] OTHER -> Bad(r)

sparc_reloc_size(type) ==
  CASE type \in {"8", "DISP8"} -> 1 [] type \in {"16", "DISP16", "UA16"} -> 2 [] OTHER -> 4

sparc_reloc_class(type) ==
  CASE type = "COPY" -> "COPY"
    [] type = "JMP_SLOT" -> "PLT"
    [] type \in sparc_Tls -> "TLS"
    [] OTHER -> "VALID"
=============================================================================
