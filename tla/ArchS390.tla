------------------------------ MODULE ArchS390 ------------------------------
(***************************************************************************)
(* The relocation callbacks of arch-s390.c and arch-s390x.c: RELA only,    *)
(* with relocations of every size and PC-relative ones that count in       *)
(* halfwords (DBL).                                                        *)
(***************************************************************************)
EXTENDS Reloc

s390_Tls == {"TLS_DTPMOD", "TLS_DTPOFF", "TLS_TPOFF"}
s390_Dbl == {"PC32DBL", "PLT32DBL"}
s390_Dbl16 == {"PC16DBL", "PLT16DBL"}
s390_Half == {"16", "PC16"} \union s390_Dbl16

-----------------------------------------------------------------------------
(* s390 *)

s390_adjust_dyn(r, adjust) == IF r.got = Plt(r) THEN [r EXCEPT !.got = @ + adjust] ELSE r

s390_adjust_rela(r, adjust) ==
  LET moved == [r EXCEPT !.addend = @ + adjust]
      memMoved(q) == Put(q, 4, q.mem.val + adjust)
  IN  CASE r.type = "RELATIVE" -> IF r.mem.val = r.addend THEN memMoved(moved) ELSE moved
        [] r.type = "IRELATIVE" -> memMoved(moved)
        [] r.type = "JMP_SLOT" -> memMoved(r)
        [] OTHER -> r

s390_prelink_rela(r, s) ==
  LET value == s.val + r.addend
  IN  CASE r.type \in {"NONE", "IRELATIVE"} -> r
        [] r.type = "RELATIVE" -> Put(r, 4, r.addend)
        [] r.type \in {"GLOB_DAT", "JMP_SLOT"} -> Put(r, 4, value - r.addend)
        [] r.type \in {"32", "TLS_DTPOFF"} -> Put(r, 4, value)
        [] r.type = "PC32" -> Put(r, 4, value - P(r))
        [] r.type \in s390_Dbl -> Put(r, 4, (value - P(r)) \div 2)
        [] r.type = "16" -> Put(r, 2, value)
        [] r.type = "PC16" -> Put(r, 2, value - P(r))
        [] r.type \in s390_Dbl16 -> Put(r, 2, (value - P(r)) \div 2)
        [] r.type = "8" -> Put(r, 1, value)
        [] r.type = "TLS_DTPMOD" -> IF r.exec THEN Bad(r) ELSE r
        [] r.type = "TLS_TPOFF" -> IF r.exec /\ s.isTls THEN Put(r, 4, value - s.tlsoffset) ELSE r
        [] r.type = "COPY" -> IF r.exec THEN r ELSE Bad(r)
        [] OTHER -> Bad(r)

s390_apply_conflict_rela(r, e) ==
  CASE e.type = "32" -> Put(r, 4, e.addend)
    [] e.type = "16" -> Put(r, 2, e.addend)
    [] e.type = "8" -> Put(r, 1, e.addend)
    [] e.type = "IRELATIVE" -> r
    [] OTHER -> Bad(r)

s390_apply_rela(r, s) ==
  LET value == s.val + r.addend
  IN  CASE r.type = "NONE" -> r
        [] r.type \in {"GLOB_DAT", "JMP_SLOT"} -> Put(r, 4, value - r.addend)
        [] r.type = "32" -> Put(r, 4, value)
        [] r.type = "PC32" -> Put(r, 4, value - P(r))
        [] r.type \in s390_Dbl -> Put(r, 4, (value - P(r)) \div 2)
        [] r.type = "16" -> Put(r, 2, value)
        [] r.type = "PC16" -> Put(r, 2, value - P(r))
        [] r.type \in s390_Dbl16 -> Put(r, 2, (value - P(r)) \div 2)
        [] r.type = "8" -> Put(r, 1, value)
        [] OTHER -> Bad(r)

s390_prelink_conflict_rela(r, c, curtls) ==
  LET value == ConflictValue(c) + r.addend
      tls == ConflictTls(c, curtls)
      word == IF c.ifunc THEN "IRELATIVE" ELSE "32"
  IN  IF Unneeded(r, c, curtls, {"TLS_DTPMOD", "TLS_TPOFF"}, "TLS_DTPOFF") THEN None
      ELSE IF r.type \in s390_Tls /\ c.found /\ ~ c.isTls THEN Refuse
      ELSE CASE r.type \in {"GLOB_DAT", "JMP_SLOT"} -> Entry(word, value - r.addend)
        [] r.type = "32" -> Entry(word, value)
        [] r.type = "IRELATIVE" -> Entry("IRELATIVE", value)
        [] r.type = "PC32" -> Entry("32", value - P(r))
        [] r.type \in s390_Dbl -> Entry("32", (value - P(r)) \div 2)
        [] r.type = "16" -> Entry("16", value)
        [] r.type = "PC16" -> Entry("16", value - P(r))
        [] r.type \in s390_Dbl16 -> Entry("16", (value - P(r)) \div 2)
        [] r.type = "8" -> Entry("8", value)
        [] r.type = "TLS_DTPMOD" -> Entry("32", tls.modid)
        [] r.type = "TLS_DTPOFF" -> Entry("32", value)
        [] r.type = "TLS_TPOFF" -> Entry("32", value - tls.offset)
        [] OTHER -> Refuse

s390_arch_prelink(r) == [r EXCEPT !.got = Plt(r)]

s390_arch_undo_prelink(r) == IF r.got = Plt(r) THEN [r EXCEPT !.got = 0] ELSE r

(* A PLT entry has 32 bytes, a GOT entry 4. *)
s390_undo_prelink_rela(r) ==
  CASE r.type \in {"NONE", "RELATIVE", "IRELATIVE"} -> r
    [] r.type = "JMP_SLOT" -> IF r.inGot THEN Put(r, 4, 8 * (4 * r.slot) + r.got) ELSE Bad(r)
    [] r.type \in {"GLOB_DAT", "32", "PC32"} \union s390_Dbl \union s390_Tls -> Put(r, 4, 0)
    [] r.type \in s390_Half -> Put(r, 2, 0)
    [] r.type = "8" -> Put(r, 1, 0)
    [] r.type = "COPY" -> IF r.exec THEN r ELSE Bad(r)
    [] OTHER -> Bad(r)

s390_reloc_size(type) ==
  CASE type \in s390_Half -> 2 [] type = "8" -> 1 [] OTHER -> 4

s390_reloc_class(type) ==
  CASE type = "COPY" -> "COPY"
    [] type = "JMP_SLOT" -> "PLT"
    [] type \in s390_Tls -> "TLS"
    [] OTHER -> "VALID"

-----------------------------------------------------------------------------
(* s390x: addresses, and the words of TLS, have 8 bytes.                   *)

s390x_adjust_dyn(r, adjust) == IF r.got = Plt(r) THEN [r EXCEPT !.got = @ + adjust] ELSE r

s390x_adjust_rela(r, adjust) ==
  LET moved == [r EXCEPT !.addend = @ + adjust]
      memMoved(q) == Put(q, 8, q.mem.val + adjust)
  IN  CASE r.type = "RELATIVE" -> IF r.mem.val = r.addend THEN memMoved(moved) ELSE moved
        [] r.type = "IRELATIVE" -> memMoved(moved)
        [] r.type = "JMP_SLOT" -> memMoved(r)
        [] OTHER -> r

s390x_prelink_rela(r, s) ==
  LET value == s.val + r.addend
  IN  CASE r.type \in {"NONE", "IRELATIVE"} -> r
        [] r.type = "RELATIVE" -> Put(r, 8, r.addend)
        [] r.type \in {"GLOB_DAT", "JMP_SLOT", "64", "TLS_DTPOFF"} -> Put(r, 8, value)
        [] r.type = "PC64" -> Put(r, 8, value - P(r))
        [] r.type = "32" -> Put(r, 4, value)
        [] r.type = "PC32" -> Put(r, 4, value - P(r))
        [] r.type \in s390_Dbl -> Put(r, 4, (value - P(r)) \div 2)
        [] r.type = "16" -> Put(r, 2, value)
        [] r.type = "PC16" -> Put(r, 2, value - P(r))
        [] r.type \in s390_Dbl16 -> Put(r, 2, (value - P(r)) \div 2)
        [] r.type = "8" -> Put(r, 1, value)
        [] r.type = "TLS_DTPMOD" -> IF r.exec THEN Bad(r) ELSE r
        [] r.type = "TLS_TPOFF" -> IF r.exec /\ s.isTls THEN Put(r, 8, value - s.tlsoffset) ELSE r
        [] r.type = "COPY" -> IF r.exec THEN r ELSE Bad(r)
        [] OTHER -> Bad(r)

s390x_apply_conflict_rela(r, e) ==
  CASE e.type = "64" -> Put(r, 8, e.addend)
    [] e.type = "32" -> Put(r, 4, e.addend)
    [] e.type = "16" -> Put(r, 2, e.addend)
    [] e.type = "8" -> Put(r, 1, e.addend)
    [] e.type = "IRELATIVE" -> r
    [] OTHER -> Bad(r)

s390x_apply_rela(r, s) ==
  LET value == s.val + r.addend
  IN  CASE r.type = "NONE" -> r
        [] r.type \in {"GLOB_DAT", "JMP_SLOT", "64"} -> Put(r, 8, value)
        [] r.type = "PC64" -> Put(r, 8, value - P(r))
        [] r.type = "32" -> Put(r, 4, value)
        [] r.type = "PC32" -> Put(r, 4, value - P(r))
        [] r.type \in s390_Dbl -> Put(r, 4, (value - P(r)) \div 2)
        [] r.type = "16" -> Put(r, 2, value)
        [] r.type = "PC16" -> Put(r, 2, value - P(r))
        [] r.type \in s390_Dbl16 -> Put(r, 2, (value - P(r)) \div 2)
        [] r.type = "8" -> Put(r, 1, value)
        [] OTHER -> Bad(r)

s390x_prelink_conflict_rela(r, c, curtls) ==
  LET value == ConflictValue(c) + r.addend
      tls == ConflictTls(c, curtls)
      word == IF c.ifunc THEN "IRELATIVE" ELSE "64"
  IN  IF Unneeded(r, c, curtls, {"TLS_DTPMOD", "TLS_TPOFF"}, "TLS_DTPOFF") THEN None
      ELSE IF r.type \in s390_Tls /\ c.found /\ ~ c.isTls THEN Refuse
      ELSE CASE r.type \in {"GLOB_DAT", "JMP_SLOT", "64"} -> Entry(word, value)
        [] r.type = "PC64" -> Entry(word, value - P(r))
        [] r.type = "IRELATIVE" -> Entry("IRELATIVE", value)
        [] r.type = "32" -> Entry("32", value)
        [] r.type = "PC32" -> Entry("32", value - P(r))
        [] r.type \in s390_Dbl -> Entry("32", (value - P(r)) \div 2)
        [] r.type = "16" -> Entry("16", value)
        [] r.type = "PC16" -> Entry("16", value - P(r))
        [] r.type \in s390_Dbl16 -> Entry("16", (value - P(r)) \div 2)
        [] r.type = "8" -> Entry("8", value)
        [] r.type = "TLS_DTPMOD" -> Entry("64", tls.modid)
        [] r.type = "TLS_DTPOFF" -> Entry("64", value)
        [] r.type = "TLS_TPOFF" -> Entry("64", value - tls.offset)
        [] OTHER -> Refuse

s390x_arch_prelink(r) == [r EXCEPT !.got = Plt(r)]

s390x_arch_undo_prelink(r) == IF r.got = Plt(r) THEN [r EXCEPT !.got = 0] ELSE r

s390x_undo_prelink_rela(r) ==
  CASE r.type \in {"NONE", "RELATIVE", "IRELATIVE"} -> r
    [] r.type = "JMP_SLOT" -> IF r.inGot THEN Put(r, 8, 4 * (8 * r.slot) + r.got) ELSE Bad(r)
    [] r.type \in {"GLOB_DAT", "64", "PC64"} \union s390_Tls -> Put(r, 8, 0)
    [] r.type \in {"32", "PC32"} \union s390_Dbl -> Put(r, 4, 0)
    [] r.type \in s390_Half -> Put(r, 2, 0)
    [] r.type = "8" -> Put(r, 1, 0)
    [] r.type = "COPY" -> IF r.exec THEN r ELSE Bad(r)
    [] OTHER -> Bad(r)

s390x_reloc_size(type) ==
  CASE type \in {"GLOB_DAT", "JMP_SLOT", "64", "PC64", "IRELATIVE"} -> 8
    [] type \in s390_Half -> 2
    [] type = "8" -> 1
    [] OTHER -> 4

s390x_reloc_class(type) ==
  CASE type = "COPY" -> "COPY"
    [] type = "JMP_SLOT" -> "PLT"
    [] type \in s390_Tls -> "TLS"
    [] OTHER -> "VALID"
=============================================================================
