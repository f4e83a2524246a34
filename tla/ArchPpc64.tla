----------------------------- MODULE ArchPpc64 ------------------------------
(***************************************************************************)
(* The relocation callbacks of arch-ppc64.c (PowerPC64): RELA only.  The   *)
(* address of a function is that of its descriptor in .opd; the PLT is     *)
(* not in the file of an object that is not prelinked, and holds copies of *)
(* descriptors otherwise.  ld leaves addends in the words of ADDR64.       *)
(***************************************************************************)
EXTENDS ArchPpc

ppc64_Word == {"GLOB_DAT", "ADDR64", "UADDR64"}
ppc64_Higher == {"ADDR16_HIGHER", "ADDR16_HIGHERA", "ADDR16_HIGHEST", "ADDR16_HIGHESTA"}
ppc64_Ds == {"ADDR16_LO_DS", "ADDR16_DS"}
ppc64_DtpRel == {"DTPREL64"} \union ppc_DtpRel16
ppc64_TpRel == {"TPREL64"} \union ppc_TpRel16

(* Addresses of the model have no bits above the 32nd. *)
ppc64_higher(value) == 0

ppc64_dtprel(type, value) == ppc_dtprel(IF type = "DTPREL64" THEN "DTPREL32" ELSE type, value)
ppc64_tprel(type, value, offset) ==
  ppc_tprel(IF type = "TPREL64" THEN "TPREL32" ELSE type, value, offset)

ppc64_reloc_size(type) ==
  CASE type \in ppc_Half \union ppc64_Ds \union ppc64_Higher \union ppc_DtpRel16 \union ppc_TpRel16
         -> 2
    [] type \in ppc64_Word \union {"REL64", "DTPMOD64", "DTPREL64", "TPREL64", "IRELATIVE"} -> 8
    [] OTHER -> 4

ppc64_reloc_class(type) ==
  CASE type = "COPY" -> "COPY"
    [] type \in {"DTPMOD64"} \union ppc64_DtpRel \union ppc64_TpRel -> "TLS"
    [] OTHER -> "PLT"

ppc64_adjust_rela(r, adjust) ==
  LET moved == [r EXCEPT !.addend = @ + adjust]
  IN  CASE r.type \in {"RELATIVE", "IRELATIVE"} ->
             IF r.mem.val = r.addend THEN Put(moved, 8, r.mem.val + adjust) ELSE moved
        [] r.type = "JMP_IREL" -> moved
        [] OTHER -> r

(* The descriptor is in the object itself, or in what was read of those of *)
(* its dependencies.                                                       *)
ppc64_fixup_plt(r, value) == Put(r, 24, Opd(value))

(* The low bits of a DS field are read from address r_offset & 3, where    *)
(* nothing is.                                                             *)
ppc64_prelink_rela(r, s) ==
  LET value == s.val + r.addend
      word == r.mem.val
  IN  CASE r.type \in {"NONE", "IRELATIVE", "JMP_IREL"} -> r
        [] r.type = "RELATIVE" -> Put(r, 8, r.addend)
        [] r.type \in ppc64_Word -> Put(r, 8, value)
        [] r.type \in ppc64_DtpRel -> Put(r, ppc64_reloc_size(r.type), ppc64_dtprel(r.type, value))
        [] r.type \in {"ADDR32", "UADDR32"} -> Put(r, 4, value)
        [] r.type = "JMP_SLOT" -> ppc64_fixup_plt(r, value)
        [] r.type \in ppc_Half -> Put(r, 2, ppc_half(r.type, value))
        [] r.type \in ppc64_Higher -> Put(r, 2, ppc64_higher(value))
        [] r.type \in ppc64_Ds -> Put(r, 2, Field(value, 2, 16))
        [] r.type = "ADDR24" -> Put(r, 4, Insert(word, 2, 26, value))
        [] r.type = "ADDR14" -> Put(r, 4, ppc_addr14(word, value))
        [] r.type \in ppc_Predicted ->
             Put(r, 4, ppc_addr14_br(word, value, r.type = "ADDR14_BRTAKEN"))
        [] r.type = "REL24" -> Put(r, 4, Insert(word, 2, 26, value - P(r)))
        [] r.type = "REL32" -> Put(r, 4, value - P(r))
        [] r.type = "REL64" -> Put(r, 8, value - P(r))
        [] r.type = "DTPMOD64" -> IF r.exec THEN Bad(r) ELSE r
        [] r.type \in ppc64_TpRel ->
             IF r.exec /\ s.isTls
             THEN Put(r, ppc64_reloc_size(r.type), ppc64_tprel(r.type, value, s.tlsoffset)) ELSE r
        [] r.type = "COPY" -> IF r.exec THEN r ELSE Bad(r)
        [] OTHER -> Bad(r)

ppc64_apply_conflict_rela(r, e) ==
  CASE e.type \in {"ADDR64", "UADDR64"} -> Put(r, 8, e.addend)
    [] e.type \in {"ADDR32", "UADDR32"} -> Put(r, 4, e.addend)
    [] e.type \in {"ADDR16", "UADDR16"} -> Put(r, 2, Lo16(e.addend))
    [] e.type = "IRELATIVE" -> r
    [] OTHER -> Bad(r)

ppc64_apply_rela(r, s) ==
  LET value == s.val + r.addend
      word == r.mem.val
  IN  CASE r.type = "NONE" -> r
        [] r.type \in ppc64_Word -> Put(r, 8, value)
        [] r.type \in {"ADDR32", "UADDR32"} -> Put(r, 4, value)
        [] r.type \in ppc_Half -> Put(r, 2, ppc_half(r.type, value))
        [] r.type \in ppc64_Higher -> Put(r, 2, ppc64_higher(value))
        [] r.type \in ppc64_Ds -> Put(r, 2, Insert(word, 2, 16, value))
        [] r.type = "ADDR24" -> Put(r, 4, Insert(word, 2, 26, value))
        [] r.type = "ADDR14" -> Put(r, 4, ppc_addr14(word, value))
        [] r.type \in ppc_Predicted ->
             Put(r, 4, ppc_addr14_br(word, value, r.type = "ADDR14_BRTAKEN"))
        [] r.type = "REL24" -> Put(r, 4, Insert(word, 2, 26, value - P(r)))
        [] r.type = "REL32" -> Put(r, 4, value - P(r))
        [] r.type = "REL64" -> Put(r, 8, value - P(r))
        [] OTHER -> Bad(r)

(* As on ppc; JMP_IREL, like IRELATIVE, always needs a conflict. *)
ppc64_prelink_conflict_rela(r, c, curtls) ==
  LET value == ConflictValue(c) + r.addend
      tls == ConflictTls(c, curtls)
      word == r.mem.val
      dtprel == IF r.type \in ppc64_DtpRel THEN r.type ELSE "DTPREL64"
      plain(entry) == IF c.ifunc THEN Refuse ELSE entry
      ifunc(type) == IF c.ifunc THEN "IRELATIVE" ELSE type
      sized(x) == IF ppc64_reloc_size(r.type) = 8 THEN Entry("ADDR64", x)
                  ELSE Entry("ADDR16", Signed16(x))
  IN  IF r.type = "JMP_IREL" THEN Entry("JMP_IREL", value)
      ELSE IF Unneeded(r, c, curtls, {"DTPMOD64"} \union ppc64_TpRel, dtprel) THEN None
      ELSE IF ppc64_reloc_class(r.type) = "TLS" /\ c.found /\ ~ c.isTls THEN Refuse
      ELSE CASE r.type = "GLOB_DAT" -> Entry(ifunc("ADDR64"), value)
        [] r.type \in {"ADDR64", "UADDR64"} -> Entry(ifunc(r.type), value)
        [] r.type = "IRELATIVE" -> Entry("IRELATIVE", value)
        [] r.type = "JMP_SLOT" -> Entry(IF c.ifunc THEN "JMP_IREL" ELSE "JMP_SLOT", value)
        [] r.type \in {"ADDR32", "UADDR32"} -> plain(Entry(r.type, value))
        [] r.type = "UADDR16" -> plain(Entry("UADDR16", Signed16(value)))
        [] r.type \in ppc_Half \ {"UADDR16"} ->
             plain(Entry("ADDR16", Signed16(ppc_half(r.type, value))))
        [] r.type \in ppc64_Higher -> plain(Entry("ADDR16", ppc64_higher(value)))
        [] r.type \in ppc64_Ds -> plain(Entry("ADDR16", Signed16(value) + (word % 4)))
        [] r.type = "ADDR24" -> plain(Entry("ADDR32", Insert(word, 2, 26, value)))
        [] r.type = "ADDR14" -> plain(Entry("ADDR32", ppc_addr14(word, value)))
        [] r.type \in ppc_Predicted -> plain(Entry("ADDR32", ppc_addr14_br(word, value, FALSE)))
        [] r.type = "REL24" -> plain(Entry("ADDR32", Insert(word, 2, 26, value - P(r))))
        [] r.type = "REL32" -> plain(Entry("ADDR32", value - P(r)))
        [] r.type = "REL64" -> plain(Entry("ADDR64", value - P(r)))
        [] r.type = "DTPMOD64" -> sized(tls.modid)
        [] r.type \in ppc64_DtpRel -> sized(ppc64_dtprel(r.type, value))
        [] r.type \in ppc64_TpRel -> sized(ppc64_tprel(r.type, value, tls.offset))
        [] OTHER -> Refuse

(* The PLT becomes SHT_NOBITS again. *)
ppc64_undo_prelink_rela(r) ==
  LET word == r.mem.val
  IN  CASE r.type = "NONE" -> r
        [] r.type \in {"JMP_SLOT", "JMP_IREL"} -> Put(r, 24, 0)
        [] r.type \in {"RELATIVE", "ADDR64", "IRELATIVE"} -> Put(r, 8, r.addend)
        [] r.type \in {"GLOB_DAT", "UADDR64", "DTPREL64", "TPREL64", "DTPMOD64", "REL64"} ->
             Put(r, 8, 0)
        [] r.type \in {"ADDR32", "UADDR32", "REL32"} -> Put(r, 4, 0)
        [] ppc64_reloc_size(r.type) = 2 -> Put(r, 2, 0)
        [] r.type \in {"ADDR24", "REL24"} -> Put(r, 4, Insert(word, 2, 26, 0))
        [] r.type = "ADDR14" -> Put(r, 4, ppc_addr14(word, 0))
        [] r.type \in ppc_Predicted -> Put(r, 4, ppc_addr14_br(word, 0, FALSE))
        [] r.type = "COPY" -> IF r.exec THEN r ELSE Bad(r)
        [] OTHER -> Bad(r)
=============================================================================
