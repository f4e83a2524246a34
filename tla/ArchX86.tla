------------------------------- MODULE ArchX86 ------------------------------
(***************************************************************************)
(* The relocation callbacks of arch-x86_64.c (x86-64 and x32, which differ *)
(* in the size of an address) and arch-i386.c.  Each definition has the    *)
(* name of its callback and says what that does with each relocation type. *)
(***************************************************************************)
EXTENDS Reloc

-----------------------------------------------------------------------------
(* x86-64, x32: RELA only.                                                 *)

(* Moving the object by `adjust': got[1] when it points to .plt + 0x16.    *)
x86_64_adjust_dyn(r, adjust) == IF r.got = Plt(r) THEN [r EXCEPT !.got = @ + adjust] ELSE r

x86_64_adjust_rela(r, adjust) ==
  LET moved == [r EXCEPT !.addend = @ + adjust]
      memMoved(q) == Put(q, q.class, q.mem.val + adjust)
  IN  CASE r.type = "RELATIVE" -> IF r.mem.val = r.addend THEN memMoved(moved) ELSE moved
        [] r.type = "IRELATIVE" -> memMoved(moved)
        [] r.type = "JUMP_SLOT" -> memMoved(r)
        [] OTHER -> r

x86_64_prelink_rela(r, s) ==
  CASE r.type \in {"NONE", "IRELATIVE"} -> r
    [] r.type = "RELATIVE" -> Put(r, r.class, r.addend)
    [] r.type \in {"GLOB_DAT", "JUMP_SLOT"} -> Put(r, r.class, s.val + r.addend)
    [] r.type \in {"64", "DTPOFF64"} -> Put(r, 8, s.val + r.addend)
    [] r.type = "32" -> Put(r, 4, s.val + r.addend)
    [] r.type = "PC32" -> Put(r, 4, s.val + r.addend - P(r))
    [] r.type = "DTPMOD64" -> IF r.exec THEN Bad(r) ELSE r
    [] r.type = "TPOFF64" ->
         IF r.exec /\ s.isTls THEN Put(r, 8, s.val + r.addend - s.tlsoffset) ELSE r
    [] r.type = "COPY" -> IF r.exec THEN r ELSE Bad(r)
    [] OTHER -> Bad(r)

(* A conflict entry on a copy of the word; IRELATIVE is left to ld.so, by  *)
(* an entry for the copy.                                                  *)
x86_64_apply_conflict_rela(r, e) ==
  CASE e.type \in {"GLOB_DAT", "JUMP_SLOT"} -> Put(r, r.class, e.addend)
    [] e.type = "64" -> Put(r, 8, e.addend)
    [] e.type = "IRELATIVE" -> r
    [] e.type = "32" -> Put(r, 4, e.addend)
    [] OTHER -> Bad(r)

(* The word of an executable that C++ optimization looks at: computed, not *)
(* read.                                                                   *)
x86_64_apply_rela(r, s) ==
  CASE r.type = "NONE" -> r
    [] r.type \in {"GLOB_DAT", "JUMP_SLOT"} -> Put(r, r.class, s.val + r.addend)
    [] r.type = "64" -> Put(r, 8, s.val + r.addend)
    [] r.type = "32" -> Put(r, 4, s.val + r.addend)
    [] r.type = "PC32" -> Put(r, 4, s.val + r.addend - P(r))
    [] OTHER -> Bad(r)

(* The entry of .gnu.conflict for the word: none, if the symbol has the    *)
(* same value for every object; local TLS and IRELATIVE always need one.   *)
(* curtls is the TLS block of the object; modid 0 says that it has none.   *)
x86_64_prelink_conflict_rela(r, c, curtls) ==
  LET tls == {"DTPMOD64", "DTPOFF64", "TPOFF64"}
      block == IF c.found THEN [modid |-> c.modid, offset |-> c.tlsoffset] ELSE curtls
      ifunc(type) == IF c.ifunc THEN "IRELATIVE" ELSE type
      word == IF r.class = 4 THEN "32" ELSE "64"
      val == IF c.found THEN c.val ELSE 0
  IN  IF Unneeded(r, c, curtls, {"DTPMOD64", "TPOFF64"}, "DTPOFF64") THEN None
      ELSE IF r.type \in tls /\ c.found /\ ~ c.isTls THEN Refuse
      ELSE CASE r.type = "GLOB_DAT" -> Entry(ifunc(word), val + r.addend)
        [] r.type \in {"JUMP_SLOT", "32", "64", "IRELATIVE"} ->
             Entry(ifunc(r.type), val + r.addend)
        [] r.type = "PC32" -> Entry("32", val + r.addend - P(r))
        [] r.type = "DTPMOD64" -> Entry("64", block.modid)
        [] r.type = "DTPOFF64" -> Entry("64", val + r.addend)
        [] r.type = "TPOFF64" -> Entry("64", val + r.addend - block.offset)
        [] OTHER -> Refuse

(* got[1] gets the address of .plt + 0x16, from which undoing and ld.so    *)
(* compute what the slots held.                                            *)
x86_64_arch_prelink(r) == [r EXCEPT !.got = Plt(r)]

(* (Faulty variant: compared with where the PLT was before prelinking.)    *)
x86_64_arch_undo_prelink_unmoved(r) == IF r.got = PltOffset THEN [r EXCEPT !.got = 0] ELSE r

x86_64_arch_undo_prelink(r) == IF r.got = Plt(r) THEN [r EXCEPT !.got = 0] ELSE r

x86_64_undo_prelink_rela(r) ==
  CASE r.type \in {"NONE", "RELATIVE", "IRELATIVE"} -> r
    [] r.type = "JUMP_SLOT" ->
         IF r.inGot THEN Put(r, r.class, 2 * (8 * r.slot) + r.got) ELSE Bad(r)
    [] r.type = "GLOB_DAT" -> Put(r, r.class, 0)
    [] r.type \in {"64", "DTPMOD64", "DTPOFF64", "TPOFF64"} -> Put(r, 8, 0)
    [] r.type \in {"32", "PC32"} -> Put(r, 4, 0)
    [] r.type = "COPY" -> IF r.exec THEN r ELSE Bad(r)
    [] OTHER -> Bad(r)

x86_64_reloc_size(type) ==
  IF type \in {"GLOB_DAT", "JUMP_SLOT", "64", "IRELATIVE"} THEN 8 ELSE 4

x86_64_x32_reloc_size(type) == IF type = "64" THEN 8 ELSE 4

x86_64_reloc_class(type) ==
  CASE type = "COPY" -> "COPY"
    [] type = "JUMP_SLOT" -> "PLT"
    [] type \in {"DTPMOD64", "DTPOFF64", "TPOFF64"} -> "TLS"
    [] OTHER -> "VALID"

-----------------------------------------------------------------------------
(* i386: REL, which prelink converts to RELA where an addend would be      *)
(* overwritten.                                                            *)

i386_adjust_dyn(r, adjust) == IF r.got = Plt(r) THEN [r EXCEPT !.got = @ + adjust] ELSE r

i386_adjust_rel(r, adjust) ==
  IF r.type \in {"RELATIVE", "JMP_SLOT", "IRELATIVE"}
  THEN Put(r, 4, r.mem.val + adjust) ELSE r

i386_adjust_rela(r, adjust) ==
  CASE r.type \in {"RELATIVE", "IRELATIVE"} ->
         Put([r EXCEPT !.addend = @ + adjust], 4, r.addend + adjust)
    [] r.type = "JMP_SLOT" -> Put(r, 4, r.mem.val + adjust)
    [] OTHER -> r

(* A 32 without addend becomes a GLOB_DAT.  (Faulty variant: it stays.)    *)
i386_prelink_rel_stays(r, s) ==
  IF r.type \in {"GLOB_DAT", "JMP_SLOT", "32", "TLS_DTPOFF32"} THEN Put(r, 4, s.val) ELSE r

i386_prelink_rel(r, s) ==
  CASE r.type \in {"RELATIVE", "IRELATIVE", "NONE"} -> r
    [] r.type \in {"GLOB_DAT", "JMP_SLOT", "TLS_DTPOFF32"} -> Put(r, 4, s.val)
    [] r.type = "32" ->
         IF r.mem.val # 0 THEN Bad(r) ELSE Put([r EXCEPT !.type = "GLOB_DAT"], 4, s.val)
    [] r.type = "TLS_DTPMOD32" -> IF r.exec THEN Bad(r) ELSE r
    [] r.type \in {"TLS_TPOFF32", "TLS_TPOFF"} -> r
    [] r.type = "COPY" -> IF r.exec THEN r ELSE Bad(r)
    [] OTHER -> Bad(r)

i386_prelink_rela(r, s) ==
  LET tpoff == s.val + r.addend - s.tlsoffset
  IN  CASE r.type \in {"RELATIVE", "IRELATIVE", "NONE"} -> r
        [] r.type \in {"GLOB_DAT", "JMP_SLOT", "32", "TLS_DTPOFF32"} ->
             Put(r, 4, s.val + r.addend)
        [] r.type = "PC32" -> Put(r, 4, s.val + r.addend - P(r))
        [] r.type = "TLS_DTPMOD32" -> IF r.exec THEN Bad(r) ELSE r
        [] r.type = "TLS_TPOFF32" -> IF r.exec /\ s.isTls THEN Put(r, 4, - tpoff) ELSE r
        [] r.type = "TLS_TPOFF" -> IF r.exec /\ s.isTls THEN Put(r, 4, tpoff) ELSE r
        [] r.type = "COPY" -> IF r.exec THEN r ELSE Bad(r)
        [] OTHER -> Bad(r)

i386_apply_conflict_rela(r, e) ==
  CASE e.type \in {"GLOB_DAT", "JMP_SLOT", "32"} -> Put(r, 4, e.addend)
    [] e.type = "IRELATIVE" -> r
    [] OTHER -> Bad(r)

i386_apply_rel(r, s) ==
  CASE r.type = "NONE" -> r
    [] r.type \in {"GLOB_DAT", "JMP_SLOT"} -> Put(r, 4, s.val)
    [] r.type = "32" -> Put(r, 4, s.val + r.mem.val)
    [] r.type = "PC32" -> Put(r, 4, s.val + r.mem.val - P(r))
    [] OTHER -> Bad(r)

i386_apply_rela(r, s) ==
  CASE r.type = "NONE" -> r
    [] r.type \in {"GLOB_DAT", "JMP_SLOT", "32"} -> Put(r, 4, s.val + r.addend)
    [] r.type = "PC32" -> Put(r, 4, s.val + r.addend - P(r))
    [] OTHER -> Bad(r)

(* The part that the two conflict callbacks of i386 have in common: when   *)
(* there is nothing to do, or an error.                                    *)
i386_tls == {"TLS_DTPMOD32", "TLS_DTPOFF32", "TLS_TPOFF32", "TLS_TPOFF"}

i386_no_conflict(r, c, curtls) ==
  \/ r.type \in {"RELATIVE", "NONE"}
  \/ /\ ~ c.found
     /\ \/ r.type \in i386_tls \ {"TLS_DTPOFF32"} /\ (curtls.modid = 0 \/ r.exec)
        \/ r.type \notin (i386_tls \ {"TLS_DTPOFF32"}) \union {"IRELATIVE"}
  \/ c.found /\ r.exec /\ ~ c.ifunc
  \/ c.found /\ r.type = "TLS_DTPOFF32" /\ c.same

i386_prelink_conflict_rel(r, c, curtls) ==
  LET block == IF c.found THEN [modid |-> c.modid, offset |-> c.tlsoffset] ELSE curtls
      ifunc(type) == IF c.ifunc THEN "IRELATIVE" ELSE type
      val == IF c.found THEN c.val ELSE 0
      tpoff == val + r.mem.val - block.offset
  IN  IF i386_no_conflict(r, c, curtls) THEN None
      ELSE IF r.type \in i386_tls /\ c.found /\ ~ c.isTls THEN Refuse
      ELSE CASE r.type = "GLOB_DAT" -> Entry(ifunc("32"), val)
        [] r.type = "JMP_SLOT" -> Entry(ifunc("JMP_SLOT"), val)
        [] r.type = "IRELATIVE" -> Entry("IRELATIVE", r.mem.val)
        [] r.type = "TLS_DTPMOD32" -> Entry("32", block.modid)
        [] r.type = "TLS_DTPOFF32" -> Entry("32", val)
        [] r.type = "TLS_TPOFF32" -> Entry("32", - tpoff)
        [] r.type = "TLS_TPOFF" -> Entry("32", tpoff)
        [] OTHER -> Refuse

i386_prelink_conflict_rela(r, c, curtls) ==
  LET block == IF c.found THEN [modid |-> c.modid, offset |-> c.tlsoffset] ELSE curtls
      ifunc(type) == IF c.ifunc THEN "IRELATIVE" ELSE type
      val == IF c.found THEN c.val ELSE 0
      tpoff == val + r.addend - block.offset
  IN  IF i386_no_conflict(r, c, curtls) THEN None
      ELSE IF r.type \in i386_tls /\ c.found /\ ~ c.isTls THEN Refuse
      ELSE CASE r.type = "GLOB_DAT" -> Entry(ifunc("32"), val + r.addend)
        [] r.type \in {"JMP_SLOT", "IRELATIVE", "32"} -> Entry(ifunc(r.type), val + r.addend)
        [] r.type = "PC32" -> Entry("32", val + r.addend - P(r))
        [] r.type = "TLS_DTPMOD32" -> Entry("32", block.modid)
        [] r.type = "TLS_DTPOFF32" -> Entry("32", val)
        [] r.type = "TLS_TPOFF32" -> Entry("32", - tpoff)
        [] r.type = "TLS_TPOFF" -> Entry("32", tpoff)
        [] OTHER -> Refuse

i386_rel_to_rela(r) ==
  CASE r.type = "JMP_SLOT" -> Bad(r)
    [] r.type \in {"RELATIVE", "IRELATIVE", "32", "PC32", "TLS_TPOFF32", "TLS_TPOFF"} ->
         [r EXCEPT !.rela = TRUE, !.addend = r.mem.val]
    [] OTHER -> [r EXCEPT !.rela = TRUE, !.addend = 0]

(* (Faulty variant: only PC-relative relocations are looked for.)          *)
i386_need_rel_to_rela_pc(r) == r.type = "PC32"

(* This relocation makes its section a RELA section.                       *)
i386_need_rel_to_rela(r) ==
  \/ r.type = "32" /\ r.mem.val # 0
  \/ r.type = "PC32"
  \/ r.type \in {"TLS_TPOFF32", "TLS_TPOFF"} /\ r.exec

i386_arch_prelink(r) == [r EXCEPT !.got = Plt(r)]

i386_arch_undo_prelink(r) == IF r.got = Plt(r) THEN [r EXCEPT !.got = 0] ELSE r

i386_undo_prelink_rel(r) ==
  CASE r.type \in {"NONE", "RELATIVE", "IRELATIVE", "TLS_TPOFF32", "TLS_TPOFF"} -> r
    [] r.type = "JMP_SLOT" ->
         IF r.inGot THEN Put(r, 4, 4 * (4 * r.slot) + r.got) ELSE Bad(r)
    [] r.type = "GLOB_DAT" ->
         Put(IF r.inGot THEN r ELSE [r EXCEPT !.type = "32"], 4, 0)
    [] r.type \in {"TLS_DTPMOD32", "TLS_DTPOFF32"} -> Put(r, 4, 0)
    [] r.type = "COPY" -> IF r.exec THEN r ELSE Bad(r)
    [] OTHER -> Bad(r)

i386_rela_to_rel(r) ==
  CASE r.type = "JMP_SLOT" -> Bad(r)
    [] r.type \in {"RELATIVE", "IRELATIVE", "32", "PC32", "TLS_TPOFF32", "TLS_TPOFF"} ->
         Put([r EXCEPT !.rela = FALSE, !.addend = 0], 4, r.addend)
    [] OTHER -> Put([r EXCEPT !.rela = FALSE, !.addend = 0], 4, 0)

i386_reloc_size(type) == 4

i386_reloc_class(type) ==
  CASE type = "COPY" -> "COPY"
    [] type = "JMP_SLOT" -> "PLT"
    [] type \in i386_tls -> "TLS"
    [] OTHER -> "VALID"
=============================================================================
