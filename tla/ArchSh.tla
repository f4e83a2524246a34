------------------------------- MODULE ArchSh -------------------------------
(***************************************************************************)
(* The relocation callbacks of arch-sh.c (SuperH): RELA, but a RELATIVE    *)
(* whose addend is 0 has its address in the word.                          *)
(***************************************************************************)
EXTENDS Reloc

sh_adjust_dyn(r, adjust) == IF r.got = Plt(r) THEN [r EXCEPT !.got = @ + adjust] ELSE r

sh_adjust_rela(r, adjust) ==
  CASE r.type = "RELATIVE" /\ r.addend # 0 -> [r EXCEPT !.addend = @ + adjust]
    [] r.type = "JMP_SLOT" \/ (r.type = "RELATIVE" /\ r.addend = 0) ->
         Put(r, 4, r.mem.val + adjust)
    [] OTHER -> r

(* REL32 subtracts the addend it has just added, not r_offset. *)
sh_prelink_rela(r, s) ==
  LET value == s.val + r.addend
  IN  CASE r.type = "NONE" -> r
        [] r.type = "RELATIVE" -> IF r.addend # 0 THEN Put(r, 4, r.addend) ELSE r
        [] r.type \in {"GLOB_DAT", "JMP_SLOT", "DIR32"} -> Put(r, 4, value)
        [] r.type = "REL32" -> Put(r, 4, value - r.addend)
        [] r.type = "COPY" -> IF r.exec THEN r ELSE Bad(r)
        [] OTHER -> Bad(r)

sh_apply_conflict_rela(r, e) ==
  IF e.type \in {"GLOB_DAT", "JMP_SLOT", "DIR32"} THEN Put(r, 4, e.addend) ELSE Bad(r)

sh_apply_rela(r, s) ==
  LET value == s.val + r.addend
  IN  CASE r.type = "NONE" -> r
        [] r.type \in {"GLOB_DAT", "JMP_SLOT", "DIR32"} -> Put(r, 4, value)
        [] r.type = "REL32" -> Put(r, 4, value - P(r))
        [] OTHER -> Bad(r)

(* The addend is added when the value is known, and again at the end. *)
sh_prelink_conflict_rela(r, c, curtls) ==
  LET value == c.val + r.addend
      aligned(type) == IF P(r) % 4 = 0 THEN "GLOB_DAT" ELSE type
  IN  IF r.type \in {"RELATIVE", "NONE"} \/ r.exec \/ ~ c.found THEN None
      ELSE IF c.ifunc THEN Refuse
      ELSE CASE r.type = "REL32" -> Entry(aligned("DIR32"), value - P(r) + r.addend)
        [] r.type = "DIR32" -> Entry(aligned("DIR32"), value + r.addend)
        [] r.type \in {"GLOB_DAT", "JMP_SLOT"} -> Entry(r.type, value + r.addend)
        [] OTHER -> Refuse

sh_arch_prelink(r) == [r EXCEPT !.got = Plt(r)]

sh_arch_undo_prelink(r) == IF r.got = Plt(r) THEN [r EXCEPT !.got = 0] ELSE r

(* A PLT entry has 28 bytes. *)
sh_undo_prelink_rela(r) ==
  CASE r.type = "NONE" -> r
    [] r.type = "RELATIVE" -> IF r.addend # 0 THEN Put(r, 4, 0) ELSE r
    [] r.type = "JMP_SLOT" -> IF r.inGot THEN Put(r, 4, 7 * (4 * r.slot) + r.got) ELSE Bad(r)
    [] r.type \in {"GLOB_DAT", "DIR32", "REL32"} -> Put(r, 4, 0)
    [] r.type = "COPY" -> IF r.exec THEN r ELSE Bad(r)
    [] OTHER -> Bad(r)

sh_reloc_size(type) == 4

sh_reloc_class(type) ==
  CASE type = "COPY" -> "COPY" [] type = "JMP_SLOT" -> "PLT" [] OTHER -> "VALID"
=============================================================================
