------------------------------- MODULE PLArch -------------------------------
(***************************************************************************)
(* The architectures of prelink (struct PLArch): which callback of which   *)
(* back end the generic code calls for a relocation.  "ppc" is PowerPC     *)
(* with DT_PPC_GOT and "ppc_bss" without.                                  *)
(***************************************************************************)
EXTENDS ArchX86, ArchS390, ArchSh, ArchAlpha, ArchPpc64, ArchSparc64, ArchArm, ArchMips

X86_64 == {"x86_64", "x32"}
Ppc == {"ppc", "ppc_bss"}
Mips == {"mips", "mips64"}

(* Relocations have their addend in the word.                              *)
RelArchs == {"i386", "arm"} \union Mips

AdjustRel(a, q, adjust) ==
  CASE a \in X86_64 -> x86_64_adjust_rela(q, adjust)
    [] a = "i386" -> IF q.rela THEN i386_adjust_rela(q, adjust) ELSE i386_adjust_rel(q, adjust)
    [] a = "s390" -> s390_adjust_rela(q, adjust)
    [] a = "s390x" -> s390x_adjust_rela(q, adjust)
    [] a = "sh" -> sh_adjust_rela(q, adjust)
    [] a = "alpha" -> alpha_adjust_rela(q, adjust)
    [] a \in Ppc -> ppc_adjust_rela(q, adjust)
    [] a = "ppc64" -> ppc64_adjust_rela(q, adjust)
    [] a = "sparc" -> sparc_adjust_rela(q, adjust)
    [] a = "sparc64" -> sparc64_adjust_rela(q, adjust)
    [] a = "arm" -> IF q.rela THEN arm_adjust_rela(q, adjust) ELSE arm_adjust_rel(q, adjust)
    [] a \in Mips -> mips_adjust_reloc(mips_arch_adjust(q, adjust), adjust)

(* The others have nothing in the GOT that is adjusted here. *)
AdjustDyn(a, q, adjust) ==
  CASE a \in X86_64 -> x86_64_adjust_dyn(q, adjust)
    [] a = "i386" -> i386_adjust_dyn(q, adjust)
    [] a = "s390" -> s390_adjust_dyn(q, adjust)
    [] a = "s390x" -> s390x_adjust_dyn(q, adjust)
    [] a = "sh" -> sh_adjust_dyn(q, adjust)
    [] a \in Ppc -> ppc_adjust_dyn(q, adjust)
    [] a = "arm" -> arm_adjust_dyn(q, adjust)
    [] OTHER -> q

PrelinkRel(a, q, s) ==
  CASE a \in X86_64 -> x86_64_prelink_rela(q, s)
    [] a = "i386" -> IF q.rela THEN i386_prelink_rela(q, s) ELSE i386_prelink_rel(q, s)
    [] a = "s390" -> s390_prelink_rela(q, s)
    [] a = "s390x" -> s390x_prelink_rela(q, s)
    [] a = "sh" -> sh_prelink_rela(q, s)
    [] a = "alpha" -> alpha_prelink_rela(q, s)
    [] a \in Ppc -> ppc_prelink_rela(q, s)
    [] a = "ppc64" -> ppc64_prelink_rela(q, s)
    [] a = "sparc" -> sparc_prelink_rela(q, s)
    [] a = "sparc64" -> sparc64_prelink_rela(q, s)
    [] a = "arm" -> IF q.rela THEN arm_prelink_rela(q, s) ELSE arm_prelink_rel(q, s)
    [] a \in Mips -> IF q.rela THEN mips_prelink_reloc(q, s) ELSE mips_prelink_rel(q, s)

ArchPrePrelink(a, q) == IF a \in Ppc THEN ppc_arch_pre_prelink(q) ELSE q

ArchPrelink(a, q, s) ==
  CASE a \in X86_64 -> x86_64_arch_prelink(q)
    [] a = "i386" -> i386_arch_prelink(q)
    [] a = "s390" -> s390_arch_prelink(q)
    [] a = "s390x" -> s390x_arch_prelink(q)
    [] a = "sh" -> sh_arch_prelink(q)
    [] a = "arm" -> arm_arch_prelink(q)
    [] a \in Mips -> mips_arch_prelink(q, s)
    [] OTHER -> q

ConflictRel(a, q, c, curtls) ==
  CASE a \in X86_64 -> x86_64_prelink_conflict_rela(q, c, curtls)
    [] a = "i386" -> IF q.rela THEN i386_prelink_conflict_rela(q, c, curtls)
                               ELSE i386_prelink_conflict_rel(q, c, curtls)
    [] a = "s390" -> s390_prelink_conflict_rela(q, c, curtls)
    [] a = "s390x" -> s390x_prelink_conflict_rela(q, c, curtls)
    [] a = "sh" -> sh_prelink_conflict_rela(q, c, curtls)
    [] a = "alpha" -> alpha_prelink_conflict_rela(q, c, curtls)
    [] a \in Ppc -> ppc_prelink_conflict_rela(q, c, curtls)
    [] a = "ppc64" -> ppc64_prelink_conflict_rela(q, c, curtls)
    [] a = "sparc" -> sparc_prelink_conflict_rela(q, c, curtls)
    [] a = "sparc64" -> sparc64_prelink_conflict_rela(q, c, curtls)
    [] a = "arm" -> IF q.rela THEN arm_prelink_conflict_rela(q, c, curtls)
                              ELSE arm_prelink_conflict_rel(q, c, curtls)
    [] a \in Mips -> IF q.type \in mips_Global THEN mips_arch_prelink_conflict(q, c)
                     ELSE mips_prelink_conflict_reloc(q, c, curtls)

ApplyConflict(a, q, e) ==
  CASE a \in X86_64 -> x86_64_apply_conflict_rela(q, e)
    [] a = "i386" -> i386_apply_conflict_rela(q, e)
    [] a = "s390" -> s390_apply_conflict_rela(q, e)
    [] a = "s390x" -> s390x_apply_conflict_rela(q, e)
    [] a = "sh" -> sh_apply_conflict_rela(q, e)
    [] a = "alpha" -> alpha_apply_conflict_rela(q, e)
    [] a \in Ppc -> ppc_apply_conflict_rela(q, e)
    [] a = "ppc64" -> ppc64_apply_conflict_rela(q, e)
    [] a = "sparc" -> sparc_apply_conflict_rela(q, e)
    [] a = "sparc64" -> sparc64_apply_conflict_rela(q, e)
    [] a = "arm" -> arm_apply_conflict_rela(q, e)
    [] a \in Mips -> mips_apply_conflict_rela(q, e)

ApplyRel(a, q, s) ==
  CASE a \in X86_64 -> x86_64_apply_rela(q, s)
    [] a = "i386" -> IF q.rela THEN i386_apply_rela(q, s) ELSE i386_apply_rel(q, s)
    [] a = "s390" -> s390_apply_rela(q, s)
    [] a = "s390x" -> s390x_apply_rela(q, s)
    [] a = "sh" -> sh_apply_rela(q, s)
    [] a = "alpha" -> alpha_apply_rela(q, s)
    [] a \in Ppc -> ppc_apply_rela(q, s)
    [] a = "ppc64" -> ppc64_apply_rela(q, s)
    [] a = "sparc" -> sparc_apply_rela(q, s)
    [] a = "sparc64" -> sparc64_apply_rela(q, s)
    [] a = "arm" -> IF q.rela THEN arm_apply_rela(q, s) ELSE arm_apply_rel(q, s)
    [] a \in Mips -> mips_apply_reloc(q, s)

RelocSize(a, type) ==
  CASE a = "x86_64" -> x86_64_reloc_size(type)
    [] a = "x32" -> x86_64_x32_reloc_size(type)
    [] a = "i386" -> i386_reloc_size(type)
    [] a = "s390" -> s390_reloc_size(type)
    [] a = "s390x" -> s390x_reloc_size(type)
    [] a = "sh" -> sh_reloc_size(type)
    [] a = "alpha" -> alpha_reloc_size(type)
    [] a \in Ppc -> ppc_reloc_size(type)
    [] a = "ppc64" -> ppc64_reloc_size(type)
    [] a = "sparc" -> sparc_reloc_size(type)
    [] a = "sparc64" -> sparc64_reloc_size(SPARC64_R_TYPE(type))
    [] a = "arm" -> arm_reloc_size(type)
    [] a \in Mips -> mips_reloc_size(type)

RelocClass(a, type) ==
  CASE a \in X86_64 -> x86_64_reloc_class(type)
    [] a = "i386" -> i386_reloc_class(type)
    [] a = "s390" -> s390_reloc_class(type)
    [] a = "s390x" -> s390x_reloc_class(type)
    [] a = "sh" -> sh_reloc_class(type)
    [] a = "alpha" -> alpha_reloc_class(type)
    [] a \in Ppc -> ppc_reloc_class(type)
    [] a = "ppc64" -> ppc64_reloc_class(type)
    [] a = "sparc" -> sparc_reloc_class(type)
    [] a = "sparc64" -> sparc64_reloc_class(type)
    [] a = "arm" -> arm_reloc_class(type)
    [] a \in Mips -> mips_reloc_class(type)

(* Back ends with REL sections have no undo_prelink_rela. *)
UndoRel(a, q) ==
  CASE a \in RelArchs /\ q.rela -> q
    [] a \in X86_64 -> x86_64_undo_prelink_rela(q)
    [] a = "i386" /\ ~ q.rela -> i386_undo_prelink_rel(q)
    [] a = "s390" -> s390_undo_prelink_rela(q)
    [] a = "s390x" -> s390x_undo_prelink_rela(q)
    [] a = "sh" -> sh_undo_prelink_rela(q)
    [] a = "alpha" -> alpha_undo_prelink_rela(q)
    [] a \in Ppc -> ppc_undo_prelink_rela(q)
    [] a = "ppc64" -> ppc64_undo_prelink_rela(q)
    [] a = "sparc" -> sparc_undo_prelink_rela(q)
    [] a = "sparc64" -> sparc64_undo_prelink_rela(q)
    [] a = "arm" /\ ~ q.rela -> arm_undo_prelink_rel(q)
    [] a \in Mips /\ ~ q.rela -> mips_undo_prelink_rel(q)

ArchUndo(a, q) ==
  CASE a \in X86_64 -> x86_64_arch_undo_prelink(q)
    [] a = "i386" -> i386_arch_undo_prelink(q)
    [] a = "s390" -> s390_arch_undo_prelink(q)
    [] a = "s390x" -> s390x_arch_undo_prelink(q)
    [] a = "sh" -> sh_arch_undo_prelink(q)
    [] a \in Ppc -> ppc_arch_undo_prelink(q)
    [] a = "arm" -> arm_arch_undo_prelink(q)
    [] a \in Mips -> mips_arch_undo_prelink(q)
    [] OTHER -> q

NeedRelToRela(a, q) ==
  CASE a = "i386" -> i386_need_rel_to_rela(q)
    [] a = "arm" -> arm_need_rel_to_rela(q)
    [] a \in Mips -> mips_need_rel_to_rela(q)
    [] OTHER -> FALSE

RelToRela(a, q) ==
  CASE a = "i386" -> i386_rel_to_rela(q)
    [] a = "arm" -> arm_rel_to_rela(q)
    [] a \in Mips -> mips_rel_to_rela(q)

RelaToRel(a, q) ==
  CASE a = "i386" -> i386_rela_to_rel(q)
    [] a = "arm" -> arm_rela_to_rel(q)
    [] a \in Mips -> mips_rela_to_rel(q)
=============================================================================
