---------------------------- MODULE Relocation ------------------------------
(***************************************************************************)
(* What prelink does to one relocated word of one object over the object's *)
(* life: prelinking it, again and again, at bases and with symbols that    *)
(* change (prelink.c, dso.c), undoing (undo.c), moving it with -r (main.c),*)
(* and building the conflicts of an executable that uses it (get.c,        *)
(* conflict.c).  The architecture's callbacks are those of PLArch; what ld *)
(* and ld.so do is in LdSo.                                                *)
(***************************************************************************)
EXTENDS LdSo

CONSTANTS
  Archs,        \* the architectures
  Bases,        \* where libraries are placed, and where ld.so may map them
  Addends,      \* of relocations that have one
  Slots         \* indices of GOT slots

(* The architectures are those of PLArch; libraries are placed at          *)
(* addresses, and addends may be negative.                                 *)
ASSUME RelocationAssumption ==
  /\ Archs \subseteq X86_64 \union Ppc \union RelArchs
                      \union {"s390", "s390x", "sh", "alpha", "ppc64", "sparc", "sparc64"}
  /\ Bases \subseteq Nat /\ Addends \subseteq Int /\ Slots \subseteq Nat

VARIABLES
  arch,         \* the architecture of the object
  mixed,        \* its section has a relocation that needs RELA
  r,            \* the relocation, as it is in the file
  orig,         \* the relocation, as .gnu.prelink_undo would restore it
  own,          \* what it was prelinked with; "no": not prelinked
  moved,        \* prelink -r moved the object since
  exe           \* the executable that was prelinked against the object

vars == <<arch, mixed, r, orig, own, moved, exe>>

-----------------------------------------------------------------------------
(* relocate_dso: everything moves by the same amount. *)
Relocated(q, base) ==
  [AdjustDyn(arch, AdjustRel(arch, q, base - q.base), base - q.base) EXCEPT !.base = base]

(* find_reloc_sections, prelink_prepare: the section becomes RELA if one   *)
(* of its relocations needs it.  The relocations of the PLT are a section  *)
(* of their own that never does, the words of the MIPS GOT have none.      *)
Prepared(q) ==
  IF /\ arch \in RelArchs
     /\ ~ q.rela
     /\ q.type \notin Slot \union {"TLS_DESC", "TLS_DESC_NOW"} \union mips_Got
     /\ NeedRelToRela(arch, q) \/ mixed
  THEN RelToRela(arch, q) ELSE q

(* resolve_dso (and resolve_ldso, for which every symbol is in the object):*)
(* the symbol found when ld.so was asked.  prelink_get_relocations does    *)
(* not record ifuncs of an executable, but conflicts for them.             *)
Resolve(q, d) ==
  IF d \in {"none", "local"} \/ (q.exec /\ d \in Ifunc)
  THEN [val |-> 0, isTls |-> FALSE, modid |-> 0, tlsoffset |-> 0]
  ELSE [val |-> Value(q, d), isTls |-> RelocClass(arch, q.type) = "TLS",
        modid |-> Block(d).modid, tlsoffset |-> Block(d).offset]

(* prelink: arch_pre_prelink, the relocations, arch_prelink. *)
Prelinked(q, d) ==
  LET s == Resolve(q, d)
  IN  ArchPrelink(arch, PrelinkRel(arch, ArchPrePrelink(arch, q), s), s)

(* prelink_undo.  (Faulty variant: got[1] is cleared first.)               *)
BackToRel(q) == IF q.rela /\ ~ orig.rela THEN RelaToRel(arch, q) ELSE q
UndoneGotFirst(q) == Relocated(BackToRel(UndoRel(arch, ArchUndo(arch, q))), orig.base)
Undone(q) == Relocated(BackToRel(ArchUndo(arch, UndoRel(arch, q))), orig.base)

(* prelink_get_relocations: ld.so reports a conflict if the symbol is not  *)
(* what the library was prelinked with; every lookup of a TLS symbol from  *)
(* a library, and every ifunc, is recorded as one.                         *)
ConflictOf(q, d, g) ==
  IF d # "local" /\ (g # d \/ g \in Ifunc \/ (RelocClass(arch, q.type) = "TLS" /\ ~ q.exec))
  THEN [found |-> TRUE, val |-> Value(q, g), same |-> g = d, ifunc |-> g \in Ifunc,
        isTls |-> RelocClass(arch, q.type) = "TLS" /\ g # "none",
        modid |-> Block(g).modid, tlsoffset |-> Block(g).offset]
  ELSE NoConflict

(* get_relocated_mem, for a variable that the executable has a COPY        *)
(* relocation for: the bytes of the library, and the conflicts on them.    *)
(* An IRELATIVE adds an entry for the copy, whose addend is read through a *)
(* pointer into the array of entries that making room for it may have      *)
(* freed; full: that happened, and something else is read.                 *)
(* (Faulty variant: the bytes of the library only.)                        *)
CopyOfBytes(q, entries, full) == [ok |-> TRUE, mem |-> q.mem, rela |-> << >>]

CopyOf(q, entries, full) ==
  LET e == entries[1]
  IN  IF entries = << >> THEN [ok |-> TRUE, mem |-> q.mem, rela |-> << >>]
      ELSE [ok |-> RelocSize(arch, e.type) <= ld_width(arch, q) /\ ApplyConflict(arch, q, e).ok,
            mem |-> ApplyConflict(arch, q, e).mem,
            rela |-> IF e.type = "IRELATIVE"
                     THEN <<[e EXCEPT !.addend = IF full THEN 0 ELSE @]>> ELSE << >>]

NoExe == [done |-> FALSE, refused |-> FALSE, global |-> "none", rela |-> << >>, full |-> FALSE,
          copied |-> FALSE, copy |-> [ok |-> FALSE, mem |-> [width |-> 0, val |-> 0], rela |-> << >>]]

(* alpha takes the PLT slot of a symbol that was not found, which is 0,    *)
(* for one whose addend moves with the library: it grows with every move.  *)
(* Such a file is followed no further (the bound of the model), nor is one *)
(* that a callback has refused.                                            *)
WrongAddend == arch = "alpha" /\ r.type = "JMP_SLOT" /\ r.addend # orig.addend
Followed == r.ok /\ ~ WrongAddend

-----------------------------------------------------------------------------
Init ==
  /\ arch \in Archs
  /\ mixed \in (IF arch \in RelArchs THEN BOOLEAN ELSE {FALSE})
  /\ r \in ld_relocations(arch, Slots, Addends)
  /\ r.exec /\ r.type \in mips_DtpMod => mixed
  /\ orig = r
  /\ own = "no"
  /\ moved = FALSE
  /\ exe = NoExe

(* prelink_prepare, relocate_dso and prelink, of a library: all of it is   *)
(* discarded if a callback fails.                                          *)
PrelinkLibrary(base, d) ==
  LET q == Prelinked(Relocated(Prepared(r), base), d)
  IN  /\ Followed
      /\ ~ r.exec
      /\ r' = IF q.ok THEN q ELSE Bad(r)
      /\ own' = IF q.ok THEN d ELSE own
      /\ moved' = (moved /\ ~ q.ok)
      /\ exe' = NoExe
      /\ UNCHANGED <<arch, mixed, orig>>

(* What is known of an executable once it is prelinked, or once            *)
(* prelink_build_conflicts has failed and the file is left alone.          *)
Executable(g, entries, full, copied, copy) ==
  [done |-> TRUE, refused |-> FALSE, global |-> g, rela |-> entries, full |-> full,
   copied |-> copied, copy |-> copy]

RefusedExe(g) == [NoExe EXCEPT !.refused = TRUE, !.global = g]

(* prelink_build_conflicts, for the word of a library that is prelinked.   *)
(* copied: the executable has a COPY relocation for the variable that the  *)
(* word is in.  It fails if a callback refuses the word, its conflict does *)
(* not fit into the variable, or cannot be applied to the copy (abort).    *)
PrelinkUser(g, copied, full) ==
  LET cfl == ConflictRel(arch, r, ConflictOf(r, own, g), Block("self"))
      copy == CopyOf(r, cfl.rela, full)
  IN  /\ r.ok
      /\ own # "no"
      /\ ~ r.exec
      /\ copied => orig.type \in ld_data
      /\ full => copied
      /\ exe' = IF cfl.ok /\ (copied => copy.ok)
                THEN Executable(g, cfl.rela, full, copied, copy) ELSE RefusedExe(g)
      /\ UNCHANGED <<arch, mixed, r, orig, own, moved>>

(* prelink of an executable, for one of its own words: the conflicts come  *)
(* first, before REL sections are converted, and with them what the C++    *)
(* optimization sees of the word: what apply_rel or apply_rela, whose      *)
(* result get_relocated_mem ignores, makes of it, and no conflicts.        *)
PrelinkExecutable(d) ==
  LET cfl == ConflictRel(arch, r, ConflictOf(r, d, d), Block("self"))
      seen == ApplyRel(arch, r, Resolve(r, d))
      q == Prelinked(Prepared(r), d)
  IN  /\ Followed
      /\ r.exec
      /\ IF cfl.ok /\ q.ok
         THEN /\ r' = q
              /\ own' = d
              /\ exe' = Executable(d, cfl.rela, FALSE, orig.type \in ld_data,
                                   [ok |-> seen.ok, mem |-> seen.mem, rela |-> << >>])
         ELSE /\ r' = IF cfl.ok THEN Bad(r) ELSE r
              /\ exe' = IF cfl.ok THEN exe ELSE RefusedExe(d)
              /\ UNCHANGED own
      /\ UNCHANGED <<arch, mixed, orig, moved>>

(* prelink -u *)
Undo ==
  LET q == Undone(r)
  IN  /\ Followed
      /\ own # "no"
      /\ r' = IF q.ok THEN q ELSE Bad(r)
      /\ own' = IF q.ok THEN "no" ELSE own
      /\ moved' = (moved /\ ~ q.ok)
      /\ exe' = NoExe
      /\ UNCHANGED <<arch, mixed, orig>>

(* prelink -r, of a library that may be prelinked; of one that is not,     *)
(* undoing will restore the moved one.  The checksum changes with it.      *)
RelocOnly(base) ==
  /\ Followed
  /\ ~ r.exec
  /\ base # r.base
  /\ r' = Relocated(r, base)
  /\ orig' = IF own = "no" THEN Relocated(r, base) ELSE orig
  /\ moved' = (own # "no")
  /\ exe' = NoExe
  /\ UNCHANGED <<arch, mixed, own>>

Next ==
  \/ \E b \in Bases, d \in OwnSymbols(arch, orig) : PrelinkLibrary(b, d)
  \/ \E g \in GlobalSymbols(arch, orig, own), copied, full \in BOOLEAN :
       PrelinkUser(g, copied, full)
  \/ \E d \in OwnSymbols(arch, orig) : PrelinkExecutable(d)
  \/ Undo
  \/ \E b \in Bases : RelocOnly(b)

Spec == Init /\ [][Next]_vars

-----------------------------------------------------------------------------
(* What the back ends get wrong, and the properties below leave out.       *)
(* Words and conflicts: sh computes a REL32 without the address of the     *)
(* word, and adds the addend to a conflict twice, as sparc and sparc64 do  *)
(* for TLS when they prelink; ppc and ppc64 lose the prediction bit of an  *)
(* ADDR14_BRTAKEN in a conflict; ppc64 reads the low bits of a DS field    *)
(* from the wrong place.                                                   *)
WrongConflict ==
  \/ arch = "sh" /\ r.addend # 0
  \/ r.type = "ADDR14_BRTAKEN"

WrongWord ==
  \/ WrongAddend
  \/ arch = "sh" /\ r.type = "REL32"
  \/ arch \in {"sparc", "sparc64"} /\ r.type \in Tls /\ r.addend # 0
  \/ r.type \in ppc64_Ds
  \/ exe.rela # << >> /\ WrongConflict

(* What the C++ optimization sees of a word of the executable: one that is *)
(* for an ifunc is not resolved, but then it gives up, because the table   *)
(* of the library has an IRELATIVE, for which get_relocated_mem fails      *)
(* without a copy to relocate; and MIPS does not apply the GLOB_DAT of an  *)
(* executable that was prelinked before, so that the old value is seen.    *)
WrongCopy ==
  \/ WrongWord
  \/ r.exec /\ (exe.global \in Ifunc \/ r.type = "IRELATIVE")
  \/ r.exec /\ arch \in Mips /\ r.type = "GLOB_DAT" /\ ~ exe.copy.ok

(* Undoing: the low bits of a DS field are cleared; sparc has the address  *)
(* of a RELATIVE in the addend afterwards, where it may have been in the   *)
(* word; sparc64 refuses an OLO10 with its second addend.                  *)
WrongForm == WrongAddend \/ r.type \in ppc64_Ds
WrongUndo == WrongForm \/ (arch = "sparc" /\ r.type = "RELATIVE")

(* The architectures that leave the address of the PLT in got[1] (on ppc,  *)
(* where DT_PPC_GOT points); MIPS has a PLT in executables only.           *)
GotUsed == arch \in X86_64 \union {"i386", "s390", "s390x", "sh", "ppc", "arm"}
             \/ (arch \in Mips /\ r.exec)

(* The state has the expected shape, and got[1] is clear in a file that is *)
(* not prelinked and points to the PLT of one that is.                     *)
TypeOK ==
  /\ arch \in Archs /\ mixed \in BOOLEAN /\ moved \in BOOLEAN
  /\ r.base \in Bases \union {0, 100000} /\ r.ok \in BOOLEAN
  /\ own \in {"no"} \union OwnSymbols(arch, orig)
  /\ r.ok => r.got = IF own = "no" \/ ~ GotUsed THEN 0 ELSE Plt(r)
  /\ exe.done => exe.global \in GlobalSymbols(arch, orig, own)

(* No sequence of prelinking, moving and undoing brings a relocation into  *)
(* a form that a later adjust, prelink or undo callback refuses: an        *)
(* R_386_32 with an addend has become RELA before i386_prelink_rel sees    *)
(* it, and a JMP_SLOT never does.  (The conflict callbacks: below.)        *)
(* Not those that prelink does not support at all: an OLO10 with a second  *)
(* addend on sparc64, and a TLS_DESC in an object that is bound at once.   *)
Accepted == r.ok \/ r.type \in {"OLO10+8", "TLS_DESC_NOW"}

(* No sequence brings a word into a state from which the conflicts of an   *)
(* executable cannot be built: no conflict callback refuses it, and every  *)
(* conflict can be applied to the copy of a variable.  The one exception   *)
(* is a word of the executable itself that is for an ifunc: its REL        *)
(* section has not been converted when the callback sees it (exec.c).      *)
ConflictsAccepted ==
  exe.refused => r.exec /\ ~ r.rela /\ r.type \in {"32", "ABS32"} /\ exe.global \in Ifunc

(* The point of prelinking: the word of the prelinked file, with the       *)
(* conflicts of the executable applied, is what ld.so would have made of   *)
(* the original in that program, unless -r moved the library since it was  *)
(* prelinked.                                                              *)
Transparent ==
  exe.done /\ ~ moved /\ ~ WrongWord =>
    ld_so_conflicts(arch, r, exe.rela) = ld_so_relocate(arch, orig, r.base, exe.global)

(* The same of a library that -r may have moved: gathering takes it for    *)
(* prelinked all the same.                                                 *)
TransparentMoved ==
  exe.done /\ ~ WrongWord =>
    ld_so_conflicts(arch, r, exe.rela) = ld_so_relocate(arch, orig, r.base, exe.global)

(* A prelinked file that cannot be used as prelinked, because a library    *)
(* changed or its slot is taken, is relocated normally, at any address and *)
(* with any symbol, as the original would be; its PLT slots too when they  *)
(* are bound lazily.                                                       *)
StillRelocatable ==
  ~ WrongForm =>
  \A b \in (IF r.exec THEN {r.base} ELSE Bases \union {0}),
     d \in UNION {GlobalSymbols(arch, orig, e) : e \in OwnSymbols(arch, orig)} :
    /\ ld_so_relocate(arch, r, b, d) = ld_so_relocate(arch, orig, b, d)
    /\ ld_so_lazy(arch, r, b) = ld_so_lazy(arch, orig, b)

(* prelink -u gives back the original, bit for bit, whatever happened in   *)
(* between.                                                                *)
UndoRestores == r.ok /\ own = "no" /\ ~ WrongUndo => r = orig

(* What prelink computes of a word without running the program (the copy   *)
(* of a variable that it puts into .bss, the tables that the C++           *)
(* optimization compares) is what the word is at run time.  The exception  *)
(* is a word that needs an entry for its copy (an ifunc) when the array of *)
(* conflicts is full: it is moved while that entry is added.               *)
CopyFaithful ==
  /\ exe.copied /\ ~ moved /\ ~ WrongCopy
  /\ ~ (exe.full /\ exe.copy.rela # << >>)
  => LET got == ld_so_conflicts(arch, [r EXCEPT !.mem = exe.copy.mem], exe.copy.rela)
         want == ld_so_relocate(arch, orig, r.base, exe.global)
     IN  got.width = want.width /\ got.val = want.val
=============================================================================
