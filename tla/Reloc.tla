------------------------------- MODULE Reloc --------------------------------
(***************************************************************************)
(* The vocabulary of the relocation models: one relocated word of one      *)
(* object, and what prelink's architecture callbacks may do to it.         *)
(*                                                                         *)
(* A relocation is a record:                                               *)
(*   type    its r_type, without the architecture's prefix                 *)
(*   rela    it is in a RELA section: addend is its r_addend               *)
(*   mem     the word it is for: how many bytes were written, and what     *)
(*   got     the second word of the GOT                                    *)
(*   base    where the object is linked to; off is r_offset - base         *)
(*   inGot   the word is in the GOT; slot is its index behind the header   *)
(*   exec    the object is an executable (ET_EXEC)                         *)
(*   class   the size of an address                                        *)
(*   def     its symbol is defined in the object                           *)
(*   code    where the PLT is code that prelinking rewrites: its entry     *)
(*   ok      no callback has refused it                                    *)
(*                                                                         *)
(* Values are integers.  What a callback reads and writes modulo 2^32 or   *)
(* 2^64 is compared here without the modulus, which is harmless: each      *)
(* result is a sum in which every address, addend and offset occurs once.  *)
(***************************************************************************)
EXTENDS Integers, Sequences

(* What the word is written with.                                          *)
Put(r, width, val) == [r EXCEPT !.mem = [width |-> width, val |-> val]]

(* The callback reports an error, or calls abort ().                       *)
Bad(r) == [r EXCEPT !.ok = FALSE]

(* r_offset *)
P(r) == r.base + r.off

(* The PLT is at a fixed distance from the base of the object; what ld     *)
(* leaves in a GOT slot is the second half of the slot's PLT entry.        *)
PltOffset == 28
Plt(r) == r.base + PltOffset

(* st_value of the symbol, in the symbol table of the object. *)
StValue(r) == IF r.def THEN r.base + 12 ELSE 0

(* A PLT entry: as ld left it, a branch over a distance, or a jump to what *)
(* a word at a distance has.  A branch does not reach everything.          *)
NoCode == [how |-> "none", to |-> 0]
Lazy == [how |-> "lazy", to |-> 0]
Direct(distance) == [how |-> "direct", to |-> distance]
Indirect(distance) == [how |-> "indirect", to |-> distance]
Absolute(address) == [how |-> "absolute", to |-> address]
BranchRange == 2000
Near(distance) == distance \in (0 - BranchRange)..BranchRange

(* The function descriptor (.opd) at an address: the entry of the function. *)
(* The other two words of a descriptor belong to it.                       *)
Opd(value) == IF value = 0 THEN 0 ELSE value + 500000

(* Parts of a value, and a word with its bits from lo to hi - 1 replaced by *)
(* those of a value: the rest of an instruction is kept.                   *)
Lo16(x) == x % 65536
Hi16(x) == (x \div 65536) % 65536
Ha16(x) == Hi16(x + 32768)
Signed16(x) == Lo16(x + 32768) - 32768
Field(x, lo, hi) == (x % (2^hi)) - (x % (2^lo))
Insert(word, lo, hi, x) == word - Field(word, lo, hi) + Field(x, lo, hi)

(* ---- What conflict callbacks see (struct prelink_conflict, prelink.h)   *)
(* A conflict of the symbol: the value of the global lookup, whether it    *)
(* and the object's own lookup are the same, whether it is an ifunc, and   *)
(* for a TLS symbol the module.  NoConflict: ld.so reported none.          *)
NoConflict == [found |-> FALSE, val |-> 0, same |-> FALSE, ifunc |-> FALSE,
               isTls |-> FALSE, modid |-> 0, tlsoffset |-> 0]

(* What a conflict callback returns: the entries added to conflict_rela.   *)
None == [ok |-> TRUE, rela |-> << >>]
Refuse == [ok |-> FALSE, rela |-> << >>]
Entry(type, addend) == [ok |-> TRUE, rela |-> <<[type |-> type, addend |-> addend]>>]

(* conflict_lookup_value, and the TLS block of the symbol or, for a local  *)
(* relocation, of the object.                                              *)
ConflictValue(c) == IF c.found THEN c.val ELSE 0
ConflictTls(c, curtls) ==
  IF c.found THEN [modid |-> c.modid, offset |-> c.tlsoffset] ELSE curtls

(* What most conflict callbacks begin with: nothing is to be done unless   *)
(* ld.so reported a conflict or the relocation always needs one (IRELATIVE,*)
(* and those of local TLS); executables have their own words already, and  *)
(* dtpoff wants real conflicts only, not every lookup of a TLS symbol.     *)
Unneeded(r, c, curtls, local, dtpoff) ==
  \/ r.type \in {"RELATIVE", "NONE"}
  \/ ~ c.found /\ r.type \notin local \union {"IRELATIVE"}
  \/ ~ c.found /\ r.type \in local /\ (curtls.modid = 0 \/ r.exec)
  \/ c.found /\ r.exec /\ ~ c.ifunc
  \/ c.found /\ r.type = dtpoff /\ c.same
=============================================================================
