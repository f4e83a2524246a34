--------------------------- MODULE ReplaceProofs ---------------------------
(***************************************************************************)
(* For every number of hard links, and whatever fails, crashes or is       *)
(* replaced from outside: a name refers to an incomplete file only if      *)
(* fsync reported an error, a hard link is never lost, a file from outside *)
(* is never replaced, nothing is left behind, and -n leaves the file       *)
(* alone.                                                                  *)
(***************************************************************************)
EXTENDS Replace, TLAPS

(* The inodes that the names refer to.                                     *)
Named == {canon} \union {link[h] : h \in Links} \union {moved[h] : h \in Links}

(* Before the rename no name refers to the temporary file; at the rename   *)
(* that file is complete, or fsync reported that it is not.                *)
RenameInv ==
  /\ pc \in Before => New \notin Named
  /\ pc \in {"context", "rename"} => temp \in {"synced", "unsynced"}

(* fsync is called, and may report an error, only after the file was       *)
(* written.                                                                *)
StoreInv == pc \in Before \ {"context", "rename"} => temp # "unsynced"

(* While a hard link is being redone, its moved name refers to a file, and *)
(* that name is removed only when the link exists again.                   *)
RelinkInv ==
  /\ pc \in {"move", "link", "unlink", "back"} => cur \in Links
  /\ pc \in {"link", "unlink", "back"} => moved[cur] # NoFile
  /\ pc = "unlink" => link[cur] # NoFile

Inv == TypeOK /\ NeverPartial /\ LinkRecoverable /\ RenameInv /\ StoreInv /\ RelinkInv

USE DEF Inode

(* The error paths after open_dso.                                         *)
ErrorPath == ReopenFails \/ WorkFails \/ WriteFails \/ ContextFails \/ RenameFails

LEMMA InitInv == Init => Inv
<1> SUFFICES ASSUME Init PROVE Inv
  OBVIOUS
<1> USE ReplaceAssumption DEF Init
<1>1. named \in BOOLEAN /\ stuck \in BOOLEAN
  OBVIOUS
<1>2. TypeOK
  BY <1>1 DEF TypeOK
<1>3. NeverPartial /\ RenameInv /\ StoreInv
  BY DEF NeverPartial, RenameInv, StoreInv, Named, Before
<1>4. LinkRecoverable /\ RelinkInv
  BY DEF LinkRecoverable, RelinkInv
<1> QED
  BY <1>2, <1>3, <1>4 DEF Inv

LEMMA TypeStep == TypeOK /\ RelinkInv /\ [Next]_vars => TypeOK'
<1> SUFFICES ASSUME TypeOK, RelinkInv, [Next]_vars PROVE TypeOK'
  OBVIOUS
<1> USE ReplaceAssumption DEF TypeOK, RelinkInv, Goto, names, file, loop, outside, options
<1>1. CASE Open \/ CheckSame \/ OpenFails \/ CheckChanged \/ CheckFails
  <2>1. named' \in BOOLEAN /\ stuck' \in BOOLEAN
    BY <1>1, Zenon DEF Open, CheckSame, OpenFails, CheckChanged, CheckFails, Fail, AfterError,
                       Unlinked
  <2> QED
    BY <1>1, <2>1 DEF Open, CheckSame, OpenFails, CheckChanged, CheckFails, Fail, AfterError
<1>2. CASE Reopen \/ Work \/ Discard \/ Write \/ Close \/ Context \/ Rename \/ ErrorPath
  <2>1. named' \in BOOLEAN /\ stuck' \in BOOLEAN
    BY <1>2, Zenon DEF Reopen, Work, Discard, Write, Close, Context, Rename, ErrorPath,
                       ReopenFails, WorkFails, WriteFails, ContextFails, RenameFails, Unlink,
                       ReopenUnlinked, UpdateUnlinked, Fail, AfterError, Unlinked
  <2> QED
    BY <1>2, <2>1 DEF Reopen, Work, AfterWork, Discard, Write, Close, Synced, Context, Rename,
                      ErrorPath, ReopenFails, WorkFails, WriteFails, ContextFails, RenameFails,
                      Unlink, ReopenUnlinked, UpdateUnlinked, Fail, AfterError
<1>3. ASSUME NEW h \in Links, LinkCheck(h) \/ LinkCheckFails(h) PROVE TypeOK'
  BY <1>3 DEF LinkCheck, LinkCheckFails, NextLink, RestOf
<1>4. CASE LinkMove
  BY <1>4 DEF LinkMove, NextLink
<1>5. CASE LinkMake \/ LinkMakeFails \/ LinkFails
  BY <1>5 DEF LinkMake, LinkMakeFails, LinkFails, NextLink
<1>6. CASE LinkDrop \/ LinkBack \/ LinksDone
  BY <1>6 DEF LinkDrop, LinkBack, BackLink, LinksDone, NewIno, NextLink
<1>7. ASSUME NEW u \in Upgrades, UpgradeFile(u) PROVE TypeOK'
  BY <1>7 DEF UpgradeFile
<1>8. ASSUME NEW u \in Upgrades, NEW h \in Links, UpgradeLink(h, u) PROVE TypeOK'
  BY <1>8 DEF UpgradeLink
<1>9. CASE Crash
  BY <1>9 DEF Crash
<1>10. CASE UNCHANGED vars
  BY <1>10 DEF vars
<1> QED
  BY <1>1, <1>2, <1>3, <1>4, <1>5, <1>6, <1>7, <1>8, <1>9, <1>10
  DEF Next, Step, ErrorPath, Outside, Terminating

LEMMA PartialStep == Inv /\ [Next]_vars => NeverPartial' /\ RenameInv' /\ StoreInv'
<1> SUFFICES ASSUME Inv, [Next]_vars PROVE NeverPartial' /\ RenameInv' /\ StoreInv'
  OBVIOUS
<1> USE ReplaceAssumption
    DEF Inv, TypeOK, NeverPartial, RenameInv, StoreInv, RelinkInv, Named, Before,
        Goto, names, file, loop, outside, options
<1>1. CASE Open \/ CheckSame \/ OpenFails \/ CheckChanged \/ CheckFails
  BY <1>1 DEF Open, CheckSame, OpenFails, CheckChanged, CheckFails, Fail, AfterError
<1>2. CASE Reopen \/ Work \/ Discard \/ Write \/ Close \/ Context \/ Rename \/ ErrorPath
  BY <1>2 DEF Reopen, Work, AfterWork, Discard, Write, Close, Synced, Context, Rename, ErrorPath,
              ReopenFails, WorkFails, WriteFails, ContextFails, RenameFails, Fail, AfterError
<1>3. ASSUME NEW h \in Links, LinkCheck(h) \/ LinkCheckFails(h)
      PROVE NeverPartial' /\ RenameInv' /\ StoreInv'
  BY <1>3 DEF LinkCheck, LinkCheckFails, NextLink
<1>4. CASE LinkMove
  BY <1>4 DEF LinkMove, NextLink
<1>5. CASE LinkMake \/ LinkMakeFails \/ LinkFails
  BY <1>5 DEF LinkMake, LinkMakeFails, LinkFails, NextLink
<1>6. CASE LinkDrop \/ LinkBack \/ LinksDone
  BY <1>6 DEF LinkDrop, LinkBack, BackLink, LinksDone, NextLink
<1>7. ASSUME NEW u \in Upgrades, UpgradeFile(u) PROVE NeverPartial' /\ RenameInv' /\ StoreInv'
  BY <1>7 DEF UpgradeFile
<1>8. ASSUME NEW u \in Upgrades, NEW h \in Links, UpgradeLink(h, u)
      PROVE NeverPartial' /\ RenameInv' /\ StoreInv'
  BY <1>8 DEF UpgradeLink
<1>9. CASE Crash
  BY <1>9 DEF Crash
<1>10. CASE UNCHANGED vars
  BY <1>10 DEF vars
<1> QED
  BY <1>1, <1>2, <1>3, <1>4, <1>5, <1>6, <1>7, <1>8, <1>9, <1>10
  DEF Next, Step, ErrorPath, Outside, Terminating

LEMMA RelinkStep == Inv /\ [Next]_vars => LinkRecoverable' /\ RelinkInv'
<1> SUFFICES ASSUME Inv, [Next]_vars PROVE LinkRecoverable' /\ RelinkInv'
  OBVIOUS
<1> USE ReplaceAssumption
    DEF Inv, TypeOK, LinkRecoverable, RelinkInv, Goto, names, file, loop, outside, options
<1>1. CASE Open \/ CheckSame \/ OpenFails \/ CheckChanged \/ CheckFails
  BY <1>1 DEF Open, CheckSame, OpenFails, CheckChanged, CheckFails, Fail, AfterError
<1>2. CASE Reopen \/ Work \/ Discard \/ Write \/ Close \/ Context \/ Rename \/ ErrorPath
  BY <1>2 DEF Reopen, Work, AfterWork, Discard, Write, Close, Context, Rename, ErrorPath,
              ReopenFails, WorkFails, WriteFails, ContextFails, RenameFails, Fail, AfterError
<1>3. ASSUME NEW h \in Links, LinkCheck(h) \/ LinkCheckFails(h) PROVE LinkRecoverable' /\ RelinkInv'
  BY <1>3 DEF LinkCheck, LinkCheckFails, NextLink
<1>4. CASE LinkMove
  BY <1>4 DEF LinkMove, NextLink
<1>5. CASE LinkMake \/ LinkMakeFails \/ LinkFails
  BY <1>5 DEF LinkMake, LinkMakeFails, LinkFails, NextLink
<1>6. CASE LinkDrop \/ LinkBack \/ LinksDone
  BY <1>6 DEF LinkDrop, LinkBack, BackLink, LinksDone, NextLink
<1>7. ASSUME NEW u \in Upgrades, UpgradeFile(u) PROVE LinkRecoverable' /\ RelinkInv'
  BY <1>7 DEF UpgradeFile
<1>8. ASSUME NEW u \in Upgrades, NEW h \in Links, UpgradeLink(h, u)
      PROVE LinkRecoverable' /\ RelinkInv'
  BY <1>8 DEF UpgradeLink
<1>9. CASE Crash
  BY <1>9 DEF Crash
<1>10. CASE UNCHANGED vars
  BY <1>10 DEF vars
<1> QED
  BY <1>1, <1>2, <1>3, <1>4, <1>5, <1>6, <1>7, <1>8, <1>9, <1>10
  DEF Next, Step, ErrorPath, Outside, Terminating

(* Inv is an invariant of the replacement of a file.                       *)
LEMMA InvHolds == Spec => []Inv
<1>1. Inv /\ [Next]_vars => Inv'
  BY TypeStep, PartialStep, RelinkStep DEF Inv
<1> QED
  BY InitInv, <1>1, PTL DEF Spec

(* The variables of prelink_ent and undo_one keep their types.             *)
THEOREM TypeCorrect == Spec => []TypeOK
<1>1. Inv => TypeOK
  BY DEF Inv
<1> QED
  BY InvHolds, <1>1, PTL

(* update_dso renames only a file that was written and that close_dso_1    *)
(* has given to fsync: unless fsync reports an error, which nobody looks   *)
(* at, no name refers to an incomplete file, at any call that fails and at *)
(* any crash.                                                              *)
THEOREM NeverPartialHolds == Spec => []NeverPartial
<1>1. Inv => NeverPartial
  BY DEF Inv
<1> QED
  BY InvHolds, <1>1, PTL

(* Redoing hard links (rename, link, unlink, and rename back on failure)   *)
(* never loses one.                                                        *)
THEOREM LinkRecoverableHolds == Spec => []LinkRecoverable
<1>1. Inv => LinkRecoverable
  BY DEF Inv
<1> QED
  BY InvHolds, <1>1, PTL
-----------------------------------------------------------------------------
(* What the other invariants rest on.                                      *)

(* The temporary file has a name only from reopen_dso to close_dso or the  *)
(* rename.                                                                 *)
TempInv ==
  /\ pc \notin {"edit", "discard", "write", "close", "context", "rename", "crashed"}
       => named = FALSE \/ stuck = TRUE
  /\ pc \in {"open", "check", "work"} => named = FALSE

(* The way through the code that -u and -n choose.                         *)
WayInv ==
  /\ pc = "discard" => dry_run
  /\ pc \in {"write", "close", "context", "rename"} => ~ dry_run
  /\ pc \in Redoing => Relink

(* The inode that the names are compared with is that of the gathered      *)
(* file until everything is done; the hard link being redone was visited,  *)
(* and was a link of that file then.                                       *)
VisitInv ==
  /\ pc # "done" => ino = Orig
  /\ pc \in Before => todo = Links
  /\ pc \in Redoing => cur \notin todo
  /\ \A h \in Links : h \in todo \/ (pc = "move" /\ h = cur) => moved[h] = NoFile

(* A file from outside that took the place of a name before that was       *)
(* looked at makes prelink stop, or leave the name alone.                  *)
KeptInv ==
  /\ Orig \in kept =>
       \/ pc \in {"open", "done", "crashed"}
       \/ pc = "check" /\ opened \in Upgrades
  /\ pc \in Redoing => cur \notin kept

(* What a name refers to as long as nothing failed and nothing came from   *)
(* outside.                                                                *)
Settled == IF dry_run THEN Orig ELSE New

CleanInv ==
  failures = 0 /\ upgraded = {} =>
    /\ pc \in Before => canon = Orig
    /\ pc \in Redoing \union {"links", "done"} => canon = Settled
    /\ pc # "back"
    /\ pc = "done" => todo = {}
    /\ \A h \in todo : link[h] = Orig
    /\ \A h \in Links \ todo :
         \/ pc = "crashed"
         \/ pc \in Redoing /\ h = cur
         \/ link[h] = Settled /\ moved[h] = NoFile
    /\ pc = "unlink" => link[cur] = Settled

SafeInv ==
  /\ TempInv /\ WayInv /\ VisitInv /\ KeptInv /\ CleanInv
  /\ NoTemporary /\ ChangedKept /\ DryRunKept /\ HardlinksRedone

(* SafeInv holds at the start.                                             *)
LEMMA InitSafe == Init => SafeInv
<1> SUFFICES ASSUME Init PROVE SafeInv
  OBVIOUS
<1> USE ReplaceAssumption DEF Init, Before, Redoing
<1>1. TempInv /\ NoTemporary
  BY Zenon DEF TempInv, NoTemporary
<1>2. WayInv /\ VisitInv /\ KeptInv
  BY DEF WayInv, VisitInv, KeptInv
<1>3. CleanInv /\ HardlinksRedone
  BY DEF CleanInv, HardlinksRedone, Settled
<1>4. ChangedKept /\ DryRunKept
  BY DEF ChangedKept, DryRunKept
<1> QED
  BY <1>1, <1>2, <1>3, <1>4 DEF SafeInv

(* Only reopen_dso names the temporary file; close_dso and rename unname it.  *)
LEMMA TempStep == TempInv /\ [Next]_vars => TempInv'
<1> SUFFICES ASSUME TempInv, [Next]_vars PROVE TempInv'
  OBVIOUS
<1> USE ReplaceAssumption
    DEF TempInv, Goto, names, file, loop, outside, options
<1>1. CASE Open \/ CheckSame \/ OpenFails \/ CheckChanged \/ CheckFails
  BY <1>1 DEF Open, CheckSame, OpenFails, CheckChanged, CheckFails, SameFile, Fail,
                     AfterError, Unlinked
<1>2. CASE Reopen \/ Work \/ Discard \/ Write
  BY <1>2 DEF Reopen, Work, AfterWork, Discard, Write, Unlink, Unlinked
<1>3. CASE Close \/ Context \/ Rename \/ ErrorPath
  BY <1>3 DEF Close, Synced, Context, Rename, ErrorPath, ReopenFails, WorkFails,
                     WriteFails, ContextFails, RenameFails, Unlink, ReopenUnlinked,
                     UpdateUnlinked, Fail, AfterError, Unlinked
<1>4. ASSUME NEW h \in Links, LinkCheck(h) \/ LinkCheckFails(h) PROVE TempInv'
  BY <1>4 DEF LinkCheck, LinkCheckFails, StillLink, Relink, RestOf, NextLink
<1>5. CASE LinkMove
  BY <1>5 DEF LinkMove, NextLink
<1>6. CASE LinkMake \/ LinkMakeFails \/ LinkFails
  BY <1>6 DEF LinkMake, LinkMakeFails, LinkFails, NextLink
<1>7. CASE LinkDrop \/ LinkBack \/ LinksDone
  BY <1>7 DEF LinkDrop, LinkBack, BackLink, LinksDone, NewIno, NextLink
<1>8. ASSUME NEW u \in Upgrades, UpgradeFile(u) PROVE TempInv'
  BY <1>8 DEF UpgradeFile
<1>9. ASSUME NEW u \in Upgrades, NEW h \in Links, UpgradeLink(h, u) PROVE TempInv'
  BY <1>9 DEF UpgradeLink
<1>10. CASE Crash
  BY <1>10 DEF Crash
<1>11. CASE UNCHANGED vars
  BY <1>11 DEF vars
<1> QED
  BY <1>1, <1>2, <1>3, <1>4, <1>5, <1>6, <1>7, <1>8, <1>9, <1>10, <1>11
  DEF Next, Step, ErrorPath, Outside, Terminating

(* -u and -n decide which way the code goes.                               *)
LEMMA WayStep == WayInv /\ [Next]_vars => WayInv'
<1> SUFFICES ASSUME WayInv, [Next]_vars PROVE WayInv'
  OBVIOUS
<1> USE ReplaceAssumption
    DEF WayInv, Redoing, Relink,
        Goto, names, file, loop, outside, options
<1>1. CASE Open \/ CheckSame \/ OpenFails \/ CheckChanged \/ CheckFails
  BY <1>1 DEF Open, CheckSame, OpenFails, CheckChanged, CheckFails, SameFile, Fail, AfterError
<1>2. CASE Reopen \/ Work \/ Discard \/ Write
  BY <1>2 DEF Reopen, Work, AfterWork, Discard, Write
<1>3. CASE Close \/ Context \/ Rename \/ ErrorPath
  BY <1>3 DEF Close, Synced, Context, Rename, ErrorPath, ReopenFails, WorkFails, WriteFails,
              ContextFails, RenameFails, Fail, AfterError
<1>4. ASSUME NEW h \in Links, LinkCheck(h) \/ LinkCheckFails(h) PROVE WayInv'
  BY <1>4 DEF LinkCheck, LinkCheckFails, StillLink, Relink, RestOf, NextLink
<1>5. CASE LinkMove
  BY <1>5 DEF LinkMove, NextLink
<1>6. CASE LinkMake \/ LinkMakeFails \/ LinkFails
  BY <1>6 DEF LinkMake, LinkMakeFails, LinkFails, NextLink
<1>7. CASE LinkDrop \/ LinkBack \/ LinksDone
  BY <1>7 DEF LinkDrop, LinkBack, BackLink, LinksDone, NewIno, NextLink
<1>8. ASSUME NEW u \in Upgrades, UpgradeFile(u) PROVE WayInv'
  BY <1>8 DEF UpgradeFile
<1>9. ASSUME NEW u \in Upgrades, NEW h \in Links, UpgradeLink(h, u) PROVE WayInv'
  BY <1>9 DEF UpgradeLink
<1>10. CASE Crash
  BY <1>10 DEF Crash
<1>11. CASE UNCHANGED vars
  BY <1>11 DEF vars
<1> QED
  BY <1>1, <1>2, <1>3, <1>4, <1>5, <1>6, <1>7, <1>8, <1>9, <1>10, <1>11
  DEF Next, Step, ErrorPath, Outside, Terminating

(* Every hard link is visited once, against the inode gathered.            *)
LEMMA VisitStep == Inv /\ VisitInv /\ [Next]_vars => VisitInv'
<1> SUFFICES ASSUME Inv, VisitInv, [Next]_vars PROVE VisitInv'
  OBVIOUS
<1> USE ReplaceAssumption
    DEF Inv, TypeOK, RelinkInv, VisitInv, Before, Redoing,
        Goto, names, file, loop, outside, options
<1>1. CASE Open \/ CheckSame \/ OpenFails \/ CheckChanged \/ CheckFails
  BY <1>1 DEF Open, CheckSame, OpenFails, CheckChanged, CheckFails, SameFile, Fail, AfterError
<1>2. CASE Reopen \/ Work \/ Discard \/ Write
  BY <1>2 DEF Reopen, Work, AfterWork, Discard, Write
<1>3. CASE Close \/ Context \/ Rename \/ ErrorPath
  BY <1>3 DEF Close, Synced, Context, Rename, ErrorPath, ReopenFails, WorkFails, WriteFails,
              ContextFails, RenameFails, Fail, AfterError
<1>4. ASSUME NEW h \in Links, LinkCheck(h) \/ LinkCheckFails(h) PROVE VisitInv'
  BY <1>4 DEF LinkCheck, LinkCheckFails, StillLink, Relink, RestOf, NextLink
<1>5. CASE LinkMove
  BY <1>5 DEF LinkMove, NextLink
<1>6. CASE LinkMake \/ LinkMakeFails \/ LinkFails
  BY <1>6 DEF LinkMake, LinkMakeFails, LinkFails, NextLink
<1>7. CASE LinkDrop \/ LinkBack \/ LinksDone
  BY <1>7 DEF LinkDrop, LinkBack, BackLink, LinksDone, NewIno, NextLink
<1>8. ASSUME NEW u \in Upgrades, UpgradeFile(u) PROVE VisitInv'
  BY <1>8 DEF UpgradeFile
<1>9. ASSUME NEW u \in Upgrades, NEW h \in Links, UpgradeLink(h, u) PROVE VisitInv'
  BY <1>9 DEF UpgradeLink
<1>10. CASE Crash
  BY <1>10 DEF Crash
<1>11. CASE UNCHANGED vars
  BY <1>11 DEF vars
<1> QED
  BY <1>1, <1>2, <1>3, <1>4, <1>5, <1>6, <1>7, <1>8, <1>9, <1>10, <1>11
  DEF Next, Step, ErrorPath, Outside, Terminating

(* What came from outside in time is not replaced.                         *)
LEMMA KeptStep == Inv /\ VisitInv /\ KeptInv /\ ChangedKept /\ [Next]_vars =>
  KeptInv' /\ ChangedKept'
<1> SUFFICES ASSUME Inv, VisitInv, KeptInv, ChangedKept, [Next]_vars PROVE KeptInv' /\ ChangedKept'
  OBVIOUS
<1> USE ReplaceAssumption
    DEF Inv, TypeOK, RelinkInv, VisitInv, KeptInv, ChangedKept, Before, Redoing,
        Goto, names, file, loop, outside, options
<1>1. CASE Open \/ CheckSame \/ OpenFails \/ CheckChanged \/ CheckFails
  BY <1>1 DEF Open, CheckSame, OpenFails, CheckChanged, CheckFails, SameFile, Fail, AfterError
<1>2. CASE Reopen \/ Work \/ Discard \/ Write
  BY <1>2 DEF Reopen, Work, AfterWork, Discard, Write
<1>3. CASE Close \/ Context \/ Rename \/ ErrorPath
  BY <1>3 DEF Close, Synced, Context, Rename, ErrorPath, ReopenFails, WorkFails, WriteFails,
              ContextFails, RenameFails, Fail, AfterError
<1>4. ASSUME NEW h \in Links, LinkCheck(h) \/ LinkCheckFails(h) PROVE KeptInv' /\ ChangedKept'
  BY <1>4 DEF LinkCheck, LinkCheckFails, StillLink, Relink, RestOf, NextLink
<1>5. CASE LinkMove
  BY <1>5 DEF LinkMove, NextLink
<1>6. CASE LinkMake \/ LinkMakeFails \/ LinkFails
  BY <1>6 DEF LinkMake, LinkMakeFails, LinkFails, NextLink
<1>7. CASE LinkDrop \/ LinkBack \/ LinksDone
  BY <1>7 DEF LinkDrop, LinkBack, BackLink, LinksDone, NewIno, NextLink
<1>8. ASSUME NEW u \in Upgrades, UpgradeFile(u) PROVE KeptInv' /\ ChangedKept'
  BY <1>8 DEF UpgradeFile
<1>9. ASSUME NEW u \in Upgrades, NEW h \in Links, UpgradeLink(h, u) PROVE KeptInv' /\ ChangedKept'
  BY <1>9 DEF UpgradeLink
<1>10. CASE Crash
  BY <1>10 DEF Crash
<1>11. CASE UNCHANGED vars
  BY <1>11 DEF vars
<1> QED
  BY <1>1, <1>2, <1>3, <1>4, <1>5, <1>6, <1>7, <1>8, <1>9, <1>10, <1>11
  DEF Next, Step, ErrorPath, Outside, Terminating

(* With -n neither the rename nor, without -u, the hard links are reached. *)
LEMMA DryRunStep == Inv /\ WayInv /\ DryRunKept /\ [Next]_vars => DryRunKept'
<1> SUFFICES ASSUME Inv, WayInv, DryRunKept, [Next]_vars PROVE DryRunKept'
  OBVIOUS
<1> USE ReplaceAssumption
    DEF Inv, TypeOK, RelinkInv, WayInv, DryRunKept, Redoing, Relink,
        Goto, names, file, loop, outside, options
<1>1. CASE Open \/ CheckSame \/ OpenFails \/ CheckChanged \/ CheckFails
  BY <1>1 DEF Open, CheckSame, OpenFails, CheckChanged, CheckFails, SameFile, Fail, AfterError
<1>2. CASE Reopen \/ Work \/ Discard \/ Write
  BY <1>2 DEF Reopen, Work, AfterWork, Discard, Write
<1>3. CASE Close \/ Context \/ Rename \/ ErrorPath
  BY <1>3 DEF Close, Synced, Context, Rename, ErrorPath, ReopenFails, WorkFails, WriteFails,
              ContextFails, RenameFails, Fail, AfterError
<1>4. ASSUME NEW h \in Links, LinkCheck(h) \/ LinkCheckFails(h) PROVE DryRunKept'
  BY <1>4 DEF LinkCheck, LinkCheckFails, StillLink, Relink, RestOf, NextLink
<1>5. CASE LinkMove
  BY <1>5 DEF LinkMove, NextLink
<1>6. CASE LinkMake \/ LinkMakeFails \/ LinkFails
  BY <1>6 DEF LinkMake, LinkMakeFails, LinkFails, NextLink
<1>7. CASE LinkDrop \/ LinkBack \/ LinksDone
  BY <1>7 DEF LinkDrop, LinkBack, BackLink, LinksDone, NewIno, NextLink
<1>8. ASSUME NEW u \in Upgrades, UpgradeFile(u) PROVE DryRunKept'
  BY <1>8 DEF UpgradeFile
<1>9. ASSUME NEW u \in Upgrades, NEW h \in Links, UpgradeLink(h, u) PROVE DryRunKept'
  BY <1>9 DEF UpgradeLink
<1>10. CASE Crash
  BY <1>10 DEF Crash
<1>11. CASE UNCHANGED vars
  BY <1>11 DEF vars
<1> QED
  BY <1>1, <1>2, <1>3, <1>4, <1>5, <1>6, <1>7, <1>8, <1>9, <1>10, <1>11
  DEF Next, Step, ErrorPath, Outside, Terminating

(* What every step does to the names when all goes well.                   *)
LEMMA CleanStep == Inv /\ WayInv /\ VisitInv /\ CleanInv /\ [Next]_vars => CleanInv'
<1> SUFFICES ASSUME Inv, WayInv, VisitInv, CleanInv, [Next]_vars PROVE CleanInv'
  OBVIOUS
<1> USE ReplaceAssumption
    DEF Inv, TypeOK, RelinkInv, WayInv, VisitInv, CleanInv, Settled, Before, Redoing, Relink,
        Goto, names, file, loop, outside, options
<1>1. CASE Open \/ CheckSame \/ OpenFails \/ CheckChanged \/ CheckFails
  BY <1>1 DEF Open, CheckSame, OpenFails, CheckChanged, CheckFails, SameFile, Fail, AfterError
<1>2. CASE Reopen \/ Work \/ Discard \/ Write
  BY <1>2 DEF Reopen, Work, AfterWork, Discard, Write
<1>3. CASE Close \/ Context \/ Rename \/ ErrorPath
  BY <1>3 DEF Close, Synced, Context, Rename, ErrorPath, ReopenFails, WorkFails, WriteFails,
              ContextFails, RenameFails, Fail, AfterError
<1>4. ASSUME NEW h \in Links, LinkCheck(h) \/ LinkCheckFails(h) PROVE CleanInv'
  BY <1>4 DEF LinkCheck, LinkCheckFails, StillLink, Relink, RestOf, NextLink
<1>5. CASE LinkMove
  BY <1>5 DEF LinkMove, NextLink
<1>6. CASE LinkMake \/ LinkMakeFails \/ LinkFails
  BY <1>6 DEF LinkMake, LinkMakeFails, LinkFails, NextLink
<1>7. CASE LinkDrop \/ LinkBack \/ LinksDone
  BY <1>7 DEF LinkDrop, LinkBack, BackLink, LinksDone, NewIno, NextLink
<1>8. ASSUME NEW u \in Upgrades, UpgradeFile(u) PROVE CleanInv'
  BY <1>8 DEF UpgradeFile
<1>9. ASSUME NEW u \in Upgrades, NEW h \in Links, UpgradeLink(h, u) PROVE CleanInv'
  BY <1>9 DEF UpgradeLink
<1>10. CASE Crash
  BY <1>10 DEF Crash
<1>11. CASE UNCHANGED vars
  BY <1>11 DEF vars
<1> QED
  BY <1>1, <1>2, <1>3, <1>4, <1>5, <1>6, <1>7, <1>8, <1>9, <1>10, <1>11
  DEF Next, Step, ErrorPath, Outside, Terminating

(* SafeInv is an invariant: the rest of it follows from the parts.         *)
LEMMA SafeHolds == Spec => [](Inv /\ SafeInv)
<1>1. Inv /\ TempInv => NoTemporary
  BY Zenon DEF TempInv, NoTemporary
<1>2. Inv /\ CleanInv => HardlinksRedone
  BY ReplaceAssumption DEF Inv, TypeOK, CleanInv, HardlinksRedone, Settled, Redoing
<1>3. Inv /\ Inv' /\ SafeInv /\ [Next]_vars => SafeInv'
  <2> SUFFICES ASSUME Inv, Inv', SafeInv, [Next]_vars PROVE SafeInv'
    OBVIOUS
  <2>1. (TempInv /\ WayInv /\ VisitInv /\ KeptInv /\ CleanInv /\ ChangedKept /\ DryRunKept)'
    BY TempStep, WayStep, VisitStep, KeptStep, DryRunStep, CleanStep DEF SafeInv
  <2>2. (NoTemporary /\ HardlinksRedone)'
    <3>1. (Inv /\ TempInv => NoTemporary)' /\ (Inv /\ CleanInv => HardlinksRedone)'
      BY <1>1, <1>2, PTL
    <3> QED
      BY <2>1, <3>1
  <2> QED
    BY <2>1, <2>2 DEF SafeInv
<1> QED
  BY InvHolds, InitSafe, <1>3, PTL DEF Spec

(* When nothing failed and nothing came from outside, the loop over        *)
(* ent->hardlink leaves every name a link of the one file, and no          *)
(* ".#prelink#" name.                                                      *)
THEOREM HardlinksRedoneHolds == Spec => []HardlinksRedone
<1>1. SafeInv => HardlinksRedone
  BY DEF SafeInv
<1> QED
  BY SafeHolds, <1>1, PTL

(* The error paths of reopen_dso, of prelink_ent and undo_one (close_dso)  *)
(* and of update_dso, and its rename, leave no temporary file, unless      *)
(* unlink itself fails.                                                    *)
THEOREM NoTemporaryHolds == Spec => []NoTemporary
<1>1. SafeInv => NoTemporary
  BY DEF SafeInv
<1> QED
  BY SafeHolds, <1>1, PTL

(* A name that changed before prelink looked at it is left alone: fstat64  *)
(* of the open file and lstat64 of the hard link against ent->ino.         *)
THEOREM ChangedKeptHolds == Spec => []ChangedKept
<1>1. SafeInv => ChangedKept
  BY DEF SafeInv
<1> QED
  BY SafeHolds, <1>1, PTL

(* With -n the file stays; its hard links too, unless -u is given as well. *)
THEOREM DryRunKeptHolds == Spec => []DryRunKept
<1>1. SafeInv => DryRunKept
  BY DEF SafeInv
<1> QED
  BY SafeHolds, <1>1, PTL

-----------------------------------------------------------------------------
(* Replace implements the safety part of AtomicReplace, for every number   *)
(* of hard links: seen from outside, the many system calls of prelink_ent, *)
(* undo_one and update_dso are one replacement of the file and, after it,  *)
(* one step at a time for each hard link.  (That the abstract End comes is *)
(* liveness, and is model-checked only.)                                   *)

(* What is seen of an inode.                                               *)
LEMMA SeenCases ==
  /\ Seen(Orig) = "old" /\ Seen(NoFile) = "nothing"
  /\ Seen(New) = IF temp = "synced" THEN "new"
                 ELSE IF temp = "unsynced" THEN "doubtful" ELSE "partial"
  /\ \A i \in Upgrades : Seen(i) = "other"
BY ReplaceAssumption DEF Seen, Inode

(* Only a name that does not exist is seen as nothing.                     *)
LEMMA SeenNothing == \A i \in Inode : Seen(i) # "nothing"
BY ReplaceAssumption, SeenCases DEF Inode

(* An inode is seen differently only when it is the temporary file and     *)
(* that file has changed.                                                  *)
LEMMA SeenSame ==
  ASSUME NEW i \in Inode \union {NoFile},
         i = New => temp' = temp
  PROVE  Seen(i)' = Seen(i)
BY ReplaceAssumption DEF Seen, Inode

(* The phases of the abstract specification.                               *)
LEMMA PhaseCases ==
  /\ pc \in Before => Phase = "before"
  /\ pc \in Redoing \union {"links"} => Phase = "after"
  /\ pc \in {"done", "crashed"} => Phase = "over"
BY DEF Phase, Before, Redoing

(* Prelinking starts where the abstract specification does.                *)
LEMMA InitRefines == Init => Atomic!Init
<1> SUFFICES ASSUME Init PROVE Atomic!Init
  OBVIOUS
<1>1. dry_run \in BOOLEAN
  BY ReplaceAssumption DEF Init
<1>2. Phase = "before"
  BY PhaseCases DEF Init, Before
<1> QED
  BY <1>1, <1>2, SeenCases DEF Init, Atomic!Init

(* What is seen of the names is unchanged by a step that leaves the names  *)
(* alone, and the temporary file if one of them refers to it.              *)
LEMMA NamesSeen ==
  ASSUME TypeOK, UNCHANGED <<dry_run, todo, names>>,
         New \in Named => temp' = temp
  PROVE  /\ Seen(canon)' = Seen(canon)
         /\ [h \in Links |-> Seen(link[h])]' = [h \in Links |-> Seen(link[h])]
         /\ [h \in Links |-> Seen(moved[h])]' = [h \in Links |-> Seen(moved[h])]
         /\ (Links \ todo)' = Links \ todo
         /\ dry_run' = dry_run
<1> USE ReplaceAssumption DEF Inode, TypeOK, names
<1>1. Seen(canon)' = Seen(canon)
  BY SeenSame DEF Named, Seen
<1>2. \A h \in Links : Seen(link[h])' = Seen(link[h])
  BY DEF Named, Seen
<1>3. \A h \in Links : Seen(moved[h])' = Seen(moved[h])
  BY DEF Named, Seen
<1> QED
  BY <1>1, <1>2, <1>3

(* The steps before the file is settled change nothing that is seen, or    *)
(* settle it, or end it.                                                   *)
LEMMA FileRefines ==
  ASSUME Inv, SafeInv,
         \/ Open \/ CheckSame \/ Reopen \/ Work \/ Discard \/ Write \/ Close \/ Context \/ Rename
         \/ OpenFails \/ CheckChanged \/ CheckFails \/ ErrorPath
  PROVE  [Atomic!Next]_(Atomic!vars)
<1> USE DEF Goto, options, names, file, loop, outside
<1>1. pc \in Before /\ Phase = "before"
  BY PhaseCases DEF Open, CheckSame, Reopen, Work, Discard, Write, Close, Context, Rename,
                    OpenFails, CheckChanged, CheckFails, ErrorPath, ReopenFails, WorkFails,
                    WriteFails, ContextFails, RenameFails, Before
<1>2. New \notin Named
  BY <1>1 DEF Inv, RenameInv
<1>3. CASE Open \/ Reopen \/ Work \/ Write \/ Context
  <2>1. UNCHANGED <<dry_run, todo, names>>
    BY <1>3 DEF Open, Reopen, Work, Write, Context
  <2>2. Phase' = Phase
    BY <1>1, <1>3 DEF Open, Reopen, Work, AfterWork, Write, Context, Phase, Before
  <2>3. (temp # "unsynced")' = (temp # "unsynced")
    BY <1>3 DEF Open, Reopen, Work, Write, Context, Inv, StoreInv, Before
  <2> QED
    BY <1>2, <2>1, <2>2, <2>3, NamesSeen DEF Atomic!vars, Inv
<1>4. CASE Close
  <2>1. UNCHANGED <<dry_run, todo, names>>
    BY <1>4 DEF Close
  <2>2. Phase' = Phase
    BY <1>1, <1>4 DEF Close, Phase, Before
  <2>3. CASE temp' = Synced
    <3>1. (temp # "unsynced")' = (temp # "unsynced")
      BY <1>4, <2>3 DEF Close, Synced, Inv, StoreInv, Before
    <3> QED
      BY <1>2, <2>1, <2>2, <3>1, NamesSeen DEF Atomic!vars, Inv
  <2>4. CASE temp' = "unsynced"
    <3>1. (temp # "unsynced")' = FALSE
      BY <2>4
    <3>2. Atomic!Spoil
      BY <1>1, <1>2, <2>1, <2>2, <3>1, NamesSeen DEF Atomic!Spoil, Inv
    <3> QED
      BY <3>2 DEF Atomic!Next
  <2> QED
    BY <1>4, <2>3, <2>4 DEF Close
<1>5. CASE OpenFails \/ CheckChanged \/ CheckFails \/ ErrorPath
  <2> USE <1>5 DEF OpenFails, CheckChanged, CheckFails, ErrorPath, ReopenFails, WorkFails,
                  WriteFails, ContextFails, RenameFails, Fail
  <2>1. UNCHANGED <<dry_run, todo, names>>
    OBVIOUS
  <2>2. Phase' = "over"
    BY DEF AfterError, Phase, Before, Redoing
  <2>3. (temp # "unsynced")' = (temp # "unsynced")
    BY DEF Inv, StoreInv, Before
  <2>4. Atomic!End
    BY <1>1, <1>2, <2>1, <2>2, <2>3, NamesSeen DEF Atomic!End, Inv
  <2> QED
    BY <2>4 DEF Atomic!Next
<1>6. CASE CheckSame
  <2>1. UNCHANGED <<dry_run, todo, names, temp>>
    BY <1>6 DEF CheckSame
  <2>2. CASE dry_run /\ ~ undo
    <3>1. Phase' = "after"
      BY <1>6, <2>2 DEF CheckSame, Phase, Before, Redoing
    <3>2. Atomic!Commit
      BY <1>1, <1>2, <2>1, <2>2, <3>1, NamesSeen DEF Atomic!Commit, Inv
    <3> QED
      BY <3>2 DEF Atomic!Next
  <2>3. CASE ~ (dry_run /\ ~ undo)
    <3>1. Phase' = "before"
      BY <1>6, <2>3 DEF CheckSame, Phase, Before
    <3> QED
      BY <1>1, <1>2, <2>1, <3>1, NamesSeen DEF Atomic!vars, Inv
  <2> QED
    BY <2>2, <2>3
<1>7. CASE Discard
  <2>1. UNCHANGED <<dry_run, todo, names, temp>> /\ dry_run
    BY <1>7 DEF Discard, SafeInv, WayInv
  <2>2. Phase' = "after"
    BY <1>7 DEF Discard, Phase, Before, Redoing
  <2>3. Atomic!Commit
    BY <1>1, <1>2, <2>1, <2>2, NamesSeen DEF Atomic!Commit, Inv
  <2> QED
    BY <2>3 DEF Atomic!Next
<1>8. CASE Rename
  <2>1. UNCHANGED <<dry_run, todo, link, moved, temp>> /\ canon' = New /\ ~ dry_run
    BY <1>8 DEF Rename, SafeInv, WayInv
  <2>2. Phase' = "after"
    BY <1>8 DEF Rename, Phase, Before, Redoing
  <2>3. Seen(canon)' = IF temp # "unsynced" THEN "new" ELSE "doubtful"
    BY <1>8, <2>1, ReplaceAssumption DEF Rename, Inv, RenameInv, Seen
  <2>4. \A h \in Links : Seen(link[h])' = Seen(link[h]) /\ Seen(moved[h])' = Seen(moved[h])
    BY <2>1 DEF Seen
  <2>5. Atomic!Commit
    BY <1>1, <2>1, <2>2, <2>3, <2>4 DEF Atomic!Commit
  <2> QED
    BY <2>5 DEF Atomic!Next
<1> QED
  BY <1>3, <1>4, <1>5, <1>6, <1>7, <1>8

(* The steps that redo the hard links take, put away, make, drop or put    *)
(* back the one that is visited, or change nothing that is seen.           *)
LEMMA LinkRefines ==
  ASSUME Inv, SafeInv,
         \/ \E h \in Links : LinkCheck(h) \/ LinkCheckFails(h)
         \/ LinkMove \/ LinkMake \/ LinkDrop \/ LinkMakeFails \/ LinkBack \/ LinkFails
         \/ LinksDone
  PROVE  [Atomic!Next]_(Atomic!vars)
<1> USE DEF Goto, options, names, file, loop, outside
<1>1. Phase = "after"
  BY PhaseCases DEF LinkCheck, LinkCheckFails, LinkMove, LinkMake, LinkDrop, LinkMakeFails,
                    LinkBack, LinkFails,
                    LinksDone, Redoing
<1>2. UNCHANGED <<dry_run, temp, canon>> /\ Seen(canon)' = Seen(canon)
  BY DEF LinkCheck, LinkCheckFails, LinkMove, LinkMake, LinkDrop, LinkMakeFails, LinkBack,
         LinkFails,
         LinksDone, Seen
<1>3. ASSUME NEW h \in Links, LinkCheck(h) \/ LinkCheckFails(h) PROVE [Atomic!Next]_(Atomic!vars)
  <2>1. UNCHANGED names /\ h \in todo /\ todo' = todo \ {h}
    BY <1>3 DEF LinkCheck, LinkCheckFails, RestOf
  <2>2. Phase' = "after"
    BY <1>3 DEF LinkCheck, LinkCheckFails, NextLink, Phase, Before, Redoing
  <2>3. \A g \in Links : Seen(link[g])' = Seen(link[g]) /\ Seen(moved[g])' = Seen(moved[g])
    BY <1>2, <2>1 DEF Seen
  <2>4. (Links \ todo)' = (Links \ todo) \union {h}
    BY <2>1
  <2>5. Atomic!Pass(h)
    BY <1>1, <1>2, <2>1, <2>2, <2>3, <2>4 DEF Atomic!Pass
  <2> QED
    BY <2>5 DEF Atomic!Next
<1>4. CASE LinksDone
  <2>1. UNCHANGED <<todo, names>>
    BY <1>4 DEF LinksDone
  <2>2. Phase' = "over"
    BY <1>4 DEF LinksDone, Phase, Before, Redoing
  <2>3. Atomic!End
    BY <1>1, <1>2, <2>1, <2>2, NamesSeen DEF Atomic!End, Inv
  <2> QED
    BY <2>3 DEF Atomic!Next
<1>5. CASE UNCHANGED <<todo, names>> /\ pc' \in {"links", "back"}
  <2>1. Phase' = "after"
    BY <1>5 DEF Phase, Before, Redoing
  <2> QED
    BY <1>1, <1>2, <1>5, <2>1, NamesSeen DEF Atomic!vars, Inv
<1>6. CASE LinkMove /\ link[cur] # NoFile
  <2>1. /\ UNCHANGED todo /\ cur \in Links /\ moved[cur] = NoFile /\ cur \notin todo
        /\ link' = [link EXCEPT ![cur] = NoFile]
        /\ moved' = [moved EXCEPT ![cur] = link[cur]]
    BY <1>6 DEF LinkMove, Inv, RelinkInv, SafeInv, VisitInv, Redoing
  <2>2. Phase' = "after"
    BY <1>6 DEF LinkMove, Phase, Before, Redoing
  <2>3. Atomic!Shelve(cur)
    <3> DEFINE name == [h \in Links |-> Seen(link[h])]
               shelf == [h \in Links |-> Seen(moved[h])]
    <3>1. name[cur] # "nothing" /\ shelf[cur] = "nothing"
      BY <1>6, <2>1, SeenNothing, SeenCases DEF Inv, TypeOK
    <3>2. name' = [name EXCEPT ![cur] = "nothing"]
      BY <1>2, <2>1, ReplaceAssumption DEF Seen, Inv, TypeOK, Inode
    <3>3. shelf' = [shelf EXCEPT ![cur] = name[cur]]
      BY <1>2, <2>1 DEF Seen, Inv, TypeOK
    <3> QED
      BY <1>1, <1>2, <2>1, <2>2, <3>1, <3>2, <3>3 DEF Atomic!Shelve
  <2> QED
    BY <2>1, <2>3 DEF Atomic!Next
<1>7. CASE LinkMake
  <2>1. /\ UNCHANGED <<todo, moved>> /\ cur \in Links /\ link[cur] = NoFile /\ moved[cur] # NoFile
        /\ link' = [link EXCEPT ![cur] = canon]
    BY <1>7 DEF LinkMake, Inv, RelinkInv
  <2>2. Phase' = "after"
    BY <1>7 DEF LinkMake, Phase, Before, Redoing
  <2>3. Atomic!Link(cur)
    <3> DEFINE name == [h \in Links |-> Seen(link[h])]
               shelf == [h \in Links |-> Seen(moved[h])]
    <3>1. name[cur] = "nothing" /\ shelf[cur] # "nothing"
      BY <2>1, SeenNothing, SeenCases DEF Inv, TypeOK
    <3>2. name' = [name EXCEPT ![cur] = Seen(canon)] /\ shelf' = shelf
      BY <1>2, <2>1 DEF Seen, Inv, TypeOK
    <3> QED
      BY <1>1, <1>2, <2>1, <2>2, <3>1, <3>2 DEF Atomic!Link
  <2> QED
    BY <2>1, <2>3 DEF Atomic!Next
<1>8. CASE LinkDrop
  <2>1. /\ UNCHANGED <<todo, link>> /\ cur \in Links /\ link[cur] # NoFile /\ moved[cur] # NoFile
        /\ moved' = [moved EXCEPT ![cur] = NoFile]
    BY <1>8 DEF LinkDrop, Inv, RelinkInv
  <2>2. Phase' = "after"
    BY <1>8 DEF LinkDrop, NextLink, Phase, Before, Redoing
  <2>3. Atomic!Drop(cur)
    <3> DEFINE name == [h \in Links |-> Seen(link[h])]
               shelf == [h \in Links |-> Seen(moved[h])]
    <3>1. name[cur] # "nothing" /\ shelf[cur] # "nothing"
      BY <2>1, SeenNothing DEF Inv, TypeOK
    <3>2. shelf' = [shelf EXCEPT ![cur] = "nothing"] /\ name' = name
      BY <1>2, <2>1, ReplaceAssumption DEF Seen, Inv, TypeOK, Inode
    <3> QED
      BY <1>1, <1>2, <2>1, <2>2, <3>1, <3>2 DEF Atomic!Drop
  <2> QED
    BY <2>1, <2>3 DEF Atomic!Next
<1>9. CASE LinkBack
  <2>1. /\ UNCHANGED todo /\ cur \in Links /\ moved[cur] # NoFile
        /\ link' = [link EXCEPT ![cur] = moved[cur]]
        /\ moved' = [moved EXCEPT ![cur] = NoFile]
    BY <1>9 DEF LinkBack, BackLink, Inv, RelinkInv
  <2>2. Phase' = "after"
    BY <1>9 DEF LinkBack, NextLink, Phase, Before, Redoing
  <2>3. Atomic!Restore(cur)
    <3> DEFINE name == [h \in Links |-> Seen(link[h])]
               shelf == [h \in Links |-> Seen(moved[h])]
    <3>1. shelf[cur] # "nothing"
      BY <2>1, SeenNothing DEF Inv, TypeOK
    <3>2. name' = [name EXCEPT ![cur] = shelf[cur]]
      BY <1>2, <2>1 DEF Seen, Inv, TypeOK
    <3>3. shelf' = [shelf EXCEPT ![cur] = "nothing"]
      BY <1>2, <2>1, ReplaceAssumption DEF Seen, Inv, TypeOK, Inode
    <3> QED
      BY <1>1, <1>2, <2>1, <2>2, <3>1, <3>2, <3>3 DEF Atomic!Restore
  <2> QED
    BY <2>1, <2>3 DEF Atomic!Next
<1> QED
  BY <1>3, <1>4, <1>5, <1>6, <1>7, <1>8, <1>9
  DEF LinkMove, LinkMakeFails, LinkFails, NextLink

(* What comes from outside, and a crash.                                   *)
LEMMA OutsideRefines ==
  ASSUME Inv, SafeInv, ~ Finished, Outside
  PROVE  [Atomic!Next]_(Atomic!vars)
<1> USE DEF Goto, options, names, file, loop, outside
<1>1. Phase # "over"
  BY DEF Phase, Finished, Before, Redoing, Inv, TypeOK
<1>2. ASSUME NEW u \in Upgrades, UpgradeFile(u) PROVE [Atomic!Next]_(Atomic!vars)
  <2>1. UNCHANGED <<dry_run, todo, link, moved, temp, pc>> /\ canon' = u
    BY <1>2 DEF UpgradeFile
  <2>2. Seen(canon)' = "other"
    BY <2>1, ReplaceAssumption DEF Seen, Inode
  <2>3. \A h \in Links : Seen(link[h])' = Seen(link[h]) /\ Seen(moved[h])' = Seen(moved[h])
    BY <2>1 DEF Seen
  <2>4. Atomic!OutsideFile
    BY <1>1, <2>1, <2>2, <2>3 DEF Atomic!OutsideFile, Phase
  <2> QED
    BY <2>4 DEF Atomic!Next
<1>3. ASSUME NEW u \in Upgrades, NEW h \in Links, UpgradeLink(h, u)
      PROVE [Atomic!Next]_(Atomic!vars)
  <2>1. UNCHANGED <<dry_run, todo, canon, moved, temp, pc>> /\ link' = [link EXCEPT ![h] = u]
    BY <1>3 DEF UpgradeLink
  <2>2. [g \in Links |-> Seen(link[g])]' = [[g \in Links |-> Seen(link[g])] EXCEPT ![h] = "other"]
    BY <2>1, ReplaceAssumption DEF Seen, Inode, Inv, TypeOK
  <2>3. /\ Seen(canon)' = Seen(canon) /\ Phase' = Phase
        /\ [g \in Links |-> Seen(moved[g])]' = [g \in Links |-> Seen(moved[g])]
    BY <2>1 DEF Seen, Phase
  <2>4. Atomic!OutsideName(h)
    BY <1>1, <2>1, <2>2, <2>3 DEF Atomic!OutsideName
  <2> QED
    BY <2>4 DEF Atomic!Next
<1>4. CASE Crash
  <2>1. /\ UNCHANGED <<dry_run, todo, names>>
        /\ New \in Named => temp' = temp
        /\ (temp # "unsynced")' = (temp # "unsynced")
    BY <1>4 DEF Crash, Inv, NeverPartial, Named
  <2>2. Phase' = "over"
    BY <1>4 DEF Crash, Phase, Before, Redoing
  <2>3. Atomic!End
    BY <1>1, <2>1, <2>2, NamesSeen DEF Atomic!End, Inv
  <2> QED
    BY <2>3 DEF Atomic!Next
<1> QED
  BY <1>2, <1>3, <1>4 DEF Outside

(* The system calls that replace a file (prelink_ent, undo_one,            *)
(* update_dso), with every failure, crash and replacement from outside in  *)
(* between, look like the one step that Session takes them for: the safety *)
(* part of ImplementsAtomic.                                               *)
THEOREM Refinement == Spec => Atomic!Safety
<1>1. Inv /\ SafeInv /\ [Next]_vars => [Atomic!Next]_(Atomic!vars)
  <2> SUFFICES ASSUME Inv, SafeInv, [Next]_vars PROVE [Atomic!Next]_(Atomic!vars)
    OBVIOUS
  <2>1. CASE UNCHANGED vars
    BY <2>1 DEF vars, Atomic!vars, Seen, Phase
  <2> QED
    BY <2>1, FileRefines, LinkRefines, OutsideRefines DEF Next, Step, ErrorPath, Terminating
<1> QED
  BY InitRefines, SafeHolds, <1>1, PTL DEF Spec, Atomic!Safety
=============================================================================
