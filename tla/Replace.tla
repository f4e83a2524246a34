------------------------------ MODULE Replace ------------------------------
(***************************************************************************)
(* How prelink replaces one file: the part of prelink_ent (doit.c) and of  *)
(* undo_one (undoall.c) that opens the file, rewrites it into a temporary  *)
(* file (reopen_dso, write_dso), renames that over the file (update_dso,   *)
(* dso.c) and makes the other hard links of the file links to the new one. *)
(*                                                                         *)
(* One system call is one action, and may fail.  Between any two of them   *)
(* the machine may crash, or something else (a package manager) may put a  *)
(* new file in the place of a name by a rename of its own.                 *)
(*                                                                         *)
(* An inode is what a name refers to; contents matter only for the         *)
(* temporary file, every other inode being a complete file.                *)
(***************************************************************************)
EXTENDS Naturals, FiniteSets

CONSTANTS
  Links,       \* the names in ent->hardlink
  Orig, New,   \* the inode of the file when gathered, that of the temporary
  Upgrades,    \* the inodes of files that come from outside
  NoFile,      \* a name that does not exist
  Options      \* the pairs of undo and dry_run (-u and -n) considered

Inode == {Orig, New} \union Upgrades

ASSUME ReplaceAssumption ==
  /\ IsFiniteSet(Links)
  /\ Orig # New /\ {Orig, New} \intersect Upgrades = {}
  /\ NoFile \notin Inode
  /\ Orig \notin Links
  /\ Options \subseteq BOOLEAN \X BOOLEAN

VARIABLES
  undo,      \* -u: undo_one runs instead of prelink_ent
  dry_run,   \* -n
  canon,     \* what ent->canon_filename refers to
  link,      \* what each hard link refers to
  moved,     \* what each hard link's name with ".#prelink#" appended refers to
  temp,      \* the temporary file: "none", "partial", "written", "synced",
             \*   or "unsynced": storing it reported an error
  named,     \* the temporary file has its temporary name
  stuck,     \* an unlink of that name failed
  ino,       \* ent->ino
  opened,    \* the inode open as dso->fd (then dso->fdro)
  todo,      \* the hard links not visited yet
  cur,       \* the hard link being visited
  result,    \* "none", "ok" (ent->done = 2, or undone), "error"
  pc,
  failures,  \* system calls that failed
  upgraded,  \* the outside inodes in use
  kept       \* names (the file itself: Orig) replaced from outside before
             \*   prelink has looked at them

vars == <<undo, dry_run, canon, link, moved, temp, named, stuck, ino, opened, todo, cur, result,
          pc, failures, upgraded, kept>>

options == <<undo, dry_run>>
names == <<canon, link, moved>>
file == <<temp, named, stuck>>
loop == <<todo, cur>>
outside == <<upgraded, kept>>

Init ==
  /\ \E o \in Options : undo = o[1] /\ dry_run = o[2]
  /\ canon = Orig
  /\ link = [h \in Links |-> Orig]
  /\ moved = [h \in Links |-> NoFile]
  /\ temp = "none" /\ named = FALSE /\ stuck = FALSE
  /\ ino = Orig
  /\ opened = NoFile
  /\ todo = Links /\ cur = NoFile
  /\ result = "none"
  /\ pc = "open"
  /\ failures = 0
  /\ upgraded = {} /\ kept = {}

Goto(p) == pc' = p

(* (Faulty variants: an error path that leaves the temporary file behind;  *)
(* the hard links are redone after an error as well.)                      *)
LeftNamed == TRUE
AfterErrorLinks == "links"

(* unlink of the temporary name, in close_dso, reopen_dso and update_dso.  *)
(* Nobody looks at its result.                                             *)
Unlinked == FALSE
ReopenUnlinked == FALSE
UpdateUnlinked == FALSE

Unlink(left) ==
  \/ named' = left /\ UNCHANGED stuck
  \/ named' = TRUE /\ stuck' = TRUE

AfterError == "done"

(* error_out *)
Fail ==
  /\ failures' = failures + 1
  /\ result' = "error"
  /\ Goto(AfterError)
  /\ UNCHANGED <<options, names, ino, opened, loop, outside>>

(* open_dso *)
Open ==
  /\ pc = "open"
  /\ opened' = canon
  /\ Goto("check")
  /\ UNCHANGED <<options, names, file, ino, loop, result, failures, outside>>

OpenFails == pc = "open" /\ Fail /\ UNCHANGED file

(* (Faulty variant: the inode is not compared.)                            *)
SameFileAlways == TRUE

SameFile == opened = ino

(* fstat64 of the open file: "%s changed during prelinking", also when it  *)
(* fails.  close_dso has no temporary file to unlink yet.                  *)
CheckChanged ==
  /\ pc = "check"
  /\ ~ SameFile
  /\ Fail
  /\ UNCHANGED file

CheckFails == pc = "check" /\ Fail /\ UNCHANGED file

(* With -n prelink_ent goes on with the hard links; undo_one rewrites the  *)
(* file in memory first.                                                   *)
CheckSame ==
  /\ pc = "check" /\ SameFile
  /\ IF dry_run /\ ~ undo
     THEN result' = "ok" /\ Goto("links")
     ELSE Goto("work") /\ UNCHANGED result
  /\ UNCHANGED <<options, names, file, ino, opened, loop, failures, outside>>

(* (Faulty variant: undo_one writes the file with -n as well.)             *)
WriteAlways == "write"

AfterWork == IF dry_run THEN "discard" ELSE "write"

(* reopen_dso, called by prelink_prepare, relocate_dso or prelink_undo,    *)
(* makes the temporary file.  Its error path unlinks the file itself,      *)
(* unless that could not be made.                                          *)
Reopen ==
  /\ pc = "work"
  /\ temp' = "partial" /\ named' = TRUE /\ UNCHANGED stuck
  /\ Goto("edit")
  /\ UNCHANGED <<options, names, ino, opened, loop, result, failures, outside>>

ReopenFails ==
  /\ pc = "work"
  /\ \/ UNCHANGED file
     \/ temp' = "partial" /\ Unlink(ReopenUnlinked)
  /\ Fail

(* The rest of prelink_prepare, relocate_dso and prelink, or of            *)
(* prelink_undo; after an error close_dso.                                 *)
Work ==
  /\ pc = "edit"
  /\ Goto(AfterWork)
  /\ UNCHANGED <<options, names, file, ino, opened, loop, result, failures, outside>>

WorkFails == pc = "edit" /\ Unlink(Unlinked) /\ Fail /\ UNCHANGED temp

(* undo_one with -n: close_dso *)
Discard ==
  /\ pc = "discard"
  /\ Unlink(Unlinked)
  /\ result' = "ok"
  /\ Goto("links")
  /\ UNCHANGED <<options, names, temp, ino, opened, loop, failures, outside>>

(* write_dso; the owner and the mode of the file.  After an error          *)
(* close_dso.                                                              *)
Write ==
  /\ pc = "write"
  /\ temp' = "written"
  /\ Goto("close")
  /\ UNCHANGED <<options, names, named, stuck, ino, opened, loop, result, failures, outside>>

WriteFails == pc = "write" /\ Unlink(Unlinked) /\ Fail /\ UNCHANGED temp

(* (Faulty variant: without fsync.)                                        *)
NotSynced == temp

Synced == "synced"

(* close_dso_1: fsync and close.  Nobody looks at their results: a file    *)
(* that could not be stored is renamed all the same.                       *)
Close ==
  /\ pc = "close"
  /\ \/ temp' = Synced /\ UNCHANGED failures
     \/ temp' = "unsynced" /\ failures' = failures + 1
  /\ Goto("context")
  /\ UNCHANGED <<options, names, named, stuck, ino, opened, loop, result, outside>>

(* The security context and the extended attributes: set_security_context  *)
Context ==
  /\ pc = "context"
  /\ Goto("rename")
  /\ UNCHANGED <<options, names, file, ino, opened, loop, result, failures, outside>>

ContextFails == pc = "context" /\ Unlink(UpdateUnlinked) /\ Fail /\ UNCHANGED temp

(* rename of the temporary file over the file *)
Rename ==
  /\ pc = "rename"
  /\ canon' = New /\ named' = FALSE
  /\ result' = "ok"
  /\ Goto("links")
  /\ UNCHANGED <<options, link, moved, temp, stuck, ino, opened, loop, failures, outside>>

RenameFails == pc = "rename" /\ Unlink(UpdateUnlinked) /\ Fail /\ UNCHANGED temp

-----------------------------------------------------------------------------
(* Redo hardlinks.                                                         *)

NextLink ==
  /\ cur' = NoFile
  /\ Goto("links")

(* (Faulty variant: a check against the new file.)                         *)
StillLinkNew(h) == link[h] = canon

(* lstat64 of the hard link *)
StillLink(h) == link[h] = ino

(* With -n prelink_ent only prints what it would link; undo_one goes on.   *)
Relink == ~ dry_run \/ undo

RestOf(h) == todo \ {h}

LinkCheck(h) ==
  /\ pc = "links" /\ h \in todo
  /\ todo' = RestOf(h)
  /\ IF StillLink(h) /\ Relink
     THEN cur' = h /\ Goto("move")
     ELSE NextLink
  /\ UNCHANGED <<options, names, file, ino, opened, result, failures, outside>>

(* lstat64 fails: "Could not stat %s (former hardlink to %s)" *)
LinkCheckFails(h) ==
  /\ pc = "links" /\ h \in todo
  /\ todo' = RestOf(h)
  /\ failures' = failures + 1
  /\ NextLink
  /\ UNCHANGED <<options, names, file, ino, opened, result, outside>>

(* rename of the hard link to its ".#prelink#" name *)
LinkMove ==
  /\ pc = "move"
  /\ IF link[cur] = NoFile
     THEN /\ failures' = failures + 1
          /\ NextLink
          /\ UNCHANGED names
     ELSE /\ moved' = [moved EXCEPT ![cur] = link[cur]]
          /\ link' = [link EXCEPT ![cur] = NoFile]
          /\ Goto("link")
          /\ UNCHANGED <<options, canon, cur, failures>>
  /\ UNCHANGED <<options, file, ino, opened, todo, result, outside>>

(* link; it does not replace a file *)
LinkMake ==
  /\ pc = "link" /\ link[cur] = NoFile
  /\ link' = [link EXCEPT ![cur] = canon]
  /\ Goto("unlink")
  /\ UNCHANGED <<options, canon, moved, file, ino, opened, loop, result, failures, outside>>

(* unlink of the ".#prelink#" name *)
LinkDrop ==
  /\ pc = "unlink"
  /\ moved' = [moved EXCEPT ![cur] = NoFile]
  /\ NextLink
  /\ UNCHANGED <<options, canon, link, file, ino, opened, todo, result, failures, outside>>

LinkMakeFails ==
  /\ pc = "link"
  /\ failures' = failures + 1
  /\ Goto("back")
  /\ UNCHANGED <<options, names, file, ino, opened, loop, result, outside>>

(* (Faulty variant: the moved name is removed instead.)                    *)
LostLink == [link EXCEPT ![cur] = NoFile]

BackLink == [link EXCEPT ![cur] = moved[cur]]

(* rename back *)
LinkBack ==
  /\ pc = "back"
  /\ link' = BackLink
  /\ moved' = [moved EXCEPT ![cur] = NoFile]
  /\ NextLink
  /\ UNCHANGED <<options, canon, file, ino, opened, todo, result, failures, outside>>

LinkFails ==
  /\ pc \in {"move", "unlink", "back"}
  /\ failures' = failures + 1
  /\ NextLink
  /\ UNCHANGED <<options, names, file, ino, opened, todo, result, outside>>

(* (Faulty variant: the result of stat64 is used although it failed.)      *)
FailedStat == NoFile

(* prelink_ent records the new inode, unless stat64 fails.                 *)
NewIno == IF undo \/ dry_run THEN ino ELSE canon

LinksDone ==
  /\ pc = "links" /\ todo = {}
  /\ ino' \in {NewIno, ino}
  /\ Goto("done")
  /\ UNCHANGED <<options, names, file, opened, loop, result, failures, outside>>

-----------------------------------------------------------------------------
(* Outside of prelink.                                                     *)

(* A new file takes the place of a name.                                   *)
UpgradeFile(u) ==
  /\ u \in Upgrades \ upgraded
  /\ canon' = u
  /\ upgraded' = upgraded \union {u}
  /\ kept' = IF pc = "open" THEN kept \union {Orig} ELSE kept
  /\ UNCHANGED <<options, link, moved, file, ino, opened, loop, result, pc, failures>>

UpgradeLink(h, u) ==
  /\ u \in Upgrades \ upgraded
  /\ link' = [link EXCEPT ![h] = u]
  /\ upgraded' = upgraded \union {u}
  /\ kept' = IF h \in todo THEN kept \union {h} ELSE kept
  /\ UNCHANGED <<options, canon, moved, file, ino, opened, loop, result, pc, failures>>

(* What was not synced is not complete after a crash.  (Of an "unsynced"   *)
(* file nothing is known before either.)                                   *)
Crash ==
  /\ pc \notin {"done", "crashed"}
  /\ temp' = IF temp = "written" THEN "partial" ELSE temp
  /\ Goto("crashed")
  /\ UNCHANGED <<options, names, named, stuck, ino, opened, loop, result, failures, outside>>

Finished == pc \in {"done", "crashed"}

Terminating == Finished /\ UNCHANGED vars

Step ==
  \/ Open \/ CheckSame \/ Reopen \/ Work \/ Discard \/ Write \/ Close \/ Context \/ Rename
  \/ OpenFails \/ CheckChanged \/ CheckFails \/ ReopenFails \/ WorkFails \/ WriteFails
  \/ ContextFails \/ RenameFails
  \/ \E h \in Links : LinkCheck(h) \/ LinkCheckFails(h)
  \/ LinkMove \/ LinkMake \/ LinkDrop \/ LinkMakeFails \/ LinkBack \/ LinkFails
  \/ LinksDone

Outside ==
  \/ \E u \in Upgrades : UpgradeFile(u) \/ \E h \in Links : UpgradeLink(h, u)
  \/ Crash

Next == Step \/ (~ Finished /\ Outside) \/ Terminating

Spec == Init /\ [][Next]_vars /\ WF_vars(Step)

-----------------------------------------------------------------------------
(* Properties.                                                             *)

TypeOK ==
  /\ <<undo, dry_run>> \in Options
  /\ canon \in Inode
  /\ link \in [Links -> Inode \union {NoFile}]
  /\ moved \in [Links -> Inode \union {NoFile}]
  /\ temp \in {"none", "partial", "written", "synced", "unsynced"}
  /\ named \in BOOLEAN /\ stuck \in BOOLEAN
  /\ ino \in Inode /\ opened \in Inode \union {NoFile}
  /\ todo \subseteq Links /\ cur \in Links \union {NoFile}
  /\ result \in {"none", "ok", "error"}
  /\ failures \in Nat
  /\ upgraded \subseteq Upgrades /\ kept \subseteq Links \union {Orig}
  /\ pc \in {"open", "check", "work", "edit", "discard", "write", "close", "context",
             "rename", "links", "move", "link", "unlink", "back", "done", "crashed"}

(* Wherever the machine stops, and whatever else fails, no name of the     *)
(* file refers to a file that was not written completely and handed to     *)
(* fsync: update_dso renames only after close_dso_1.  The one way to an    *)
(* incomplete file is an fsync that reports an error, which close_dso_1    *)
(* does not look at ("unsynced").                                          *)
NeverPartial ==
  New \in {canon} \union {link[h] : h \in Links} \union {moved[h] : h \in Links}
    => temp \in {"synced", "unsynced"}

(* Redoing the hard links never loses one: the name, or the name with      *)
(* ".#prelink#" appended, always refers to a file.                         *)
LinkRecoverable == \A h \in Links : link[h] # NoFile \/ moved[h] # NoFile

(* When no system call failed and nothing was replaced from outside, all   *)
(* names are hard links of one file again, and none is left over.          *)
HardlinksRedone ==
  pc = "done" /\ failures = 0 /\ upgraded = {} =>
    /\ \A h \in Links : link[h] = canon /\ moved[h] = NoFile
    /\ dry_run \/ canon = New

(* prelink never leaves its temporary file behind, whichever call fails    *)
(* and on whichever of the error paths of reopen_dso, prelink_ent and      *)
(* update_dso, unless it crashes or unlink itself fails.                   *)
NoTemporary ==
  pc \in {"links", "move", "link", "unlink", "back", "done"} /\ named => stuck

(* A file that took the place of one of the names before prelink looked at *)
(* that name stays ("changed during prelinking", "is no longer hardlink"). *)
ChangedKept ==
  /\ Orig \in kept => canon \in Upgrades
  /\ \A h \in kept \intersect Links : link[h] \in Upgrades

(* With -n the file itself is never replaced: undo_one closes and unlinks  *)
(* the temporary file instead of renaming it.  Without -u its hard links   *)
(* are not touched either (undo_one redoes them all the same).             *)
DryRunKept ==
  dry_run /\ upgraded = {} =>
    /\ canon = Orig
    /\ \A h \in Links : undo \/ (link[h] = Orig /\ moved[h] = NoFile)

(* Seen from outside, the steps of prelink_ent, undo_one and update_dso,   *)
(* with everything that may fail or come in between, are those of          *)
(* AtomicReplace: the file changes in one step, to a complete one unless   *)
(* storing that reported an error, before any hard link is touched and not *)
(* if there was an error.                                                  *)
Seen(i) ==
  IF i = Orig THEN "old"
  ELSE IF i = New THEN (IF temp = "synced" THEN "new"
                       ELSE IF temp = "unsynced" THEN "doubtful" ELSE "partial")
  ELSE IF i = NoFile THEN "nothing"
  ELSE "other"

Before == {"open", "check", "work", "edit", "discard", "write", "close", "context", "rename"}
Redoing == {"move", "link", "unlink", "back"}

Phase ==
  IF pc \in Before THEN "before"
  ELSE IF pc \in Redoing \union {"links"} THEN "after"
  ELSE "over"

Atomic == INSTANCE AtomicReplace WITH
  Names <- Links,
  file <- Seen(canon),
  name <- [h \in Links |-> Seen(link[h])],
  shelf <- [h \in Links |-> Seen(moved[h])],
  taken <- Links \ todo,
  keep <- dry_run,
  stored <- temp # "unsynced",
  phase <- Phase

ImplementsAtomic == Atomic!Spec
=============================================================================
