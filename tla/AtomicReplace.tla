--------------------------- MODULE AtomicReplace ---------------------------
(***************************************************************************)
(* What replacing one file looks like from outside, as the rest of prelink *)
(* and every other program relies on it: the file is the old or the new    *)
(* one, and changes in one step (Session takes the rename of a file as one *)
(* step), to a file that is whole if storing it reported no error; only    *)
(* then are its other names taken, each at most once, and a name that is   *)
(* away can always be put back.  Module Replace is shown to implement      *)
(* this.                                                                   *)
(*                                                                         *)
(* What a name refers to is one of                                         *)
(*   "old", "new"   the file before and after                              *)
(*   "doubtful"     the file after, when storing it reported an error      *)
(*   "other"        a file that came from outside                          *)
(*   "nothing"      the name does not exist                                *)
(***************************************************************************)

CONSTANT Names       \* the hard links of the file

VARIABLES
  file,      \* what the file's own name refers to
  name,      \* what each hard link refers to
  shelf,     \* what each hard link's name for the meantime refers to
  taken,     \* the hard links that were looked at
  keep,      \* the file is to stay as it is (-n)
  stored,    \* no error was reported when the new file was stored
  phase      \* "before" the file is settled, "after", "over"

vars == <<file, name, shelf, taken, keep, stored, phase>>

Init ==
  /\ file = "old"
  /\ name = [n \in Names |-> "old"]
  /\ shelf = [n \in Names |-> "nothing"]
  /\ taken = {}
  /\ keep \in BOOLEAN
  /\ stored = TRUE
  /\ phase = "before"

(* The new file, which has no name yet, cannot be stored.                  *)
Spoil ==
  /\ phase = "before"
  /\ stored' = FALSE
  /\ UNCHANGED <<file, name, shelf, taken, keep, phase>>

(* The file is the new one from now on; with -n it stays.                  *)
Commit ==
  /\ phase = "before"
  /\ file' = IF keep THEN file ELSE IF stored THEN "new" ELSE "doubtful"
  /\ phase' = "after"
  /\ UNCHANGED <<name, shelf, taken, keep, stored>>

(* It failed, at any time, or is complete.                                 *)
End ==
  /\ phase # "over"
  /\ phase' = "over"
  /\ UNCHANGED <<file, name, shelf, taken, keep, stored>>

(* A name is looked at, and left alone.                                    *)
Pass(n) ==
  /\ phase = "after"
  /\ n \notin taken
  /\ taken' = taken \union {n}
  /\ UNCHANGED <<file, name, shelf, keep, stored, phase>>

(* A name that was looked at is put away, ...                              *)
Shelve(n) ==
  /\ phase = "after"
  /\ n \in taken
  /\ name[n] # "nothing" /\ shelf[n] = "nothing"
  /\ shelf' = [shelf EXCEPT ![n] = name[n]]
  /\ name' = [name EXCEPT ![n] = "nothing"]
  /\ UNCHANGED <<file, taken, keep, stored, phase>>

(* ... made a name of the file, after which what was put away is dropped,  *)
Link(n) ==
  /\ phase = "after"
  /\ name[n] = "nothing" /\ shelf[n] # "nothing"
  /\ name' = [name EXCEPT ![n] = file]
  /\ UNCHANGED <<file, shelf, taken, keep, stored, phase>>

Drop(n) ==
  /\ phase = "after"
  /\ name[n] # "nothing" /\ shelf[n] # "nothing"
  /\ shelf' = [shelf EXCEPT ![n] = "nothing"]
  /\ UNCHANGED <<file, name, taken, keep, stored, phase>>

(* ... or put back.                                                        *)
Restore(n) ==
  /\ phase = "after"
  /\ shelf[n] # "nothing"
  /\ name' = [name EXCEPT ![n] = shelf[n]]
  /\ shelf' = [shelf EXCEPT ![n] = "nothing"]
  /\ UNCHANGED <<file, taken, keep, stored, phase>>

(* Something else puts a file of its own there.                            *)
OutsideFile ==
  /\ phase # "over"
  /\ file' = "other"
  /\ UNCHANGED <<name, shelf, taken, keep, stored, phase>>

OutsideName(n) ==
  /\ phase # "over"
  /\ name' = [name EXCEPT ![n] = "other"]
  /\ UNCHANGED <<file, shelf, taken, keep, stored, phase>>

Next ==
  \/ Spoil \/ Commit \/ End \/ OutsideFile
  \/ \E n \in Names :
       Pass(n) \/ Shelve(n) \/ Link(n) \/ Drop(n) \/ Restore(n) \/ OutsideName(n)

Safety == Init /\ [][Next]_vars

Spec == Safety /\ WF_vars(End)
=============================================================================
