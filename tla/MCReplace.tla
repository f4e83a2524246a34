----------------------------- MODULE MCReplace -----------------------------
(* Small instances of Replace: two hard links, and up to two files that    *)
(* come from outside.                                                      *)
EXTENDS Replace

CONSTANTS h1, h2, u1, u2

(* prelink_ent and undo_one, with and without -n *)
AllOptions == BOOLEAN \X BOOLEAN

=============================================================================
