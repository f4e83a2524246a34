----------------------------- MODULE MCSession -----------------------------
(* Small instances of Session.                                             *)
EXTENDS Session

CONSTANTS a, b, x, y

Options(q, al, f, u, n, ban, o) ==
  [quick |-> q, all |-> al, force |-> f, undo |-> u, named |-> n, banned |-> ban, outside |-> o]

PrelinkAll == Options(FALSE, TRUE, FALSE, FALSE, Exe, {}, {})
PrelinkAllQuick == Options(TRUE, TRUE, FALSE, FALSE, Exe, {}, {})
PrelinkExcept == Options(FALSE, TRUE, FALSE, FALSE, Exe, {}, {b})
UndoAll == Options(FALSE, TRUE, FALSE, TRUE, Exe, {}, {})
PrelinkOneQuick == Options(TRUE, FALSE, FALSE, FALSE, {y, a}, {x}, {b})
PrelinkOne == Options(FALSE, FALSE, FALSE, FALSE, {y}, {}, {})

(* prelink -a, prelink -a -q, prelink -q -b x y a where b is in no          *)
(* configured directory, prelink -u -a                                     *)
AllModes == {PrelinkAll, PrelinkAllQuick, PrelinkOneQuick, UndoAll}

(* prelink -a, prelink y *)
NamedModes == {PrelinkAll, PrelinkOne}

(* prelink -a, with b in a configured directory or not *)
ExceptModes == {PrelinkAll, PrelinkExcept}

(* x uses both libraries.  Either b uses a, and y uses a or, without its   *)
(* dependency, b; or the libraries do not know of each other; or they use  *)
(* each other.                                                             *)
SmallDepLists ==
  {d \in [File -> SUBSET Lib] :
     /\ d[x] = Lib
     /\ \/ d[a] = {} /\ d[b] = {a} /\ d[y] \in {{a}, {b}}
        \/ d[a] = {} /\ d[b] = {} /\ d[y] = {b}
        \/ d[a] = {b} /\ d[b] = {a} /\ d[y] = {b}}

(* Slots are interchangeable: a library that was prelinked is in the       *)
(* first, or overlaps nothing.                                             *)
MCInit == Init /\ disk[a].slot \in {0, 1}
MCSpec == MCInit /\ [][Next]_vars
=============================================================================
