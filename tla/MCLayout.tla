------------------------------ MODULE MCLayout ------------------------------
(* Small instances of Layout.                                              *)
EXTENDS Layout, TLC

CONSTANTS l1, l2, l3, x1, x2

Rank(l) == CASE l = l1 -> 1 [] l = l2 -> 2 [] l = l3 -> 3

(* Every closed, acyclic dependency relation, up to renaming: a library    *)
(* needs only libraries of larger index.                                   *)
AllDepLists ==
  {d \in [Ent -> SUBSET Lib] :
     /\ \A l \in Lib : \A k \in d[l] : Rank(k) > Rank(l)
     /\ \A x \in Ent : \A y \in d[x] : d[y] \subseteq d[x]}

(* One executable that uses every library, and one that uses two of them.  *)
TwoProgramDepLists ==
  {d \in AllDepLists : d[x1] = Lib /\ l1 \notin d[x2] /\ d[l1] = {}}

(* Two executables that use two libraries each, up to their order.         *)
OverlappingDepLists ==
  {d \in AllDepLists : /\ Cardinality(d[x1]) = 2 /\ Cardinality(d[x2]) = 2
                       /\ \E k \in Lib \ d[x1], m \in Lib \ d[x2] : Rank(k) <= Rank(m)}

(* The two programs share libraries, or one of them uses every library.   *)
SharingDepLists == OverlappingDepLists \cup TwoProgramDepLists

(* Exactly the libraries that are prelinked have a slot.  (One that is to  *)
(* be prelinked again may have one too, but only its size is used.)  Only  *)
(* the last library, which the others may need, is not aligned.            *)
MCInit ==
  /\ Init
  /\ \A l \in Lib : disk[l].base = 0 <=> (done[l] = 0 /\ type[l] # "CACHE_DYN")
  /\ \A l \in Lib \ {l3} : disk[l].base % PAGE = 0
MCSpec == MCInit /\ [][Next]_vars /\ WF_vars(Step)
=============================================================================
