------------------------------- MODULE MCCxx --------------------------------
(***************************************************************************)
(* Worlds for Cxx: an executable and two libraries that may both define    *)
(* the table V, and worlds of many tables for the search.                  *)
(***************************************************************************)
EXTENDS Cxx

Many == 18
Number == <<"1", "2", "3", "4", "5", "6", "7", "8", "9", "10", "11", "12", "13", "14", "15",
            "16", "17", "18">>
MCFuns == <<"f", "g">>
MCTableNames == <<"V", "A">> \o Number

Table(name, words) ==
  [name |-> name, words |-> words, weak |-> TRUE, data |-> TRUE, alias |-> "A", size |-> 0]
Two == Table("V", <<"f", "g">>)

Object(tables, funs, symbolic) ==
  [tables |-> tables, funs |-> funs, calls |-> {"f"}, symbolic |-> symbolic,
   uses |-> {"V"} \union {"A" : t \in {x \in ToSet(tables) : x.size > 0}}]

(* A table like the other, different from it, not weak, not in a data      *)
(* section, with a second name for all or part of it, too large.           *)
Tables ==
  {<< >>, <<Two>>, <<[Two EXCEPT !.words = <<"g", "f">>]>>, <<[Two EXCEPT !.weak = FALSE]>>,
   <<[Two EXCEPT !.data = FALSE]>>, <<[Two EXCEPT !.size = 2]>>, <<[Two EXCEPT !.size = 1]>>,
   <<Table("V", <<"f", "g", "f", "f">>)>>}

Functions1 == {{}, {"f"}, {"f", "g"}}
First == {Object(t, f, FALSE) : t \in Tables, f \in Functions1}
         \union {Object(<<Two>>, f, TRUE) : f \in Functions1}
Second == {x \in First : "f" \in x.funs /\ (x.tables # << >> => x.tables[1].data /\ x.tables[1].weak
                                                                /\ Len(x.tables[1].words) = 2)}
Executables == {Object(t, f, FALSE) : t \in {<< >>, <<Two>>}, f \in {{}, {"f"}}}
Scopes == {<< <<1>>, <<2>> >>, << <<1, 2>>, <<2>> >>}

Family(kinds, plts) ==
  [exe |-> Executables, lib1 |-> First, lib2 |-> Second, copy |-> {{}, {"V"}}, plt |-> plts,
   kind |-> kinds, scope |-> Scopes, libstdcxx |-> {TRUE}]

(* The libraries have the same tables in the same or in different orders.  *)
Orders ==
  {Number, Reverse(Number), SubSeq(Number, 1, 12) \o <<"18", "16", "14", "17", "15", "13">>,
   [k \in 1 .. Many |-> Number[1 + ((5 * k) % Many)]]}
Full(order) ==
  [tables |-> [k \in 1 .. Many |-> Table(order[k], <<"f">>)], funs |-> {"f"}, calls |-> {},
   uses |-> ToSet(Number), symbolic |-> FALSE]
Large ==
  [exe |-> {Object(<< >>, {}, FALSE)}, lib1 |-> {Full(x) : x \in Orders},
   lib2 |-> {Full(x) : x \in Orders}, copy |-> {{}}, plt |-> {{"f"}}, kind |-> {"vtable"},
   scope |-> {<< <<1>>, <<2>> >>}, libstdcxx |-> BOOLEAN]

MCFamilies ==
  {Family({"vtable"}, Functions1), Family({"typeinfo", "data"}, {{"f"}}), Large}
=============================================================================
