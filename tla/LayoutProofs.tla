---------------------------- MODULE LayoutProofs ----------------------------
(***************************************************************************)
(* Proofs about Layout, for every set of libraries and executables, every  *)
(* page size and every region.                                             *)
(***************************************************************************)
EXTENDS Layout, FiniteSetTheorems, SequenceTheorems, TLAPS

-----------------------------------------------------------------------------
(* Arithmetic of page alignment.                                           *)

(* The remainder and the quotient of an address by the page size.          *)
LEMMA PageDivision ==
  \A x \in Nat : /\ x % PAGE \in 0..(PAGE - 1) /\ x \div PAGE \in Nat
                 /\ x % PAGE <= x
                 /\ x = PAGE * (x \div PAGE) + (x % PAGE)
  BY LayoutAssumption, SMT

(* A multiple of the page size is page aligned.                            *)
LEMMA PageMultiple == \A q \in Nat : (PAGE * q) % PAGE = 0
  BY LayoutAssumption, SMT

(* Sums and differences of page aligned addresses are page aligned: slots  *)
(* are moved by whole pages only.                                          *)
LEMMA PageSum ==
  ASSUME NEW x \in Nat, NEW y \in Nat, x % PAGE = 0, y % PAGE = 0
  PROVE  (x + y) % PAGE = 0 /\ (x <= y => (y - x) % PAGE = 0)
<1> DEFINE a == x \div PAGE
           b == y \div PAGE
<1>1. a \in Nat /\ b \in Nat /\ x = PAGE * a /\ y = PAGE * b
  BY PageDivision, LayoutAssumption
<1>2. x + y = PAGE * (a + b) /\ a + b \in Nat
  BY <1>1, LayoutAssumption, SMT
<1>3. y - x = PAGE * (b - a)
  BY <1>1, LayoutAssumption, SMT
<1>4. x <= y => a <= b
  BY <1>1, LayoutAssumption, SMT
<1> HIDE DEF a, b
<1>5. x <= y => b - a \in Nat
  BY <1>1, <1>4, SMT
<1> QED BY <1>2, <1>3, <1>5, PageMultiple, SMT

(* AlignUp yields the least page aligned address that is not below its     *)
(* argument.                                                               *)
LEMMA AlignUpFacts ==
  ASSUME NEW x \in Nat
  PROVE  /\ AlignUp(x) \in Nat /\ x <= AlignUp(x) /\ AlignUp(x) % PAGE = 0
         /\ \A y \in Nat : y % PAGE = 0 /\ x <= y => AlignUp(x) <= y
<1> DEFINE z == x + PAGE - 1
<1>1. z \in Nat /\ x <= z
  BY LayoutAssumption, SMT
<1>2. AlignUp(x) = PAGE * (z \div PAGE) /\ z \div PAGE \in Nat
  <2>1. AlignUp(x) = z - (z % PAGE)
    BY DEF AlignUp
  <2> HIDE DEF z
  <2> QED BY <1>1, <2>1, PageDivision, LayoutAssumption
<1>3. AlignUp(x) \in Nat /\ x <= AlignUp(x)
  BY <1>1, PageDivision, LayoutAssumption, SMT DEF AlignUp
<1>4. AlignUp(x) % PAGE = 0
  <2>1. PICK q \in Nat : AlignUp(x) = PAGE * q
    BY <1>2
  <2> QED BY <2>1, PageMultiple
<1>5. ASSUME NEW y \in Nat, y % PAGE = 0, x <= y
      PROVE  AlignUp(x) <= y
  <2>1. PICK q \in Nat : AlignUp(x) = PAGE * q
    BY <1>2
  <2>2. y = PAGE * (y \div PAGE) /\ y \div PAGE \in Nat
    BY <1>5, PageDivision, LayoutAssumption
  <2>3. AlignUp(x) <= x + PAGE - 1
    BY <1>1, PageDivision, LayoutAssumption, SMT DEF AlignUp
  <2>4. PAGE * q < PAGE * ((y \div PAGE) + 1)
    BY <2>1, <2>2, <2>3, <1>5, LayoutAssumption, SMT
  <2>5. q <= y \div PAGE
    BY <2>2, <2>4, LayoutAssumption, SMT
  <2> QED BY <2>1, <2>2, <2>5, LayoutAssumption, SMT
<1> QED BY <1>3, <1>4, <1>5

-----------------------------------------------------------------------------
(* Sequences.                                                              *)

(* What InsertAt leaves at each position.                                  *)
LEMMA InsertAtFacts ==
  ASSUME NEW S, NEW s \in Seq(S), NEW e \in S, NEW i \in 1..(Len(s) + 1)
  PROVE  /\ InsertAt(s, i, e) \in Seq(S)
         /\ Len(InsertAt(s, i, e)) = Len(s) + 1
         /\ \A k \in 1..(Len(s) + 1) :
              InsertAt(s, i, e)[k] = IF k < i THEN s[k]
                                     ELSE IF k = i THEN e ELSE s[k - 1]
<1> DEFINE front == SubSeq(s, 1, i - 1)
           back == SubSeq(s, i, Len(s))
<1>1. /\ front \in Seq(S) /\ Len(front) = i - 1
      /\ \A k \in 1..(i - 1) : front[k] = s[k]
  BY SubSeqProperties
<1>2. /\ back \in Seq(S) /\ Len(back) = Len(s) - i + 1
      /\ \A k \in 1..(Len(s) - i + 1) : back[k] = s[i + k - 1]
  BY SubSeqProperties
<1>3. InsertAt(s, i, e) = (front \o <<e>>) \o back
  BY DEF InsertAt
<1> HIDE DEF front, back
<1>4. /\ front \o <<e>> \in Seq(S) /\ Len(front \o <<e>>) = i
      /\ \A k \in 1..i : (front \o <<e>>)[k] = IF k < i THEN s[k] ELSE e
  BY <1>1, ConcatProperties
<1> DEFINE f == front \o <<e>>
<1> HIDE DEF f
<1>5. f \in Seq(S) /\ Len(f) = i /\ \A k \in 1..i : f[k] = IF k < i THEN s[k] ELSE e
  BY <1>4 DEF f
<1>6. InsertAt(s, i, e) = f \o back
  BY <1>3 DEF f
<1>7. /\ f \o back \in Seq(S) /\ Len(f \o back) = Len(f) + Len(back)
      /\ \A k \in 1..(Len(f) + Len(back)) :
           (f \o back)[k] = IF k <= Len(f) THEN f[k] ELSE back[k - Len(f)]
  <2>1. f \in Seq(S) /\ back \in Seq(S)
    BY <1>2, <1>5
  <2> QED BY <2>1, ConcatProperties
<1>8. Len(f) + Len(back) = Len(s) + 1
  BY <1>2, <1>5
<1> DEFINE t == f \o back
<1> HIDE DEF t
<1>9. /\ t \in Seq(S) /\ Len(t) = Len(s) + 1
      /\ \A k \in 1..(Len(s) + 1) : t[k] = IF k <= i THEN f[k] ELSE back[k - i]
  BY <1>5, <1>7, <1>8 DEF t
<1>10. ASSUME NEW k \in 1..(Len(s) + 1)
       PROVE  t[k] = IF k < i THEN s[k] ELSE IF k = i THEN e ELSE s[k - 1]
  <2>1. CASE k <= i
    <3>1. k \in 1..i /\ (k < i \/ k = i)
      BY <2>1
    <3> QED BY <1>5, <1>9, <2>1, <3>1
  <2>2. CASE k > i
    <3>1. k - i \in 1..(Len(s) - i + 1) /\ i + (k - i) - 1 = k - 1 /\ ~ (k <= i)
      BY <2>2
    <3>2. back[k - i] = s[k - 1]
      BY <1>2, <3>1
    <3> QED BY <1>9, <2>2, <3>1, <3>2
  <2> QED BY <2>1, <2>2
<1> QED BY <1>6, <1>9, <1>10 DEF t

(* RemoveAt yields a sequence over the same set, and closes the gap.       *)
LEMMA RemoveAtFacts ==
  ASSUME NEW S, NEW s \in Seq(S), NEW i \in 1..Len(s)
  PROVE  /\ RemoveAt(s, i) \in Seq(S)
         /\ Len(RemoveAt(s, i)) = Len(s) - 1
         /\ \A k \in 1..(Len(s) - 1) :
              RemoveAt(s, i)[k] = IF k < i THEN s[k] ELSE s[k + 1]
<1> DEFINE front == SubSeq(s, 1, i - 1)
           back == SubSeq(s, i + 1, Len(s))
<1>1. /\ front \in Seq(S) /\ Len(front) = i - 1
      /\ \A k \in 1..(i - 1) : front[k] = s[k]
  BY SubSeqProperties
<1>2. /\ back \in Seq(S) /\ Len(back) = Len(s) - i
      /\ \A k \in 1..(Len(s) - i) : back[k] = s[i + k]
  BY SubSeqProperties
<1>3. RemoveAt(s, i) = front \o back
  BY DEF RemoveAt
<1> HIDE DEF front, back
<1>4. /\ front \o back \in Seq(S) /\ Len(front \o back) = Len(front) + Len(back)
      /\ \A k \in 1..(Len(front) + Len(back)) :
           (front \o back)[k] = IF k <= Len(front) THEN front[k] ELSE back[k - Len(front)]
  BY <1>1, <1>2, ConcatProperties
<1>5. ASSUME NEW k \in 1..(Len(s) - 1)
      PROVE  (front \o back)[k] = IF k < i THEN s[k] ELSE s[k + 1]
  <2>1. CASE k < i
    BY <1>1, <1>2, <1>4, <2>1
  <2>2. CASE ~ (k < i)
    <3>1. k - (i - 1) \in 1..(Len(s) - i) /\ i + (k - (i - 1)) = k + 1
      BY <2>2
    <3>2. (front \o back)[k] = back[k - (i - 1)]
      BY <1>1, <1>2, <1>4, <2>2
    <3> QED BY <1>2, <2>2, <3>1, <3>2
  <2> QED BY <2>1, <2>2
<1> QED BY <1>1, <1>2, <1>3, <1>4, <1>5

(* The results of sorting a finite set are sequences over it without an    *)
(* inversion.                                                              *)
LEMMA SortedSeq ==
  ASSUME NEW S, IsFiniteSet(S), NEW Leq(_, _), NEW s \in Sorted(S, Leq)
  PROVE  /\ s \in Seq(S) /\ Len(s) = Cardinality(S)
         /\ \A a, b \in 1..Len(s) : a < b => Leq(s[a], s[b])
<1>1. Cardinality(S) \in Nat
  BY FS_CardinalityType
<1> QED BY <1>1 DEF Sorted, SetToSeqs

(* addr_cmp orders by address.                                             *)
LEMMA AddrLeqBase ==
  ASSUME NEW a, NEW b, base[a] \in Nat, base[b] \in Nat, AddrLeq(a, b)
  PROVE  base[a] <= base[b]
BY DEF AddrLeq

-----------------------------------------------------------------------------
(* Type correctness.  It needs that slots do not end before they start,    *)
(* that what was moved up by the width of the region can be moved back,    *)
(* and which entries the list and the loops range over.                    *)

PlacedLibs == {l \in Libs : done[l] # 0}
UnplacedLibs == {l \in Libs : done[l] = 0}

LoopShape ==
  /\ pc \in {"find_libs", "overlap"} /\ j = 1 => work = << >>
  /\ pc \in {"find_libs", "overlap", "propagate", "list"} => list = << >>
  /\ pc = "propagate" => todo \subseteq Libs
  /\ pc \in {"start", "rotate"} => list \in Seq(PlacedLibs)
  /\ pc \in {"pick", "scan"} => todo \subseteq UnplacedLibs
  /\ pc = "scan" => cur \in UnplacedLibs /\ cur \notin todo

SlotShape ==
  /\ \A l \in Lib : base[l] <= end[l]
  /\ pc # "find_libs" => \A l \in Libs : end[l] <= layend[l]
  /\ wrapped \subseteq PlacedLibs
  /\ pc \in {"find_libs", "overlap", "propagate", "list", "start"} => wrapped = {}
  /\ \A l \in wrapped : Width <= base[l]

TypeInv == TypeOK /\ LoopShape /\ SlotShape

(* The facts about the constants that the steps below use.                 *)
LEMMA ConstantFacts ==
  /\ Width \in Nat /\ Width <= MMAP_END /\ MMAP_BASE \in Nat /\ MMAP_END \in Nat
  /\ MMAP_BASE < MMAP_END
  /\ GAP \in Nat /\ Fake \notin Ent /\ Fake \notin Lib
  /\ Lib \subseteq Ent /\ Exe \subseteq Ent /\ Lib \subseteq Slot /\ Fake \in Slot
  BY LayoutAssumption DEF Width, Ent, Slot

(* Any subset of the libraries can be sorted into a sequence over it.      *)
LEMMA LibSubsetsFinite == \A S \in SUBSET Lib : IsFiniteSet(S)
  BY LayoutAssumption, FS_Subset

LEMMA InitTypeInv == Init => TypeInv
<1> SUFFICES ASSUME Init PROVE TypeInv
  OBVIOUS
<1> USE DEF Init
<1>1. type \in [Ent -> AllLibTypes \union AllExeTypes]
  BY LayoutAssumption
<1>2. deps \in [Ent -> SUBSET Lib]
  BY DepListsAssumption
<1>3. disk \in [Lib -> [base : Nat, size : Nat \ {0}]]
  BY LayoutAssumption
<1>4. /\ base \in [Slot -> Nat] /\ end \in [Slot -> Nat] /\ layend \in [Slot -> Nat]
      /\ \A l \in Lib : base[l] <= end[l]
  BY <1>3, ConstantFacts
<1>5. TypeOK
  BY <1>1, <1>2, <1>3, <1>4, ConstantFacts, LayoutAssumption DEF TypeOK, Phases
<1> QED BY <1>4, <1>5 DEF TypeInv, LoopShape, SlotShape

(* layout_libs never changes the types, the dependency lists or the files. *)
LEMMA InputUnchanged ==
  [Next]_vars => /\ UNCHANGED <<type, deps, disk>>
                 /\ Libs' = Libs /\ Binlibs' = Binlibs
<1>1. [Next]_vars => UNCHANGED <<type, deps, disk>>
  BY DEF Next, Step, Terminating, vars, input, FindLibs, OverlapNext, OverlapKeep,
         OverlapDrop, OverlapEnd, Propagate, PropagateEnd, BuildList, ChooseStart,
         RotateWrap, RotateList, RotateReset, SetFin, Pick, ScanNext, Place, NotFound,
         Unwrap
<1> QED BY <1>1 DEF Libs, Binlibs

LEMMA LibFacts == Libs \subseteq Lib /\ PlacedLibs \subseteq Libs /\ UnplacedLibs \subseteq Libs
  BY DEF Libs, PlacedLibs, UnplacedLibs

(* Where the loops are is preserved by every step.                         *)
LEMMA StepLoopShape == TypeInv /\ [Next]_vars => LoopShape'
<1>s. SUFFICES ASSUME TypeInv, [Next]_vars PROVE LoopShape'
  OBVIOUS
<1>0. Libs' = Libs
  BY <1>s, InputUnchanged
<1>t. TypeOK /\ LoopShape
  BY <1>s DEF TypeInv
<1>p. done' = done => PlacedLibs' = PlacedLibs /\ UnplacedLibs' = UnplacedLibs
  BY <1>0 DEF PlacedLibs, UnplacedLibs
<1> USE DEF LoopShape
<1>1. CASE FindLibs
  BY <1>1, <1>t DEF FindLibs
<1>2. ASSUME NEW b \in Ent, OverlapNext(b) PROVE LoopShape'
  BY <1>2, <1>t DEF OverlapNext
<1>3. CASE OverlapKeep
  BY <1>3, <1>t DEF OverlapKeep, TypeOK
<1>4. CASE OverlapDrop
  <2>1. j' # 1
    BY <1>4 DEF OverlapDrop, Resume, Remaining
  <2> QED BY <1>4, <1>t, <2>1 DEF OverlapDrop
<1>5. CASE OverlapEnd
  BY <1>5, <1>0, <1>t DEF OverlapEnd
<1>6. ASSUME NEW l \in Lib, Propagate(l) PROVE LoopShape'
  BY <1>6, <1>0, <1>t DEF Propagate
<1>7. CASE PropagateEnd
  BY <1>7, <1>t DEF PropagateEnd
<1>8. CASE BuildList
  <2>1. IsFiniteSet(PlacedLibs)
    BY LibSubsetsFinite, LibFacts
  <2>2. PICK s \in Sorted(PlacedLibs, AddrLeq) :
          \E first \in 1..(Len(s) + 1) :
            \E last \in (IF first > Len(s) THEN {Len(s)} ELSE first..Len(s)) :
              list' = SubSeq(s, first, last)
    BY <1>8 DEF BuildList, PlacedLibs
  <2>3. s \in Seq(PlacedLibs)
    BY <2>1, SortedSeq
  <2>4. PICK first \in 1..(Len(s) + 1) :
          \E last \in (IF first > Len(s) THEN {Len(s)} ELSE first..Len(s)) :
            list' = SubSeq(s, first, last)
    BY <2>2
  <2>5. PICK last \in 0..Len(s) : list' = SubSeq(s, first, last)
    BY <2>3, <2>4
  <2>6. \A i \in first..last : s[i] \in PlacedLibs
    BY <2>3, <2>4, <2>5
  <2>7. list' \in Seq(PlacedLibs)
    BY <2>5, <2>6, SubSeqProperties
  <2>8. pc' = "start" /\ done' = done
    BY <1>8 DEF BuildList
  <2> QED BY <1>p, <2>7, <2>8
<1>9. CASE ChooseStart
  BY <1>9, <1>p, <1>t DEF ChooseStart
<1>10. CASE RotateWrap
  BY <1>10, <1>p, <1>t DEF RotateWrap
<1>11. CASE RotateList \/ RotateReset
  BY <1>11 DEF RotateList, RotateReset
<1>12. CASE SetFin
  BY <1>12, <1>0, <1>p DEF SetFin, UnplacedLibs
<1>13. ASSUME NEW l \in Lib, Pick(l) PROVE LoopShape'
  BY <1>13, <1>p, <1>t DEF Pick
<1>14. CASE ScanNext
  BY <1>14, <1>p, <1>t DEF ScanNext
<1>15. CASE Place
  <2>1. todo' \subseteq UnplacedLibs'
    <3>1. done' = [done EXCEPT ![cur] = 1] /\ todo' = todo /\ pc = "scan"
      BY <1>15 DEF Place
    <3>2. ASSUME NEW l \in todo PROVE l \in Libs /\ done'[l] = 0
      BY <1>t, <3>1, <3>2 DEF UnplacedLibs, TypeOK
    <3> QED BY <1>0, <3>1, <3>2 DEF UnplacedLibs
  <2>2. pc' = "pick"
    BY <1>15 DEF Place
  <2> QED BY <2>1, <2>2
<1>16. CASE NotFound \/ Unwrap
  BY <1>16 DEF NotFound, Unwrap
<1>17. CASE UNCHANGED vars
  BY <1>17, <1>0, <1>p, <1>t DEF vars
<1> QED
  BY <1>s, <1>1, <1>2, <1>3, <1>4, <1>5, <1>6, <1>7, <1>8, <1>9, <1>10, <1>11,
     <1>12, <1>13, <1>14, <1>15, <1>16, <1>17
  DEF Next, Step, Terminating

SlotTypes == base \in [Slot -> Nat] /\ end \in [Slot -> Nat] /\ layend \in [Slot -> Nat]

(* Slots stay well formed: none ends before it starts, and what was moved  *)
(* up for -R can be moved back.                                            *)
LEMMA StepSlotShape == TypeInv /\ [Next]_vars => SlotTypes' /\ SlotShape'
<1>s. SUFFICES ASSUME TypeInv, [Next]_vars PROVE SlotTypes' /\ SlotShape'
  OBVIOUS
<1>0. Libs' = Libs
  BY <1>s, InputUnchanged
<1>t. TypeOK /\ LoopShape /\ SlotShape /\ SlotTypes
  BY <1>s DEF TypeInv, TypeOK, SlotTypes
<1>p. done' = done => PlacedLibs' = PlacedLibs
  BY <1>0 DEF PlacedLibs
<1>c. Lib \subseteq Slot /\ Fake \notin Lib /\ Libs \subseteq Lib /\ PlacedLibs \subseteq Libs
  BY ConstantFacts, LibFacts
<1>v. \A x \in Slot : base[x] \in Nat /\ end[x] \in Nat /\ layend[x] \in Nat
  BY <1>t DEF SlotTypes
<1>w. \A l \in Lib : base[l] <= end[l]
  BY <1>t DEF SlotShape
<1>x. pc # "find_libs" => \A l \in Libs : end[l] <= layend[l]
  BY <1>t DEF SlotShape
<1>y. wrapped \subseteq PlacedLibs /\ \A l \in wrapped : Width <= base[l]
  BY <1>t DEF SlotShape
<1>z. UNCHANGED slots => SlotTypes' /\ UNCHANGED <<base, end, layend>>
  BY <1>t DEF slots, SlotTypes
<1>1. CASE FindLibs
  <2>1. /\ base' = [x \in Slot |-> IF Unaligned(x) THEN 0 ELSE base[x]]
        /\ end' = [x \in Slot |-> IF Unaligned(x) THEN end[x] - base[x] ELSE end[x]]
        /\ layend' = [x \in Slot |->
                        IF x \in Libs THEN AlignUp(end'[x] + GAP) ELSE layend[x]]
        /\ \A x \in Slot : Unaligned(x) => x \in Lib
        /\ wrapped' = wrapped /\ pc = "find_libs" /\ pc' = "overlap"
    BY <1>1 DEF FindLibs, MovedEnd, Unaligned
  <2>2. /\ base' \in [Slot -> Nat] /\ end' \in [Slot -> Nat]
        /\ \A l \in Lib : base'[l] <= end'[l]
    BY <2>1, <1>v, <1>w, <1>c
  <2>3. ASSUME NEW l \in Slot
        PROVE  AlignUp(end'[l] + GAP) \in Nat /\ end'[l] <= AlignUp(end'[l] + GAP)
    <3>1. end'[l] \in Nat /\ end'[l] + GAP \in Nat /\ end'[l] <= end'[l] + GAP
      BY <2>2, ConstantFacts
    <3>2. /\ AlignUp(end'[l] + GAP) \in Nat
          /\ end'[l] + GAP <= AlignUp(end'[l] + GAP)
      BY <3>1, AlignUpFacts
    <3> QED BY <3>1, <3>2, ConstantFacts
  <2>4. /\ layend' \in [Slot -> Nat]
        /\ \A l \in Libs : end'[l] <= layend'[l]
    BY <2>1, <2>3, <1>v, <1>c
  <2>5. wrapped' = {}
    BY <2>1, <1>t DEF SlotShape
  <2> QED BY <1>0, <2>1, <2>2, <2>4, <2>5 DEF SlotTypes, SlotShape
<1>2. CASE /\ UNCHANGED <<base, end, layend, wrapped>> /\ pc # "find_libs"
           /\ wrapped # {} => PlacedLibs \subseteq PlacedLibs'
           /\ pc' \in {"find_libs", "overlap", "propagate", "list", "start"} => wrapped = {}
  BY <1>2, <1>0, <1>t DEF SlotTypes, SlotShape
<1>3. ASSUME NEW b \in Ent, OverlapNext(b) PROVE SlotTypes' /\ SlotShape'
  BY <1>3, <1>2, <1>t, <1>z DEF OverlapNext, SlotShape
<1>4. CASE OverlapKeep \/ OverlapDrop \/ OverlapEnd
  BY <1>4, <1>2, <1>t, <1>z DEF OverlapKeep, OverlapDrop, OverlapEnd, SlotShape
<1>5. ASSUME NEW l \in Lib, Propagate(l) PROVE SlotTypes' /\ SlotShape'
  BY <1>5, <1>2, <1>t, <1>z DEF Propagate, SlotShape
<1>6. CASE PropagateEnd \/ BuildList
  BY <1>6, <1>2, <1>t, <1>z DEF PropagateEnd, BuildList, SlotShape
<1>7. CASE ChooseStart
  BY <1>7, <1>2, <1>p, <1>t, <1>z DEF ChooseStart, SlotShape
<1>8. CASE RotateWrap
  <2> DEFINE e == list[j]
  <2>1. e \in PlacedLibs
    BY <1>8, <1>t DEF RotateWrap, RotateMore, LoopShape, TypeOK
  <2>2. /\ base' = [base EXCEPT ![e] = @ + Width]
        /\ end' = [end EXCEPT ![e] = @ + Width]
        /\ layend' = [layend EXCEPT ![e] = @ + Width]
        /\ wrapped' = wrapped \union {e}
        /\ pc = "rotate" /\ pc' = "rotate" /\ done' = done
    BY <1>8 DEF RotateWrap
  <2> HIDE DEF e
  <2>3. SlotTypes'
    BY <1>t, <1>c, <2>1, <2>2, ConstantFacts DEF SlotTypes
  <2>4. \A x \in Slot : \/ x # e /\ UNCHANGED <<base[x], end[x], layend[x]>>
                        \/ /\ x = e /\ base'[x] = base[x] + Width
                           /\ end'[x] = end[x] + Width /\ layend'[x] = layend[x] + Width
    BY <1>t, <2>2 DEF SlotTypes
  <2>5. /\ \A l \in Lib : base'[l] <= end'[l]
        /\ \A l \in Libs : end'[l] <= layend'[l]
        /\ \A l \in wrapped' : Width <= base'[l]
    BY <1>v, <1>w, <1>x, <1>y, <1>c, <2>1, <2>2, <2>4, ConstantFacts
  <2>6. wrapped' \subseteq PlacedLibs'
    BY <1>p, <1>y, <2>1, <2>2
  <2> QED BY <1>0, <2>2, <2>3, <2>5, <2>6 DEF SlotShape
<1>9. CASE RotateList
  <2>1. /\ \A l \in Lib : UNCHANGED <<base[l], end[l], layend[l]>>
        /\ SlotTypes'
    <3>1. CASE UNCHANGED slots
      BY <1>t, <3>1 DEF SlotTypes, slots
    <3>2. CASE /\ base' = [base EXCEPT ![Fake] = MMAP_END]
               /\ end' = [end EXCEPT ![Fake] = MMAP_END]
               /\ layend' = [layend EXCEPT ![Fake] = MMAP_END]
      <4>1. SlotTypes'
        BY <1>t, <3>2, ConstantFacts DEF SlotTypes
      <4>2. \A l \in Lib : l \in Slot /\ l # Fake
        BY <1>c
      <4> QED BY <1>t, <3>2, <4>1, <4>2 DEF SlotTypes
    <3> QED BY <1>9, <3>1, <3>2 DEF RotateList
  <2>2. wrapped' = wrapped /\ done' = done /\ pc = "rotate" /\ pc' = "fin"
    BY <1>9 DEF RotateList
  <2> QED BY <1>0, <1>p, <1>w, <1>x, <1>y, <1>c, <2>1, <2>2 DEF SlotShape
<1>10. CASE RotateReset
  <2>1. /\ base' = [x \in Slot |-> IF x \in wrapped THEN base[x] - Width ELSE base[x]]
        /\ end' = [x \in Slot |-> IF x \in wrapped THEN end[x] - Width ELSE end[x]]
        /\ layend' = [x \in Slot |-> IF x \in wrapped THEN layend[x] - Width ELSE layend[x]]
        /\ wrapped' = {} /\ pc = "rotate" /\ pc' = "fin"
    BY <1>10 DEF RotateReset, MovedBack
  <2>2. \A l \in wrapped : Width <= base[l] /\ base[l] <= end[l] /\ end[l] <= layend[l]
    BY <1>w, <1>x, <1>y, <1>c, <2>1
  <2>3. SlotTypes'
    BY <1>v, <2>1, <2>2, ConstantFacts DEF SlotTypes
  <2>4. /\ \A l \in Lib : base'[l] <= end'[l]
        /\ \A l \in Libs : end'[l] <= layend'[l]
    BY <1>v, <1>w, <1>x, <1>c, <2>1, ConstantFacts
  <2> QED BY <1>0, <2>1, <2>3, <2>4 DEF SlotShape
<1>11. CASE SetFin \/ ScanNext \/ NotFound
  BY <1>11, <1>2, <1>p, <1>t, <1>z DEF SetFin, ScanNext, NotFound, SlotShape
<1>12. ASSUME NEW l \in Lib, Pick(l) PROVE SlotTypes' /\ SlotShape'
  BY <1>12, <1>2, <1>p, <1>t, <1>z DEF Pick, SlotShape
<1>13. CASE Place
  <2>1. /\ cur \in UnplacedLibs /\ cur \in Libs /\ cur \notin wrapped
        /\ cur \in Lib /\ cur \in Slot /\ cand \in Nat /\ done \in [Ent -> 0..2]
    BY <1>13, <1>t, <1>y, <1>c, LibFacts
    DEF Place, LoopShape, PlacedLibs, UnplacedLibs, TypeOK
  <2>2. /\ end' = [end EXCEPT ![cur] = @ + (cand - base[cur])]
        /\ base' = [base EXCEPT ![cur] = cand]
        /\ layend' = [layend EXCEPT ![cur] = cand + (layend[cur] - base[cur])]
        /\ done' = [done EXCEPT ![cur] = 1]
        /\ wrapped' = IF cand >= MMAP_END /\ mmap_start # MMAP_BASE
                      THEN wrapped \union {cur} ELSE wrapped
        /\ pc = "scan" /\ pc' = "pick"
    BY <1>13 DEF Place, LaySize
  <2>3. base[cur] <= end[cur] /\ end[cur] <= layend[cur]
    BY <1>w, <1>x, <2>1, <2>2
  <2>4. SlotTypes'
    BY <1>t, <1>v, <2>1, <2>2, <2>3 DEF SlotTypes
  <2>5. \A x \in Slot : \/ x # cur /\ UNCHANGED <<base[x], end[x], layend[x]>>
                        \/ /\ x = cur /\ base'[x] = cand
                           /\ end'[x] = end[x] + (cand - base[x])
                           /\ layend'[x] = cand + (layend[x] - base[x])
    BY <1>t, <2>2 DEF SlotTypes
  <2>6. /\ \A l \in Lib : base'[l] <= end'[l]
        /\ \A l \in Libs : end'[l] <= layend'[l]
    BY <1>v, <1>w, <1>x, <1>c, <2>1, <2>2, <2>3, <2>5
  <2>7. \A l \in wrapped' : Width <= base'[l]
    <3>1. cand >= MMAP_END => Width <= cand
      BY <2>1, ConstantFacts
    <3> QED BY <1>v, <1>y, <1>c, <2>1, <2>2, <2>5, <3>1
  <2>8. wrapped' \subseteq PlacedLibs'
    <3>1. \A l \in Libs : done'[l] = IF l = cur THEN 1 ELSE done[l]
      BY <1>c, <2>1, <2>2, ConstantFacts
    <3> QED BY <1>0, <1>y, <1>c, <2>1, <2>2, <3>1 DEF PlacedLibs
  <2> QED BY <1>0, <2>2, <2>4, <2>6, <2>7, <2>8 DEF SlotShape
<1>14. CASE Unwrap
  <2>1. /\ base' = [x \in Slot |-> IF x \in wrapped THEN base[x] - Width ELSE base[x]]
        /\ end' = [x \in Slot |-> IF x \in wrapped THEN end[x] - Width ELSE end[x]]
        /\ layend' = layend /\ wrapped' = {} /\ pc = "pick" /\ pc' = "done"
    BY <1>14 DEF Unwrap, MovedBack
  <2>2. \A l \in wrapped : Width <= base[l] /\ base[l] <= end[l]
    BY <1>w, <1>y, <1>c
  <2>3. SlotTypes'
    BY <1>t, <1>v, <2>1, <2>2, ConstantFacts DEF SlotTypes
  <2>4. /\ \A l \in Lib : base'[l] <= end'[l]
        /\ \A l \in Libs : end'[l] <= layend'[l]
    BY <1>v, <1>w, <1>x, <1>c, <2>1, ConstantFacts
  <2> QED BY <1>0, <2>1, <2>3, <2>4 DEF SlotShape
<1>15. CASE UNCHANGED vars
  BY <1>15, <1>0, <1>p, <1>t DEF vars, SlotTypes, SlotShape
<1> QED
  BY <1>s, <1>1, <1>3, <1>4, <1>5, <1>6, <1>7, <1>8, <1>9, <1>10, <1>11, <1>12,
     <1>13, <1>14, <1>15
  DEF Next, Step, Terminating

LoopTypes ==
  /\ done \in [Ent -> 0..2]
  /\ random_base \in BOOLEAN /\ mmap_start \in Nat /\ mmap_fin \in Nat
  /\ list \in Seq(Slot) /\ todo \subseteq Ent /\ work \in Seq(Lib)
  /\ j \in Nat \ {0} /\ cur \in Slot /\ cand \in Nat
  /\ pc \in Phases

(* Every step preserves the types.                                         *)
LEMMA StepTypeOK == TypeInv /\ [Next]_vars => TypeOK'
<1>s. SUFFICES ASSUME TypeInv, [Next]_vars PROVE TypeOK'
  OBVIOUS
<1>0. UNCHANGED <<type, deps, disk>> /\ Libs' = Libs
  BY <1>s, InputUnchanged
<1>l. LoopShape
  BY <1>s DEF TypeInv
<1>t. LoopTypes
  BY <1>s DEF TypeInv, TypeOK, LoopTypes
<1>v. SlotTypes' /\ wrapped' \subseteq Lib
  <2>1. SlotTypes' /\ SlotShape'
    BY <1>s, StepSlotShape
  <2>2. PlacedLibs' \subseteq Lib
    BY <1>0, LibFacts DEF PlacedLibs
  <2> QED BY <2>1, <2>2 DEF SlotShape
<1>c. Lib \subseteq Ent /\ Lib \subseteq Slot /\ Fake \in Slot /\ Libs \subseteq Lib
  BY ConstantFacts, LibFacts
<1>q. SUFFICES LoopTypes'
  BY <1>s, <1>0, <1>v DEF TypeInv, TypeOK, SlotTypes, LoopTypes
<1> USE DEF LoopTypes, region, Phases
<1>1. CASE FindLibs
  BY <1>1, <1>t DEF FindLibs, Binlibs
<1>2. ASSUME NEW b \in Ent, OverlapNext(b) PROVE LoopTypes'
  <2> DEFINE D == {d \in deps[b] : type[d] = "DYN" /\ done[d] # 0}
  <2>1. D \subseteq Lib
    BY <1>s DEF TypeInv, TypeOK
  <2>2. work' \in Sorted(D, DepsLeq) /\ IsFiniteSet(D)
    BY <1>2, <2>1, LibSubsetsFinite DEF OverlapNext
  <2>3. work' \in Seq(D)
    BY <2>2, SortedSeq
  <2> HIDE DEF D
  <2>4. work' \in Seq(Lib)
    BY <2>1, <2>3
  <2> QED BY <1>2, <1>t, <2>4 DEF OverlapNext
<1>3. CASE OverlapKeep
  BY <1>3, <1>t DEF OverlapKeep
<1>4. CASE OverlapDrop
  <2>1. j \in 2..Len(work) /\ Victim \in 1..Len(work)
    BY <1>4, <1>t, <1>l DEF OverlapDrop, Victim, LoopShape
  <2>2. RemoveAt(work, Victim) \in Seq(Lib)
    BY <1>t, <2>1, RemoveAtFacts
  <2>3. work[Victim] \in Ent
    BY <1>t, <1>c, <2>1
  <2> QED BY <1>4, <1>t, <2>1, <2>2, <2>3 DEF OverlapDrop, Resume, Remaining
<1>5. CASE OverlapEnd
  BY <1>5, <1>t, <1>c DEF OverlapEnd
<1>6. ASSUME NEW l \in Lib, Propagate(l) PROVE LoopTypes'
  BY <1>6, <1>t DEF Propagate
<1>7. CASE PropagateEnd
  BY <1>7, <1>t DEF PropagateEnd
<1>8. CASE BuildList
  <2>1. list' \in Seq(Slot)
    <3>1. list' \in Seq(PlacedLibs')
      BY <1>s, <1>8, StepLoopShape DEF BuildList, LoopShape
    <3>2. PlacedLibs' \subseteq Slot
      BY <1>0, <1>c DEF PlacedLibs
    <3> QED BY <3>1, <3>2
  <2>2. random_base' \in BOOLEAN
    BY <1>8 DEF BuildList
  <2> QED BY <1>8, <1>t, <2>1, <2>2 DEF BuildList
<1>9. CASE ChooseStart
  <2>1. \A x \in MMAP_BASE..(MMAP_END - 1) : x \in Nat
    BY ConstantFacts
  <2>2. \A x \in MMAP_BASE..(MMAP_END - 1) : AlignUp(x) \in Nat
    BY <2>1, AlignUpFacts
  <2>3. mmap_start' \in Nat
    BY <1>9, <2>2, ConstantFacts DEF ChooseStart
  <2> QED BY <1>9, <1>t, <2>3 DEF ChooseStart
<1>10. CASE RotateWrap
  <2>1. list[j] \in Slot /\ layend[list[j]] \in Nat
    <3>1. list[j] \in Slot
      BY <1>10, <1>t DEF RotateWrap, RotateMore
    <3> QED BY <1>s, <3>1 DEF TypeInv, TypeOK
  <2>2. mmap_start' \in Nat
    BY <1>10, <1>t, <2>1, AlignUpFacts DEF RotateWrap
  <2> QED BY <1>10, <1>t, <2>2 DEF RotateWrap
<1>11. CASE RotateList
  <2>1. list' \in Seq(Slot)
    <3>1. CASE j \in 2..Len(list)
      <4>1. /\ list' = (SubSeq(list, j, Len(list)) \o <<Fake>>) \o SubSeq(list, 1, j - 1)
            /\ list \in Seq(Slot) /\ <<Fake>> \in Seq(Slot)
        BY <1>11, <1>t, <1>c, <3>1 DEF RotateList
      <4>2. /\ SubSeq(list, j, Len(list)) \in Seq(Slot)
            /\ SubSeq(list, 1, j - 1) \in Seq(Slot)
        BY <3>1, <4>1, SubSeqProperties
      <4> QED BY <4>1, <4>2, ConcatProperties
    <3> QED BY <1>11, <1>t, <3>1 DEF RotateList
  <2> QED BY <1>11, <1>t, <2>1 DEF RotateList
<1>12. CASE RotateReset
  BY <1>12, <1>t, ConstantFacts DEF RotateReset
<1>13. CASE SetFin
  <2>1. mmap_fin' \in Nat
    BY <1>13, <1>t, ConstantFacts DEF SetFin, NewFin
  <2> QED BY <1>13, <1>t, <1>c, <2>1 DEF SetFin
<1>14. ASSUME NEW l \in Lib, Pick(l) PROVE LoopTypes'
  BY <1>14, <1>t, <1>c DEF Pick
<1>15. CASE ScanNext
  <2>1. cand' \in Nat
    <3>1. list[j] \in Slot
      BY <1>15, <1>t DEF ScanNext
    <3>2. layend[list[j]] \in Nat
      BY <1>s, <3>1 DEF TypeInv, TypeOK
    <3> QED BY <1>15, <1>t, <3>2 DEF ScanNext, Behind
  <2> QED BY <1>15, <1>t, <2>1 DEF ScanNext
<1>16. CASE Place
  <2>1. cur \in Slot /\ cur \in Ent
    BY <1>16, <1>l, <1>c, LibFacts DEF Place, LoopShape
  <2>2. PICK p \in 1..(Len(list) + 1) : list' = InsertAt(list, p, cur)
    BY <1>16 DEF Place
  <2>3. list' \in Seq(Slot)
    BY <1>t, <2>1, <2>2, InsertAtFacts
  <2>4. done' \in [Ent -> 0..2]
    BY <1>16, <1>t, <2>1 DEF Place
  <2> QED BY <1>16, <1>t, <1>c, <2>3, <2>4 DEF Place
<1>17. CASE NotFound \/ Unwrap
  BY <1>17, <1>t DEF NotFound, Unwrap
<1>18. CASE UNCHANGED vars
  BY <1>18, <1>t DEF vars
<1> QED
  BY <1>s, <1>1, <1>2, <1>3, <1>4, <1>5, <1>6, <1>7, <1>8, <1>9, <1>10, <1>11, <1>12,
     <1>13, <1>14, <1>15, <1>16, <1>17, <1>18
  DEF Next, Step, Terminating

LEMMA TypeInvInductive == TypeInv /\ [Next]_vars => TypeInv'
  BY StepTypeOK, StepLoopShape, StepSlotShape DEF TypeInv

(* layout_libs keeps every entry, the list and its loop variables within   *)
(* their types: no slot is ever moved below address 0 by the shifts for    *)
(* -R, and no loop indexes past its array.                                 *)
THEOREM TypeCorrect == Spec => []TypeOK
<1>1. TypeInv => TypeOK
  BY DEF TypeInv
<1> QED BY InitTypeInv, TypeInvInductive, <1>1, PTL DEF Spec

-----------------------------------------------------------------------------
(* The propagation pass visits each library once, in any order, and yet    *)
(* reaches everything: a visited library that kept its slot has only       *)
(* dependencies that have one, and these cannot lose it later, because     *)
(* what they would lose it for is a dependency of the visited library too. *)
(* This is where it matters that dependency lists are transitively closed. *)

PropagateInv ==
  /\ deps \in DepLists
  /\ pc = "propagate" =>
       \A l \in Libs \ todo : done[l] # 0 => \A d \in deps[l] : done[d] # 0
  /\ DoneClosed

LEMMA InitPropagateInv == Init => PropagateInv
  BY DEF Init, PropagateInv, DoneClosed

LEMMA StepPropagateInv == TypeInv /\ PropagateInv /\ [Next]_vars => PropagateInv'
<1>s. SUFFICES ASSUME TypeInv, PropagateInv, [Next]_vars PROVE PropagateInv'
  OBVIOUS
<1>0. UNCHANGED <<type, deps, disk>> /\ Libs' = Libs
  BY <1>s, InputUnchanged
<1>t. done \in [Ent -> 0..2] /\ Lib \subseteq Ent /\ Libs \subseteq Lib
  BY <1>s, ConstantFacts, LibFacts DEF TypeInv, TypeOK
<1>c. /\ deps \in DepLists /\ deps \in [Ent -> SUBSET Lib]
      /\ \A x \in Ent : \A y \in deps[x] : deps[y] \subseteq deps[x]
  BY <1>s, DepListsAssumption DEF PropagateInv
<1>i. pc = "propagate" =>
        \A l \in Libs \ todo : done[l] # 0 => \A d \in deps[l] : done[d] # 0
  BY <1>s DEF PropagateInv
<1>d. DoneClosed
  BY <1>s DEF PropagateInv
<1>1. CASE FindLibs \/ OverlapKeep \/ OverlapDrop
  BY <1>1, <1>0, <1>c DEF FindLibs, OverlapKeep, OverlapDrop, PropagateInv, DoneClosed
<1>2. ASSUME NEW b \in Ent, OverlapNext(b) PROVE PropagateInv'
  BY <1>2, <1>0, <1>c DEF OverlapNext, PropagateInv, DoneClosed
<1>3. CASE OverlapEnd
  BY <1>3, <1>0, <1>c DEF OverlapEnd, PropagateInv, DoneClosed
<1>4. ASSUME NEW l \in Lib, Propagate(l) PROVE PropagateInv'
  <2>1. /\ pc = "propagate" /\ pc' = "propagate" /\ todo' = todo \ {l}
        /\ done' = IF \E d \in deps[l] : done[d] = 0
                   THEN [done EXCEPT ![l] = 0] ELSE done
    BY <1>4 DEF Propagate, LostDep
  <2>2. ASSUME NEW k \in Libs \ todo', done'[k] # 0, NEW d \in deps[k]
        PROVE  done'[d] # 0
    <3>1. k \in Ent /\ d \in Ent /\ d \in Lib
      BY <1>c, <1>t
    <3>2. CASE \E e \in deps[l] : done[e] = 0
      <4>1. PICK e \in deps[l] : done[e] = 0
        BY <3>2
      <4>2. k # l /\ done[k] # 0 /\ k \notin todo
        BY <1>t, <2>1, <2>2, <3>1, <3>2
      <4>3. \A x \in deps[k] : done[x] # 0
        BY <1>i, <2>1, <4>2
      <4>4. d # l
        BY <1>c, <3>1, <4>1, <4>3
      <4> QED BY <1>t, <2>1, <3>1, <3>2, <4>3, <4>4
    <3>3. CASE ~ \E e \in deps[l] : done[e] = 0
      BY <1>i, <2>1, <2>2, <3>3
    <3> QED BY <3>2, <3>3
  <2> QED BY <1>0, <1>c, <2>1, <2>2 DEF PropagateInv, DoneClosed
<1>5. CASE PropagateEnd
  BY <1>5, <1>0, <1>c, <1>i DEF PropagateEnd, PropagateInv, DoneClosed
<1>6. CASE BuildList \/ ChooseStart \/ RotateWrap \/ RotateList \/ RotateReset \/ SetFin
  BY <1>6, <1>0, <1>c, <1>d
  DEF BuildList, ChooseStart, RotateWrap, RotateList, RotateReset, SetFin, PropagateInv,
      DoneClosed
<1>7. ASSUME NEW l \in Lib, Pick(l) PROVE PropagateInv'
  BY <1>7, <1>0, <1>c DEF Pick, PropagateInv, DoneClosed
<1>8. CASE ScanNext \/ Place \/ NotFound \/ Unwrap
  BY <1>8, <1>0, <1>c DEF ScanNext, Place, NotFound, Unwrap, PropagateInv, DoneClosed
<1>9. CASE UNCHANGED vars
  BY <1>9, <1>0, <1>c, <1>i, <1>d DEF vars, PropagateInv, DoneClosed
<1> QED
  BY <1>s, <1>1, <1>2, <1>3, <1>4, <1>5, <1>6, <1>7, <1>8, <1>9
  DEF Next, Step, Terminating

(* After the propagation pass no library keeps its slot while a dependency *)
(* lost its own, whatever the order in which the pass visits them.         *)
THEOREM DoneClosedHolds == Spec => []DoneClosed
<1>1. PropagateInv => DoneClosed
  BY DEF PropagateInv
<1> QED
  BY InitTypeInv, TypeInvInductive, InitPropagateInv, StepPropagateInv, <1>1, PTL DEF Spec

-----------------------------------------------------------------------------
(* The address ordered list of Layout and the slots behind it, with every  *)
(* option of prelink (-m, -R, -f), for every set of libraries, every page  *)
(* size and every region: the list stays ordered, also through the         *)
(* rotation for -R, and what was moved for -R comes back to where the file *)
(* has it.                                                                 *)

(* Where a slot is when the shift for -R is undone.                        *)
Home(x) == IF x \in wrapped THEN base[x] - Width ELSE base[x]

(* The list before the new slots are assigned: in address order once the   *)
(* shift is undone, and within the region if it may be turned.  While it   *)
(* is turned, exactly the entries before position j are moved.             *)
RawListInv ==
  pc \in {"start", "rotate"} =>
    /\ \A a, b \in 1..Len(list) : a # b => list[a] # list[b]
    /\ \A a, b \in 1..Len(list) : a < b => Home(list[a]) <= Home(list[b])
    /\ \A k \in 2..Len(list) : Home(list[k]) < MMAP_END
    /\ random_base = TRUE => \A k \in 1..Len(list) : MMAP_BASE <= Home(list[k])

RotateInv ==
  pc = "rotate" =>
    /\ random_base = TRUE
    /\ j <= Len(list) + 1
    /\ \A k \in 1..Len(list) : list[k] \in wrapped <=> k < j

(* Afterwards: in the order of the shifted addresses.                      *)
OrderInv ==
  pc \in {"fin", "pick", "scan"} =>
    /\ list \in Seq(PlacedLibs \union {Fake})
    /\ \A a, b \in 1..Len(list) : a < b => base[list[a]] <= base[list[b]]

ListInv == RawListInv /\ RotateInv /\ OrderInv

(* The slots and the files: the size of a slot is that of the file, and a  *)
(* library whose file stays as it is has the slot of the file.             *)
FileInv ==
  /\ \A l \in Lib : end[l] = base[l] + disk[l].size
  /\ \A l \in Libs : pc = "find_libs" \/ done[l] = 2 => Home(l) = disk[l].base
  /\ pc = "done" => wrapped = {}

-----------------------------------------------------------------------------
(* The list as BuildList makes it.                                         *)

(* What sorting yields has no element twice.                               *)
LEMMA SortedDistinct ==
  ASSUME NEW S, IsFiniteSet(S), NEW Leq(_, _), NEW s \in Sorted(S, Leq)
  PROVE  \A a, b \in 1..Len(s) : a # b => s[a] # s[b]
<1>1. Cardinality(S) \in Nat /\ Len(s) = Cardinality(S)
  BY FS_CardinalityType, SortedSeq
<1> QED BY <1>1 DEF Sorted, SetToSeqs

LEMMA BuildListFacts ==
  ASSUME TypeInv, BuildList
  PROVE  /\ list' \in Seq(PlacedLibs)
         /\ \A a, b \in 1..Len(list') : a # b => list'[a] # list'[b]
         /\ \A a, b \in 1..Len(list') : a < b => base[list'[a]] <= base[list'[b]]
         /\ \A k \in 2..Len(list') : base[list'[k]] < MMAP_END
<1>1. IsFiniteSet(PlacedLibs)
  BY LibSubsetsFinite, LibFacts
<1>2. PICK s \in Sorted(PlacedLibs, AddrLeq) :
        \E first \in 1..(Len(s) + 1) :
          \E last \in (IF first > Len(s) THEN {Len(s)} ELSE first..Len(s)) :
            Window(s, first, last) /\ list' = SubSeq(s, first, last)
  BY DEF BuildList, PlacedLibs
<1>3. /\ s \in Seq(PlacedLibs)
      /\ \A a, b \in 1..Len(s) : a # b => s[a] # s[b]
      /\ \A a, b \in 1..Len(s) : a < b => AddrLeq(s[a], s[b])
  <2>1. s \in Seq(PlacedLibs) /\ Len(s) = Cardinality(PlacedLibs)
    BY <1>1, SortedSeq
  <2>2. \A a, b \in 1..Cardinality(PlacedLibs) : a < b => AddrLeq(s[a], s[b])
    BY DEF Sorted
  <2>3. \A a, b \in 1..Len(s) : a # b => s[a] # s[b]
    BY <1>1, SortedDistinct
  <2> QED BY <2>1, <2>2, <2>3
<1>4. PICK first \in 1..(Len(s) + 1) :
        \E last \in (IF first > Len(s) THEN {Len(s)} ELSE first..Len(s)) :
          Window(s, first, last) /\ list' = SubSeq(s, first, last)
  BY <1>2
<1>5. PICK last \in (IF first > Len(s) THEN {Len(s)} ELSE first..Len(s)) :
        Window(s, first, last) /\ list' = SubSeq(s, first, last)
  BY <1>4
<1>6. /\ first \in Nat \ {0} /\ last \in Nat /\ Len(s) \in Nat /\ last <= Len(s)
      /\ first <= Len(s) => first <= last
      /\ first > Len(s) => first = Len(s) + 1 /\ last = Len(s)
  BY <1>3, <1>4, <1>5
<1>7. \A i \in 1..Len(s) : s[i] \in PlacedLibs /\ base[s[i]] \in Nat
  <2>1. base \in [Slot -> Nat] /\ PlacedLibs \subseteq Slot
    BY LibFacts, ConstantFacts DEF TypeInv, TypeOK
  <2> QED BY <1>3, <2>1
<1>8. ASSUME NEW a \in 1..Len(s), NEW b \in 1..Len(s), a < b
      PROVE  base[s[a]] <= base[s[b]]
  <2>1. AddrLeq(s[a], s[b])
    BY <1>3, <1>8
  <2> QED BY <1>7, <2>1, AddrLeqBase
<1>9. \A i \in first..last : s[i] \in PlacedLibs
  BY <1>3, <1>6
<1>10. /\ list' \in Seq(PlacedLibs)
       /\ Len(list') = IF first <= last THEN last - first + 1 ELSE 0
       /\ \A i \in 1..(last - first + 1) : list'[i] = s[first + i - 1]
  BY <1>5, <1>6, <1>9, SubSeqProperties
<1>11. \A a \in 1..Len(list') : first + a - 1 \in 1..Len(s) /\ list'[a] = s[first + a - 1]
  BY <1>6, <1>10
<1>12. ASSUME NEW a \in 1..Len(list'), NEW b \in 1..Len(list')
       PROVE  /\ a # b => list'[a] # list'[b]
              /\ a < b => base[list'[a]] <= base[list'[b]]
  <2> DEFINE i == first + a - 1
             k == first + b - 1
  <2>1. /\ i \in 1..Len(s) /\ k \in 1..Len(s) /\ list'[a] = s[i] /\ list'[b] = s[k]
        /\ a # b => i # k
        /\ a < b => i < k
    BY <1>6, <1>11
  <2> HIDE DEF i, k
  <2> QED BY <1>3, <1>8, <2>1
<1>13. ASSUME NEW k \in 2..Len(list') PROVE base[list'[k]] < MMAP_END
  <2>1. first + k - 1 \in (first + 1)..last /\ list'[k] = s[first + k - 1]
    BY <1>6, <1>10
  <2> QED BY <1>5, <2>1 DEF Window
<1> QED BY <1>10, <1>12, <1>13

-----------------------------------------------------------------------------
(* The slots and the files.                                                *)

LEMMA InitFileInv == Init => FileInv
<1> SUFFICES ASSUME Init PROVE FileInv
  OBVIOUS
<1>1. \A l \in Lib : l \in Slot
  BY ConstantFacts
<1> QED BY <1>1, LibFacts DEF Init, FileInv, Home

(* Every step keeps the slots as the files have them, but for new ones.    *)
LEMMA StepFileInv == TypeInv /\ ListInv /\ FileInv /\ [Next]_vars => FileInv'
<1>s. SUFFICES ASSUME TypeInv, ListInv, FileInv, [Next]_vars PROVE FileInv'
  OBVIOUS
<1>0. Libs' = Libs /\ disk' = disk /\ type' = type
  BY <1>s, InputUnchanged
<1>c. Lib \subseteq Slot /\ Lib \subseteq Ent /\ Fake \notin Lib /\ Libs \subseteq Lib
      /\ Width \in Nat
  BY ConstantFacts, LibFacts
<1>t. /\ base \in [Slot -> Nat] /\ end \in [Slot -> Nat] /\ done \in [Ent -> 0..2]
      /\ wrapped \subseteq PlacedLibs /\ \A l \in Lib : disk[l].size \in Nat /\ disk[l].base \in Nat
  BY <1>s DEF TypeInv, TypeOK, SlotShape
<1>f. /\ \A l \in Lib : end[l] = base[l] + disk[l].size
      /\ \A l \in Libs : pc = "find_libs" \/ done[l] = 2 => Home(l) = disk[l].base
      /\ pc = "done" => wrapped = {}
  BY <1>s DEF FileInv
<1>1. CASE FindLibs
  <2>1. /\ base' = [x \in Slot |-> IF Unaligned(x) THEN 0 ELSE base[x]]
        /\ end' = [x \in Slot |-> IF Unaligned(x) THEN end[x] - base[x] ELSE end[x]]
        /\ \A x \in Ent : Unaligned(x) => done'[x] = 0
        /\ wrapped' = wrapped /\ pc = "find_libs" /\ pc' = "overlap"
    BY <1>1 DEF FindLibs, MovedEnd
  <2>2. wrapped = {}
    BY <1>s, <2>1 DEF TypeInv, SlotShape
  <2>3. \A l \in Lib : end'[l] = base'[l] + disk[l].size
    BY <1>c, <1>t, <1>f, <2>1
  <2>4. ASSUME NEW l \in Libs, done'[l] = 2 PROVE Home(l)' = disk[l].base
    BY <1>c, <1>f, <2>1, <2>2, <2>4 DEF Home
  <2> QED BY <1>0, <2>1, <2>3, <2>4 DEF FileInv
<1>2. CASE /\ UNCHANGED <<base, end, wrapped>>
           /\ pc' \notin {"find_libs", "done"} \/ UNCHANGED pc
           /\ \A l \in Libs : done'[l] = 2 => done[l] = 2
  BY <1>0, <1>f, <1>2 DEF FileInv, Home
<1>3. ASSUME NEW x \in Ent, OverlapNext(x) PROVE FileInv'
  BY <1>2, <1>3 DEF OverlapNext, slots
<1>4. ASSUME NEW x \in Lib, Propagate(x) PROVE FileInv'
  BY <1>2, <1>4, <1>t, <1>c DEF Propagate, slots
<1>5. CASE OverlapKeep \/ OverlapDrop \/ OverlapEnd \/ PropagateEnd
  BY <1>2, <1>5, <1>t, <1>c DEF OverlapKeep, OverlapDrop, OverlapEnd, PropagateEnd, slots
<1>6. CASE BuildList \/ ChooseStart \/ SetFin \/ ScanNext \/ NotFound
  BY <1>2, <1>6 DEF BuildList, ChooseStart, SetFin, ScanNext, NotFound, slots
<1>7. ASSUME NEW l \in Lib, Pick(l) PROVE FileInv'
  BY <1>2, <1>7 DEF Pick, slots
<1>8. CASE RotateWrap
  <2> DEFINE e == list[j]
  <2>1. e \in PlacedLibs /\ e \notin wrapped /\ e \in Lib
    <3>1. j \in 1..Len(list) /\ pc = "rotate" /\ list \in Seq(PlacedLibs)
      BY <1>8, <1>s DEF RotateWrap, RotateMore, TypeInv, TypeOK, LoopShape
    <3>2. e \notin wrapped
      BY <1>s, <3>1 DEF ListInv, RotateInv
    <3> QED BY <1>c, <3>1, <3>2, LibFacts
  <2>2. /\ base' = [base EXCEPT ![e] = @ + Width]
        /\ end' = [end EXCEPT ![e] = @ + Width]
        /\ wrapped' = wrapped \union {e}
        /\ pc = "rotate" /\ pc' = "rotate" /\ done' = done
    BY <1>8 DEF RotateWrap
  <2> HIDE DEF e
  <2>3. \A l \in Lib : end'[l] = base'[l] + disk[l].size
    BY <1>c, <1>t, <1>f, <2>1, <2>2
  <2>4. \A l \in Lib : Home(l)' = Home(l)
    BY <1>c, <1>t, <2>1, <2>2 DEF Home
  <2> QED BY <1>0, <1>c, <1>f, <2>2, <2>3, <2>4 DEF FileInv
<1>9. CASE RotateList
  <2>1. /\ \A l \in Lib : base'[l] = base[l] /\ end'[l] = end[l]
        /\ wrapped' = wrapped /\ done' = done /\ pc = "rotate" /\ pc' = "fin"
    BY <1>9, <1>c, <1>t DEF RotateList, slots
  <2> QED BY <1>0, <1>c, <1>f, <2>1 DEF FileInv, Home
<1>10. CASE RotateReset \/ Unwrap
  <2>1. /\ base' = [x \in Slot |-> IF x \in wrapped THEN base[x] - Width ELSE base[x]]
        /\ end' = [x \in Slot |-> IF x \in wrapped THEN end[x] - Width ELSE end[x]]
        /\ wrapped' = {} /\ pc \notin {"find_libs", "done"} /\ pc' # "find_libs" /\ done' = done
    BY <1>10 DEF RotateReset, Unwrap, MovedBack
  <2>2. \A l \in Lib : end'[l] = base'[l] + disk[l].size
    BY <1>c, <1>t, <1>f, <2>1
  <2>3. \A l \in Lib : Home(l)' = Home(l)
    BY <1>c, <2>1 DEF Home
  <2> QED BY <1>0, <1>c, <1>f, <2>1, <2>2, <2>3 DEF FileInv
<1>11. CASE Place
  <2>1. /\ cur \in Libs /\ cur \notin wrapped /\ cur \in Lib /\ cand \in Nat /\ cur \in Ent
    BY <1>11, <1>s, <1>c, <1>t, LibFacts
    DEF Place, TypeInv, TypeOK, LoopShape, PlacedLibs, UnplacedLibs
  <2>2. /\ end' = [end EXCEPT ![cur] = @ + (cand - base[cur])]
        /\ base' = [base EXCEPT ![cur] = cand]
        /\ done' = [done EXCEPT ![cur] = 1]
        /\ \A l \in Libs : l # cur => (l \in wrapped' <=> l \in wrapped)
        /\ pc = "scan" /\ pc' = "pick"
    BY <1>11 DEF Place
  <2>3. \A l \in Lib : end'[l] = base'[l] + disk[l].size
    BY <1>c, <1>t, <1>f, <2>1, <2>2
  <2>4. \A l \in Libs : l # cur => Home(l)' = Home(l) /\ done'[l] = done[l]
    BY <1>c, <1>t, <2>1, <2>2 DEF Home
  <2>5. done'[cur] = 1
    BY <1>t, <2>1, <2>2
  <2> QED BY <1>0, <1>f, <2>2, <2>3, <2>4, <2>5 DEF FileInv
<1>12. CASE UNCHANGED vars
  BY <1>2, <1>12 DEF vars
<1> QED
  BY <1>s, <1>1, <1>3, <1>4, <1>5, <1>6, <1>7, <1>8, <1>9, <1>10, <1>11, <1>12
  DEF Next, Step, Terminating

-----------------------------------------------------------------------------
(* The order of the list.                                                  *)

Ordered(g, s) == \A a, b \in 1..Len(s) : a < b => g[s[a]] <= g[s[b]]

(* Position p of s is where an entry at address c belongs.                 *)
Belongs(g, s, p, c) ==
  \A k \in 1..Len(s) : (k < p => g[s[k]] <= c) /\ (k >= p => c <= g[s[k]])

(* Inserting between what is not above and what is not below keeps the     *)
(* order.                                                                  *)
LEMMA InsertOrdered ==
  ASSUME NEW S, NEW s \in Seq(S), NEW e \in S, NEW p \in 1..(Len(s) + 1),
         NEW g, \A x \in S : g[x] \in Nat,
         Ordered(g, s), Belongs(g, s, p, g[e])
  PROVE  Ordered(g, InsertAt(s, p, e))
<1>0. /\ \A a, b \in 1..Len(s) : a < b => g[s[a]] <= g[s[b]]
      /\ \A k \in 1..Len(s) : (k < p => g[s[k]] <= g[e]) /\ (k >= p => g[e] <= g[s[k]])
  BY DEF Ordered, Belongs
<1> DEFINE t == InsertAt(s, p, e)
<1>1. /\ t \in Seq(S) /\ Len(t) = Len(s) + 1 /\ Len(s) \in Nat
      /\ \A k \in 1..(Len(s) + 1) : t[k] = IF k < p THEN s[k] ELSE IF k = p THEN e ELSE s[k - 1]
  <2>1. Len(s) \in Nat
    OBVIOUS
  <2> QED BY <2>1, InsertAtFacts
<1> HIDE DEF t
<1>2. ASSUME NEW a \in 1..Len(t), NEW b \in 1..Len(t), a < b PROVE g[t[a]] <= g[t[b]]
  <2>1. CASE b < p
    <3>1. a \in 1..Len(s) /\ b \in 1..Len(s) /\ t[a] = s[a] /\ t[b] = s[b]
      BY <1>1, <1>2, <2>1
    <3> QED BY <1>0, <1>2, <3>1
  <2>2. CASE b = p
    <3>1. a \in 1..Len(s) /\ a < p /\ t[a] = s[a] /\ t[b] = e
      BY <1>1, <1>2, <2>2
    <3> QED BY <1>0, <3>1
  <2>3. CASE b > p /\ a = p
    <3>1. b - 1 \in 1..Len(s) /\ b - 1 >= p /\ t[b] = s[b - 1] /\ t[a] = e
      BY <1>1, <1>2, <2>3
    <3> QED BY <1>0, <3>1
  <2>4. CASE b > p /\ a < p
    <3>1. /\ a \in 1..Len(s) /\ b - 1 \in 1..Len(s) /\ a <= b - 1 /\ a < p /\ b - 1 >= p
          /\ t[a] = s[a] /\ t[b] = s[b - 1] /\ s[a] \in S /\ s[b - 1] \in S
      BY <1>1, <1>2, <2>4
    <3>2. g[s[a]] <= g[e] /\ g[e] <= g[s[b - 1]]
      BY <1>0, <3>1
    <3> QED BY <3>1, <3>2
  <2>5. CASE b > p /\ a > p
    <3>1. /\ a - 1 \in 1..Len(s) /\ b - 1 \in 1..Len(s) /\ a - 1 < b - 1
          /\ t[a] = s[a - 1] /\ t[b] = s[b - 1]
      BY <1>1, <1>2, <2>5
    <3> QED BY <1>0, <3>1
  <2> QED BY <1>1, <1>2, <2>1, <2>2, <2>3, <2>4, <2>5
<1> QED BY <1>2 DEF t, Ordered

(* The backward search of the insertion: what is before the position does  *)
(* not start above the new slot, and what is behind it not below.          *)
LEMMA PlaceOrdered ==
  ASSUME TypeInv, OrderInv, Place
  PROVE  OrderInv'
<1>1. /\ cur \in Libs /\ done[cur] = 0 /\ cand \in Nat /\ cur \in Slot /\ cur # Fake
      /\ j \in Nat \ {0} /\ pc = "scan"
      /\ cur \notin PlacedLibs \union {Fake} /\ cur \in Ent
      /\ done \in [Ent -> 0..2]
      /\ base \in [Slot -> Nat] /\ base' = [base EXCEPT ![cur] = cand]
      /\ done' = [done EXCEPT ![cur] = 1]
  BY LibFacts, ConstantFacts DEF TypeInv, TypeOK, LoopShape, PlacedLibs, UnplacedLibs, Place
<1>2. LaySize(cur) \in Nat
  <2>1. base[cur] <= end[cur] /\ end[cur] <= layend[cur] /\ layend[cur] \in Nat /\ end[cur] \in Nat
    BY <1>1, LibFacts DEF TypeInv, TypeOK, SlotShape
  <2> QED BY <1>1, <2>1 DEF LaySize
<1>3. /\ list \in Seq(PlacedLibs \union {Fake})
      /\ \A a, b \in 1..Len(list) : a < b => base[list[a]] <= base[list[b]]
  BY <1>1 DEF OrderInv
<1>4. PlacedLibs' = PlacedLibs \union {cur}
  <2>1. Libs' = Libs
    BY InputUnchanged DEF Next, Step
  <2>2. \A l \in Libs : done'[l] = IF l = cur THEN 1 ELSE done[l]
    BY <1>1, LibFacts, ConstantFacts
  <2> QED BY <1>1, <2>1, <2>2 DEF PlacedLibs
<1> DEFINE S == PlacedLibs' \union {Fake}
<1>5. /\ list \in Seq(S) /\ cur \in S /\ S \subseteq Slot
      /\ \A x \in S : base'[x] \in Nat
      /\ base'[cur] = cand
  BY <1>1, <1>3, <1>4, LibFacts, ConstantFacts
<1>6. \A k \in 1..Len(list) : base'[list[k]] = base[list[k]] /\ base[list[k]] \in Nat
  <2>1. \A k \in 1..Len(list) : list[k] \in PlacedLibs \union {Fake}
    BY <1>3
  <2>2. \A x \in PlacedLibs \union {Fake} : x \in Slot /\ x # cur
    BY <1>1, LibFacts, ConstantFacts
  <2> QED BY <1>1, <2>1, <2>2
<1>7. PICK p \in 1..(Len(list) + 1) : InsertPos(p) /\ list' = InsertAt(list, p, cur)
  BY DEF Place
<1> DEFINE from == IF j \in 2..Len(list) THEN j - 1 ELSE Len(list)
<1>8. /\ p \in 1..(from + 1) /\ from \in 0..Len(list) /\ Len(list) \in Nat
      /\ p > 1 => base[list[p - 1]] <= cand
      /\ \A k \in p..from : base[list[k]] > cand
  BY <1>1, <1>3, <1>7 DEF InsertPos
<1>9. ASSUME NEW k \in 1..Len(list), k < p PROVE base[list[k]] <= cand
  <2>1. p - 1 \in 1..Len(list) /\ k <= p - 1 /\ base[list[p - 1]] <= cand
    BY <1>8, <1>9
  <2>2. k = p - 1 \/ base[list[k]] <= base[list[p - 1]]
    BY <1>3, <2>1
  <2> QED BY <1>1, <1>6, <2>1, <2>2
<1>10. ASSUME NEW k \in 1..Len(list), k > from PROVE cand <= base[list[k]]
  <2>1. j \in 2..Len(list) /\ from = j - 1
    BY <1>8, <1>10
  <2>2. cand + LaySize(cur) <= base[list[j]]
    BY <1>1, <2>1 DEF Place, Fits, Room
  <2>3. k = j \/ base[list[j]] <= base[list[k]]
    BY <1>3, <1>10, <2>1
  <2> QED BY <1>1, <1>2, <1>6, <2>1, <2>2, <2>3
<1> HIDE DEF from
<1>11. ASSUME NEW k \in 1..Len(list), k >= p PROVE cand <= base[list[k]]
  <2>1. CASE k <= from
    <3>1. k \in p..from
      BY <1>8, <1>11, <2>1
    <3> QED BY <1>1, <1>6, <1>8, <3>1
  <2> QED BY <1>8, <1>10, <2>1
<1>12. Ordered(base', list)
  BY <1>3, <1>6 DEF Ordered
<1>13. Belongs(base', list, p, base'[cur])
  BY <1>5, <1>6, <1>9, <1>11 DEF Belongs
<1>14. Ordered(base', InsertAt(list, p, cur))
  <2>1. list \in Seq(Slot) /\ cur \in Slot /\ \A x \in Slot : base'[x] \in Nat
    BY <1>1 DEF TypeInv, TypeOK
  <2> QED BY <2>1, <1>12, <1>13, InsertOrdered
<1>15. InsertAt(list, p, cur) \in Seq(S)
  BY <1>5, InsertAtFacts
<1> QED BY <1>7, <1>14, <1>15 DEF OrderInv, Ordered

(* While the list is turned, moving one more entry up changes nothing once *)
(* the shift is undone.                                                    *)
LEMMA RotateWrapStep ==
  ASSUME TypeInv, RawListInv, RotateInv, RotateWrap
  PROVE  RawListInv' /\ RotateInv'
<1> DEFINE e == list[j]
<1>1. /\ pc = "rotate" /\ pc' = "rotate" /\ j \in 1..Len(list) /\ j' = j + 1
      /\ base' = [base EXCEPT ![e] = @ + Width] /\ wrapped' = wrapped \union {e}
      /\ list' = list /\ random_base' = random_base
      /\ list \in Seq(PlacedLibs) /\ base \in [Slot -> Nat] /\ Len(list) \in Nat
  <2>1. /\ pc = "rotate" /\ pc' = "rotate" /\ j <= Len(list) /\ j' = j + 1
        /\ base' = [base EXCEPT ![e] = @ + Width] /\ wrapped' = wrapped \union {e}
        /\ list' = list /\ random_base' = random_base
    BY DEF RotateWrap, RotateMore
  <2>2. base \in [Slot -> Nat] /\ list \in Seq(Slot) /\ j \in Nat \ {0}
    BY DEF TypeInv, TypeOK
  <2>3. list \in Seq(PlacedLibs)
    BY <2>1 DEF TypeInv, LoopShape
  <2>4. Len(list) \in Nat
    BY <2>2
  <2>5. j \in 1..Len(list)
    BY <2>1, <2>2, <2>4
  <2> QED BY <2>1, <2>2, <2>3, <2>4, <2>5
<1>2. /\ \A k \in 1..Len(list) : list[k] \in wrapped <=> k < j
      /\ \A a, b \in 1..Len(list) : a # b => list[a] # list[b]
      /\ random_base = TRUE
  BY <1>1 DEF RawListInv, RotateInv
<1>3. e \in Slot /\ e \notin wrapped
  BY <1>1, <1>2, LibFacts, ConstantFacts
<1>4. \A k \in 1..Len(list) : list[k] \in Slot /\ (list[k] = e <=> k = j)
  BY <1>1, <1>2, LibFacts, ConstantFacts
<1> HIDE DEF e
<1>5. \A x \in Slot : Home(x)' = Home(x)
  BY <1>1, <1>3, ConstantFacts DEF Home
<1>6. \A k \in 1..Len(list) : list[k] \in wrapped' <=> k < j + 1
  BY <1>1, <1>2, <1>4
<1>7. \A k \in 1..Len(list) : Home(list[k])' = Home(list[k])
  BY <1>1, <1>4, <1>5
<1>8. RotateInv'
  BY <1>1, <1>2, <1>6 DEF RotateInv
<1>9. RawListInv'
  BY <1>1, <1>7 DEF RawListInv
<1> QED BY <1>8, <1>9

(* A sequence turned so that it starts at position k, with x between its   *)
(* two parts: m entries, x, and the k - 1 entries that were in front.      *)
Turned(s, k, x) == SubSeq(s, k, Len(s)) \o <<x>> \o SubSeq(s, 1, k - 1)

IsTurned(S, t, s, k, m, x) ==
  /\ t \in Seq(S) /\ Len(t) = m + k
  /\ \A i \in 1..m : t[i] = s[k + i - 1]
  /\ t[m + 1] = x
  /\ \A i \in (m + 2)..(m + k) : t[i] = s[i - (m + 1)]

LEMMA TurnedFacts ==
  ASSUME NEW S, NEW s \in Seq(S), NEW x \in S, NEW k \in 2..Len(s),
         NEW m \in Nat, m = Len(s) - k + 1
  PROVE  IsTurned(S, Turned(s, k, x), s, k, m, x)
<1> DEFINE front == SubSeq(s, k, Len(s))
           back == SubSeq(s, 1, k - 1)
<1>1. /\ front \in Seq(S) /\ Len(front) = m
      /\ \A i \in 1..m : front[i] = s[k + i - 1]
  BY SubSeqProperties
<1>2. /\ back \in Seq(S) /\ Len(back) = k - 1
      /\ \A i \in 1..(k - 1) : back[i] = s[i]
  BY SubSeqProperties
<1>3. Turned(s, k, x) = (front \o <<x>>) \o back
  BY DEF Turned
<1>4. <<x>> \in Seq(S) /\ Len(<<x>>) = 1 /\ <<x>>[1] = x
  OBVIOUS
<1> HIDE DEF front, back
<1>5. /\ front \o <<x>> \in Seq(S) /\ Len(front \o <<x>>) = m + 1
      /\ \A i \in 1..(m + 1) : (front \o <<x>>)[i] = IF i <= m THEN front[i] ELSE x
  <2> DEFINE g == <<x>>
  <2>1. g \in Seq(S) /\ Len(g) = 1 /\ g[1] = x
    BY <1>4
  <2> HIDE DEF g
  <2>2. /\ front \o g \in Seq(S) /\ Len(front \o g) = m + 1
        /\ \A i \in 1..(m + 1) : (front \o g)[i] = IF i <= m THEN front[i] ELSE g[i - m]
    <3>1. /\ front \o g \in Seq(S) /\ Len(front \o g) = Len(front) + Len(g)
          /\ \A i \in 1..(Len(front) + Len(g)) :
               (front \o g)[i] = IF i <= Len(front) THEN front[i] ELSE g[i - Len(front)]
      <4>1. front \in Seq(S) /\ g \in Seq(S)
        BY <1>1, <2>1
      <4> QED BY <4>1, ConcatProperties
    <3> QED BY <1>1, <2>1, <3>1
  <2>3. \A i \in 1..(m + 1) : (front \o g)[i] = IF i <= m THEN front[i] ELSE x
    <3>1. \A i \in 1..(m + 1) : i <= m \/ i - m = 1
      OBVIOUS
    <3> QED BY <2>1, <2>2, <3>1
  <2> QED BY <2>2, <2>3 DEF g
<1> DEFINE f == front \o <<x>>
<1> HIDE DEF f
<1>6. f \in Seq(S) /\ Len(f) = m + 1
  BY <1>5 DEF f
<1>7. /\ f \o back \in Seq(S) /\ Len(f \o back) = m + k
      /\ \A i \in 1..(m + k) : (f \o back)[i] = IF i <= m + 1 THEN f[i] ELSE back[i - (m + 1)]
  <2>1. /\ f \o back \in Seq(S) /\ Len(f \o back) = Len(f) + Len(back)
        /\ \A i \in 1..(Len(f) + Len(back)) :
             (f \o back)[i] = IF i <= Len(f) THEN f[i] ELSE back[i - Len(f)]
    <3>1. f \in Seq(S) /\ back \in Seq(S)
      BY <1>2, <1>6
    <3> QED BY <3>1, ConcatProperties
  <2>2. Len(f) + Len(back) = m + k
    BY <1>2, <1>6
  <2> QED BY <1>6, <2>1, <2>2
<1>f. \A i \in 1..(m + 1) : f[i] = IF i <= m THEN front[i] ELSE x
  BY <1>5 DEF f
<1> DEFINE t == f \o back
<1> HIDE DEF t
<1>t. \A i \in 1..(m + k) : t[i] = IF i <= m + 1 THEN f[i] ELSE back[i - (m + 1)]
  BY <1>7 DEF t
<1>8. \A i \in 1..m : t[i] = s[k + i - 1]
  <2>1. SUFFICES ASSUME NEW i \in 1..m PROVE t[i] = s[k + i - 1]
    OBVIOUS
  <2>2. i \in 1..(m + k) /\ i \in 1..(m + 1) /\ i <= m /\ i <= m + 1
    OBVIOUS
  <2>3. t[i] = f[i]
    BY <1>t, <2>2
  <2>4. f[i] = front[i]
    BY <1>f, <2>2
  <2> QED BY <1>1, <2>3, <2>4
<1>9. t[m + 1] = x
  <2>1. m + 1 \in 1..(m + k) /\ m + 1 \in 1..(m + 1) /\ ~ (m + 1 <= m)
    OBVIOUS
  <2>2. f[m + 1] = x
    BY <1>f, <2>1
  <2>3. m + 1 <= m + 1
    OBVIOUS
  <2>4. t[m + 1] = f[m + 1]
    BY <1>t, <2>1, <2>3
  <2> QED BY <2>2, <2>4
<1>10. \A i \in (m + 2)..(m + k) : t[i] = s[i - (m + 1)]
  <2>1. SUFFICES ASSUME NEW i \in (m + 2)..(m + k) PROVE t[i] = s[i - (m + 1)]
    OBVIOUS
  <2>2. i \in 1..(m + k) /\ ~ (i <= m + 1) /\ i - (m + 1) \in 1..(k - 1)
    OBVIOUS
  <2>3. t[i] = back[i - (m + 1)]
    BY <1>t, <2>2
  <2> QED BY <1>2, <2>2, <2>3
<1>11. Turned(s, k, x) = t
  BY <1>3 DEF f, t
<1>12. t \in Seq(S) /\ Len(t) = m + k
  BY <1>7 DEF t
<1> QED BY <1>8, <1>9, <1>10, <1>11, <1>12 DEF IsTurned

(* Once the list is turned it is in the order of the shifted addresses:    *)
(* the entries left where they were start below the end of the region, the *)
(* moved ones not below it.                                                *)
LEMMA RotateListStep ==
  ASSUME TypeInv, RawListInv, RotateInv, RotateList
  PROVE  OrderInv'
<1>1. /\ pc = "rotate" /\ done' = done /\ wrapped' = wrapped
      /\ list \in Seq(PlacedLibs) /\ base \in [Slot -> Nat] /\ Len(list) \in Nat
      /\ j \in Nat \ {0} /\ j <= Len(list) + 1
      /\ \A k \in 1..Len(list) : list[k] \in wrapped <=> k < j
      /\ \A k \in 2..Len(list) : Home(list[k]) < MMAP_END
      /\ \A k \in 1..Len(list) : MMAP_BASE <= Home(list[k])
      /\ \A a, b \in 1..Len(list) : a < b => Home(list[a]) <= Home(list[b])
  <2>1. pc = "rotate" /\ done' = done /\ wrapped' = wrapped
    BY DEF RotateList
  <2>2. base \in [Slot -> Nat] /\ list \in Seq(Slot) /\ j \in Nat \ {0}
    BY DEF TypeInv, TypeOK
  <2>3. list \in Seq(PlacedLibs)
    BY <2>1 DEF TypeInv, LoopShape
  <2>4. /\ random_base = TRUE /\ j <= Len(list) + 1
        /\ \A k \in 1..Len(list) : list[k] \in wrapped <=> k < j
    BY <2>1 DEF RotateInv
  <2>5. /\ \A k \in 2..Len(list) : Home(list[k]) < MMAP_END
        /\ \A k \in 1..Len(list) : MMAP_BASE <= Home(list[k])
        /\ \A a, b \in 1..Len(list) : a < b => Home(list[a]) <= Home(list[b])
    BY <2>1, <2>4 DEF RawListInv
  <2>6. Len(list) \in Nat
    BY <2>2
  <2> QED BY <2>1, <2>2, <2>3, <2>4, <2>5, <2>6
<1>2. PlacedLibs' = PlacedLibs
  <2>1. Libs' = Libs
    BY InputUnchanged DEF Next, Step
  <2> QED BY <1>1, <2>1 DEF PlacedLibs
<1>3. \A k \in 1..Len(list) : /\ list[k] \in PlacedLibs /\ list[k] \in Slot /\ list[k] # Fake
                             /\ base[list[k]] \in Nat
                             /\ base[list[k]] = IF k < j THEN Home(list[k]) + Width
                                                ELSE Home(list[k])
  <2>1. \A k \in 1..Len(list) : list[k] \in PlacedLibs /\ list[k] \in Slot /\ list[k] # Fake
    BY <1>1, LibFacts, ConstantFacts
  <2> QED BY <1>1, <2>1, ConstantFacts DEF Home
<1>4. \A k \in 1..Len(list) : Home(list[k]) \in Int
  BY <1>3, ConstantFacts DEF Home
<1>5. CASE ~ (j \in 2..Len(list))
  <2>1. list' = list /\ base' = base
    BY <1>5 DEF RotateList, slots
  <2>2. (\A k \in 1..Len(list) : k < j) \/ (\A k \in 1..Len(list) : ~ (k < j))
    BY <1>1, <1>5
  <2>3. Ordered(base, list)
    BY <1>1, <1>3, <1>4, <2>2, ConstantFacts DEF Ordered
  <2> QED BY <1>1, <1>2, <2>1, <2>3 DEF OrderInv, Ordered
<1>6. CASE j \in 2..Len(list)
  <2> DEFINE S == PlacedLibs \union {Fake}
  <2>1. list' = Turned(list, j, Fake) /\ base' = [base EXCEPT ![Fake] = MMAP_END]
    BY <1>6 DEF RotateList, Turned
  <2>2. PICK n \in Nat : n = Len(list) - j + 1
    <3>1. Len(list) - j + 1 \in Nat
      <4>1. j \in Nat /\ Len(list) \in Nat /\ j <= Len(list)
        BY <1>1, <1>6
      <4> QED BY <4>1
    <3> QED BY <3>1
  <2>3. list \in Seq(S) /\ Fake \in S
    BY <1>1
  <2> HIDE DEF S
  <2>5. IsTurned(S, list', list, j, n, Fake)
    BY <1>6, <2>1, <2>2, <2>3, TurnedFacts
  <2>6. list' \in Seq(S) /\ Len(list') = n + j
    BY <2>5 DEF IsTurned
  <2>7. /\ \A i \in 1..n : list'[i] = list[j + i - 1]
        /\ list'[n + 1] = Fake
        /\ \A i \in (n + 2)..(n + j) : list'[i] = list[i - (n + 1)]
    BY <2>5 DEF IsTurned
  <2>8. base'[Fake] = MMAP_END /\ \A k \in 1..Len(list) : base'[list[k]] = base[list[k]]
    BY <1>1, <1>3, <2>1, ConstantFacts
  <2>9. ASSUME NEW i \in 1..n
        PROVE  base'[list'[i]] = Home(list[j + i - 1]) /\ base'[list'[i]] < MMAP_END
    <3>1. j + i - 1 \in 2..Len(list) /\ ~ (j + i - 1 < j)
      BY <1>1, <1>6, <2>2
    <3> QED BY <1>1, <1>3, <2>7, <2>8, <3>1
  <2>10. ASSUME NEW i \in (n + 2)..(n + j)
         PROVE  /\ base'[list'[i]] = Home(list[i - (n + 1)]) + Width
                /\ base'[list'[i]] >= MMAP_END
    <3>1. i - (n + 1) \in 1..Len(list) /\ i - (n + 1) < j
      BY <1>1, <1>6, <2>2
    <3>2. base'[list'[i]] = Home(list[i - (n + 1)]) + Width
      BY <1>3, <2>7, <2>8, <3>1
    <3>3. MMAP_BASE <= Home(list[i - (n + 1)]) /\ Home(list[i - (n + 1)]) \in Int
      BY <1>1, <1>4, <3>1
    <3> QED BY <3>2, <3>3, LayoutAssumption DEF Width
  <2>11. ASSUME NEW a \in 1..Len(list'), NEW b \in 1..Len(list'), a < b
         PROVE  base'[list'[a]] <= base'[list'[b]]
    <3>1. CASE b <= n
      <4>1. /\ a \in 1..n /\ b \in 1..n
            /\ j + a - 1 \in 1..Len(list) /\ j + b - 1 \in 1..Len(list) /\ j + a - 1 < j + b - 1
        BY <1>1, <1>6, <2>2, <2>6, <2>11, <3>1
      <4> QED BY <1>1, <2>9, <4>1
    <3>2. CASE a <= n /\ b = n + 1
      <4>1. a \in 1..n
        BY <2>2, <3>2
      <4>2. base'[list'[a]] \in Int
        <5>1. j + a - 1 \in 1..Len(list)
          BY <1>1, <1>6, <2>2, <4>1
        <5> QED BY <1>4, <2>9, <4>1, <5>1
      <4> QED BY <2>7, <2>8, <2>9, <3>2, <4>1, <4>2, ConstantFacts
    <3>3. CASE a <= n /\ b > n + 1
      <4>1. a \in 1..n /\ b \in (n + 2)..(n + j)
        BY <1>1, <2>2, <2>6, <3>3
      <4>2. j + a - 1 \in 1..Len(list) /\ b - (n + 1) \in 1..Len(list)
        BY <1>1, <1>6, <2>2, <4>1
      <4>3. base'[list'[a]] \in Int /\ base'[list'[b]] \in Int
        <5>1. Width \in Int
          BY LayoutAssumption DEF Width
        <5>2. Home(list[j + a - 1]) \in Int /\ Home(list[b - (n + 1)]) \in Int
          BY <1>4, <4>2
        <5>3. /\ base'[list'[a]] = Home(list[j + a - 1])
              /\ base'[list'[b]] = Home(list[b - (n + 1)]) + Width
          BY <2>9, <2>10, <4>1
        <5> QED BY <5>1, <5>2, <5>3
      <4> QED BY <2>9, <2>10, <4>1, <4>3, ConstantFacts
    <3>4. CASE a = n + 1
      <4>1. b \in (n + 2)..(n + j)
        BY <1>1, <2>2, <2>6, <2>11, <3>4
      <4> QED BY <2>7, <2>8, <2>10, <3>4, <4>1, ConstantFacts
    <3>5. CASE a > n + 1
      <4>1. a \in (n + 2)..(n + j) /\ b \in (n + 2)..(n + j)
        BY <1>1, <2>2, <2>6, <2>11, <3>5
      <4>2. /\ a - (n + 1) \in 1..Len(list) /\ b - (n + 1) \in 1..Len(list)
            /\ a - (n + 1) < b - (n + 1)
        BY <1>1, <1>6, <2>2, <2>11, <4>1
      <4>3. Home(list[a - (n + 1)]) <= Home(list[b - (n + 1)])
        BY <1>1, <4>2
      <4>4. Home(list[a - (n + 1)]) \in Int /\ Home(list[b - (n + 1)]) \in Int
        BY <1>4, <4>2
      <4>5. /\ base'[list'[a]] = Home(list[a - (n + 1)]) + Width
            /\ base'[list'[b]] = Home(list[b - (n + 1)]) + Width
        BY <2>10, <4>1
      <4>6. Width \in Int
        BY LayoutAssumption DEF Width
      <4> QED BY <4>3, <4>4, <4>5, <4>6
    <3> QED BY <2>2, <2>6, <2>11, <3>1, <3>2, <3>3, <3>4, <3>5
  <2> QED BY <1>2, <2>6, <2>11 DEF OrderInv, S
<1> QED BY <1>5, <1>6

LEMMA InitListInv == Init => ListInv
  BY DEF Init, ListInv, RawListInv, RotateInv, OrderInv

LEMMA StepListInv == TypeInv /\ ListInv /\ [Next]_vars => ListInv'
<1>s. SUFFICES ASSUME TypeInv, ListInv, [Next]_vars PROVE ListInv'
  OBVIOUS
<1>i. RawListInv /\ RotateInv /\ OrderInv
  BY <1>s DEF ListInv
<1>0. Libs' = Libs
  BY <1>s, InputUnchanged
<1>1. CASE pc' \in {"find_libs", "overlap", "propagate", "list", "done", "failed"}
  BY <1>1 DEF ListInv, RawListInv, RotateInv, OrderInv
<1>2. CASE BuildList
  <2>1. wrapped = {} /\ wrapped' = {} /\ base' = base /\ pc' = "start"
    BY <1>2, <1>s DEF BuildList, TypeInv, SlotShape, slots
  <2>2. /\ list' \in Seq(PlacedLibs)
        /\ \A a, b \in 1..Len(list') : a # b => list'[a] # list'[b]
        /\ \A a, b \in 1..Len(list') : a < b => base[list'[a]] <= base[list'[b]]
        /\ \A k \in 2..Len(list') : base[list'[k]] < MMAP_END
    BY <1>2, <1>s, BuildListFacts
  <2>3. random_base' = TRUE => \A k \in 1..Len(list') : base[list'[k]] >= MMAP_BASE
    BY <1>2 DEF BuildList
  <2>4. \A x : Home(x)' = base[x]
    BY <2>1 DEF Home
  <2>5. \A k \in 1..Len(list') : base[list'[k]] >= MMAP_BASE => MMAP_BASE <= base[list'[k]]
    <3>1. base \in [Slot -> Nat] /\ PlacedLibs \subseteq Slot
      BY <1>s, LibFacts, ConstantFacts DEF TypeInv, TypeOK
    <3> QED BY <2>2, <3>1, ConstantFacts
  <2> QED BY <2>1, <2>2, <2>3, <2>4, <2>5 DEF ListInv, RawListInv, RotateInv, OrderInv
<1>3. CASE ChooseStart
  <2>1. /\ pc = "start" /\ wrapped = {} /\ wrapped' = {} /\ base' = base /\ list' = list
        /\ done' = done /\ random_base' = random_base /\ j' = 1 /\ pc' \in {"rotate", "fin"}
        /\ pc' = "rotate" => random_base = TRUE
        /\ list \in Seq(PlacedLibs) /\ Len(list) \in Nat
    BY <1>3, <1>s DEF ChooseStart, TypeInv, TypeOK, SlotShape, LoopShape, slots
  <2>2. \A x : Home(x) = base[x] /\ Home(x)' = base[x]
    BY <2>1 DEF Home
  <2>3. PlacedLibs' = PlacedLibs
    BY <1>0, <2>1 DEF PlacedLibs
  <2>4. list \in Seq(PlacedLibs \union {Fake})
    BY <2>1
  <2>5. RawListInv'
    BY <1>i, <2>1, <2>2 DEF RawListInv
  <2>6. RotateInv'
    BY <2>1 DEF RotateInv
  <2>7. OrderInv'
    BY <1>i, <2>1, <2>2, <2>3, <2>4 DEF OrderInv, RawListInv
  <2> QED BY <2>5, <2>6, <2>7 DEF ListInv
<1>4. CASE RotateWrap
  BY <1>4, <1>s, <1>i, RotateWrapStep DEF ListInv, OrderInv, RotateWrap
<1>5. CASE RotateList
  BY <1>5, <1>s, <1>i, RotateListStep DEF ListInv, RawListInv, RotateInv, RotateList
<1>6. CASE RotateReset
  <2>1. /\ pc = "rotate" /\ pc' = "fin" /\ list' = list /\ done' = done
        /\ base' = [x \in Slot |-> IF x \in wrapped THEN base[x] - Width ELSE base[x]]
        /\ list \in Seq(PlacedLibs)
    BY <1>6, <1>s DEF RotateReset, MovedBack, TypeInv, LoopShape
  <2>2. \A k \in 1..Len(list) : base'[list[k]] = Home(list[k])
    BY <2>1, LibFacts, ConstantFacts DEF Home
  <2>3. list \in Seq(PlacedLibs \union {Fake}) /\ PlacedLibs' = PlacedLibs
    BY <1>0, <2>1 DEF PlacedLibs
  <2>4. OrderInv'
    BY <1>i, <2>1, <2>2, <2>3 DEF OrderInv, RawListInv
  <2> QED BY <2>1, <2>4 DEF ListInv, RawListInv, RotateInv
<1>7. CASE UNCHANGED <<list, base, done>> /\ pc \in {"fin", "pick", "scan"}
           /\ pc' \in {"fin", "pick", "scan"}
  BY <1>0, <1>7, <1>i DEF ListInv, RawListInv, RotateInv, OrderInv, PlacedLibs
<1>8. CASE SetFin \/ ScanNext
  BY <1>7, <1>8 DEF SetFin, ScanNext, slots
<1>9. ASSUME NEW l \in Lib, Pick(l) PROVE ListInv'
  BY <1>7, <1>9 DEF Pick, slots
<1>10. CASE Place
  BY <1>10, <1>s, <1>i, PlaceOrdered DEF ListInv, RawListInv, RotateInv, Place
<1>11. CASE UNCHANGED vars
  BY <1>0, <1>11, <1>i DEF vars, ListInv, RawListInv, RotateInv, OrderInv, PlacedLibs, Home
<1>12. ASSUME NEW x \in Ent, OverlapNext(x) \/ Propagate(x) PROVE ListInv'
  BY <1>1, <1>12 DEF OverlapNext, Propagate
<1>13. CASE FindLibs \/ OverlapKeep \/ OverlapDrop \/ OverlapEnd \/ PropagateEnd
            \/ NotFound \/ Unwrap
  BY <1>1, <1>13
  DEF FindLibs, OverlapKeep, OverlapDrop, OverlapEnd, PropagateEnd, NotFound, Unwrap
<1> QED
  BY <1>s, <1>2, <1>3, <1>4, <1>5, <1>6, <1>8, <1>9, <1>10, <1>11, <1>12, <1>13, ConstantFacts
  DEF Next, Step, Terminating

(* The list is in address order whenever a slot is searched or inserted,   *)
(* with every option: also after it was turned around a random start       *)
(* address, with the fake entry and the shifted addresses in it, and       *)
(* although -m inserts entries that overlap others.                        *)
THEOREM ListSortedHolds == Spec => []ListSorted
<1>1. ListInv => ListSorted
  BY DEF ListInv, OrderInv, ListSorted
<1> QED
  BY InitTypeInv, TypeInvInductive, InitListInv, StepListInv, <1>1, PTL DEF Spec

(* When layout_libs has finished, a library that stays as it is has the    *)
(* slot of its file, and every slot the size of the file, with every       *)
(* option: what was shifted for -R is shifted back exactly once.           *)
THEOREM SlotsMatchFilesHolds == Spec => []SlotsMatchFiles
<1>1. Init => TypeInv /\ ListInv /\ FileInv
  BY InitTypeInv, InitListInv, InitFileInv
<1>2. TypeInv /\ ListInv /\ FileInv /\ [Next]_vars => (TypeInv /\ ListInv /\ FileInv)'
  BY TypeInvInductive, StepListInv, StepFileInv
<1>3. FileInv => SlotsMatchFiles
  <2>1. \A l \in Libs : l \in Lib
    BY LibFacts
  <2> QED BY <2>1 DEF FileInv, SlotsMatchFiles, Home
<1> QED BY <1>1, <1>2, <1>3, PTL DEF Spec

-----------------------------------------------------------------------------
(* The slots that layout_libs leaves do not overlap, for every set of      *)
(* files, every page size, every region and every option: a new slot       *)
(* avoids what may be loaded together with it (with -m) or everything      *)
(* (without), and of the slots that existed before, the overlap pass keeps *)
(* only those that are apart in each binary.                               *)

(* -R turns the list around mmap_end, and what lies above the region is    *)
(* not in the list: nothing keeps the two apart, so with -R no file may be *)
(* up there.                                                               *)
Enclosed == Random = TRUE => \A b \in Bases : b < MMAP_END

InList(l) == \E k \in 1..Len(list) : list[k] = l

Apart(a, b) == layend[a] <= base[b] \/ layend[b] <= base[a]

DiskApart(a, b) == \/ disk[a].base + disk[a].size <= disk[b].base
                   \/ disk[b].base + disk[b].size <= disk[a].base

Before == pc \in {"find_libs", "overlap", "propagate", "list", "start"}
Placing == pc \in {"fin", "pick", "scan"}

(* The end of the region, seen from the turned list.                       *)
Top == mmap_start + Width

DiskInv == disk \in [Lib -> [base : Bases, size : Sizes]]

StartInv ==
  /\ MMAP_BASE <= mmap_start /\ mmap_start % PAGE = 0
  /\ random_base = TRUE => Random = TRUE
  /\ mmap_start # MMAP_BASE => Random = TRUE
  /\ Before => mmap_start = MMAP_BASE
  /\ Before \/ pc \in {"rotate", "fin"} => mmap_fin = MMAP_END
  /\ pc = "rotate" => MMAP_BASE < mmap_start
  /\ Placing => mmap_start <= MMAP_END
  /\ pc \in {"pick", "scan"} => mmap_fin = Top
  /\ Placing /\ mmap_start = MMAP_BASE => wrapped = {} /\ ~ InList(Fake)
  /\ Placing /\ InList(Fake) => base[Fake] = MMAP_END /\ layend[Fake] = MMAP_END

(* Slots of libraries and candidates start and end on page boundaries.     *)
PageAligned ==
  /\ pc # "find_libs" =>
       \A l \in Libs : base[l] % PAGE = 0 /\ layend[l] % PAGE = 0
  /\ pc = "scan" => cand % PAGE = 0

(* A library with a slot that is not in the list lies below the region, or *)
(* above it and above everything in the list.                              *)
Above(l) == base[l] >= MMAP_END /\ \A k \in 1..Len(list) : base[list[k]] <= base[l]

Covering ==
  pc \in {"start", "rotate"} \/ Placing =>
    \A l \in PlacedLibs : \/ InList(l)
                          \/ layend[l] < MMAP_BASE
                          \/ Random = FALSE /\ Above(l)

(* With a start address inside the region, moved slots are behind the end  *)
(* of the region and not beyond where the turned list ends; the others     *)
(* start in the region, from the start address on.                         *)
Sides ==
  /\ pc = "rotate" => /\ \A l \in wrapped : InList(l)
                      /\ \A k \in 1..Len(list) : k < j => layend[list[k]] <= Top
  /\ Placing /\ mmap_start # MMAP_BASE =>
       \A l \in PlacedLibs :
         /\ l \in wrapped => MMAP_END <= base[l] /\ layend[l] <= Top
         /\ l \notin wrapped => /\ base[l] < MMAP_END
                                /\ layend[l] < MMAP_BASE \/ mmap_start <= base[l]

(* The scan has passed only entries that do not count or end before the    *)
(* candidate.                                                              *)
ScanShape ==
  pc = "scan" =>
    /\ mmap_start <= cand
    /\ \A k \in 1..Len(list) : k < j /\ list[k] \in Considered(cur) => layend[list[k]] <= cand

(* New slots are apart from all others that count.                         *)
NewSlotsApart ==
  /\ Before \/ pc \in {"rotate", "fin"} => \A l \in Libs : done[l] # 1
  /\ \A a, b \in Libs :
       a # b /\ b \in Considered(a) /\ done[a] = 1 /\ done[b] # 0 =>
         IF pc = "done" THEN Disjoint(a, b) ELSE Apart(a, b)

PlacementInv ==
  DiskInv /\ StartInv /\ PageAligned /\ Covering /\ Sides /\ ScanShape /\ NewSlotsApart

(* The overlap pass: the array is sorted, the part before j is free of     *)
(* overlaps, and each binary was dealt with or is being dealt with.        *)
KeptApart(x) ==
  \A a, b \in deps[x] :
    a # b /\ type[a] = "DYN" /\ type[b] = "DYN" /\ done[a] = 2 /\ done[b] = 2
      => DiskApart(a, b)

Collected(x) ==
  \A d \in deps[x] : type[d] = "DYN" /\ done[d] # 0 => \E k \in 1..Len(work) : work[k] = d

OverlapInv ==
  /\ pc = "find_libs" => work = << >>
  /\ pc = "overlap" =>
       /\ \A a, b \in 1..Len(work) : a < b => base[work[a]] <= base[work[b]]
       /\ \A k \in 2..Len(work) : k < j => end[work[k - 1]] <= base[work[k]]
       /\ \A x \in Binlibs \ todo : KeptApart(x) \/ Collected(x)
  /\ pc \notin {"find_libs", "overlap"} => \A x \in Binlibs : KeptApart(x)

(* Every element of a finite set occurs in what sorting it yields.         *)
LEMMA SortedOnto ==
  ASSUME NEW S, IsFiniteSet(S), NEW Leq(_, _), NEW s \in Sorted(S, Leq)
  PROVE  \A x \in S : \E i \in 1..Len(s) : s[i] = x
<1>1. Cardinality(S) \in Nat /\ Len(s) = Cardinality(S)
  BY FS_CardinalityType, SortedSeq
<1>2. s \in Injection(1..Len(s), S)
  BY <1>1 DEF Sorted, SetToSeqs, Injection, IsInjective
<1>3. Cardinality(1..Len(s)) = Cardinality(S)
  BY <1>1, FS_Interval
<1>4. s \in Surjection(1..Len(s), S)
  BY <1>2, <1>3, FS_Injection
<1> QED BY <1>4 DEF Surjection


-----------------------------------------------------------------------------
(* What the steps change.                                                  *)

LEMMA ConsideredFacts ==
  /\ [Next]_vars => \A l \in Lib : Considered(l)' = Considered(l)
  /\ \A a, b \in Lib : b \in Considered(a) => a \in Considered(b)
  /\ \A x \in Binlibs : \A a, b \in deps[x] : b \in Lib => b \in Considered(a)
  /\ \A l \in Lib : Fake \in Considered(l)
<1>1. [Next]_vars => \A l \in Lib : Considered(l)' = Considered(l)
  BY InputUnchanged DEF Considered
<1>b. CASE ~ ConserveMemory
  <2>1. \A l : Considered(l) = Slot
    BY <1>b DEF Considered
  <2> QED BY <1>1, <2>1, ConstantFacts
<1>m. CASE ConserveMemory
  <2>1. \A l, b : b \in Considered(l) <=>
                     b = Fake \/ \E x \in Binlibs : l \in deps[x] /\ b \in deps[x]
    <3>1. SUFFICES ASSUME NEW l, NEW b
                   PROVE  b \in Considered(l) <=>
                            b = Fake \/ \E x \in Binlibs : l \in deps[x] /\ b \in deps[x]
      OBVIOUS
    <3> DEFINE U == UNION {deps[x] : x \in {y \in Binlibs : l \in deps[y]}}
    <3>2. Considered(l) = {Fake} \union U
      BY <1>m DEF Considered
    <3>3. b \in U <=> \E x \in Binlibs : l \in deps[x] /\ b \in deps[x]
      OBVIOUS
    <3> HIDE DEF U
    <3> QED BY <3>2, <3>3
  <2> QED BY <1>1, <2>1, ConstantFacts
<1> QED BY <1>b, <1>m

(* Only these steps move the slot of a library.                            *)
LEMMA SlotSteps ==
  ASSUME TypeInv, [Next]_vars
  PROVE  \/ FindLibs \/ RotateWrap \/ RotateReset \/ Place \/ Unwrap
         \/ wrapped' = wrapped /\ \A l \in Lib : UNCHANGED <<base[l], end[l], layend[l]>>
<1> DEFINE Quiet == wrapped' = wrapped /\ \A l \in Lib : UNCHANGED <<base[l], end[l], layend[l]>>
<1>1. CASE BuildList \/ ChooseStart \/ SetFin \/ ScanNext \/ NotFound
  BY <1>1 DEF BuildList, ChooseStart, SetFin, ScanNext, NotFound, slots
<1>2. CASE RotateList
  <2>1. /\ base \in [Slot -> Nat] /\ end \in [Slot -> Nat] /\ layend \in [Slot -> Nat]
        /\ \A l \in Lib : l \in Slot /\ l # Fake
    BY ConstantFacts DEF TypeInv, TypeOK
  <2> QED BY <1>2, <2>1 DEF RotateList, slots
<1>3. CASE OverlapKeep \/ OverlapDrop \/ OverlapEnd \/ PropagateEnd
  BY <1>3 DEF OverlapKeep, OverlapDrop, OverlapEnd, PropagateEnd, slots
<1>4. ASSUME NEW x \in Ent, OverlapNext(x) \/ Propagate(x) \/ Pick(x) PROVE Quiet
  BY <1>4 DEF OverlapNext, Propagate, Pick, slots
<1>5. CASE UNCHANGED vars
  BY <1>5 DEF vars
<1> HIDE DEF Quiet
<1>6. \/ FindLibs \/ RotateWrap \/ RotateReset \/ Place \/ Unwrap \/ Quiet
  BY <1>1, <1>2, <1>3, <1>4, <1>5, ConstantFacts DEF Next, Step, Terminating, Quiet
<1> QED BY <1>6 DEF Quiet

(* What Place does: the scanned library gets the candidate address, all    *)
(* other slots stay.                                                       *)
LEMMA PlaceFacts ==
  ASSUME TypeInv, Place
  PROVE  /\ cur \in Libs /\ done[cur] = 0 /\ cand \in Nat /\ pc = "scan" /\ pc' = "pick"
         /\ base[cur] \in Nat /\ layend[cur] \in Nat /\ base[cur] <= layend[cur]
         /\ base'[cur] = cand /\ layend'[cur] = cand + LaySize(cur)
         /\ LaySize(cur) \in Nat
         /\ \A l \in Libs : l # cur => UNCHANGED <<base[l], layend[l], done[l]>>
         /\ done'[cur] = 1
         /\ PlacedLibs' = PlacedLibs \union {cur}
<1>1. /\ cur \in Libs /\ done[cur] = 0 /\ cand \in Nat /\ cur \in Lib /\ cur \in Slot
      /\ Libs \subseteq Lib /\ Lib \subseteq Slot /\ Lib \subseteq Ent
      /\ done \in [Ent -> 0..2]
      /\ base \in [Slot -> Nat] /\ end \in [Slot -> Nat] /\ layend \in [Slot -> Nat]
  BY LibFacts, ConstantFacts DEF TypeInv, TypeOK, LoopShape, UnplacedLibs, Place
<1>2. /\ pc = "scan" /\ pc' = "pick"
      /\ base' = [base EXCEPT ![cur] = cand]
      /\ layend' = [layend EXCEPT ![cur] = cand + LaySize(cur)]
      /\ done' = [done EXCEPT ![cur] = 1]
  BY DEF Place
<1>3. base[cur] <= end[cur] /\ end[cur] <= layend[cur]
  BY <1>1, <1>2 DEF TypeInv, SlotShape
<1>4. base[cur] <= layend[cur] /\ LaySize(cur) \in Nat
  BY <1>1, <1>3 DEF LaySize
<1>5. \A l \in Libs : done'[l] = IF l = cur THEN 1 ELSE done[l]
  BY <1>1, <1>2
<1>6. Libs' = Libs
  BY InputUnchanged DEF Next, Step
<1>7. PlacedLibs' = PlacedLibs \union {cur}
  BY <1>1, <1>5, <1>6 DEF PlacedLibs
<1> QED BY <1>1, <1>2, <1>4, <1>5, <1>7

(* Only Place makes done[l] = 1, and only the passes before the list is    *)
(* built (or Place) give an entry without a slot one.                      *)
LEMMA DoneSteps ==
  ASSUME TypeInv, [Next]_vars, ~ Place, ~ FindLibs
  PROVE  \A l \in Libs : done'[l] = 0 \/ done'[l] = done[l]
<1>1. done \in [Ent -> 0..2] /\ Libs \subseteq Ent
  BY LibFacts, ConstantFacts DEF TypeInv, TypeOK
<1>2. CASE OverlapDrop
  BY <1>1, <1>2 DEF OverlapDrop
<1>3. ASSUME NEW x \in Lib, Propagate(x)
      PROVE  \A l \in Libs : done'[l] = 0 \/ done'[l] = done[l]
  BY <1>1, <1>3 DEF Propagate
<1>4. CASE UNCHANGED done
  BY <1>4
<1>5. OverlapDrop \/ UNCHANGED done \/ \E x \in Lib : Propagate(x)
  BY DEF Next, Step, Terminating, vars, OverlapNext, OverlapKeep, OverlapEnd,
      PropagateEnd, BuildList, ChooseStart, RotateWrap, RotateList, RotateReset,
      SetFin, Pick, ScanNext, NotFound, Unwrap
<1> QED BY <1>2, <1>3, <1>4, <1>5

(* Place adds cur to the list, RotateList the fake entry at most.          *)
LEMMA PlaceMembers ==
  ASSUME TypeInv, ListInv, Place
  PROVE  /\ list' \in Seq(Slot)
         /\ \A x : InList(x)' <=> InList(x) \/ x = cur
         /\ \A k \in 1..Len(list) : \E i \in 1..Len(list') : list'[i] = list[k]
<1>1. list \in Seq(Slot) /\ cur \in Slot
  BY DEF TypeInv, TypeOK
<1>2. PICK p \in 1..(Len(list) + 1) : list' = InsertAt(list, p, cur)
  BY DEF Place
<1>3. /\ list' \in Seq(Slot) /\ Len(list') = Len(list) + 1 /\ Len(list) \in Nat
      /\ \A k \in 1..(Len(list) + 1) :
           list'[k] = IF k < p THEN list[k] ELSE IF k = p THEN cur ELSE list[k - 1]
  <2>1. /\ InsertAt(list, p, cur) \in Seq(Slot)
        /\ Len(InsertAt(list, p, cur)) = Len(list) + 1
        /\ \A k \in 1..(Len(list) + 1) :
             InsertAt(list, p, cur)[k] = IF k < p THEN list[k]
                                         ELSE IF k = p THEN cur ELSE list[k - 1]
    BY <1>1, InsertAtFacts
  <2>2. Len(list) \in Nat
    BY <1>1
  <2> QED BY <1>2, <2>1, <2>2
<1>4. ASSUME NEW k \in 1..Len(list) PROVE \E i \in 1..Len(list') : list'[i] = list[k]
  <2>1. CASE k < p
    BY <1>3, <2>1
  <2>2. CASE k >= p
    <3>1. k + 1 \in 1..Len(list') /\ list'[k + 1] = list[k]
      BY <1>3, <2>2
    <3> QED BY <3>1
  <2> QED BY <1>3, <2>1, <2>2
<1>5. ASSUME NEW k \in 1..Len(list')
      PROVE  list'[k] = cur \/ \E i \in 1..Len(list) : list'[k] = list[i]
  <2>1. CASE k < p
    BY <1>3, <2>1
  <2>2. CASE k = p
    BY <1>3, <2>2
  <2>3. CASE k > p
    <3>1. k - 1 \in 1..Len(list) /\ list'[k] = list[k - 1]
      BY <1>3, <2>3
    <3> QED BY <3>1
  <2> QED BY <1>3, <2>1, <2>2, <2>3
<1>6. \E i \in 1..Len(list') : list'[i] = cur
  BY <1>3
<1>7. \A x : InList(x)' <=> InList(x) \/ x = cur
  BY <1>4, <1>5, <1>6 DEF InList
<1> QED BY <1>3, <1>4, <1>7

LEMMA RotateMembers ==
  ASSUME TypeInv, RotateList
  PROVE  \A l \in Lib : InList(l) => InList(l)'
<1>1. list \in Seq(Slot) /\ Fake \in Slot /\ j \in Nat \ {0} /\ Len(list) \in Nat
  BY ConstantFacts DEF TypeInv, TypeOK
<1>2. CASE ~ (j \in 2..Len(list))
  BY <1>2 DEF RotateList, InList
<1>3. CASE j \in 2..Len(list)
  <2>1. list' = Turned(list, j, Fake)
    BY <1>3 DEF RotateList, Turned
  <2>2. PICK n \in Nat : n = Len(list) - j + 1
    BY <1>1, <1>3
  <2>3. IsTurned(Slot, list', list, j, n, Fake)
    BY <1>1, <1>3, <2>1, <2>2, TurnedFacts
  <2>4. /\ Len(list') = n + j
        /\ \A i \in 1..n : list'[i] = list[j + i - 1]
        /\ \A i \in (n + 2)..(n + j) : list'[i] = list[i - (n + 1)]
    BY <2>3 DEF IsTurned
  <2>5. ASSUME NEW k \in 1..Len(list) PROVE \E i \in 1..Len(list') : list'[i] = list[k]
    <3>1. CASE k >= j
      <4>1. k - j + 1 \in 1..n /\ j + (k - j + 1) - 1 = k /\ k - j + 1 \in 1..Len(list')
        BY <1>1, <1>3, <2>2, <2>4, <3>1
      <4> QED BY <2>4, <4>1
    <3>2. CASE k < j
      <4>1. /\ k + (n + 1) \in (n + 2)..(n + j) /\ (k + (n + 1)) - (n + 1) = k
            /\ k + (n + 1) \in 1..Len(list')
        BY <1>1, <1>3, <2>2, <2>4, <3>2
      <4> QED BY <2>4, <4>1
    <3> QED BY <1>1, <3>1, <3>2
  <2> QED BY <2>5 DEF InList
<1> QED BY <1>2, <1>3

-----------------------------------------------------------------------------
(* The start address and the slots' alignment.                             *)

LEMMA InitPlacementInv == Init => PlacementInv
<1> SUFFICES ASSUME Init PROVE PlacementInv
  OBVIOUS
<1>1. \A l \in Libs : l \in Ent
  BY LibFacts, ConstantFacts
<1>2. DiskInv /\ StartInv
  BY LayoutAssumption DEF Init, DiskInv, StartInv, Before, Placing
<1> QED
  BY <1>1, <1>2 DEF Init, PlacementInv, PageAligned, Covering, Placing, Sides, ScanShape,
                    NewSlotsApart

LEMMA StepStartInv ==
  TypeInv /\ ListInv /\ StartInv /\ [Next]_vars => StartInv'
<1>s. SUFFICES ASSUME TypeInv, ListInv, StartInv, [Next]_vars PROVE StartInv'
  OBVIOUS
<1>i. /\ MMAP_BASE <= mmap_start /\ mmap_start % PAGE = 0
      /\ random_base = TRUE => Random = TRUE
      /\ mmap_start # MMAP_BASE => Random = TRUE
      /\ Before => mmap_start = MMAP_BASE
      /\ Before \/ pc \in {"rotate", "fin"} => mmap_fin = MMAP_END
      /\ pc = "rotate" => MMAP_BASE < mmap_start
      /\ Placing => mmap_start <= MMAP_END
      /\ pc \in {"pick", "scan"} => mmap_fin = Top
      /\ Placing /\ mmap_start = MMAP_BASE => wrapped = {} /\ ~ InList(Fake)
      /\ Placing /\ InList(Fake) => base[Fake] = MMAP_END /\ layend[Fake] = MMAP_END
  BY <1>s DEF StartInv
<1>t. /\ mmap_start \in Nat /\ list \in Seq(Slot) /\ layend \in [Slot -> Nat]
      /\ base \in [Slot -> Nat] /\ Len(list) \in Nat /\ random_base \in BOOLEAN
  BY <1>s DEF TypeInv, TypeOK
<1>c. /\ MMAP_BASE \in Nat /\ MMAP_END \in Nat /\ MMAP_BASE < MMAP_END
      /\ MMAP_BASE % PAGE = 0 /\ MMAP_END % PAGE = 0 /\ Width = MMAP_END - MMAP_BASE
      /\ Fake \in Slot /\ Fake \notin Lib
  BY ConstantFacts, LayoutAssumption DEF Width
<1>n. pc \in {"start", "rotate"} => ~ InList(Fake)
  BY <1>s, <1>c, <1>t, LibFacts DEF InList, TypeInv, LoopShape
<1>1. CASE UNCHANGED <<mmap_start, mmap_fin, random_base, list, base, layend, wrapped>>
           /\ (Before' => Before) /\ (Placing' => pc \in {"pick", "scan"})
           /\ pc' \notin {"rotate", "fin"}
           /\ ((pc \in {"pick", "scan"} => pc' \in {"pick", "scan"}) \/ pc' \notin {"pick", "scan"})
  BY <1>i, <1>1 DEF StartInv, Before, Placing, Top, InList
<1>2. ASSUME NEW x \in Ent, OverlapNext(x) \/ Propagate(x) \/ Pick(x) PROVE StartInv'
  BY <1>1, <1>2 DEF OverlapNext, Propagate, Pick, slots, region, Before, Placing
<1>3. CASE OverlapKeep \/ OverlapDrop \/ OverlapEnd \/ PropagateEnd \/ ScanNext \/ NotFound
  BY <1>1, <1>3 DEF OverlapKeep, OverlapDrop, OverlapEnd, PropagateEnd, ScanNext, NotFound,
                    slots, region, Before, Placing
<1>4. CASE FindLibs
  <2>1. pc = "find_libs" /\ pc' = "overlap" /\ UNCHANGED <<mmap_start, mmap_fin, random_base>>
    BY <1>4 DEF FindLibs, region
  <2> QED BY <1>i, <2>1 DEF StartInv, Before, Placing
<1>5. CASE BuildList
  <2>1. /\ pc = "list" /\ pc' = "start" /\ UNCHANGED <<mmap_start, mmap_fin>>
        /\ random_base' = TRUE => random_base = TRUE
    BY <1>5, <1>t DEF BuildList
  <2> QED BY <1>i, <2>1 DEF StartInv, Before, Placing
<1>6. CASE ChooseStart
  <2>1. /\ pc = "start" /\ UNCHANGED <<mmap_fin, random_base, list, base, layend, wrapped>>
        /\ (pc' = "rotate" /\ mmap_start' # MMAP_BASE) \/ pc' = "fin"
    BY <1>6 DEF ChooseStart, slots
  <2>2. wrapped = {}
    BY <1>s, <2>1 DEF TypeInv, SlotShape
  <2>3. /\ mmap_start' \in Nat /\ MMAP_BASE <= mmap_start' /\ mmap_start' % PAGE = 0
        /\ mmap_start' <= MMAP_END
        /\ mmap_start' # MMAP_BASE => random_base = TRUE
    <3>1. CASE random_base
      <4>1. PICK x \in MMAP_BASE..(MMAP_END - 1) : mmap_start' = AlignUp(x)
        BY <1>6, <3>1 DEF ChooseStart
      <4>2. /\ x \in Nat /\ x <= MMAP_END /\ MMAP_BASE <= x
        BY <1>c, <4>1
      <4>3. /\ AlignUp(x) \in Nat /\ x <= AlignUp(x) /\ AlignUp(x) % PAGE = 0
            /\ AlignUp(x) <= MMAP_END
        BY <1>c, <4>2, AlignUpFacts
      <4> QED BY <1>c, <1>t, <3>1, <4>1, <4>2, <4>3
    <3>2. CASE ~ random_base
      BY <1>6, <1>c, <3>2 DEF ChooseStart
    <3> QED BY <3>1, <3>2
  <2>4. pc' = "rotate" => MMAP_BASE < mmap_start'
    BY <1>c, <2>1, <2>3
  <2>5. ~ InList(Fake)'
    BY <1>n, <2>1 DEF InList
  <2> QED BY <1>i, <2>1, <2>2, <2>3, <2>4, <2>5 DEF StartInv, Before, Placing
<1>7. CASE RotateWrap
  <2>1. /\ pc = "rotate" /\ pc' = "rotate" /\ UNCHANGED <<mmap_fin, random_base>>
        /\ j \in 1..Len(list)
        /\ mmap_start' = IF layend[list[j]] > mmap_start THEN AlignUp(layend[list[j]])
                                                          ELSE mmap_start
    BY <1>7, <1>s DEF RotateWrap, RotateMore, TypeInv, TypeOK
  <2>2. layend[list[j]] \in Nat
    BY <1>t, <2>1
  <2>3. mmap_start' \in Nat /\ mmap_start <= mmap_start' /\ mmap_start' % PAGE = 0
    <3>1. CASE layend[list[j]] > mmap_start
      <4>1. /\ AlignUp(layend[list[j]]) \in Nat /\ layend[list[j]] <= AlignUp(layend[list[j]])
            /\ AlignUp(layend[list[j]]) % PAGE = 0
        BY <2>2, AlignUpFacts
      <4> QED BY <1>t, <2>1, <2>2, <3>1, <4>1
    <3>2. CASE ~ (layend[list[j]] > mmap_start)
      BY <1>i, <1>t, <2>1, <3>2
    <3> QED BY <3>1, <3>2
  <2>4. Random = TRUE /\ MMAP_BASE < mmap_start'
    BY <1>i, <1>c, <1>t, <2>1, <2>3
  <2> QED BY <1>i, <1>c, <2>1, <2>3, <2>4 DEF StartInv, Before, Placing
<1>8. CASE RotateList
  <2>1. /\ pc = "rotate" /\ pc' = "fin" /\ UNCHANGED <<mmap_start, mmap_fin, random_base, wrapped>>
        /\ mmap_start < MMAP_END
    BY <1>8 DEF RotateList, region
  <2>2. InList(Fake)' => base'[Fake] = MMAP_END /\ layend'[Fake] = MMAP_END
    <3>1. CASE j \in 2..Len(list)
      BY <1>8, <1>c, <1>t, <3>1 DEF RotateList
    <3>2. CASE ~ (j \in 2..Len(list))
      BY <1>8, <1>n, <2>1, <3>2 DEF RotateList, InList
    <3> QED BY <3>1, <3>2
  <2>3. mmap_start # MMAP_BASE
    BY <1>i, <1>c, <1>t, <2>1
  <2> QED BY <1>i, <1>c, <1>t, <2>1, <2>2, <2>3 DEF StartInv, Before, Placing
<1>9. CASE RotateReset
  <2>1. /\ pc = "rotate" /\ pc' = "fin" /\ UNCHANGED <<mmap_fin, random_base, list>>
        /\ wrapped' = {} /\ mmap_start' = MMAP_BASE
    BY <1>9 DEF RotateReset
  <2>2. ~ InList(Fake)'
    BY <1>n, <2>1 DEF InList
  <2> QED BY <1>i, <1>c, <2>1, <2>2 DEF StartInv, Before, Placing
<1>10. CASE SetFin
  <2>1. /\ pc = "fin" /\ pc' = "pick"
        /\ UNCHANGED <<mmap_start, random_base, list, base, layend, wrapped>>
        /\ mmap_fin' = IF mmap_start # MMAP_BASE THEN MMAP_END + (mmap_start - MMAP_BASE)
                                                 ELSE mmap_fin
    BY <1>10 DEF SetFin, NewFin, slots
  <2>2. mmap_fin' = Top'
    BY <1>i, <1>c, <1>t, <2>1 DEF Top
  <2> QED BY <1>i, <2>1, <2>2 DEF StartInv, Before, Placing, InList
<1>11. CASE Place
  <2>1. /\ pc = "scan" /\ pc' = "pick" /\ UNCHANGED <<mmap_start, mmap_fin, random_base>>
        /\ wrapped' = IF cand >= MMAP_END /\ mmap_start # MMAP_BASE
                      THEN wrapped \union {cur} ELSE wrapped
        /\ base' = [base EXCEPT ![cur] = cand]
        /\ layend' = [layend EXCEPT ![cur] = cand + LaySize(cur)]
    BY <1>11 DEF Place, region
  <2>2. cur \in Slot /\ cur # Fake
    BY <1>s, <1>c, <1>11, PlaceFacts, LibFacts, ConstantFacts
  <2>3. base'[Fake] = base[Fake] /\ layend'[Fake] = layend[Fake]
    BY <1>c, <1>t, <2>1, <2>2
  <2>4. InList(Fake)' <=> InList(Fake)
    BY <1>s, <1>11, <2>2, PlaceMembers
  <2> QED BY <1>i, <2>1, <2>3, <2>4 DEF StartInv, Before, Placing, Top
<1>12. CASE Unwrap
  <2>1. pc' = "done" /\ UNCHANGED <<mmap_start, mmap_fin, random_base>>
    BY <1>12 DEF Unwrap, region
  <2> QED BY <1>i, <2>1 DEF StartInv, Before, Placing
<1>13. CASE UNCHANGED vars
  BY <1>i, <1>13 DEF vars, StartInv, Before, Placing, Top, InList
<1> QED
  BY <1>s, <1>2, <1>3, <1>4, <1>5, <1>6, <1>7, <1>8, <1>9, <1>10, <1>11, <1>12, <1>13,
     ConstantFacts
  DEF Next, Step, Terminating

LEMMA StepPageAligned ==
  TypeInv /\ ListInv /\ StartInv /\ PageAligned /\ [Next]_vars => PageAligned'
<1>s. SUFFICES ASSUME TypeInv, ListInv, StartInv, PageAligned, [Next]_vars
               PROVE  PageAligned'
  OBVIOUS
<1>0. Libs' = Libs /\ Libs \subseteq Lib /\ Libs \subseteq Slot
  BY <1>s, InputUnchanged, LibFacts, ConstantFacts
<1>a. pc # "find_libs" => \A l \in Libs : base[l] % PAGE = 0 /\ layend[l] % PAGE = 0
  BY <1>s DEF PageAligned
<1>v. /\ base \in [Slot -> Nat] /\ layend \in [Slot -> Nat]
      /\ \A l \in Libs : base[l] \in Nat /\ layend[l] \in Nat
  BY <1>s, <1>0 DEF TypeInv, TypeOK
<1>w. Width \in Nat /\ Width % PAGE = 0
  <2>1. /\ MMAP_BASE \in Nat /\ MMAP_END \in Nat /\ MMAP_BASE <= MMAP_END
        /\ MMAP_BASE % PAGE = 0 /\ MMAP_END % PAGE = 0
    BY LayoutAssumption
  <2>2. (MMAP_END - MMAP_BASE) % PAGE = 0
    BY <2>1, PageSum
  <2> QED BY <2>2, ConstantFacts DEF Width
<1>1. CASE FindLibs
  <2>1. /\ base' = [x \in Slot |-> IF Unaligned(x) THEN 0 ELSE base[x]]
        /\ layend' = [x \in Slot |->
                        IF x \in Libs THEN AlignUp(end'[x] + GAP) ELSE layend[x]]
        /\ pc' = "overlap"
    BY <1>1 DEF FindLibs
  <2>2. \A l \in Libs : l \in Slot /\ l \in Lib
    BY LibFacts, ConstantFacts
  <2>3. ASSUME NEW l \in Libs PROVE base'[l] % PAGE = 0
    <3>1. CASE Unaligned(l)
      <4>1. base'[l] = PAGE * 0 /\ 0 \in Nat
        BY <2>1, <2>2, <3>1, LayoutAssumption
      <4> QED BY <4>1, PageMultiple
    <3>2. CASE ~ Unaligned(l)
      BY <2>1, <2>2, <3>2 DEF Unaligned
    <3> QED BY <3>1, <3>2
  <2>4. ASSUME NEW l \in Libs PROVE layend'[l] % PAGE = 0
    <3>1. end'[l] + GAP \in Nat
      BY <1>s, <2>2, StepSlotShape, ConstantFacts DEF SlotTypes
    <3> QED BY <2>1, <2>2, <3>1, AlignUpFacts
  <2> QED BY <1>0, <2>1, <2>3, <2>4 DEF PageAligned
<1>2. CASE Place
  <2>1. (cand + LaySize(cur)) % PAGE = 0 /\ cand % PAGE = 0
    <3>1. LaySize(cur) % PAGE = 0
      BY <1>s, <1>2, <1>a, PlaceFacts, PageSum DEF LaySize
    <3>2. cand % PAGE = 0
      BY <1>s, <1>2, PlaceFacts DEF PageAligned
    <3> QED BY <1>s, <1>2, <3>1, <3>2, PlaceFacts, PageSum
  <2> QED BY <1>s, <1>0, <1>2, <1>a, <2>1, PlaceFacts DEF PageAligned
<1>3. CASE RotateWrap
  <2>1. /\ base' = [base EXCEPT ![list[j]] = @ + Width]
        /\ layend' = [layend EXCEPT ![list[j]] = @ + Width]
        /\ pc = "rotate" /\ pc' = "rotate"
    BY <1>3 DEF RotateWrap
  <2>2. ASSUME NEW l \in Libs PROVE base'[l] % PAGE = 0 /\ layend'[l] % PAGE = 0
    <3>1. (base[l] + Width) % PAGE = 0 /\ (layend[l] + Width) % PAGE = 0
      BY <1>a, <1>v, <1>w, <2>1, PageSum
    <3> QED BY <1>0, <1>a, <1>v, <2>1, <3>1
  <2> QED BY <1>0, <2>1, <2>2 DEF PageAligned
<1>4. CASE RotateReset \/ Unwrap
  <2>1. /\ base' = [x \in Slot |-> IF x \in wrapped THEN base[x] - Width ELSE base[x]]
        /\ \/ layend' = [x \in Slot |-> IF x \in wrapped THEN layend[x] - Width ELSE layend[x]]
           \/ layend' = layend
        /\ pc \in {"rotate", "pick"} /\ pc' # "scan"
    BY <1>4 DEF RotateReset, Unwrap, MovedBack
  <2>2. \A l \in Libs : l \in wrapped => Width <= base[l] /\ base[l] <= layend[l]
    <3>1. \A l \in Libs : end[l] \in Nat /\ base[l] <= end[l] /\ end[l] <= layend[l]
      BY <1>s, <1>0, <2>1 DEF TypeInv, TypeOK, SlotShape
    <3> QED BY <1>s, <1>v, <3>1 DEF TypeInv, SlotShape
  <2>3. ASSUME NEW l \in Libs PROVE base'[l] % PAGE = 0 /\ layend'[l] % PAGE = 0
    <3>1. base[l] % PAGE = 0 /\ layend[l] % PAGE = 0
      BY <1>a, <2>1
    <3>2. l \in wrapped => (base[l] - Width) % PAGE = 0 /\ (layend[l] - Width) % PAGE = 0
      <4>1. l \in wrapped => Width <= base[l] /\ Width <= layend[l]
        BY <1>v, <1>w, <2>2
      <4> QED BY <1>v, <1>w, <3>1, <4>1, PageSum
    <3> QED BY <1>0, <2>1, <3>1, <3>2
  <2> QED BY <1>0, <2>1, <2>3 DEF PageAligned
<1>5. CASE ~ (FindLibs \/ Place \/ RotateWrap \/ RotateReset \/ Unwrap)
  <2>1. \A l \in Libs : UNCHANGED <<base[l], layend[l]>>
    BY <1>s, <1>0, <1>5, SlotSteps
  <2>2. pc # "find_libs"  \/ UNCHANGED pc
    BY <1>s, <1>5
    DEF Next, Step, Terminating, vars, OverlapNext, OverlapKeep, OverlapDrop, OverlapEnd,
        Propagate, PropagateEnd, BuildList, ChooseStart, RotateList, SetFin, Pick, ScanNext,
        NotFound
  <2>3. ASSUME pc' = "scan" PROVE cand' % PAGE = 0
    <3>1. ASSUME NEW l \in Lib, Pick(l) PROVE cand' % PAGE = 0
      BY <1>s, <3>1 DEF Pick, StartInv
    <3>2. CASE ScanNext
      <4>1. cand % PAGE = 0 /\ pc = "scan" /\ j \in 1..Len(list)
        BY <1>s, <3>2 DEF ScanNext, PageAligned, TypeInv, TypeOK
      <4>2. CASE list[j] = Fake
        <5>1. layend[list[j]] = MMAP_END
          BY <1>s, <4>1, <4>2 DEF StartInv, Placing, InList
        <5> QED BY <3>2, <4>1, <5>1, LayoutAssumption DEF ScanNext, Behind
      <4>3. CASE list[j] \in Libs
        BY <1>a, <3>2, <4>1, <4>3 DEF ScanNext, Behind
      <4>4. list[j] = Fake \/ list[j] \in Libs
        BY <1>s, <4>1, LibFacts DEF ListInv, OrderInv
      <4> QED BY <4>2, <4>3, <4>4
    <3>3. CASE UNCHANGED vars
      BY <1>s, <2>3, <3>3 DEF vars, PageAligned
    <3> QED
      BY <1>s, <1>5, <2>3, <3>1, <3>2, <3>3
      DEF Next, Step, Terminating, OverlapNext, OverlapKeep, OverlapDrop, OverlapEnd,
          Propagate, PropagateEnd, BuildList, ChooseStart, RotateList, SetFin, NotFound
  <2> QED BY <1>0, <1>a, <2>1, <2>2, <2>3 DEF PageAligned
<1> QED BY <1>1, <1>2, <1>3, <1>4, <1>5

-----------------------------------------------------------------------------
(* What the list leaves out, and where the slots are.                      *)

(* A library whose slot is that of its file starts below the end of the    *)
(* region if all files do.                                                 *)
LEMMA HomeBelow ==
  ASSUME TypeInv, DiskInv, FileInv, Enclosed, Random = TRUE, pc # "find_libs"
  PROVE  \A l \in Libs : done[l] = 2 => Home(l) < MMAP_END
<1>1. \A l \in Lib : disk[l].base \in Bases
  BY DEF DiskInv
<1> QED BY <1>1, LibFacts DEF FileInv, Enclosed

LEMMA PlaceFits ==
  ASSUME TypeInv, ListInv, ScanShape, Place
  PROVE  /\ mmap_start <= cand
         /\ \A k \in 1..Len(list) :
              list[k] \in Considered(cur) => \/ layend[list[k]] <= cand
                                             \/ cand + LaySize(cur) <= base[list[k]]
         /\ \/ cand + LaySize(cur) <= mmap_fin
            \/ \E k \in 1..Len(list) : cand + LaySize(cur) <= base[list[k]]
<1>1. /\ list \in Seq(Slot) /\ j \in Nat \ {0}
      /\ \A a, b \in 1..Len(list) : a < b => base[list[a]] <= base[list[b]]
      /\ mmap_start <= cand
      /\ \A k \in 1..Len(list) :
           k < j /\ list[k] \in Considered(cur) => layend[list[k]] <= cand
  BY PlaceFacts DEF ListInv, OrderInv, ScanShape, TypeInv, TypeOK
<1>2. \A k \in 1..Len(list) : base[list[k]] \in Nat
  <2>1. base \in [Slot -> Nat]
    BY DEF TypeInv, TypeOK
  <2> QED BY <1>1, <2>1
<1>3. cand \in Nat /\ LaySize(cur) \in Nat
  BY PlaceFacts
<1>4. CASE Fits
  <2>1. j \in 1..Len(list) /\ cand + LaySize(cur) <= base[list[j]]
    BY <1>1, <1>4 DEF Fits
  <2>2. \A k \in 1..Len(list) : k >= j => base[list[j]] <= base[list[k]]
    BY <1>1, <1>2, <2>1
  <2>3. \A k \in 1..Len(list) : k >= j => cand + LaySize(cur) <= base[list[k]]
    BY <1>2, <1>3, <2>1, <2>2
  <2> QED BY <1>1, <2>1, <2>3
<1>5. CASE j > Len(list) /\ cand + LaySize(cur) <= mmap_fin
  BY <1>1, <1>5
<1> QED BY <1>4, <1>5 DEF Place, Room

(* The list that BuildList makes leaves out what lies below the region or  *)
(* above it.                                                               *)
LEMMA BuildListCovers ==
  ASSUME TypeInv, BuildList
  PROVE  \A l \in PlacedLibs :
           \/ \E k \in 1..Len(list') : list'[k] = l
           \/ layend[l] < MMAP_BASE
           \/ /\ base[l] >= MMAP_END
              /\ \A k \in 1..Len(list') : base[list'[k]] <= base[l]
<1>1. IsFiniteSet(PlacedLibs)
  BY LibSubsetsFinite, LibFacts
<1>2. PICK s \in Sorted(PlacedLibs, AddrLeq) :
        \E first \in 1..(Len(s) + 1) :
          \E last \in (IF first > Len(s) THEN {Len(s)} ELSE first..Len(s)) :
            Window(s, first, last) /\ list' = SubSeq(s, first, last)
  BY DEF BuildList, PlacedLibs
<1>3. /\ s \in Seq(PlacedLibs)
      /\ \A a, b \in 1..Len(s) : a < b => AddrLeq(s[a], s[b])
  <2>1. s \in Seq(PlacedLibs) /\ Len(s) = Cardinality(PlacedLibs)
    BY <1>1, SortedSeq
  <2>2. \A a, b \in 1..Cardinality(PlacedLibs) : a < b => AddrLeq(s[a], s[b])
    BY DEF Sorted
  <2> QED BY <2>1, <2>2
<1>4. \A l \in PlacedLibs : \E i \in 1..Len(s) : s[i] = l
  BY <1>1, SortedOnto
<1>5. PICK first \in 1..(Len(s) + 1) :
        \E last \in (IF first > Len(s) THEN {Len(s)} ELSE first..Len(s)) :
          Window(s, first, last) /\ list' = SubSeq(s, first, last)
  BY <1>2
<1>6. PICK last \in (IF first > Len(s) THEN {Len(s)} ELSE first..Len(s)) :
        Window(s, first, last) /\ list' = SubSeq(s, first, last)
  BY <1>5
<1>7. /\ first \in Nat \ {0} /\ last \in Nat /\ Len(s) \in Nat /\ last <= Len(s)
      /\ first <= Len(s) => first <= last
      /\ first > Len(s) => first = Len(s) + 1 /\ last = Len(s)
  BY <1>3, <1>5, <1>6
<1>8. \A i \in 1..Len(s) : s[i] \in Libs /\ base[s[i]] \in Nat /\ layend[s[i]] \in Nat
  <2>1. base \in [Slot -> Nat] /\ layend \in [Slot -> Nat] /\ Libs \subseteq Slot
    BY LibFacts, ConstantFacts DEF TypeInv, TypeOK
  <2> QED BY <1>3, <2>1, LibFacts
<1>9. \A a, b \in 1..Len(s) : a <= b => base[s[a]] <= base[s[b]]
  BY <1>3, <1>8, AddrLeqBase
<1>10. \A i \in first..last : s[i] \in PlacedLibs
  BY <1>3, <1>7
<1>11. /\ list' \in Seq(PlacedLibs)
       /\ Len(list') = IF first <= last THEN last - first + 1 ELSE 0
       /\ \A i \in 1..(last - first + 1) : list'[i] = s[first + i - 1]
  BY <1>6, <1>7, <1>10, SubSeqProperties
<1>12. SUFFICES ASSUME NEW l \in PlacedLibs
                PROVE  \/ \E k \in 1..Len(list') : list'[k] = l
                       \/ layend[l] < MMAP_BASE
                       \/ /\ base[l] >= MMAP_END
                          /\ \A k \in 1..Len(list') : base[list'[k]] <= base[l]
  OBVIOUS
<1>13. PICK i \in 1..Len(s) : s[i] = l
  BY <1>4
<1>14. CASE i < first
  <2>1. i \in 1..(first - 1)
    BY <1>7, <1>13, <1>14
  <2>2. \A k \in 1..(first - 1) : layend[s[k]] < MMAP_BASE
    BY <1>6 DEF Window
  <2> QED BY <1>13, <2>1, <2>2
<1>15. CASE first <= i /\ i <= last
  <2>1. i - first + 1 \in 1..Len(list') /\ list'[i - first + 1] = s[i]
    BY <1>7, <1>11, <1>13, <1>15
  <2> QED BY <1>13, <2>1
<1>16. CASE last < i
  <2>1. last + 1 \in (first + 1)..Len(s)
    BY <1>7, <1>13, <1>16
  <2>2. base[s[last + 1]] >= MMAP_END
    BY <1>6, <2>1 DEF Window
  <2>3. base[s[last + 1]] <= base[s[i]]
    BY <1>7, <1>9, <1>13, <1>16, <2>1
  <2>4. base[l] >= MMAP_END
    BY <1>8, <1>7, <1>13, <2>1, <2>2, <2>3, ConstantFacts
  <2>5. ASSUME NEW k \in 1..Len(list') PROVE base[list'[k]] <= base[l]
    <3>1. first + k - 1 \in 1..Len(s) /\ first + k - 1 <= i
          /\ list'[k] = s[first + k - 1]
      BY <1>7, <1>11, <1>13, <1>16
    <3> QED BY <1>9, <1>13, <3>1
  <2> QED BY <2>4, <2>5
<1> QED BY <1>7, <1>13, <1>14, <1>15, <1>16

LEMMA StepCovering ==
  ASSUME Enclosed
  PROVE  TypeInv /\ ListInv /\ FileInv /\ PlacementInv /\ [Next]_vars => Covering'
<1>s. SUFFICES ASSUME TypeInv, ListInv, FileInv, PlacementInv, [Next]_vars
               PROVE  Covering'
  OBVIOUS
<1>i. DiskInv /\ StartInv /\ Covering /\ ScanShape /\ NewSlotsApart
  BY <1>s DEF PlacementInv
<1>0. Libs' = Libs /\ Libs \subseteq Lib /\ Libs \subseteq Slot /\ PlacedLibs \subseteq Libs
  BY <1>s, InputUnchanged, LibFacts, ConstantFacts
<1>p. done' = done => PlacedLibs' = PlacedLibs
  BY <1>0 DEF PlacedLibs
<1>v. /\ base \in [Slot -> Nat] /\ layend \in [Slot -> Nat]
      /\ \A l \in Libs : base[l] \in Nat /\ layend[l] \in Nat
  BY <1>s, <1>0 DEF TypeInv, TypeOK
<1>l. pc \in {"start", "rotate"} \/ Placing =>
        \A l \in PlacedLibs : \/ InList(l)
                              \/ layend[l] < MMAP_BASE
                              \/ Random = FALSE /\ Above(l)
  BY <1>i DEF Covering
<1>1. CASE /\ pc \in {"start", "rotate"} \/ Placing
           /\ UNCHANGED <<list, done, base, layend>>
  BY <1>l, <1>p, <1>1 DEF Covering, InList, Above
<1>2. CASE BuildList
  <2>1. UNCHANGED <<done, base, layend>> /\ pc = "list"
    BY <1>2 DEF BuildList, slots
  <2>2. ASSUME NEW l \in PlacedLibs
        PROVE  InList(l)' \/ layend'[l] < MMAP_BASE \/ (Random = FALSE /\ Above(l)')
    <3>1. InList(l)' \/ layend'[l] < MMAP_BASE \/ Above(l)'
      BY <1>s, <1>2, <2>1, BuildListCovers DEF InList, Above
    <3>2. CASE Random = TRUE /\ Above(l)'
      <4>1. l \in Libs /\ done[l] = 2
        BY <1>s, <1>0, <1>i, <2>1, ConstantFacts
        DEF PlacedLibs, NewSlotsApart, Before, TypeInv, TypeOK
      <4>2. Home(l) < MMAP_END /\ Home(l) = base[l]
        BY <1>s, <1>i, <2>1, <3>2, <4>1, HomeBelow DEF TypeInv, SlotShape, Home
      <4> QED BY <1>v, <2>1, <3>2, <4>1, <4>2, ConstantFacts DEF Above
    <3>3. Random = TRUE \/ Random = FALSE
      BY LayoutAssumption
    <3> QED BY <3>1, <3>2, <3>3
  <2> QED BY <1>p, <2>1, <2>2 DEF Covering
<1>3. CASE Place
  <2>1. /\ PlacedLibs' = PlacedLibs \union {cur} /\ cur \notin PlacedLibs /\ cur \in Libs
        /\ pc = "scan"
        /\ \A l \in Libs : l # cur => base'[l] = base[l] /\ layend'[l] = layend[l]
        /\ base'[cur] = cand /\ cand \in Nat /\ LaySize(cur) \in Nat
    BY <1>s, <1>3, PlaceFacts DEF PlacedLibs
  <2>2. \A x : InList(x)' <=> InList(x) \/ x = cur
    BY <1>s, <1>3, PlaceMembers
  <2>3. ASSUME NEW l \in PlacedLibs, Random = FALSE, Above(l) PROVE Above(l)'
    <3>1. l \in Libs /\ l # cur /\ base'[l] = base[l] /\ base[l] \in Nat /\ base[l] >= MMAP_END
          /\ \A k \in 1..Len(list) : base[list[k]] <= base[l]
      BY <1>0, <1>v, <2>1, <2>3 DEF Above
    <3>2. mmap_start = MMAP_BASE /\ mmap_fin = MMAP_END /\ ~ InList(Fake)
      BY <1>i, <2>1, <2>3, ConstantFacts DEF StartInv, Top, Placing, Width
    <3>3. \A k \in 1..Len(list) : list[k] \in PlacedLibs /\ base[list[k]] \in Nat
      BY <1>s, <1>0, <1>v, <2>1, <3>2 DEF ListInv, OrderInv, InList
    <3>4. cand <= base[l]
      <4>1. \/ cand + LaySize(cur) <= mmap_fin
            \/ \E k \in 1..Len(list) : cand + LaySize(cur) <= base[list[k]]
        BY <1>s, <1>3, <1>i, PlaceFits
      <4> QED BY <2>1, <3>1, <3>2, <3>3, <4>1, ConstantFacts
    <3>5. ASSUME NEW k \in 1..Len(list') PROVE base'[list'[k]] <= base'[l]
      <4>1. list'[k] = cur \/ \E i \in 1..Len(list) : list'[k] = list[i]
        BY <2>2 DEF InList
      <4>2. CASE list'[k] = cur
        BY <2>1, <3>1, <3>4, <4>2
      <4>3. ASSUME NEW i \in 1..Len(list), list'[k] = list[i]
            PROVE  base'[list'[k]] <= base'[l]
        <5>1. base'[list[i]] = base[list[i]]
          BY <1>0, <2>1, <3>3
        <5> QED BY <3>1, <4>3, <5>1
      <4> QED BY <4>1, <4>2, <4>3
    <3> QED BY <3>1, <3>5 DEF Above
  <2>4. ASSUME NEW l \in PlacedLibs'
        PROVE  InList(l)' \/ layend'[l] < MMAP_BASE \/ (Random = FALSE /\ Above(l)')
    <3>1. CASE l = cur
      BY <2>2, <3>1 DEF InList
    <3>2. CASE l # cur
      <4>1. l \in PlacedLibs /\ l \in Libs
        BY <1>0, <2>1, <3>2
      <4>2. InList(l) \/ layend[l] < MMAP_BASE \/ (Random = FALSE /\ Above(l))
        BY <1>l, <2>1, <4>1 DEF Placing, InList, Above
      <4>3. CASE InList(l)
        BY <2>2, <4>3 DEF InList
      <4>4. CASE layend[l] < MMAP_BASE
        BY <2>1, <3>2, <4>1, <4>4
      <4>5. CASE Random = FALSE /\ Above(l)
        BY <2>3, <4>1, <4>5
      <4> QED BY <4>2, <4>3, <4>4, <4>5
    <3> QED BY <3>1, <3>2
  <2> QED BY <2>4 DEF Covering
<1>4. CASE RotateWrap \/ RotateList \/ RotateReset
  <2>1. pc = "rotate" /\ done' = done /\ Random = TRUE
    <3>1. pc = "rotate" /\ done' = done
      BY <1>4 DEF RotateWrap, RotateList, RotateReset
    <3>2. mmap_start # MMAP_BASE
      BY <1>s, <1>i, <3>1, ConstantFacts DEF StartInv, TypeInv, TypeOK
    <3> QED BY <1>i, <3>1, <3>2 DEF StartInv
  <2>2. Random # FALSE
    BY <2>1
  <2>3. ASSUME NEW l \in PlacedLibs, ~ InList(l) PROVE layend'[l] < MMAP_BASE
    <3>1. layend[l] < MMAP_BASE /\ l \in Lib /\ l \in Slot /\ layend[l] \in Nat
      BY <1>0, <1>l, <1>v, <2>1, <2>2, <2>3
    <3>2. CASE RotateWrap
      <4>1. list[j] # l
        BY <1>s, <2>3, <3>2 DEF RotateWrap, RotateMore, InList, TypeInv, TypeOK
      <4> QED BY <1>v, <3>1, <3>2, <4>1 DEF RotateWrap
    <3>3. CASE RotateList
      BY <1>v, <3>1, <3>3, ConstantFacts DEF RotateList, slots
    <3>4. CASE RotateReset
      <4>1. layend'[l] = layend[l] \/ layend'[l] = layend[l] - Width
        BY <3>1, <3>4 DEF RotateReset, MovedBack
      <4> QED BY <3>1, <4>1, ConstantFacts
    <3> QED BY <1>4, <3>2, <3>3, <3>4
  <2>4. ASSUME NEW l \in PlacedLibs, InList(l) PROVE InList(l)'
    <3>1. CASE RotateList
      BY <1>s, <1>0, <2>4, <3>1, RotateMembers
    <3>2. CASE list' = list
      BY <2>4, <3>2 DEF InList
    <3> QED BY <1>4, <3>1, <3>2 DEF RotateWrap, RotateReset
  <2> QED BY <1>p, <2>1, <2>3, <2>4 DEF Covering
<1>5. CASE ChooseStart \/ SetFin \/ ScanNext
  BY <1>1, <1>5 DEF ChooseStart, SetFin, ScanNext, Placing, slots
<1>6. ASSUME NEW l \in Lib, Pick(l) PROVE Covering'
  BY <1>1, <1>6 DEF Pick, Placing, slots
<1>7. CASE FindLibs \/ OverlapKeep \/ OverlapDrop \/ OverlapEnd \/ PropagateEnd
           \/ NotFound \/ Unwrap
  BY <1>7 DEF FindLibs, OverlapKeep, OverlapDrop, OverlapEnd, PropagateEnd, NotFound,
              Unwrap, Covering, Placing
<1>8. ASSUME NEW x \in Ent, OverlapNext(x) \/ Propagate(x) PROVE Covering'
  BY <1>8 DEF OverlapNext, Propagate, Covering, Placing
<1>9. CASE UNCHANGED vars
  BY <1>i, <1>1, <1>9 DEF vars, Covering, Placing
<1> QED
  BY <1>s, <1>2, <1>3, <1>4, <1>5, <1>6, <1>7, <1>8, <1>9, ConstantFacts
  DEF Next, Step, Terminating

LEMMA RotateListSides ==
  ASSUME Enclosed, TypeInv, ListInv, FileInv, PlacementInv, RotateList
  PROVE  \A l \in PlacedLibs :
           /\ l \in wrapped => MMAP_END <= base[l] /\ layend[l] <= Top
           /\ l \notin wrapped => /\ base[l] < MMAP_END
                                  /\ layend[l] < MMAP_BASE \/ mmap_start <= base[l]
<1>i. DiskInv /\ StartInv /\ Covering /\ NewSlotsApart
      /\ (pc = "rotate" => /\ \A l \in wrapped : InList(l)
                           /\ \A k \in 1..Len(list) : k < j => layend[list[k]] <= Top)
  BY DEF PlacementInv, Sides
<1>1. /\ pc = "rotate" /\ random_base = TRUE /\ Random = TRUE /\ Random # FALSE
      /\ j \in Nat /\ Len(list) \in Nat /\ mmap_start \in Nat
      /\ \A k \in 1..Len(list) : list[k] \in wrapped <=> k < j
      /\ \A a, b \in 1..Len(list) : a < b => Home(list[a]) <= Home(list[b])
      /\ \A k \in 1..Len(list) : MMAP_BASE <= Home(list[k])
      /\ j <= Len(list) => ~ (base[list[j]] < mmap_start)
  <2>1. pc = "rotate" /\ (j <= Len(list) => ~ (base[list[j]] < mmap_start))
    BY DEF RotateList, RotateMore
  <2>2. j \in Nat /\ list \in Seq(Slot) /\ mmap_start \in Nat
    BY DEF TypeInv, TypeOK
  <2>3. random_base = TRUE /\ \A k \in 1..Len(list) : list[k] \in wrapped <=> k < j
    BY <2>1 DEF ListInv, RotateInv
  <2>4. /\ \A a, b \in 1..Len(list) : a < b => Home(list[a]) <= Home(list[b])
        /\ \A k \in 1..Len(list) : MMAP_BASE <= Home(list[k])
    BY <2>1, <2>3 DEF ListInv, RawListInv
  <2>5. Random = TRUE
    BY <1>i, <2>3 DEF StartInv
  <2>6. Len(list) \in Nat
    BY <2>2
  <2> QED BY <2>1, <2>2, <2>3, <2>4, <2>5, <2>6
<1>2. \A l \in PlacedLibs : /\ l \in Libs /\ base[l] \in Nat /\ layend[l] \in Nat
                            /\ base[l] <= layend[l]
  <2>1. /\ base \in [Slot -> Nat] /\ layend \in [Slot -> Nat] /\ end \in [Slot -> Nat]
        /\ PlacedLibs \subseteq Libs /\ Libs \subseteq Slot /\ Libs \subseteq Lib
    BY LibFacts, ConstantFacts DEF TypeInv, TypeOK
  <2>2. \A l \in Libs : base[l] <= end[l] /\ end[l] <= layend[l]
    BY <1>1, <2>1 DEF TypeInv, SlotShape
  <2> QED BY <2>1, <2>2
<1>3. \A l \in PlacedLibs : Home(l) < MMAP_END
  <2>1. \A l \in PlacedLibs : done[l] = 2
    BY <1>i, <1>1, <1>2, LibFacts, ConstantFacts
    DEF NewSlotsApart, PlacedLibs, TypeInv, TypeOK
  <2> QED BY <1>i, <1>1, <1>2, <2>1, HomeBelow
<1>4. list \in Seq(PlacedLibs)
  BY <1>1 DEF TypeInv, LoopShape
<1>5. ASSUME NEW k \in 1..Len(list), k < j
      PROVE  list[k] \in wrapped /\ MMAP_END <= base[list[k]] /\ layend[list[k]] <= Top
  <2>1. list[k] \in wrapped /\ MMAP_BASE <= Home(list[k]) /\ layend[list[k]] <= Top
    BY <1>i, <1>1, <1>5
  <2>2. Home(list[k]) = base[list[k]] - Width /\ base[list[k]] \in Nat
    BY <1>2, <1>4, <2>1 DEF Home
  <2> QED BY <2>1, <2>2, ConstantFacts DEF Width
<1>6. ASSUME NEW k \in 1..Len(list), ~ (k < j)
      PROVE  list[k] \notin wrapped /\ base[list[k]] < MMAP_END /\ mmap_start <= base[list[k]]
  <2>1. list[k] \notin wrapped /\ Home(list[k]) = base[list[k]]
    BY <1>1, <1>6 DEF Home
  <2>2. j \in 1..Len(list) /\ (j = k \/ j < k)
    <3>1. j \in Nat \ {0}
      BY DEF TypeInv, TypeOK
    <3>2. k \in Nat /\ k <= Len(list) /\ j <= k
      BY <1>1, <1>6
    <3> QED BY <1>1, <3>1, <3>2
  <2>3. Home(list[j]) = base[list[j]] /\ base[list[j]] \in Nat /\ base[list[k]] \in Nat
    BY <1>1, <1>2, <1>4, <2>2 DEF Home
  <2>4. base[list[j]] <= base[list[k]]
    BY <1>1, <2>1, <2>2, <2>3
  <2>5. mmap_start <= base[list[j]]
    BY <1>1, <2>2, <2>3
  <2> QED BY <1>1, <1>3, <1>4, <2>1, <2>3, <2>4, <2>5
<1>7. SUFFICES ASSUME NEW l \in PlacedLibs
               PROVE  /\ l \in wrapped => MMAP_END <= base[l] /\ layend[l] <= Top
                      /\ l \notin wrapped => /\ base[l] < MMAP_END
                                             /\ layend[l] < MMAP_BASE \/ mmap_start <= base[l]
  OBVIOUS
<1>8. CASE InList(l)
  <2>1. PICK k \in 1..Len(list) : list[k] = l
    BY <1>8 DEF InList
  <2> QED BY <1>5, <1>6, <2>1
<1>9. CASE ~ InList(l)
  <2>1. l \notin wrapped /\ layend[l] < MMAP_BASE
    BY <1>i, <1>1, <1>9 DEF Covering
  <2> QED BY <1>2, <2>1, ConstantFacts
<1> QED BY <1>8, <1>9

LEMMA StepSides ==
  ASSUME Enclosed
  PROVE  TypeInv /\ ListInv /\ FileInv /\ PlacementInv /\ [Next]_vars => Sides'
<1>s. SUFFICES ASSUME TypeInv, ListInv, FileInv, PlacementInv, [Next]_vars
               PROVE  Sides'
  OBVIOUS
<1>i. DiskInv /\ StartInv /\ Covering /\ Sides /\ ScanShape /\ NewSlotsApart
  BY <1>s DEF PlacementInv
<1>0. Libs' = Libs /\ Libs \subseteq Lib /\ Libs \subseteq Slot /\ PlacedLibs \subseteq Libs
  BY <1>s, InputUnchanged, LibFacts, ConstantFacts
<1>p. done' = done => PlacedLibs' = PlacedLibs
  BY <1>0 DEF PlacedLibs
<1>v. /\ base \in [Slot -> Nat] /\ layend \in [Slot -> Nat] /\ mmap_start \in Nat
      /\ \A l \in Libs : base[l] \in Nat /\ layend[l] \in Nat
  BY <1>s, <1>0 DEF TypeInv, TypeOK
<1>b. pc # "find_libs" => \A l \in Libs : base[l] <= layend[l]
  <2>1. \A l \in Libs : end[l] \in Nat
    BY <1>s, <1>0 DEF TypeInv, TypeOK
  <2> QED BY <1>s, <1>0, <1>v, <2>1 DEF TypeInv, SlotShape
<1>1. CASE /\ UNCHANGED <<list, done, mmap_start, wrapped, j>> /\ pc' = pc
           /\ \A l \in Lib : UNCHANGED <<base[l], layend[l]>>
  <2>1. pc = "rotate" => \A k \in 1..Len(list) : list[k] \in Lib
    BY <1>s, <1>0 DEF TypeInv, LoopShape
  <2> QED BY <1>i, <1>0, <1>p, <1>1, <2>1 DEF Sides, Placing, Top, InList
<1>2. CASE /\ UNCHANGED <<done, mmap_start, wrapped, base, layend>>
           /\ Placing /\ Placing'
  BY <1>i, <1>p, <1>2 DEF Sides, Placing, Top
<1>3. CASE ChooseStart
  <2>1. /\ pc = "start" /\ UNCHANGED <<done, list, base, layend, wrapped, random_base>> /\ j' = 1
        /\ wrapped = {}
        /\ pc' = "rotate" \/ (pc' = "fin" /\ (mmap_start' = MMAP_BASE \/ list = << >>))
        /\ mmap_start' # MMAP_BASE => random_base = TRUE
    BY <1>3, <1>s DEF ChooseStart, slots, TypeInv, TypeOK, SlotShape
  <2>2. CASE pc' = "rotate"
    BY <2>1, <2>2 DEF Sides, Placing
  <2>3. CASE pc' = "fin" /\ mmap_start' = MMAP_BASE
    BY <2>3 DEF Sides, Placing
  <2>4. CASE pc' = "fin" /\ mmap_start' # MMAP_BASE /\ list = << >>
    <3>1. Random = TRUE /\ Random # FALSE
      BY <1>i, <2>1, <2>4 DEF StartInv
    <3>2. \A l \in PlacedLibs : layend[l] < MMAP_BASE
      BY <1>i, <2>1, <2>4, <3>1 DEF Covering, InList
    <3>3. \A l \in PlacedLibs : base[l] < MMAP_END
      BY <1>0, <1>b, <1>v, <2>1, <3>2, ConstantFacts
    <3> QED BY <1>p, <2>1, <2>4, <3>2, <3>3 DEF Sides, Placing
  <2> QED BY <2>1, <2>2, <2>3, <2>4
<1>4. CASE RotateWrap
  <2> DEFINE e == list[j]
  <2>1. /\ pc = "rotate" /\ pc' = "rotate" /\ list' = list /\ j' = j + 1
        /\ j \in 1..Len(list) /\ Len(list) \in Nat
        /\ mmap_start' = IF layend[e] > mmap_start THEN AlignUp(layend[e]) ELSE mmap_start
        /\ layend' = [layend EXCEPT ![e] = @ + Width]
        /\ wrapped' = wrapped \union {e}
        /\ list \in Seq(PlacedLibs)
    BY <1>4, <1>s DEF RotateWrap, RotateMore, TypeInv, TypeOK, LoopShape
  <2>2. \A a, b \in 1..Len(list) : a # b => list[a] # list[b]
    BY <1>s, <2>1 DEF ListInv, RawListInv
  <2>3. \A k \in 1..Len(list) : list[k] \in Slot /\ layend[list[k]] \in Nat
    BY <1>0, <1>v, <2>1
  <2>4. mmap_start' \in Nat /\ mmap_start <= mmap_start' /\ layend[e] <= mmap_start'
    <3>1. layend[e] \in Nat
      BY <2>1, <2>3
    <3>2. AlignUp(layend[e]) \in Nat /\ layend[e] <= AlignUp(layend[e])
      BY <3>1, AlignUpFacts
    <3> HIDE DEF e
    <3> QED BY <1>v, <2>1, <3>1, <3>2
  <2>5. \A l \in wrapped' : InList(l)'
    BY <1>i, <2>1 DEF Sides, InList
  <2>6. ASSUME NEW k \in 1..Len(list), k < j + 1 PROVE layend'[list[k]] <= mmap_start' + Width
    <3>1. CASE k = j
      BY <2>1, <2>3, <2>4, <3>1, ConstantFacts
    <3>2. CASE k < j
      <4>1. layend'[list[k]] = layend[list[k]] /\ layend[list[k]] <= mmap_start + Width
        BY <1>i, <1>v, <2>1, <2>2, <2>3, <3>2 DEF Sides, Top
      <4> QED BY <1>v, <2>3, <2>4, <4>1, ConstantFacts
    <3> QED BY <2>1, <2>6, <3>1, <3>2
  <2> HIDE DEF e
  <2> QED BY <2>1, <2>5, <2>6 DEF Sides, Placing, Top
<1>5. CASE RotateList
  <2>1. \A l \in PlacedLibs :
          /\ l \in wrapped => MMAP_END <= base[l] /\ layend[l] <= Top
          /\ l \notin wrapped => /\ base[l] < MMAP_END
                                 /\ layend[l] < MMAP_BASE \/ mmap_start <= base[l]
    BY <1>s, <1>5, RotateListSides
  <2>2. /\ pc' = "fin" /\ UNCHANGED <<done, wrapped, mmap_start>>
        /\ \A l \in PlacedLibs : base'[l] = base[l] /\ layend'[l] = layend[l]
    BY <1>0, <1>v, <1>5, ConstantFacts DEF RotateList, slots, region
  <2> QED BY <1>p, <2>1, <2>2 DEF Sides, Placing, Top
<1>6. CASE RotateReset
  BY <1>6 DEF RotateReset, Sides, Placing
<1>7. CASE SetFin \/ ScanNext
  BY <1>2, <1>7 DEF SetFin, ScanNext, Placing, slots, region
<1>8. ASSUME NEW l \in Lib, Pick(l) PROVE Sides'
  BY <1>2, <1>8 DEF Pick, Placing, slots, region
<1>9. CASE Place
  <2>1. /\ PlacedLibs' = PlacedLibs \union {cur} /\ cur \notin PlacedLibs /\ cur \in Libs
        /\ pc = "scan" /\ pc' = "pick"
        /\ \A l \in Libs : l # cur => base'[l] = base[l] /\ layend'[l] = layend[l]
        /\ base'[cur] = cand /\ cand \in Nat /\ LaySize(cur) \in Nat
        /\ layend'[cur] = cand + LaySize(cur)
    BY <1>s, <1>9, PlaceFacts DEF PlacedLibs
  <2>2. /\ mmap_start' = mmap_start
        /\ wrapped' = IF cand >= MMAP_END /\ mmap_start # MMAP_BASE
                      THEN wrapped \union {cur} ELSE wrapped
    BY <1>9 DEF Place, region
  <2>3. wrapped \subseteq PlacedLibs
    BY <1>s DEF TypeInv, SlotShape
  <2>4. CASE mmap_start = MMAP_BASE
    BY <2>1, <2>2, <2>4 DEF Sides, Placing
  <2>5. CASE mmap_start # MMAP_BASE
    <3>1. \A l \in PlacedLibs :
            /\ l \in wrapped => MMAP_END <= base[l] /\ layend[l] <= Top
            /\ l \notin wrapped => /\ base[l] < MMAP_END
                                   /\ layend[l] < MMAP_BASE \/ mmap_start <= base[l]
      BY <1>i, <2>1, <2>5 DEF Sides, Placing
    <3>2. Top \in Nat /\ MMAP_END <= Top /\ Top' = Top
      BY <1>i, <1>v, <2>2, ConstantFacts DEF StartInv, Top, Width
    <3>3. \A k \in 1..Len(list) : base[list[k]] \in Nat /\ base[list[k]] <= Top
      <4>1. ASSUME NEW k \in 1..Len(list) PROVE base[list[k]] \in Nat /\ base[list[k]] <= Top
        <5>1. list[k] \in PlacedLibs \/ list[k] = Fake
          BY <1>s, <2>1 DEF ListInv, OrderInv
        <5>2. CASE list[k] = Fake
          BY <1>i, <2>1, <3>2, <5>2, ConstantFacts DEF StartInv, Placing, InList
        <5>3. CASE list[k] \in PlacedLibs
          <6>1. /\ base[list[k]] \in Nat /\ layend[list[k]] \in Nat
                /\ base[list[k]] <= layend[list[k]]
            BY <1>0, <1>b, <1>v, <2>1, <5>3
          <6>2. layend[list[k]] <= Top \/ base[list[k]] < MMAP_END
            BY <3>1, <5>3
          <6> QED BY <3>2, <6>1, <6>2, ConstantFacts
        <5> QED BY <5>1, <5>2, <5>3
      <4> QED BY <4>1
    <3>4. cand + LaySize(cur) <= Top /\ mmap_start <= cand
      <4>1. /\ mmap_start <= cand
            /\ \/ cand + LaySize(cur) <= mmap_fin
               \/ \E k \in 1..Len(list) : cand + LaySize(cur) <= base[list[k]]
        <5>1. TypeInv /\ ListInv /\ ScanShape /\ Place
          BY <1>s, <1>9, <1>i
        <5> QED BY <5>1, PlaceFits
      <4>2. mmap_fin = Top
        BY <1>i, <2>1 DEF StartInv
      <4> QED BY <2>1, <3>2, <3>3, <4>1, <4>2
    <3>5. /\ cur \in wrapped' => MMAP_END <= base'[cur] /\ layend'[cur] <= Top'
          /\ cur \notin wrapped' => base'[cur] < MMAP_END /\ mmap_start' <= base'[cur]
      BY <2>1, <2>2, <2>3, <2>5, <3>2, <3>4, ConstantFacts
    <3>6. \A l \in PlacedLibs : /\ l \in wrapped' <=> l \in wrapped
                                /\ base'[l] = base[l] /\ layend'[l] = layend[l]
      BY <1>0, <2>1, <2>2
    <3> QED BY <2>1, <2>2, <3>1, <3>2, <3>5, <3>6 DEF Sides, Placing
  <2> QED BY <2>4, <2>5
<1>10. CASE FindLibs \/ OverlapKeep \/ OverlapDrop \/ OverlapEnd \/ PropagateEnd
            \/ BuildList \/ NotFound \/ Unwrap
  BY <1>10 DEF FindLibs, OverlapKeep, OverlapDrop, OverlapEnd, PropagateEnd, BuildList,
               NotFound, Unwrap, Sides, Placing
<1>11. ASSUME NEW x \in Ent, OverlapNext(x) \/ Propagate(x) PROVE Sides'
  BY <1>11 DEF OverlapNext, Propagate, Sides, Placing
<1>12. CASE UNCHANGED vars
  BY <1>1, <1>12 DEF vars
<1> QED
  BY <1>s, <1>3, <1>4, <1>5, <1>6, <1>7, <1>8, <1>9, <1>10, <1>11, <1>12, ConstantFacts
  DEF Next, Step, Terminating

(* The scan moves past an entry that counts only when the candidate is not *)
(* below its end, or is moved there.                                       *)
LEMMA StepScanShape ==
  TypeInv /\ ScanShape /\ StartInv /\ [Next]_vars => ScanShape'
<1>s. SUFFICES ASSUME TypeInv, ScanShape, StartInv, [Next]_vars PROVE ScanShape'
  OBVIOUS
<1>1. ASSUME NEW l \in Lib, Pick(l) PROVE ScanShape'
  <2>1. cand' = mmap_start /\ j' = 1 /\ mmap_start' = mmap_start /\ mmap_start \in Nat
    BY <1>s, <1>1 DEF Pick, region, TypeInv, TypeOK
  <2> QED BY <2>1 DEF ScanShape
<1>2. CASE ScanNext
  <2>1. /\ pc = "scan" /\ list' = list /\ layend' = layend /\ j' = j + 1 /\ cur' = cur
        /\ j <= Len(list) /\ mmap_start' = mmap_start
        /\ cand' = IF list[j] \in Considered(cur) /\ cand < layend[list[j]]
                   THEN layend[list[j]] ELSE cand
    BY <1>2 DEF ScanNext, Behind, slots, region
  <2>2. /\ j \in Nat \ {0} /\ list \in Seq(Slot) /\ cand \in Nat /\ mmap_start \in Nat
        /\ layend \in [Slot -> Nat] /\ cur \in Lib
        /\ mmap_start <= cand
        /\ \A k \in 1..Len(list) :
             k < j /\ list[k] \in Considered(cur) => layend[list[k]] <= cand
    BY <1>s, <2>1, LibFacts DEF TypeInv, TypeOK, LoopShape, ScanShape
  <2>3. \A k \in 1..Len(list) : layend[list[k]] \in Nat
    BY <2>2
  <2>4. /\ cand' \in Nat /\ cand <= cand'
        /\ list[j] \in Considered(cur) => layend[list[j]] <= cand'
    BY <2>1, <2>2, <2>3
  <2>5. Considered(cur)' = Considered(cur)
    BY <1>s, <2>1, InputUnchanged DEF Considered
  <2>6. ASSUME NEW k \in 1..Len(list), k < j + 1, list[k] \in Considered(cur)
        PROVE  layend[list[k]] <= cand'
    <3>1. k = j \/ k < j
      BY <2>2, <2>6
    <3>2. CASE k = j
      BY <2>4, <2>6, <3>2
    <3>3. CASE k < j
      BY <2>2, <2>3, <2>4, <2>6, <3>3
    <3> QED BY <3>1, <3>2, <3>3
  <2>7. mmap_start' <= cand'
    BY <2>1, <2>2, <2>4
  <2> QED BY <2>1, <2>5, <2>6, <2>7 DEF ScanShape
<1>3. CASE UNCHANGED vars
  <2>1. Considered(cur)' = Considered(cur)
    BY <1>3 DEF vars, Considered, Binlibs
  <2> QED BY <1>s, <1>3, <2>1 DEF vars, ScanShape
<1>4. CASE pc' # "scan"
  BY <1>4 DEF ScanShape
<1>5. \/ pc' # "scan" \/ ScanNext \/ UNCHANGED vars
      \/ \E l \in Lib : Pick(l)
  BY <1>s
  DEF Next, Step, Terminating, FindLibs, OverlapNext, OverlapKeep, OverlapDrop,
      OverlapEnd, Propagate, PropagateEnd, BuildList, ChooseStart, RotateWrap,
      RotateList, RotateReset, SetFin, Place, NotFound, Unwrap
<1> QED BY <1>1, <1>2, <1>3, <1>4, <1>5

-----------------------------------------------------------------------------
(* The new slots.                                                          *)

(* A new slot is apart from every other slot that counts, also from those  *)
(* that are not in the list.                                               *)
LEMMA PlaceApart ==
  ASSUME Enclosed, TypeInv, ListInv, FileInv, PlacementInv, Place
  PROVE  \A l \in Libs : l # cur /\ done[l] # 0 /\ l \in Considered(cur) =>
           layend[l] <= cand \/ cand + LaySize(cur) <= base[l]
<1>1. SUFFICES ASSUME NEW l \in Libs, l # cur, done[l] # 0, l \in Considered(cur)
               PROVE  layend[l] <= cand \/ cand + LaySize(cur) <= base[l]
  OBVIOUS
<1>i. StartInv /\ Covering /\ ScanShape
  BY DEF PlacementInv
<1>2. /\ mmap_start <= cand
      /\ \A k \in 1..Len(list) :
           list[k] \in Considered(cur) => \/ layend[list[k]] <= cand
                                          \/ cand + LaySize(cur) <= base[list[k]]
      /\ \/ cand + LaySize(cur) <= mmap_fin
         \/ \E k \in 1..Len(list) : cand + LaySize(cur) <= base[list[k]]
  BY <1>i, PlaceFits
<1>3. cand \in Nat /\ LaySize(cur) \in Nat /\ pc = "scan"
  BY PlaceFacts
<1>4. /\ base[l] \in Nat /\ layend[l] \in Nat /\ mmap_start \in Nat
      /\ list \in Seq(Slot) /\ base \in [Slot -> Nat]
  BY <1>1, LibFacts, ConstantFacts DEF TypeInv, TypeOK
<1>5. InList(l) \/ layend[l] < MMAP_BASE \/ (Random = FALSE /\ Above(l))
  BY <1>1, <1>3, <1>i DEF Covering, Placing, PlacedLibs
<1>6. CASE InList(l)
  BY <1>1, <1>2, <1>6 DEF InList
<1>7. CASE layend[l] < MMAP_BASE
  <2>1. MMAP_BASE <= mmap_start
    BY <1>i DEF StartInv
  <2> QED BY <1>2, <1>3, <1>4, <1>7, <2>1, ConstantFacts
<1>8. CASE Random = FALSE /\ Above(l)
  <2>1. mmap_fin = MMAP_END
    BY <1>3, <1>8, <1>i, ConstantFacts DEF StartInv, Top, Width
  <2>2. /\ base[l] >= MMAP_END /\ \A k \in 1..Len(list) : base[list[k]] <= base[l]
        /\ \A k \in 1..Len(list) : base[list[k]] \in Nat
    BY <1>4, <1>8 DEF Above
  <2> QED BY <1>2, <1>3, <1>4, <2>1, <2>2, ConstantFacts
<1> QED BY <1>5, <1>6, <1>7, <1>8

(* What is apart in the turned list is apart when the shift is undone.     *)
LEMMA UnwrapApart ==
  ASSUME TypeInv, PlacementInv, [Next]_vars, PageAligned', Unwrap,
         NEW a \in Libs, NEW b \in Libs, done[a] # 0, done[b] # 0, Apart(a, b)
  PROVE  Disjoint(a, b)'
<1>i. StartInv /\ Sides
  BY DEF PlacementInv
<1>1. /\ pc = "pick" /\ pc' = "done"
      /\ base' = [x \in Slot |-> IF x \in wrapped THEN base[x] - Width ELSE base[x]]
      /\ end' = [x \in Slot |-> IF x \in wrapped THEN end[x] - Width ELSE end[x]]
  BY DEF Unwrap, MovedBack
<1>2. \A l \in {a, b} : /\ l \in Slot /\ l \in PlacedLibs
                        /\ base[l] \in Nat /\ end[l] \in Nat /\ layend[l] \in Nat
                        /\ base[l] <= end[l] /\ end[l] <= layend[l]
                        /\ l \in wrapped => Width <= base[l]
  <2>1. /\ base \in [Slot -> Nat] /\ end \in [Slot -> Nat] /\ layend \in [Slot -> Nat]
        /\ Libs \subseteq Slot /\ Libs \subseteq Lib
    BY LibFacts, ConstantFacts DEF TypeInv, TypeOK
  <2> QED BY <1>1, <2>1 DEF TypeInv, SlotShape, PlacedLibs
<1>3. \A l \in {a, b} : /\ base'[l] \in Nat /\ end'[l] \in Nat /\ base'[l] % PAGE = 0
                        /\ base'[l] = IF l \in wrapped THEN base[l] - Width ELSE base[l]
                        /\ end'[l] = IF l \in wrapped THEN end[l] - Width ELSE end[l]
  <2>1. Libs' = Libs
    BY InputUnchanged
  <2>2. base'[a] % PAGE = 0 /\ base'[b] % PAGE = 0
    BY <1>1, <2>1 DEF PageAligned
  <2> QED BY <1>1, <1>2, <2>2, ConstantFacts
<1>4. end'[a] <= base'[b] \/ end'[b] <= base'[a]
  <2>1. CASE mmap_start = MMAP_BASE
    <3>1. wrapped = {}
      BY <1>1, <1>i, <2>1 DEF StartInv, Placing
    <3> QED BY <1>2, <1>3, <3>1 DEF Apart
  <2>2. CASE mmap_start # MMAP_BASE
    <3>1. \A l \in {a, b} :
            /\ l \in wrapped => MMAP_END <= base[l] /\ layend[l] <= mmap_start + Width
            /\ l \notin wrapped => layend[l] < MMAP_BASE \/ mmap_start <= base[l]
      BY <1>1, <1>2, <1>i, <2>2 DEF Sides, Placing, Top
    <3>2. mmap_start \in Nat /\ Width = MMAP_END - MMAP_BASE
      BY DEF TypeInv, TypeOK, Width
    <3>3. CASE a \in wrapped <=> b \in wrapped
      BY <1>2, <1>3, <3>3, ConstantFacts DEF Apart
    <3>4. CASE a \in wrapped /\ b \notin wrapped
      BY <1>2, <1>3, <3>1, <3>2, <3>4, ConstantFacts
    <3>5. CASE a \notin wrapped /\ b \in wrapped
      BY <1>2, <1>3, <3>1, <3>2, <3>5, ConstantFacts
    <3> QED BY <3>3, <3>4, <3>5
  <2> QED BY <2>1, <2>2
<1>5. AlignUp(end'[a]) <= base'[b] \/ AlignUp(end'[b]) <= base'[a]
  BY <1>3, <1>4, AlignUpFacts
<1> QED BY <1>5 DEF Disjoint, AlignUp

LEMMA StepNewSlotsApart ==
  ASSUME Enclosed
  PROVE  TypeInv /\ ListInv /\ FileInv /\ PlacementInv /\ [Next]_vars => NewSlotsApart'
<1>s. SUFFICES ASSUME TypeInv, ListInv, FileInv, PlacementInv, [Next]_vars
               PROVE  NewSlotsApart'
  OBVIOUS
<1>0. Libs' = Libs /\ Libs \subseteq Lib /\ Libs \subseteq Ent
  BY <1>s, InputUnchanged, LibFacts, ConstantFacts
<1>c. /\ \A l \in Libs : Considered(l)' = Considered(l)
      /\ \A a, b \in Libs : b \in Considered(a) => a \in Considered(b)
  BY <1>s, <1>0, ConsideredFacts
<1>i. StartInv /\ PageAligned /\ NewSlotsApart
  BY <1>s DEF PlacementInv
<1>d. \A l \in Libs : done[l] \in 0..2
  BY <1>s, <1>0 DEF TypeInv, TypeOK
<1>n. CASE \A l \in Libs : done'[l] # 1
  BY <1>0, <1>n DEF NewSlotsApart
<1>1. CASE FindLibs
  <2>1. \A l \in Libs : done[l] # 1
    BY <1>i, <1>1 DEF NewSlotsApart, FindLibs, Before
  <2>2. \A l \in Libs : done'[l] # 1
    BY <1>0, <1>1, <2>1 DEF FindLibs
  <2> QED BY <1>n, <2>2
<1>2. CASE Place
  <2>1. /\ pc' = "pick" /\ cur \in Libs
        /\ \A l \in Libs : l # cur => UNCHANGED <<base[l], layend[l], done[l]>>
        /\ base'[cur] = cand /\ layend'[cur] = cand + LaySize(cur)
        /\ pc = "scan"
    BY <1>s, <1>2, PlaceFacts
  <2>2. \A l \in Libs : l # cur /\ done[l] # 0 /\ l \in Considered(cur) =>
          layend[l] <= cand \/ cand + LaySize(cur) <= base[l]
    BY <1>s, <1>2, PlaceApart
  <2>3. ASSUME NEW a \in Libs, NEW b \in Libs, a # b, b \in Considered(a)',
               done'[a] = 1, done'[b] # 0
        PROVE  Apart(a, b)'
    <3>0. b \in Considered(a) /\ a \in Considered(b)
      BY <1>c, <2>3
    <3>1. CASE a = cur
      BY <2>1, <2>2, <2>3, <3>0, <3>1 DEF Apart
    <3>2. CASE b = cur
      <4>1. a # cur /\ done[a] # 0
        BY <2>1, <2>3, <3>2
      <4> QED BY <2>1, <2>2, <3>0, <3>2, <4>1 DEF Apart
    <3>3. CASE a # cur /\ b # cur
      <4>1. done[a] = 1 /\ done[b] # 0
        BY <2>1, <2>3, <3>3
      <4>2. Apart(a, b)
        BY <1>i, <2>1, <2>3, <3>0, <4>1 DEF NewSlotsApart
      <4> QED BY <2>1, <3>3, <4>2 DEF Apart
    <3> QED BY <3>1, <3>2, <3>3
  <2> QED BY <1>0, <2>1, <2>3 DEF NewSlotsApart, Before
<1>3. CASE Unwrap
  <2>1. pc = "pick" /\ pc' = "done" /\ done' = done
    BY <1>3 DEF Unwrap
  <2>2. PageAligned'
    BY <1>s, <1>i, StepPageAligned
  <2>3. ASSUME NEW a \in Libs, NEW b \in Libs, a # b, b \in Considered(a)',
               done'[a] = 1, done'[b] # 0
        PROVE  Disjoint(a, b)'
    <3>1. b \in Considered(a) /\ done[a] = 1 /\ done[b] # 0 /\ done[a] # 0
      BY <1>c, <2>1, <2>3
    <3>2. Apart(a, b)
      BY <1>i, <2>1, <2>3, <3>1 DEF NewSlotsApart
    <3> QED BY <1>s, <1>3, <2>2, <3>1, <3>2, UnwrapApart
  <2> QED BY <1>0, <2>1, <2>3 DEF NewSlotsApart, Before
<1>4. CASE RotateWrap \/ RotateReset
  <2>1. \A l \in Libs : done'[l] # 1
    BY <1>i, <1>4 DEF NewSlotsApart, RotateWrap, RotateReset
  <2> QED BY <1>n, <2>1
<1>5. CASE UNCHANGED vars
  <2>1. \A a, b \in Libs : (Disjoint(a, b)' <=> Disjoint(a, b)) /\ (Apart(a, b)' <=> Apart(a, b))
    BY <1>5 DEF vars, Disjoint, Apart, AlignUp
  <2>2. pc' = pc /\ done' = done
    BY <1>5 DEF vars
  <2> QED BY <1>0, <1>c, <1>i, <2>1, <2>2 DEF NewSlotsApart, Before
<1>6. CASE ~ (FindLibs \/ Place \/ Unwrap \/ RotateWrap \/ RotateReset) /\ vars' # vars
  <2>1. \A l \in Libs : done'[l] = 0 \/ done'[l] = done[l]
    BY <1>s, <1>6, DoneSteps
  <2>2. \A l \in Libs : UNCHANGED <<base[l], layend[l]>>
    BY <1>s, <1>0, <1>6, SlotSteps
  <2>3. /\ Before' \/ pc' \in {"rotate", "fin"} => Before \/ pc \in {"rotate", "fin"}
        /\ pc # "done" /\ pc' # "done"
    BY <1>s, <1>6
    DEF Next, Step, Terminating, OverlapNext, OverlapKeep, OverlapDrop,
      OverlapEnd, Propagate, PropagateEnd, BuildList, ChooseStart, RotateList,
      SetFin, Pick, ScanNext, NotFound, Before
  <2>4. ASSUME NEW a \in Libs, NEW b \in Libs, a # b, b \in Considered(a)',
               done'[a] = 1, done'[b] # 0
        PROVE  Apart(a, b)'
    <3>1. done[a] = 1 /\ done[b] # 0 /\ b \in Considered(a)
      BY <1>c, <2>1, <2>4
    <3>2. Apart(a, b)
      BY <1>i, <2>3, <2>4, <3>1 DEF NewSlotsApart
    <3> QED BY <2>2, <3>2 DEF Apart
  <2>5. Before' \/ pc' \in {"rotate", "fin"} => \A l \in Libs : done'[l] # 1
    BY <1>i, <2>1, <2>3 DEF NewSlotsApart
  <2> QED BY <1>0, <2>3, <2>4, <2>5 DEF NewSlotsApart
<1> QED BY <1>1, <1>2, <1>3, <1>4, <1>5, <1>6

-----------------------------------------------------------------------------
(* The overlap pass.                                                       *)

LEMMA DepFacts ==
  TypeInv => \A x \in Ent : \A d \in deps[x] :
               d \in Lib /\ d \in Slot /\ d \in Ent /\ (type[d] = "DYN" => d \in Libs)
  BY ConstantFacts DEF TypeInv, TypeOK, Libs

(* Slots that a binary may keep together stay apart while libraries only   *)
(* lose slots or get new ones.                                             *)
LEMMA KeptStays ==
  ASSUME TypeInv, [Next]_vars, \A l \in Libs : done'[l] = 2 => done[l] = 2,
         NEW x \in Ent, KeptApart(x)
  PROVE  KeptApart(x)'
<1>1. UNCHANGED <<type, deps, disk>>
  BY InputUnchanged
<1>2. \A a \in deps[x] : type[a] = "DYN" /\ done'[a] = 2 => done[a] = 2
  BY DepFacts
<1>3. \A a, b : DiskApart(a, b)' <=> DiskApart(a, b)
  BY <1>1 DEF DiskApart
<1> QED BY <1>1, <1>2, <1>3 DEF KeptApart

(* When the pass is through with the array, the slots in it are apart.     *)
LEMMA CollectedApart ==
  ASSUME TypeInv, FileInv, OverlapInv, pc = "overlap", j > Len(work),
         NEW x \in Ent, Collected(x)
  PROVE  KeptApart(x)
<1>1. SUFFICES ASSUME NEW a \in deps[x], NEW b \in deps[x], a # b,
                      type[a] = "DYN", type[b] = "DYN", done[a] = 2, done[b] = 2
               PROVE  DiskApart(a, b)
  BY DEF KeptApart
<1>2. \A d \in {a, b} : /\ d \in Libs /\ base[d] = disk[d].base
                        /\ end[d] = base[d] + disk[d].size /\ base[d] \in Nat /\ end[d] \in Nat
  <2>1. wrapped = {}
    BY DEF TypeInv, SlotShape
  <2>2. base \in [Slot -> Nat] /\ end \in [Slot -> Nat]
    BY DEF TypeInv, TypeOK
  <2>3. \A d \in {a, b} : d \in Libs /\ d \in Lib /\ d \in Slot
    BY <1>1, DepFacts
  <2> QED BY <1>1, <2>1, <2>2, <2>3 DEF FileInv, Home
<1>3. /\ work \in Seq(Lib) /\ Len(work) \in Nat /\ j \in Nat
      /\ \A k \in 1..Len(work) : base[work[k]] \in Nat /\ end[work[k]] \in Nat
  <2>1. /\ work \in Seq(Lib) /\ base \in [Slot -> Nat] /\ end \in [Slot -> Nat] /\ j \in Nat
        /\ Lib \subseteq Slot
    BY ConstantFacts DEF TypeInv, TypeOK
  <2> QED BY <2>1
<1>4. /\ \A m, n \in 1..Len(work) : m < n => base[work[m]] <= base[work[n]]
      /\ \A k \in 2..Len(work) : k < j => end[work[k - 1]] <= base[work[k]]
  BY DEF OverlapInv
<1>5. ASSUME NEW m \in 1..Len(work), NEW n \in 1..Len(work), m < n
      PROVE  end[work[m]] <= base[work[n]]
  <2>1. /\ m + 1 \in 2..Len(work) /\ m + 1 \in 1..Len(work) /\ m + 1 < j /\ (m + 1) - 1 = m
        /\ m + 1 = n \/ m + 1 < n
    BY <1>3, <1>5
  <2>2. end[work[m]] <= base[work[m + 1]]
    BY <1>4, <2>1
  <2>3. base[work[m + 1]] <= base[work[n]]
    BY <1>3, <1>4, <2>1
  <2> QED BY <1>3, <2>1, <2>2, <2>3
<1>6. PICK m \in 1..Len(work), n \in 1..Len(work) : work[m] = a /\ work[n] = b
  <2>1. done[a] # 0 /\ done[b] # 0
    BY <1>1
  <2> QED BY <1>1, <2>1 DEF Collected
<1>7. m < n \/ n < m
  BY <1>1, <1>3, <1>6
<1>8. end[a] <= base[b] \/ end[b] <= base[a]
  BY <1>5, <1>6, <1>7
<1> QED BY <1>2, <1>8 DEF DiskApart

LEMMA InitOverlapInv == Init => OverlapInv
  BY DEF Init, OverlapInv

LEMMA OverlapDropStep ==
  ASSUME TypeInv, OverlapInv, [Next]_vars, OverlapDrop
  PROVE  OverlapInv'
<1>1. /\ pc = "overlap" /\ pc' = "overlap" /\ todo' = todo
      /\ UNCHANGED <<base, end>> /\ j' = Resume
      /\ work' = RemoveAt(work, Victim)
      /\ done' = [done EXCEPT ![work[Victim]] = 0]
  BY DEF OverlapDrop, Remaining, slots
<1>2. /\ work \in Seq(Lib) /\ Len(work) \in Nat /\ done \in [Ent -> 0..2] /\ Lib \subseteq Ent
      /\ j \in 2..Len(work) /\ Victim \in 1..Len(work)
      /\ Victim = j \/ Victim = j - 1
  <2>1. /\ work \in Seq(Lib) /\ Len(work) \in Nat /\ done \in [Ent -> 0..2] /\ Lib \subseteq Ent
        /\ j \in Nat \ {0} /\ j <= Len(work)
    BY DEF OverlapDrop, TypeInv, TypeOK, Ent
  <2>2. j # 1
    BY <1>1, <2>1 DEF TypeInv, LoopShape
  <2>3. Victim = j \/ Victim = j - 1
    BY DEF Victim
  <2> QED BY <2>1, <2>2, <2>3
<1>3. j' \in Nat /\ j' >= 2 /\ j' <= j /\ (j' <= Victim \/ j' = 2)
  BY <1>1, <1>2 DEF Resume
<1>4. /\ work' \in Seq(Lib) /\ Len(work') = Len(work) - 1
      /\ \A k \in 1..(Len(work) - 1) :
           work'[k] = IF k < Victim THEN work[k] ELSE work[k + 1]
  <2>1. /\ RemoveAt(work, Victim) \in Seq(Lib) /\ Len(RemoveAt(work, Victim)) = Len(work) - 1
        /\ \A k \in 1..(Len(work) - 1) :
             RemoveAt(work, Victim)[k] = IF k < Victim THEN work[k] ELSE work[k + 1]
    BY <1>2, RemoveAtFacts
  <2> QED BY <1>1, <2>1
<1>5. /\ \A a, b \in 1..Len(work) : a < b => base[work[a]] <= base[work[b]]
      /\ \A k \in 2..Len(work) : k < j => end[work[k - 1]] <= base[work[k]]
      /\ \A x \in Binlibs \ todo : KeptApart(x) \/ Collected(x)
  BY <1>1 DEF OverlapInv
<1>6. ASSUME NEW a \in 1..Len(work'), NEW b \in 1..Len(work'), a < b
      PROVE  base'[work'[a]] <= base'[work'[b]]
  <2>1. PICK m \in 1..Len(work) : work'[a] = work[m] /\ m = IF a < Victim THEN a ELSE a + 1
    BY <1>2, <1>4
  <2>2. PICK n \in 1..Len(work) : work'[b] = work[n] /\ n = IF b < Victim THEN b ELSE b + 1
    BY <1>2, <1>4
  <2>3. m < n
    BY <1>2, <1>4, <1>6, <2>1, <2>2
  <2> QED BY <1>1, <1>5, <2>1, <2>2, <2>3
<1>7. ASSUME NEW k \in 2..Len(work'), k < j'
      PROVE  end'[work'[k - 1]] <= base'[work'[k]]
  <2>1. k < Victim /\ k \in 2..Len(work) /\ k < j /\ k - 1 < Victim
    BY <1>2, <1>3, <1>4, <1>7
  <2>2. work'[k] = work[k] /\ work'[k - 1] = work[k - 1]
    BY <1>2, <1>4, <1>7, <2>1
  <2> QED BY <1>1, <1>5, <2>1, <2>2
<1>8. Binlibs' = Binlibs /\ Binlibs \subseteq Ent /\ UNCHANGED <<type, deps>>
  BY InputUnchanged DEF Binlibs
<1>9. ASSUME NEW x \in Binlibs \ todo PROVE KeptApart(x)' \/ Collected(x)'
  <2>1. CASE KeptApart(x)
    <3>1. \A l \in Libs : done'[l] = 2 => done[l] = 2
      BY <1>1, <1>2, LibFacts
    <3> QED BY <1>8, <2>1, <3>1, KeptStays
  <2>2. CASE Collected(x)
    <3>1. ASSUME NEW d \in deps[x], type[d] = "DYN", done'[d] # 0
          PROVE  \E k \in 1..Len(work') : work'[k] = d
      <4>1. d \in Ent /\ work[Victim] \in Ent
        BY <1>2, <1>8, DepFacts
      <4>2. d # work[Victim] /\ done[d] # 0
        BY <1>1, <1>2, <3>1, <4>1
      <4>3. PICK k \in 1..Len(work) : work[k] = d
        BY <2>2, <3>1, <4>2 DEF Collected
      <4>4. CASE k < Victim
        BY <1>2, <1>4, <4>3, <4>4
      <4>5. CASE k > Victim
        <5>1. /\ k - 1 \in 1..Len(work') /\ k - 1 \in 1..(Len(work) - 1) /\ ~ (k - 1 < Victim)
              /\ (k - 1) + 1 = k
          BY <1>2, <1>4, <4>5
        <5>2. work'[k - 1] = work[k]
          BY <1>4, <5>1
        <5> QED BY <4>3, <5>1, <5>2
      <4> QED BY <1>2, <4>2, <4>3, <4>4, <4>5
    <3> QED BY <1>8, <3>1 DEF Collected
  <2> QED BY <1>5, <2>1, <2>2
<1> QED BY <1>1, <1>6, <1>7, <1>8, <1>9 DEF OverlapInv

LEMMA StepOverlapInv ==
  TypeInv /\ FileInv /\ OverlapInv /\ [Next]_vars => OverlapInv'
<1>s. SUFFICES ASSUME TypeInv, FileInv, OverlapInv, [Next]_vars PROVE OverlapInv'
  OBVIOUS
<1>0. /\ Binlibs' = Binlibs /\ UNCHANGED <<type, deps, disk>> /\ Libs' = Libs
      /\ Binlibs \subseteq Ent
  BY <1>s, InputUnchanged DEF Binlibs
<1>t. work \in Seq(Lib) /\ Len(work) \in Nat /\ j \in Nat \ {0}
  BY <1>s DEF TypeInv, TypeOK
<1>o. pc = "overlap" =>
        /\ \A a, b \in 1..Len(work) : a < b => base[work[a]] <= base[work[b]]
        /\ \A k \in 2..Len(work) : k < j => end[work[k - 1]] <= base[work[k]]
        /\ \A x \in Binlibs \ todo : KeptApart(x) \/ Collected(x)
  BY <1>s DEF OverlapInv
<1>k. pc = "overlap" /\ j > Len(work) => \A x \in Binlibs \ todo : KeptApart(x)
  BY <1>s, <1>0, <1>o, CollectedApart
<1>1. CASE FindLibs
  <2>1. pc' = "overlap" /\ todo' = Binlibs /\ work' = << >>
    BY <1>s, <1>1 DEF FindLibs, OverlapInv
  <2> QED BY <1>0, <2>1 DEF OverlapInv
<1>2. ASSUME NEW x \in Ent, OverlapNext(x) PROVE OverlapInv'
  <2> DEFINE D == {d \in deps[x] : type[d] = "DYN" /\ done[d] # 0}
  <2>1. /\ pc = "overlap" /\ pc' = "overlap" /\ j > Len(work) /\ j' = 2
        /\ work' \in Sorted(D, DepsLeq) /\ todo' = todo \ {x}
        /\ UNCHANGED <<done, base, end>>
    BY <1>2 DEF OverlapNext, slots
  <2>2. IsFiniteSet(D)
    <3>1. D \subseteq Lib
      BY <1>s DEF TypeInv, TypeOK
    <3> QED BY <3>1, LibSubsetsFinite
  <2> HIDE DEF D
  <2>3. \A a, b \in 1..Len(work') : a < b => DepsLeq(work'[a], work'[b])
    <3>1. Len(work') = Cardinality(D)
      BY <2>1, <2>2, SortedSeq
    <3>2. \A a, b \in 1..Cardinality(D) : a < b => DepsLeq(work'[a], work'[b])
      BY <2>1 DEF Sorted
    <3> QED BY <3>1, <3>2
  <2>4. \A d \in D : \E i \in 1..Len(work') : work'[i] = d
    BY <2>1, <2>2, SortedOnto
  <2>5. Collected(x)'
    BY <1>0, <2>1, <2>4 DEF Collected, D
  <2>6. \A y \in Binlibs \ todo : KeptApart(y)'
    <3>1. \A l \in Libs : done'[l] = 2 => done[l] = 2
      BY <2>1
    <3> QED BY <1>s, <1>0, <1>k, <2>1, <3>1, KeptStays
  <2>7. \A a, b \in 1..Len(work') : a < b => base'[work'[a]] <= base'[work'[b]]
    BY <2>1, <2>3 DEF DepsLeq
  <2>8. \A k \in 2..Len(work') : ~ (k < j')
    BY <2>1
  <2> QED BY <1>0, <2>1, <2>5, <2>6, <2>7, <2>8 DEF OverlapInv
<1>3. CASE OverlapKeep
  <2>1. /\ pc = "overlap" /\ pc' = "overlap" /\ j' = j + 1 /\ j <= Len(work)
        /\ ~ (base[work[j]] < end[work[j - 1]])
        /\ UNCHANGED <<work, todo, done, base, end>>
    BY <1>3 DEF OverlapKeep, Clash, slots
  <2>2. \A k \in 1..Len(work) : base[work[k]] \in Nat /\ end[work[k]] \in Nat
    <3>1. base \in [Slot -> Nat] /\ end \in [Slot -> Nat] /\ Lib \subseteq Slot
      BY <1>s, ConstantFacts DEF TypeInv, TypeOK
    <3> QED BY <1>t, <3>1
  <2>3. ASSUME NEW k \in 2..Len(work), k < j + 1 PROVE end[work[k - 1]] <= base[work[k]]
    <3>1. CASE k < j
      BY <1>o, <2>1, <3>1
    <3>2. CASE k = j
      BY <1>t, <2>1, <2>2, <3>2
    <3> QED BY <1>t, <2>3, <3>1, <3>2
  <2>4. \A x \in Binlibs : /\ KeptApart(x) => KeptApart(x)'
                           /\ Collected(x) => Collected(x)'
    BY <1>0, <2>1 DEF KeptApart, Collected, DiskApart
  <2> QED BY <1>0, <1>o, <2>1, <2>3, <2>4 DEF OverlapInv
<1>4. CASE OverlapDrop
  BY <1>s, <1>4, OverlapDropStep
<1>5. CASE OverlapEnd
  <2>1. pc = "overlap" /\ pc' = "propagate" /\ j > Len(work) /\ todo = {} /\ done' = done
    BY <1>5 DEF OverlapEnd
  <2>2. \A x \in Binlibs : KeptApart(x)'
    BY <1>s, <1>0, <1>k, <2>1, KeptStays
  <2> QED BY <1>0, <2>1, <2>2 DEF OverlapInv
<1>6. CASE UNCHANGED vars
  <2>1. \A x \in Binlibs : /\ KeptApart(x) <=> KeptApart(x)'
                           /\ Collected(x) <=> Collected(x)'
    BY <1>0, <1>6 DEF vars, KeptApart, Collected, DiskApart
  <2> QED BY <1>s, <1>0, <1>6, <2>1 DEF vars, OverlapInv
<1>7. CASE pc \notin {"find_libs", "overlap"} /\ pc' \notin {"find_libs", "overlap"}
  <2>1. \A l \in Libs : done'[l] = 2 => done[l] = 2
    <3>1. CASE Place
      BY <1>s, <3>1, PlaceFacts
    <3>2. CASE ~ Place
      <4>1. ~ FindLibs
        BY <1>7 DEF FindLibs
      <4> QED BY <1>s, <3>2, <4>1, DoneSteps
    <3> QED BY <3>1, <3>2
  <2>2. \A x \in Binlibs : KeptApart(x)'
    BY <1>s, <1>0, <1>7, <2>1, KeptStays DEF OverlapInv
  <2> QED BY <1>0, <1>7, <2>2 DEF OverlapInv
<1>8. \/ FindLibs \/ OverlapKeep \/ OverlapDrop \/ OverlapEnd \/ UNCHANGED vars
      \/ \E x \in Ent : OverlapNext(x)
      \/ pc \notin {"find_libs", "overlap"} /\ pc' \notin {"find_libs", "overlap"}
  BY <1>s
  DEF Next, Step, Terminating, Propagate, PropagateEnd, BuildList, ChooseStart, RotateWrap,
      RotateList, RotateReset, SetFin, Pick, ScanNext, Place, NotFound, Unwrap
<1> QED BY <1>1, <1>2, <1>3, <1>4, <1>5, <1>6, <1>7, <1>8

-----------------------------------------------------------------------------
(* The two passes together.                                                *)

SlotInv == TypeInv /\ ListInv /\ FileInv /\ PlacementInv /\ OverlapInv

LEMMA InitSlotInv == Init => SlotInv
  BY InitTypeInv, InitListInv, InitFileInv, InitPlacementInv, InitOverlapInv DEF SlotInv

LEMMA SlotInvInductive ==
  ASSUME Enclosed
  PROVE  SlotInv /\ [Next]_vars => SlotInv'
<1>s. SUFFICES ASSUME SlotInv, [Next]_vars PROVE SlotInv'
  OBVIOUS
<1>1. TypeInv /\ ListInv /\ FileInv /\ PlacementInv /\ OverlapInv
  BY <1>s DEF SlotInv
<1>2. DiskInv /\ StartInv /\ PageAligned /\ ScanShape
  BY <1>1 DEF PlacementInv
<1>3. TypeInv' /\ ListInv' /\ FileInv' /\ OverlapInv'
  BY <1>s, <1>1, TypeInvInductive, StepListInv, StepFileInv, StepOverlapInv
<1>4. DiskInv'
  BY <1>s, <1>2, InputUnchanged DEF DiskInv
<1>5. StartInv' /\ PageAligned' /\ ScanShape'
  BY <1>s, <1>1, <1>2, StepStartInv, StepPageAligned, StepScanShape
<1>6. Covering' /\ Sides' /\ NewSlotsApart'
  BY <1>s, <1>1, StepCovering, StepSides, StepNewSlotsApart
<1> QED BY <1>3, <1>4, <1>5, <1>6 DEF SlotInv, PlacementInv

(* Without -m, layout_libs never gives a library a slot that shares a page *)
(* with the slot of another library, whether they are used together or     *)
(* not, for every set of files, dependencies, page size, gap and region;   *)
(* with -R when no file lies above the region.                             *)
THEOREM NewSlotsUniqueHolds ==
  ASSUME Enclosed
  PROVE  Spec => []NewSlotsUnique
<1>1. SlotInv => NewSlotsUnique
  <2>s. SUFFICES ASSUME SlotInv, pc = "done", ~ ConserveMemory,
                        NEW a \in Libs, NEW b \in Libs,
                        a # b, done[a] = 1, done[b] # 0
                 PROVE  Disjoint(a, b)
    BY DEF NewSlotsUnique
  <2>1. b \in Considered(a)
    BY <2>s, LibFacts, ConstantFacts DEF Considered
  <2>2. NewSlotsApart
    BY <2>s DEF SlotInv, PlacementInv
  <2> QED BY <2>s, <2>1, <2>2 DEF NewSlotsApart
<1> QED BY InitSlotInv, SlotInvInductive, <1>1, PTL DEF Spec

-----------------------------------------------------------------------------
(* The dependencies of one binary.  A dependency that comes from the cache *)
(* keeps its slot without being compared with anything, so what the cache  *)
(* says has to agree with the gathered files that keep theirs (with -f     *)
(* none does).                                                             *)

CachedPairsApart ==
  \A x \in Binlibs : \A a, b \in deps[x] :
    type[a] = "DYN" /\ type[b] = "CACHE_DYN" /\ done[a] = 2 => DiskApart(a, b)

CachedApart == ForcePrelink \/ CachedPairsApart

CachedInv == IF pc = "find_libs" THEN CachedApart ELSE CachedPairsApart

LEMMA StepCachedInv == TypeInv /\ CachedInv /\ [Next]_vars => CachedInv'
<1>s. SUFFICES ASSUME TypeInv, CachedInv, [Next]_vars PROVE CachedInv'
  OBVIOUS
<1>0. UNCHANGED <<type, deps, disk>> /\ Binlibs' = Binlibs /\ Libs' = Libs /\ Binlibs \subseteq Ent
  BY <1>s, InputUnchanged DEF Binlibs
<1>k. ASSUME CachedPairsApart, \A l \in Libs : done'[l] = 2 => done[l] = 2
      PROVE  CachedPairsApart'
  BY <1>s, <1>0, <1>k, DepFacts DEF CachedPairsApart, DiskApart
<1>1. CASE FindLibs
  <2>1. /\ pc = "find_libs" /\ pc' = "overlap"
        /\ done' = [x \in Ent |->
                      IF Unaligned(x) THEN 0
                      ELSE IF type[x] \in {"CACHE_DYN", "CACHE_EXEC"} THEN 2
                      ELSE IF ForcePrelink THEN 0 ELSE done[x]]
    BY <1>1 DEF FindLibs
  <2>2. \A l \in Ent : type[l] = "DYN" /\ done'[l] = 2 => ~ ForcePrelink /\ done[l] = 2
    BY <2>1
  <2>3. CASE ForcePrelink
    BY <1>s, <1>0, <2>1, <2>2, <2>3, DepFacts DEF CachedInv, CachedPairsApart
  <2>4. CASE CachedPairsApart
    BY <1>s, <1>0, <2>1, <2>2, <2>4, DepFacts DEF CachedInv, CachedPairsApart, DiskApart
  <2> QED BY <1>s, <2>1, <2>3, <2>4 DEF CachedInv, CachedApart
<1>2. CASE UNCHANGED vars
  BY <1>s, <1>2, <1>0 DEF CachedInv, CachedApart, CachedPairsApart, DiskApart, vars
<1>3. CASE pc # "find_libs" /\ pc' # "find_libs" /\ ~ FindLibs
  <2>1. \A l \in Libs : done'[l] = 2 => done[l] = 2
    <3>1. CASE Place
      BY <1>s, <3>1, PlaceFacts
    <3>2. CASE ~ Place
      BY <1>s, <1>3, <3>2, DoneSteps
    <3> QED BY <3>1, <3>2
  <2> QED BY <1>s, <1>k, <1>3, <2>1 DEF CachedInv
<1>4. FindLibs \/ UNCHANGED vars \/ (pc # "find_libs" /\ pc' # "find_libs" /\ ~ FindLibs)
  BY <1>s
  DEF Next, Step, Terminating, FindLibs, OverlapNext, OverlapKeep, OverlapDrop, OverlapEnd,
      Propagate, PropagateEnd, BuildList, ChooseStart, RotateWrap, RotateList, RotateReset,
      SetFin, Pick, ScanNext, Place, NotFound, Unwrap
<1> QED BY <1>1, <1>2, <1>3, <1>4

(* Two libraries that keep the slots of their files share a page only if   *)
(* the files do.                                                           *)
LEMMA KeptDisjoint ==
  ASSUME SlotInv, pc = "done", NEW a \in Libs, NEW b \in Libs,
         done[a] = 2, done[b] = 2, DiskApart(a, b)
  PROVE  Disjoint(a, b)
<1>1. /\ a \in Lib /\ b \in Lib /\ FileInv /\ PageAligned /\ TypeOK
  BY LibFacts DEF SlotInv, PlacementInv, TypeInv
<1>2. \A l \in {a, b} : base[l] = disk[l].base /\ end[l] = disk[l].base + disk[l].size
  BY <1>1 DEF FileInv, Home
<1>3. \A l \in {a, b} : base[l] \in Nat /\ end[l] \in Nat /\ base[l] % PAGE = 0
  BY <1>1, ConstantFacts DEF TypeOK, PageAligned
<1>4. end[a] <= base[b] \/ end[b] <= base[a]
  BY <1>2 DEF DiskApart
<1>5. \A x, y \in Nat : y % PAGE = 0 /\ x <= y => AlignUp(x) <= y
  BY AlignUpFacts
<1> QED BY <1>3, <1>4, <1>5 DEF Disjoint

(* layout_libs ends with slots such that no two dependencies of a binary   *)
(* share a page (the DEBUG_LAYOUT check at its end), with every option,    *)
(* when the cache agrees with the files to begin with and, with -R, no     *)
(* file lies above the region.                                             *)
THEOREM DependenciesDisjointHolds ==
  ASSUME Enclosed
  PROVE  Spec /\ CachedApart => []DependenciesDisjoint
<1>1. Init /\ CachedApart => SlotInv /\ CachedInv
  BY InitSlotInv DEF CachedInv, Init
<1>2. SlotInv /\ CachedInv /\ [Next]_vars => (SlotInv /\ CachedInv)'
  BY SlotInvInductive, StepCachedInv DEF SlotInv
<1>3. SlotInv /\ CachedInv => DependenciesDisjoint
  <2>s. SUFFICES ASSUME SlotInv, CachedInv, pc = "done", NEW x \in Binlibs,
                        \A d \in deps[x] : d \in Libs /\ done[d] # 0,
                        NEW a \in deps[x], NEW b \in deps[x], a # b, type[a] = "DYN"
                 PROVE  Disjoint(a, b)
    BY DEF DependenciesDisjoint
  <2>1. /\ a \in Libs /\ b \in Libs /\ a \in Lib /\ b \in Lib
        /\ done[a] \in {1, 2} /\ done[b] \in {1, 2}
    <3>1. done \in [Ent -> 0..2]
      BY <2>s DEF SlotInv, TypeInv, TypeOK
    <3> QED BY <2>s, <3>1, LibFacts, ConstantFacts
  <2>2. b \in Considered(a) /\ a \in Considered(b)
    BY <2>s, <2>1, ConsideredFacts
  <2>3. CASE done[a] = 1
    BY <2>s, <2>1, <2>2, <2>3 DEF SlotInv, PlacementInv, NewSlotsApart
  <2>4. CASE done[b] = 1
    <3>1. Disjoint(b, a)
      BY <2>s, <2>1, <2>2, <2>4 DEF SlotInv, PlacementInv, NewSlotsApart
    <3> QED BY <3>1 DEF Disjoint
  <2>5. CASE done[a] = 2 /\ done[b] = 2
    <3>1. type[b] \in {"DYN", "CACHE_DYN"}
      BY <2>1 DEF Libs
    <3>2. DiskApart(a, b)
      <4>1. CASE type[b] = "DYN"
        BY <2>s, <2>5, <4>1 DEF SlotInv, OverlapInv, KeptApart
      <4>2. CASE type[b] = "CACHE_DYN"
        BY <2>s, <2>5, <4>2 DEF CachedInv, CachedPairsApart
      <4> QED BY <3>1, <4>1, <4>2
    <3> QED BY <2>s, <2>1, <2>5, <3>2, KeptDisjoint
  <2> QED BY <2>1, <2>3, <2>4, <2>5
<1> QED BY <1>1, <1>2, <1>3, PTL DEF Spec

-----------------------------------------------------------------------------
(* The region.  The first entry of the list may start behind the end of    *)
(* the region, and a new slot may go before it; with -R a slot may lie     *)
(* across the end when the list has no fake entry.  Without both, every    *)
(* new slot is in the region.                                              *)

RegionInv ==
  \A l \in Libs : done[l] = 1 => MMAP_BASE <= base[l] /\ layend[l] <= MMAP_END

(* Without -R nothing is moved, and all slots start at or below the end.   *)
LEMMA FixedPlacing ==
  ASSUME Random = FALSE, \A b \in Bases : b < MMAP_END, SlotInv, RegionInv, Placing
  PROVE  /\ mmap_start = MMAP_BASE /\ wrapped = {} /\ ~ InList(Fake)
         /\ \A l \in PlacedLibs : base[l] <= MMAP_END
<1>1. /\ TypeInv /\ FileInv /\ DiskInv /\ StartInv
  BY DEF SlotInv, PlacementInv
<1>2. mmap_start = MMAP_BASE
  BY <1>1 DEF StartInv
<1>3. wrapped = {} /\ ~ InList(Fake)
  BY <1>1, <1>2 DEF StartInv
<1>4. ASSUME NEW l \in PlacedLibs PROVE base[l] <= MMAP_END
  <2>1. l \in Libs /\ l \in Lib /\ done[l] # 0 /\ done \in [Ent -> 0..2] /\ Lib \subseteq Ent
    BY <1>1, LibFacts, ConstantFacts DEF PlacedLibs, TypeInv, TypeOK
  <2>2. base[l] \in Nat /\ layend[l] \in Nat /\ end[l] \in Nat /\ base[l] <= end[l] /\ end[l] <= layend[l]
    BY <1>1, <2>1, ConstantFacts DEF TypeInv, TypeOK, SlotShape, Placing
  <2>3. CASE done[l] = 1
    BY <2>1, <2>2, <2>3, ConstantFacts DEF RegionInv
  <2>4. CASE done[l] = 2
    <3>1. base[l] = disk[l].base
      BY <1>1, <1>3, <2>1, <2>4 DEF FileInv, Home
    <3>2. disk[l].base \in Bases
      BY <1>1, <2>1 DEF DiskInv
    <3> QED BY <2>2, <3>1, <3>2, ConstantFacts
  <2> QED BY <2>1, <2>3, <2>4
<1> QED BY <1>2, <1>3, <1>4

LEMMA StepRegionInv ==
  ASSUME Random = FALSE, \A b \in Bases : b < MMAP_END
  PROVE  SlotInv /\ SlotInv' /\ RegionInv /\ [Next]_vars => RegionInv'
<1>s. SUFFICES ASSUME SlotInv, SlotInv', RegionInv, [Next]_vars PROVE RegionInv'
  OBVIOUS
<1>0. Libs' = Libs /\ Libs \subseteq Lib
  BY <1>s, InputUnchanged, LibFacts
<1>i. /\ TypeInv /\ ListInv /\ StartInv /\ ScanShape
  BY <1>s DEF SlotInv, PlacementInv
<1>n. pc' \in {"rotate", "fin", "overlap"} => RegionInv'
  <2>1. NewSlotsApart'
    BY <1>s DEF SlotInv, PlacementInv
  <2> QED BY <2>1 DEF NewSlotsApart, Before, RegionInv
<1>1. CASE Place
  <2>1. /\ pc = "scan" /\ cand \in Nat /\ LaySize(cur) \in Nat /\ cur \in Libs
        /\ base'[cur] = cand /\ layend'[cur] = cand + LaySize(cur)
        /\ \A l \in Libs : l # cur => UNCHANGED <<base[l], layend[l], done[l]>>
    BY <1>i, <1>1, PlaceFacts
  <2>2. Placing
    BY <2>1 DEF Placing
  <2>3. /\ mmap_start = MMAP_BASE /\ ~ InList(Fake)
        /\ \A l \in PlacedLibs : base[l] <= MMAP_END
    BY <1>s, <2>2, FixedPlacing
  <2>4. mmap_fin = MMAP_END
    BY <1>i, <2>1, <2>3, ConstantFacts DEF StartInv, Top, Width
  <2>5. MMAP_BASE <= cand
    BY <1>i, <1>1, <2>3, PlaceFits
  <2>6. \/ cand + LaySize(cur) <= MMAP_END
        \/ \E k \in 1..Len(list) : cand + LaySize(cur) <= base[list[k]]
    BY <1>i, <1>1, <2>4, PlaceFits
  <2>7. ASSUME NEW k \in 1..Len(list) PROVE base[list[k]] \in Nat /\ base[list[k]] <= MMAP_END
    <3>1. list \in Seq(PlacedLibs \union {Fake})
      BY <1>i, <2>1 DEF ListInv, OrderInv
    <3>2. list[k] \in PlacedLibs
      BY <2>3, <3>1 DEF InList
    <3> QED BY <1>i, <2>3, <3>2, LibFacts, ConstantFacts DEF TypeInv, TypeOK
  <2>8. cand + LaySize(cur) <= MMAP_END
    BY <2>1, <2>6, <2>7, ConstantFacts
  <2> QED BY <1>s, <1>0, <2>1, <2>5, <2>8 DEF RegionInv
<1>2. CASE FindLibs \/ RotateWrap \/ RotateReset
  BY <1>2, <1>n DEF FindLibs, RotateWrap, RotateReset
<1>3. CASE Unwrap
  <2>1. pc = "pick" /\ base' = MovedBack(base) /\ UNCHANGED <<layend, done>>
    BY <1>3 DEF Unwrap
  <2>2. wrapped = {}
    BY <1>s, <2>1, FixedPlacing DEF Placing
  <2>3. \A l \in Libs : base'[l] = base[l]
    BY <1>0, <2>1, <2>2, ConstantFacts DEF MovedBack
  <2> QED BY <1>s, <1>0, <2>1, <2>3 DEF RegionInv
<1>4. CASE /\ \A l \in Lib : UNCHANGED <<base[l], end[l], layend[l]>>
           /\ ~ Place /\ ~ FindLibs
  <2>1. \A l \in Libs : done'[l] = 0 \/ done'[l] = done[l]
    BY <1>s, <1>i, <1>4, DoneSteps
  <2> QED BY <1>s, <1>0, <1>4, <2>1 DEF RegionInv
<1> QED BY <1>s, <1>i, <1>1, <1>2, <1>3, <1>4, SlotSteps

(* Every new slot starts on a page boundary and lies in the library        *)
(* region, for every set of files, dependencies, page size and gap, with   *)
(* and without -m and -f, when no file has its slot behind the region.     *)
THEOREM NewSlotsInRegionHolds ==
  ASSUME Random = FALSE, \A b \in Bases : b < MMAP_END
  PROVE  Spec => []NewSlotsInRegion
<1>e. Enclosed
  BY DEF Enclosed
<1>1. Init => SlotInv /\ RegionInv
  <2>1. Init => \A l \in Libs : done[l] # 1
    BY LibFacts, ConstantFacts DEF Init
  <2> QED BY <2>1, InitSlotInv DEF RegionInv
<1>2. SlotInv /\ RegionInv /\ [Next]_vars => (SlotInv /\ RegionInv)'
  BY <1>e, SlotInvInductive, StepRegionInv
<1>3. SlotInv /\ RegionInv => NewSlotsInRegion
  <2>s. SUFFICES ASSUME SlotInv, RegionInv, pc = "done", NEW l \in Libs, done[l] = 1
                 PROVE  /\ base[l] % PAGE = 0
                        /\ MMAP_BASE <= base[l] /\ end[l] <= MMAP_END
    BY DEF NewSlotsInRegion
  <2>1. base[l] % PAGE = 0
    BY <2>s DEF SlotInv, PlacementInv, PageAligned
  <2>2. end[l] <= layend[l] /\ end[l] \in Nat /\ layend[l] \in Nat
    BY <2>s, LibFacts, ConstantFacts DEF SlotInv, TypeInv, TypeOK, SlotShape
  <2> QED BY <2>s, <2>1, <2>2, ConstantFacts DEF RegionInv
<1> QED BY <1>1, <1>2, <1>3, PTL DEF Spec
=============================================================================
