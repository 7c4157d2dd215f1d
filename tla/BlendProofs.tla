---------------------------- MODULE BlendProofs ----------------------------
(***************************************************************************)
(* A type never answers from another file than its own, and a view selects *)
(* exactly the blocks that it stands for: for any number of objects, files *)
(* and types, whatever is opened, moved and assigned.  The second part is  *)
(* about the strings that the types are asked with: a query is made of     *)
(* exactly the strings that can be taken apart, of any length.             *)
(***************************************************************************)
EXTENDS Blend, QueryString, FiniteSetTheorems, SequenceTheorems, TLAPS

(***************************************************************************)
(* The inductive invariant.  What a type answers is decided by where its   *)
(* Blend is and what the object holds that it was asked of: as long as     *)
(* nothing that it refers to is gone, the Blend is in some object, and the *)
(* object of the type has this Blend or none.  Keeping that through an     *)
(* assignment takes that no Blend is in two objects, which is in TypeOK.   *)
(***************************************************************************)
Refers ==
  IsType /\ ~spoiled =>
    /\ criterion.source \in Sources
    /\ Lives(criterion.source)
    /\ blends[criterion.object] \in {criterion.source, MovedFrom}

IInv == TypeOK /\ Refers /\ TypesAnswerFromTheirFile

LEMMA InitHolds == Init => IInv
BY BlendAssumption, Zenon DEF Init, IInv, TypeOK, Refers, TypesAnswerFromTheirFile, Holds, IsType

-----------------------------------------------------------------------------
(* Each of the actions keeps the types; what is not about the criterion or *)
(* the objects is left as it was.                                          *)
LEMMA OpenKeeps ==
  ASSUME IInv, NEW o \in Objects, NEW s \in Sources, Open(o, s)
  PROVE  TypeOK' /\ Refers'
<1> USE DEF Holds, IsType
<1>1. CASE s.fault = "none"
  <2>1. blends' = [blends EXCEPT ![o] = s] /\ opened' = opened \cup {s} /\ s \notin opened
    BY <1>1 DEF Open
  <2>2. \A p \in Objects : blends[p] # s
    BY <2>1 DEF IInv, TypeOK
  <2>3. TypeOK'
    BY <1>1, <2>1, <2>2 DEF IInv, TypeOK, Open
  <2>4. Refers'
    <3>1. \A p \in Objects : p # o => blends'[p] = blends[p]
      BY <2>1 DEF IInv, TypeOK
    <3>2. blends[o] = Dead
      BY DEF Open
    <3>3. \A q \in Sources : Lives(q) => Lives(q)'
      BY <3>1, <3>2, BlendAssumption DEF Lives
    <3> QED BY <3>1, <3>2, <3>3, BlendAssumption DEF IInv, TypeOK, Refers, Open
  <2> QED BY <2>3, <2>4
<1>2. CASE s.fault # "none"
  BY <1>2 DEF IInv, TypeOK, Refers, Open, Lives
<1> QED BY <1>1, <1>2

LEMMA MoveKeeps ==
  ASSUME IInv, NEW from \in Objects, NEW to \in Objects, Move(from, to)
  PROVE  TypeOK' /\ Refers'
<1> USE DEF Holds, IsType
<1>1. /\ blends' = [blends EXCEPT ![to] = blends[from], ![from] = MovedFrom]
      /\ blends[from] \in Sources /\ blends[to] = Dead /\ from # to
  BY BlendAssumption DEF Move
<1>2. /\ blends'[to] = blends[from] /\ blends'[from] = MovedFrom
      /\ \A p \in Objects \ {from, to} : blends'[p] = blends[p]
  BY <1>1 DEF IInv, TypeOK
<1>3. TypeOK'
  <2>1. blends' \in [Objects -> Sources \cup {Dead, MovedFrom}]
    BY <1>1 DEF IInv, TypeOK
  <2>2. \A p, q \in Objects : blends'[p] \in Sources /\ blends'[p] = blends'[q] => p = q
    BY <1>1, <1>2, BlendAssumption DEF IInv, TypeOK
  <2>3. \A p \in Objects : blends'[p] \in Sources => blends'[p] \in opened' /\ blends'[p].fault = "none"
    BY <1>1, <1>2, BlendAssumption DEF IInv, TypeOK, Move
  <2> QED BY <2>1, <2>2, <2>3 DEF IInv, TypeOK, Move, Disturb
<1>4. \A s \in Sources : Lives(s) => Lives(s)'
  BY <1>1, <1>2, BlendAssumption DEF Lives
<1>5. Refers'
  BY <1>1, <1>2, <1>4, BlendAssumption DEF IInv, TypeOK, Refers, Move
<1> QED BY <1>3, <1>5

LEMMA AssignKeeps ==
  ASSUME IInv, NEW from \in Objects, NEW to \in Objects, Assign(from, to)
  PROVE  TypeOK' /\ Refers'
<1> USE DEF Holds, IsType
<1>1. /\ blends' = [blends EXCEPT ![to] = blends[from], ![from] = MovedFrom]
      /\ blends[from] \in Sources /\ from # to
  BY DEF Assign
<1>2. /\ blends'[to] = blends[from] /\ blends'[from] = MovedFrom
      /\ \A p \in Objects \ {from, to} : blends'[p] = blends[p]
  BY <1>1 DEF IInv, TypeOK
<1>3. TypeOK'
  <2>1. blends' \in [Objects -> Sources \cup {Dead, MovedFrom}]
    BY <1>1 DEF IInv, TypeOK
  <2>2. \A p, q \in Objects : blends'[p] \in Sources /\ blends'[p] = blends'[q] => p = q
    BY <1>1, <1>2, BlendAssumption DEF IInv, TypeOK
  <2>3. \A p \in Objects : blends'[p] \in Sources => blends'[p] \in opened' /\ blends'[p].fault = "none"
    BY <1>1, <1>2, BlendAssumption DEF IInv, TypeOK, Assign
  <2> QED BY <2>1, <2>2, <2>3 DEF IInv, TypeOK, Assign, Disturb, Spoil
<1>4. ASSUME IsType, ~spoiled'
      PROVE  /\ criterion.source # blends[to]
             /\ criterion.object = to => criterion.source = blends[from]
  BY <1>4 DEF Assign, Spoil, Loses
<1>5. Refers'
  <2> SUFFICES ASSUME IsType', ~spoiled'
               PROVE  /\ criterion'.source \in Sources
                      /\ Lives(criterion.source)'
                      /\ blends'[criterion'.object] \in {criterion'.source, MovedFrom}
    BY DEF Refers
  <2>1. criterion' = criterion /\ IsType /\ ~spoiled
    BY DEF Assign, Spoil
  <2>2. Lives(criterion.source)'
    <3>1. PICK q \in Objects : blends[q] = criterion.source
      BY <2>1 DEF IInv, Refers, Lives
    <3>2. q # to
      BY <1>4, <2>1, <3>1
    <3> QED BY <1>2, <2>1, <3>1, <3>2 DEF Lives
  <2> QED BY <1>2, <1>4, <2>1, <2>2 DEF IInv, TypeOK, Refers
<1> QED BY <1>3, <1>5

LEMMA DestroyKeeps ==
  ASSUME IInv, NEW o \in Objects, Destroy(o)
  PROVE  TypeOK' /\ Refers'
<1> USE DEF Holds, IsType
<1>1. blends' = [blends EXCEPT ![o] = Dead]
  BY DEF Destroy
<1>2. blends'[o] = Dead /\ \A p \in Objects \ {o} : blends'[p] = blends[p]
  BY <1>1 DEF IInv, TypeOK
<1>3. TypeOK'
  BY <1>1, <1>2, BlendAssumption DEF IInv, TypeOK, Destroy, Disturb, Spoil
<1>4. Refers'
  <2> SUFFICES ASSUME IsType', ~spoiled'
               PROVE  /\ criterion'.source \in Sources
                      /\ Lives(criterion.source)'
                      /\ blends'[criterion'.object] \in {criterion'.source, MovedFrom}
    BY DEF Refers
  <2>1. /\ criterion' = criterion /\ IsType /\ ~spoiled
        /\ criterion.source # blends[o]
        /\ criterion.object = o => criterion.source = Dead
    BY DEF Destroy, Spoil, Loses
  <2>2. PICK q \in Objects : blends[q] = criterion.source
    BY <2>1 DEF IInv, Refers, Lives
  <2>3. q # o /\ criterion.object # o
    BY <2>1, <2>2, BlendAssumption DEF IInv, Refers
  <2> QED BY <1>2, <2>1, <2>2, <2>3 DEF IInv, TypeOK, Refers, Lives
<1> QED BY <1>3, <1>4

LEMMA CriterionKeeps ==
  ASSUME IInv, NEW c, SetCriterion(c),
         \/ c = Gone
         \/ \E code \in Codes : c = Code(code)
         \/ \E o \in Objects, slot \in Int : Holds(o) /\ c = Type(o, blends[o], slot)
  PROVE  TypeOK' /\ Refers'
<1>1. CASE IsType'
  <2>1. PICK o \in Objects, slot \in Int : Holds(o) /\ c = Type(o, blends[o], slot)
    BY <1>1 DEF SetCriterion, IsType, Code
  <2>2. criterion'.object = o /\ criterion'.source = blends[o]
    BY <2>1 DEF SetCriterion, Type
  <2>3. UNCHANGED <<blends, opened, view>> /\ disturbed' \in BOOLEAN /\ spoiled' \in BOOLEAN
    BY DEF SetCriterion, IInv, TypeOK
  <2> QED BY <2>1, <2>2, <2>3 DEF IInv, TypeOK, Refers, Holds, Lives
<1>2. CASE ~IsType'
  BY <1>2 DEF SetCriterion, IInv, TypeOK, Refers, Holds
<1> QED BY <1>1, <1>2

LEMMA ViewsKeep ==
  ASSUME IInv, \/ Lookup \/ BeginPass \/ Advance \/ \E o \in Objects : GetBlocks(o)
  PROVE  TypeOK' /\ Refers'
<1>1. UNCHANGED <<blends, opened, criterion, spoiled>>
  BY DEF Lookup, BeginPass, Advance, GetBlocks
<1>2. disturbed' \in BOOLEAN
  BY Zenon DEF Lookup, BeginPass, Advance, GetBlocks, IInv, TypeOK
<1>3. view' # NoView => view'.object \in Objects
  <2>1. CASE Lookup
    BY <2>1 DEF Lookup, IInv, TypeOK
  <2>2. CASE BeginPass \/ Advance
    <3>1. view # NoView /\ view.object \in Objects
      BY <2>2 DEF BeginPass, Advance, IInv, TypeOK
    <3>2. ASSUME NEW i, GoTo(i) PROVE view' = view \/ view'.object = view.object
      <4>1. CASE IsReadable
        <5>1. \E f, g, h : view' = [object |-> view.object, first |-> f, of |-> g, it |-> h]
          BY <3>2, <4>1, Zenon DEF GoTo
        <5> QED BY <5>1
      <4>2. CASE ~IsReadable
        BY <3>2, <4>2, Zenon DEF GoTo
      <4> QED BY <4>1, <4>2
    <3> QED BY <2>2, <3>1, <3>2 DEF BeginPass, Advance
  <2>3. CASE \E o \in Objects : GetBlocks(o)
    BY <2>3 DEF GetBlocks
  <2> QED BY <2>1, <2>2, <2>3
<1> QED BY <1>1, <1>2, <1>3 DEF IInv, TypeOK, Refers, IsType, Holds, Lives

-----------------------------------------------------------------------------
(* What a type answers, as long as nothing that it refers to is gone.      *)
LEMMA LookupAnswers ==
  ASSUME IInv, Lookup, ~spoiled
  PROVE  ret' \in {"nothing", criterion.source.name}
<1>1. /\ IsType /\ Lives(criterion.source) /\ criterion.source \in Sources
      /\ blends[criterion.object] \in {criterion.source, MovedFrom}
  BY DEF Lookup, IInv, Refers
<1>2. blends[criterion.object] # Dead
  BY <1>1, BlendAssumption
<1>3. CASE blends[criterion.object] = MovedFrom
  <2>1. ~Holds(criterion.object)
    BY <1>3, BlendAssumption DEF Holds
  <2> QED BY <1>1, <1>2, <1>3, <2>1, Zenon DEF Lookup
<1>4. CASE blends[criterion.object] # MovedFrom
  <2>1. blends[criterion.object] = criterion.source /\ Holds(criterion.object)
    BY <1>1, <1>4 DEF Holds
  <2> QED BY <1>1, <1>2, <1>4, <2>1, Zenon DEF Lookup
<1> QED BY <1>3, <1>4

Harmless == {"none", "opened", "nothing", "undefined"} \cup {ErrorOf(stage) : stage \in Stages}

LEMMA StepKeeps == IInv /\ [Next]_vars => IInv'
<1> SUFFICES ASSUME IInv, [Next]_vars PROVE IInv'
  OBVIOUS
<1>1. ASSUME NEW o \in Objects, NEW s \in Sources, Open(o, s) PROVE IInv'
  <2>1. ret' \in Harmless
    BY <1>1, BlendAssumption DEF Open, Harmless, IsSource
  <2> QED BY <1>1, <2>1, OpenKeeps DEF IInv, TypesAnswerFromTheirFile, Harmless
<1>2. ASSUME NEW from \in Objects, NEW to \in Objects, Move(from, to) PROVE IInv'
  BY <1>2, MoveKeeps DEF IInv, TypesAnswerFromTheirFile, Move
<1>3. ASSUME NEW from \in Objects, NEW to \in Objects, Assign(from, to) PROVE IInv'
  BY <1>3, AssignKeeps DEF IInv, TypesAnswerFromTheirFile, Assign
<1>4. ASSUME NEW o \in Objects, Destroy(o) PROVE IInv'
  BY <1>4, DestroyKeeps DEF IInv, TypesAnswerFromTheirFile, Destroy
<1>5. ASSUME NEW o \in Objects, GetType(o) PROVE IInv'
  <2>1. PICK slot \in Int : Holds(o) /\ SetCriterion(Type(o, blends[o], slot))
    BY <1>5 DEF GetType
  <2> QED BY <2>1, CriterionKeeps DEF IInv, TypesAnswerFromTheirFile, SetCriterion
<1>6. ASSUME NEW c \in Codes, SetCode(c) PROVE IInv'
  BY <1>6, CriterionKeeps DEF SetCode, IInv, TypesAnswerFromTheirFile, SetCriterion
<1>7. CASE Drop
  BY <1>7, CriterionKeeps DEF Drop, IInv, TypesAnswerFromTheirFile, SetCriterion
<1>8. ASSUME NEW o \in Objects, GetBlocks(o) PROVE IInv'
  BY <1>8, ViewsKeep DEF IInv, TypesAnswerFromTheirFile, GetBlocks
<1>9. CASE Lookup
  <2>1. UNCHANGED <<criterion, spoiled>>
    BY <1>9 DEF Lookup
  <2> QED BY <1>9, <2>1, LookupAnswers, ViewsKeep DEF IInv, TypesAnswerFromTheirFile
<1>10. CASE BeginPass \/ Advance
  <2>1. ret' \in {"none", "undefined"}
    BY <1>10 DEF BeginPass, Advance, GoTo
  <2> QED BY <1>10, <2>1, ViewsKeep DEF IInv, TypesAnswerFromTheirFile
<1>11. CASE UNCHANGED vars
  BY <1>11 DEF vars, IInv, TypeOK, Refers, TypesAnswerFromTheirFile, IsType, Holds, Lives
<1> QED
  BY <1>1, <1>2, <1>3, <1>4, <1>5, <1>6, <1>7, <1>8, <1>9, <1>10, <1>11 DEF Next

(* Every variable keeps its type; in particular no Blend is in two objects *)
(* and none is in an object that has not been opened.                      *)
THEOREM TypeCorrect == Spec => []TypeOK
<1>1. IInv => TypeOK
  BY DEF IInv
<1> QED BY InitHolds, StepKeeps, <1>1, PTL DEF Spec

(* A type whose references are intact answers from its own file, or finds  *)
(* nothing after its Blend has moved on, and never anything else.          *)
THEOREM TypesAlwaysAnswerFromTheirFile == Spec => []TypesAnswerFromTheirFile
<1>1. IInv => TypesAnswerFromTheirFile
  BY DEF IInv
<1> QED BY InitHolds, StepKeeps, <1>1, PTL DEF Spec

-----------------------------------------------------------------------------
(***************************************************************************)
(* Views.  The blocks that a view is to select, by their places:           *)
(***************************************************************************)
Hits(o) == {i \in 1 .. Len(Blocks(o)) : Matches(o, Blocks(o)[i])}

(* As long as nothing that a view refers to has changed, it can be read;   *)
(* what it remembers is the first hit, and a pass has handed out the hits  *)
(* up to where it is.                                                      *)
ViewKept ==
  view # NoView /\ ~disturbed =>
    /\ ret # "undefined"
    /\ blends[view.object] # Dead /\ criterion # Gone /\ view.of = blends[view.object]
    /\ IsType => Lives(criterion.source)
    /\ view.first \in {0, NextMatch(view.object, 0)}
    /\ view.it \in 0 .. Len(Blocks(view.object)) + 1
    /\ handed \in Seq(1 .. Len(Blocks(view.object))) /\ IsAscending(handed)
    /\ Range(handed) = {i \in Hits(view.object) : i <= view.it}

(* A type that was found is in a slot other than 0.                        *)
CriterionKept ==
  criterion # Gone =>
    /\ criterion.kind \in {"code", "type"}
    /\ criterion.kind = "type" => criterion.slot \in Nat \ {0} /\ criterion.source \in Sources

(* A non-empty set of naturals has a least element: an interval from 0 to  *)
(* one of its elements is finite, and one of these contains no other.      *)
LEMMA LeastElement ==
  ASSUME NEW S \in SUBSET Nat, S # {}
  PROVE  \E k \in S : \A j \in S : k <= j
<1> DEFINE Upto(k) == 0 .. k
           T       == {Upto(k) : k \in S}
<1>1. PICK k \in S : \A j \in S : ~(<<Upto(j), Upto(k)>> \in StrictSubsetOrdering(Nat))
  <2>1. ASSUME NEW k \in S PROVE IsFiniteSet(Upto(k)) /\ Upto(k) \in SUBSET Nat
    BY FS_Interval
  <2>2. T \subseteq FiniteSubsetsOf(Nat) /\ T # {}
    BY <2>1 DEF FiniteSubsetsOf
  <2>3. \E x \in T : \A y \in T : ~(<<y, x>> \in StrictSubsetOrdering(Nat))
    <3> HIDE DEF T
    <3> QED BY <2>2, FS_StrictSubsetOrderingWellFounded, WFMin
  <2> QED BY <2>3
<1>2. ASSUME NEW j \in S, j < k PROVE FALSE
  <2>1. /\ Upto(j) \in SUBSET Nat /\ Upto(k) \in SUBSET Nat
        /\ Upto(j) \subseteq Upto(k) /\ Upto(k) # Upto(j)
    BY <1>2
  <2> HIDE DEF Upto
  <2> QED BY <1>1, <2>1 DEF StrictSubsetOrdering
<1> QED BY <1>2

LEMMA MinIsLeast ==
  ASSUME NEW S \in SUBSET Nat, S # {}
  PROVE  Min(S) \in S /\ \A j \in S : Min(S) <= j
BY LeastElement DEF Min

LEMMA BlocksAre ==
  ASSUME TypeOK, NEW o \in Objects
  PROVE  /\ Len(Blocks(o)) \in Nat /\ DOMAIN Blocks(o) = 1 .. Len(Blocks(o))
         /\ Hits(o) \subseteq 1 .. Len(Blocks(o))
<1>1. CASE Holds(o)
  <2>1. Blocks(o) = blends[o].blocks /\ blends[o] \in Sources
    BY <1>1 DEF Blocks, Holds
  <2>2. Blocks(o) \in Seq([code : Codes, struct_index : Nat])
    BY <2>1, BlendAssumption DEF IsSource
  <2> QED BY <2>2, LenProperties DEF Hits
<1>2. CASE ~Holds(o)
  <2>1. Blocks(o) = <<>>
    BY <1>2 DEF Blocks
  <2>2. Blocks(o) \in Seq([code : Codes, struct_index : Nat])
    BY <2>1
  <2> QED BY <2>2, LenProperties DEF Hits
<1> QED BY <1>1, <1>2

(* NextMatch finds the next hit, or the end.                               *)
LEMMA NextMatchIs ==
  ASSUME TypeOK, NEW o \in Objects, NEW i \in 0 .. Len(Blocks(o))
  PROVE  /\ NextMatch(o, i) \in i + 1 .. Len(Blocks(o)) + 1
         /\ NextMatch(o, i) <= Len(Blocks(o)) => NextMatch(o, i) \in Hits(o)
         /\ \A j \in Hits(o) : j > i => NextMatch(o, i) <= j
<1> DEFINE N == Len(Blocks(o))
           I == {j \in i + 1 .. N : Matches(o, Blocks(o)[j])}
<1>1. N \in Nat /\ I \in SUBSET Nat /\ 0 \notin I
  BY BlocksAre
<1>2. I = {j \in Hits(o) : j > i}
  BY <1>1 DEF Hits
<1>3. NextMatch(o, i) = IF I # {} THEN Min(I) ELSE N + 1
  <2>1. NextMatch(o, i) = IF (IF I # {} THEN Min(I) ELSE 0) = 0 THEN N + 1 ELSE (IF I # {} THEN Min(I) ELSE 0)
    BY DEF NextMatch, SelectInSubSeq
  <2>2. I # {} => Min(I) \in I
    <3> HIDE DEF I
    <3> QED BY <1>1, MinIsLeast
  <2> HIDE DEF I
  <2> QED BY <1>1, <2>1, <2>2
<1>4. I # {} => Min(I) \in I /\ \A j \in I : Min(I) <= j
  <2> HIDE DEF I
  <2> QED BY <1>1, MinIsLeast
<1>5. I \subseteq i + 1 .. N
  OBVIOUS
<1>6. Hits(o) \subseteq 1 .. N
  BY BlocksAre
<1> HIDE DEF I, N
<1>7. CASE I # {}
  BY <1>1, <1>2, <1>3, <1>4, <1>5, <1>7 DEF N
<1>8. CASE I = {}
  BY <1>1, <1>2, <1>3, <1>6, <1>8 DEF N
<1> QED BY <1>7, <1>8

(* Hits depend on what the object holds and on the criterion only.         *)
LEMMA HitsKept ==
  ASSUME NEW o \in Objects, criterion' = criterion, blends'[o] = blends[o]
  PROVE  /\ Blocks(o)' = Blocks(o) /\ Hits(o)' = Hits(o)
         /\ NextMatch(o, 0)' = NextMatch(o, 0)
<1>1. Blocks(o)' = Blocks(o)
  BY DEF Blocks, Holds
<1>2. ASSUME NEW b PROVE Matches(o, b)' = Matches(o, b)
  BY DEF Matches, IsType
<1>3. Hits(o)' = Hits(o)
  BY <1>1, <1>2 DEF Hits
<1>4. NextMatch(o, 0)' = NextMatch(o, 0)
  <2> DEFINE I == {j \in 0 + 1 .. Len(Blocks(o)) : Matches(o, Blocks(o)[j])}
  <2>1. I' = I
    BY <1>1, <1>2
  <2>2. NextMatch(o, 0) = LET later == IF I # {} THEN Min(I) ELSE 0
                          IN  IF later = 0 THEN Len(Blocks(o)) + 1 ELSE later
    BY DEF NextMatch, SelectInSubSeq
  <2>3. NextMatch(o, 0)' = LET later == IF I' # {} THEN Min(I') ELSE 0
                           IN  IF later = 0 THEN Len(Blocks(o)') + 1 ELSE later
    BY DEF NextMatch, SelectInSubSeq
  <2> HIDE DEF I
  <2> QED BY <1>1, <2>1, <2>2, <2>3
<1> QED BY <1>1, <1>3, <1>4

(* A type matches the blocks that are meant: a block whose struct is not   *)
(* listed has no type, and slot 0 is never found.                          *)
LEMMA MeantAreHits ==
  ASSUME TypeOK, CriterionKept, view # NoView, criterion # Gone
  PROVE  Meant = Hits(view.object)
<1> DEFINE o == view.object
<1>1. o \in Objects /\ DOMAIN Blocks(o) = 1 .. Len(Blocks(o))
  BY BlocksAre DEF TypeOK
<1>2. ASSUME NEW i \in DOMAIN Blocks(o) PROVE IsMeant(Blocks(o)[i]) <=> Matches(o, Blocks(o)[i])
  <2> DEFINE b == Blocks(o)[i]
  <2>1. CASE ~IsType
    <3>1. criterion.kind = "code"
      BY <2>1 DEF CriterionKept, IsType
    <3> QED BY <2>1, <3>1 DEF IsMeant, Matches
  <2>2. CASE IsType
    <3>1. criterion.kind = "type" /\ criterion.slot # 0
      BY <2>2 DEF CriterionKept, IsType
    <3> HIDE DEF b
    <3>2. IsMeant(b) <=> /\ criterion.source = blends[o]
                         /\ b.struct_index + 1 \in DOMAIN criterion.source.struct_map
                         /\ criterion.source.struct_map[b.struct_index + 1] = criterion.slot
      BY <3>1, Zenon DEF IsMeant
    <3>3. Matches(o, b) <=> GetBlockType(blends[o], b) = criterion.slot /\ blends[o] = criterion.source
      BY <2>2 DEF Matches
    <3>4. ASSUME criterion.source = blends[o] PROVE IsMeant(b) <=> Matches(o, b)
      <4>1. CASE b.struct_index + 1 \in DOMAIN blends[o].struct_map
        <5>1. GetBlockType(blends[o], b) = blends[o].struct_map[b.struct_index + 1]
          BY <4>1 DEF GetBlockType
        <5> QED BY <3>2, <3>3, <3>4, <4>1, <5>1
      <4>2. CASE b.struct_index + 1 \notin DOMAIN blends[o].struct_map
        <5>1. GetBlockType(blends[o], b) = 0
          BY <4>2 DEF GetBlockType
        <5> QED BY <3>1, <3>2, <3>3, <3>4, <4>2, <5>1
      <4> QED BY <4>1, <4>2
    <3> QED BY <3>2, <3>3, <3>4 DEF b
  <2> QED BY <2>1, <2>2
<1> QED BY <1>1, <1>2 DEF Meant, Hits

-----------------------------------------------------------------------------
(* A step that does not touch the view keeps what is known of it if it     *)
(* leaves the object as it is and the Blend of the type somewhere.         *)
LEMMA UntouchedKeeps ==
  ASSUME TypeOK, ViewKept, UNCHANGED <<view, handed, criterion>>,
         view # NoView /\ ~disturbed' =>
           /\ ~disturbed /\ ret' # "undefined"
           /\ blends'[view.object] = blends[view.object]
           /\ IsType /\ Lives(criterion.source) => Lives(criterion.source)'
  PROVE  ViewKept'
<1> SUFFICES ASSUME view' # NoView, ~disturbed' PROVE ViewKept'
  BY DEF ViewKept
<1> DEFINE o == view.object
<1>1. view' = view /\ handed' = handed /\ criterion' = criterion
  OBVIOUS
<1>2. o \in Objects /\ ~disturbed /\ ret' # "undefined" /\ blends'[o] = blends[o]
  BY <1>1 DEF TypeOK
<1>3. /\ Blocks(o)' = Blocks(o) /\ Hits(o)' = Hits(o) /\ NextMatch(o, 0)' = NextMatch(o, 0)
  BY <1>1, <1>2, HitsKept
<1>4. IsType' = IsType /\ (IsType => Lives(criterion.source)')
  BY <1>1, <1>2 DEF IsType, ViewKept
<1>5. IsAscending(handed)' = IsAscending(handed) /\ Range(handed)' = Range(handed)
  BY <1>1
<1>6. /\ blends[o] # Dead /\ criterion # Gone /\ view.of = blends[o]
      /\ view.first \in {0, NextMatch(o, 0)}
      /\ view.it \in 0 .. Len(Blocks(o)) + 1
      /\ handed \in Seq(1 .. Len(Blocks(o))) /\ IsAscending(handed)
      /\ Range(handed) = {i \in Hits(o) : i <= view.it}
  BY <1>1, <1>2 DEF ViewKept
<1>7. /\ blends'[o] # Dead /\ view'.of = blends'[o]
      /\ view'.first \in {0, NextMatch(o, 0)'}
      /\ view'.it \in 0 .. Len(Blocks(o)') + 1
      /\ handed' \in Seq(1 .. Len(Blocks(o)')) /\ IsAscending(handed)'
      /\ Range(handed)' = {i \in Hits(o)' : i <= view'.it}
  BY <1>1, <1>2, <1>3, <1>5, <1>6
<1> QED BY <1>1, <1>2, <1>4, <1>6, <1>7 DEF ViewKept

LEMMA ObjectsKeepViews ==
  ASSUME IInv, CriterionKept, ViewKept,
         \/ \E o \in Objects, s \in Sources : Open(o, s)
         \/ \E from, to \in Objects : Move(from, to) \/ Assign(from, to)
         \/ \E o \in Objects : Destroy(o)
  PROVE  ViewKept'
<1>1. TypeOK /\ \A o \in Objects : blends[o] \in Sources \cup {Dead, MovedFrom}
  BY DEF IInv, TypeOK
<1>2. ASSUME NEW o \in Objects, NEW s \in Sources, Open(o, s) PROVE ViewKept'
  <2>1. /\ UNCHANGED <<view, handed, criterion, disturbed>> /\ blends[o] = Dead
        /\ blends' = blends \/ blends' = [blends EXCEPT ![o] = s]
    BY <1>2 DEF Open
  <2>2. ret' # "undefined"
    <3>1. CASE s.fault = "none"
      BY <1>2, <3>1 DEF Open
    <3>2. CASE s.fault # "none"
      <4>1. s.fault \in Stages /\ ret' = ErrorOf(s.fault)
        BY <1>2, <3>2, BlendAssumption DEF Open, IsSource
      <4> QED BY <4>1 DEF ErrorOf, Stages
    <3> QED BY <3>1, <3>2
  <2>3. \A p \in Objects : blends[p] # Dead => blends'[p] = blends[p]
    BY <2>1 DEF IInv, TypeOK
  <2>4. ASSUME view # NoView, ~disturbed, IsType
        PROVE  Lives(criterion.source)'
    <3>1. PICK p \in Objects : blends[p] = criterion.source
      BY <2>4 DEF ViewKept, Lives
    <3>2. blends[p] # Dead
      BY <2>4, <3>1, BlendAssumption DEF CriterionKept, IsType
    <3> QED BY <2>1, <2>3, <3>1, <3>2 DEF Lives
  <2>5. view # NoView /\ ~disturbed => blends'[view.object] = blends[view.object]
    BY <2>3 DEF ViewKept, IInv, TypeOK
  <2> QED BY <1>1, <2>1, <2>2, <2>4, <2>5, UntouchedKeeps
<1>3. ASSUME NEW from \in Objects, NEW to \in Objects, blends[from] \in Sources, from # to,
             blends' = [blends EXCEPT ![to] = blends[from], ![from] = MovedFrom],
             UNCHANGED <<view, handed, criterion>>, ret' = "none",
             view # NoView /\ ~disturbed' =>
               ~disturbed /\ view.object \notin {from, to} /\ ~(IsType /\ criterion.source = blends[to])
      PROVE  ViewKept'
  <2>1. /\ blends'[to] = blends[from]
        /\ \A p \in Objects \ {from, to} : blends'[p] = blends[p]
    BY <1>1, <1>3 DEF IInv, TypeOK
  <2>2. ASSUME view # NoView, ~disturbed', IsType, Lives(criterion.source)
        PROVE  Lives(criterion.source)'
    <3>1. PICK p \in Objects : blends[p] = criterion.source
      BY <2>2 DEF Lives
    <3>2. p # to /\ criterion' = criterion
      BY <1>3, <2>2, <3>1
    <3> QED BY <2>1, <3>1, <3>2 DEF Lives
  <2>3. view # NoView /\ ~disturbed' => blends'[view.object] = blends[view.object]
    BY <1>3, <2>1 DEF IInv, TypeOK
  <2> QED BY <1>1, <1>3, <2>2, <2>3, UntouchedKeeps
<1>4. ASSUME NEW from \in Objects, NEW to \in Objects, Move(from, to) PROVE ViewKept'
  <2>1. /\ blends[from] \in Sources /\ blends[to] = Dead /\ from # to
        /\ blends' = [blends EXCEPT ![to] = blends[from], ![from] = MovedFrom]
        /\ UNCHANGED <<view, handed, criterion>> /\ ret' = "none"
        /\ disturbed' = (disturbed \/ (view # NoView /\ view.object = from))
    BY <1>4, BlendAssumption DEF Move, Holds, Disturb
  <2>2. ASSUME view # NoView, ~disturbed'
        PROVE  ~disturbed /\ view.object \notin {from, to} /\ ~(IsType /\ criterion.source = blends[to])
    <3>1. ~disturbed /\ view.object # from /\ blends[view.object] # Dead
      BY <2>1, <2>2 DEF ViewKept
    <3>2. IsType => criterion.source # Dead
      BY BlendAssumption DEF CriterionKept, IsType
    <3> QED BY <2>1, <3>1, <3>2
  <2> QED BY <1>3, <2>1, <2>2
<1>5. ASSUME NEW from \in Objects, NEW to \in Objects, Assign(from, to) PROVE ViewKept'
  <2>1. /\ blends[from] \in Sources /\ from # to
        /\ blends' = [blends EXCEPT ![to] = blends[from], ![from] = MovedFrom]
        /\ UNCHANGED <<view, handed, criterion>> /\ ret' = "none"
        /\ disturbed' = (disturbed \/ (view # NoView /\ (view.object \in {from, to} \/ Loses(to))))
    BY <1>5 DEF Assign, Holds, Disturb
  <2>2. view # NoView /\ ~disturbed' =>
          ~disturbed /\ view.object \notin {from, to} /\ ~(IsType /\ criterion.source = blends[to])
    BY <2>1 DEF Loses
  <2> QED BY <1>3, <2>1, <2>2
<1>6. ASSUME NEW o \in Objects, Destroy(o) PROVE ViewKept'
  <2>1. /\ blends' = [blends EXCEPT ![o] = Dead]
        /\ UNCHANGED <<view, handed, criterion>> /\ ret' = "none"
        /\ disturbed' = (disturbed \/ (view # NoView /\ (view.object = o \/ Loses(o))))
    BY <1>6 DEF Destroy, Disturb
  <2>2. \A p \in Objects \ {o} : blends'[p] = blends[p]
    BY <2>1 DEF IInv, TypeOK
  <2>3. ASSUME view # NoView, ~disturbed', IsType, Lives(criterion.source)
        PROVE  Lives(criterion.source)'
    <3>1. PICK p \in Objects : blends[p] = criterion.source
      BY <2>3 DEF Lives
    <3>2. p # o /\ criterion' = criterion
      BY <2>1, <2>3, <3>1 DEF Loses
    <3> QED BY <2>2, <3>1, <3>2 DEF Lives
  <2>4. view # NoView /\ ~disturbed' => ~disturbed /\ blends'[view.object] = blends[view.object]
    BY <2>1, <2>2 DEF IInv, TypeOK
  <2> QED BY <1>1, <2>1, <2>3, <2>4, UntouchedKeeps
<1> QED BY <1>2, <1>4, <1>5, <1>6

LEMMA CriterionKeepsViews ==
  ASSUME IInv, ViewKept, NEW c, SetCriterion(c)
  PROVE  ViewKept'
<1>1. /\ UNCHANGED <<view, handed, blends>> /\ criterion' = c /\ ret' = "none"
      /\ disturbed' = (disturbed \/ (view # NoView /\ c # criterion))
  BY DEF SetCriterion
<1>2. CASE c = criterion
  BY <1>1, <1>2, UntouchedKeeps DEF IInv, Lives
<1>3. CASE c # criterion
  BY <1>1, <1>3 DEF ViewKept
<1> QED BY <1>2, <1>3

LEMMA LookupKeepsViews ==
  ASSUME IInv, ViewKept, Lookup
  PROVE  ViewKept'
<1>1. IsType /\ UNCHANGED <<blends, criterion, view, handed, disturbed>> /\ TypeOK
  BY DEF Lookup, IInv
<1>2. ret' # "undefined"
  <2>1. criterion.object \in Objects /\ blends[criterion.object] \in Sources \cup {Dead, MovedFrom}
    BY <1>1 DEF TypeOK
  <2>2. CASE ~Lives(criterion.source) \/ blends[criterion.object] = Dead
    <3>1. /\ ~(Lives(criterion.source) /\ blends[criterion.object] = MovedFrom)
          /\ ~(Lives(criterion.source) /\ Holds(criterion.object))
      BY <2>2, BlendAssumption DEF Holds
    <3>2. ret' = "dangling"
      BY <2>2, <3>1, Zenon DEF Lookup
    <3> QED BY <3>2
  <2>3. CASE Lives(criterion.source) /\ blends[criterion.object] = MovedFrom
    <3>1. ~Holds(criterion.object) /\ blends[criterion.object] # Dead
      BY <2>3, BlendAssumption DEF Holds
    <3>2. ret' = "nothing"
      BY <2>3, <3>1, Zenon DEF Lookup
    <3> QED BY <3>2
  <2>4. CASE Lives(criterion.source) /\ blends[criterion.object] \in Sources
    <3>1. /\ Holds(criterion.object)
          /\ blends[criterion.object] # Dead /\ blends[criterion.object] # MovedFrom
      BY <2>4, BlendAssumption DEF Holds
    <3>2. ret' = blends[criterion.object].name
      BY <2>4, <3>1, Zenon DEF Lookup
    <3> QED BY <2>4, <3>2, BlendAssumption DEF IsSource
  <2> QED BY <2>1, <2>2, <2>3, <2>4
<1> QED BY <1>1, <1>2, UntouchedKeeps DEF Lives

-----------------------------------------------------------------------------
(* A pass goes from one hit to the next one, and leaves none out.          *)
LEMMA PassGoesOn ==
  ASSUME IInv, ViewKept, view # NoView, NEW i, GoTo(i),
         i = 0 \/ (i = view.it /\ i \in 1 .. Len(Blocks(view.object))),
         UNCHANGED <<blends, criterion, disturbed>>
  PROVE  ViewKept'
<1> SUFFICES ASSUME ~disturbed PROVE ViewKept'
  BY DEF ViewKept
<1> DEFINE o     == view.object
           N     == Len(Blocks(o))
           first == IF view.first = 0 THEN NextMatch(o, 0) ELSE view.first
           it    == IF i = 0 THEN first ELSE NextMatch(o, i)
           past  == IF i = 0 THEN <<>> ELSE handed
           found == IF it \in DOMAIN Blocks(o) THEN <<it>> ELSE <<>>
           H(k)  == {j \in Hits(o) : j <= k}
<1>1. TypeOK /\ o \in Objects /\ N \in Nat /\ DOMAIN Blocks(o) = 1 .. N /\ Hits(o) \subseteq 1 .. N
  BY BlocksAre DEF IInv, TypeOK
<1>2. /\ blends[o] # Dead /\ criterion # Gone /\ view.of = blends[o]
      /\ IsType => Lives(criterion.source)
      /\ view.first \in {0, NextMatch(o, 0)}
      /\ handed \in Seq(1 .. N) /\ IsAscending(handed)
      /\ Range(handed) = H(view.it)
  BY DEF ViewKept
<1>3. IsReadable
  BY <1>2 DEF IsReadable
<1>4. first = NextMatch(o, 0) /\ it = NextMatch(o, i)
  BY <1>2
<1>5. i \in 0 .. N
  BY <1>1
<1>6. /\ it \in i + 1 .. N + 1
      /\ it <= N => it \in Hits(o)
      /\ \A j \in Hits(o) : j > i => it <= j
  BY <1>1, <1>4, <1>5, NextMatchIs
<1>7. /\ view' = [object |-> o, first |-> first, of |-> blends[o], it |-> it]
      /\ handed' = past \o found /\ ret' = "none"
  BY <1>3 DEF GoTo
<1> HIDE DEF first, it, N
<1>8. past \in Seq(1 .. N) /\ IsAscending(past) /\ Range(past) = H(i)
  <2>1. CASE i = 0
    <3>1. past = <<>> /\ H(i) = {}
      BY <1>1, <2>1
    <3>2. IsAscending(<<>>) /\ Range(<<>>) = {}
      BY DEF IsAscending, Range
    <3>3. <<>> \in Seq(1 .. N)
      OBVIOUS
    <3> HIDE DEF past, H
    <3> QED BY <3>1, <3>2, <3>3, Zenon
  <2>2. CASE i # 0
    BY <1>2, <2>2
  <2> QED BY <2>1, <2>2
<1> HIDE DEF past
<1>9. handed' \in Seq(1 .. N) /\ IsAscending(handed') /\ Range(handed') = H(it)
  <2>1. CASE it \notin 1 .. N
    <3>1. it = N + 1 /\ found = <<>>
      BY <1>1, <1>5, <1>6, <2>1
    <3>2. H(it) = H(i)
      BY <1>1, <1>6, <3>1
    <3>3. handed' = past
      BY <1>7, <1>8, <3>1, ConcatEmptySeq
    <3> QED BY <1>8, <3>2, <3>3
  <2>2. CASE it \in 1 .. N
    <3>1. found = <<it>> /\ it \in Hits(o)
      BY <1>1, <1>6, <2>2
    <3>2. H(it) = H(i) \cup {it}
      BY <1>1, <1>5, <1>6, <3>1
    <3> DEFINE L == Len(past)
    <3>3. L \in Nat /\ DOMAIN past = 1 .. L
      BY <1>8, LenProperties
    <3>4. handed' = Append(past, it)
      BY <1>7, <1>8, <2>2, <3>1, AppendIsConcat
    <3>5. /\ handed' \in Seq(1 .. N) /\ Len(handed') = L + 1
          /\ \A k \in 1 .. L : handed'[k] = past[k]
          /\ handed'[L + 1] = it
      BY <1>8, <2>2, <3>4, AppendProperties
    <3>6. DOMAIN handed' = 1 .. L + 1
      BY <3>5, LenProperties
    <3>7. \A k \in 1 .. L : past[k] \in H(i) /\ past[k] < it
      <4>1. \A k \in 1 .. L : past[k] \in Range(past)
        BY <3>3 DEF Range
      <4> QED BY <1>1, <1>5, <1>6, <1>8, <4>1
    <3> HIDE DEF L
    <3>8. IsAscending(handed')
      <4> SUFFICES ASSUME NEW k \in 1 .. L + 1, NEW m \in 1 .. L + 1, k < m PROVE handed'[k] < handed'[m]
        BY <3>6 DEF IsAscending
      <4>1. k \in 1 .. L /\ (m \in 1 .. L \/ m = L + 1)
        BY <3>3
      <4>2. CASE m = L + 1
        BY <3>5, <3>7, <4>1, <4>2
      <4>3. CASE m \in 1 .. L
        <5>1. past[k] < past[m]
          BY <1>8, <3>3, <4>1, <4>3 DEF IsAscending
        <5> QED BY <3>5, <4>1, <4>3, <5>1
      <4> QED BY <4>1, <4>2, <4>3
    <3>9. Range(handed') = Range(past) \cup {it}
      <4>1. Range(handed') = {handed'[k] : k \in 1 .. L + 1} /\ Range(past) = {past[k] : k \in 1 .. L}
        BY <3>3, <3>6 DEF Range
      <4>2. 1 .. L + 1 = 1 .. L \cup {L + 1}
        BY <3>3
      <4> QED BY <3>5, <4>1, <4>2
    <3> QED BY <1>8, <3>2, <3>5, <3>8, <3>9
  <2> QED BY <2>1, <2>2
<1>10. /\ view'.object = o /\ view'.first = first /\ view'.of = blends[o] /\ view'.it = it
       /\ blends' = blends /\ criterion' = criterion /\ ret' # "undefined"
  BY <1>7
<1>11. Blocks(o)' = Blocks(o) /\ Hits(o)' = Hits(o) /\ NextMatch(o, 0)' = NextMatch(o, 0)
  <2> SUFFICES ASSUME NEW p \in Objects
               PROVE  Blocks(p)' = Blocks(p) /\ Hits(p)' = Hits(p) /\ NextMatch(p, 0)' = NextMatch(p, 0)
    BY <1>1, <1>10
  <2> QED BY <1>10, HitsKept
<1>12. IsType' = IsType /\ (IsType => Lives(criterion.source)')
  BY <1>2, <1>10 DEF IsType, Lives
<1>13. IsAscending(handed)' /\ Range(handed)' = H(it)
  BY <1>9
<1>14. /\ Blocks(view.object)' = Blocks(o) /\ Hits(view.object)' = Hits(o)
       /\ NextMatch(view.object, 0)' = NextMatch(o, 0)
  BY <1>10, <1>11
<1> QED BY <1>1, <1>2, <1>4, <1>5, <1>6, <1>9, <1>10, <1>12, <1>13, <1>14 DEF ViewKept, N

LEMMA PassesKeepViews ==
  ASSUME IInv, ViewKept, BeginPass \/ Advance
  PROVE  ViewKept'
<1>1. view # NoView /\ UNCHANGED <<blends, criterion, disturbed>>
  BY DEF BeginPass, Advance
<1>2. CASE BeginPass
  <2>1. GoTo(0)
    BY <1>2 DEF BeginPass
  <2> QED BY <1>1, <2>1, PassGoesOn
<1>3. CASE Advance /\ ~disturbed
  <2>1. GoTo(view.it) /\ handed # <<>> /\ view.it = Last(handed)
    BY <1>3 DEF Advance
  <2>2. handed \in Seq(1 .. Len(Blocks(view.object)))
    BY <1>1, <1>3 DEF ViewKept
  <2>3. view.it \in 1 .. Len(Blocks(view.object))
    <3>1. Len(handed) \in 1 .. Len(handed)
      BY <2>1, <2>2, LenProperties, EmptySeq
    <3> QED BY <2>1, <2>2, <3>1, ElementOfSeq DEF Last
  <2> QED BY <1>1, <2>1, <2>3, PassGoesOn
<1>4. CASE disturbed
  BY <1>1, <1>4 DEF ViewKept
<1> QED BY <1>2, <1>3, <1>4

LEMMA NewViewIsKept ==
  ASSUME IInv, NEW o \in Objects, GetBlocks(o)
  PROVE  ViewKept'
<1>1. /\ blends[o] # Dead /\ criterion # Gone
      /\ view' = [object |-> o, first |-> 0, of |-> blends[o], it |-> 0]
      /\ handed' = <<>> /\ disturbed' = (IsType /\ ~Lives(criterion.source)) /\ ret' = "none"
      /\ blends' = blends /\ criterion' = criterion
  BY DEF GetBlocks
<1>2. view'.object = o /\ view'.first = 0 /\ view'.of = blends[o] /\ view'.it = 0
  BY <1>1
<1>3. TypeOK /\ Len(Blocks(o)) \in Nat /\ Hits(o) \subseteq 1 .. Len(Blocks(o))
  BY BlocksAre DEF IInv
<1>4. Blocks(o)' = Blocks(o) /\ Hits(o)' = Hits(o)
  BY <1>1, HitsKept
<1>5. Len(Blocks(view.object)') \in Nat /\ Hits(view.object)' \subseteq 1 .. Len(Blocks(view.object)')
  BY <1>2, <1>3, <1>4
<1>6. handed' \in Seq(1 .. Len(Blocks(view.object)')) /\ IsAscending(handed)'
      /\ Range(handed)' = {i \in Hits(view.object)' : i <= view'.it}
  <2>1. IsAscending(<<>>) /\ Range(<<>>) = {}
    BY DEF IsAscending, Range
  <2>2. {i \in Hits(view.object)' : i <= view'.it} = {}
    BY <1>2, <1>5
  <2> QED BY <1>1, <2>1, <2>2
<1>7. ~disturbed' => (IsType' => Lives(criterion.source)')
  BY <1>1 DEF IsType, Lives
<1> QED BY <1>1, <1>2, <1>5, <1>6, <1>7 DEF ViewKept

LEMMA CriterionStaysKept == IInv /\ CriterionKept /\ [Next]_vars => CriterionKept'
<1> SUFFICES ASSUME IInv, CriterionKept, [Next]_vars PROVE CriterionKept'
  OBVIOUS
<1>1. CASE criterion' = criterion
  BY <1>1 DEF CriterionKept
<1>2. ASSUME NEW o \in Objects, GetType(o) PROVE CriterionKept'
  <2>1. PICK slot \in 1 .. blends[o].type_count - 1 : SetCriterion(Type(o, blends[o], slot))
    BY <1>2 DEF GetType
  <2>2. blends[o] \in Sources /\ criterion' = Type(o, blends[o], slot)
    BY <1>2, <2>1 DEF GetType, Holds, SetCriterion
  <2> QED BY <2>2 DEF CriterionKept, Type
<1>3. ASSUME NEW c \in Codes, SetCode(c) PROVE CriterionKept'
  BY <1>3 DEF SetCode, SetCriterion, Code, CriterionKept
<1>4. CASE Drop
  BY <1>4 DEF Drop, SetCriterion, CriterionKept
<1> QED
  BY <1>1, <1>2, <1>3, <1>4
  DEF Next, vars, Open, Move, Assign, Destroy, GetBlocks, Lookup, BeginPass, Advance

LEMMA ViewsStayKept ==
  IInv /\ CriterionKept /\ ViewKept /\ [Next]_vars => ViewKept'
<1> SUFFICES ASSUME IInv, CriterionKept, ViewKept, [Next]_vars PROVE ViewKept'
  OBVIOUS
<1>1. ASSUME NEW o \in Objects, GetType(o) PROVE ViewKept'
  <2>1. PICK c : SetCriterion(c)
    BY <1>1 DEF GetType
  <2> QED BY <2>1, CriterionKeepsViews
<1>2. ASSUME NEW c \in Codes, SetCode(c) PROVE ViewKept'
  BY <1>2, CriterionKeepsViews DEF SetCode
<1>3. CASE Drop
  BY <1>3, CriterionKeepsViews DEF Drop
<1>4. CASE UNCHANGED vars
  BY <1>4, UntouchedKeeps DEF vars, IInv, Lives, ViewKept
<1> QED
  BY <1>1, <1>2, <1>3, <1>4, ObjectsKeepViews, LookupKeepsViews, PassesKeepViews, NewViewIsKept DEF Next

(* While nothing that a view refers to changes, every pass over it hands   *)
(* out exactly the blocks of its code or type, in the order of the file,   *)
(* whatever happens to the other objects: the filters, which keep          *)
(* references, and the first block that a view remembers stay right.       *)
THEOREM ViewsAlwaysSelectExactly == Spec => []ViewsSelectExactly
<1>1. Init => CriterionKept /\ ViewKept
  BY DEF Init, CriterionKept, ViewKept
<1>2. IInv /\ CriterionKept /\ ViewKept => ViewsSelectExactly
  <2> SUFFICES ASSUME IInv, CriterionKept, ViewKept, view # NoView, ~disturbed
               PROVE  /\ ret # "undefined" /\ IsAscending(handed)
                      /\ Range(handed) = {i \in Meant : i <= view.it}
                      /\ GetBlock(view.object) = (IF Meant = {} THEN <<>> ELSE <<Min(Meant)>>)
                      /\ GetBlockCount(view.object) = Cardinality(Meant)
    BY DEF ViewsSelectExactly
  <2> DEFINE o == view.object
             N == Len(Blocks(o))
  <2>1. TypeOK /\ o \in Objects /\ N \in Nat /\ DOMAIN Blocks(o) = 1 .. N /\ Hits(o) \subseteq 1 .. N
    BY BlocksAre DEF IInv, TypeOK
  <2>2. Meant = Hits(o)
    BY <2>1, MeantAreHits DEF ViewKept
  <2>3. GetBlockCount(o) = Cardinality(Meant)
    BY <2>1, <2>2 DEF GetBlockCount, Hits
  <2>4. /\ NextMatch(o, 0) \in 1 .. N + 1
        /\ NextMatch(o, 0) <= N => NextMatch(o, 0) \in Hits(o)
        /\ \A j \in Hits(o) : NextMatch(o, 0) <= j
    BY <2>1, NextMatchIs
  <2>5. GetBlock(o) = (IF Meant = {} THEN <<>> ELSE <<Min(Meant)>>)
    <3>1. CASE Meant = {}
      <4>1. NextMatch(o, 0) \notin DOMAIN Blocks(o)
        BY <2>1, <2>2, <2>4, <3>1
      <4> QED BY <3>1, <4>1 DEF GetBlock
    <3>2. CASE Meant # {}
      <4>1. Min(Meant) \in Hits(o) /\ \A j \in Hits(o) : Min(Meant) <= j
        BY <2>1, <2>2, <3>2, MinIsLeast
      <4>2. NextMatch(o, 0) = Min(Meant) /\ NextMatch(o, 0) \in DOMAIN Blocks(o)
        BY <2>1, <2>4, <4>1
      <4> QED BY <3>2, <4>2 DEF GetBlock
    <3> QED BY <3>1, <3>2
  <2> QED BY <2>2, <2>3, <2>5 DEF ViewKept
<1> QED BY InitHolds, StepKeeps, CriterionStaysKept, ViewsStayKept, <1>1, <1>2, PTL DEF Spec

-----------------------------------------------------------------------------
(***************************************************************************)
(* Query strings.                                                          *)
(***************************************************************************)
(* A number with a property that some have and that the next one of one    *)
(* that has it has too: there is no first one without it.                  *)
LEMMA NoneIsFirst ==
  ASSUME NEW N \in Nat, NEW S, 0 \in S, \A i \in 1 .. N : i - 1 \in S => i \in S
  PROVE  0 .. N \subseteq S
<1> DEFINE Bad == {i \in 0 .. N : i \notin S}
<1>1. Bad \in SUBSET Nat
  OBVIOUS
<1>2. Bad = {}
  <2> SUFFICES ASSUME Bad # {} PROVE FALSE
    OBVIOUS
  <2>1. PICK i \in Bad : \A j \in Bad : i <= j
    <3> HIDE DEF Bad
    <3> QED BY <1>1, LeastElement
  <2>2. i \in 1 .. N /\ i - 1 \in 0 .. N /\ ~(i <= i - 1)
    OBVIOUS
  <2>3. i - 1 \in S
    BY <2>1, <2>2
  <2> QED BY <2>1, <2>2, <2>3
<1> QED BY <1>2

-----------------------------------------------------------------------------
(* A sequence each of whose elements comes from the one before it exists.  *)
Iterates(h, N, start, Step) ==
  h[0] = start /\ \A i \in 1 .. N : h[i] = Step[i][h[i - 1]]

LEMMA Iteration ==
  ASSUME NEW N \in Nat, NEW V, NEW start \in V, NEW Step,
         \A i \in 1 .. N : \A v \in V : Step[i][v] \in V
  PROVE  \E h \in [0 .. N -> V] : Iterates(h, N, start, Step)
<1> DEFINE Is(h, n) == h[0] = start /\ \A i \in 1 .. n : h[i] = Step[i][h[i - 1]]
           S == {n \in 0 .. N : \E h \in [0 .. n -> V] : Is(h, n)}
<1>1. 0 \in S
  <2> DEFINE h == [i \in 0 .. 0 |-> start]
  <2>1. h \in [0 .. 0 -> V] /\ Is(h, 0)
    OBVIOUS
  <2> HIDE DEF Is, h
  <2> QED BY <2>1
<1>2. ASSUME NEW n \in 1 .. N, n - 1 \in S PROVE n \in S
  <2>0. n \in Nat /\ n - 1 \in Nat
    OBVIOUS
  <2>1. PICK h \in [0 .. n - 1 -> V] : Is(h, n - 1)
    <3> HIDE DEF Is
    <3> QED BY <1>2
  <2> DEFINE g == [i \in 0 .. n |-> IF i = n THEN Step[n][h[n - 1]] ELSE h[i]]
  <2>2. g \in [0 .. n -> V]
    <3>1. h[n - 1] \in V
      BY <2>0
    <3>3. Step[n][h[n - 1]] \in V
      BY <3>1
    <3>2. \A i \in 0 .. n : i = n \/ i \in 0 .. n - 1
      BY <2>0
    <3> QED BY <3>3, <3>2
  <2>3. \A i \in 0 .. n - 1 : g[i] = h[i]
    BY <2>0
  <2>4. g[n] = Step[n][h[n - 1]] /\ n - 1 \in 0 .. n - 1
    BY <2>0
  <2> HIDE DEF g
  <2>5. Is(g, n)
    <3>1. g[0] = start
      BY <2>0, <2>1, <2>3
    <3>2. ASSUME NEW i \in 1 .. n PROVE g[i] = Step[i][g[i - 1]]
      <4>1. i - 1 \in 0 .. n - 1 /\ (i = n \/ (i \in 1 .. n - 1 /\ i \in 0 .. n - 1))
        BY <2>0
      <4>2. g[i - 1] = h[i - 1]
        BY <2>3, <4>1
      <4> QED BY <2>1, <2>3, <2>4, <4>1, <4>2
    <3> QED BY <3>1, <3>2
  <2> HIDE DEF Is
  <2> QED BY <2>2, <2>5
<1>3. N \in S
  <2> HIDE DEF S
  <2> QED BY <1>1, <1>2, NoneIsFirst
<1> QED BY <1>3 DEF Iterates

(* A search upwards ends: the function that it computes exists, and is the *)
(* first place from each on that is in the set.                            *)
Searches(f, L, S) == \A i \in 0 .. L : f[i] = IF i \in S THEN i ELSE f[i + 1]

LEMMA SearchExists ==
  ASSUME NEW L \in Nat, NEW S \in SUBSET (0 .. L), L \in S
  PROVE  \E f : f = [i \in 0 .. L |-> f[i]] /\ Searches(f, L, S)
<1> DEFINE From(i) == {j \in S : i <= j}
           f == [i \in 0 .. L |-> Min(From(i))]
<1>1. ASSUME NEW i \in 0 .. L PROVE f[i] = IF i \in S THEN i ELSE f[i + 1]
  <2>1. From(i) \in SUBSET Nat /\ L \in From(i)
    <3>1. From(i) \subseteq S /\ S \subseteq Nat
      OBVIOUS
    <3>2. i <= L
      OBVIOUS
    <3> QED BY <3>1, <3>2
  <2>2. CASE i \in S
    <3>1. i \in From(i) /\ \A j \in From(i) : i <= j
      BY <2>2
    <3>2. Min(From(i)) \in From(i) /\ Min(From(i)) <= i
      <4> HIDE DEF From
      <4> QED BY <2>1, <3>1, MinIsLeast
    <3>3. Min(From(i)) = i
      <4>1. Min(From(i)) \in Nat /\ i <= Min(From(i))
        <5> HIDE DEF From
        <5> QED BY <2>1, <3>1, <3>2
      <4> HIDE DEF From
      <4> QED BY <3>2, <4>1
    <3> QED BY <2>2, <3>3
  <2>3. CASE i \notin S
    <3>1. i + 1 \in 0 .. L
      BY <2>3
    <3>2. \A j \in S : i <= j <=> i + 1 <= j
      <4> TAKE j \in S
      <4>1. j \in Nat /\ j # i
        BY <2>3
      <4> QED BY <4>1
    <3>3. From(i) = From(i + 1)
      BY <3>2
    <3>4. f[i + 1] = Min(From(i + 1))
      BY <3>1
    <3> QED BY <2>3, <3>3, <3>4
  <2> QED BY <2>2, <2>3
<1>2. f = [i \in 0 .. L |-> f[i]]
  OBVIOUS
<1> HIDE DEF f
<1> QED BY <1>1, <1>2 DEF Searches

LEMMA SearchFinds ==
  ASSUME NEW L \in Nat, NEW S \in SUBSET (0 .. L), L \in S, NEW f, Searches(f, L, S), NEW p \in 0 .. L
  PROVE  f[p] \in S /\ f[p] \in p .. L /\ \A j \in p .. f[p] - 1 : j \notin S
<1> DEFINE Good(i) == f[i] \in S /\ f[i] \in i .. L /\ \A j \in i .. f[i] - 1 : j \notin S
           D == {d \in 0 .. L : Good(L - d)}
<1>1. 0 \in D
  <2>1. f[L] = L
    BY DEF Searches
  <2> QED BY <2>1
<1>2. ASSUME NEW d \in 1 .. L, d - 1 \in D PROVE d \in D
  <2> DEFINE i == L - d
  <2>1. i \in 0 .. L /\ i + 1 \in 0 .. L /\ L - (d - 1) = i + 1
    OBVIOUS
  <2>2. Good(i + 1)
    BY <1>2, <2>1
  <2>3. CASE i \in S
    <3>1. f[i] = i
      BY <2>1, <2>3 DEF Searches
    <3> QED BY <2>1, <2>3, <3>1
  <2>4. CASE i \notin S
    <3>1. f[i] = f[i + 1]
      BY <2>1, <2>4 DEF Searches
    <3> HIDE DEF i
    <3>2. f[i] \in S /\ f[i] \in i .. L
      BY <2>1, <2>2, <3>1
    <3>3. ASSUME NEW j \in i .. f[i] - 1 PROVE j \notin S
      <4>1. j = i \/ j \in i + 1 .. f[i + 1] - 1
        BY <2>1, <3>1, <3>2
      <4> QED BY <2>2, <2>4, <4>1
    <3>4. Good(i)
      BY <3>2, <3>3
    <3> HIDE DEF Good
    <3> QED BY <3>4 DEF i
  <2> QED BY <2>3, <2>4
<1>3. L - p \in 0 .. L /\ L - (L - p) = p
  OBVIOUS
<1>4. L - p \in D
  <2> HIDE DEF D
  <2>1. 0 .. L \subseteq D
    BY <1>1, <1>2, NoneIsFirst
  <2> QED BY <1>3, <2>1
<1> QED BY <1>3, <1>4

(* Where a token ends, and where the next one begins.                      *)
LEMMA EndFromIs ==
  ASSUME NEW L \in Nat, NEW source, Len(source) = L, NEW p \in 0 .. L
  PROVE  /\ EndFrom(source, p) \in p .. L
         /\ EndFrom(source, p) = L \/ IsDelimiter(source[EndFrom(source, p) + 1])
         /\ \A j \in p .. EndFrom(source, p) - 1 : ~IsDelimiter(source[j + 1])
<1> DEFINE S == {i \in 0 .. L : i = L \/ IsDelimiter(source[i + 1])}
           Body(h, i) == IF i = L \/ IsDelimiter(source[i + 1]) THEN i ELSE h[i + 1]
           Is(h) == h = [i \in 0 .. L |-> Body(h, i)]
           end == CHOOSE h : Is(h)
<1>1. S \in SUBSET (0 .. L) /\ L \in S
  OBVIOUS
<1>2. \E h : Is(h)
  <2>1. PICK h : h = [i \in 0 .. L |-> h[i]] /\ Searches(h, L, S)
    <3> HIDE DEF S
    <3> QED BY <1>1, SearchExists
  <2>2. \A i \in 0 .. L : h[i] = Body(h, i)
    BY <2>1 DEF Searches
  <2> HIDE DEF Body
  <2> QED BY <2>1, <2>2
<1>3. Is(end)
  <2> HIDE DEF Is
  <2> QED BY <1>2
<1>4. EndFrom(source, p) = end[p]
  BY DEF EndFrom
<1> HIDE DEF end
<1>5. Searches(end, L, S)
  BY <1>3 DEF Searches
<1>6. end[p] \in S /\ end[p] \in p .. L /\ \A j \in p .. end[p] - 1 : j \notin S
  <2> HIDE DEF S, Is
  <2> QED BY <1>1, <1>5, SearchFinds
<1>7. \A j \in p .. end[p] - 1 : j \in 0 .. L
  BY <1>6
<1> QED BY <1>4, <1>6, <1>7

LEMMA SkipEmptyIs ==
  ASSUME NEW L \in Nat, NEW source, Len(source) = L, NEW p \in 0 .. L
  PROVE  /\ SkipEmpty(source, p) \in p .. L
         /\ SkipEmpty(source, p) = L \/ ~IsDelimiter(source[SkipEmpty(source, p) + 1])
         /\ \A j \in p .. SkipEmpty(source, p) - 1 : IsDelimiter(source[j + 1])
<1> DEFINE S == {i \in 0 .. L : i = L \/ ~IsDelimiter(source[i + 1])}
           Body(h, i) == IF EndFrom(source, i) = i /\ i < L THEN h[i + 1] ELSE i
           Is(h) == h = [i \in 0 .. L |-> Body(h, i)]
           begin == CHOOSE h : Is(h)
<1>1. S \in SUBSET (0 .. L) /\ L \in S
  OBVIOUS
<1>2. ASSUME NEW i \in 0 .. L PROVE (EndFrom(source, i) = i /\ i < L) <=> i \notin S
  <2>1. CASE i = L
    BY <2>1
  <2>2. CASE i # L
    <3> DEFINE e == EndFrom(source, i)
    <3>1. e \in i .. L /\ (e = L \/ IsDelimiter(source[e + 1])) /\ \A j \in i .. e - 1 : ~IsDelimiter(source[j + 1])
      BY EndFromIs
    <3> HIDE DEF e
    <3>2. e # i => i \in i .. e - 1
      BY <3>1
    <3>3. e = i <=> IsDelimiter(source[i + 1])
      BY <2>2, <3>1, <3>2
    <3> QED BY <2>2, <3>3 DEF e
  <2> QED BY <2>1, <2>2
<1>3. \E h : Is(h)
  <2>1. PICK h : h = [i \in 0 .. L |-> h[i]] /\ Searches(h, L, S)
    <3> HIDE DEF S
    <3> QED BY <1>1, SearchExists
  <2>2. \A i \in 0 .. L : h[i] = Body(h, i)
    <3> HIDE DEF S
    <3> QED BY <1>2, <2>1 DEF Searches
  <2> HIDE DEF Body
  <2> QED BY <2>1, <2>2
<1>4. Is(begin)
  <2> HIDE DEF Is
  <2> QED BY <1>3
<1>5. SkipEmpty(source, p) = begin[p]
  BY DEF SkipEmpty
<1> HIDE DEF begin
<1>6. Searches(begin, L, S)
  <2>1. \A i \in 0 .. L : begin[i] = IF EndFrom(source, i) = i /\ i < L THEN begin[i + 1] ELSE i
    BY <1>4
  <2> HIDE DEF S, Is
  <2> QED BY <1>2, <2>1 DEF Searches
<1>7. begin[p] \in S /\ begin[p] \in p .. L /\ \A j \in p .. begin[p] - 1 : j \notin S
  <2> HIDE DEF S, Is
  <2> QED BY <1>1, <1>6, SearchFinds
<1>8. \A j \in p .. begin[p] - 1 : j \in 0 .. L
  BY <1>7
<1> QED BY <1>5, <1>7, <1>8

-----------------------------------------------------------------------------
(***************************************************************************)
(* The inductive invariant of the query strings.  The tokenizer stands on  *)
(* a run or at the end, and what it has collected are the runs before it;  *)
(* a token is made of characters that no delimiter is among.               *)
(***************************************************************************)
TokenChars == Chars \ {"."}

Early(p) == {run \in Runs : run[2] < p}

Collects(source, texts, early) ==
  \E runs \in [DOMAIN texts -> early] :
    /\ Range(runs) = early
    /\ \A m, n \in DOMAIN texts : m < n => runs[m][2] < runs[n][1]
    /\ \A n \in DOMAIN texts : texts[n] = SubSeq(source, runs[n][1] + 1, runs[n][2])

Standing ==
  /\ m_Position < size => IsRun(m_Position, m_Next)
  /\ at # "tokenize" => m_Position = size

QueryIInv ==
  /\ QueryTypeOK /\ Standing /\ Collects(m_Source, tokens, Early(m_Position)) /\ QueriesAreWhole
  /\ tokens \in Seq(Seq(TokenChars) \ {<<>>})

LEMMA SourceFacts ==
  ASSUME NEW input \in Seq(Chars), m_Source = Append(input, "NUL")
  PROVE  /\ size \in Nat \ {0} /\ m_Source \in Seq(Chars \cup {"NUL"})
         /\ \A k \in 0 .. size - 2 : Char(k) \in Chars
         /\ IsDelimiter(Char(size - 1))
<1> DEFINE n == Len(input)
<1>1. n \in Nat /\ DOMAIN input = 1 .. n /\ \A k \in 1 .. n : input[k] \in Chars
  BY LenProperties, ElementOfSeq
<1>2. input \in Seq(Chars \cup {"NUL"})
  BY <1>1
<1>3. /\ m_Source \in Seq(Chars \cup {"NUL"}) /\ Len(m_Source) = n + 1
      /\ \A k \in 1 .. n : m_Source[k] = input[k]
      /\ m_Source[n + 1] = "NUL"
  BY <1>2, AppendProperties
<1> HIDE DEF n
<1>4. size = n + 1
  BY <1>3 DEF size
<1>5. ASSUME NEW k \in 0 .. size - 2 PROVE Char(k) \in Chars
  <2>1. k + 1 \in 1 .. n
    BY <1>1, <1>4
  <2> QED BY <1>1, <1>3, <2>1 DEF Char
<1>6. Char(size - 1) = "NUL"
  <2>1. (size - 1) + 1 = n + 1
    BY <1>1, <1>4
  <2> QED BY <1>3, <2>1 DEF Char
<1> QED BY <1>1, <1>3, <1>4, <1>5, <1>6 DEF IsDelimiter, Delimiters

LEMMA StandingFacts ==
  ASSUME QueryTypeOK
  PROVE  /\ size \in Nat \ {0} /\ m_Source \in Seq(Chars \cup {"NUL"})
         /\ \A k \in 0 .. size - 2 : Char(k) \in Chars
         /\ IsDelimiter(Char(size - 1))
         /\ m_Position \in 0 .. size /\ m_Next \in m_Position .. size
<1>1. Front(m_Source) \in Seq(Chars) /\ m_Source = Append(Front(m_Source), "NUL")
  BY DEF QueryTypeOK
<1> QED BY <1>1, SourceFacts DEF QueryTypeOK

(* The position behind the delimiters from p on: nothing ends before it    *)
(* that does not end before p, and it is the beginning of a run or the end.*)
LEMMA StandsBehind ==
  ASSUME size \in Nat \ {0}, IsDelimiter(Char(size - 1)), NEW p \in 0 .. size,
         p = 0 \/ IsDelimiter(Char(p - 1))
  PROVE  LET next == SkipEmpty(m_Source, p)
             end  == EndFrom(m_Source, next)
         IN  /\ next \in p .. size /\ end \in next .. size
             /\ next < size => IsRun(next, end)
             /\ \A k \in p .. next - 1 : IsDelimiter(Char(k))
<1> DEFINE next == SkipEmpty(m_Source, p)
           end  == EndFrom(m_Source, next)
<1>1. /\ next \in p .. size
      /\ next = size \/ ~IsDelimiter(Char(next))
      /\ \A k \in p .. next - 1 : IsDelimiter(Char(k))
  BY SkipEmptyIs DEF size, Char
<1>2. next \in 0 .. size
  BY <1>1
<1>3. /\ end \in next .. size
      /\ end = size \/ IsDelimiter(Char(end))
      /\ \A k \in next .. end - 1 : ~IsDelimiter(Char(k))
  BY <1>2, EndFromIs DEF size, Char
<1> HIDE DEF next, end
<1>4. ASSUME next < size PROVE IsRun(next, end)
  <2>1. ~IsDelimiter(Char(next))
    BY <1>1, <1>4
  <2>2. end # next
    BY <1>3, <1>4, <2>1
  <2>3. end # size
    <3>1. size - 1 \in next .. size - 1
      BY <1>1, <1>4
    <3> QED BY <1>3, <3>1
  <2>4. next = 0 \/ IsDelimiter(Char(next - 1))
    <3>1. CASE next = p
      BY <3>1
    <3>2. CASE next # p
      <4>1. next - 1 \in p .. next - 1
        BY <1>1, <3>2
      <4> QED BY <1>1, <4>1
    <3> QED BY <3>1, <3>2
  <2>5. next < end
    BY <1>1, <1>3, <2>2
  <2> QED BY <1>3, <2>3, <2>4, <2>5 DEF IsRun
<1> QED BY <1>1, <1>3, <1>4 DEF next, end

(* A run that ends before a position behind delimiters ends before them.   *)
LEMMA RunsAreBetween ==
  ASSUME size \in Nat, NEW p \in 0 .. size, NEW next \in p .. size,
         \A k \in p .. next - 1 : IsDelimiter(Char(k)),
         NEW run \in Early(next)
  PROVE  run[2] <= p
<1>1. run[1] \in 0 .. size - 1 /\ run[2] \in 0 .. size - 1 /\ run[2] < next /\ IsRun(run[1], run[2])
  BY DEF Early, Runs
<1>2. run[1] < run[2] /\ ~IsDelimiter(Char(run[2] - 1))
  <2>1. run[1] < run[2] /\ run[2] - 1 \in run[1] .. run[2] - 1
    BY <1>1 DEF IsRun
  <2> QED BY <1>1, <2>1 DEF IsRun
<1>3. ASSUME run[2] > p PROVE FALSE
  <2>1. run[2] - 1 \in p .. next - 1
    BY <1>1, <1>3
  <2> QED BY <1>2, <2>1
<1> QED BY <1>1, <1>3

(* Two runs that overlap are the same one.                                 *)
LEMMA RunsAreApart ==
  ASSUME NEW i \in Nat, NEW j \in Nat, NEW k \in Nat, NEW l \in Nat,
         IsRun(i, j), IsRun(k, l), k <= j, i <= l
  PROVE  i = k /\ j = l
<1>1. ASSUME NEW a \in Nat, NEW b \in Nat, NEW c \in Nat, NEW d \in Nat,
             IsRun(a, b), IsRun(c, d), c <= b, a <= d, a < c
      PROVE  FALSE
  <2>1. c - 1 \in a .. b - 1 /\ c # 0
    BY <1>1
  <2> QED BY <1>1, <2>1 DEF IsRun
<1>2. ASSUME NEW a \in Nat, NEW b \in Nat, NEW d \in Nat, IsRun(a, b), IsRun(a, d), b < d
      PROVE  FALSE
  <2>1. b \in a .. d - 1
    BY <1>2 DEF IsRun
  <2> QED BY <1>2, <2>1 DEF IsRun
<1>3. ~(i < k) /\ ~(k < i)
  BY <1>1
<1>4. i = k
  BY <1>3
<1>5. ~(j < l) /\ ~(l < j)
  BY <1>2, <1>4
<1> QED BY <1>4, <1>5

(* What only the source decides stays as it is while the source does.      *)
LEMMA SourceStays ==
  ASSUME m_Source' = m_Source
  PROVE  size' = size /\ Runs' = Runs /\ \A i, j : IsRun(i, j)' <=> IsRun(i, j)
<1>1. size' = size
  BY DEF size
<1>2. \A k : Char(k)' = Char(k)
  BY DEF Char
<1>3. \A i, j : IsRun(i, j)' <=> IsRun(i, j)
  BY <1>2 DEF IsRun
<1>4. Runs' = Runs
  BY <1>1, <1>3 DEF Runs
<1> QED BY <1>1, <1>3, <1>4

LEMMA FrontOfAppend ==
  ASSUME NEW S, NEW s \in Seq(S), NEW e \in S
  PROVE  Front(Append(s, e)) = s
<1> DEFINE n == Len(s)
           t == Append(s, e)
           f == SubSeq(t, 1, n)
<1>1. /\ n \in Nat /\ t \in Seq(S) /\ Len(t) = n + 1 /\ \A i \in 1 .. n : t[i] = s[i]
  BY AppendProperties, LenProperties
<1> HIDE DEF n, t
<1>2. f \in Seq(S) /\ Len(f) = n /\ \A i \in 1 .. n : f[i] = t[i]
  BY <1>1, SubSeqProperties
<1>3. Len(t) - 1 = n
  BY <1>1
<1>4. Front(t) = f
  BY <1>3 DEF Front
<1> HIDE DEF f
<1>5. f = s
  BY <1>1, <1>2, SeqEqual DEF n
<1> QED BY <1>4, <1>5 DEF t

LEMMA QueryInitHolds == QueryInit => QueryIInv
<1> SUFFICES ASSUME QueryInit PROVE QueryIInv
  OBVIOUS
<1>1. PICK input \in Inputs : m_Source = Append(input, "NUL")
  BY DEF QueryInit
<1>2. /\ m_Position = SkipEmpty(m_Source, 0) /\ m_Next = EndFrom(m_Source, m_Position)
      /\ tokens = <<>> /\ m_Tokens = <<>> /\ at = "tokenize"
  BY DEF QueryInit
<1>3. input \in Seq(Chars)
  BY QueryStringAssumption
<1>4. /\ size \in Nat \ {0} /\ m_Source \in Seq(Chars \cup {"NUL"})
      /\ IsDelimiter(Char(size - 1))
  BY <1>1, <1>3, SourceFacts
<1>5. /\ m_Position \in 0 .. size /\ m_Next \in m_Position .. size
      /\ m_Position < size => IsRun(m_Position, m_Next)
      /\ \A k \in 0 .. m_Position - 1 : IsDelimiter(Char(k))
  <2>1. 0 \in 0 .. size
    BY <1>4
  <2> QED BY <1>2, <1>4, <2>1, StandsBehind
<1>6. Front(m_Source) = input
  <2>1. input \in Seq(Chars \cup {"NUL"})
    BY <1>3, SeqMonotonic
  <2> QED BY <1>1, <2>1, FrontOfAppend
<1>7. QueryTypeOK
  <2>1. tokens \in Seq(Seq(Chars) \ {<<>>}) /\ m_Tokens \in Seq(Query)
    BY <1>2
  <2> QED BY <1>1, <1>2, <1>3, <1>5, <1>6, <2>1 DEF QueryTypeOK
<1>8. Collects(m_Source, tokens, Early(m_Position))
  <2>1. ASSUME NEW run \in Early(m_Position) PROVE FALSE
    <3>1. run[2] <= 0 /\ run[1] \in Nat /\ run[2] \in Nat /\ run[1] < run[2]
      BY <1>4, <1>5, RunsAreBetween DEF Early, Runs, IsRun
    <3> QED BY <3>1
  <2>2. Early(m_Position) = {}
    BY <2>1
  <2> DEFINE runs == <<>>
  <2>3. runs \in [DOMAIN tokens -> Early(m_Position)] /\ Range(runs) = {} /\ DOMAIN tokens = {}
    BY <1>2 DEF Range
  <2> QED BY <2>2, <2>3 DEF Collects
<1>9. Standing /\ QueriesAreWhole /\ tokens \in Seq(Seq(TokenChars) \ {<<>>})
  BY <1>2, <1>5 DEF Standing, QueriesAreWhole
<1> QED BY <1>7, <1>8, <1>9 DEF QueryIInv

(* The runs that end before the next position are those before and the     *)
(* one that the tokenizer stands on.                                       *)
LEMMA NextRun ==
  ASSUME QueryTypeOK, Standing, m_Position < size,
         NEW next \in m_Next + 1 .. size, \A k \in m_Next + 1 .. next - 1 : IsDelimiter(Char(k))
  PROVE  /\ Early(next) = Early(m_Position) \cup {<<m_Position, m_Next>>}
         /\ m_Position < m_Next /\ m_Next < size
<1> DEFINE p == m_Position
           q == m_Next
<1>1. /\ size \in Nat \ {0} /\ p \in 0 .. size /\ q \in p .. size /\ IsDelimiter(Char(size - 1))
      /\ IsRun(p, q)
  BY StandingFacts DEF Standing
<1> HIDE DEF p, q
<1>2. p < q /\ IsDelimiter(Char(q)) /\ q < size
  <2>1. p < q /\ IsDelimiter(Char(q)) /\ \A k \in p .. q - 1 : ~IsDelimiter(Char(k))
    BY <1>1 DEF IsRun
  <2>2. q = size => size - 1 \in p .. q - 1
    BY <1>1, <2>1
  <2>3. q # size
    BY <1>1, <2>1, <2>2
  <2> QED BY <1>1, <2>1, <2>3
<1>3. next \in q + 1 .. size /\ \A k \in q .. next - 1 : IsDelimiter(Char(k))
  <2>1. next \in q + 1 .. size
    BY DEF q
  <2>2. \A k \in q .. next - 1 : k = q \/ k \in q + 1 .. next - 1
    BY <1>1, <2>1
  <2>3. \A k \in q + 1 .. next - 1 : IsDelimiter(Char(k))
    BY DEF q
  <2> QED BY <1>2, <2>1, <2>2, <2>3
<1>4. <<p, q>> \in Early(next)
  <2>1. p \in 0 .. size - 1 /\ q \in 0 .. size - 1 /\ q < next
    BY <1>1, <1>2, <1>3
  <2> QED BY <1>1, <2>1 DEF Early, Runs
<1>5. ASSUME NEW run \in Early(p) PROVE run \in Early(next)
  <2>1. run \in Runs /\ run[2] \in 0 .. size - 1 /\ run[2] < p
    BY DEF Early, Runs
  <2>2. run[2] < next
    BY <1>1, <1>2, <1>3, <2>1
  <2> QED BY <2>1, <2>2 DEF Early
<1>6. ASSUME NEW run \in Early(next) PROVE run \in Early(p) \cup {<<p, q>>}
  <2>1. /\ run \in Runs /\ run[1] \in Nat /\ run[2] \in Nat /\ IsRun(run[1], run[2]) /\ run[1] < run[2]
        /\ run = <<run[1], run[2]>>
    BY <1>1 DEF Early, Runs, IsRun
  <2>2. run[2] <= q
    <3>1. q \in 0 .. size /\ next \in q .. size
      BY <1>1, <1>2, <1>3
    <3> QED BY <1>1, <1>3, <3>1, RunsAreBetween
  <2>3. CASE run[2] < p
    BY <2>1, <2>3 DEF Early
  <2>4. CASE ~(run[2] < p)
    <3>1. run[1] <= q /\ p <= run[2] /\ p \in Nat /\ q \in Nat
      BY <1>1, <2>1, <2>2, <2>4
    <3>2. run[1] = p /\ run[2] = q
      BY <1>1, <2>1, <3>1, RunsAreApart
    <3> QED BY <2>1, <3>2
  <2> QED BY <2>3, <2>4
<1> QED BY <1>2, <1>4, <1>5, <1>6 DEF p, q

(* The text of a run.                                                      *)
LEMMA RunText ==
  ASSUME QueryTypeOK, Standing, m_Position < size, m_Position < m_Next, m_Next < size
  PROVE  SubSeq(m_Source, m_Position + 1, m_Next) \in Seq(TokenChars) \ {<<>>}
<1> DEFINE p == m_Position
           q == m_Next
           text == SubSeq(m_Source, p + 1, q)
<1>1. /\ size \in Nat \ {0} /\ p \in Nat /\ q \in Nat /\ p < q /\ q <= size - 1
      /\ m_Source \in Seq(Chars \cup {"NUL"}) /\ size = Len(m_Source)
      /\ \A k \in 0 .. size - 2 : Char(k) \in Chars
      /\ \A k \in p .. q - 1 : ~IsDelimiter(Char(k))
  BY StandingFacts DEF Standing, IsRun, size
<1> HIDE DEF p, q
<1>2. ASSUME NEW i \in p + 1 .. q PROVE m_Source[i] \in TokenChars
  <2>1. i - 1 \in p .. q - 1 /\ i - 1 \in 0 .. size - 2 /\ (i - 1) + 1 = i
    BY <1>1
  <2>2. m_Source[i] = Char(i - 1)
    BY <2>1 DEF Char
  <2> QED BY <1>1, <2>1, <2>2 DEF IsDelimiter, Delimiters, TokenChars
<1>3. text \in Seq(TokenChars) /\ Len(text) = IF p + 1 <= q THEN q - (p + 1) + 1 ELSE 0
  <2>1. p + 1 \in Int /\ q \in Int
    BY <1>1
  <2> QED BY <1>2, <2>1, SubSeqProperties
<1> HIDE DEF text
<1>4. Len(text) # 0
  BY <1>1, <1>3
<1>5. text # <<>>
  BY <1>4, EmptySeq
<1> QED BY <1>3, <1>5 DEF text, p, q

LEMMA CollectKeeps ==
  ASSUME QueryIInv, Collect
  PROVE  QueryIInv'
<1> DEFINE next == SkipEmpty(m_Source, m_Next + 1)
           run  == <<m_Position, m_Next>>
           text == SubSeq(m_Source, m_Position + 1, m_Next)
           N    == Len(tokens)
<1>1. /\ at = "tokenize" /\ m_Position < size
      /\ tokens' = Append(tokens, text)
      /\ m_Position' = next /\ m_Next' = EndFrom(m_Source, next)
      /\ UNCHANGED <<m_Source, m_Tokens, at>>
  BY DEF Collect
<1>2. /\ QueryTypeOK /\ Standing /\ Collects(m_Source, tokens, Early(m_Position))
      /\ tokens \in Seq(Seq(TokenChars) \ {<<>>})
  BY DEF QueryIInv
<1>3. /\ size \in Nat \ {0} /\ IsDelimiter(Char(size - 1))
      /\ m_Position \in 0 .. size /\ m_Next \in m_Position .. size
      /\ IsRun(m_Position, m_Next)
  BY <1>1, <1>2, StandingFacts DEF Standing
<1>4. m_Position < m_Next /\ m_Next < size /\ IsDelimiter(Char(m_Next))
  <2>1. size \in m_Next + 1 .. size \/ m_Next = size
    BY <1>3
  <2>2. m_Next # size
    <3>1. m_Next = size => size - 1 \in m_Position .. m_Next - 1
      BY <1>1, <1>3
    <3> QED BY <1>3, <3>1 DEF IsRun
  <2> QED BY <1>3, <2>1, <2>2 DEF IsRun
<1>5. /\ next \in m_Next + 1 .. size
      /\ m_Next' \in next .. size
      /\ next < size => IsRun(next, m_Next')
      /\ \A k \in m_Next + 1 .. next - 1 : IsDelimiter(Char(k))
  <2>1. m_Next + 1 \in 0 .. size /\ (m_Next + 1) - 1 = m_Next
    BY <1>3, <1>4
  <2> QED BY <1>1, <1>3, <1>4, <2>1, StandsBehind
<1> HIDE DEF next
<1>6. Early(next) = Early(m_Position) \cup {run}
  BY <1>1, <1>2, <1>5, NextRun
<1>7. text \in Seq(TokenChars) \ {<<>>} /\ text \in Seq(Chars) \ {<<>>}
  <2>1. text \in Seq(TokenChars) \ {<<>>}
    BY <1>1, <1>2, <1>4, RunText
  <2> HIDE DEF text
  <2>2. TokenChars \subseteq Chars
    BY DEF TokenChars
  <2> QED BY <2>1, <2>2, SeqMonotonic
<1>8. /\ N \in Nat /\ DOMAIN tokens = 1 .. N
      /\ tokens' \in Seq(Seq(TokenChars) \ {<<>>}) /\ tokens' \in Seq(Seq(Chars) \ {<<>>})
      /\ DOMAIN tokens' = 1 .. N + 1
      /\ \A n \in 1 .. N : tokens'[n] = tokens[n]
      /\ tokens'[N + 1] = text
  <2>1. tokens \in Seq(Seq(Chars) \ {<<>>})
    BY <1>2 DEF QueryTypeOK
  <2> HIDE DEF text
  <2>2. /\ tokens' \in Seq(Seq(TokenChars) \ {<<>>}) /\ tokens' \in Seq(Seq(Chars) \ {<<>>})
        /\ Len(tokens') = N + 1
        /\ \A n \in 1 .. N : tokens'[n] = tokens[n]
        /\ tokens'[N + 1] = text
    BY <1>1, <1>2, <1>7, <2>1, AppendProperties
  <2>3. N \in Nat /\ DOMAIN tokens = 1 .. N /\ DOMAIN tokens' = 1 .. Len(tokens')
    BY <2>1, <2>2, LenProperties
  <2> QED BY <2>2, <2>3
<1> HIDE DEF text, N
<1>9. Collects(m_Source, tokens', Early(next))
  <2>1. PICK runs \in [1 .. N -> Early(m_Position)] :
          /\ Range(runs) = Early(m_Position)
          /\ \A m, n \in 1 .. N : m < n => runs[m][2] < runs[n][1]
          /\ \A n \in 1 .. N : tokens[n] = SubSeq(m_Source, runs[n][1] + 1, runs[n][2])
    BY <1>2, <1>8 DEF Collects
  <2> DEFINE more == [n \in 1 .. N + 1 |-> IF n = N + 1 THEN run ELSE runs[n]]
  <2>2. \A n \in 1 .. N + 1 : n = N + 1 \/ n \in 1 .. N
    BY <1>8
  <2>3. /\ DOMAIN more = 1 .. N + 1 /\ more[N + 1] = run
        /\ \A n \in 1 .. N : more[n] = runs[n]
    BY <1>8
  <2>4. more \in [1 .. N + 1 -> Early(next)]
    <3> HIDE DEF run
    <3>1. \A n \in 1 .. N + 1 : (IF n = N + 1 THEN run ELSE runs[n]) \in Early(next)
      BY <1>6, <2>1, <2>2
    <3> QED BY <3>1
  <2> HIDE DEF more
  <2>5. Range(more) = Early(next)
    <3>1. ASSUME NEW r \in Early(next) PROVE \E n \in 1 .. N + 1 : more[n] = r
      <4>1. CASE r = run
        <5>1. N + 1 \in 1 .. N + 1
          BY <1>8
        <5> QED BY <2>3, <4>1, <5>1
      <4>2. CASE r \in Early(m_Position)
        <5>1. PICK n \in 1 .. N : runs[n] = r
          BY <2>1, <4>2 DEF Range
        <5>2. n \in 1 .. N + 1
          BY <1>8
        <5> QED BY <2>3, <5>1, <5>2
      <4> QED BY <1>6, <4>1, <4>2
    <3>2. \A n \in 1 .. N + 1 : more[n] \in Early(next)
      BY <2>4
    <3> QED BY <2>3, <3>1, <3>2 DEF Range
  <2>6. ASSUME NEW m \in 1 .. N + 1, NEW n \in 1 .. N + 1, m < n PROVE more[m][2] < more[n][1]
    <3>1. m \in 1 .. N
      BY <1>8, <2>6
    <3>2. CASE n = N + 1
      <4>1. runs[m] \in Early(m_Position)
        BY <2>1, <3>1
      <4>2. runs[m][2] < m_Position
        BY <4>1 DEF Early
      <4>3. more[n][1] = m_Position
        BY <2>3, <3>2
      <4> QED BY <2>3, <3>1, <4>2, <4>3
    <3>3. CASE n \in 1 .. N
      BY <2>1, <2>3, <2>6, <3>1, <3>3
    <3> QED BY <2>2, <3>2, <3>3
  <2>7. ASSUME NEW n \in 1 .. N + 1
        PROVE  tokens'[n] = SubSeq(m_Source, more[n][1] + 1, more[n][2])
    <3>1. CASE n = N + 1
      BY <1>8, <2>3, <3>1 DEF text
    <3>2. CASE n \in 1 .. N
      BY <1>8, <2>1, <2>3, <3>2
    <3> QED BY <2>2, <3>1, <3>2
  <2> QED BY <1>8, <2>4, <2>5, <2>6, <2>7 DEF Collects
<1>10. Collects(m_Source, tokens, Early(m_Position))'
  <2>1. Early(m_Position)' = Early(next)
    BY <1>1, SourceStays DEF Early
  <2> QED BY <1>1, <1>9, <2>1
<1>11. Standing'
  BY <1>1, <1>5, SourceStays DEF Standing
<1>12. QueryTypeOK'
  <2>1. next \in 0 .. size
    BY <1>3, <1>5
  <2> QED BY <1>1, <1>2, <1>5, <1>8, <2>1 DEF QueryTypeOK, size
<1>13. QueriesAreWhole'
  BY <1>1 DEF QueriesAreWhole
<1> QED BY <1>8, <1>10, <1>11, <1>12, <1>13 DEF QueryIInv

LEMMA EndTokensKeeps ==
  ASSUME QueryIInv, EndTokens
  PROVE  QueryIInv'
<1>1. /\ at' = "create" /\ m_Position = size
      /\ UNCHANGED <<m_Source, m_Position, m_Next, tokens, m_Tokens>>
  BY DEF EndTokens
<1>2. QueryTypeOK' /\ QueriesAreWhole'
  BY <1>1 DEF QueryIInv, QueryTypeOK, QueriesAreWhole, size
<1>3. Early(m_Position)' = Early(m_Position)
  BY <1>1, SourceStays DEF Early
<1>4. Standing' /\ Collects(m_Source, tokens, Early(m_Position))'
  BY <1>1, <1>3, SourceStays DEF QueryIInv, Standing
<1> QED BY <1>1, <1>2, <1>4 DEF QueryIInv

-----------------------------------------------------------------------------
(* The fold that weighs the digits of an index.  A function on the subsets *)
(* of an interval whose value for one comes from that for the set without  *)
(* one of its elements exists: among those that follow the rule so many    *)
(* times over, one more time changes nothing for a set with no more        *)
(* elements.                                                               *)
LEMMA SubsetFacts ==
  ASSUME NEW n \in Nat, NEW s \in SUBSET (1 .. n)
  PROVE  /\ Cardinality(s) \in 0 .. n
         /\ Cardinality(s) = 0 <=> s = {}
         /\ \A x \in s : Cardinality(s \ {x}) = Cardinality(s) - 1
<1>1. IsFiniteSet(1 .. n) /\ Cardinality(1 .. n) = n
  BY FS_Interval
<1>2. IsFiniteSet(s) /\ Cardinality(s) \in Nat /\ Cardinality(s) <= n
  BY <1>1, FS_Subset, FS_CardinalityType
<1>3. Cardinality(s) = 0 <=> s = {}
  BY <1>2, FS_EmptySet
<1>4. \A x \in s : Cardinality(s \ {x}) = Cardinality(s) - 1
  BY <1>2, FS_RemoveElement
<1> QED BY <1>2, <1>3, <1>4

FoldsTo(h, n, base, pick, Step) ==
  \A s \in SUBSET (1 .. n) :
    h[s] = IF s = {} THEN base ELSE Step[pick[s]][h[s \ {pick[s]}]]

LEMMA SetRecursion ==
  ASSUME NEW n \in Nat, NEW V, NEW base \in V, NEW pick, NEW Step,
         \A s \in SUBSET (1 .. n) : s # {} => pick[s] \in s,
         \A x \in 1 .. n : \A v \in V : Step[x][v] \in V
  PROVE  \E h \in [SUBSET (1 .. n) -> V] : FoldsTo(h, n, base, pick, Step)
<1> DEFINE P == SUBSET (1 .. n)
           W == [P -> V]
           Next1(g, s) == IF s = {} THEN base ELSE Step[pick[s]][g[s \ {pick[s]}]]
           Rule == [k \in 1 .. n + 1 |-> [g \in W |-> [s \in P |-> Next1(g, s)]]]
           start == [s \in P |-> base]
<1>0. \A s \in P : s # {} => pick[s] \in 1 .. n /\ pick[s] \in s /\ s \ {pick[s]} \in P
  OBVIOUS
<1>1. ASSUME NEW k \in 1 .. n + 1, NEW g \in W PROVE Rule[k][g] \in W /\ \A s \in P : Rule[k][g][s] = Next1(g, s)
  <2>1. ASSUME NEW s \in P PROVE Next1(g, s) \in V
    <3>1. CASE s = {}
      BY <3>1
    <3>2. CASE s # {}
      <4>1. g[s \ {pick[s]}] \in V
        BY <1>0, <3>2
      <4> QED BY <1>0, <3>2, <4>1
    <3> QED BY <3>1, <3>2
  <2>2. Rule[k][g] = [s \in P |-> Next1(g, s)]
    <3> HIDE DEF Next1, W, P
    <3> QED OBVIOUS
  <2> HIDE DEF Next1, Rule
  <2> QED BY <2>1, <2>2
<1>2. start \in W
  OBVIOUS
<1>3. PICK H \in [0 .. n + 1 -> W] : Iterates(H, n + 1, start, Rule)
  <2>1. n + 1 \in Nat
    OBVIOUS
  <2> HIDE DEF W, Rule, start
  <2> QED BY <1>1, <1>2, <2>1, Iteration
<1>4. ASSUME NEW k \in 1 .. n + 1, NEW s \in P PROVE H[k][s] = Next1(H[k - 1], s)
  <2>1. k - 1 \in 0 .. n + 1
    OBVIOUS
  <2>2. H[k - 1] \in W /\ H[k] = Rule[k][H[k - 1]]
    <3> HIDE DEF W, Rule, start
    <3> QED BY <1>3, <2>1 DEF Iterates
  <2> HIDE DEF W, Rule, Next1, P
  <2> QED BY <1>1, <2>2
<1>5. \A s \in P : H[0][s] = base
  BY <1>3 DEF Iterates
<1> HIDE DEF Rule, start
<1> DEFINE S == {k \in 0 .. n : \A s \in P : Cardinality(s) <= k => H[k][s] = H[k + 1][s]}
<1>6. 0 \in S
  <2>1. ASSUME NEW s \in P, Cardinality(s) <= 0 PROVE H[0][s] = H[0 + 1][s]
    <3>1. s = {}
      <4>1. Cardinality(s) \in Nat
        BY SubsetFacts
      <4> QED BY <2>1, <4>1, SubsetFacts
    <3>2. 0 + 1 \in 1 .. n + 1
      OBVIOUS
    <3>3. H[0 + 1][s] = base
      BY <1>4, <3>1, <3>2
    <3> QED BY <1>5, <3>3
  <2> QED BY <2>1
<1>7. ASSUME NEW k \in 1 .. n, k - 1 \in S PROVE k \in S
  <2>1. ASSUME NEW s \in P, Cardinality(s) <= k PROVE H[k][s] = H[k + 1][s]
    <3>1. /\ k \in 1 .. n + 1 /\ k + 1 \in 1 .. n + 1 /\ (k + 1) - 1 = k /\ (k - 1) + 1 = k
      OBVIOUS
    <3>2. H[k][s] = Next1(H[k - 1], s) /\ H[k + 1][s] = Next1(H[k], s)
      <4> HIDE DEF Next1
      <4> QED BY <1>4, <3>1
    <3>3. CASE s = {}
      BY <3>2, <3>3
    <3>4. CASE s # {}
      <4> DEFINE t == s \ {pick[s]}
      <4>1. t \in P /\ Cardinality(t) <= k - 1
        <5>1. pick[s] \in s /\ t \in P
          BY <1>0, <3>4
        <5>2. Cardinality(s) \in Nat /\ \A x \in s : Cardinality(s \ {x}) = Cardinality(s) - 1
          BY SubsetFacts
        <5>3. Cardinality(t) = Cardinality(s) - 1
          BY <5>1, <5>2
        <5> HIDE DEF t
        <5> QED BY <2>1, <5>1, <5>2, <5>3
      <4>2. H[k - 1][t] = H[k][t]
        <5> HIDE DEF t
        <5> QED BY <1>7, <3>1, <4>1
      <4> QED BY <3>2, <3>4, <4>2
    <3> QED BY <3>3, <3>4
  <2> QED BY <2>1
<1>8. n \in S
  <2> HIDE DEF S
  <2>1. 0 .. n \subseteq S
    BY <1>6, <1>7, NoneIsFirst
  <2> QED BY <2>1
<1>9. ASSUME NEW s \in P PROVE H[n][s] = Next1(H[n], s)
  <2>1. Cardinality(s) <= n
    BY SubsetFacts
  <2>2. n + 1 \in 1 .. n + 1 /\ (n + 1) - 1 = n
    OBVIOUS
  <2>3. H[n + 1][s] = Next1(H[n], s)
    <3> HIDE DEF Next1
    <3> QED BY <1>4, <2>2
  <2>4. H[n][s] = H[n + 1][s]
    BY <1>8, <2>1
  <2> QED BY <2>3, <2>4
<1>10. H[n] \in W
  <2>1. n \in 0 .. n + 1
    OBVIOUS
  <2> HIDE DEF W
  <2> QED BY <2>1
<1> QED BY <1>9, <1>10 DEF FoldsTo

LEMMA WeighedType ==
  ASSUME NEW input \in Seq(Digits)
  PROVE  Weighed(input) \in Nat
<1> DEFINE n == Len(input)
           P == SUBSET (1 .. n)
           Body(h, s) == IF s = {} THEN 0 ELSE Value[input[Min(s)]] + 10 * h[s \ {Min(s)}]
           Is(h) == h = [s \in SUBSET DOMAIN input |-> Body(h, s)]
           pick == [s \in P |-> Min(s)]
           Step == [k \in 1 .. n |-> [v \in Nat |-> Value[input[k]] + 10 * v]]
           iter == CHOOSE h : Is(h)
<1>1. n \in Nat /\ DOMAIN input = 1 .. n
  BY LenProperties
<1>2. \A k \in 1 .. n : Value[input[k]] \in Nat
  <2>1. \A k \in 1 .. n : input[k] \in Digits
    BY ElementOfSeq
  <2>2. \A c \in Digits : Value[c] \in Nat
    BY DEF Digits, Value
  <2> QED BY <2>1, <2>2
<1>3. ASSUME NEW s \in P, s # {} PROVE Min(s) \in s /\ Min(s) \in 1 .. n /\ s \ {Min(s)} \in P
  <2>1. s \in SUBSET Nat
    BY <1>1
  <2>2. Min(s) \in s
    BY <1>3, <2>1, MinIsLeast
  <2> QED BY <2>2
<1>4. \E h : Is(h)
  <2>1. \A k \in 1 .. n : \A v \in Nat : Step[k][v] = Value[input[k]] + 10 * v /\ Step[k][v] \in Nat
    BY <1>2
  <2>2. \A s \in P : pick[s] = Min(s)
    OBVIOUS
  <2> HIDE DEF pick
  <2>3. PICK h \in [SUBSET (1 .. n) -> Nat] : FoldsTo(h, n, 0, pick, Step)
    <3>1. \A s \in SUBSET (1 .. n) : s # {} => pick[s] \in s
      BY <1>3, <2>2
    <3>2. \A x \in 1 .. n : \A v \in Nat : Step[x][v] \in Nat
      BY <2>1
    <3> HIDE DEF n, Step
    <3> QED BY <1>1, <3>1, <3>2, SetRecursion
  <2>4. ASSUME NEW s \in P PROVE h[s] = Body(h, s)
    <3> HIDE DEF n, Step
    <3>1. h[s] = IF s = {} THEN 0 ELSE Step[Min(s)][h[s \ {Min(s)}]]
      BY <2>2, <2>3 DEF FoldsTo
    <3>2. CASE s # {}
      <4>1. Min(s) \in 1 .. n /\ h[s \ {Min(s)}] \in Nat
        BY <1>3, <2>3, <3>2
      <4> QED BY <2>1, <3>1, <3>2, <4>1
    <3> QED BY <3>1, <3>2
  <2>5. h = [s \in P |-> Body(h, s)]
    <3> HIDE DEF Body
    <3> QED BY <2>3, <2>4
  <2> QED BY <1>1, <2>5
<1>5. Is(iter)
  <2> HIDE DEF Is
  <2> QED BY <1>4
<1>6. Weighed(input) = iter[1 .. n]
  BY <1>1 DEF Weighed, FoldRight, MapThenFoldSet
<1> HIDE DEF iter
<1>7. \A s \in P : iter[s] = Body(iter, s)
  <2> HIDE DEF Body
  <2> QED BY <1>1, <1>5
<1>0. {} \in P /\ iter[{}] = 0
  <2>1. {} \in P
    OBVIOUS
  <2> QED BY <1>7, <2>1
<1> DEFINE S == {k \in 0 .. n : \A s \in P : Cardinality(s) <= k => iter[s] \in Nat}
<1>8. 0 \in S
  <2>1. ASSUME NEW s \in P, Cardinality(s) <= 0 PROVE iter[s] \in Nat
    <3>1. s = {}
      <4>1. Cardinality(s) \in Nat
        BY <1>1, SubsetFacts
      <4> HIDE DEF n
      <4> QED BY <1>1, <2>1, <4>1, SubsetFacts
    <3> QED BY <1>0, <3>1
  <2> QED BY <1>1, <2>1
<1>9. ASSUME NEW k \in 1 .. n, k - 1 \in S PROVE k \in S
  <2>1. ASSUME NEW s \in P, Cardinality(s) <= k PROVE iter[s] \in Nat
    <3>1. CASE s = {}
      BY <1>0, <3>1
    <3>2. CASE s # {}
      <4> DEFINE t == s \ {Min(s)}
      <4>1. Min(s) \in s /\ Min(s) \in 1 .. n /\ t \in P
        BY <1>3, <3>2
      <4>2. Cardinality(t) = Cardinality(s) - 1 /\ Cardinality(s) \in Nat
        <5> HIDE DEF n
        <5> QED BY <1>1, <4>1, SubsetFacts
      <4>3. Cardinality(t) <= k - 1
        BY <2>1, <4>2
      <4>4. iter[t] \in Nat
        <5> HIDE DEF t, n
        <5> QED BY <1>9, <4>1, <4>3
      <4>5. iter[s] = Value[input[Min(s)]] + 10 * iter[t]
        BY <1>7, <3>2
      <4> HIDE DEF t
      <4> QED BY <1>2, <4>1, <4>4, <4>5
    <3> QED BY <3>1, <3>2
  <2> QED BY <1>1, <2>1
<1>10. n \in S
  <2> HIDE DEF S, n
  <2>1. 0 .. n \subseteq S
    BY <1>1, <1>8, <1>9, NoneIsFirst
  <2> QED BY <1>1, <2>1
<1>11. 1 .. n \in P /\ Cardinality(1 .. n) <= n
  BY <1>1, SubsetFacts
<1> HIDE DEF n
<1> QED BY <1>6, <1>10, <1>11

-----------------------------------------------------------------------------
(* Sequences of at most one element put together: as long as there are     *)
(* sequences exactly if none is empty, and then made of their elements.    *)
LEMMA FlattenIs ==
  ASSUME NEW V, NEW n \in Nat \ {0}, NEW texts, Len(texts) = n,
         \A i \in 1 .. n : texts[i] \in Seq(V) /\ Len(texts[i]) \in {0, 1}
  PROVE  /\ FlattenSeq(texts) \in Seq(V) /\ Len(FlattenSeq(texts)) \in 0 .. n
         /\ Len(FlattenSeq(texts)) = n =>
              \A i \in 1 .. n : Len(texts[i]) = 1 /\ FlattenSeq(texts)[i] = texts[i][1]
         /\ Len(FlattenSeq(texts)) # n => \E i \in 1 .. n : Len(texts[i]) = 0
<1> DEFINE W == Seq(V)
           Body(h, i) == IF i = 1 THEN texts[i] ELSE h[i - 1] \o texts[i]
           Is(h) == h = [i \in 1 .. Len(texts) |-> Body(h, i)]
           Step == [i \in 1 .. n - 1 |-> [v \in W |-> v \o texts[i + 1]]]
           flat == CHOOSE h : Is(h)
<1>1. \E h : Is(h)
  <2>1. ASSUME NEW i \in 1 .. n - 1, NEW v \in W PROVE Step[i][v] = v \o texts[i + 1] /\ Step[i][v] \in W
    <3>1. texts[i + 1] \in W
      OBVIOUS
    <3>2. v \o texts[i + 1] \in W
      BY <3>1, ConcatProperties
    <3> HIDE DEF W
    <3> QED BY <3>2
  <2>2. PICK h \in [0 .. n - 1 -> W] : Iterates(h, n - 1, texts[1], Step)
    <3>1. n - 1 \in Nat /\ texts[1] \in W
      OBVIOUS
    <3> HIDE DEF W, Step
    <3> QED BY <2>1, <3>1, Iteration
  <2> DEFINE g == [i \in 1 .. n |-> h[i - 1]]
  <2>3. ASSUME NEW i \in 1 .. n PROVE g[i] = Body(g, i)
    <3> HIDE DEF W, Step
    <3>1. CASE i = 1
      BY <2>2, <3>1 DEF Iterates
    <3>2. CASE i # 1
      <4>1. i - 1 \in 1 .. n - 1 /\ i - 1 \in 1 .. n /\ (i - 1) - 1 \in 0 .. n - 1 /\ (i - 1) + 1 = i
        BY <3>2
      <4>2. h[i - 1] = Step[i - 1][h[(i - 1) - 1]] /\ h[(i - 1) - 1] \in W
        BY <2>2, <4>1 DEF Iterates
      <4>3. h[i - 1] = h[(i - 1) - 1] \o texts[i]
        BY <2>1, <4>1, <4>2
      <4>4. g[i] = h[i - 1] /\ g[i - 1] = h[(i - 1) - 1]
        BY <4>1
      <4> HIDE DEF g
      <4> QED BY <3>2, <4>3, <4>4
    <3> QED BY <3>1, <3>2
  <2>4. g = [i \in 1 .. n |-> g[i]]
    OBVIOUS
  <2> HIDE DEF g, Body
  <2> QED BY <2>3, <2>4
<1>2. Is(flat)
  <2> HIDE DEF Is
  <2> QED BY <1>1
<1>3. FlattenSeq(texts) = flat[n]
  BY DEF FlattenSeq
<1> HIDE DEF flat
<1>4. \A i \in 1 .. n : flat[i] = Body(flat, i)
  <2> HIDE DEF Body
  <2> QED BY <1>2
<1> HIDE DEF Is, Step
<1> DEFINE Good(k) == /\ flat[k] \in W /\ Len(flat[k]) \in 0 .. k
                      /\ Len(flat[k]) = k => \A i \in 1 .. k : Len(texts[i]) = 1 /\ flat[k][i] = texts[i][1]
                      /\ Len(flat[k]) # k => \E i \in 1 .. k : Len(texts[i]) = 0
           S == {k \in 0 .. n : k = 0 \/ Good(k)}
<1>5. ASSUME NEW k \in 1 .. n, k - 1 \in S PROVE k \in S
  <2>1. CASE k = 1
    <3>1. flat[1] = texts[1] /\ texts[1] \in W /\ Len(texts[1]) \in {0, 1} /\ 1 \in 1 .. n
      BY <1>4
    <3>2. \A i \in 1 .. 1 : i = 1
      OBVIOUS
    <3>3. Good(1)
      <4> HIDE DEF W
      <4> QED BY <3>1, <3>2
    <3> HIDE DEF Good
    <3> QED BY <2>1, <3>1, <3>3
  <2>2. CASE k # 1
    <3> DEFINE before == flat[k - 1]
               text   == texts[k]
    <3>1. k - 1 \in 1 .. n /\ Good(k - 1)
      <4>1. k - 1 \in 1 .. n /\ k - 1 # 0
        BY <2>2
      <4>2. k - 1 \in S
        BY <1>5
      <4> HIDE DEF Good
      <4> QED BY <4>1, <4>2
    <3>2. flat[k] = before \o text
      BY <1>4, <2>2
    <3>3. text \in W /\ Len(text) \in {0, 1}
      OBVIOUS
    <3>4. before \in W /\ Len(before) \in 0 .. k - 1
      BY <3>1
    <3>5. /\ flat[k] \in W /\ Len(flat[k]) = Len(before) + Len(text)
          /\ \A i \in 1 .. Len(before) + Len(text) :
               flat[k][i] = IF i <= Len(before) THEN before[i] ELSE text[i - Len(before)]
      <4> HIDE DEF before, text
      <4> QED BY <3>2, <3>3, <3>4, ConcatProperties
    <3>6. Len(flat[k]) = Len(before) + Len(text) /\ Len(flat[k]) \in 0 .. k
      <4> DEFINE a == Len(before)
                 b == Len(text)
      <4>1. a \in 0 .. k - 1 /\ b \in {0, 1}
        BY <3>3, <3>4
      <4>2. Len(flat[k]) = a + b
        BY <3>5
      <4> HIDE DEF a, b
      <4>3. a + b \in 0 .. k
        BY <4>1
      <4> QED BY <4>2, <4>3 DEF a, b
    <3>7. ASSUME Len(flat[k]) = k, NEW i \in 1 .. k
          PROVE  Len(texts[i]) = 1 /\ flat[k][i] = texts[i][1]
      <4>1. Len(before) = k - 1 /\ Len(text) = 1
        <5> DEFINE a == Len(before)
                   b == Len(text)
        <5>1. a \in 0 .. k - 1 /\ b \in {0, 1} /\ a + b = k
          BY <3>3, <3>4, <3>6, <3>7
        <5> HIDE DEF a, b
        <5>2. a = k - 1 /\ b = 1
          BY <5>1
        <5> QED BY <5>2 DEF a, b
      <4>2. \A j \in 1 .. k - 1 : Len(texts[j]) = 1 /\ before[j] = texts[j][1]
        BY <3>1, <4>1
      <4>3. CASE i = k
        <5>1. i \in 1 .. Len(before) + Len(text) /\ ~(i <= Len(before)) /\ i - Len(before) = 1
          <6> HIDE DEF before, text
          <6> QED BY <4>1, <4>3
        <5>2. flat[k][i] = text[1]
          <6> HIDE DEF before, text
          <6> QED BY <3>5, <5>1
        <5> QED BY <4>1, <4>3, <5>2
      <4>4. CASE i # k
        <5>1. i \in 1 .. k - 1 /\ i \in 1 .. Len(before) + Len(text) /\ i <= Len(before)
          <6> HIDE DEF before, text
          <6> QED BY <4>1, <4>4
        <5>2. flat[k][i] = before[i]
          <6> HIDE DEF before, text
          <6> QED BY <3>5, <5>1
        <5> HIDE DEF before, text
        <5> QED BY <4>2, <5>1, <5>2
      <4> QED BY <4>3, <4>4
    <3>8. ASSUME Len(flat[k]) # k PROVE \E i \in 1 .. k : Len(texts[i]) = 0
      <4>1. CASE Len(text) = 0
        BY <4>1
      <4>2. CASE Len(text) # 0
        <5>1. Len(before) # k - 1
          <6> HIDE DEF before, text
          <6>1. Len(text) = 1
            BY <3>3, <4>2
          <6>2. Len(before) + 1 # k
            BY <3>6, <3>8, <6>1
          <6> QED BY <6>2
        <5>2. PICK i \in 1 .. k - 1 : Len(texts[i]) = 0
          BY <3>1, <5>1
        <5> QED BY <5>2
      <4> QED BY <4>1, <4>2
    <3>9. Good(k)
      <4> HIDE DEF W
      <4> QED BY <3>5, <3>6, <3>7, <3>8
    <3> HIDE DEF Good
    <3> QED BY <3>9
  <2> QED BY <2>1, <2>2
<1>6. n \in S
  <2>1. 0 \in S
    OBVIOUS
  <2> HIDE DEF S
  <2>2. 0 .. n \subseteq S
    BY <1>5, <2>1, NoneIsFirst
  <2> QED BY <2>2
<1>7. Good(n)
  BY <1>6
<1> HIDE DEF flat
<1> QED BY <1>3, <1>7

(* What a token is turned into.                                            *)
TurnedTo(token) == IF AsName(token) # <<>> THEN AsName(token) ELSE AsIndex(token)

LEMMA TurnedFacts ==
  ASSUME NEW token \in Seq(TokenChars) \ {<<>>}
  PROVE  /\ TurnedTo(token) \in Seq(Query) /\ Len(TurnedTo(token)) \in {0, 1}
         /\ Len(TurnedTo(token)) = 1 =>
              \/ IsName(token) /\ TurnedTo(token)[1] = [kind |-> "name", value |-> token]
              \/ IsIndex(token) /\ TurnedTo(token)[1].kind = "index"
         /\ Len(TurnedTo(token)) = 0 => ~IsName(token) /\ ~IsIndex(token)
<1>1. /\ token # <<>> /\ Head(token) = token[1] /\ token \in Seq(Chars)
      /\ \A i \in DOMAIN token : token[i] \in TokenChars
  <2>1. \A i \in DOMAIN token : token[i] \in TokenChars
    BY LenProperties, ElementOfSeq
  <2>2. TokenChars \subseteq Chars
    BY DEF TokenChars
  <2> QED BY <2>1, <2>2, SeqMonotonic
<1>2. (token[1] = "x" /\ \A i \in DOMAIN token : token[i] \in Digits \cup {"x"}) <=> IsName(token)
  <2>1. \A i \in DOMAIN token : token[i] \in Digits \cup {"x"} <=> token[i] # " "
    BY <1>1 DEF TokenChars, Chars, Digits, Value
  <2> QED BY <2>1 DEF IsName
<1>3. CASE IsName(token)
  <2> DEFINE q == [kind |-> "name", value |-> token]
  <2>1. AsName(token) = <<q>>
    BY <1>1, <1>2, <1>3 DEF AsName
  <2>2. q \in Query
    BY <1>1 DEF Query
  <2> HIDE DEF q
  <2>3. <<q>> # <<>> /\ <<q>> \in Seq(Query) /\ Len(<<q>>) = 1 /\ <<q>>[1] = q
    BY <2>2
  <2>4. TurnedTo(token) = <<q>>
    BY <2>1, <2>3 DEF TurnedTo
  <2> QED BY <1>3, <2>3, <2>4 DEF q
<1>4. CASE ~IsName(token)
  <2>1. TurnedTo(token) = AsIndex(token)
    BY <1>1, <1>2, <1>4 DEF TurnedTo, AsName
  <2>2. CASE IsIndex(token)
    <3> DEFINE w == Weighed(token)
               q == [kind |-> "index", value |-> w]
    <3>1. AsIndex(token) = <<q>>
      BY <1>1, <2>2 DEF AsIndex, IsIndex
    <3>2. w \in Nat
      <4>1. token \in Seq(Digits)
        <5>1. token \in [1 .. Len(token) -> Chars] /\ Len(token) \in Nat /\ DOMAIN token = 1 .. Len(token)
          BY <1>1, LenProperties
        <5>2. \A i \in 1 .. Len(token) : token[i] \in Digits
          BY <2>2, <5>1 DEF IsIndex
        <5>3. token \in [1 .. Len(token) -> Digits]
          BY <5>1, <5>2
        <5> QED BY <5>1, <5>3
      <4> QED BY <4>1, WeighedType
    <3> HIDE DEF w
    <3>3. q \in Query /\ q.kind = "index"
      BY <3>2 DEF Query
    <3> HIDE DEF q
    <3>4. <<q>> # <<>> /\ <<q>> \in Seq(Query) /\ Len(<<q>>) = 1 /\ <<q>>[1] = q
      BY <3>3
    <3> QED BY <2>1, <2>2, <3>1, <3>3, <3>4
  <2>3. CASE ~IsIndex(token)
    <3>1. AsIndex(token) = <<>>
      BY <2>3 DEF AsIndex, IsIndex
    <3>2. TurnedTo(token) \in Seq(Query) /\ Len(TurnedTo(token)) = 0
      BY <2>1, <3>1
    <3> QED BY <1>4, <2>3, <3>2
  <2> QED BY <2>2, <2>3
<1> QED BY <1>3, <1>4

LEMMA FunctionIsSequence ==
  ASSUME NEW S, NEW n \in Nat, NEW f \in [1 .. n -> S]
  PROVE  f \in Seq(S) /\ Len(f) = n
<1>1. f \in Seq(S)
  OBVIOUS
<1>2. DOMAIN f = 1 .. n /\ DOMAIN f = 1 .. Len(f) /\ Len(f) \in Nat
  BY <1>1, LenProperties
<1> QED BY <1>1, <1>2

(* A source without runs is made of delimiters.                            *)
LEMMA NothingButDelimiters ==
  ASSUME QueryTypeOK, Runs = {}
  PROVE  \A i \in 0 .. size - 1 : IsDelimiter(Char(i))
<1> DEFINE next == SkipEmpty(m_Source, 0)
           end  == EndFrom(m_Source, next)
<1>1. size \in Nat \ {0} /\ IsDelimiter(Char(size - 1)) /\ 0 \in 0 .. size
  BY StandingFacts
<1>2. /\ next \in 0 .. size /\ end \in next .. size
      /\ next < size => IsRun(next, end)
      /\ \A k \in 0 .. next - 1 : IsDelimiter(Char(k))
  BY <1>1, StandsBehind
<1> HIDE DEF next, end
<1>3. ASSUME next < size PROVE FALSE
  <2>1. next < end /\ \A k \in next .. end - 1 : ~IsDelimiter(Char(k))
    BY <1>2, <1>3 DEF IsRun
  <2>2. end = size => size - 1 \in next .. end - 1
    BY <1>1, <1>2, <2>1
  <2>3. end # size
    BY <1>1, <2>1, <2>2
  <2>4. next \in 0 .. size - 1 /\ end \in 0 .. size - 1
    BY <1>1, <1>2, <1>3, <2>3
  <2>5. <<next, end>> \in Runs
    BY <1>2, <1>3, <2>4 DEF Runs
  <2> QED BY <2>5
<1>4. next = size
  BY <1>1, <1>2, <1>3
<1> QED BY <1>2, <1>4

LEMMA EarlyIsAll ==
  ASSUME QueryTypeOK, m_Position = size
  PROVE  Early(m_Position) = Runs
<1>1. size \in Nat \ {0}
  BY StandingFacts
<1>2. ASSUME NEW run \in Runs PROVE run[2] < size
  BY <1>1 DEF Runs
<1> QED BY <1>2 DEF Early

LEMMA CreateKeeps ==
  ASSUME QueryIInv, Create
  PROVE  QueryIInv'
<1> DEFINE N      == Len(tokens)
           texts  == [i \in DOMAIN tokens |-> TurnedTo(tokens[i])]
           turned == FlattenSeq(texts)
<1>1. /\ at = "create"
      /\ IF turned = <<>> \/ Len(turned) # N
         THEN at' = "InvalidQueryString" /\ UNCHANGED m_Tokens
         ELSE at' = "accepted" /\ m_Tokens' = turned
      /\ UNCHANGED <<m_Source, m_Position, m_Next, tokens>>
  BY DEF Create, TurnedTo
<1>2. /\ QueryTypeOK /\ Standing /\ Collects(m_Source, tokens, Early(m_Position))
      /\ tokens \in Seq(Seq(TokenChars) \ {<<>>})
      /\ N \in Nat /\ DOMAIN tokens = 1 .. N
      /\ \A i \in 1 .. N : tokens[i] \in Seq(TokenChars) \ {<<>>}
  BY LenProperties, ElementOfSeq DEF QueryIInv
<1>3. m_Position = size /\ Early(m_Position) = Runs
  BY <1>1, <1>2, EarlyIsAll DEF Standing
<1> DEFINE Fits(i, q) ==
             \/ IsName(tokens[i]) /\ q = [kind |-> "name", value |-> tokens[i]]
             \/ IsIndex(tokens[i]) /\ q.kind = "index"
<1>4. ASSUME NEW i \in 1 .. N
      PROVE  /\ texts[i] = TurnedTo(tokens[i])
             /\ texts[i] \in Seq(Query) /\ Len(texts[i]) \in {0, 1}
             /\ Len(texts[i]) = 1 => Fits(i, texts[i][1])
             /\ Len(texts[i]) = 0 => ~IsName(tokens[i]) /\ ~IsIndex(tokens[i])
  <2>1. texts[i] = TurnedTo(tokens[i])
    BY <1>2
  <2>2. tokens[i] \in Seq(TokenChars) \ {<<>>}
    BY <1>2
  <2> HIDE DEF texts
  <2> QED BY <2>1, <2>2, TurnedFacts
<1>5. texts = <<>> \/ Len(texts) = N
  <2>1. texts \in [1 .. N -> Seq(Query)]
    <3>1. DOMAIN texts = 1 .. N /\ texts = [i \in 1 .. N |-> texts[i]]
      BY <1>2
    <3> HIDE DEF texts
    <3> QED BY <1>4, <3>1
  <2> HIDE DEF texts, N
  <2> QED BY <1>2, <2>1, FunctionIsSequence
<1>6. ASSUME QueriesAreWhole', m_Tokens' \in Seq(Query), at' \in {"accepted", "InvalidQueryString"}
      PROVE  QueryIInv'
  <2>1. Early(m_Position)' = Early(m_Position)
    BY <1>1, SourceStays DEF Early
  <2>2. Standing' /\ Collects(m_Source, tokens, Early(m_Position))'
    BY <1>1, <1>2, <1>3, <2>1, SourceStays DEF Standing
  <2>3. QueryTypeOK'
    BY <1>1, <1>2, <1>6 DEF QueryTypeOK, size
  <2> QED BY <1>1, <1>2, <1>6, <2>2, <2>3 DEF QueryIInv
<1>7. CASE N = 0
  <2>1. tokens = <<>> /\ texts = <<>>
    BY <1>2, <1>7, EmptySeq
  <2> HIDE DEF texts
  <2>2. turned = <<>>
    <3>1. Len(<<>>) = 0
      OBVIOUS
    <3> QED BY <2>1, <3>1 DEF FlattenSeq
  <2>3. Runs = {}
    <3>1. PICK runs \in [DOMAIN tokens -> Early(m_Position)] : Range(runs) = Early(m_Position)
      BY <1>2 DEF Collects
    <3>2. DOMAIN runs = {}
      BY <1>2, <1>7
    <3>3. Range(runs) = {}
      BY <3>2 DEF Range
    <3> QED BY <1>3, <3>1, <3>3
  <2>4. \A i \in 0 .. size - 1 : IsDelimiter(Char(i))
    BY <1>2, <2>3, NothingButDelimiters
  <2>5. at' = "InvalidQueryString" /\ m_Tokens' = m_Tokens
    BY <1>1, <2>2
  <2>6. size' = size /\ \A i : Char(i)' = Char(i)
    BY <1>1 DEF size, Char
  <2>7. QueriesAreWhole'
    BY <2>4, <2>5, <2>6 DEF QueriesAreWhole
  <2>8. m_Tokens' \in Seq(Query)
    BY <1>2, <2>5 DEF QueryTypeOK
  <2> QED BY <1>6, <2>5, <2>7, <2>8
<1>8. CASE N # 0
  <2>1. /\ turned \in Seq(Query) /\ Len(turned) \in 0 .. N
        /\ Len(turned) = N => \A i \in 1 .. N : Len(texts[i]) = 1 /\ turned[i] = texts[i][1]
        /\ Len(turned) # N => \E i \in 1 .. N : Len(texts[i]) = 0
    <3>1. N \in Nat \ {0}
      BY <1>2, <1>8
    <3>2. Len(texts) = N
      <4>1. texts # <<>>
        <5>1. 1 \in DOMAIN texts
          BY <1>2, <3>1
        <5> HIDE DEF texts
        <5> QED BY <5>1
      <4> HIDE DEF texts
      <4> QED BY <1>5, <4>1
    <3> HIDE DEF texts, N, Fits
    <3>3. \A i \in 1 .. N : texts[i] \in Seq(Query) /\ Len(texts[i]) \in {0, 1}
      BY <1>4
    <3> QED BY <3>1, <3>2, <3>3, FlattenIs
  <2> HIDE DEF texts, turned
  <2>2. CASE Len(turned) # N
    <3>1. at' = "InvalidQueryString" /\ m_Tokens' = m_Tokens
      BY <1>1, <2>2
    <3>2. PICK i \in 1 .. N : Len(texts[i]) = 0
      BY <2>1, <2>2
    <3>3. i \in DOMAIN tokens' /\ ~IsName(tokens'[i]) /\ ~IsIndex(tokens'[i])
      BY <1>1, <1>2, <1>4, <3>2
    <3>4. QueriesAreWhole'
      BY <3>1, <3>3 DEF QueriesAreWhole
    <3>5. m_Tokens' \in Seq(Query)
      BY <1>2, <3>1 DEF QueryTypeOK
    <3> QED BY <1>6, <3>1, <3>4, <3>5
  <2>3. CASE Len(turned) = N
    <3>1. turned # <<>>
      BY <1>8, <2>3, EmptySeq
    <3>2. at' = "accepted" /\ m_Tokens' = turned
      BY <1>1, <2>3, <3>1
    <3>3. DOMAIN turned = 1 .. N
      <4> HIDE DEF N
      <4> QED BY <2>1, <2>3, LenProperties
    <3>4. \A i \in 1 .. N : Fits(i, turned[i])
      <4> HIDE DEF Fits
      <4> QED BY <1>4, <2>1, <2>3
    <3>5. tokens # <<>>
      BY <1>8, EmptySeq
    <3>6. QueriesAreWhole'
      BY <1>1, <1>2, <3>2, <3>3, <3>4, <3>5 DEF QueriesAreWhole
    <3> QED BY <1>6, <2>1, <3>2, <3>6
  <2> QED BY <2>2, <2>3
<1> QED BY <1>7, <1>8

LEMMA QueryStepKeeps == QueryIInv /\ [QueryNext]_queryVars => QueryIInv'
<1> SUFFICES ASSUME QueryIInv, [QueryNext]_queryVars PROVE QueryIInv'
  OBVIOUS
<1>1. CASE Collect
  BY <1>1, CollectKeeps
<1>2. CASE EndTokens
  BY <1>2, EndTokensKeeps
<1>3. CASE Create
  BY <1>3, CreateKeeps
<1>4. CASE UNCHANGED queryVars
  <2>1. UNCHANGED <<m_Source, m_Position, m_Next, tokens, m_Tokens, at>>
    BY <1>4 DEF queryVars
  <2>2. Early(m_Position)' = Early(m_Position)
    BY <2>1, SourceStays DEF Early
  <2>3. size' = size /\ \A i : Char(i)' = Char(i)
    BY <2>1 DEF size, Char
  <2>4. QueryTypeOK'
    BY <2>1 DEF QueryIInv, QueryTypeOK, size
  <2>5. Standing' /\ Collects(m_Source, tokens, Early(m_Position))'
    BY <2>1, <2>2, SourceStays DEF QueryIInv, Standing
  <2>6. QueriesAreWhole'
    BY <2>1, <2>3 DEF QueryIInv, QueriesAreWhole
  <2> QED BY <2>1, <2>4, <2>5, <2>6 DEF QueryIInv
<1> QED BY <1>1, <1>2, <1>3, <1>4 DEF QueryNext

(* The tokenizer stays in the string, tokens are not empty, and a query is *)
(* made of names and of indices.                                           *)
THEOREM QueryTypeCorrect == QuerySpec => []QueryTypeOK
<1>1. QueryIInv => QueryTypeOK
  BY DEF QueryIInv
<1> QED BY QueryInitHolds, QueryStepKeeps, <1>1, PTL DEF QuerySpec

(* However many delimiters a query string begins and ends with, and has    *)
(* between two tokens, the tokens are its runs of other characters, all of *)
(* them, in order and each of them once.                                   *)
THEOREM TokensAlwaysTheRuns == QuerySpec => []TokensAreTheRuns
<1>1. QueryIInv => TokensAreTheRuns
  <2> SUFFICES ASSUME QueryIInv, at # "tokenize" PROVE TokensAreTheRuns
    BY DEF TokensAreTheRuns
  <2>1. Early(m_Position) = Runs
    BY EarlyIsAll DEF QueryIInv, Standing
  <2> QED BY <2>1 DEF QueryIInv, Collects, TokensAreTheRuns
<1> QED BY QueryInitHolds, QueryStepKeeps, <1>1, PTL DEF QuerySpec

(* A query string of any length is accepted exactly if it has tokens and   *)
(* each is a name or a number, and then with one token for each.           *)
THEOREM QueriesAlwaysWhole == QuerySpec => []QueriesAreWhole
<1>1. QueryIInv => QueriesAreWhole
  BY DEF QueryIInv
<1> QED BY QueryInitHolds, QueryStepKeeps, <1>1, PTL DEF QuerySpec
=============================================================================
