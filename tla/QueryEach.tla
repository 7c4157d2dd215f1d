------------------------------ MODULE QueryEach ------------------------------
(***************************************************************************)
(* The calls of a client that read values: GetValue and GetPointer, which  *)
(* read a field, QueryValue, which evaluates a query, and QueryEachValue,  *)
(* which walks a list along its field "next" and evaluates a query for     *)
(* every element it comes to.  All may ask for a value of a type of C++.   *)
(***************************************************************************)
EXTENDS BlendQuery

CONSTANTS
  Calls,     \* the calls to consider, each with the file it is about
  MaxSeen    \* the number of elements that seen remembers

Tokens == [kind : {"name"}, value : Names] \cup [kind : {"index"}, value : Nat]

(* What a client can have at hand: a type of the file and data that lies   *)
(* in a block or nowhere, unless it is cast to the type.  It reads fields  *)
(* that the type has.                                                      *)
IsCall(c) ==
  /\ c.kind \in {"GetValue", "GetPointer", "QueryValue", "QueryEachValue"}
  /\ c.file \in Files
  /\ c.type \in 0 .. Len(c.file.types) - 1
  /\ c.data \in Span
  /\ c.data.block \in {NoBlock} \cup DOMAIN c.file.blocks
  /\ c.cast \in BOOLEAN
  /\ ~c.cast /\ ~IsNull(c.data) =>
       c.data.offset + c.data.size <= Len(c.file.blocks[c.data.block].body)
  /\ c.query \in Seq(Tokens)
  /\ c.as \in [kind : {"untyped", "span", "pointer", "value"}, size : Nat]
  /\ c.kind \in {"GetValue", "GetPointer"} =>
       /\ ~IsNull(c.data)
       /\ c.file.types[c.type + 1].kind = "aggregate"
       /\ \E i \in DOMAIN c.file.types[c.type + 1].fields :
            LET name == Name(c.file.types[c.type + 1].fields[i].name)
            IN  c.query = IF c.kind = "GetValue" THEN <<name>> ELSE <<name, Index(0)>>

ASSUME QueryEachAssumption == MaxSeen \in Nat /\ \A c \in Calls : IsCall(c)

VARIABLES
  call,
  phase,     \* which evaluation is running: "value", "next" or "element"
  element,   \* of the list: where the walk is
  seen,      \* the elements the callback has been called for
  moved      \* whether a callback has moved the Blend away

vars == <<file, m_Ranges, evaluation, at, unchecked, call, phase, element, seen, moved>>

walk == <<call, element, seen, moved>>

Answers == Errors \cup {"ok", "none", "undefined"}

IsWalk  == call.kind = "QueryEachValue"
IsTyped == call.as.kind # "untyped"

TypeOK ==
  /\ data \in Span /\ struct_data \in Span /\ element \in Span
  /\ type \in Slots
  /\ info = NoField \/ \E slot \in Slots : Kind(slot) = "aggregate" /\ info \in Range(Fields(slot))
  /\ query \in Seq(Tokens)
  /\ at \in {"call", "token"} \cup Answers
  /\ phase \in {"value", "next", "element"}
  /\ seen \in Seq(Span) /\ Len(seen) <= MaxSeen
  /\ unchecked \in BOOLEAN
  /\ moved \in BOOLEAN /\ (moved => IsWalk /\ m_Ranges = <<>>)

(* Data that a client has got by ReinterpretCast has the size of the type. *)
ReinterpretCast(slot, span) == Part(span, 0, SizeIn(slot))

CallData == IF call.cast THEN ReinterpretCast(call.type, call.data) ELSE call.data

Init ==
  /\ call \in Calls
  /\ file = call.file
  /\ m_Ranges \in CreateMemoryTable(file.blocks)
  /\ data = CallData /\ struct_data = CallData /\ element = CallData
  /\ type = call.type
  /\ info = NoField
  /\ query = <<>>
  /\ at = "call"
  /\ phase = "value"
  /\ seen = <<>>
  /\ unchecked = (call.cast /\ ~IsInBody(CallData))
  /\ moved = FALSE

-----------------------------------------------------------------------------
(* BlendFieldInfo::GetValue and GetPointer find nothing unless it has the  *)
(* size of the C++ type.                                                   *)
GetValue(field, as) ==
  IF SizeIn(field.type) # as.size THEN Null(0)
  ELSE LET value == GetData(field, element)
       IN  IF value.size = as.size THEN value ELSE Null(0)

GetPointer(field, as) ==
  LET memory == IF Kind(field.type) = "pointer" THEN GetPointerData(field, element) ELSE Null(0)
  IN  IF memory.size = as.size THEN memory ELSE Null(0)

(* A client reads the field that its query begins with.                    *)
FieldRead == Fields(call.type)[Min(FieldsNamed(call.type, Head(call.query).value))]

ReadField ==
  /\ at = "call"
  /\ call.kind \in {"GetValue", "GetPointer"}
  /\ LET field   == FieldRead
         pointer == GetData(field, element)
         reads   == call.kind = "GetPointer" /\ Kind(field.type) = "pointer"
         found   == IF call.kind = "GetValue" THEN GetValue(field, call.as)
                    ELSE GetPointer(field, call.as)
     IN  /\ unchecked' = (\/ unchecked
                          \/ Overflows(field.offset, SizeIn(field.type))
                          \/ /\ reads /\ IsInBody(pointer)
                             /\ Overflows(Address(pointer), SizeIn(GetElementType(file.types, field.type))))
         /\ IF reads /\ ~IsNull(pointer) /\ ~IsInBody(pointer)
            THEN at' = "undefined" /\ UNCHANGED data
            ELSE IF IsNull(found)
            THEN at' = "none" /\ UNCHANGED data
            ELSE at' = "ok" /\ data' = found
  /\ UNCHANGED <<file, m_Ranges, query, type, info, struct_data, phase, walk>>

Evaluate(next, slot, span, tokens) ==
  /\ at' = "token"
  /\ phase' = next
  /\ Begin(slot, span, tokens)

Return(answer) == at' = answer /\ UNCHANGED <<evaluation, phase>>

(* A query that could not be made is none.                                 *)
NoQuery ==
  /\ at = "call"
  /\ call.query = <<>>
  /\ Return("InvalidQuery")
  /\ UNCHANGED <<file, m_Ranges, unchecked, walk>>

QueryValue ==
  /\ at = "call"
  /\ call.query # <<>>
  /\ call.kind = "QueryValue"
  /\ Evaluate("value", call.type, element, call.query)
  /\ UNCHANGED <<file, m_Ranges, unchecked, walk>>

(* The head of the loop.                                                   *)
NextElement ==
  /\ at = "call"
  /\ call.query # <<>>
  /\ IsWalk
  /\ IF IsNull(element) \/ element.size = 0
     THEN Return("ok")
     ELSE Evaluate("next", call.type, element, <<Name("next"), Index(0)>>)
  /\ UNCHANGED <<file, m_Ranges, unchecked, walk>>

Step ==
  /\ Token
  /\ UNCHANGED <<phase, walk>>

(* The evaluation has reached the end of its query.                        *)
Found(in) == at = "token" /\ query = <<>> /\ phase = in

(* QueryValue<T>: what becomes of a span that a value or a pointer is      *)
(* asked for from.                                                         *)
Typed(as, span) ==
  CASE as.kind = "pointer" /\ span.size \notin {0, as.size}        -> "InvalidType"
    [] as.kind = "value" /\ IsNull(span)                           -> "InvalidValue"
    [] as.kind = "value" /\ ~IsNull(span) /\ span.size # as.size   -> "InvalidType"
    [] OTHER                                                       -> "ok"

ValueFound ==
  /\ Found("value")
  /\ Return(Typed(call.as, data))
  /\ UNCHANGED <<file, m_Ranges, unchecked, walk>>

\* Mutant: the elements are searched from the one that the walk is at.
NextFoundBehind ==
  /\ Found("next")
  /\ IF IsNull(data)
     THEN Return("ok") /\ UNCHANGED element
     ELSE Evaluate("element", type, data, call.query) /\ UNCHANGED element
  /\ UNCHANGED <<file, m_Ranges, unchecked, call, seen, moved>>

NextFound ==
  /\ Found("next")
  /\ IF IsNull(data)
     THEN Return("ok") /\ UNCHANGED element
     ELSE Evaluate("element", type, data, call.query) /\ element' = data
  /\ UNCHANGED <<file, m_Ranges, unchecked, call, seen, moved>>

(* The untyped walk takes a next field that is not in the element for the  *)
(* end of the list; the typed one returns the error.                       *)
IsBreak == at = "InvalidValue" /\ phase = "next" /\ ~IsTyped

\* Mutant: the untyped walk takes it for one more round.
BreakOff ==
  /\ IsBreak
  /\ at' = "call"
  /\ UNCHANGED <<file, m_Ranges, evaluation, unchecked, phase, walk>>

Break ==
  /\ IsBreak
  /\ at' = "ok"
  /\ UNCHANGED <<file, m_Ranges, evaluation, unchecked, phase, walk>>

(* The callback, which may move the Blend to another object and leave an   *)
(* empty table to the types that refer to it.                              *)
ElementFound ==
  /\ Found("element")
  /\ IF Typed(call.as, data) # "ok"
     THEN Return(Typed(call.as, data)) /\ UNCHANGED <<m_Ranges, seen, moved>>
     ELSE /\ at' = "call"
          /\ seen' = IF Len(seen) < MaxSeen THEN Append(seen, element) ELSE seen
          /\ \/ UNCHANGED <<m_Ranges, moved>>
             \/ m_Ranges' = <<>> /\ moved' = TRUE
          /\ UNCHANGED <<evaluation, phase>>
  /\ UNCHANGED <<file, unchecked, call, element>>

Next ==
  \/ ReadField
  \/ NoQuery
  \/ QueryValue
  \/ NextElement
  \/ Step
  \/ ValueFound
  \/ NextFound
  \/ Break
  \/ ElementFound

Spec == Init /\ [][Next]_vars /\ WF_vars(Next)

-----------------------------------------------------------------------------
(***************************************************************************)
(* Properties.                                                             *)
(***************************************************************************)
(* Wherever an evaluation is, its data lies in the body of one block or    *)
(* nowhere: also in files whose pointers have the other byte order, whose  *)
(* blocks overlap and whose pointers lead anywhere.  What it takes for     *)
(* that is that no check was passed by a number that had wrapped, and none *)
(* was skipped for an empty array.                                         *)
DataLiesInOneBlock == ~unchecked => IsNull(data) \/ IsInBody(data)

(* The reference: what a path means in a file.  A name is a part of the    *)
(* place it is applied to, an index an element of the array that lies      *)
(* there, or what the pointer there points to.  Places are not unique if   *)
(* blocks overlap, or touch where memory of size 0 is asked for.           *)
Written(f, span) ==
  LET bytes == SubSeq(f.blocks[span.block].body, span.offset + 1, span.offset + span.size)
  IN  IF f.native THEN LittleEndian(bytes) ELSE BigEndian(bytes)

Pointees(f, address, size) ==
  LET Holders == {i \in DOMAIN f.blocks :
                    /\ f.blocks[i].length > 0
                    /\ f.blocks[i].address <= address
                    /\ address + size <= f.blocks[i].address + f.blocks[i].length}
  IN  IF Holders = {} THEN {Null(size)}
      ELSE {[block |-> i, offset |-> address - f.blocks[i].address, size |-> size] : i \in Holders}

Place(span, slot) == [error |-> "ok", span |-> span, type |-> slot, named |-> TRUE]
Error(error)      == {[error |-> error]}

NamePlaces(f, place, name) ==
  LET t        == f.types[place.type + 1]
      IsNth(i) == t.fields[i].name = name /\ \A j \in 1 .. i - 1 : t.fields[j].name # name
  IN  IF t.kind # "aggregate" THEN Error("IndexedInvalidType")
      ELSE IF ~\E i \in DOMAIN t.fields : IsNth(i) THEN Error("FieldNotFound")
      ELSE LET field == t.fields[CHOOSE i \in DOMAIN t.fields : IsNth(i)]
               n     == GetSize(f.types, field.type)
           IN  {Place(IF field.offset + n > place.span.size THEN Null(0)
                      ELSE Part(place.span, field.offset, n), field.type)}

IndexPlaces(f, place, i) ==
  LET t == f.types[place.type + 1]
      n == GetSize(f.types, t.of)
  IN  IF ~place.named THEN Error("InvalidQuery")
      ELSE IF t.kind \notin {"array", "pointer"} THEN Error("IndexedInvalidType")
      ELSE IF t.kind = "array"
      THEN IF i >= t.count /\ n > 0 THEN Error("IndexOutOfBounds")
           ELSE {Place(Part(place.span, i * n, n), t.of)}
      ELSE UNION {IF ~IsNull(to) /\ i > 0 /\ n > 0 THEN Error("IndexOutOfBounds")
                  ELSE {Place(to, t.of)} : to \in Pointees(f, Written(f, place.span), n)}

FollowFrom(f, place, token) ==
  IF place.error # "ok" THEN {place}
  ELSE IF IsNull(place.span) THEN Error("InvalidValue")
  ELSE IF token.kind = "name" THEN NamePlaces(f, place, token.value)
  ELSE IndexPlaces(f, place, token.value)

Follow(f, places, token) == UNION {FollowFrom(f, place, token) : place \in places}

Reached(f, slot, span, tokens) ==
  LET places[k \in 0 .. Len(tokens)] ==
        IF k = 0 THEN {[Place(span, slot) EXCEPT !.named = FALSE]}
        ELSE Follow(f, places[k - 1], tokens[k])
  IN  places

Meanings(f, slot, span, tokens) == Reached(f, slot, span, tokens)[Len(tokens)]

(* Files of the native byte order in which every block ends at an address  *)
(* and the size of every array is a std::size_t.                           *)
IsPlain(f) ==
  /\ f.native
  /\ \A i \in DOMAIN f.blocks : ~Overflows(f.blocks[i].address, f.blocks[i].length)
  /\ \A s \in 0 .. Len(f.types) - 1 :
       LET t == f.types[s + 1]
       IN  t.kind = "array" => ~Overflows(0, t.count * GetSize(f.types, t.of))

(* A second index in a row is applied to the last field again.             *)
IsChained(path) ==
  \E i \in 1 .. Len(path) - 1 : path[i].kind = "index" /\ path[i + 1].kind = "index"

(* A query without two indices in a row answers what its path means, with  *)
(* the type, the place and the size that has, or with the error that the   *)
(* path ends in.  Reading a field finds what the path of the field means,  *)
(* or nothing where it means nothing of that size or the field is no       *)
(* pointer.                                                                *)
QueriesMeanPaths ==
  /\ at \in Answers /\ ~IsWalk /\ call.query # <<>>
  /\ IsPlain(file) /\ ~unchecked /\ ~IsChained(call.query)
  => \E p \in Meanings(file, call.type, CallData, call.query) :
       IF call.kind # "QueryValue"
       THEN LET means == /\ p.error = "ok" /\ ~IsNull(p.span) /\ p.span.size = call.as.size
                         /\ call.kind = "GetPointer" => Kind(FieldRead.type) = "pointer"
            IN  IF means THEN at = "ok" /\ data = p.span ELSE at = "none"
       ELSE IF p.error # "ok" THEN at = p.error
       ELSE at = Typed(call.as, p.span) /\ data = p.span /\ type = p.type

(* The walk calls back for every element that follows the one it began     *)
(* at, one after the other, and ends well only behind the last one, or at  *)
(* an element of size 0.  Where it ends is not said of a walk during which *)
(* a callback has moved the Blend: it finds no further element and ends    *)
(* early, and well.                                                        *)
NextPath         == <<Name("next"), Index(0)>>
NextPlaces(span) == Meanings(file, call.type, span, NextPath)

WalksVisitInOrder ==
  IsWalk /\ call.query # <<>> /\ IsPlain(file) /\ ~unchecked =>
    /\ \A i \in DOMAIN seen :
         \E p \in NextPlaces(IF i = 1 THEN CallData ELSE seen[i - 1]) :
           p.error = "ok" /\ p.span = seen[i]
    /\ at = "ok" /\ ~moved /\ element.size > 0 =>
         \E p \in NextPlaces(element) : p.error = "InvalidValue" \/ IsNull(p.span)

(* Every walk ends, unless it comes to an element for the second time.     *)
CallsEndOrReturn ==
  <>(\/ at \in Answers /\ ~IsBreak
     \/ \E i, j \in DOMAIN seen : i < j /\ seen[i] = seen[j])
=============================================================================
