------------------------------ MODULE BlendQuery ------------------------------
(***************************************************************************)
(* BlendType::QueryValue: from a span of memory and its type, one token    *)
(* of a query after the other leads to another span and its type: the name *)
(* of a field to a part of the span, an index to an element of the array   *)
(* or to what the pointer points to that the last field was.               *)
(*                                                                         *)
(* This module has the evaluation; QueryEach has the calls of a client.    *)
(***************************************************************************)
EXTENDS MemoryTable, FiniteSetsExt

CONSTANTS
  Files,    \* the files to consider
  Radix,    \* the number of values of a byte
  Names     \* what fields may be called and queries may ask for

Name(n)  == [kind |-> "name", value |-> n]
Index(i) == [kind |-> "index", value |-> i]

Errors == {"InvalidQuery", "InvalidType", "InvalidValue", "FieldNotFound",
           "IndexOutOfBounds", "IndexedInvalidType"}

(* What ReadBlendData has made of a file: blocks (one of length 0 carries  *)
(* the body of the one before), types built around types before them, and  *)
(* whether its byte order is the native one.                               *)
IsFile(f) ==
  /\ f.blocks \in Seq([address : 0 .. MaxUsize, length : 0 .. MaxUsize, body : Seq(0 .. Radix - 1)])
  /\ \A i \in DOMAIN f.blocks : f.blocks[i].length \in {0, Len(f.blocks[i].body)}
  /\ Len(f.types) \in Nat
  /\ \A s \in 0 .. Len(f.types) - 1 :
       /\ GetSize(f.types, s) \in 0 .. MaxUsize
       /\ GetElementType(f.types, s) \in NoSlot .. s - 1
       /\ f.types[s + 1].kind = "array" => f.types[s + 1].count \in Nat
       /\ f.types[s + 1].kind \in {"array", "pointer"} => GetElementType(f.types, s) # NoSlot
       /\ f.types[s + 1].kind = "aggregate" =>
            f.types[s + 1].fields \in
              Seq([offset : 0 .. MaxUsize, name : Names, type : 0 .. Len(f.types) - 1])
  /\ f.native \in BOOLEAN

ASSUME BlendQueryAssumption ==
  /\ Radix \in Nat \ {0} /\ Radix ^ PointerSize <= MaxUsize + 1
  /\ "next" \in Names
  /\ \A f \in Files : IsFile(f)

VARIABLES
  file,
  m_Ranges,       \* of the memory table that the types refer to
  query,          \* the tokens that are left
  data, type,     \* where the evaluation is
  info,           \* the last field named, or NoField
  struct_data,    \* and the struct it is a field of
  at,
  unchecked       \* whether a sum, a product or a skipped check has let a
                  \* span through that a check should have refused

evaluation == <<query, data, type, info, struct_data>>

NoField == [offset |-> 0, type |-> NoSlot]

Slots  == 0 .. Len(file.types) - 1
Kind(slot) == file.types[slot + 1].kind
SizeIn(slot) == GetSize(file.types, slot)

Begin(slot, span, tokens) ==
  /\ query' = tokens
  /\ data' = span /\ struct_data' = span
  /\ type' = slot
  /\ info' = NoField

Fail(error) == at' = error /\ UNCHANGED <<evaluation, unchecked>>

-----------------------------------------------------------------------------
(* BlendFieldInfo::GetData.                                                *)
\* Mutant: only the beginning of a field is checked.
GetDataFrom(field, span) ==
  IF field.offset > span.size THEN Null(0) ELSE Part(span, field.offset, SizeIn(field.type))

GetData(field, span) ==
  IF Wrap(field.offset + SizeIn(field.type)) > span.size
  THEN Null(0)
  ELSE Part(span, field.offset, SizeIn(field.type))

IsInBody(span) == ~IsNull(span) /\ span.offset + span.size <= Len(file.blocks[span.block].body)
Bytes(span)    == SubSeq(file.blocks[span.block].body, span.offset + 1, span.offset + span.size)

(* The address a pointer holds, taken in the native byte order.            *)
LittleEndian(bytes) == FoldRight(LAMBDA b, n : b + Radix * n, bytes, 0)
BigEndian(bytes)    == FoldLeft(LAMBDA n, b : b + Radix * n, 0, bytes)

Address(span) == LittleEndian(Bytes(span))

ASSUME AddressAssumption ==
  \A bytes \in [1 .. PointerSize -> 0 .. Radix - 1] : LittleEndian(bytes) \in 0 .. MaxUsize

(* BlendFieldInfo::GetPointerData, for fields that are pointers.           *)
GetPointerData(field, span) ==
  LET value == GetData(field, span)
  IN  IF value.size # PointerSize THEN Null(0)
      ELSE GetMemory(m_Ranges, Address(value), SizeIn(GetElementType(file.types, field.type)))

Fields(slot)         == file.types[slot + 1].fields
FieldsNamed(slot, n) == {i \in DOMAIN Fields(slot) : Fields(slot)[i].name = n}

-----------------------------------------------------------------------------
HasToken(kind) ==
  /\ at = "token"
  /\ query # <<>>
  /\ ~IsNull(data)
  /\ Head(query).kind = kind

NoData ==
  /\ at = "token"
  /\ query # <<>>
  /\ IsNull(data)
  /\ Fail("InvalidValue")

NameToken ==
  /\ HasToken("name")
  /\ Kind(type) = "aggregate"
  /\ LET named == FieldsNamed(type, Head(query).value)
         field == Fields(type)[Min(named)]
     IN  IF named = {} THEN Fail("FieldNotFound")
         ELSE /\ query' = Tail(query)
              /\ data' = GetData(field, data)
              /\ type' = field.type
              /\ info' = field
              /\ struct_data' = data
              /\ unchecked' = (unchecked \/ Overflows(field.offset, SizeIn(field.type)))
              /\ UNCHANGED at

NameOfNoStruct ==
  /\ HasToken("name")
  /\ Kind(type) # "aggregate"
  /\ Fail("IndexedInvalidType")

(* An index before any name is none.                                       *)
IndexOfNoField ==
  /\ HasToken("index")
  /\ info = NoField
  /\ Fail("InvalidQuery")

IndexOfNoElements ==
  /\ HasToken("index")
  /\ info # NoField
  /\ GetElementType(file.types, type) = NoSlot
  /\ Fail("IndexedInvalidType")

HasIndex ==
  /\ HasToken("index")
  /\ info # NoField
  /\ GetElementType(file.types, type) # NoSlot

(* The elements are those of the last field named, whatever the index      *)
(* before this one led to.                                                 *)
ReadsPointer == Kind(type) # "array" /\ Kind(info.type) = "pointer"

\* Mutant: the elements are looked for in the field, not in its struct.
ElementsInField ==
  CASE Kind(type) = "array" -> GetData(info, data)
    [] ReadsPointer         -> GetPointerData(info, data)
    [] OTHER                -> Null(0)

Elements ==
  CASE Kind(type) = "array" -> GetData(info, struct_data)
    [] ReadsPointer         -> GetPointerData(info, struct_data)
    [] OTHER                -> Null(0)

PointerOverflows ==
  Overflows(Address(GetData(info, struct_data)), SizeIn(GetElementType(file.types, info.type)))

(* The pointer itself lies where no body has it: what is read is undefined.*)
PointerIsElsewhere ==
  LET value == GetData(info, struct_data)
  IN  ReadsPointer /\ ~IsNull(value) /\ ~IsInBody(value)

ReadElsewhere ==
  /\ HasIndex
  /\ PointerIsElsewhere
  /\ at' = "undefined"
  /\ UNCHANGED <<evaluation, unchecked>>

(* (The two bound variables have one value each, and name it.)             *)
IndexToken ==
  /\ HasIndex
  /\ ~PointerIsElsewhere
  /\ \E elements \in {Elements}, element_size \in {SizeIn(GetElementType(file.types, type))} :
       LET offset         == Head(query).value * element_size
           element_offset == Wrap(offset)
           elsewhere == ReadsPointer /\ PointerOverflows
           overflow == \/ elsewhere
                       \/ Overflows(0, offset)
                       \/ Overflows(element_offset, element_size)
                       \/ elements.size = 0 /\ element_size > 0
       IN  IF ~IsNull(elements) /\ elements.size > 0
                /\ Wrap(element_offset + element_size) > elements.size
           THEN /\ at' = "IndexOutOfBounds"
                /\ unchecked' = (unchecked \/ elsewhere)
                /\ UNCHANGED evaluation
           ELSE /\ query' = Tail(query)
                /\ data' = Part(elements, element_offset, element_size)
                /\ type' = GetElementType(file.types, type)
                /\ unchecked' = (unchecked \/ (~IsNull(elements) /\ overflow))
                /\ UNCHANGED <<info, struct_data, at>>

Token ==
  /\ \/ NoData
     \/ NameToken
     \/ NameOfNoStruct
     \/ IndexOfNoField
     \/ IndexOfNoElements
     \/ ReadElsewhere
     \/ IndexToken
  /\ UNCHANGED <<file, m_Ranges>>
=============================================================================
