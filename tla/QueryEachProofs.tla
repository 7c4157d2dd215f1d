--------------------------- MODULE QueryEachProofs ---------------------------
(***************************************************************************)
(* The evaluation of queries for every file and every call: wherever it    *)
(* is, its data lies in the body of one block or nowhere, unless a check   *)
(* has been passed by a number that had wrapped; what it answers is what   *)
(* the path means in the file; and a walk visits a list in its order.      *)
(***************************************************************************)
EXTENDS QueryEach, FiniteSetTheorems, SequenceTheorems, TLAPS

(***************************************************************************)
(* The inductive invariant.  Data comes from other data that an evaluation *)
(* remembers, the struct that the last field is in and the element that a  *)
(* walk is at; and an array is taken again from its field, whose end has   *)
(* to be a number that had not wrapped when the field was named.           *)
(***************************************************************************)
Ranges == {MemoryRange(file.blocks, i) : i \in {j \in DOMAIN file.blocks : file.blocks[j].length # 0}}

(* A span in a block of the file or nowhere, and one that is all of it in  *)
(* the body of its block.                                                  *)
Held(span) == span \in Span /\ span.block \in {NoBlock} \cup DOMAIN file.blocks
Lies(span) == IsNull(span) \/ IsInBody(span)

Context ==
  /\ IsCall(call) /\ file = call.file
  /\ phase # "value" => IsWalk
  /\ m_Ranges \in Seq(Ranges)

Places ==
  /\ Held(data) /\ Held(struct_data) /\ Held(element)
  /\ info # NoField => ~IsNull(struct_data)
  /\ call.kind \in {"GetValue", "GetPointer"} => ~IsNull(element)
  /\ ~unchecked => /\ Lies(data) /\ Lies(struct_data) /\ Lies(element)
                   /\ info = NoField \/ ~Overflows(info.offset, SizeIn(info.type))

IInv == TypeOK /\ Context /\ Places

-----------------------------------------------------------------------------
(* A non-empty set of naturals has a least element: an interval from 0 to  *)
(* one of its elements is finite, and one of these contains no other.      *)
LEMMA LeastElement ==
  ASSUME NEW S \in SUBSET Nat, S # {}
  PROVE  \E k \in S : \A j \in S : k <= j
<1> DEFINE Upto(k) == 0 .. k
           T       == {Upto(k) : k \in S}
<1>1. PICK k \in S : \A j \in S : ~(<<Upto(j), Upto(k)>> \in StrictSubsetOrdering(Nat))
  <2>1. ASSUME NEW k \in S PROVE IsFiniteSet(Upto(k)) /\ Upto(k) \in SUBSET Nat
    BY FS_Interval
  <2>2. T \subseteq FiniteSubsetsOf(Nat) /\ T # {}
    BY <2>1 DEF FiniteSubsetsOf
  <2>3. \E x \in T : \A y \in T : ~(<<y, x>> \in StrictSubsetOrdering(Nat))
    <3> HIDE DEF T
    <3> QED BY <2>2, FS_StrictSubsetOrderingWellFounded, WFMin
  <2> QED BY <2>3
<1>2. ASSUME NEW j \in S, j < k PROVE FALSE
  <2>1. /\ Upto(j) \in SUBSET Nat /\ Upto(k) \in SUBSET Nat
        /\ Upto(j) \subseteq Upto(k) /\ Upto(k) # Upto(j)
    BY <1>2
  <2> HIDE DEF Upto
  <2> QED BY <1>1, <2>1 DEF StrictSubsetOrdering
<1> QED BY <1>2

(* Min of naturals is one of them, and none is less.                       *)
LEMMA MinIsLeast ==
  ASSUME NEW S \in SUBSET Nat, S # {}
  PROVE  Min(S) \in S /\ \A k \in S : Min(S) <= k
<1>1. \E k \in S : \A j \in S : k <= j
  BY LeastElement
<1> QED BY <1>1 DEF Min

(* A word wraps at most once in a sum.                                     *)
LEMMA WrapSum ==
  ASSUME NEW m \in 0 .. MaxUsize, NEW n \in 0 .. MaxUsize
  PROVE  /\ m + n <= MaxUsize => Wrap(m + n) = m + n
         /\ m + n > MaxUsize => Wrap(m + n) = m + n - (MaxUsize + 1)
<1>1. MaxUsize \in Nat
  BY DeclaratorAssumption
<1> QED BY <1>1 DEF Wrap

(* A wrapped number is a word, and one that was a word is what it was.     *)
LEMMA WrapType ==
  ASSUME NEW n \in Nat
  PROVE  Wrap(n) \in 0 .. MaxUsize /\ (n <= MaxUsize => Wrap(n) = n)
<1>1. MaxUsize \in Nat
  BY DeclaratorAssumption
<1> QED BY <1>1 DEF Wrap

(* What a file is made of.                                                 *)
LEMMA FileFacts ==
  ASSUME Context
  PROVE  /\ IsFile(file) /\ file \in Files
         /\ DOMAIN file.blocks = 1 .. Len(file.blocks) /\ Len(file.blocks) \in Nat
         /\ \A i \in DOMAIN file.blocks :
              /\ file.blocks[i].address \in 0 .. MaxUsize /\ file.blocks[i].length \in 0 .. MaxUsize
              /\ file.blocks[i].body \in Seq(0 .. Radix - 1)
              /\ Len(file.blocks[i].body) \in Nat
              /\ file.blocks[i].length \in {0, Len(file.blocks[i].body)}
<1>1. IsFile(file) /\ file \in Files
  BY BlendQueryAssumption DEF Context, IsCall
<1>2. file.blocks \in Seq([address : 0 .. MaxUsize, length : 0 .. MaxUsize, body : Seq(0 .. Radix - 1)])
  BY <1>1 DEF IsFile
<1>3. DOMAIN file.blocks = 1 .. Len(file.blocks) /\ Len(file.blocks) \in Nat
  BY <1>2, LenProperties
<1>4. ASSUME NEW i \in DOMAIN file.blocks
      PROVE  /\ file.blocks[i].address \in 0 .. MaxUsize /\ file.blocks[i].length \in 0 .. MaxUsize
             /\ file.blocks[i].body \in Seq(0 .. Radix - 1)
             /\ Len(file.blocks[i].body) \in Nat
  <2>1. file.blocks[i] \in [address : 0 .. MaxUsize, length : 0 .. MaxUsize, body : Seq(0 .. Radix - 1)]
    BY <1>2, <1>3, ElementOfSeq
  <2> QED BY <2>1, LenProperties
<1> QED BY <1>1, <1>3, <1>4 DEF IsFile

(* What a type of a file is made of.                                       *)
LEMMA SlotFacts ==
  ASSUME Context, NEW slot \in Slots
  PROVE  /\ SizeIn(slot) \in 0 .. MaxUsize /\ SizeIn(slot) \in Nat
         /\ GetElementType(file.types, slot) # NoSlot => GetElementType(file.types, slot) \in Slots
         /\ Kind(slot) \in {"array", "pointer"} => GetElementType(file.types, slot) \in Slots
         /\ Kind(slot) = "aggregate" =>
              \A i \in DOMAIN Fields(slot) :
                /\ Fields(slot)[i].offset \in 0 .. MaxUsize /\ Fields(slot)[i].offset \in Nat
                /\ Fields(slot)[i].type \in Slots
                /\ Fields(slot)[i] \in Range(Fields(slot))
                /\ i \in Nat
<1>1. IsFile(file) /\ MaxUsize \in Nat
  BY FileFacts, DeclaratorAssumption
<1>2. SizeIn(slot) \in 0 .. MaxUsize /\ GetElementType(file.types, slot) \in NoSlot .. Len(file.types) - 1
  BY <1>1 DEF IsFile, Slots, SizeIn
<1>3. ASSUME Kind(slot) = "aggregate", NEW i \in DOMAIN Fields(slot)
      PROVE  /\ Fields(slot)[i].offset \in 0 .. MaxUsize /\ Fields(slot)[i].offset \in Nat
             /\ Fields(slot)[i].type \in Slots
             /\ Fields(slot)[i] \in Range(Fields(slot))
             /\ i \in Nat
  <2> DEFINE F == [offset : 0 .. MaxUsize, name : Names, type : 0 .. Len(file.types) - 1]
  <2>1. Fields(slot) \in Seq(F)
    BY <1>1, <1>3 DEF IsFile, Slots, Fields, Kind
  <2>2. i \in Nat /\ Fields(slot)[i] \in F
    <3> HIDE DEF F
    <3>1. i \in 1 .. Len(Fields(slot)) /\ Len(Fields(slot)) \in Nat
      BY <1>3, <2>1, LenProperties
    <3> QED BY <2>1, <3>1, ElementOfSeq
  <2> QED BY <1>1, <1>3, <2>2 DEF Slots, Range
<1>4. Kind(slot) \in {"array", "pointer"} => GetElementType(file.types, slot) # NoSlot
  BY <1>1 DEF IsFile, Slots, Kind
<1> QED BY <1>1, <1>2, <1>3, <1>4 DEF Slots, NoSlot

-----------------------------------------------------------------------------
(* The table has the range of every block that is not empty.               *)
Complete == \A r \in Ranges : \E i \in 1 .. Len(m_Ranges) : m_Ranges[i] = r

(* What GetMemory finds.                                                   *)
Spans(k, address, tail) ==
  /\ file.blocks[k].length # 0
  /\ file.blocks[k].address <= address
  /\ tail <= Wrap(file.blocks[k].address + file.blocks[k].length)

LEMMA MemoryIs ==
  ASSUME Context, NEW address \in 0 .. MaxUsize, NEW size \in 0 .. MaxUsize
  PROVE  LET memory == GetMemory(m_Ranges, address, size)
             tail   == Wrap(address + size)
         IN  \/ memory = Null(0) /\ (Complete => ~\E k \in DOMAIN file.blocks : Spans(k, address, tail))
             \/ \E k \in DOMAIN file.blocks :
                  /\ Spans(k, address, tail)
                  /\ memory = [block |-> k, offset |-> address - file.blocks[k].address, size |-> size]
<1> DEFINE tail   == Wrap(address + size)
           hits   == {i \in 1 .. Len(m_Ranges) : Covers(m_Ranges[i], address, tail)}
           memory == GetMemory(m_Ranges, address, size)
<1>1. MaxUsize \in Nat
  BY DeclaratorAssumption
<1>2. m_Ranges \in Seq(Ranges) /\ Len(m_Ranges) \in Nat
  BY LenProperties DEF Context
<1>3. tail \in Nat
  BY <1>1, WrapType
<1>4. hits \in SUBSET Nat /\ hits \subseteq 1 .. Len(m_Ranges) /\ DOMAIN m_Ranges = 1 .. Len(m_Ranges)
  BY <1>2, LenProperties
<1>5. SelectInSeq(m_Ranges, LAMBDA r : Covers(r, address, tail)) = IF hits # {} THEN Min(hits) ELSE 0
  BY DEF SelectInSeq
<1>6. ASSUME NEW k \in DOMAIN file.blocks
      PROVE  Covers(MemoryRange(file.blocks, k), address, tail) <=>
               /\ file.blocks[k].address <= address
               /\ tail <= Wrap(file.blocks[k].address + file.blocks[k].length)
  <2>1. file.blocks[k].address \in Nat /\ file.blocks[k].length \in Nat
    BY <1>1, FileFacts
  <2>2. file.blocks[k].address + file.blocks[k].length \in Nat
    BY <2>1
  <2>3. Wrap(file.blocks[k].address + file.blocks[k].length) \in Nat
    BY <1>1, <2>2, WrapType
  <2> HIDE DEF tail
  <2> QED BY <1>3, <2>3 DEF Covers, MemoryRange
<1>7. CASE hits = {}
  <2>1. memory = Null(0)
    BY <1>5, <1>7 DEF GetMemory
  <2>2. ASSUME Complete, NEW k \in DOMAIN file.blocks, Spans(k, address, tail) PROVE FALSE
    <3>1. MemoryRange(file.blocks, k) \in Ranges
      BY <2>2 DEF Ranges, Spans
    <3>2. PICK i \in 1 .. Len(m_Ranges) : m_Ranges[i] = MemoryRange(file.blocks, k)
      BY <2>2, <3>1 DEF Complete
    <3>3. Covers(m_Ranges[i], address, tail)
      BY <1>6, <2>2, <3>2 DEF Spans
    <3> QED BY <1>7, <3>3
  <2> HIDE DEF memory, tail
  <2>3. memory = Null(0) /\ (Complete => ~\E k \in DOMAIN file.blocks : Spans(k, address, tail))
    BY <2>1, <2>2
  <2> QED BY <2>3 DEF memory, tail
<1>8. CASE hits # {}
  <2> HIDE DEF hits
  <2>1. Min(hits) \in hits
    BY <1>4, <1>8, MinIsLeast
  <2> DEFINE found == Min(hits)
             range == m_Ranges[found]
  <2>2. found \in 1 .. Len(m_Ranges) /\ found # 0 /\ Covers(range, address, tail)
    BY <1>2, <1>4, <2>1 DEF hits
  <2>3. memory = [block |-> range.block, offset |-> address - range.head, size |-> size]
    BY <1>5, <1>8, <2>2 DEF GetMemory
  <2>4. range \in Ranges
    BY <1>2, <2>2, ElementOfSeq
  <2> HIDE DEF memory, range, found, tail
  <2>5. PICK k \in DOMAIN file.blocks : file.blocks[k].length # 0 /\ range = MemoryRange(file.blocks, k)
    BY <2>4 DEF Ranges
  <2>6. range.head = file.blocks[k].address /\ range.block = k
    BY <2>5 DEF MemoryRange
  <2>7. memory = [block |-> k, offset |-> address - file.blocks[k].address, size |-> size]
    BY <2>3, <2>6
  <2>8. Spans(k, address, tail)
    BY <1>6, <2>2, <2>5 DEF Spans
  <2> QED BY <2>7, <2>8 DEF memory, tail
<1> QED BY <1>7, <1>8

(* Nothing is nowhere.                                                     *)
LEMMA NullIsHeld == Held(Null(0)) /\ Lies(Null(0)) /\ IsNull(Null(0)) /\ Null(0).size = 0
BY DEF Held, Lies, Null, IsNull, NoBlock, Span

(* What GetMemory finds lies in the body of a block, unless the end of     *)
(* what was asked for had wrapped.  A range whose own end has wrapped      *)
(* covers nothing.                                                         *)
LEMMA MemoryLiesInABlock ==
  ASSUME Context, NEW address \in 0 .. MaxUsize, NEW size \in 0 .. MaxUsize
  PROVE  LET memory == GetMemory(m_Ranges, address, size)
         IN  /\ Held(memory) /\ memory.size \in {0, size}
             /\ ~Overflows(address, size) => Lies(memory)
<1> DEFINE tail   == Wrap(address + size)
           memory == GetMemory(m_Ranges, address, size)
<1>1. MaxUsize \in Nat
  BY DeclaratorAssumption
<1>2. ASSUME memory = Null(0) PROVE Held(memory) /\ memory.size = 0 /\ Lies(memory)
  BY <1>2, NullIsHeld
<1>3. ASSUME NEW k \in DOMAIN file.blocks, Spans(k, address, tail),
             memory = [block |-> k, offset |-> address - file.blocks[k].address, size |-> size]
      PROVE  Held(memory) /\ memory.size = size /\ (~Overflows(address, size) => Lies(memory))
  <2> DEFINE head   == file.blocks[k].address
             length == file.blocks[k].length
  <2>1. /\ head \in 0 .. MaxUsize /\ length \in 0 .. MaxUsize
        /\ length = Len(file.blocks[k].body) /\ k \in Nat /\ k # 0
    BY <1>3, FileFacts DEF Spans
  <2>2. head <= address /\ tail <= Wrap(head + length)
    BY <1>3 DEF Spans
  <2> HIDE DEF head, length, memory, tail
  <2>3. memory.block = k /\ memory.offset = address - head /\ memory.size = size
    BY <1>3 DEF head
  <2>4. Held(memory)
    BY <1>1, <1>3, <2>1, <2>2 DEF Held, Span, head
  <2>5. ASSUME ~Overflows(address, size) PROVE Lies(memory)
    <3>1. tail = address + size
      BY <1>1, <2>5, WrapSum DEF tail, Overflows
    <3>2. head + length <= MaxUsize /\ Wrap(head + length) = head + length
      BY <1>1, <2>1, <2>2, <3>1, WrapSum
    <3>3. memory.offset + memory.size <= length
      BY <1>1, <2>1, <2>2, <2>3, <3>1, <3>2
    <3> QED BY <1>3, <2>1, <2>3, <3>3 DEF Lies, IsInBody, IsNull, NoBlock
  <2> QED BY <2>3, <2>4, <2>5
<1>4. \/ memory = Null(0)
      \/ \E k \in DOMAIN file.blocks :
           /\ Spans(k, address, tail)
           /\ memory = [block |-> k, offset |-> address - file.blocks[k].address, size |-> size]
  BY MemoryIs
<1> HIDE DEF memory, tail
<1>5. Held(memory) /\ memory.size \in {0, size} /\ (~Overflows(address, size) => Lies(memory))
  <2>1. CASE memory = Null(0)
    BY <1>2, <2>1
  <2>2. CASE memory # Null(0)
    <3>1. PICK k \in DOMAIN file.blocks :
            /\ Spans(k, address, tail)
            /\ memory = [block |-> k, offset |-> address - file.blocks[k].address, size |-> size]
      BY <1>4, <2>2
    <3>2. Held(memory) /\ memory.size = size /\ (~Overflows(address, size) => Lies(memory))
      BY <1>3, <3>1
    <3> QED BY <3>2
  <2> QED BY <2>1, <2>2
<1> QED BY <1>5 DEF memory

(* A part of a span, and what GetData takes from a struct.                 *)
LEMMA PartLies ==
  ASSUME Context, NEW span, Held(span), NEW offset \in Nat, NEW size \in Nat
  PROVE  /\ Held(Part(span, offset, size))
         /\ Part(span, offset, size).size = size
         /\ IsNull(Part(span, offset, size)) <=> IsNull(span)
         /\ Lies(span) /\ offset + size <= span.size => Lies(Part(span, offset, size))
<1> DEFINE part == Part(span, offset, size)
<1>1. span.block \in Nat /\ span.offset \in Nat /\ span.size \in Nat
  BY DEF Held, Span
<1>2. part.block = span.block /\ part.size = size
      /\ part.offset = IF IsNull(span) THEN 0 ELSE span.offset + offset
  BY DEF Part
<1>3. Held(part)
  BY <1>1 DEF Held, Span, Part
<1>4. ASSUME Lies(span), offset + size <= span.size PROVE Lies(part)
  <2>1. CASE IsNull(span)
    BY <1>2, <2>1 DEF Lies, IsNull
  <2>2. CASE ~IsNull(span)
    <3>1. span.offset + span.size <= Len(file.blocks[span.block].body) /\ span.block \in DOMAIN file.blocks
      BY <1>4, <2>2 DEF Lies, IsInBody, Held, IsNull
    <3>2. Len(file.blocks[span.block].body) \in Nat
      BY <3>1, FileFacts
    <3>3. part.offset + part.size <= Len(file.blocks[span.block].body)
      <4> DEFINE length == Len(file.blocks[span.block].body)
      <4>1. part.offset = span.offset + offset /\ part.size = size
        BY <1>2, <2>2
      <4>2. span.offset + span.size <= length /\ length \in Nat
        BY <3>1, <3>2
      <4> HIDE DEF part, length
      <4>3. span.offset + offset + size <= length
        BY <1>1, <1>4, <4>2
      <4>4. part.offset + part.size <= length
        BY <4>1, <4>3
      <4> QED BY <4>4 DEF length
    <3> QED BY <1>2, <3>3 DEF Lies, IsInBody, IsNull
  <2> QED BY <2>1, <2>2
<1> QED BY <1>2, <1>3, <1>4 DEF IsNull

IsFieldOf(field) == field.offset \in 0 .. MaxUsize /\ field.type \in Slots

(* What GetData takes lies where the struct does, unless its end wraps.    *)
LEMMA DataLies ==
  ASSUME Context, NEW span, Held(span), NEW field, IsFieldOf(field)
  PROVE  LET value == GetData(field, span)
         IN  /\ Held(value)
             /\ value = Null(0) \/ (IsNull(value) <=> IsNull(span))
             /\ Lies(span) /\ ~Overflows(field.offset, SizeIn(field.type)) => Lies(value)
<1> DEFINE value == GetData(field, span)
           size  == SizeIn(field.type)
<1>1. field.offset \in 0 .. MaxUsize /\ size \in 0 .. MaxUsize /\ MaxUsize \in Nat
  BY SlotFacts, DeclaratorAssumption DEF IsFieldOf
<1>2. CASE value = Null(0)
  BY <1>2, NullIsHeld
<1>3. CASE value = Part(span, field.offset, size) /\ ~(Wrap(field.offset + size) > span.size)
  <2> DEFINE part == Part(span, field.offset, size)
  <2>3. field.offset \in Nat /\ size \in Nat
    BY <1>1
  <2> HIDE DEF size
  <2>4. Held(part) /\ (IsNull(part) <=> IsNull(span))
        /\ (Lies(span) /\ field.offset + size <= span.size => Lies(part))
    BY <2>3, PartLies
  <2>1. Held(value) /\ (IsNull(value) <=> IsNull(span))
    BY <1>3, <2>4
  <2>2. ASSUME Lies(span), ~Overflows(field.offset, size) PROVE Lies(value)
    <3>1. Wrap(field.offset + size) = field.offset + size
      BY <1>1, <2>2, WrapSum DEF Overflows
    <3>2. span.size \in Nat
      BY DEF Held, Span
    <3>3. field.offset + size <= span.size
      BY <1>1, <1>3, <3>1, <3>2
    <3> QED BY <1>3, <2>2, <2>4, <3>3
  <2> QED BY <2>1, <2>2 DEF size
<1> QED BY <1>2, <1>3 DEF GetData

(* The address that a pointer holds is that of a byte, and where it leads  *)
(* is looked up in the table.                                              *)
LEMMA AddressIsWord ==
  ASSUME Context, NEW span, Held(span), IsInBody(span), span.size = PointerSize
  PROVE  Address(span) \in 0 .. MaxUsize
<1> DEFINE bytes == file.blocks[span.block].body
<1>1. span.block \in DOMAIN file.blocks /\ span.offset \in Nat /\ span.offset + PointerSize <= Len(bytes)
  BY DEF Held, Span, IsInBody, IsNull
<1>2. bytes \in Seq(0 .. Radix - 1) /\ Len(bytes) \in Nat
  BY <1>1, FileFacts
<1>3. PointerSize \in Nat /\ PointerSize >= 1
  BY DeclaratorAssumption
<1>4. \A i \in span.offset + 1 .. span.offset + PointerSize : bytes[i] \in 0 .. Radix - 1
  <2> TAKE i \in span.offset + 1 .. span.offset + PointerSize
  <2>1. i \in 1 .. Len(bytes)
    BY <1>1, <1>2, <1>3
  <2> QED BY <1>2, <2>1, ElementOfSeq
<1>5. Bytes(span) \in [1 .. PointerSize -> 0 .. Radix - 1]
  <2> DEFINE m == span.offset + 1
             n == span.offset + PointerSize
             part == SubSeq(bytes, m, n)
  <2>1. m \in Int /\ n \in Int /\ m <= n /\ n - m + 1 = PointerSize
    BY <1>1, <1>3
  <2>2. \A i \in m .. n : bytes[i] \in 0 .. Radix - 1
    BY <1>4
  <2> HIDE DEF bytes, m, n
  <2>3. part \in Seq(0 .. Radix - 1) /\ Len(part) = PointerSize
    BY <2>1, <2>2, SubSeqProperties
  <2>4. Bytes(span) = part
    BY DEF Bytes, bytes, m, n
  <2> HIDE DEF part
  <2>5. part \in [1 .. Len(part) -> 0 .. Radix - 1]
    BY <2>3, LenProperties
  <2> QED BY <2>3, <2>4, <2>5
<1> QED BY <1>5, AddressAssumption DEF Address

(* So does what GetPointerData finds, unless the end of that wraps.        *)
LEMMA PointerDataLies ==
  ASSUME Context, NEW span, Held(span), ~IsNull(span), NEW field, IsFieldOf(field),
         Kind(field.type) = "pointer", IsNull(GetData(field, span)) \/ IsInBody(GetData(field, span))
  PROVE  LET memory == GetPointerData(field, span)
             to     == SizeIn(GetElementType(file.types, field.type))
         IN  /\ Held(memory)
             /\ Lies(memory) \/ Overflows(Address(GetData(field, span)), to)
<1> DEFINE value == GetData(field, span)
           to    == SizeIn(GetElementType(file.types, field.type))
<1>1. to \in 0 .. MaxUsize
  BY SlotFacts DEF IsFieldOf
<1>2. Held(value) /\ (value = Null(0) \/ ~IsNull(value))
  BY DataLies
<1>3. CASE value.size # PointerSize
  BY <1>3, NullIsHeld DEF GetPointerData
<1>4. CASE value.size = PointerSize
  <2>1. IsInBody(value)
    BY <1>2, <1>4, NullIsHeld, DeclaratorAssumption
  <2>2. Address(value) \in 0 .. MaxUsize
    BY <1>2, <1>4, <2>1, AddressIsWord
  <2>3. GetPointerData(field, span) = GetMemory(m_Ranges, Address(value), to)
    BY <1>4 DEF GetPointerData
  <2> HIDE DEF to, value
  <2>4. Held(GetMemory(m_Ranges, Address(value), to))
        /\ (~Overflows(Address(value), to) => Lies(GetMemory(m_Ranges, Address(value), to)))
    BY <1>1, <2>2, MemoryLiesInABlock
  <2> QED BY <2>3, <2>4 DEF to, value
<1> QED BY <1>3, <1>4

(* The last field named is one of the file.                                *)
LEMMA InfoIsField ==
  ASSUME TypeOK, Context, info # NoField
  PROVE  IsFieldOf(info)
<1>1. PICK slot \in Slots : Kind(slot) = "aggregate" /\ info \in Range(Fields(slot))
  BY DEF TypeOK
<1>2. PICK i \in DOMAIN Fields(slot) : info = Fields(slot)[i]
  BY <1>1 DEF Range
<1> QED BY <1>1, <1>2, SlotFacts DEF IsFieldOf

(* The first field of a name, if there is one.                             *)
LEMMA FirstNamed ==
  ASSUME Context, NEW slot \in Slots, Kind(slot) = "aggregate", NEW n, FieldsNamed(slot, n) # {}
  PROVE  LET field == Fields(slot)[Min(FieldsNamed(slot, n))]
         IN  IsFieldOf(field) /\ field \in Range(Fields(slot))
<1>1. FieldsNamed(slot, n) \in SUBSET Nat /\ FieldsNamed(slot, n) \subseteq DOMAIN Fields(slot)
  BY SlotFacts DEF FieldsNamed
<1>2. Min(FieldsNamed(slot, n)) \in DOMAIN Fields(slot)
  BY <1>1, MinIsLeast
<1> QED BY <1>2, SlotFacts DEF IsFieldOf

-----------------------------------------------------------------------------
(* The steps.  One that leaves the evaluation where it is may answer, call *)
(* back and find the Blend moved away.                                     *)
LEMMA StayKeeps ==
  ASSUME IInv, UNCHANGED <<file, evaluation, unchecked, call, element, phase>>,
         at' \in {"call", "token"} \cup Answers,
         m_Ranges' \in {m_Ranges, <<>>},
         seen' \in Seq(Span), Len(seen') <= MaxSeen,
         moved' \in BOOLEAN, moved' => IsWalk /\ m_Ranges' = <<>>
  PROVE  IInv'
<1> USE DEF evaluation
<1>1. TypeOK'
  BY DEF IInv, TypeOK, Slots, Kind, Fields, IsWalk
<1>2. Context'
  BY EmptySeq DEF IInv, Context, Ranges, IsWalk
<1>3. Places'
  BY DEF IInv, Places, Held, Lies, IsInBody, SizeIn
<1> QED BY <1>1, <1>2, <1>3 DEF IInv

(* A step that begins an evaluation.                                       *)
LEMMA EvaluateKeeps ==
  ASSUME IInv, NEW next \in {"value", "next", "element"}, NEW slot \in Slots,
         NEW span, Held(span), ~unchecked => Lies(span), NEW tokens \in Seq(Tokens),
         next # "value" => IsWalk,
         Evaluate(next, slot, span, tokens), element' = element \/ (element' = span /\ IsWalk),
         UNCHANGED <<file, m_Ranges, unchecked, call, seen, moved>>
  PROVE  IInv'
<1>1. /\ at' = "token" /\ phase' = next /\ query' = tokens /\ data' = span /\ struct_data' = span
      /\ type' = slot /\ info' = NoField
  BY DEF Evaluate, Begin
<1>2. TypeOK'
  BY <1>1 DEF IInv, TypeOK, Places, Held, Slots, Kind, Fields, IsWalk
<1>3. Context'
  BY <1>1 DEF IInv, Context, Ranges, IsWalk
<1>4. Places'
  BY <1>1 DEF IInv, Places, Held, Lies, IsInBody, IsWalk
<1> QED BY <1>2, <1>3, <1>4 DEF IInv

(* A step from one place to another.                                       *)
LEMMA MoveKeeps ==
  ASSUME IInv, UNCHANGED <<file, m_Ranges, walk, phase>>,
         at' \in {"call", "token"} \cup Answers, unchecked' \in BOOLEAN, unchecked => unchecked',
         query' \in Seq(Tokens), type' \in Slots,
         Held(data'), ~unchecked' => Lies(data'),
         \/ UNCHANGED <<info, struct_data>>
         \/ /\ struct_data' = data /\ ~IsNull(data)
            /\ \E slot \in Slots : Kind(slot) = "aggregate" /\ info' \in Range(Fields(slot))
            /\ ~unchecked' => ~Overflows(info'.offset, SizeIn(info'.type))
  PROVE  IInv'
<1> USE DEF walk
<1>1. TypeOK'
  BY DEF IInv, TypeOK, Places, Held, Slots, Kind, Fields, IsWalk
<1>2. Context'
  BY DEF IInv, Context, Ranges, IsWalk
<1>3. Held(data)' /\ Held(struct_data)' /\ Held(element)'
  BY DEF IInv, Places, Held
<1>4. info' # NoField => ~IsNull(struct_data')
  BY DEF IInv, Places
<1>5. ~unchecked' => Lies(data)' /\ Lies(struct_data)' /\ Lies(element)'
  BY DEF IInv, Places, Lies, IsInBody, TypeOK
<1>6. ~unchecked' => info' = NoField \/ ~Overflows(info'.offset, SizeIn(info'.type))
  BY DEF IInv, Places, TypeOK
<1>7. call'.kind \in {"GetValue", "GetPointer"} => ~IsNull(element')
  BY DEF IInv, Places
<1>8. Places'
  BY <1>3, <1>4, <1>5, <1>6, <1>7 DEF Places, SizeIn, IsNull
<1> QED BY <1>1, <1>2, <1>8 DEF IInv

(* A name keeps the invariant.                                             *)
LEMMA NameTokenKeeps ==
  ASSUME IInv, NameToken, UNCHANGED <<file, m_Ranges, phase, walk>>
  PROVE  IInv'
<1> DEFINE named == FieldsNamed(type, Head(query).value)
           field == Fields(type)[Min(named)]
<1>1. Kind(type) = "aggregate" /\ at = "token" /\ query # <<>> /\ ~IsNull(data) /\ type \in Slots
      /\ query \in Seq(Tokens)
  BY DEF NameToken, HasToken, IInv, TypeOK
<1>2. CASE named = {}
  BY <1>2, StayKeeps DEF NameToken, Fail, Answers, Errors, IInv, TypeOK, walk
<1>3. CASE named # {}
  <2>1. /\ query' = Tail(query) /\ data' = GetData(field, data) /\ type' = field.type
        /\ info' = field /\ struct_data' = data /\ at' = at
        /\ unchecked' = (unchecked \/ Overflows(field.offset, SizeIn(field.type)))
    BY <1>3 DEF NameToken
  <2>2. IsFieldOf(field) /\ field \in Range(Fields(type))
    BY <1>1, <1>3, FirstNamed DEF IInv
  <2> HIDE DEF named, field
  <2>3. Tail(query) \in Seq(Tokens)
    BY <1>1, HeadTailProperties
  <2>4. unchecked \in BOOLEAN /\ unchecked' \in BOOLEAN
    BY <2>1 DEF IInv, TypeOK
  <2>5. /\ Held(GetData(field, data))
        /\ Lies(data) /\ ~Overflows(field.offset, SizeIn(field.type)) => Lies(GetData(field, data))
    BY <2>2, DataLies DEF IInv, Places
  <2>6. ~unchecked' => Lies(data')
    BY <2>1, <2>5 DEF IInv, Places
  <2> QED BY <1>1, <2>1, <2>2, <2>3, <2>4, <2>5, <2>6, MoveKeeps DEF IsFieldOf
<1> QED BY <1>2, <1>3

(* An index keeps it.                                                      *)
LEMMA IndexTokenKeeps ==
  ASSUME IInv, IndexToken, UNCHANGED <<file, m_Ranges, phase, walk>>
  PROVE  IInv'
<1> DEFINE elements       == Elements
           inner          == GetElementType(file.types, type)
           size           == SizeIn(inner)
           offset         == Head(query).value * size
           element_offset == Wrap(offset)
           overflow == \/ ReadsPointer /\ PointerOverflows
                       \/ Overflows(0, offset)
                       \/ Overflows(element_offset, size)
                       \/ elements.size = 0 /\ size > 0
           refused == ~IsNull(elements) /\ elements.size > 0 /\ Wrap(element_offset + size) > elements.size
<1>1. IF refused
      THEN /\ at' = "IndexOutOfBounds"
           /\ unchecked' = (unchecked \/ (ReadsPointer /\ PointerOverflows))
           /\ UNCHANGED evaluation
      ELSE /\ query' = Tail(query)
           /\ data' = Part(elements, element_offset, size)
           /\ type' = inner
           /\ unchecked' = (unchecked \/ (~IsNull(elements) /\ overflow))
           /\ UNCHANGED <<info, struct_data, at>>
  BY DEF IndexToken
<1>2. CASE refused
  <2>1. at' \in Answers /\ UNCHANGED evaluation
    BY <1>1, <1>2 DEF Answers, Errors
  <2>2. unchecked' \in BOOLEAN /\ (unchecked => unchecked')
    BY <1>1, <1>2 DEF IInv, TypeOK
  <2>3. query' \in Seq(Tokens) /\ type' \in Slots /\ Held(data') /\ (~unchecked' => Lies(data'))
    BY <2>1, <2>2 DEF evaluation, IInv, TypeOK, Places
  <2> QED BY <2>1, <2>2, <2>3, MoveKeeps DEF evaluation
<1>3. CASE ~refused
  <2>1. /\ at = "token" /\ query # <<>> /\ ~IsNull(data) /\ info # NoField /\ inner \in Slots
        /\ Head(query).kind = "index" /\ query \in Seq(Tokens) /\ type \in Slots
        /\ ~PointerIsElsewhere
    BY SlotFacts DEF IndexToken, HasIndex, HasToken, IInv, TypeOK
  <2>2. Tail(query) \in Seq(Tokens) /\ Head(query).value \in Nat
    <3>1. Head(query) \in Tokens /\ Tail(query) \in Seq(Tokens)
      BY <2>1, HeadTailProperties
    <3> QED BY <2>1, <3>1 DEF Tokens
  <2>3. IsFieldOf(info) /\ Held(struct_data) /\ ~IsNull(struct_data)
    BY <2>1, InfoIsField DEF IInv, Places
  <2>4. size \in 0 .. MaxUsize /\ MaxUsize \in Nat
    BY <2>1, SlotFacts, DeclaratorAssumption DEF IInv
  <2>5. offset \in Nat /\ element_offset \in 0 .. MaxUsize /\ (offset <= MaxUsize => element_offset = offset)
    <3>1. offset \in Nat
      BY <2>2, <2>4
    <3> HIDE DEF offset
    <3> QED BY <3>1, WrapType
  <2>6. Held(elements) /\ (~unchecked /\ ~(ReadsPointer /\ PointerOverflows) => Lies(elements))
    <3>1. CASE Kind(type) = "array"
      <4>1. elements = GetData(info, struct_data)
        BY <3>1 DEF Elements, ReadsPointer
      <4> QED BY <2>1, <2>3, <4>1, DataLies DEF IInv, Places
    <3>2. CASE ReadsPointer
      <4>1. elements = GetPointerData(info, struct_data)
        BY <3>2 DEF Elements, ReadsPointer
      <4>2. IsNull(GetData(info, struct_data)) \/ IsInBody(GetData(info, struct_data))
        BY <2>1, <3>2 DEF PointerIsElsewhere
      <4> QED BY <2>3, <3>2, <4>1, <4>2, PointerDataLies DEF ReadsPointer, PointerOverflows, IInv
    <3>3. CASE Kind(type) # "array" /\ ~ReadsPointer
      BY <3>3, NullIsHeld DEF Elements
    <3> QED BY <3>1, <3>2, <3>3
  <2> HIDE DEF elements, inner, size, offset, element_offset
  <2>7. Held(data') /\ (IsNull(data') <=> IsNull(elements))
        /\ (Lies(elements) /\ element_offset + size <= elements.size => Lies(data'))
    <3>1. element_offset \in Nat /\ size \in Nat
      BY <2>4, <2>5
    <3> QED BY <1>1, <1>3, <2>6, <3>1, PartLies DEF IInv
  <2>8. ASSUME ~unchecked' PROVE Lies(data')
    <3>1. CASE IsNull(elements)
      BY <2>7, <3>1 DEF Lies
    <3>2. CASE ~IsNull(elements)
      <4>1. ~unchecked /\ ~overflow
        BY <1>1, <1>3, <2>8, <3>2
      <4>2. Lies(elements) /\ elements.size \in Nat
        BY <2>6, <4>1 DEF Held, Span
      <4>3. offset <= MaxUsize /\ element_offset = offset
        BY <2>4, <2>5, <4>1 DEF Overflows
      <4>4. element_offset + size <= MaxUsize
        BY <2>4, <2>5, <4>1 DEF Overflows
      <4>5. Wrap(element_offset + size) = element_offset + size
        BY <2>4, <2>5, <4>4, WrapSum
      <4>6. CASE elements.size > 0
        BY <1>3, <2>4, <2>5, <2>7, <3>2, <4>2, <4>5, <4>6
      <4>7. CASE elements.size = 0
        <5>1. size = 0
          BY <2>4, <4>1, <4>7
        <5>2. element_offset = 0
          BY <2>2, <4>3, <5>1 DEF offset
        <5> QED BY <2>7, <4>2, <4>7, <5>1, <5>2
      <4> QED BY <4>2, <4>6, <4>7
    <3> QED BY <3>1, <3>2
  <2>9. unchecked' \in BOOLEAN /\ (unchecked => unchecked')
    BY <1>1, <1>3 DEF IInv, TypeOK
  <2> QED BY <1>1, <1>3, <2>1, <2>2, <2>7, <2>8, <2>9, MoveKeeps
<1> QED BY <1>2, <1>3

(* So does every step of an evaluation.                                    *)
LEMMA StepKeeps ==
  ASSUME IInv, Step
  PROVE  IInv'
<1>1. UNCHANGED <<file, m_Ranges, phase, walk>>
  BY DEF Step, Token
<1>2. ASSUME NEW error \in Answers, Fail(error) PROVE IInv'
  BY <1>1, <1>2, StayKeeps DEF Fail, IInv, TypeOK, walk
<1>3. CASE NoData \/ NameOfNoStruct \/ IndexOfNoField \/ IndexOfNoElements
  BY <1>2, <1>3 DEF NoData, NameOfNoStruct, IndexOfNoField, IndexOfNoElements, Answers, Errors
<1>4. CASE ReadElsewhere
  BY <1>1, <1>4, StayKeeps DEF ReadElsewhere, Answers, IInv, TypeOK, walk
<1>5. CASE NameToken
  BY <1>1, <1>5, NameTokenKeeps
<1>6. CASE IndexToken
  BY <1>1, <1>6, IndexTokenKeeps
<1> QED BY <1>3, <1>4, <1>5, <1>6 DEF Step, Token

(* Reading a field is one step, from the data of the call.                 *)
LEMMA ReadFieldKeeps ==
  ASSUME IInv, ReadField
  PROVE  IInv'
<1> DEFINE field   == FieldRead
           pointer == GetData(field, element)
           reads   == call.kind = "GetPointer" /\ Kind(field.type) = "pointer"
           found   == IF call.kind = "GetValue" THEN GetValue(field, call.as)
                      ELSE GetPointer(field, call.as)
           to      == SizeIn(GetElementType(file.types, field.type))
<1>1. /\ unchecked' = (\/ unchecked
                       \/ Overflows(field.offset, SizeIn(field.type))
                       \/ reads /\ IsInBody(pointer) /\ Overflows(Address(pointer), to))
      /\ IF reads /\ ~IsNull(pointer) /\ ~IsInBody(pointer)
         THEN at' = "undefined" /\ UNCHANGED data
         ELSE IF IsNull(found)
         THEN at' = "none" /\ UNCHANGED data
         ELSE at' = "ok" /\ data' = found
      /\ UNCHANGED <<file, m_Ranges, query, type, info, struct_data, phase, walk>>
  BY DEF ReadField
<1>2. /\ call.type \in Slots /\ Kind(call.type) = "aggregate" /\ call.kind \in {"GetValue", "GetPointer"}
      /\ FieldsNamed(call.type, Head(call.query).value) # {}
  <2>1. /\ call.type \in Slots /\ Kind(call.type) = "aggregate" /\ call.kind \in {"GetValue", "GetPointer"}
        /\ \E i \in DOMAIN Fields(call.type) :
             LET name == Name(Fields(call.type)[i].name)
             IN  call.query = IF call.kind = "GetValue" THEN <<name>> ELSE <<name, Index(0)>>
    BY DEF IInv, Context, IsCall, ReadField, Slots, Kind, Fields
  <2>2. PICK i \in DOMAIN Fields(call.type) :
          call.query = IF call.kind = "GetValue" THEN <<Name(Fields(call.type)[i].name)>>
                       ELSE <<Name(Fields(call.type)[i].name), Index(0)>>
    BY <2>1
  <2>3. Head(call.query) = Name(Fields(call.type)[i].name)
    BY <2>2
  <2>4. i \in FieldsNamed(call.type, Head(call.query).value)
    BY <2>3 DEF FieldsNamed, Name
  <2> QED BY <2>1, <2>4
<1>3. IsFieldOf(field)
  BY <1>2, FirstNamed DEF IInv, FieldRead
<1>4. Held(element) /\ ~IsNull(element) /\ (~unchecked => Lies(element))
  BY <1>2 DEF IInv, Places
<1> HIDE DEF field
<1>5. /\ Held(pointer) /\ (pointer = Null(0) \/ ~IsNull(pointer))
      /\ (~unchecked /\ ~Overflows(field.offset, SizeIn(field.type)) => Lies(pointer))
  BY <1>3, <1>4, DataLies DEF IInv
<1>6. CASE reads /\ ~IsNull(pointer) /\ ~IsInBody(pointer)
  <2>1. at' = "undefined" /\ UNCHANGED data
    BY <1>1, <1>6
  <2>2. Held(data') /\ (~unchecked' => Lies(data'))
    BY <1>1, <2>1 DEF IInv, Places
  <2> QED BY <1>1, <2>1, <2>2, MoveKeeps DEF IInv, TypeOK, Answers
<1>7. CASE ~(reads /\ ~IsNull(pointer) /\ ~IsInBody(pointer))
  <2>1. Held(found) /\ (~unchecked' => Lies(found))
    <3>1. CASE call.kind = "GetValue"
      <4>1. found = pointer \/ found = Null(0)
        BY <3>1 DEF GetValue
      <4> QED BY <1>1, <1>5, <4>1, NullIsHeld
    <3>2. CASE call.kind = "GetPointer" /\ ~reads
      <4>1. found = Null(0)
        <5>1. GetPointer(field, call.as) = Null(0)
          BY <3>2 DEF GetPointer
        <5> QED BY <3>2, <5>1
      <4> QED BY <4>1, NullIsHeld
    <3>3. CASE reads
      <4>1. found = GetPointerData(field, element) \/ found = Null(0)
        BY <3>3 DEF GetPointer
      <4>2. IsNull(pointer) \/ IsInBody(pointer)
        BY <1>7, <3>3
      <4>3. /\ Held(GetPointerData(field, element))
            /\ Lies(GetPointerData(field, element)) \/ Overflows(Address(pointer), to)
        BY <1>3, <1>4, <3>3, <4>2, PointerDataLies DEF IInv
      <4>4. ASSUME ~unchecked', ~IsInBody(pointer) PROVE Lies(GetPointerData(field, element))
        <5>1. pointer = Null(0)
          BY <1>5, <4>2, <4>4
        <5>2. GetPointerData(field, element) = Null(0)
          BY <5>1, NullIsHeld, DeclaratorAssumption DEF GetPointerData
        <5> QED BY <5>2, NullIsHeld
      <4>5. ASSUME ~unchecked', IsInBody(pointer) PROVE Lies(GetPointerData(field, element))
        BY <1>1, <3>3, <4>3, <4>5
      <4> QED BY <4>1, <4>3, <4>4, <4>5, NullIsHeld
    <3> QED BY <1>2, <3>1, <3>2, <3>3
  <2>2. (at' = "none" /\ UNCHANGED data) \/ (at' = "ok" /\ data' = found)
    BY <1>1, <1>7
  <2>3. Held(data') /\ (~unchecked' => Lies(data'))
    BY <1>1, <2>1, <2>2 DEF IInv, Places
  <2>4. at' \in Answers
    BY <2>2 DEF Answers
  <2> QED BY <1>1, <2>3, <2>4, MoveKeeps DEF IInv, TypeOK
<1> QED BY <1>6, <1>7

(* A table has a range for every block that is not empty.                  *)
LEMMA RangesAreFinite == IsFile(file) => IsFiniteSet(Ranges)
<1> SUFFICES ASSUME IsFile(file) PROVE IsFiniteSet(Ranges)
  OBVIOUS
<1> DEFINE some == {j \in DOMAIN file.blocks : file.blocks[j].length # 0}
           f    == [i \in some |-> MemoryRange(file.blocks, i)]
<1>1. DOMAIN file.blocks = 1 .. Len(file.blocks) /\ Len(file.blocks) \in Nat
  <2>1. file.blocks \in Seq([address : 0 .. MaxUsize, length : 0 .. MaxUsize, body : Seq(0 .. Radix - 1)])
    BY DEF IsFile
  <2> QED BY <2>1, LenProperties
<1>2. IsFiniteSet(some)
  <2>1. IsFiniteSet(1 .. Len(file.blocks))
    <3> HIDE DEF some, f
    <3> QED BY <1>1, FS_Interval
  <2> QED BY <1>1, <2>1, FS_Subset
<1>3. Ranges = {f[i] : i \in some}
  BY DEF Ranges
<1>4. f \in Surjection(some, Ranges)
  <2> HIDE DEF some
  <2>1. f \in [some -> Ranges] /\ \A r \in Ranges : \E i \in some : f[i] = r
    BY <1>3
  <2> QED BY <2>1 DEF Surjection
<1> HIDE DEF some, f
<1> QED BY <1>2, <1>4, FS_Surjection

(* The invariant, at first.                                                *)
LEMMA InitHolds == Init => IInv
<1> SUFFICES ASSUME Init PROVE IInv
  OBVIOUS
<1>1. IsCall(call) /\ file = call.file /\ file \in Files
  BY QueryEachAssumption DEF Init, IsCall
<1>2. file.blocks \in Seq([address : 0 .. MaxUsize, length : 0 .. MaxUsize, body : Seq(0 .. Radix - 1)])
  BY <1>1, BlendQueryAssumption DEF IsFile
<1>3. m_Ranges \in Seq(Ranges)
  <2>4. Cardinality(Ranges) \in Nat
    BY <1>1, BlendQueryAssumption, RangesAreFinite, FS_CardinalityType
  <2>5. m_Ranges \in SetToSeqs(Ranges)
    BY DEF Init, CreateMemoryTable, Ranges
  <2>6. m_Ranges \in [1 .. Cardinality(Ranges) -> Ranges]
    BY <2>5 DEF SetToSeqs
  <2> QED BY <2>4, <2>6
<1>4. Context
  BY <1>1, <1>3 DEF Context, Init
<1>5. data = CallData /\ struct_data = CallData /\ element = CallData /\ info = NoField
      /\ unchecked = (call.cast /\ ~IsInBody(CallData))
  BY DEF Init
<1>6. Held(CallData)
  <2>1. Held(call.data)
    BY <1>1 DEF IsCall, Held
  <2>2. call.type \in Slots
    BY <1>1 DEF IsCall, Slots
  <2>3. SizeIn(call.type) \in Nat
    BY <1>4, <2>2, SlotFacts
  <2>4. Held(Part(call.data, 0, SizeIn(call.type)))
    BY <1>4, <2>1, <2>3, PartLies
  <2> QED BY <2>1, <2>4 DEF CallData, ReinterpretCast
<1>7. ~unchecked => Lies(CallData)
  <2>1. CASE call.cast
    BY <1>5, <2>1 DEF Lies
  <2>2. CASE ~call.cast
    BY <1>1, <2>2 DEF IsCall, CallData, Lies, IsInBody
  <2> QED BY <1>1, <2>1, <2>2 DEF IsCall
<1>8. Places
  <2>1. call.kind \in {"GetValue", "GetPointer"} => ~IsNull(CallData)
    BY <1>1 DEF IsCall, CallData, ReinterpretCast, Part, IsNull
  <2> QED BY <1>5, <1>6, <1>7, <2>1 DEF Places
<1>9. TypeOK
  <2>1. data \in Span /\ struct_data \in Span /\ element \in Span
    BY <1>5, <1>6 DEF Held
  <2>2. query = <<>> /\ seen = <<>> /\ Len(seen) <= MaxSeen
    BY QueryEachAssumption DEF Init
  <2>3. query \in Seq(Tokens) /\ seen \in Seq(Span)
    BY <2>2, EmptySeq
  <2>4. unchecked \in BOOLEAN
    BY <1>5
  <2>5. type \in Slots
    BY <1>1 DEF Init, IsCall, Slots
  <2> QED BY <2>1, <2>2, <2>3, <2>4, <2>5 DEF Init, TypeOK
<1> QED BY <1>4, <1>8, <1>9 DEF IInv

(* Every step keeps it.                                                    *)
LEMMA NextKeeps == IInv /\ [Next]_vars => IInv'
<1> SUFFICES ASSUME IInv, [Next]_vars PROVE IInv'
  OBVIOUS
<1>0. /\ call.type \in Slots /\ call.query \in Seq(Tokens)
      /\ seen \in Seq(Span) /\ Len(seen) <= MaxSeen /\ MaxSeen \in Nat /\ Len(seen) \in Nat
      /\ moved \in BOOLEAN /\ (moved => IsWalk /\ m_Ranges = <<>>)
      /\ type \in Slots /\ at \in {"call", "token"} \cup Answers
  BY QueryEachAssumption, LenProperties DEF IInv, Context, IsCall, Slots, TypeOK
<1>1. ASSUME NEW as, NEW span PROVE Typed(as, span) \in Answers
  BY DEF Typed, Answers, Errors
<1>2. CASE ReadField
  BY <1>2, ReadFieldKeeps
<1>3. CASE NoQuery
  BY <1>0, <1>3, StayKeeps DEF NoQuery, Return, walk, Answers, Errors
<1>4. CASE QueryValue
  BY <1>0, <1>4, EvaluateKeeps DEF QueryValue, walk, IInv, Places
<1>5. CASE NextElement
  <2>1. CASE IsNull(element) \/ element.size = 0
    BY <1>0, <1>5, <2>1, StayKeeps DEF NextElement, Return, walk, Answers
  <2>2. CASE ~(IsNull(element) \/ element.size = 0)
    <3> DEFINE path == <<Name("next"), Index(0)>>
    <3>1. path \in Seq(Tokens)
      <4>1. Name("next") \in Tokens
        <5>1. Name("next") \in [kind : {"name"}, value : Names]
          BY BlendQueryAssumption DEF Name
        <5> QED BY <5>1 DEF Tokens
      <4>2. Index(0) \in Tokens
        BY DEF Index, Tokens
      <4> QED BY <4>1, <4>2
    <3>2. Evaluate("next", call.type, element, path) /\ IsWalk /\ UNCHANGED <<file, m_Ranges, unchecked, walk>>
      BY <1>5, <2>2 DEF NextElement
    <3> HIDE DEF path
    <3> QED BY <1>0, <3>1, <3>2, EvaluateKeeps DEF walk, IInv, Places
  <2> QED BY <2>1, <2>2
<1>6. CASE Step
  BY <1>6, StepKeeps
<1>7. CASE ValueFound
  BY <1>0, <1>1, <1>7, StayKeeps DEF ValueFound, Return, walk
<1>8. CASE NextFound
  <2>1. CASE IsNull(data)
    BY <1>0, <1>8, <2>1, StayKeeps DEF NextFound, Return, Answers
  <2>2. CASE ~IsNull(data)
    <3>1. Evaluate("element", type, data, call.query) /\ element' = data
          /\ UNCHANGED <<file, m_Ranges, unchecked, call, seen, moved>> /\ IsWalk
      BY <1>8, <2>2 DEF NextFound, Found, IInv, Context
    <3> QED BY <1>0, <3>1, EvaluateKeeps DEF IInv, Places
  <2> QED BY <2>1, <2>2
<1>9. CASE Break
  BY <1>0, <1>9, StayKeeps DEF Break, walk, Answers
<1>10. CASE ElementFound
  <2>1. CASE Typed(call.as, data) # "ok"
    BY <1>0, <1>1, <1>10, <2>1, StayKeeps DEF ElementFound, Return
  <2>2. CASE Typed(call.as, data) = "ok"
    <3>1. /\ at' = "call" /\ UNCHANGED <<evaluation, phase, file, unchecked, call, element>>
          /\ seen' = IF Len(seen) < MaxSeen THEN Append(seen, element) ELSE seen
          /\ UNCHANGED <<m_Ranges, moved>> \/ (m_Ranges' = <<>> /\ moved' = TRUE)
          /\ IsWalk
      BY <1>10, <2>2 DEF ElementFound, Found, IInv, Context
    <3>2. element \in Span
      BY DEF IInv, TypeOK
    <3>3. seen' \in Seq(Span) /\ Len(seen') <= MaxSeen
      BY <1>0, <3>1, <3>2, AppendProperties
    <3>4. /\ moved' \in BOOLEAN /\ (moved' => IsWalk /\ m_Ranges' = <<>>)
          /\ m_Ranges' \in {m_Ranges, <<>>} /\ at' \in {"call", "token"} \cup Answers
      <4>1. at' \in {"call", "token"} \cup Answers
        BY <3>1
      <4>2. CASE UNCHANGED <<m_Ranges, moved>>
        BY <1>0, <4>1, <4>2
      <4>3. CASE m_Ranges' = <<>> /\ moved' = TRUE
        BY <3>1, <4>1, <4>3
      <4> QED BY <3>1, <4>2, <4>3
    <3> QED BY <3>1, <3>3, <3>4, StayKeeps
  <2> QED BY <2>1, <2>2
<1>11. CASE UNCHANGED vars
  BY <1>0, <1>11, StayKeeps DEF vars, evaluation
<1> QED BY <1>2, <1>3, <1>4, <1>5, <1>6, <1>7, <1>8, <1>9, <1>10, <1>11 DEF Next

(* The invariant, of every behaviour.                                      *)
LEMMA InvariantHolds == Spec => []IInv
BY InitHolds, NextKeeps, PTL DEF Spec

(* Every variable keeps its type, for every file and every call: above all *)
(* the type that an evaluation is at is one of the file.                   *)
THEOREM TypeCorrect == Spec => []TypeOK
<1>1. IInv => TypeOK
  BY DEF IInv
<1> QED BY InvariantHolds, <1>1, PTL

(* What a query, a read of a field or a walk is at lies in the body of one *)
(* block or nowhere, whatever the pointers in the file say and whether or  *)
(* not the Blend has been moved away.                                      *)
THEOREM DataAlwaysLiesInOneBlock == Spec => []DataLiesInOneBlock
<1>1. IInv => DataLiesInOneBlock
  BY DEF IInv, Places, Lies, DataLiesInOneBlock
<1> QED BY InvariantHolds, <1>1, PTL

-----------------------------------------------------------------------------
(***************************************************************************)
(* What an answer means.  The reference is the set of places that a path   *)
(* leads to, token by token; the evaluation is led through one of them.    *)
(***************************************************************************)

(* A number with a property that some have and that the next one of one    *)
(* that has it has too: there is no first one without it.                  *)
LEMMA NoneIsFirst ==
  ASSUME NEW N \in Nat, NEW S, 0 \in S, \A i \in 1 .. N : i - 1 \in S => i \in S
  PROVE  0 .. N \subseteq S
<1> DEFINE Bad == {i \in 0 .. N : i \notin S}
<1>1. Bad \in SUBSET Nat
  OBVIOUS
<1>2. Bad = {}
  <2> SUFFICES ASSUME Bad # {} PROVE FALSE
    OBVIOUS
  <2>1. PICK i \in Bad : \A j \in Bad : i <= j
    <3> HIDE DEF Bad
    <3> QED BY <1>1, LeastElement
  <2>2. i \in 1 .. N /\ i - 1 \in 0 .. N /\ ~(i <= i - 1)
    OBVIOUS
  <2>3. i - 1 \in S
    BY <2>1, <2>2
  <2> QED BY <2>1, <2>2, <2>3
<1> QED BY <1>2

-----------------------------------------------------------------------------
(* What the reference is defined by, solved.                               *)
Follows(h, n, f, start, tokens) ==
  h = [k \in 0 .. n |-> IF k = 0 THEN start ELSE Follow(f, h[k - 1], tokens[k])]

(* There is such a function, for a path of every length: one for k tokens  *)
(* can be continued to k + 1.                                              *)
LEMMA PlacesExist ==
  ASSUME NEW N \in Nat, NEW f, NEW start, NEW tokens
  PROVE  \E h : Follows(h, N, f, start, tokens)
<1> DEFINE Body(h, k) == IF k = 0 THEN start ELSE Follow(f, h[k - 1], tokens[k])
           Is(h, n) == h = [k \in 0 .. n |-> Body(h, k)]
           S == {n \in 0 .. N : \E h : Is(h, n)}
<1>1. 0 \in S
  <2> DEFINE h == [k \in 0 .. 0 |-> start]
  <2>1. \A k \in 0 .. 0 : Body(h, k) = start
    OBVIOUS
  <2>2. h = [k \in 0 .. 0 |-> Body(h, k)]
    <3> HIDE DEF Body
    <3> QED BY <2>1
  <2>3. Is(h, 0)
    BY <2>2
  <2> HIDE DEF Is, h
  <2> QED BY <2>3
<1>2. ASSUME NEW n \in 1 .. N, n - 1 \in S PROVE n \in S
  <2>1. n \in Nat /\ n - 1 \in Nat /\ n \in 0 .. N
    OBVIOUS
  <2>2. PICK h : Is(h, n - 1)
    <3> HIDE DEF Is
    <3> QED BY <1>2
  <2> DEFINE g == [k \in 0 .. n |-> Body(h, k)]
  <2>3. ASSUME NEW k \in 0 .. n PROVE Body(h, k) = Body(g, k)
    <3>1. CASE k = 0
      BY <3>1
    <3>2. CASE k # 0
      <4>1. k - 1 \in 0 .. n /\ k - 1 \in 0 .. n - 1
        BY <2>1, <3>2
      <4>2. h[k - 1] = Body(h, k - 1)
        <5> HIDE DEF Body
        <5> QED BY <2>2, <4>1
      <4>3. g[k - 1] = Body(h, k - 1)
        <5> HIDE DEF Body
        <5> QED BY <4>1
      <4> HIDE DEF g
      <4> QED BY <3>2, <4>2, <4>3
    <3> QED BY <3>1, <3>2
  <2>4. Is(g, n)
    <3>1. [k \in 0 .. n |-> Body(h, k)] = [k \in 0 .. n |-> Body(g, k)]
      <4> HIDE DEF Body, g
      <4> QED BY <2>3
    <3> QED BY <3>1
  <2> HIDE DEF Is, g
  <2> QED BY <2>1, <2>4
<1>3. N \in S
  <2> HIDE DEF S
  <2>1. 0 .. N \subseteq S
    BY <1>1, <1>2, NoneIsFirst
  <2> QED BY <2>1
<1> QED BY <1>3 DEF Follows

Beginning(span, slot) == [error |-> "ok", span |-> span, type |-> slot, named |-> FALSE]

Traces(places, f, start, tokens) ==
  /\ places[0] = {start}
  /\ \A k \in 1 .. Len(tokens) : places[k] = Follow(f, places[k - 1], tokens[k])

(* So the reference is one.                                                *)
LEMMA ReachedIs ==
  ASSUME NEW f, NEW slot, NEW span, NEW tokens, Len(tokens) \in Nat
  PROVE  Traces(Reached(f, slot, span, tokens), f, Beginning(span, slot), tokens)
<1> DEFINE Start == {[Place(span, slot) EXCEPT !.named = FALSE]}
           Body(h, j) == IF j = 0 THEN Start ELSE Follow(f, h[j - 1], tokens[j])
           Is(h) == h = [j \in 0 .. Len(tokens) |-> Body(h, j)]
           places == CHOOSE h : Is(h)
<1>1. \E h : Is(h)
  <2>1. \E h : Follows(h, Len(tokens), f, Start, tokens)
    <3> HIDE DEF Start
    <3> QED BY PlacesExist
  <2> QED BY <2>1 DEF Follows
<1>2. Is(places)
  <2> HIDE DEF Is
  <2> QED BY <1>1
<1>3. Reached(f, slot, span, tokens) = places
  BY DEF Reached
<1> HIDE DEF places
<1>4. \A k \in 0 .. Len(tokens) : places[k] = Body(places, k)
  <2> HIDE DEF Body
  <2> QED BY <1>2
<1>5. Start = {Beginning(span, slot)}
  BY DEF Beginning, Place
<1> HIDE DEF Start
<1>6. places[0] = {Beginning(span, slot)}
  BY <1>4, <1>5
<1>7. \A k \in 1 .. Len(tokens) : places[k] = Follow(f, places[k - 1], tokens[k])
  BY <1>4
<1> QED BY <1>3, <1>6, <1>7 DEF Traces

-----------------------------------------------------------------------------
(* The size of a type, for types built around types before them.           *)
IsBuiltUp(list) ==
  \A s \in 0 .. Len(list) - 1 : list[s + 1].kind = "array" => list[s + 1].of \in 0 .. s - 1

Sizes(h, n, list) ==
  h = [s \in 0 .. n - 1 |->
         LET t == list[s + 1]
         IN  IF t.kind \in {"fundamental", "aggregate"} THEN t.size
             ELSE SizeAround(IF t.kind = "array" THEN h[t.of] ELSE 0, t)]

(* There is a function of the sizes, in the same way.                      *)
LEMMA SizesExist ==
  ASSUME NEW list, Len(list) \in Nat, IsBuiltUp(list)
  PROVE  \E h : Sizes(h, Len(list), list)
<1> DEFINE N == Len(list)
           t(s) == list[s + 1]
           Body(h, s) == IF t(s).kind \in {"fundamental", "aggregate"} THEN t(s).size
                         ELSE SizeAround(IF t(s).kind = "array" THEN h[t(s).of] ELSE 0, t(s))
           Is(h, n) == h = [s \in 0 .. n - 1 |-> Body(h, s)]
           S == {n \in 0 .. N : \E h : Is(h, n)}
<1>1. 0 \in S
  <2> DEFINE h == [s \in 0 .. 0 - 1 |-> 0]
  <2>1. h = [s \in 0 .. 0 - 1 |-> Body(h, s)]
    <3> HIDE DEF Body
    <3> QED OBVIOUS
  <2>2. Is(h, 0)
    BY <2>1
  <2> HIDE DEF Is, h
  <2> QED BY <2>2
<1>2. ASSUME NEW n \in 1 .. N, n - 1 \in S PROVE n \in S
  <2>1. n \in Nat /\ n - 1 \in Nat /\ n \in 0 .. N
    OBVIOUS
  <2>2. PICK h : Is(h, n - 1)
    <3> HIDE DEF Is
    <3> QED BY <1>2
  <2> DEFINE g == [s \in 0 .. n - 1 |-> Body(h, s)]
  <2>3. ASSUME NEW s \in 0 .. n - 1 PROVE Body(h, s) = Body(g, s)
    <3>1. CASE t(s).kind # "array"
      BY <3>1
    <3>2. CASE t(s).kind = "array"
      <4>1. t(s).of \in 0 .. n - 1 /\ t(s).of \in 0 .. n - 1 - 1
        BY <2>1, <3>2 DEF IsBuiltUp
      <4>2. h[t(s).of] = Body(h, t(s).of)
        <5> HIDE DEF Body, t
        <5> QED BY <2>2, <4>1
      <4>3. g[t(s).of] = Body(h, t(s).of)
        <5> HIDE DEF Body, t
        <5> QED BY <4>1
      <4>4. h[t(s).of] = g[t(s).of]
        <5> HIDE DEF g, t, Body
        <5> QED BY <4>2, <4>3
      <4> HIDE DEF g, t
      <4> QED BY <4>4
    <3> QED BY <3>1, <3>2
  <2>4. Is(g, n)
    <3>1. [s \in 0 .. n - 1 |-> Body(h, s)] = [s \in 0 .. n - 1 |-> Body(g, s)]
      <4> HIDE DEF Body, g
      <4> QED BY <2>3
    <3> QED BY <3>1
  <2> HIDE DEF Is, g
  <2> QED BY <2>1, <2>4
<1>3. N \in S
  <2> HIDE DEF S
  <2>1. 0 .. N \subseteq S
    BY <1>1, <1>2, NoneIsFirst
  <2> QED BY <2>1
<1> QED BY <1>3 DEF Sizes

(* So GetSize is the size of a type by its kind.                           *)
LEMMA GetSizeIs ==
  ASSUME NEW list, Len(list) \in Nat, IsBuiltUp(list), NEW slot \in 0 .. Len(list) - 1
  PROVE  /\ list[slot + 1].kind = "array" =>
              GetSize(list, slot) = Wrap(GetSize(list, list[slot + 1].of) * list[slot + 1].count)
         /\ list[slot + 1].kind = "pointer" => GetSize(list, slot) = PointerSize
<1> DEFINE t == list[slot + 1]
           h == CHOOSE x : Sizes(x, Len(list), list)
<1>1. Sizes(h, Len(list), list)
  BY SizesExist
<1>2. \A s \in 0 .. Len(list) - 1 : GetSize(list, s) = h[s]
  BY DEF GetSize, Sizes
<1> HIDE DEF h
<1>3. h[slot] = IF t.kind \in {"fundamental", "aggregate"} THEN t.size
                ELSE SizeAround(IF t.kind = "array" THEN h[t.of] ELSE 0, t)
  BY <1>1 DEF Sizes
<1>4. CASE t.kind = "array"
  <2>1. t.of \in 0 .. Len(list) - 1
    BY <1>4 DEF IsBuiltUp
  <2>2. h[slot] = Wrap(h[t.of] * t.count)
    BY <1>3, <1>4 DEF SizeAround
  <2> QED BY <1>2, <1>4, <2>1, <2>2
<1>5. CASE t.kind = "pointer"
  <2>2. h[slot] = PointerSize
    BY <1>3, <1>5 DEF SizeAround
  <2> QED BY <1>2, <1>5, <2>2
<1> QED BY <1>4, <1>5

-----------------------------------------------------------------------------
(* The table that a file is opened with is complete: it is an injection    *)
(* from as many indices as there are ranges.                               *)
LEMMA TableIsComplete ==
  ASSUME IsFiniteSet(Ranges), m_Ranges \in CreateMemoryTable(file.blocks)
  PROVE  Complete
<1> DEFINE D == 1 .. Cardinality(Ranges)
<1>1. Cardinality(Ranges) \in Nat
  BY FS_CardinalityType
<1>2. m_Ranges \in SetToSeqs(Ranges)
  BY DEF CreateMemoryTable, Ranges
<1>3. m_Ranges \in [D -> Ranges] /\ \A i, j \in D : i # j => m_Ranges[i] # m_Ranges[j]
  BY <1>2 DEF SetToSeqs
<1>4. m_Ranges \in Injection(D, Ranges)
  <2> HIDE DEF D
  <2>1. \A i, j \in D : m_Ranges[i] = m_Ranges[j] => i = j
    BY <1>3
  <2> QED BY <1>3, <2>1 DEF Injection, IsInjective
<1>5. IsFiniteSet(D) /\ Cardinality(D) = Cardinality(Ranges)
  BY <1>1, FS_Interval
<1>6. m_Ranges \in Surjection(D, Ranges)
  <2> HIDE DEF D
  <2> QED BY <1>4, <1>5, FS_Injection
<1>7. m_Ranges \in Seq(Ranges) /\ Len(m_Ranges) = Cardinality(Ranges)
  <2>1. m_Ranges \in [1 .. Cardinality(Ranges) -> Ranges]
    BY <1>3
  <2> QED BY <1>1, <2>1
<1>8. \A r \in Ranges : \E i \in D : m_Ranges[i] = r
  <2> HIDE DEF D
  <2> QED BY <1>6 DEF Surjection
<1> QED BY <1>7, <1>8 DEF Complete

(* Where a pointer leads.  A part that begins where the memory does is all *)
(* of it, and has the size even of memory that was not found.              *)
LEMMA PointeesAre ==
  ASSUME Context, Complete, IsPlain(file), NEW address \in 0 .. MaxUsize, NEW size \in 0 .. MaxUsize
  PROVE  LET memory == GetMemory(m_Ranges, address, size)
         IN  /\ memory = Null(0) \/ (~IsNull(memory) /\ memory.size = size /\ Part(memory, 0, size) = memory)
             /\ IsNull(memory) \/ ~Overflows(address, size) =>
                  Part(memory, 0, size) \in Pointees(file, address, size)
<1> DEFINE tail    == Wrap(address + size)
           memory  == GetMemory(m_Ranges, address, size)
           head(k) == file.blocks[k].address
           n(k)    == file.blocks[k].length
           Holders == {i \in DOMAIN file.blocks :
                         n(i) > 0 /\ head(i) <= address /\ address + size <= head(i) + n(i)}
           FoundIn(i) == [block |-> i, offset |-> address - head(i), size |-> size]
<1>1. MaxUsize \in Nat /\ NoBlock \notin DOMAIN file.blocks
  BY DeclaratorAssumption, FileFacts DEF NoBlock
<1>2. \A k \in DOMAIN file.blocks :
        head(k) \in 0 .. MaxUsize /\ n(k) \in 0 .. MaxUsize /\ head(k) + n(k) <= MaxUsize
  <2>1. \A k \in DOMAIN file.blocks : ~Overflows(head(k), n(k))
    BY DEF IsPlain
  <2>2. \A k \in DOMAIN file.blocks : head(k) \in 0 .. MaxUsize /\ n(k) \in 0 .. MaxUsize
    BY FileFacts
  <2> HIDE DEF head, n
  <2> QED BY <1>1, <2>1, <2>2 DEF Overflows
<1>3. \A k \in DOMAIN file.blocks : Wrap(head(k) + n(k)) = head(k) + n(k)
  BY <1>1, <1>2, WrapSum
<1>4. address + size <= MaxUsize => tail = address + size
  BY <1>1, WrapSum
<1>5. Pointees(file, address, size) = IF Holders = {} THEN {Null(size)} ELSE {FoundIn(i) : i \in Holders}
  BY DEF Pointees
<1> HIDE DEF tail
<1>6. ASSUME NEW k \in DOMAIN file.blocks, address + size <= MaxUsize
      PROVE  Spans(k, address, tail) <=> k \in Holders
  <2>1. tail = address + size /\ Wrap(head(k) + n(k)) = head(k) + n(k)
    BY <1>3, <1>4, <1>6
  <2>2. k \in Holders <=> n(k) > 0 /\ head(k) <= address /\ address + size <= head(k) + n(k)
    OBVIOUS
  <2>3. Spans(k, address, tail) <=> n(k) # 0 /\ head(k) <= address /\ tail <= Wrap(head(k) + n(k))
    BY DEF Spans
  <2>4. n(k) # 0 <=> n(k) > 0
    BY <1>1, <1>2
  <2> QED BY <2>1, <2>2, <2>3, <2>4
<1>7. ASSUME address + size > MaxUsize PROVE Holders = {}
  BY <1>1, <1>2, <1>7
<1>8. \/ memory = Null(0) /\ ~\E k \in DOMAIN file.blocks : Spans(k, address, tail)
      \/ \E k \in DOMAIN file.blocks : Spans(k, address, tail) /\ memory = FoundIn(k)
  BY MemoryIs DEF tail
<1> HIDE DEF memory, Holders, head, n
<1>9. CASE memory = Null(0) /\ ~\E k \in DOMAIN file.blocks : Spans(k, address, tail)
  <2>1. Holders = {}
    <3>1. CASE address + size <= MaxUsize
      <4>1. Holders \subseteq DOMAIN file.blocks
        BY DEF Holders
      <4> QED BY <1>6, <1>9, <3>1, <4>1
    <3> QED BY <1>1, <1>7, <3>1
  <2>2. Part(memory, 0, size) = Null(size)
    BY <1>9 DEF Part, Null, IsNull
  <2>3. Part(memory, 0, size) \in Pointees(file, address, size)
    BY <1>5, <2>1, <2>2
  <2> QED BY <1>9, <2>3 DEF memory
<1>10. CASE \E k \in DOMAIN file.blocks : Spans(k, address, tail) /\ memory = FoundIn(k)
  <2>1. PICK k \in DOMAIN file.blocks : Spans(k, address, tail) /\ memory = FoundIn(k)
    BY <1>10
  <2>2. ~IsNull(memory) /\ memory.size = size
    BY <1>1, <2>1 DEF IsNull
  <2>3. address - head(k) \in Int
    BY <1>1, <1>2
  <2>4. Part(memory, 0, size) = memory
    BY <2>1, <2>2, <2>3 DEF Part
  <2>5. ASSUME ~Overflows(address, size) PROVE Part(memory, 0, size) \in Pointees(file, address, size)
    <3>1. k \in Holders
      BY <1>1, <1>6, <2>1, <2>5 DEF Overflows
    <3> HIDE DEF FoundIn
    <3> QED BY <1>5, <2>1, <2>4, <3>1
  <2> QED BY <2>2, <2>4, <2>5 DEF memory
<1> QED BY <1>8, <1>9, <1>10

-----------------------------------------------------------------------------
(* A name leads to the first field that has it.                            *)
LEMMA NamePlacesAre ==
  ASSUME Context, NEW slot \in Slots, NEW span, NEW n, NEW place, place.span = span, place.type = slot,
         Held(span)
  PROVE  LET named == FieldsNamed(slot, n)
             field == Fields(slot)[Min(named)]
         IN  /\ Kind(slot) # "aggregate" => NamePlaces(file, place, n) = Error("IndexedInvalidType")
             /\ Kind(slot) = "aggregate" /\ named = {} => NamePlaces(file, place, n) = Error("FieldNotFound")
             /\ Kind(slot) = "aggregate" /\ named # {} /\ ~Overflows(field.offset, SizeIn(field.type)) =>
                  NamePlaces(file, place, n) = {Place(GetData(field, span), field.type)}
<1> DEFINE named == FieldsNamed(slot, n)
           field == Fields(slot)[Min(named)]
           size  == SizeIn(field.type)
           IsNth(i) == Fields(slot)[i].name = n /\ \A j \in 1 .. i - 1 : Fields(slot)[j].name # n
           D == DOMAIN Fields(slot)
           Cut(f) == IF f.offset + SizeIn(f.type) > span.size THEN Null(0)
                     ELSE Part(span, f.offset, SizeIn(f.type))
<1>1. NamePlaces(file, place, n) =
        IF Kind(slot) # "aggregate" THEN Error("IndexedInvalidType")
        ELSE IF ~\E i \in D : IsNth(i) THEN Error("FieldNotFound")
        ELSE {Place(Cut(Fields(slot)[CHOOSE i \in D : IsNth(i)]), Fields(slot)[CHOOSE i \in D : IsNth(i)].type)}
  BY DEF NamePlaces, Kind, Fields, SizeIn
<1>2. CASE Kind(slot) # "aggregate"
  BY <1>1, <1>2
<1>3. CASE Kind(slot) = "aggregate"
  <2>1. D = 1 .. Len(Fields(slot)) /\ Len(Fields(slot)) \in Nat
    <3> DEFINE F == [offset : 0 .. MaxUsize, name : Names, type : 0 .. Len(file.types) - 1]
    <3>1. Fields(slot) \in Seq(F)
      BY <1>3, FileFacts DEF IsFile, Slots, Fields, Kind
    <3> HIDE DEF F
    <3> QED BY <3>1, LenProperties
  <2>2. named = {i \in D : Fields(slot)[i].name = n}
    BY DEF FieldsNamed
  <2>3. named \in SUBSET Nat /\ named \subseteq D
    BY <2>1, <2>2
  <2>4. CASE named = {}
    BY <1>1, <1>3, <2>2, <2>4
  <2>5. CASE named # {}
    <3> DEFINE m == Min(named)
    <3>1. m \in named /\ \A k \in named : m <= k
      BY <2>3, <2>5, MinIsLeast
    <3> HIDE DEF m, named
    <3>2. m \in D /\ IsNth(m)
      <4>1. m \in D /\ Fields(slot)[m].name = n
        BY <2>2, <3>1
      <4>2. ASSUME NEW j \in 1 .. m - 1, Fields(slot)[j].name = n PROVE FALSE
        <5>1. j \in D /\ ~(m <= j)
          BY <2>1, <4>1
        <5> QED BY <2>2, <3>1, <4>2, <5>1
      <4> QED BY <4>1, <4>2
    <3>3. ASSUME NEW i \in D, IsNth(i) PROVE i = m
      <4>1. i \in named /\ m <= i /\ i \in Int /\ m \in Int /\ m >= 1
        BY <2>1, <2>2, <3>1, <3>2, <3>3
      <4>2. ASSUME m < i PROVE FALSE
        <5>1. m \in 1 .. i - 1
          BY <4>1, <4>2
        <5> QED BY <3>2, <3>3, <5>1
      <4> QED BY <4>1, <4>2
    <3> HIDE DEF IsNth, D
    <3>4. (CHOOSE i \in D : IsNth(i)) = m
      BY <3>2, <3>3
    <3>5. field = Fields(slot)[m]
      BY DEF m, named
    <3> HIDE DEF field
    <3>6. NamePlaces(file, place, n) = {Place(Cut(field), field.type)}
      <4> HIDE DEF Cut
      <4> QED BY <1>1, <1>3, <3>2, <3>4, <3>5
    <3>7. ASSUME ~Overflows(field.offset, size) PROVE Cut(field) = GetData(field, span)
      <4>1. IsFieldOf(field)
        BY <1>3, <2>5, FirstNamed DEF field, named
      <4>2. field.offset \in 0 .. MaxUsize /\ size \in 0 .. MaxUsize /\ MaxUsize \in Nat
        BY <4>1, SlotFacts, DeclaratorAssumption DEF IsFieldOf
      <4> HIDE DEF size
      <4>3. Wrap(field.offset + size) = field.offset + size
        BY <3>7, <4>2, WrapSum DEF Overflows
      <4> QED BY <4>3 DEF GetData, size
    <3> HIDE DEF Cut
    <3> QED BY <1>3, <2>5, <3>6, <3>7 DEF field, named
  <2> QED BY <1>3, <2>4, <2>5
<1> QED BY <1>2, <1>3

(* The element type of a type, and what its size has to do with it.        *)
LEMMA ElementFacts ==
  ASSUME Context, NEW slot \in Slots
  PROVE  LET inner == GetElementType(file.types, slot)
         IN  /\ Kind(slot) = "pointer" => SizeIn(slot) = PointerSize
             /\ Kind(slot) = "array" =>
                  /\ file.types[slot + 1].count \in Nat
                  /\ SizeIn(slot) = Wrap(SizeIn(inner) * file.types[slot + 1].count)
             /\ Kind(slot) \in {"array", "pointer"} =>
                  inner = file.types[slot + 1].of /\ inner \in Slots /\ inner # NoSlot
             /\ Kind(slot) \notin {"array", "pointer"} => inner = NoSlot
<1>1. IsFile(file)
  BY FileFacts
<1>2. Len(file.types) \in Nat
  BY <1>1 DEF IsFile
<1>3. IsBuiltUp(file.types)
  <2>1. ASSUME NEW s \in 0 .. Len(file.types) - 1, file.types[s + 1].kind = "array"
        PROVE  file.types[s + 1].of \in 0 .. s - 1
    <3>1. GetElementType(file.types, s) \in NoSlot .. s - 1 /\ GetElementType(file.types, s) # NoSlot
      BY <1>1, <2>1 DEF IsFile
    <3>2. GetElementType(file.types, s) = file.types[s + 1].of
      BY <2>1 DEF GetElementType
    <3> QED BY <3>1, <3>2 DEF NoSlot
  <2> QED BY <2>1 DEF IsBuiltUp
<1>4. Kind(slot) = "pointer" => SizeIn(slot) = PointerSize
  BY <1>2, <1>3, GetSizeIs DEF Kind, SizeIn, Slots
<1>5. Kind(slot) \in {"array", "pointer"} =>
        GetElementType(file.types, slot) = file.types[slot + 1].of
  BY DEF GetElementType, Kind
<1>6. ASSUME Kind(slot) = "array"
      PROVE  /\ file.types[slot + 1].count \in Nat
             /\ SizeIn(slot) = Wrap(SizeIn(GetElementType(file.types, slot)) * file.types[slot + 1].count)
  <2>1. file.types[slot + 1].count \in Nat
    BY <1>1, <1>6 DEF IsFile, Kind, Slots
  <2>2. GetSize(file.types, slot) =
          Wrap(GetSize(file.types, file.types[slot + 1].of) * file.types[slot + 1].count)
    BY <1>2, <1>3, <1>6, GetSizeIs DEF Kind, Slots
  <2> QED BY <1>5, <1>6, <2>1, <2>2 DEF SizeIn
<1>7. GetElementType(file.types, slot) # NoSlot => GetElementType(file.types, slot) \in Slots
  BY SlotFacts
<1>8. Kind(slot) \in {"array", "pointer"} => GetElementType(file.types, slot) \in Slots
  BY SlotFacts
<1>9. Kind(slot) \in {"array", "pointer"} => GetElementType(file.types, slot) # NoSlot
  BY <1>1 DEF IsFile, Kind, Slots
<1>10. Kind(slot) \notin {"array", "pointer"} => GetElementType(file.types, slot) = NoSlot
  BY DEF GetElementType, Kind
<1> QED BY <1>4, <1>5, <1>6, <1>8, <1>9, <1>10

(* Where the i-th of m elements ends.                                      *)
LEMMA Multiples ==
  ASSUME NEW i \in Nat, NEW count \in Nat, NEW n \in Nat
  PROVE  /\ i * n \in Nat /\ n * count \in Nat /\ n * count = count * n
         /\ i < count => i * n + n <= n * count
         /\ i >= count => i * n >= n * count
         /\ i > 0 => i * n >= n
<1>1. i * n \in Nat /\ n * count \in Nat /\ n * count = count * n
  OBVIOUS
<1>2. ASSUME i < count PROVE i * n + n <= n * count
  <2>1. PICK d \in Nat : count = i + 1 + d
    <3>1. count - i - 1 \in Nat /\ count = i + 1 + (count - i - 1)
      BY <1>2
    <3> QED BY <3>1
  <2>2. n * count = i * n + n + d * n /\ d * n \in Nat
    BY <2>1
  <2> QED BY <1>1, <2>2
<1>3. ASSUME i >= count PROVE i * n >= n * count
  <2>1. PICK d \in Nat : i = count + d
    <3>1. i - count \in Nat /\ i = count + (i - count)
      BY <1>3
    <3> QED BY <3>1
  <2>2. i * n = n * count + d * n /\ d * n \in Nat
    BY <2>1
  <2> QED BY <1>1, <2>2
<1>4. ASSUME i > 0 PROVE i * n >= n
  <2>1. PICK d \in Nat : i = 1 + d
    <3>1. i - 1 \in Nat /\ i = 1 + (i - 1)
      BY <1>4
    <3> QED BY <3>1
  <2>2. i * n = n + d * n /\ d * n \in Nat
    BY <2>1
  <2> QED BY <1>1, <2>2
<1> QED BY <1>1, <1>2, <1>3, <1>4

(* What an index does with a span of elements: refuse, or take a part.     *)
Refuses(span, i, n) == ~IsNull(span) /\ span.size > 0 /\ Wrap(Wrap(i * n) + n) > span.size
Passes(span, i, n) ==
  ~(Overflows(0, i * n) \/ Overflows(Wrap(i * n), n) \/ (span.size = 0 /\ n > 0))

(* An index into an array leads to its element, or is refused where it is  *)
(* none.                                                                   *)
LEMMA ArrayPlacesAre ==
  ASSUME Context, IsPlain(file), NEW slot \in Slots, Kind(slot) = "array",
         NEW span, span.size = SizeIn(slot), ~IsNull(span), NEW i \in Nat
  PROVE  LET inner == GetElementType(file.types, slot)
             n     == SizeIn(inner)
             places == IndexPlaces(file, Place(span, slot), i)
         IN  /\ Refuses(span, i, n) => places = Error("IndexOutOfBounds")
             /\ ~Refuses(span, i, n) /\ Passes(span, i, n) => places = {Place(Part(span, Wrap(i * n), n), inner)}
<1> DEFINE inner == GetElementType(file.types, slot)
           n     == SizeIn(inner)
           count == file.types[slot + 1].count
           at_i  == Wrap(i * n)
<1>1. /\ count \in Nat /\ SizeIn(slot) = Wrap(n * count) /\ inner = file.types[slot + 1].of /\ inner \in Slots
  BY ElementFacts
<1>2. n \in 0 .. MaxUsize /\ n \in Nat /\ MaxUsize \in Nat
  BY <1>1, SlotFacts, DeclaratorAssumption
<1>3. ~Overflows(0, count * n)
  BY <1>1 DEF IsPlain, Kind, Slots, SizeIn
<1>4. IndexPlaces(file, Place(span, slot), i) =
        IF i >= count /\ n > 0 THEN Error("IndexOutOfBounds") ELSE {Place(Part(span, i * n, n), inner)}
  BY <1>1 DEF IndexPlaces, Place, Kind, SizeIn
<1> HIDE DEF count, n, inner
<1>5. /\ i * n \in Nat /\ n * count \in Nat /\ n * count = count * n
      /\ i < count => i * n + n <= n * count
      /\ i >= count => i * n >= n * count
  BY <1>1, <1>2, Multiples
<1>6. \A x \in 0 .. MaxUsize : Wrap(x) = x
  BY <1>2, WrapType
<1>7. span.size = n * count /\ n * count <= MaxUsize
  <2>1. n * count <= MaxUsize
    BY <1>2, <1>3, <1>5 DEF Overflows
  <2> QED BY <1>1, <1>2, <1>5, <1>6, <2>1
<1>8. CASE i < count
  <2>1. i * n + n <= MaxUsize /\ i * n <= MaxUsize
    BY <1>2, <1>5, <1>7, <1>8
  <2>2. at_i = i * n /\ Wrap(i * n + n) = i * n + n
    BY <1>2, <1>5, <1>6, <2>1
  <2>3. ~Refuses(span, i, n)
    BY <1>2, <1>5, <1>7, <1>8, <2>2 DEF Refuses
  <2>4. ~(i >= count)
    BY <1>1, <1>8
  <2> QED BY <1>4, <2>2, <2>3, <2>4 DEF inner, n
<1>9. CASE i >= count /\ n > 0
  <2>1. ASSUME ~Refuses(span, i, n), Passes(span, i, n) PROVE FALSE
    <3>1. i * n <= MaxUsize /\ at_i = i * n
      BY <1>2, <1>5, <1>6, <2>1 DEF Passes, Overflows
    <3>2. at_i \in Nat /\ at_i + n <= MaxUsize /\ ~(span.size = 0)
      BY <1>2, <1>5, <1>9, <2>1, <3>1 DEF Passes, Overflows
    <3>3. Wrap(at_i + n) = at_i + n
      BY <1>2, <1>6, <3>2
    <3>4. i * n + n > n * count
      BY <1>1, <1>2, <1>5, <1>9
    <3> HIDE DEF at_i
    <3>5. span.size > 0
      BY <1>5, <1>7, <3>2
    <3> QED BY <2>1, <3>1, <3>3, <3>4, <3>5, <1>7 DEF Refuses, at_i
  <2> QED BY <1>4, <1>9, <2>1 DEF inner, n
<1>10. CASE n = 0
  <2>1. i * n = 0 /\ n * count = 0
    BY <1>1, <1>10
  <2>2. span.size = 0 /\ at_i = 0
    BY <1>2, <1>6, <1>7, <2>1
  <2>3. ~Refuses(span, i, n)
    BY <2>2 DEF Refuses
  <2>4. ~(n > 0)
    BY <1>10
  <2> QED BY <1>4, <2>1, <2>2, <2>3, <2>4 DEF inner, n
<1>11. i < count \/ (i >= count /\ n > 0) \/ n = 0
  BY <1>1, <1>2
<1> QED BY <1>8, <1>9, <1>10, <1>11

(* An index into a pointer leads to what it points to, of which there is   *)
(* one element only.                                                       *)
LEMMA PointerPlacesAre ==
  ASSUME Context, Complete, IsPlain(file), NEW slot \in Slots, Kind(slot) = "pointer",
         NEW span, Held(span), IsInBody(span), span.size = PointerSize, NEW i \in Nat
  PROVE  LET inner  == GetElementType(file.types, slot)
             n      == SizeIn(inner)
             memory == GetMemory(m_Ranges, Address(span), n)
             places == IndexPlaces(file, Place(span, slot), i)
         IN  /\ Refuses(memory, i, n) /\ ~Overflows(Address(span), n) =>
                  [error |-> "IndexOutOfBounds"] \in places
             /\ ~Refuses(memory, i, n)
                  /\ (IsNull(memory) \/ (~Overflows(Address(span), n) /\ Passes(memory, i, n))) =>
                  Place(Part(memory, Wrap(i * n), n), inner) \in places
<1> DEFINE inner  == GetElementType(file.types, slot)
           n      == SizeIn(inner)
           memory == GetMemory(m_Ranges, Address(span), n)
           at_i   == Wrap(i * n)
           From(to) == IF ~IsNull(to) /\ i > 0 /\ n > 0 THEN Error("IndexOutOfBounds") ELSE {Place(to, inner)}
           to     == Part(memory, 0, n)
<1>1. inner = file.types[slot + 1].of /\ inner \in Slots
  BY ElementFacts
<1>2. n \in 0 .. MaxUsize /\ n \in Nat /\ MaxUsize \in Nat
  BY <1>1, SlotFacts, DeclaratorAssumption
<1>3. Address(span) \in 0 .. MaxUsize
  BY AddressIsWord
<1>4. Written(file, span) = Address(span)
  BY DEF Written, Address, Bytes, IsPlain
<1>5. IndexPlaces(file, Place(span, slot), i) =
        UNION {From(p) : p \in Pointees(file, Address(span), n)}
  BY <1>1, <1>4 DEF IndexPlaces, Place, Kind, SizeIn
<1> HIDE DEF inner, n
<1>6. /\ memory = Null(0) \/ (~IsNull(memory) /\ memory.size = n /\ to = memory)
      /\ IsNull(memory) \/ ~Overflows(Address(span), n) => to \in Pointees(file, Address(span), n)
  BY <1>2, <1>3, PointeesAre
<1> HIDE DEF memory
<1>7. ASSUME NEW p, p \in From(to), IsNull(memory) \/ ~Overflows(Address(span), n)
      PROVE  p \in IndexPlaces(file, Place(span, slot), i)
  BY <1>5, <1>6, <1>7
<1>8. i * n \in Nat /\ (i > 0 => i * n >= n)
  BY <1>2, Multiples
<1>9. \A x \in 0 .. MaxUsize : Wrap(x) = x
  BY <1>2, WrapType
<1>10. IsNull(to) <=> IsNull(memory)
  BY DEF Part, IsNull
<1>11. ASSUME Refuses(memory, i, n), ~Overflows(Address(span), n)
       PROVE  [error |-> "IndexOutOfBounds"] \in IndexPlaces(file, Place(span, slot), i)
  <2>1. ~IsNull(memory) /\ memory.size = n /\ n > 0 /\ Wrap(at_i + n) > n
    BY <1>6, <1>11, NullIsHeld DEF Refuses
  <2>2. i # 0
    <3>1. SUFFICES ASSUME i = 0 PROVE FALSE
      OBVIOUS
    <3>2. i * n = 0
      BY <1>2, <3>1
    <3>3. at_i = 0
      BY <1>2, <1>9, <3>2
    <3> HIDE DEF at_i
    <3>4. Wrap(at_i + n) = n
      BY <1>2, <1>9, <3>3
    <3> QED BY <1>2, <2>1, <3>4
  <2>3. [error |-> "IndexOutOfBounds"] \in From(to)
    BY <1>10, <2>1, <2>2 DEF Error
  <2> HIDE DEF From
  <2> QED BY <1>7, <1>11, <2>3
<1>12. ASSUME ~Refuses(memory, i, n),
              IsNull(memory) \/ (~Overflows(Address(span), n) /\ Passes(memory, i, n))
       PROVE  Place(Part(memory, at_i, n), inner) \in IndexPlaces(file, Place(span, slot), i)
  <2>1. CASE IsNull(memory)
    <3>1. Part(memory, at_i, n) = to
      BY <2>1 DEF Part
    <3>2. Place(to, inner) \in From(to)
      BY <1>10, <2>1
    <3> HIDE DEF From, to
    <3> QED BY <1>7, <2>1, <3>1, <3>2
  <2>2. CASE ~IsNull(memory)
    <3>1. memory.size = n /\ to = memory
      BY <1>6, <2>2, NullIsHeld
    <3>2. Passes(memory, i, n) /\ ~Overflows(Address(span), n)
      BY <1>12, <2>2
    <3>3. i * n <= MaxUsize /\ at_i = i * n
      BY <1>2, <1>8, <1>9, <3>2 DEF Passes, Overflows
    <3>4. at_i + n <= MaxUsize
      BY <3>2, <1>2, <1>8, <3>3 DEF Passes, Overflows
    <3>5. ~(i > 0 /\ n > 0)
      <4>1. SUFFICES ASSUME i > 0, n > 0 PROVE FALSE
        OBVIOUS
      <4>2. at_i + n > n /\ at_i + n \in 0 .. MaxUsize
        BY <1>2, <1>8, <3>3, <3>4, <4>1
      <4>3. Wrap(at_i + n) = at_i + n
        BY <1>9, <4>2
      <4> HIDE DEF at_i
      <4> QED BY <1>12, <2>2, <3>1, <4>1, <4>2, <4>3 DEF Refuses, at_i
    <3>6. at_i = 0
      <4>1. CASE i = 0
        <5>1. i * n = 0
          BY <1>2, <4>1
        <5> QED BY <3>3, <5>1
      <4>2. CASE n = 0
        <5>1. i * n = 0
          BY <1>2, <4>2
        <5> QED BY <3>3, <5>1
      <4> QED BY <1>2, <3>5, <4>1, <4>2
    <3>7. Place(to, inner) \in From(to)
      BY <3>5
    <3>8. Part(memory, at_i, n) = to
      BY <3>6
    <3> HIDE DEF From, to
    <3> QED BY <1>7, <3>2, <3>7, <3>8
  <2> QED BY <2>1, <2>2
<1> QED BY <1>11, <1>12 DEF inner, n, memory

-----------------------------------------------------------------------------
(* The path that the running evaluation follows from the element, how many *)
(* of its tokens it has followed, and where that has led.                  *)
Path == IF phase = "next" THEN NextPath ELSE call.query
Done == Len(Path) - Len(query)
Here == IF info = NoField THEN Beginning(data, type) ELSE Place(data, type)

PlacesAfter(k) == Reached(file, call.type, element, Path)[k]
Ends           == Meanings(file, call.type, element, Path)

Means == IsPlain(file) /\ ~unchecked /\ ~IsChained(Path)

Tracks ==
  at = "token" /\ phase # "element" =>
    /\ Len(query) <= Len(Path)
    /\ \A j \in 1 .. Len(query) : query[j] = Path[Done + j]
    /\ info = NoField <=> Done = 0
    /\ Done > 0 /\ Path[Done].kind = "name" => data = GetData(info, struct_data) /\ type = info.type
    /\ Means /\ (moved => ~IsNull(data)) => Here \in PlacesAfter(Done)

Setting ==
  /\ ~IsWalk => element = CallData
  /\ at = "token" /\ phase = "value" => call.kind = "QueryValue"
  /\ ~moved => Complete

(* A Blend that has been moved away finds no memory.                       *)
LEMMA NothingInNoTable ==
  ASSUME m_Ranges = <<>>, NEW address, NEW size
  PROVE  GetMemory(m_Ranges, address, size) = Null(0)
<1> DEFINE tail == Wrap(address + size)
<1>1. SelectInSeq(m_Ranges, LAMBDA r : Covers(r, address, tail)) = 0
  <2>1. Len(m_Ranges) = 0
    OBVIOUS
  <2>2. {i \in 1 .. Len(m_Ranges) : Covers(m_Ranges[i], address, tail)} = {}
    BY <2>1
  <2> QED BY <2>2 DEF SelectInSeq
<1> QED BY <1>1 DEF GetMemory

(* The steps of an evaluation that fail do so where the path does.         *)
LEMMA FailureFollows ==
  ASSUME IInv, NEW token, ~unchecked, IsNull(data) => ~moved,
         \/ NoData
         \/ NameToken /\ token = Head(query) /\ FieldsNamed(type, Head(query).value) = {}
         \/ NameOfNoStruct /\ token = Head(query)
         \/ IndexOfNoField /\ token = Head(query)
         \/ IndexOfNoElements /\ token = Head(query)
  PROVE  at' \in Errors /\ [error |-> at'] \in FollowFrom(file, Here, token)
<1>1. Here.error = "ok" /\ Here.span = data /\ Here.type = type
  BY DEF Here, Beginning, Place
<1>2. Context /\ type \in Slots /\ Held(data)
  BY DEF IInv, TypeOK, Places
<1>3. CASE NoData
  <2>1. at' = "InvalidValue" /\ IsNull(data)
    BY <1>3 DEF NoData, Fail
  <2>2. FollowFrom(file, Here, token) = Error("InvalidValue")
    BY <1>1, <2>1 DEF FollowFrom
  <2> QED BY <2>1, <2>2 DEF Error, Errors
<1>4. CASE NameToken /\ token = Head(query) /\ FieldsNamed(type, Head(query).value) = {}
  <2>1. at' = "FieldNotFound" /\ ~IsNull(data) /\ token.kind = "name" /\ Kind(type) = "aggregate"
    BY <1>4 DEF NameToken, HasToken, Fail
  <2>2. FollowFrom(file, Here, token) = NamePlaces(file, Here, token.value)
    BY <1>1, <2>1 DEF FollowFrom
  <2>3. NamePlaces(file, Here, token.value) = Error("FieldNotFound")
    BY <1>1, <1>2, <1>4, <2>1, NamePlacesAre
  <2> QED BY <2>1, <2>2, <2>3 DEF Error, Errors
<1>5. CASE NameOfNoStruct /\ token = Head(query)
  <2>1. at' = "IndexedInvalidType" /\ ~IsNull(data) /\ token.kind = "name" /\ Kind(type) # "aggregate"
    BY <1>5 DEF NameOfNoStruct, HasToken, Fail
  <2>2. FollowFrom(file, Here, token) = NamePlaces(file, Here, token.value)
    BY <1>1, <2>1 DEF FollowFrom
  <2>3. NamePlaces(file, Here, token.value) = Error("IndexedInvalidType")
    BY <1>1, <1>2, <2>1, NamePlacesAre
  <2> QED BY <2>1, <2>2, <2>3 DEF Error, Errors
<1>6. CASE IndexOfNoField /\ token = Head(query)
  <2>1. at' = "InvalidQuery" /\ ~IsNull(data) /\ token.kind = "index" /\ info = NoField
    BY <1>6 DEF IndexOfNoField, HasToken, Fail
  <2>2. FollowFrom(file, Here, token) = IndexPlaces(file, Here, token.value)
    BY <1>1, <2>1 DEF FollowFrom
  <2>3. IndexPlaces(file, Here, token.value) = Error("InvalidQuery")
    BY <2>1 DEF IndexPlaces, Here, Beginning
  <2> QED BY <2>1, <2>2, <2>3 DEF Error, Errors
<1>7. CASE IndexOfNoElements /\ token = Head(query)
  <2>1. /\ at' = "IndexedInvalidType" /\ ~IsNull(data) /\ token.kind = "index" /\ info # NoField
        /\ GetElementType(file.types, type) = NoSlot
    BY <1>7 DEF IndexOfNoElements, HasToken, Fail
  <2>2. FollowFrom(file, Here, token) = IndexPlaces(file, Here, token.value)
    BY <1>1, <2>1 DEF FollowFrom
  <2>3. file.types[type + 1].kind \notin {"array", "pointer"}
    BY <1>2, <2>1, ElementFacts DEF Kind
  <2>4. IndexPlaces(file, Here, token.value) = Error("IndexedInvalidType")
    BY <1>1, <2>1, <2>3 DEF IndexPlaces, Here, Place
  <2> QED BY <2>1, <2>2, <2>4 DEF Error, Errors
<1> QED BY <1>3, <1>4, <1>5, <1>6, <1>7

(* A name that goes on leads to a place that it leads to in the path.      *)
LEMMA NameFollows ==
  ASSUME IInv, NameToken, ~unchecked', FieldsNamed(type, Head(query).value) # {}
  PROVE  /\ at' = "token" /\ query' = Tail(query)
         /\ info' # NoField /\ data' = GetData(info', struct_data') /\ type' = info'.type
         /\ Place(data', type') \in FollowFrom(file, Here, Head(query))
<1> DEFINE named == FieldsNamed(type, Head(query).value)
           field == Fields(type)[Min(named)]
<1>1. Here.error = "ok" /\ Here.span = data /\ Here.type = type
  BY DEF Here, Beginning, Place
<1>2. Context /\ type \in Slots /\ Held(data)
  BY DEF IInv, TypeOK, Places
<1>3. /\ query' = Tail(query) /\ data' = GetData(field, data) /\ type' = field.type
      /\ info' = field /\ struct_data' = data /\ at' = at
      /\ unchecked' = (unchecked \/ Overflows(field.offset, SizeIn(field.type)))
      /\ at = "token" /\ ~IsNull(data) /\ Head(query).kind = "name" /\ Kind(type) = "aggregate"
  BY DEF NameToken, HasToken
<1>4. IsFieldOf(field)
  BY <1>2, <1>3, FirstNamed
<1>5. field # NoField
  BY <1>2, <1>4, FileFacts DEF NoField, IsFieldOf, Slots, NoSlot, IsFile
<1>6. NamePlaces(file, Here, Head(query).value) = {Place(GetData(field, data), field.type)}
  <2> DEFINE place == Here
             n     == Head(query).value
  <2>1. place.span = data /\ place.type = type /\ Kind(type) = "aggregate" /\ FieldsNamed(type, n) # {}
    BY <1>1, <1>3
  <2>2. ~Overflows(Fields(type)[Min(FieldsNamed(type, n))].offset,
                   SizeIn(Fields(type)[Min(FieldsNamed(type, n))].type))
    BY <1>3
  <2> HIDE DEF place, n
  <2>3. NamePlaces(file, place, n) =
          {Place(GetData(Fields(type)[Min(FieldsNamed(type, n))], data), Fields(type)[Min(FieldsNamed(type, n))].type)}
    BY <1>2, <2>1, <2>2, NamePlacesAre
  <2> QED BY <2>3 DEF place, n
<1>7. FollowFrom(file, Here, Head(query)) = NamePlaces(file, Here, Head(query).value)
  BY <1>1, <1>3 DEF FollowFrom
<1> HIDE DEF field
<1> QED BY <1>3, <1>5, <1>6, <1>7

-----------------------------------------------------------------------------
(* So does an index, and where it is refused the path ends in the same     *)
(* error.                                                                  *)
LEMMA IndexFollows ==
  ASSUME IInv, IndexToken, ~unchecked', IsPlain(file), ~moved => Complete,
         data = GetData(info, struct_data), type = info.type
  PROVE  \/ /\ at' = "IndexOutOfBounds"
            /\ ~moved => [error |-> at'] \in FollowFrom(file, Here, Head(query))
         \/ /\ at' = "token" /\ query' = Tail(query) /\ info' = info /\ info # NoField
            /\ (moved => ~IsNull(data')) => Place(data', type') \in FollowFrom(file, Here, Head(query))
<1> DEFINE i == Head(query).value
           inner == GetElementType(file.types, type)
           n     == SizeIn(inner)
           elements == Elements
           elsewhere == ReadsPointer /\ PointerOverflows
<1>1. /\ at = "token" /\ query # <<>> /\ ~IsNull(data) /\ info # NoField /\ inner # NoSlot
      /\ Head(query).kind = "index" /\ ~PointerIsElsewhere
      /\ Context /\ type \in Slots /\ Held(data) /\ query \in Seq(Tokens) /\ (moved => m_Ranges = <<>>)
  BY DEF IndexToken, HasIndex, HasToken, IInv, TypeOK, Places
<1>2. i \in Nat
  <2>1. Head(query) \in Tokens
    BY <1>1, HeadTailProperties
  <2> QED BY <1>1, <2>1 DEF Tokens
<1>3. /\ Refuses(elements, i, n) =>
           at' = "IndexOutOfBounds" /\ unchecked' = (unchecked \/ elsewhere)
      /\ ~Refuses(elements, i, n) =>
           /\ query' = Tail(query) /\ data' = Part(elements, Wrap(i * n), n) /\ type' = inner
           /\ info' = info /\ at' = at
           /\ unchecked' = (unchecked \/ (~IsNull(elements) /\ (elsewhere \/ ~Passes(elements, i, n))))
  BY DEF IndexToken, Refuses, Passes
<1>4. ~unchecked
  BY <1>3
<1>5. Here = Place(data, type) /\ Here.error = "ok" /\ Here.span = data
  BY <1>1 DEF Here, Place
<1>6. FollowFrom(file, Here, Head(query)) = IndexPlaces(file, Place(data, type), i)
  BY <1>1, <1>5 DEF FollowFrom
<1>7. data.size = SizeIn(type)
  <2>1. data = Part(struct_data, info.offset, SizeIn(info.type))
    BY <1>1, NullIsHeld DEF GetData
  <2> QED BY <2>1 DEF Part
<1>8. Kind(type) \in {"array", "pointer"} /\ inner \in Slots
  BY <1>1, ElementFacts
<1> HIDE DEF elements, elsewhere, inner, n, i
<1>9. CASE Kind(type) = "array"
  <2>1. elements = data
    BY <1>9 DEF elements, Elements, ReadsPointer
  <2>2. /\ Refuses(data, i, n) => IndexPlaces(file, Place(data, type), i) = Error("IndexOutOfBounds")
        /\ ~Refuses(data, i, n) /\ Passes(data, i, n) =>
             IndexPlaces(file, Place(data, type), i) = {Place(Part(data, Wrap(i * n), n), inner)}
    BY <1>1, <1>2, <1>7, <1>9, ArrayPlacesAre DEF inner, n
  <2>3. CASE Refuses(data, i, n)
    BY <1>3, <1>6, <2>1, <2>2, <2>3 DEF Error
  <2>4. CASE ~Refuses(data, i, n)
    <3>1. Passes(data, i, n)
      BY <1>1, <1>3, <2>1, <2>4
    <3> QED BY <1>1, <1>3, <1>6, <2>1, <2>2, <2>4, <3>1
  <2> QED BY <2>3, <2>4
<1>10. CASE Kind(type) = "pointer"
  <2>1. ReadsPointer
    BY <1>10 DEF ReadsPointer
  <2>2. data.size = PointerSize
    BY <1>1, <1>7, <1>10, ElementFacts
  <2>3. IsInBody(data)
    BY <1>1, <1>4 DEF IInv, Places, Lies
  <2>4. elements = GetMemory(m_Ranges, Address(data), n)
    <3>1. elements = GetPointerData(info, struct_data)
      BY <1>10, <2>1 DEF elements, Elements
    <3> QED BY <2>2, <3>1 DEF GetPointerData, n, inner
  <2>5. elsewhere <=> Overflows(Address(data), n)
    BY <2>1 DEF elsewhere, PointerOverflows, n, inner
  <2>6. CASE moved
    <3>1. IsNull(elements)
      BY <1>1, <2>4, <2>6, NothingInNoTable, NullIsHeld
    <3>2. ~Refuses(elements, i, n)
      BY <3>1 DEF Refuses
    <3>3. IsNull(data')
      BY <1>3, <3>1, <3>2 DEF Part, IsNull
    <3> QED BY <1>1, <1>3, <2>6, <3>2, <3>3
  <2>7. CASE ~moved
    <3> DEFINE places == IndexPlaces(file, Place(data, type), i)
    <3>1. /\ Refuses(elements, i, n) /\ ~Overflows(Address(data), n) =>
               [error |-> "IndexOutOfBounds"] \in places
          /\ ~Refuses(elements, i, n)
               /\ (IsNull(elements) \/ (~Overflows(Address(data), n) /\ Passes(elements, i, n))) =>
               Place(Part(elements, Wrap(i * n), n), inner) \in places
      BY <1>1, <1>2, <1>10, <2>2, <2>3, <2>4, <2>7, PointerPlacesAre DEF n, inner
    <3> HIDE DEF places
    <3>2. CASE Refuses(elements, i, n)
      <4>1. at' = "IndexOutOfBounds" /\ ~elsewhere
        BY <1>3, <3>2
      <4>2. [error |-> at'] \in places
        BY <2>5, <3>1, <3>2, <4>1
      <4> QED BY <1>6, <4>1, <4>2 DEF places
    <3>3. CASE ~Refuses(elements, i, n)
      <4>1. IsNull(elements) \/ (~elsewhere /\ Passes(elements, i, n))
        BY <1>3, <3>3
      <4>2. Place(data', type') \in places
        BY <1>3, <2>5, <3>1, <3>3, <4>1
      <4> QED BY <1>1, <1>3, <1>6, <3>3, <4>2 DEF places
    <3> QED BY <3>2, <3>3
  <2> QED BY <2>6, <2>7
<1> QED BY <1>8, <1>9, <1>10

-----------------------------------------------------------------------------
(* An error that the path has come to stays.                               *)
LEMMA ErrorsPersist ==
  ASSUME NEW f, NEW slot, NEW span, NEW tokens, Len(tokens) \in Nat, NEW k \in 0 .. Len(tokens),
         NEW place, place \in Reached(f, slot, span, tokens)[k], place.error # "ok"
  PROVE  place \in Meanings(f, slot, span, tokens)
<1> DEFINE N == Len(tokens) - k
           R == Reached(f, slot, span, tokens)
           S == {d \in 0 .. N : place \in R[k + d]}
<1>1. N \in Nat /\ k + N = Len(tokens)
  OBVIOUS
<1>2. 0 \in S
  OBVIOUS
<1>3. ASSUME NEW d \in 1 .. N, d - 1 \in S PROVE d \in S
  <2>1. k + d \in 0 .. Len(tokens) /\ k + d # 0 /\ k + d - 1 = k + (d - 1)
    OBVIOUS
  <2>2. place \in R[k + d - 1]
    BY <1>3, <2>1
  <2> DEFINE j == k + d
  <2>3. R[j] = Follow(f, R[j - 1], tokens[j])
    <3>1. j \in 1 .. Len(tokens)
      BY <2>1
    <3>2. Traces(R, f, Beginning(span, slot), tokens)
      BY ReachedIs
    <3> HIDE DEF j, R
    <3> QED BY <3>1, <3>2 DEF Traces
  <2>4. place \in FollowFrom(f, place, tokens[j])
    BY DEF FollowFrom
  <2> HIDE DEF R
  <2>5. place \in R[k + d]
    BY <2>2, <2>3, <2>4 DEF Follow
  <2> QED BY <2>1, <2>5
<1>4. N \in S
  <2> HIDE DEF N, S
  <2>1. 0 .. N \subseteq S
    BY <1>1, <1>2, <1>3, NoneIsFirst
  <2> QED BY <1>1, <2>1
<1>5. place \in R[Len(tokens)]
  BY <1>1, <1>4
<1> QED BY <1>5 DEF Meanings

(* A place that a place leads to is reached after one more token.          *)
LEMMA ReachesNext ==
  ASSUME NEW f, NEW slot, NEW span, NEW tokens, Len(tokens) \in Nat, NEW k \in 0 .. Len(tokens) - 1,
         NEW place, place \in Reached(f, slot, span, tokens)[k],
         NEW next, next \in FollowFrom(f, place, tokens[k + 1])
  PROVE  next \in Reached(f, slot, span, tokens)[k + 1]
<1> DEFINE R == Reached(f, slot, span, tokens)
           j == k + 1
<1>1. j \in 1 .. Len(tokens) /\ j - 1 = k
  OBVIOUS
<1>2. R[j] = Follow(f, R[k], tokens[j])
  <2>1. Traces(R, f, Beginning(span, slot), tokens)
    BY ReachedIs
  <2> HIDE DEF j, R
  <2> QED BY <1>1, <2>1 DEF Traces
<1> HIDE DEF R
<1> QED BY <1>2 DEF Follow, R

(* The paths that are followed.                                            *)
LEMMA PathFacts ==
  ASSUME IInv
  PROVE  /\ NextPath \in Seq(Tokens) /\ Len(NextPath) = 2
         /\ NextPath[1] = Name("next") /\ NextPath[2] = Index(0) /\ ~IsChained(NextPath)
         /\ Path \in Seq(Tokens) /\ Len(Path) \in Nat /\ query \in Seq(Tokens) /\ Len(query) \in Nat
         /\ \A j \in 1 .. Len(Path) : Path[j] \in Tokens /\ Path[j].kind \in {"name", "index"}
<1>1. Name("next") \in Tokens /\ Index(0) \in Tokens
  <2>1. Name("next") \in [kind : {"name"}, value : Names]
    BY BlendQueryAssumption DEF Name
  <2>2. Index(0) \in Tokens
    BY DEF Index, Tokens
  <2> QED BY <2>1, <2>2 DEF Tokens
<1>2. NextPath \in Seq(Tokens) /\ Len(NextPath) = 2 /\ NextPath[1] = Name("next") /\ NextPath[2] = Index(0)
  BY <1>1 DEF NextPath
<1>3. ~IsChained(NextPath)
  <2>1. \A i \in 1 .. Len(NextPath) - 1 : NextPath[i].kind = "name"
    BY <1>2 DEF Name
  <2> QED BY <2>1 DEF IsChained
<1>4. Path \in Seq(Tokens)
  BY <1>2 DEF Path, IInv, Context, IsCall
<1>5. query \in Seq(Tokens)
  BY DEF IInv, TypeOK
<1>6. \A t \in Tokens : t.kind \in {"name", "index"}
  BY DEF Tokens
<1>7. \A j \in 1 .. Len(Path) : Path[j] \in Tokens
  BY <1>4, ElementOfSeq
<1>8. Len(Path) \in Nat /\ Len(query) \in Nat
  BY <1>4, <1>5, LenProperties
<1> QED BY <1>2, <1>3, <1>4, <1>5, <1>6, <1>7, <1>8

(* What a step of an evaluation that goes on leaves behind.                *)
LEMMA TokenMoves ==
  ASSUME IInv, Token, at' = "token"
  PROVE  /\ query # <<>> /\ query' = Tail(query) /\ info' # NoField
         /\ Head(query).kind = "name" => data' = GetData(info', struct_data') /\ type' = info'.type
<1>1. CASE NameToken
  <2> DEFINE named == FieldsNamed(type, Head(query).value)
             field == Fields(type)[Min(named)]
  <2>1. Context /\ type \in Slots /\ Kind(type) = "aggregate" /\ query # <<>>
    BY <1>1 DEF IInv, TypeOK, NameToken, HasToken
  <2>2. named # {}
    BY <1>1 DEF NameToken, Fail
  <2>3. /\ query' = Tail(query) /\ data' = GetData(field, data) /\ type' = field.type
        /\ info' = field /\ struct_data' = data
    BY <1>1, <2>2 DEF NameToken
  <2>4. IsFieldOf(field)
    BY <2>1, <2>2, FirstNamed
  <2>5. field # NoField
    BY <2>1, <2>4, FileFacts DEF NoField, IsFieldOf, Slots, NoSlot, IsFile
  <2> QED BY <2>1, <2>3, <2>5
<1>2. CASE IndexToken
  BY <1>2 DEF IndexToken, HasIndex, HasToken
<1>3. ~(NoData \/ NameOfNoStruct \/ IndexOfNoField \/ IndexOfNoElements \/ ReadElsewhere)
  BY DEF NoData, NameOfNoStruct, IndexOfNoField, IndexOfNoElements, ReadElsewhere, Fail
<1> QED BY <1>1, <1>2, <1>3 DEF Token

(* Nor is the pointer anywhere else when all checks have been passed.      *)
LEMMA NothingElsewhere ==
  ASSUME IInv, ReadElsewhere, ~unchecked
  PROVE  FALSE
<1> DEFINE value == GetData(info, struct_data)
<1>1. Context /\ info # NoField /\ ~IsNull(value) /\ ~IsInBody(value)
  BY DEF IInv, ReadElsewhere, HasIndex, PointerIsElsewhere
<1>2. IsFieldOf(info) /\ Held(struct_data) /\ Lies(struct_data) /\ ~Overflows(info.offset, SizeIn(info.type))
  BY <1>1, InfoIsField DEF IInv, Places
<1>3. Lies(value)
  BY <1>1, <1>2, DataLies
<1> QED BY <1>1, <1>3 DEF Lies

(* A step of an evaluation goes where the path does, or fails as it does.  *)
LEMMA StepTraced ==
  ASSUME IInv, Setting, Tracks, Step, phase # "element"
  PROVE  /\ Tracks'
         /\ IsPlain(file) /\ ~unchecked' /\ ~IsChained(Path) /\ ~moved /\ at' # "token" =>
              at' \in Errors /\ [error |-> at'] \in Ends
<1> DEFINE k == Done
           token == Head(query)
           N == Len(Path)
<1>1. /\ Token /\ UNCHANGED <<file, m_Ranges, phase, call, element, seen, moved>>
      /\ at = "token" /\ query # <<>>
  BY DEF Step, Token, walk, NoData, NameToken, NameOfNoStruct, IndexOfNoField, IndexOfNoElements,
         ReadElsewhere, IndexToken, HasIndex, HasToken
<1>2. /\ Path \in Seq(Tokens) /\ N \in Nat /\ query \in Seq(Tokens) /\ Len(query) \in Nat
      /\ \A j \in 1 .. N : Path[j].kind \in {"name", "index"}
  BY PathFacts
<1>3. /\ Len(query) >= 1 /\ Len(query) <= N
      /\ k \in 0 .. N - 1 /\ token = Path[k + 1] /\ k + 1 \in 1 .. N
  <2>1. Len(query) >= 1 /\ token = query[1]
    BY <1>1, <1>2, EmptySeq
  <2>2. Len(query) <= N /\ query[1] = Path[k + 1]
    BY <1>1, <2>1, <1>2 DEF Tracks
  <2> QED BY <1>2, <2>1, <2>2 DEF Done
<1>4. Path' = Path
  BY <1>1 DEF Path
<1>5. unchecked => unchecked'
  BY <1>1 DEF Token, NoData, NameToken, NameOfNoStruct, IndexOfNoField, IndexOfNoElements,
         ReadElsewhere, IndexToken, Fail
<1> DEFINE Good == IsPlain(file) /\ ~unchecked' /\ ~IsChained(Path)
           R    == Reached(file, call.type, element, Path)
<1>6. ASSUME Good, moved => ~IsNull(data) PROVE Here \in R[k]
  BY <1>1, <1>5, <1>6 DEF Tracks, Means, PlacesAfter
<1>7. ASSUME Good, NEW next, next \in FollowFrom(file, Here, token), moved => ~IsNull(data)
      PROVE  next \in R[k + 1]
  <2>1. Here \in R[k]
    BY <1>6, <1>7
  <2> HIDE DEF k, token
  <2> QED BY <1>2, <1>3, <1>7, <2>1, ReachesNext
<1>8. ASSUME Good, IndexToken
      PROVE  data = GetData(info, struct_data) /\ type = info.type
  <2>1. info # NoField /\ token.kind = "index"
    BY <1>8 DEF IndexToken, HasIndex, HasToken
  <2>2. k > 0 /\ k \in 1 .. N - 1
    BY <1>1, <1>3, <2>1 DEF Tracks
  <2>3. Path[k].kind = "name"
    BY <1>2, <1>3, <1>8, <2>1, <2>2 DEF IsChained
  <2> QED BY <1>1, <2>2, <2>3 DEF Tracks
<1>9. ASSUME Good, at' # "token", ~moved PROVE at' \in Errors /\ [error |-> at'] \in Ends
  <2>1. at' \in Errors /\ [error |-> at'] \in FollowFrom(file, Here, token)
    <3>1. CASE NoData \/ NameOfNoStruct \/ IndexOfNoField \/ IndexOfNoElements
      BY <1>5, <1>9, <3>1, FailureFollows
    <3>2. CASE NameToken
      <4>1. FieldsNamed(type, Head(query).value) = {}
        BY <1>9, <3>2, NameFollows
      <4> QED BY <1>5, <1>9, <3>2, <4>1, FailureFollows
    <3>3. CASE IndexToken
      <4>1. /\ at' = "IndexOutOfBounds"
            /\ [error |-> at'] \in FollowFrom(file, Here, token)
        BY <1>8, <1>9, <3>3, IndexFollows DEF Setting
      <4> QED BY <4>1 DEF Errors
    <3>4. CASE ReadElsewhere
      BY <1>5, <1>9, <3>4, NothingElsewhere
    <3> QED BY <1>1, <3>1, <3>2, <3>3, <3>4 DEF Token
  <2>2. [error |-> at'] \in R[k + 1]
    BY <1>7, <1>9, <2>1
  <2>3. [error |-> at'].error # "ok" /\ k + 1 \in 0 .. N
    BY <1>3, <2>1 DEF Errors
  <2> HIDE DEF k
  <2>4. [error |-> at'] \in Ends
    BY <1>2, <2>2, <2>3, ErrorsPersist DEF Ends
  <2> QED BY <2>1, <2>4
<1>10. ASSUME at' = "token" PROVE Tracks'
  <2>1. /\ query' = Tail(query) /\ info' # NoField
        /\ token.kind = "name" => data' = GetData(info', struct_data') /\ type' = info'.type
    BY <1>1, <1>10, TokenMoves
  <2>2. /\ query' \in Seq(Tokens) /\ Len(query') = Len(query) - 1
        /\ \A j \in 1 .. Len(query') : query'[j] = query[j + 1]
    BY <1>1, <1>2, <2>1, HeadTailProperties
  <2>3. Done' = k + 1 /\ Len(query') <= N
    BY <1>2, <1>3, <1>4, <2>2 DEF Done
  <2>4. ASSUME NEW j \in 1 .. Len(query') PROVE query'[j] = Path[k + 1 + j]
    <3>1. j + 1 \in 1 .. Len(query) /\ k + (j + 1) = k + 1 + j
      BY <1>2, <1>3, <2>2
    <3>2. query[j + 1] = Path[k + (j + 1)]
      BY <1>1, <3>1 DEF Tracks
    <3> QED BY <2>2, <3>1, <3>2
  <2>5. ASSUME Good, moved => ~IsNull(data') PROVE Place(data', type') \in R[k + 1]
    <3>1. Place(data', type') \in FollowFrom(file, Here, token)
      <4>1. CASE NameToken
        <5>1. FieldsNamed(type, Head(query).value) # {}
          BY <1>10, <4>1 DEF NameToken, Fail
        <5> QED BY <2>5, <4>1, <5>1, NameFollows
      <4>2. CASE IndexToken
        BY <1>8, <1>10, <2>5, <4>2, IndexFollows DEF Setting
      <4>3. ~(NoData \/ NameOfNoStruct \/ IndexOfNoField \/ IndexOfNoElements \/ ReadElsewhere)
        BY <1>10 DEF NoData, NameOfNoStruct, IndexOfNoField, IndexOfNoElements, ReadElsewhere, Fail
      <4> QED BY <1>1, <4>1, <4>2, <4>3 DEF Token
    <3>2. ~IsNull(data)
      BY <1>1, <1>10 DEF Token, NoData, NameToken, NameOfNoStruct, IndexOfNoField, IndexOfNoElements,
         ReadElsewhere, IndexToken, HasIndex, HasToken, Fail
    <3> QED BY <1>7, <2>5, <3>1, <3>2
  <2>6. Here' = Place(data', type')
    BY <2>1 DEF Here
  <2>7. GetData(info, struct_data)' = GetData(info', struct_data')
    BY <1>1 DEF GetData, SizeIn
  <2>8. PlacesAfter(Done)' = R[k + 1]
    BY <1>1, <1>4, <2>3 DEF PlacesAfter
  <2>9. Means' <=> Good
    BY <1>1, <1>4 DEF Means
  <2>10. Means' /\ (moved' => ~IsNull(data')) => Here' \in PlacesAfter(Done)'
    <3> HIDE DEF k, R, Good
    <3> QED BY <1>1, <2>5, <2>6, <2>8, <2>9
  <2>11. info' # NoField /\ Done' # 0 /\ Len(query') <= Len(Path')
    BY <1>3, <1>4, <2>1, <2>3
  <2>12. Path'[Done'].kind = "name" => data' = GetData(info, struct_data)' /\ type' = info'.type
    BY <1>3, <1>4, <2>1, <2>3, <2>7
  <2>13. \A j \in 1 .. Len(query') : query'[j] = Path'[Done' + j]
    BY <1>4, <2>3, <2>4
  <2>14. (IsNull(data))' <=> IsNull(data')
    BY DEF IsNull
  <2> HIDE DEF k, R, Good
  <2> QED BY <2>10, <2>11, <2>12, <2>13, <2>14 DEF Tracks
<1>11. at' # "token" => Tracks'
  BY DEF Tracks
<1> QED BY <1>9, <1>10, <1>11

-----------------------------------------------------------------------------
(* That an answer is what the path means.                                  *)
Right(answer, span, slot) ==
  \E p \in Meanings(file, call.type, CallData, call.query) :
    IF call.kind # "QueryValue"
    THEN LET means == /\ p.error = "ok" /\ ~IsNull(p.span) /\ p.span.size = call.as.size
                      /\ call.kind = "GetPointer" => Kind(FieldRead.type) = "pointer"
         IN  IF means THEN answer = "ok" /\ span = p.span ELSE answer = "none"
    ELSE IF p.error # "ok" THEN answer = p.error
    ELSE answer = Typed(call.as, p.span) /\ span = p.span /\ slot = p.type

(* It is enough to look at an answer as it is given.                       *)
LEMMA RightAnswers ==
  ASSUME UNCHANGED <<file, call>>,
         at' \in Answers /\ ~IsWalk /\ call.query # <<>>
           /\ IsPlain(file) /\ ~unchecked' /\ ~IsChained(call.query)
         => Right(at', data', type')
  PROVE  QueriesMeanPaths'
<1>1. CallData' = CallData /\ FieldRead' = FieldRead
  BY DEF CallData, ReinterpretCast, SizeIn, FieldRead, Fields, FieldsNamed
<1>2. (IsWalk' <=> IsWalk) /\ Kind(FieldRead.type)' = Kind(FieldRead.type)
  BY <1>1 DEF IsWalk, Kind
<1>3. SUFFICES ASSUME Right(at', data', type')
               PROVE  (\E p \in Meanings(file, call.type, CallData, call.query) :
                         IF call.kind # "QueryValue"
                         THEN LET means == /\ p.error = "ok" /\ ~IsNull(p.span) /\ p.span.size = call.as.size
                                           /\ call.kind = "GetPointer" => Kind(FieldRead.type) = "pointer"
                              IN  IF means THEN at = "ok" /\ data = p.span ELSE at = "none"
                         ELSE IF p.error # "ok" THEN at = p.error
                         ELSE at = Typed(call.as, p.span) /\ data = p.span /\ type = p.type)'
  BY <1>2 DEF QueriesMeanPaths
<1> QED BY <1>1, <1>2, <1>3 DEF Right

(* The first element of an array lies where the array does.                *)
LEMMA SomewhereOnArrays ==
  ASSUME NEW place, place.error = "ok", NEW token, token.kind = "index",
         file.types[place.type + 1].kind # "pointer"
  PROVE  \E p : p \in FollowFrom(file, place, token)
<1>1. \A error : \E p : p \in Error(error)
  BY DEF Error
<1>2. CASE IsNull(place.span)
  BY <1>1, <1>2 DEF FollowFrom
<1>3. CASE ~IsNull(place.span)
  <2>1. FollowFrom(file, place, token) = IndexPlaces(file, place, token.value)
    BY <1>3 DEF FollowFrom
  <2>2. \E p : p \in IndexPlaces(file, place, token.value)
    BY <1>1 DEF IndexPlaces
  <2> QED BY <2>1, <2>2
<1> QED BY <1>2, <1>3

(* A read of a field answers what the path of the field means.             *)
LEMMA ReadFollows ==
  ASSUME IInv, Setting, ReadField
  PROVE  QueriesMeanPaths'
<1> DEFINE field   == FieldRead
           pointer == GetData(field, element)
           reads   == call.kind = "GetPointer" /\ Kind(field.type) = "pointer"
           found   == IF call.kind = "GetValue" THEN GetValue(field, call.as)
                      ELSE GetPointer(field, call.as)
           to      == SizeIn(GetElementType(file.types, field.type))
           tokens  == call.query
           R       == Reached(file, call.type, element, tokens)
           q       == Place(pointer, field.type)
<1>0. UNCHANGED <<file, call>>
  BY DEF ReadField, walk
<1> SUFFICES ASSUME ~IsWalk, IsPlain(file), ~unchecked' PROVE Right(at', data', type')
  BY <1>0, RightAnswers
<1>1. /\ unchecked' = (\/ unchecked
                       \/ Overflows(field.offset, SizeIn(field.type))
                       \/ reads /\ IsInBody(pointer) /\ Overflows(Address(pointer), to))
      /\ IF reads /\ ~IsNull(pointer) /\ ~IsInBody(pointer)
         THEN at' = "undefined" /\ UNCHANGED data
         ELSE IF IsNull(found)
         THEN at' = "none" /\ UNCHANGED data
         ELSE at' = "ok" /\ data' = found
  BY DEF ReadField
<1>2. /\ call.type \in Slots /\ Kind(call.type) = "aggregate" /\ call.kind \in {"GetValue", "GetPointer"}
      /\ Context /\ moved \in BOOLEAN /\ (moved => IsWalk) /\ element = CallData /\ Complete
  <2>1. moved \in BOOLEAN /\ (moved => IsWalk)
    BY DEF IInv, TypeOK
  <2> QED BY <2>1 DEF IInv, Context, IsCall, ReadField, Slots, Kind, Setting
<1>3. Held(element) /\ ~IsNull(element) /\ Lies(element) /\ ~unchecked
  BY <1>1, <1>2 DEF IInv, Places
<1>4. PICK i \in DOMAIN Fields(call.type) :
        tokens = IF call.kind = "GetValue" THEN <<Name(Fields(call.type)[i].name)>>
                 ELSE <<Name(Fields(call.type)[i].name), Index(0)>>
  BY <1>2 DEF IInv, Context, IsCall, Fields
<1> DEFINE n == Fields(call.type)[i].name
<1>5. /\ tokens[1] = Name(n) /\ Head(tokens).value = n
      /\ call.kind = "GetValue" => Len(tokens) = 1
      /\ call.kind = "GetPointer" => Len(tokens) = 2 /\ tokens[2] = Index(0)
  BY <1>2, <1>4 DEF Name
<1>6. FieldsNamed(call.type, n) # {} /\ field = Fields(call.type)[Min(FieldsNamed(call.type, n))]
  BY <1>5 DEF FieldsNamed, FieldRead
<1>7. IsFieldOf(field) /\ ~Overflows(field.offset, SizeIn(field.type))
  BY <1>1, <1>2, <1>6, FirstNamed
<1>8. FollowFrom(file, Beginning(element, call.type), tokens[1]) = {q}
  <2> DEFINE start == Beginning(element, call.type)
  <2>1. start.error = "ok" /\ start.span = element /\ start.type = call.type
    BY DEF Beginning
  <2>2. FollowFrom(file, start, tokens[1]) = NamePlaces(file, start, n)
    BY <1>3, <1>5, <2>1 DEF FollowFrom, Name
  <2> HIDE DEF start, n, field
  <2>3. NamePlaces(file, start, n) =
          {Place(GetData(Fields(call.type)[Min(FieldsNamed(call.type, n))], element),
                 Fields(call.type)[Min(FieldsNamed(call.type, n))].type)}
    BY <1>2, <1>3, <1>6, <1>7, <2>1, NamePlacesAre
  <2> QED BY <1>6, <2>2, <2>3 DEF start
<1>9. Len(tokens) \in Nat /\ Len(tokens) >= 1
  BY <1>2, <1>5
<1>10. q \in R[1]
  <2>1. Traces(R, file, Beginning(element, call.type), tokens)
    BY <1>9, ReachedIs
  <2>2. Beginning(element, call.type) \in R[0]
    BY <2>1 DEF Traces
  <2>3. R[1] = Follow(file, R[0], tokens[1])
    <3>1. 1 \in 1 .. Len(tokens) /\ 1 - 1 = 0
      BY <1>9
    <3> HIDE DEF R, tokens
    <3> QED BY <2>1, <3>1 DEF Traces
  <2> HIDE DEF R, q, tokens
  <2> QED BY <1>8, <2>2, <2>3 DEF Follow
<1>11. Meanings(file, call.type, CallData, call.query) = R[Len(tokens)]
  BY <1>2 DEF Meanings
<1>12. Held(pointer) /\ Lies(pointer) /\ (pointer = Null(0) \/ ~IsNull(pointer))
  BY <1>2, <1>3, <1>7, DataLies
<1>13. ~IsNull(pointer) => pointer.size = SizeIn(field.type)
  <2>1. pointer = Null(0) \/ pointer = Part(element, field.offset, SizeIn(field.type))
    BY DEF GetData
  <2> QED BY <2>1, NullIsHeld DEF Part
<1>14. ~(~IsNull(pointer) /\ ~IsInBody(pointer))
  BY <1>12 DEF Lies
<1>15. IF IsNull(found) THEN at' = "none" ELSE at' = "ok" /\ data' = found
  BY <1>1, <1>14
<1>16. q.error = "ok" /\ q.span = pointer /\ q.type = field.type
  BY DEF Place
<1>17. CASE call.kind = "GetValue"
  <2>1. q \in Meanings(file, call.type, CallData, call.query)
    BY <1>5, <1>10, <1>11, <1>17
  <2> DEFINE means == ~IsNull(pointer) /\ pointer.size = call.as.size
  <2>2. IF means THEN at' = "ok" /\ data' = pointer ELSE at' = "none"
    <3>1. found = IF SizeIn(field.type) # call.as.size THEN Null(0)
                  ELSE IF pointer.size = call.as.size THEN pointer ELSE Null(0)
      BY <1>17 DEF GetValue
    <3> HIDE DEF found, pointer
    <3> QED BY <1>13, <1>15, <3>1, NullIsHeld
  <2> HIDE DEF q, pointer
  <2> QED BY <1>16, <1>17, <2>1, <2>2 DEF Right
<1>18. CASE call.kind = "GetPointer"
  <2>1. Len(tokens) = 2 /\ tokens[2] = Index(0) /\ Len(tokens) \in Nat /\ 1 \in 0 .. Len(tokens) - 1 /\ 1 + 1 = 2
    BY <1>5, <1>18
  <2>2. ASSUME NEW p, p \in FollowFrom(file, q, tokens[2])
        PROVE  p \in Meanings(file, call.type, CallData, call.query)
    <3>1. p \in R[2]
      <4> HIDE DEF q, tokens
      <4> QED BY <1>10, <2>1, <2>2, ReachesNext
    <3> QED BY <1>11, <2>1, <3>1
  <2>3. CASE Kind(field.type) # "pointer"
    <3>1. file.types[q.type + 1].kind # "pointer" /\ tokens[2].kind = "index"
      BY <1>16, <2>1, <2>3 DEF Kind, Index
    <3>2. PICK p : p \in FollowFrom(file, q, tokens[2])
      <4> HIDE DEF q, tokens
      <4> QED BY <1>16, <3>1, SomewhereOnArrays
    <3>3. found = Null(0)
      <4>1. GetPointer(field, call.as) = Null(0)
        BY <2>3 DEF GetPointer
      <4> QED BY <1>18, <4>1
    <3>4. at' = "none"
      BY <1>15, <3>3, NullIsHeld
    <3>5. p \in Meanings(file, call.type, CallData, call.query)
      BY <2>2, <3>2
    <3> QED BY <1>18, <2>3, <3>4, <3>5 DEF Right
  <2>4. CASE Kind(field.type) = "pointer" /\ IsNull(pointer)
    <3>1. FollowFrom(file, q, tokens[2]) = Error("InvalidValue")
      BY <1>16, <2>4 DEF FollowFrom
    <3>2. [error |-> "InvalidValue"] \in Meanings(file, call.type, CallData, call.query)
      BY <2>2, <3>1 DEF Error
    <3>3. GetPointerData(field, element) = Null(0)
      BY <1>12, <2>4, NullIsHeld, DeclaratorAssumption DEF GetPointerData
    <3>4. IsNull(found)
      <4>1. IsNull(GetPointer(field, call.as))
        BY <3>3, NullIsHeld DEF GetPointer
      <4> QED BY <1>18, <4>1
    <3>5. at' = "none"
      BY <1>15, <3>4
    <3>6. [error |-> "InvalidValue"].error # "ok"
      OBVIOUS
    <3> QED BY <1>18, <3>2, <3>5, <3>6 DEF Right
  <2>5. CASE Kind(field.type) = "pointer" /\ ~IsNull(pointer)
    <3> DEFINE memory == GetMemory(m_Ranges, Address(pointer), to)
               inner  == GetElementType(file.types, field.type)
               p == Place(Part(memory, 0, to), inner)
    <3>1. IsInBody(pointer) /\ pointer.size = PointerSize /\ field.type \in Slots /\ inner \in Slots
      BY <1>2, <1>7, <1>13, <1>14, <2>5, ElementFacts DEF IsFieldOf
    <3>2. ~Overflows(Address(pointer), to)
      BY <1>1, <1>18, <2>5, <3>1
    <3>3. Address(pointer) \in 0 .. MaxUsize /\ to \in 0 .. MaxUsize /\ MaxUsize \in Nat
      BY <1>2, <1>12, <3>1, AddressIsWord, SlotFacts, DeclaratorAssumption
    <3>4. /\ memory = Null(0) \/ (~IsNull(memory) /\ memory.size = to /\ Part(memory, 0, to) = memory)
          /\ IsNull(memory) \/ ~Overflows(Address(pointer), to) =>
               Part(memory, 0, to) \in Pointees(file, Address(pointer), to)
      <4> HIDE DEF to, pointer
      <4> QED BY <1>2, <3>3, PointeesAre
    <3>5. p \in Meanings(file, call.type, CallData, call.query)
      <4>1. FollowFrom(file, q, tokens[2]) = IndexPlaces(file, q, 0)
        BY <1>16, <2>1, <2>5 DEF FollowFrom, Index
      <4>2. Refuses(memory, 0, to) = FALSE /\ Wrap(0 * to) = 0 /\ (IsNull(memory) \/ Passes(memory, 0, to))
        <5>1. 0 * to = 0 /\ Wrap(0) = 0 /\ Wrap(to) = to /\ 0 + to = to
          <6> HIDE DEF to
          <6> QED BY <3>3 DEF Wrap
        <5>2. memory = Null(0) \/ memory.size = to
          BY <3>4
        <5> HIDE DEF memory, to
        <5>3. ~Refuses(memory, 0, to)
          BY <3>3, <5>1, <5>2, NullIsHeld DEF Refuses
        <5>4. IsNull(memory) \/ Passes(memory, 0, to)
          BY <3>3, <5>1, <5>2, NullIsHeld DEF Passes, Overflows
        <5> QED BY <5>1, <5>3, <5>4
      <4>3. /\ Refuses(memory, 0, to) /\ ~Overflows(Address(pointer), to) =>
                 [error |-> "IndexOutOfBounds"] \in IndexPlaces(file, q, 0)
            /\ ~Refuses(memory, 0, to)
                 /\ (IsNull(memory) \/ (~Overflows(Address(pointer), to) /\ Passes(memory, 0, to))) =>
                 Place(Part(memory, Wrap(0 * to), to), inner) \in IndexPlaces(file, q, 0)
        <5>1. 0 \in Nat
          OBVIOUS
        <5> HIDE DEF pointer, field
        <5> QED BY <1>2, <1>12, <2>5, <3>1, <5>1, PointerPlacesAre
      <4>4. p \in IndexPlaces(file, q, 0)
        <5> HIDE DEF memory, to, q, inner
        <5> QED BY <3>2, <4>2, <4>3
      <4> HIDE DEF p
      <4> QED BY <2>2, <4>1, <4>4
    <3>6. p.error = "ok" /\ p.span = Part(memory, 0, to)
      BY DEF Place
    <3>7. found = IF memory.size = call.as.size THEN memory ELSE Null(0)
      <4>1. GetPointerData(field, element) = memory
        BY <3>1 DEF GetPointerData
      <4> QED BY <1>18, <2>5, <4>1 DEF GetPointer
    <3>8. (IsNull(Part(memory, 0, to)) <=> IsNull(memory)) /\ Part(memory, 0, to).size = to
      BY DEF Part, IsNull
    <3> DEFINE means == ~IsNull(p.span) /\ p.span.size = call.as.size
    <3>9. IF means THEN at' = "ok" /\ data' = p.span ELSE at' = "none"
      <4> HIDE DEF p, found, memory, to
      <4> QED BY <1>15, <3>4, <3>6, <3>7, <3>8, NullIsHeld
    <3> HIDE DEF p
    <3> QED BY <1>18, <2>5, <3>5, <3>6, <3>9 DEF Right
  <2> QED BY <2>3, <2>4, <2>5
<1> QED BY <1>2, <1>17, <1>18

-----------------------------------------------------------------------------
(* Whether an element follows another one, and whether the list may end    *)
(* behind an element.                                                      *)
Links(f, slot, from, to) ==
  \E p \in Meanings(f, slot, from, NextPath) : p.error = "ok" /\ p.span = to
Stops(f, slot, from) ==
  \E p \in Meanings(f, slot, from, NextPath) : p.error = "InvalidValue" \/ IsNull(p.span)

LastSeen  == IF seen = <<>> THEN CallData ELSE seen[Len(seen)]
Before(i) == IF i = 1 THEN CallData ELSE seen[i - 1]

SeenFollow == \A i \in DOMAIN seen : Links(file, call.type, Before(i), seen[i])
IsAtLast ==
  Len(seen) < MaxSeen =>
    /\ at = "call" \/ phase = "next" => element = LastSeen
    /\ at = "token" /\ phase = "element" => Links(file, call.type, LastSeen, element)
EndsThere ==
  /\ at = "ok" \/ (at = "InvalidValue" /\ phase = "next")
  /\ ~moved /\ element.size > 0
  => Stops(file, call.type, element)

Walks  == IsWalk /\ call.query # <<>> /\ IsPlain(file)
Walked == Walks /\ ~unchecked => SeenFollow /\ IsAtLast /\ EndsThere

QInv == IInv /\ Setting /\ Tracks /\ QueriesMeanPaths /\ Walked

-----------------------------------------------------------------------------
(* What does not change while the file and the call do not.                *)
LEMMA Kept ==
  ASSUME UNCHANGED <<file, call>>
  PROVE  /\ CallData' = CallData /\ (IsWalk' <=> IsWalk) /\ (Walks' <=> Walks)
BY DEF CallData, ReinterpretCast, SizeIn, IsWalk, Walks

(* An evaluation begins at the first place of its path.                    *)
LEMMA BeginTraced ==
  ASSUME IInv, NEW next \in {"value", "next"}, NEW tokens \in Seq(Tokens),
         tokens = IF next = "next" THEN NextPath ELSE call.query,
         Evaluate(next, call.type, element, tokens), UNCHANGED <<file, call, element>>
  PROVE  Tracks'
<1>1. at' = "token" /\ phase' = next /\ query' = tokens /\ data' = element /\ type' = call.type /\ info' = NoField
  BY DEF Evaluate, Begin
<1>2. Path' = tokens
  BY <1>1 DEF Path
<1>3. Len(tokens) \in Nat
  BY LenProperties
<1>4. Done' = 0
  BY <1>1, <1>2, <1>3 DEF Done
<1>5. Here' = Beginning(element, call.type)
  BY <1>1 DEF Here
<1>6. PlacesAfter(Done)' = Reached(file, call.type, element, tokens)[0]
  BY <1>2, <1>4 DEF PlacesAfter
<1>7. Here' \in PlacesAfter(Done)'
  <2>1. Traces(Reached(file, call.type, element, tokens), file, Beginning(element, call.type), tokens)
    BY <1>3, ReachedIs
  <2> QED BY <1>5, <1>6, <2>1 DEF Traces
<1>8. \A j \in 1 .. Len(query') : query'[j] = Path'[Done' + j]
  BY <1>1, <1>2, <1>3, <1>4
<1>9. Len(query') <= Len(Path') /\ ~(Done' > 0) /\ info' = NoField /\ Done' = 0
  BY <1>1, <1>2, <1>3, <1>4
<1> QED BY <1>7, <1>8, <1>9 DEF Tracks

(* At the end of its query an evaluation is where the path ends.           *)
LEMMA EndTraced ==
  ASSUME IInv, Tracks, at = "token", phase # "element", query = <<>>,
         Means, moved => ~IsNull(data)
  PROVE  /\ Here \in Ends
         /\ Here.error = "ok" /\ Here.span = data /\ Here.type = type
<1>1. Len(Path) \in Nat /\ Done = Len(Path)
  BY PathFacts DEF Done
<1>2. Here \in PlacesAfter(Len(Path))
  BY <1>1 DEF Tracks
<1> QED BY <1>2 DEF PlacesAfter, Ends, Meanings, Here, Beginning, Place

(* A step of an evaluation neither answers well nor calls back.            *)
LEMMA TokenAnswers == Token => at = "token" /\ at' # "ok" /\ at' # "call"
BY DEF Token, NoData, NameToken, NameOfNoStruct, IndexOfNoField, IndexOfNoElements,
       ReadElsewhere, IndexToken, HasIndex, HasToken, Fail

(* What is found has a type or it is an error.                             *)
LEMMA TypedAnswers == \A as, span : Typed(as, span) \in {"ok", "InvalidType", "InvalidValue"}
BY DEF Typed

(* Every step keeps each part of the invariant.                            *)
LEMMA SettingKept == IInv /\ Setting /\ [Next]_vars => Setting'
<1> SUFFICES ASSUME IInv, Setting, [Next]_vars PROVE Setting'
  OBVIOUS
<1>1. /\ UNCHANGED <<file, call>> /\ (~moved' => ~moved /\ UNCHANGED m_Ranges)
      /\ (~IsWalk => element' = element)
      /\ at' = "token" /\ phase' = "value" => call.kind = "QueryValue"
  <2>1. CASE Step
    BY <2>1, TokenAnswers DEF Step, Token, walk, Setting
  <2>2. CASE NextFound
    BY <2>2 DEF NextFound, Found, Return, Evaluate, IInv, Context, walk
  <2>3. CASE ElementFound
    <3>1. Typed(call.as, data) # "token"
      BY TypedAnswers
    <3> QED BY <2>3, <3>1 DEF ElementFound, Return, IInv, TypeOK
  <2>4. CASE ReadField
    BY <2>4 DEF ReadField, walk
  <2>6. CASE NoQuery \/ Break
    BY <2>6 DEF NoQuery, Break, Return, walk
  <2>7. CASE QueryValue
    BY <2>7 DEF QueryValue, Evaluate, walk
  <2>8. CASE NextElement
    BY <2>8 DEF NextElement, Return, Evaluate, walk
  <2>9. CASE ValueFound
    <3>1. Typed(call.as, data) # "token"
      BY TypedAnswers
    <3> QED BY <2>9, <3>1 DEF ValueFound, Return, walk
  <2>5. CASE UNCHANGED vars
    BY <2>5 DEF vars, Setting
  <2> QED BY <2>1, <2>2, <2>3, <2>4, <2>5, <2>6, <2>7, <2>8, <2>9 DEF Next
<1>2. ~moved' => Complete'
  <2>1. SUFFICES ASSUME ~moved' PROVE Complete'
    OBVIOUS
  <2>2. Ranges' = Ranges /\ m_Ranges' = m_Ranges
    BY <1>1, <2>1 DEF Ranges
  <2> QED BY <1>1, <2>1, <2>2 DEF Complete, Setting
<1> QED BY <1>1, <1>2, Kept DEF Setting

LEMMA TracksKept == IInv /\ Setting /\ Tracks /\ [Next]_vars => Tracks'
<1> SUFFICES ASSUME IInv, Setting, Tracks, [Next]_vars PROVE Tracks'
  OBVIOUS
<1>1. CASE Step
  <2>1. CASE phase # "element"
    BY <1>1, <2>1, StepTraced
  <2>2. CASE phase = "element"
    BY <1>1, <2>2 DEF Step, Tracks
  <2> QED BY <2>1, <2>2
<1>2. CASE QueryValue
  <2>1. Evaluate("value", call.type, element, call.query) /\ UNCHANGED <<file, call, element>>
        /\ call.query \in Seq(Tokens)
    BY <1>2 DEF QueryValue, walk, IInv, Context, IsCall
  <2> QED BY <2>1, BeginTraced
<1>3. CASE NextElement
  <2>1. CASE IsNull(element) \/ element.size = 0
    BY <1>3, <2>1 DEF NextElement, Return, Tracks
  <2>2. CASE ~(IsNull(element) \/ element.size = 0)
    <3>1. Evaluate("next", call.type, element, NextPath) /\ UNCHANGED <<file, call, element>>
      BY <1>3, <2>2 DEF NextElement, NextPath, walk
    <3> QED BY <3>1, BeginTraced, PathFacts
  <2> QED BY <2>1, <2>2
<1>4. CASE ReadField \/ NoQuery \/ ValueFound \/ Break \/ NextFound \/ ElementFound
  <2>1. at' # "token" \/ phase' = "element"
    BY <1>4 DEF ReadField, NoQuery, ValueFound, Break, NextFound, ElementFound, Return, Evaluate, Typed
  <2> QED BY <2>1 DEF Tracks
<1>5. CASE UNCHANGED vars
  <2>1. Path' = Path /\ Done' = Done /\ Here' = Here /\ (Means' <=> Means)
    BY <1>5 DEF vars, evaluation, Path, Done, Here, Means
  <2>2. PlacesAfter(Done)' = PlacesAfter(Done)
    BY <1>5, <2>1 DEF vars, PlacesAfter
  <2>3. GetData(info, struct_data)' = GetData(info, struct_data)
    BY <1>5 DEF vars, evaluation, GetData, SizeIn
  <2>4. UNCHANGED <<at, phase, query, info, data, type, moved>>
    BY <1>5 DEF vars, evaluation
  <2> QED BY <2>1, <2>2, <2>3, <2>4 DEF Tracks, IsNull
<1> QED BY <1>1, <1>2, <1>3, <1>4, <1>5 DEF Next

LEMMA PathsKept == IInv /\ Setting /\ Tracks /\ QueriesMeanPaths /\ [Next]_vars => QueriesMeanPaths'
<1> SUFFICES ASSUME IInv, Setting, Tracks, QueriesMeanPaths, [Next]_vars PROVE QueriesMeanPaths'
  OBVIOUS
<1>1. CASE ReadField
  BY <1>1, ReadFollows
<1>2. CASE NoQuery
  BY <1>2, RightAnswers DEF NoQuery, walk
<1>3. CASE QueryValue
  <2>1. at' \notin Answers /\ UNCHANGED <<file, call>>
    BY <1>3 DEF QueryValue, Evaluate, Answers, Errors, walk
  <2> QED BY <2>1, RightAnswers
<1>4. CASE NextElement \/ NextFound \/ Break \/ ElementFound
  <2>1. IsWalk /\ UNCHANGED <<file, call>>
    BY <1>4 DEF NextElement, NextFound, Break, ElementFound, Found, IsBreak, IInv, Context, walk
  <2> QED BY <2>1, RightAnswers
<1>5. CASE Step
  <2>0. UNCHANGED <<file, call>> /\ at = "token"
    BY <1>5, TokenAnswers DEF Step, Token, walk
  <2>1. SUFFICES ASSUME at' \in Answers, ~IsWalk, IsPlain(file), ~unchecked', ~IsChained(call.query)
                 PROVE  Right(at', data', type')
    BY <2>0, RightAnswers
  <2>2. phase = "value" /\ call.kind = "QueryValue" /\ ~moved /\ element = CallData
    BY <2>0, <2>1 DEF IInv, Context, TypeOK, Setting
  <2>3. Path = call.query /\ Ends = Meanings(file, call.type, CallData, call.query)
    BY <2>2 DEF Path, Ends
  <2>4. at' # "token"
    BY <2>1 DEF Answers, Errors
  <2>5. at' \in Errors /\ [error |-> at'] \in Ends
    BY <1>5, <2>1, <2>2, <2>3, <2>4, StepTraced
  <2>6. [error |-> at'].error = at' /\ at' # "ok"
    BY <2>5 DEF Errors
  <2> QED BY <2>2, <2>3, <2>5, <2>6 DEF Right
<1>6. CASE ValueFound
  <2>0. /\ UNCHANGED <<file, call, unchecked, data, type>> /\ at = "token" /\ phase = "value" /\ query = <<>>
        /\ at' = Typed(call.as, data)
    BY <1>6 DEF ValueFound, Found, Return, walk, evaluation
  <2>1. SUFFICES ASSUME ~IsWalk, IsPlain(file), ~unchecked', ~IsChained(call.query)
                 PROVE  Right(at', data', type')
    BY <2>0, RightAnswers
  <2>2. call.kind = "QueryValue" /\ ~moved /\ element = CallData
    BY <2>0, <2>1 DEF IInv, Context, TypeOK, Setting
  <2>3. Path = call.query /\ Ends = Meanings(file, call.type, CallData, call.query) /\ Means
    BY <2>0, <2>1, <2>2 DEF Path, Ends, Means
  <2>4. Here \in Ends /\ Here.error = "ok" /\ Here.span = data /\ Here.type = type
    BY <2>0, <2>2, <2>3, EndTraced
  <2> QED BY <2>0, <2>2, <2>3, <2>4 DEF Right
<1>7. CASE UNCHANGED vars
  <2>1. UNCHANGED <<file, call, at, data, type, unchecked>>
    BY <1>7 DEF vars, evaluation
  <2>2. at \in Answers /\ ~IsWalk /\ call.query # <<>>
           /\ IsPlain(file) /\ ~unchecked /\ ~IsChained(call.query)
         => Right(at, data, type)
    BY DEF QueriesMeanPaths, Right
  <2> QED BY <2>1, <2>2, RightAnswers
<1> QED BY <1>1, <1>2, <1>3, <1>4, <1>5, <1>6, <1>7 DEF Next

-----------------------------------------------------------------------------
(* The walk stays where the last element it has called back for is, or one *)
(* that follows.                                                           *)
LEMMA WalkStands ==
  ASSUME UNCHANGED <<file, call, seen>>, SeenFollow
  PROVE  SeenFollow' /\ LastSeen' = LastSeen
<1>1. CallData' = CallData
  BY Kept
<1> QED BY <1>1 DEF SeenFollow, LastSeen, Before

(* A file, a call and a check that was not made stay what they are.        *)
LEMMA AllKeep == [Next]_vars => UNCHANGED <<file, call>> /\ (unchecked => unchecked')
<1> SUFFICES ASSUME [Next]_vars PROVE UNCHANGED <<file, call>> /\ (unchecked => unchecked')
  OBVIOUS
<1>1. CASE Step
  <2>1. UNCHANGED <<file, call>>
    BY <1>1 DEF Step, Token, walk
  <2>2. ASSUME NoData \/ NameOfNoStruct \/ IndexOfNoField \/ IndexOfNoElements \/ ReadElsewhere
        PROVE  unchecked' = unchecked
    BY <2>2 DEF NoData, NameOfNoStruct, IndexOfNoField, IndexOfNoElements, ReadElsewhere, Fail
  <2>3. CASE NameToken
    BY <2>1, <2>3 DEF NameToken, Fail
  <2>4. CASE IndexToken
    BY <2>1, <2>4 DEF IndexToken
  <2> QED BY <1>1, <2>1, <2>2, <2>3, <2>4 DEF Step, Token
<1>2. CASE ReadField
  BY <1>2 DEF ReadField, walk
<1>3. CASE NoQuery \/ QueryValue \/ NextElement \/ ValueFound \/ NextFound \/ Break \/ ElementFound
  BY <1>3 DEF NoQuery, QueryValue, NextElement, ValueFound, NextFound, Break, ElementFound, walk
<1>4. CASE UNCHANGED vars
  BY <1>4 DEF vars
<1> QED BY <1>1, <1>2, <1>3, <1>4 DEF Next

LEMMA WalkedKept == IInv /\ Setting /\ Tracks /\ Walked /\ [Next]_vars => Walked'
<1> SUFFICES ASSUME IInv, Setting, Tracks, Walked, [Next]_vars, Walks', ~unchecked'
             PROVE  SeenFollow' /\ IsAtLast' /\ EndsThere'
  BY DEF Walked
<1>1. UNCHANGED <<file, call>> /\ ~unchecked
  BY AllKeep
<1>2. Walks /\ SeenFollow /\ IsAtLast /\ EndsThere
  BY <1>1, Kept DEF Walked
<1>3. IsWalk /\ call.query # <<>> /\ IsPlain(file)
  BY <1>2 DEF Walks
<1>4. ~(ReadField \/ NoQuery \/ QueryValue \/ ValueFound)
  BY <1>3 DEF ReadField, NoQuery, QueryValue, ValueFound, Found, IsWalk, Setting
<1>5. ASSUME phase = "next", at = "token" PROVE Path = NextPath /\ Means
  BY <1>1, <1>3, <1>5, PathFacts DEF Path, Means
<1>6. CASE NextElement
  <2>0. UNCHANGED <<file, call, seen, element, moved>> /\ at = "call"
    BY <1>6 DEF NextElement, walk
  <2>1. SeenFollow' /\ LastSeen' = LastSeen
    BY <1>2, <2>0, WalkStands
  <2>2. CASE IsNull(element) \/ element.size = 0
    <3>1. at' = "ok" /\ phase' = phase
      BY <1>6, <2>2 DEF NextElement, Return
    <3>2. IsAtLast'
      BY <1>2, <2>0, <2>1, <3>1 DEF IsAtLast
    <3>3. ASSUME IsNull(element) PROVE Stops(file, call.type, element)
      <4> DEFINE end == [error |-> "InvalidValue"]
                 k   == 0
      <4>1. Len(NextPath) = 2
        BY PathFacts
      <4>2. Beginning(element, call.type) \in Reached(file, call.type, element, NextPath)[k]
        <5>1. Traces(Reached(file, call.type, element, NextPath), file, Beginning(element, call.type), NextPath)
          BY <4>1, ReachedIs
        <5> QED BY <5>1 DEF Traces
      <4>3. end \in FollowFrom(file, Beginning(element, call.type), NextPath[k + 1])
        BY <3>3 DEF FollowFrom, Beginning, Place, Error
      <4>4. k \in 0 .. Len(NextPath) - 1 /\ Len(NextPath) \in Nat /\ k + 1 \in 0 .. Len(NextPath)
        BY <4>1
      <4> HIDE DEF k, end
      <4>5. end \in Reached(file, call.type, element, NextPath)[k + 1]
        BY <4>2, <4>3, <4>4, ReachesNext
      <4>6. end.error = "InvalidValue"
        BY DEF end
      <4>7. end \in Meanings(file, call.type, element, NextPath)
        BY <4>4, <4>5, <4>6, ErrorsPersist
      <4> QED BY <4>6, <4>7 DEF Stops
    <3>4. EndsThere'
      <4>1. element.size > 0 => IsNull(element)
        BY <2>2
      <4> QED BY <2>0, <3>3, <4>1 DEF EndsThere
    <3> QED BY <2>1, <3>2, <3>4
  <2>3. CASE ~(IsNull(element) \/ element.size = 0)
    <3>1. at' = "token" /\ phase' = "next"
      BY <1>6, <2>3 DEF NextElement, Evaluate
    <3> QED BY <1>2, <2>0, <2>1, <3>1 DEF IsAtLast, EndsThere
  <2> QED BY <2>2, <2>3
<1>7. CASE Step
  <2>0. UNCHANGED <<file, call, seen, element, moved, phase>> /\ at = "token" /\ at' # "ok" /\ at' # "call"
    BY <1>1, <1>7, TokenAnswers DEF Step, walk
  <2>1. SeenFollow' /\ LastSeen' = LastSeen
    BY <1>2, <2>0, WalkStands
  <2>2. IsAtLast'
    BY <1>2, <2>0, <2>1 DEF IsAtLast
  <2>3. ASSUME at' = "InvalidValue", phase = "next", ~moved PROVE Stops(file, call.type, element)
    <3>1. Path = NextPath /\ Means
      BY <1>5, <2>0, <2>3
    <3>2. [error |-> at'] \in Ends
      BY <1>7, <2>3, <3>1, StepTraced DEF Means
    <3>3. [error |-> at'] \in Meanings(file, call.type, element, NextPath)
      BY <3>1, <3>2 DEF Ends
    <3> QED BY <2>3, <3>3 DEF Stops
  <2>4. EndsThere'
    BY <2>0, <2>3 DEF EndsThere
  <2> QED BY <2>1, <2>2, <2>4
<1>8. CASE NextFound
  <2>0. /\ UNCHANGED <<file, call, seen, moved>> /\ at = "token" /\ phase = "next" /\ query = <<>>
        /\ IsNull(data) => at' = "ok" /\ phase' = phase /\ element' = element
        /\ ~IsNull(data) => at' = "token" /\ phase' = "element" /\ element' = data
    BY <1>8 DEF NextFound, Found, Return, Evaluate
  <2>1. SeenFollow' /\ LastSeen' = LastSeen
    BY <1>2, <2>0, WalkStands
  <2>2. Path = NextPath /\ Means
    BY <1>5, <2>0
  <2>3. ASSUME moved => ~IsNull(data)
        PROVE  \E p \in Meanings(file, call.type, element, NextPath) : p.error = "ok" /\ p.span = data
    <3>1. Here \in Ends /\ Here.error = "ok" /\ Here.span = data
      BY <2>0, <2>2, <2>3, EndTraced
    <3> QED BY <2>2, <3>1 DEF Ends
  <2>4. CASE IsNull(data)
    <3>1. ~moved => Stops(file, call.type, element)
      BY <2>3, <2>4 DEF Stops
    <3> QED BY <1>2, <2>0, <2>1, <2>4, <3>1 DEF IsAtLast, EndsThere
  <2>5. CASE ~IsNull(data)
    <3>1. Links(file, call.type, element, data)
      BY <2>3, <2>5 DEF Links
    <3> QED BY <1>2, <2>0, <2>1, <2>5, <3>1 DEF IsAtLast, EndsThere
  <2> QED BY <2>4, <2>5
<1>9. CASE Break
  <2>0. UNCHANGED <<file, call, seen, element, moved, phase>> /\ at = "InvalidValue" /\ phase = "next" /\ at' = "ok"
    BY <1>9 DEF Break, IsBreak, walk
  <2>1. SeenFollow' /\ LastSeen' = LastSeen
    BY <1>2, <2>0, WalkStands
  <2> QED BY <1>2, <2>0, <2>1 DEF IsAtLast, EndsThere
<1>10. CASE ElementFound
  <2>0. UNCHANGED <<file, call, element, phase>> /\ at = "token" /\ phase = "element"
    BY <1>10 DEF ElementFound, Found, Return
  <2>1. CASE Typed(call.as, data) # "ok"
    <3>1. UNCHANGED <<seen, moved>> /\ at' \in {"InvalidType", "InvalidValue"}
      BY <1>10, <2>1, TypedAnswers DEF ElementFound, Return
    <3>2. SeenFollow' /\ LastSeen' = LastSeen
      BY <1>2, <2>0, <3>1, WalkStands
    <3> QED BY <2>0, <3>1, <3>2 DEF IsAtLast, EndsThere
  <2>2. CASE Typed(call.as, data) = "ok" /\ ~(Len(seen) < MaxSeen)
    <3>1. UNCHANGED seen /\ at' = "call"
      BY <1>10, <2>2 DEF ElementFound
    <3>2. SeenFollow'
      BY <1>2, <2>0, <3>1, WalkStands
    <3> QED BY <2>0, <2>2, <3>1, <3>2 DEF IsAtLast, EndsThere
  <2>3. CASE Typed(call.as, data) = "ok" /\ Len(seen) < MaxSeen
    <3>1. seen' = Append(seen, element) /\ at' = "call"
      BY <1>10, <2>3 DEF ElementFound
    <3>2. seen \in Seq(Span) /\ element \in Span /\ Len(seen) \in Nat
      BY LenProperties DEF IInv, TypeOK
    <3>3. /\ Len(seen') = Len(seen) + 1 /\ seen' # <<>>
          /\ \A i \in 1 .. Len(seen) : seen'[i] = seen[i]
          /\ seen'[Len(seen) + 1] = element
          /\ DOMAIN seen = 1 .. Len(seen) /\ DOMAIN seen' = 1 .. Len(seen) + 1
      <4>1. seen' \in Seq(Span) /\ Len(seen') = Len(seen) + 1
            /\ (\A i \in 1 .. Len(seen) : seen'[i] = seen[i]) /\ seen'[Len(seen) + 1] = element
        BY <3>1, <3>2, AppendProperties
      <4>2. DOMAIN seen = 1 .. Len(seen) /\ DOMAIN seen' = 1 .. Len(seen')
        BY <3>2, <4>1, LenProperties
      <4>3. Len(seen') # 0
        BY <3>2, <4>1
      <4> QED BY <4>1, <4>2, <4>3, EmptySeq
    <3>4. CallData' = CallData
      BY <2>0, Kept
    <3>5. ASSUME NEW i \in 1 .. Len(seen) + 1
          PROVE  Links(file, call.type, Before(i)', seen'[i])
      <4>1. CASE i = Len(seen) + 1
        <5>1. Links(file, call.type, LastSeen, element)
          BY <1>2, <2>0, <2>3 DEF IsAtLast
        <5>2. Before(i)' = LastSeen
          <6>1. CASE seen = <<>>
            BY <3>2, <3>4, <4>1, <6>1, EmptySeq DEF Before, LastSeen
          <6>2. CASE seen # <<>>
            <7>1. Len(seen) \in 1 .. Len(seen) /\ i - 1 = Len(seen) /\ i # 1
              BY <3>2, <4>1, <6>2, EmptySeq
            <7> QED BY <3>3, <6>2, <7>1 DEF Before, LastSeen
          <6> QED BY <6>1, <6>2
        <5> QED BY <3>3, <4>1, <5>1, <5>2
      <4>2. CASE i # Len(seen) + 1
        <5>1. i \in 1 .. Len(seen) /\ (i # 1 => i - 1 \in 1 .. Len(seen))
          BY <3>2, <4>2
        <5>2. Before(i)' = Before(i)
          BY <3>3, <3>4, <5>1 DEF Before
        <5>3. Links(file, call.type, Before(i), seen[i])
          BY <1>2, <3>3, <5>1 DEF SeenFollow
        <5> QED BY <3>3, <5>1, <5>2, <5>3
      <4> QED BY <4>1, <4>2
    <3>6. SeenFollow'
      BY <2>0, <3>3, <3>5 DEF SeenFollow
    <3>7. LastSeen' = element
      BY <3>3 DEF LastSeen
    <3> QED BY <2>0, <3>1, <3>6, <3>7 DEF IsAtLast, EndsThere
  <2> QED BY <2>1, <2>2, <2>3
<1>11. CASE UNCHANGED vars
  <2>0. UNCHANGED <<file, call, seen, element, moved, phase, at>>
    BY <1>11 DEF vars
  <2>1. SeenFollow' /\ LastSeen' = LastSeen
    BY <1>2, <2>0, WalkStands
  <2> QED BY <1>2, <2>0, <2>1 DEF IsAtLast, EndsThere
<1> QED BY <1>4, <1>6, <1>7, <1>8, <1>9, <1>10, <1>11 DEF Next

(* The invariant, at first and of every behaviour.                         *)
LEMMA AllHoldAtFirst == Init => QInv
<1> SUFFICES ASSUME Init PROVE QInv
  OBVIOUS
<1>1. IInv
  BY InitHolds
<1>2. at = "call" /\ element = CallData /\ seen = <<>> /\ ~moved /\ phase = "value"
      /\ m_Ranges \in CreateMemoryTable(file.blocks)
  BY DEF Init
<1>3. Setting
  <2>1. Complete
    <3>1. IsFiniteSet(Ranges)
      BY <1>1, FileFacts, RangesAreFinite DEF IInv
    <3> QED BY <1>2, <3>1, TableIsComplete
  <2> QED BY <1>2, <2>1 DEF Setting
<1>4. Tracks
  BY <1>2 DEF Tracks
<1>5. QueriesMeanPaths
  BY <1>2 DEF QueriesMeanPaths, Answers, Errors
<1>6. Walked
  BY <1>2 DEF Walked, SeenFollow, IsAtLast, EndsThere, LastSeen
<1> QED BY <1>1, <1>3, <1>4, <1>5, <1>6 DEF QInv

LEMMA AllHold == Spec => []QInv
<1>1. QInv /\ [Next]_vars => QInv'
  BY NextKeeps, SettingKept, TracksKept, PathsKept, WalkedKept DEF QInv
<1> QED BY AllHoldAtFirst, <1>1, PTL DEF Spec

(* An answer is what the path of its query means in the file, or the error *)
(* that the path ends in: for every plain file, every query without two    *)
(* indices in a row and whatever it is asked of, as long as no check was   *)
(* passed by a number that had wrapped.                                    *)
THEOREM QueriesAlwaysMeanPaths == Spec => []QueriesMeanPaths
<1>1. QInv => QueriesMeanPaths
  BY DEF QInv
<1> QED BY AllHold, <1>1, PTL

(* A walk calls back for the elements of its list in their order, from the *)
(* first on and leaving none out, and, unless a callback has moved the     *)
(* Blend, ends well only where the list ends; under the same conditions    *)
(* and with any query.                                                     *)
THEOREM WalksAlwaysVisitInOrder == Spec => []WalksVisitInOrder
<1>1. QInv => WalksVisitInOrder
  <2> SUFFICES ASSUME Walks, ~unchecked, SeenFollow, EndsThere
               PROVE  WalksVisitInOrder
    BY DEF QInv, Walked, Walks, WalksVisitInOrder
  <2>1. \A i \in DOMAIN seen :
          \E p \in NextPlaces(IF i = 1 THEN CallData ELSE seen[i - 1]) : p.error = "ok" /\ p.span = seen[i]
    BY DEF SeenFollow, Links, Before, NextPlaces
  <2>2. at = "ok" /\ ~moved /\ element.size > 0 =>
          \E p \in NextPlaces(element) : p.error = "InvalidValue" \/ IsNull(p.span)
    BY DEF EndsThere, Stops, NextPlaces
  <2> QED BY <2>1, <2>2 DEF WalksVisitInOrder
<1> QED BY AllHold, <1>1, PTL
=============================================================================
