--------------------------- MODULE BlendFileProofs ---------------------------
(***************************************************************************)
(* BlendFile for every source, every word size, every radix and every way  *)
(* the file may change while it is read: the blocks tile the source, and   *)
(* what is accepted is complete.                                           *)
(***************************************************************************)
EXTENDS BlendFile, TLAPS

HeaderPhases == {"magic", "pointer", "endian", "version", "SetEndian"}
BlockPhases  == {"length", "address", "struct_index", "count", "body"}

(* How far into the block under construction the next read is.             *)
Offset ==
  CASE phase = "length"       -> 4
    [] phase = "address"      -> 8
    [] phase = "struct_index" -> 8 + AddressWidth(header.pointer)
    [] phase = "count"        -> 12 + AddressWidth(header.pointer)
    [] phase = "body"         -> 16 + AddressWidth(header.pointer)

HeaderOffset ==
  CASE phase = "magic"   -> 0
    [] phase = "pointer" -> 7
    [] phase = "endian"  -> 8
    [] phase = "version" -> 9
    [] OTHER             -> 12

(***************************************************************************)
(* The inductive invariant.  BlocksTile speaks of the blocks already read; *)
(* what makes it inductive is where the position is between two reads of   *)
(* the header or of a block, and that the header, which decides how wide a *)
(* block header is, is settled before the first block is begun.            *)
(***************************************************************************)

(* A position that is not short is where the reads so far have led.        *)
AtItsPlace ==
  /\ phase \in HeaderPhases => blocks = <<>>
  /\ phase \in HeaderPhases /\ ~IsShort => position = HeaderOffset
  /\ phase \in BlockPhases => block.start = NextStart
  /\ phase \in BlockPhases /\ ~IsShort => position = block.start + Offset

Placed == TypeOK /\ BlocksTile /\ AtItsPlace

(* What has been read lies in the source as it was opened, and memory does *)
(* not change.                                                             *)
InSource ==
  /\ phase \in BlockPhases => block.start + Offset <= m_Size
  /\ blocks # <<>> => NextStart <= m_Size
  /\ kind = "memory" => m_Size \in Sizes /\ fileLen = m_Size /\ position <= m_Size

(* Only the block that ends the loop is an ENDB block.                     *)
Ended ==
  /\ blocks # <<>>
  /\ \A i \in 1 .. Len(blocks) : blocks[i].code = "ENDB" <=> i = Len(blocks)

EndsOnce ==
  /\ phase \notin {"IsAtEnd", "done"} =>
       \A i \in 1 .. Len(blocks) : blocks[i].code # "ENDB"
  /\ phase = "IsAtEnd" => Ended
  /\ phase # "done" => result = "none"

(* The byte order is set when the first length is read, and the length     *)
(* under construction is the last one written.                             *)
LengthsKept ==
  /\ phase \notin HeaderPhases \cup {"done"} => m_Endian = header.endian
  /\ phase \in HeaderPhases \cup {"code", "length", "IsAtEnd"} => Len(written) = Len(blocks)
  /\ phase \in BlockPhases \ {"length"} =>
       Len(written) = Len(blocks) + 1 /\ block.length = written[Len(written)]
  /\ Len(blocks) <= Len(written)

(* A body that is not whole is the last thing read; a block that is still  *)
(* without a body has that of the last block.                              *)
BodiesKept ==
  /\ \A i \in 1 .. Len(blocks) :
       blocks[i].length # 0 /\ blocks[i].body.count # blocks[i].length =>
         IsShort /\ phase \in {"code", "IsAtEnd", "done"}
  /\ blocks # <<>> /\ phase # "done" => block.body = blocks[Len(blocks)].body

IInv ==
  /\ Placed
  /\ InSource
  /\ EndsOnce /\ AcceptedIsComplete
  /\ LengthsKept /\ LengthsAreAsWritten
  /\ BodiesKept /\ BodiesAreTheirBlocks

-----------------------------------------------------------------------------
LEMMA WordType == /\ SsizeLimit \in Nat \ {0}
                  /\ MaxUsize \in Nat
                  /\ Sizes \cup {MaxUsize} \subseteq Usize
                  /\ WrittenLengths \subseteq Nat
                  /\ Usize \subseteq Nat
BY SsizeAssumption, BlendFileAssumption DEF MaxUsize, Modulus, Usize

LEMMA DecodedType ==
  ASSUME NEW n \in WrittenLengths
  PROVE  Decoded(n) \in Nat
<1>1. n \in Nat /\ Radix \in Nat \ {0}
  BY WordType, BlendFileAssumption
<1>2. n % Radix \in Nat /\ n \div Radix \in Nat
  BY <1>1
<1> DEFINE q == n \div Radix
           r == n % Radix
<1>3. r \in Nat /\ q \in Nat
  BY <1>2
<1> HIDE DEF q, r
<1>4. r * Radix + q \in Nat
  BY <1>1, <1>3
<1> QED BY <1>1, <1>4 DEF Decoded, ByteSwap, q, r

(* A read that succeeds starts from a position that is not short, and      *)
(* leaves a position that is short or moved on by the width, inside the    *)
(* source as it was opened.                                                *)
LEMMA FetchMoves ==
  ASSUME TypeOK, Fetch, Width \in Nat
  PROVE  /\ ~IsShort
         /\ position' \in Usize
         /\ position' # MaxUsize => position' = position + Width
         /\ UNCHANGED source
<1>1. /\ position \in Nat /\ m_Size \in Nat /\ position \in Usize /\ m_Size \in Usize
      /\ MaxUsize \in Usize /\ MaxUsize \in Nat
  BY WordType DEF TypeOK
<1>2. position < m_Size /\ m_Size - position >= Width
  BY <1>1 DEF Fetch, CanRead, IsAtEnd
<1>3. m_Size <= MaxUsize
  BY <1>1 DEF Usize, MaxUsize
<1>4. position + Width \in Usize
  <2>1. position + Width \in Nat /\ position + Width <= m_Size
    BY <1>1, <1>2
  <2>2. position + Width <= MaxUsize
    BY <1>1, <1>3, <2>1
  <2> QED BY <2>1, <2>2, WordType DEF Usize, MaxUsize
<1> QED BY <1>1, <1>2, <1>3, <1>4 DEF Fetch, IsShort

LEMMA WidthType == ASSUME TypeOK PROVE Width \in Nat
BY DEF TypeOK, BlockType, Width, AddressWidth

LEMMA TypePreserved == TypeOK /\ [Next]_vars => TypeOK'
<1> SUFFICES ASSUME TypeOK, [Next]_vars PROVE TypeOK'
  OBVIOUS
<1> USE DEF TypeOK
<1>1. CASE ReadFails
  BY <1>1 DEF ReadFails, Finish, source, Phases, Errors
<1>2. CASE InvalidHeader
  BY <1>2, FetchMoves, WidthType DEF InvalidHeader, Finish, source, Phases, Errors
<1>3. CASE ReadHeaderField
  <2>1. phase' \in Phases
    BY <1>3 DEF ReadHeaderField, Following, Phases
  <2>2. header' \in [pointer : Pointers, endian : Endians]
    BY <1>3 DEF ReadHeaderField, Pointers, Endians
  <2> QED BY <1>3, <2>1, <2>2, FetchMoves, WidthType DEF ReadHeaderField, source
<1>4. CASE SetEndian
  BY <1>4 DEF SetEndian, source, Phases
<1>5. CASE ReadCode
  <2>1. phase' \in Phases
    BY <1>5 DEF ReadCode, Following, Phases
  <2>2. block' \in BlockType
    BY <1>5 DEF ReadCode, BlockType, Codes
  <2> QED BY <1>5, <2>1, <2>2, FetchMoves, WidthType DEF ReadCode, source
<1>6. CASE ReadLength
  <2>1. phase' \in Phases
    BY <1>6 DEF ReadLength, Following, Phases
  <2>2. PICK n \in WrittenLengths :
          /\ block' = [block EXCEPT !.length = Decoded(n)]
          /\ written' = Append(written, n)
    BY <1>6 DEF ReadLength
  <2>3. block' \in BlockType
    BY <2>2, DecodedType DEF BlockType
  <2>4. written' \in Seq(Nat)
    BY <2>2, WordType
  <2> QED BY <1>6, <2>1, <2>3, <2>4, FetchMoves, WidthType DEF ReadLength, source
<1>7. CASE ReadBlockField
  <2>1. phase' \in Phases
    BY <1>7 DEF ReadBlockField, Following, Phases
  <2> QED BY <1>7, <2>1, FetchMoves, WidthType DEF ReadBlockField, source
<1>8. CASE SkipBody
  BY <1>8 DEF SkipBody, PushBack, source, Phases
<1>9. CASE ReadBody
  <2>1. position \in Usize /\ position \in Nat /\ fileLen \in Nat /\ block.length \in Nat
    BY WordType DEF BlockType
  <2>2. block' \in BlockType
    <3> DEFINE got == IF IsWhole THEN block.length
                      ELSE IF position >= fileLen THEN 0 ELSE fileLen - position
    <3>1. got \in Nat
      BY <2>1
    <3>2. block' = [block EXCEPT !.body = [from |-> position, count |-> got]]
      BY <1>9 DEF ReadBody
    <3> HIDE DEF got
    <3> QED BY <2>1, <3>1, <3>2 DEF BlockType, Extents
  <2>3. blocks' \in Seq(BlockType) /\ phase' \in Phases
    BY <1>9, <2>2 DEF ReadBody, PushBack, Phases
  <2> QED BY <1>9, <2>2, <2>3, FetchMoves, WidthType DEF ReadBody, source
<1>10. CASE CheckExhausted
  BY <1>10 DEF CheckExhausted, Finish, source, Phases, Errors
<1>11. CASE Resize
  BY <1>11 DEF Resize
<1>12. CASE UNCHANGED vars
  BY <1>12 DEF vars, source
<1> QED
  BY <1>1, <1>2, <1>3, <1>4, <1>5, <1>6, <1>7, <1>8, <1>9, <1>10, <1>11, <1>12
     DEF Next, Step

-----------------------------------------------------------------------------
(* The part of BlocksTile that speaks of the blocks alone.                 *)
Tiled ==
  \A i \in 1 .. Len(blocks) :
    blocks[i].start = IF i = 1 THEN HeaderSize ELSE EndOf(blocks[i - 1])

LEMMA FrameTiled ==
  ASSUME UNCHANGED <<blocks, header>>
  PROVE  (Tiled <=> Tiled') /\ NextStart' = NextStart /\ BlockHeaderSize' = BlockHeaderSize
BY DEF Tiled, NextStart, EndOf, BlockHeaderSize, AddressWidth, HeaderSize

(* A block that begins where the next one is looked for goes on tiling.    *)
LEMMA PushTiled ==
  ASSUME TypeOK, Tiled, NEW b \in BlockType, b.start = NextStart,
         blocks' = Append(blocks, b), header' = header
  PROVE  Tiled' /\ NextStart' = b.start + BlockHeaderSize + b.length
<1>1. /\ Len(blocks) \in Nat
      /\ Len(blocks') = Len(blocks) + 1
      /\ blocks'[Len(blocks')] = b
      /\ \A i \in 1 .. Len(blocks) : blocks'[i] = blocks[i]
  BY DEF TypeOK
<1>2. \A c : EndOf(c)' = EndOf(c)
  BY DEF EndOf, BlockHeaderSize, AddressWidth
<1>3. blocks' # <<>>
  BY <1>1
<1>4. NextStart' = EndOf(b)
  BY <1>1, <1>3 DEF NextStart, EndOf, BlockHeaderSize, AddressWidth
<1>5. ASSUME NEW i \in 1 .. Len(blocks')
      PROVE  blocks'[i].start = IF i = 1 THEN HeaderSize ELSE EndOf(blocks'[i - 1])
  <2>1. CASE i <= Len(blocks)
    <3>1. i \in 1 .. Len(blocks)
      BY <1>1, <2>1
    <3>2. i # 1 => i - 1 \in 1 .. Len(blocks)
      BY <1>1, <3>1
    <3> QED BY <1>1, <3>1, <3>2 DEF Tiled
  <2>2. CASE i = Len(blocks) + 1 /\ Len(blocks) = 0
    <3>1. blocks = <<>>
      BY <2>2 DEF TypeOK
    <3> QED BY <1>1, <2>2, <3>1 DEF NextStart
  <2>3. CASE i = Len(blocks) + 1 /\ Len(blocks) # 0
    <3>1. blocks # <<>> /\ i # 1 /\ i - 1 = Len(blocks) /\ i - 1 \in 1 .. Len(blocks)
      BY <1>1, <2>3
    <3> QED BY <1>1, <2>3, <3>1 DEF NextStart
  <2> QED BY <1>1, <2>1, <2>2, <2>3
<1>6. Tiled'
  BY <1>5 DEF Tiled, EndOf, BlockHeaderSize, AddressWidth, HeaderSize
<1> QED BY <1>4, <1>6 DEF EndOf

LEMMA TilePreserved == Placed /\ [Next]_vars => (BlocksTile /\ AtItsPlace)'
<1> SUFFICES ASSUME TypeOK, BlocksTile, AtItsPlace, [Next]_vars
             PROVE  (BlocksTile /\ AtItsPlace)'
  BY DEF Placed
<1>a. Tiled
  BY DEF BlocksTile, Tiled
<1>b. \* what is left to prove of the next state
      ASSUME Tiled',
             phase' \in {"code", "IsAtEnd"} /\ ~IsShort' => position' = NextStart',
             AtItsPlace'
      PROVE  (BlocksTile /\ AtItsPlace)'
  BY <1>b DEF BlocksTile, Tiled
<1>c. position \in Nat /\ block.length \in Nat /\ block.start \in Nat
  BY WordType DEF TypeOK, BlockType
<1>1. CASE ReadFails \/ InvalidHeader \/ CheckExhausted
  <2>1. phase' = "done" /\ UNCHANGED <<blocks, header>>
    BY <1>1 DEF ReadFails, InvalidHeader, CheckExhausted, Finish
  <2> QED BY <1>a, <1>b, <2>1, FrameTiled DEF AtItsPlace, HeaderPhases, BlockPhases
<1>2. CASE ReadHeaderField
  <2>1. blocks' = <<>> /\ phase' \in HeaderPhases /\ phase' = Following[phase]
    BY <1>2 DEF ReadHeaderField, AtItsPlace, HeaderPhases, Following
  <2>2. ~IsShort' => position' = HeaderOffset'
    BY <1>2, <2>1, <1>c, FetchMoves, WidthType
       DEF ReadHeaderField, AtItsPlace, HeaderPhases, HeaderOffset, Following, Width, IsShort
  <2> QED BY <1>b, <2>1, <2>2 DEF Tiled, AtItsPlace, HeaderPhases, BlockPhases
<1>3. CASE SetEndian
  <2>1. blocks = <<>> /\ phase' = "code" /\ UNCHANGED <<blocks, header, position>>
    BY <1>3 DEF SetEndian, AtItsPlace, HeaderPhases
  <2>2. ~IsShort' => position' = NextStart'
    BY <1>3, <2>1 DEF SetEndian, AtItsPlace, HeaderPhases, HeaderOffset, IsShort, NextStart,
                      HeaderSize
  <2> QED BY <1>a, <1>b, <2>1, <2>2, FrameTiled DEF AtItsPlace, HeaderPhases, BlockPhases
<1>4. CASE ReadCode
  <2>1. /\ phase = "code" /\ phase' = "length" /\ UNCHANGED <<blocks, header>>
        /\ block'.start = position
    BY <1>4 DEF ReadCode, Following, TypeOK, BlockType
  <2>2. ~IsShort /\ position = NextStart /\ (~IsShort' => position' = position + 4)
    BY <1>4, <2>1, FetchMoves, WidthType DEF ReadCode, BlocksTile, Width, IsShort
  <2> QED BY <1>a, <1>b, <1>c, <2>1, <2>2, FrameTiled
          DEF AtItsPlace, HeaderPhases, BlockPhases, Offset
<1>5. CASE ReadLength \/ ReadBlockField
  <2>1. /\ phase \in BlockPhases \ {"body"} /\ phase' = Following[phase]
        /\ UNCHANGED <<blocks, header>> /\ block'.start = block.start
        /\ Fetch
    BY <1>5 DEF ReadLength, ReadBlockField, BlockPhases, TypeOK, BlockType
  <2>2. AddressWidth(header.pointer) \in Nat /\ AddressWidth(header'.pointer) = AddressWidth(header.pointer)
    BY <2>1 DEF AddressWidth
  <2>3. ~IsShort' => position' = position + Width
    BY <2>1, FetchMoves, WidthType DEF IsShort
  <2>4. ~IsShort /\ position = block.start + Offset
    BY <2>1, FetchMoves, WidthType DEF AtItsPlace
  <2>5. phase' \in BlockPhases /\ Offset' = Offset + Width
    BY <2>1, <2>2 DEF BlockPhases, Offset, Width, Following
  <2>6. Offset \in Nat /\ Width \in Nat
    BY <2>1, <2>2, WidthType DEF BlockPhases, Offset
  <2>7. ~IsShort' => position' = block'.start + Offset'
    BY <1>c, <2>1, <2>3, <2>4, <2>5, <2>6
  <2>8. block'.start = NextStart'
    BY <2>1, FrameTiled DEF AtItsPlace
  <2> QED BY <1>a, <1>b, <2>1, <2>5, <2>7, <2>8, FrameTiled
          DEF AtItsPlace, HeaderPhases, BlockPhases
<1>6. CASE SkipBody \/ ReadBody
  <2>1. PICK b \in BlockType :
          /\ PushBack(b) /\ b.start = block.start /\ b.length = block.length
    <3>1. CASE SkipBody
      BY <3>1 DEF SkipBody, TypeOK
    <3>2. CASE ReadBody
      <4>1. block' \in BlockType
        BY TypePreserved DEF TypeOK
      <4>2. block'.start = block.start /\ block'.length = block.length
        BY <3>2 DEF ReadBody, TypeOK, BlockType
      <4> QED BY <3>2, <4>1, <4>2 DEF ReadBody
    <3> QED BY <1>6, <3>1, <3>2
  <2>2. phase = "body" /\ header' = header /\ b.start = NextStart
    BY <1>6, <2>1 DEF SkipBody, ReadBody, AtItsPlace, BlockPhases
  <2>3. Tiled' /\ NextStart' = block.start + BlockHeaderSize + block.length
    BY <1>a, <2>1, <2>2, PushTiled DEF PushBack
  <2>4. phase' \in {"code", "IsAtEnd"}
    BY <2>1 DEF PushBack
  <2>5. Offset = BlockHeaderSize /\ BlockHeaderSize \in Nat
    BY <2>2 DEF Offset, BlockHeaderSize, AddressWidth
  <2>6. ~IsShort' => position' = NextStart'
    <3>1. CASE SkipBody
      BY <1>c, <2>2, <2>3, <2>5, <3>1 DEF SkipBody, AtItsPlace, BlockPhases, IsShort
    <3>2. CASE ReadBody
      <4>1. ~IsShort /\ (~IsShort' => position' = position + block.length)
        BY <2>2, <3>2, FetchMoves, WidthType DEF ReadBody, Width, IsShort
      <4> QED BY <1>c, <2>2, <2>3, <2>5, <4>1 DEF AtItsPlace, BlockPhases
    <3> QED BY <1>6, <3>1, <3>2
  <2> QED BY <1>b, <2>3, <2>4, <2>6 DEF AtItsPlace, HeaderPhases, BlockPhases
<1>7. CASE Resize \/ UNCHANGED vars
  <2>1. UNCHANGED <<position, phase, header, block, blocks>>
    BY <1>7 DEF Resize, vars
  <2> QED BY <2>1 DEF BlocksTile, AtItsPlace, EndOf, NextStart, BlockHeaderSize, AddressWidth,
                      HeaderSize, IsShort, Offset, HeaderOffset
<1> QED BY <1>1, <1>2, <1>3, <1>4, <1>5, <1>6, <1>7 DEF Next, Step

-----------------------------------------------------------------------------
(* Where the position and the pushed blocks stay in the source.            *)
LEMMA OffsetType == TypeOK /\ phase \in BlockPhases => Offset \in Nat
BY DEF BlockPhases, Offset, AddressWidth

LEMMA NextStartType == TypeOK => NextStart \in Nat
<1> SUFFICES ASSUME TypeOK PROVE NextStart \in Nat
  OBVIOUS
<1>1. BlockHeaderSize \in Nat
  BY DEF BlockHeaderSize, AddressWidth
<1>2. ASSUME NEW b \in BlockType PROVE EndOf(b) \in Nat
  <2>1. b.start \in Nat /\ b.length \in Nat
    BY WordType DEF BlockType
  <2> QED BY <1>1, <2>1 DEF EndOf
<1>3. blocks # <<>> => blocks[Len(blocks)] \in BlockType
  BY DEF TypeOK
<1> QED BY <1>2, <1>3 DEF NextStart, HeaderSize

(* A round of the loop ends with this block pushed, behind the others.     *)
LEMMA RoundEnds ==
  ASSUME Placed, SkipBody \/ ReadBody
  PROVE  \E b \in BlockType :
           /\ PushBack(b) /\ block' = b
           /\ b.start = block.start /\ b.length = block.length /\ b.code = block.code
           /\ phase = "body" /\ header' = header
           /\ Offset = BlockHeaderSize
           /\ NextStart' = block.start + BlockHeaderSize + block.length
           /\ b.length = 0 => b.body = block.body /\ UNCHANGED position
           /\ b.length # 0 =>
                /\ Fetch
                /\ b.body.from = position
                /\ b.body.count = b.length \/ ~IsWhole
<1>a. TypeOK /\ Tiled
  BY DEF Placed, BlocksTile, Tiled
<1>1. \E b \in BlockType :
           /\ PushBack(b) /\ block' = b
           /\ b.start = block.start /\ b.length = block.length /\ b.code = block.code
           /\ phase = "body" /\ header' = header
           /\ b.length = 0 => b.body = block.body /\ UNCHANGED position
           /\ b.length # 0 =>
                /\ Fetch
                /\ b.body.from = position
                /\ b.body.count = b.length \/ ~IsWhole
  <2>1. CASE SkipBody
    BY <1>a, <2>1 DEF SkipBody, TypeOK
  <2>2. CASE ReadBody
    <3>1. block' \in BlockType
      BY <1>a, TypePreserved, <2>2 DEF TypeOK, Next, Step
    <3>2. /\ block'.start = block.start /\ block'.length = block.length
          /\ block'.code = block.code /\ block'.body.from = position
          /\ block'.body.count = block.length \/ ~IsWhole
      <4> DEFINE got == IF IsWhole THEN block.length
                      ELSE IF position >= fileLen THEN 0 ELSE fileLen - position
      <4>1. block' = [block EXCEPT !.body = [from |-> position, count |-> got]]
        BY <2>2 DEF ReadBody
      <4>2. IsWhole => got = block.length
        OBVIOUS
      <4> HIDE DEF got
      <4> QED BY <1>a, <4>1, <4>2 DEF TypeOK, BlockType
    <3> QED BY <2>2, <3>1, <3>2 DEF ReadBody
  <2> QED BY <2>1, <2>2
<1>2. phase = "body" => Offset = BlockHeaderSize /\ block.start = NextStart
  BY DEF Offset, BlockHeaderSize, AddressWidth, Placed, AtItsPlace, BlockPhases
<1>3. ASSUME NEW b \in BlockType, PushBack(b), b.start = NextStart, header' = header
      PROVE  NextStart' = b.start + BlockHeaderSize + b.length
  BY <1>a, <1>3, PushTiled DEF PushBack
<1> QED BY <1>1, <1>2, <1>3

LEMMA SourcePreserved == Placed /\ InSource /\ [Next]_vars => InSource'
<1> SUFFICES ASSUME Placed, InSource, [Next]_vars PROVE InSource'
  OBVIOUS
<1>a. /\ TypeOK /\ Placed' /\ TypeOK' /\ m_Size \in Nat /\ MaxUsize \in Nat
      /\ Sizes \subseteq Nat /\ position \in Nat /\ NextStart \in Nat
  BY TypePreserved, TilePreserved, WordType, NextStartType DEF Placed, TypeOK
<1>b. ASSUME Fetch
      PROVE  /\ position + Width <= m_Size /\ ~IsShort /\ Width \in Nat
             /\ kind = "memory" => position' = position + Width /\ position' <= m_Size
             /\ UNCHANGED <<kind, m_Size, fileLen>>
  BY <1>a, <1>b, FetchMoves, WidthType
     DEF Fetch, CanRead, IsAtEnd, InSource, IsWhole, source
<1>1. kind = "memory" => (m_Size \in Sizes /\ fileLen = m_Size /\ position <= m_Size)'
  <2>1. CASE Fetch
    BY <1>a, <1>b, <2>1 DEF InSource
  <2>2. CASE UNCHANGED <<m_Size, fileLen, position>>
    BY <2>2 DEF InSource
  <2>3. CASE kind = "file"
    BY <2>3
  <2> QED BY <2>1, <2>2, <2>3
          DEF Next, Step, ReadFails, InvalidHeader, ReadHeaderField, SetEndian, ReadCode,
              ReadLength, ReadBlockField, SkipBody, ReadBody, CheckExhausted, Resize,
              source, vars
<1>2. kind' = kind /\ m_Size' = m_Size
  BY <1>b DEF Next, Step, ReadFails, InvalidHeader, ReadHeaderField, SetEndian, ReadCode,
              ReadLength, ReadBlockField, SkipBody, ReadBody, CheckExhausted, Resize,
              source, vars
<1>3. blocks' # <<>> => NextStart' <= m_Size'
  <2>1. CASE SkipBody \/ ReadBody
    <3>1. PICK b \in BlockType :
            /\ b.length = block.length /\ phase = "body" /\ Offset = BlockHeaderSize
            /\ NextStart' = block.start + BlockHeaderSize + block.length
            /\ b.length # 0 => Fetch
      BY <2>1, RoundEnds
    <3>2. block.start \in Nat /\ block.length \in Nat /\ Offset \in Nat
          /\ block.start + Offset <= m_Size
      BY <1>a, <3>1, OffsetType, WordType DEF InSource, BlockPhases, TypeOK, BlockType
    <3>3. CASE block.length = 0
      BY <1>2, <3>1, <3>2, <3>3
    <3>4. CASE block.length # 0
      <4>1. Width = block.length /\ position = block.start + Offset
        BY <1>b, <3>1, <3>4 DEF Width, Placed, AtItsPlace, BlockPhases
      <4> QED BY <1>2, <1>b, <3>1, <3>2, <3>4, <4>1
    <3> QED BY <3>3, <3>4
  <2>2. CASE UNCHANGED <<blocks, header>>
    BY <1>2, <2>2, FrameTiled DEF InSource
  <2>3. CASE ReadHeaderField
    BY <2>3 DEF ReadHeaderField, Placed, AtItsPlace, HeaderPhases
  <2> QED BY <2>1, <2>2, <2>3
          DEF Next, Step, ReadFails, InvalidHeader, SetEndian, ReadCode,
              ReadLength, ReadBlockField, CheckExhausted, Resize, vars
<1>4. phase' \in BlockPhases => block'.start + Offset' <= m_Size'
  <2>1. CASE ReadCode
    <3>1. /\ phase' = "length" /\ Offset' = 4 /\ block'.start = position /\ Width = 4
      BY <1>a, <2>1 DEF ReadCode, Following, Offset, TypeOK, BlockType, Width
    <3> QED BY <1>2, <1>b, <2>1, <3>1 DEF ReadCode
  <2>2. CASE ReadLength \/ ReadBlockField
    <3>1. /\ phase \in BlockPhases \ {"body"} /\ phase' = Following[phase]
          /\ header' = header /\ block'.start = block.start /\ Fetch
      BY <1>a, <2>2 DEF ReadLength, ReadBlockField, BlockPhases, TypeOK, BlockType
    <3>2. AddressWidth(header.pointer) \in Nat
          /\ AddressWidth(header'.pointer) = AddressWidth(header.pointer)
      BY <3>1 DEF AddressWidth
    <3>3. Offset' = Offset + Width
      BY <3>1, <3>2 DEF BlockPhases, Offset, Width, Following
    <3>4. position = block.start + Offset /\ block.start \in Nat /\ Offset \in Nat
      BY <1>a, <1>b, <3>1, OffsetType, WordType DEF Placed, AtItsPlace, TypeOK, BlockType
    <3> QED BY <1>2, <1>b, <3>1, <3>3, <3>4
  <2>3. CASE UNCHANGED <<phase, block, header>>
    BY <1>2, <2>3 DEF InSource, Offset
  <2>4. CASE phase' \notin BlockPhases
    BY <2>4
  <2> QED BY <2>1, <2>2, <2>3, <2>4
          DEF Next, Step, ReadFails, InvalidHeader, ReadHeaderField, SetEndian, Following,
              SkipBody, ReadBody, PushBack, CheckExhausted, Resize, vars, Finish, BlockPhases
<1> QED BY <1>1, <1>2, <1>3, <1>4 DEF InSource

-----------------------------------------------------------------------------
(***************************************************************************)
(* What is accepted.                                                       *)
(***************************************************************************)
LEMMA EndPreserved ==
  Placed /\ InSource /\ EndsOnce /\ AcceptedIsComplete /\ [Next]_vars
    => (EndsOnce /\ AcceptedIsComplete)'
<1> SUFFICES ASSUME Placed, InSource, EndsOnce, AcceptedIsComplete, [Next]_vars
             PROVE  (EndsOnce /\ AcceptedIsComplete)'
  OBVIOUS
<1>a. TypeOK /\ Len(blocks) \in Nat /\ NextStart \in Nat /\ m_Size \in Nat
      /\ position \in Nat /\ MaxUsize \in Nat
  <2>1. TypeOK /\ NextStart \in Nat
    BY NextStartType DEF Placed
  <2>2. Len(blocks) \in Nat
    BY <2>1 DEF TypeOK
  <2>3. m_Size \in Nat /\ position \in Nat /\ MaxUsize \in Nat
    BY <2>1, WordType DEF TypeOK
  <2> QED BY <2>1, <2>2, <2>3
<1>1. CASE ReadFails \/ InvalidHeader
  <2>1. phase # "done" /\ phase' = "done" /\ result' # "accepted"
    BY <1>1 DEF ReadFails, InvalidHeader, Finish, Reading
  <2> QED BY <2>1 DEF EndsOnce, AcceptedIsComplete
<1>2. CASE ReadHeaderField \/ SetEndian \/ ReadCode \/ ReadLength \/ ReadBlockField
  <2>1. /\ phase \notin {"IsAtEnd", "done"} /\ phase' \notin {"IsAtEnd", "done"}
        /\ blocks' = blocks /\ result' = result
    BY <1>2 DEF ReadHeaderField, SetEndian, ReadCode, ReadLength, ReadBlockField, Following
  <2> QED BY <2>1 DEF EndsOnce, AcceptedIsComplete
<1>3. CASE SkipBody \/ ReadBody
  <2>1. PICK b \in BlockType : PushBack(b)
    BY <1>3, RoundEnds
  <2>2. /\ Len(blocks') = Len(blocks) + 1
        /\ blocks'[Len(blocks')] = b
        /\ \A i \in 1 .. Len(blocks) : blocks'[i] = blocks[i] /\ blocks[i].code # "ENDB"
    BY <1>3, <1>a, <2>1 DEF PushBack, EndsOnce, SkipBody, ReadBody, TypeOK
  <2>3. blocks' # <<>>
    BY <1>a, <2>2
  <2>4. \A i \in 1 .. Len(blocks') : i \in 1 .. Len(blocks) \/ i = Len(blocks')
    BY <1>a, <2>2
  <2>5. \A i \in 1 .. Len(blocks) : i # Len(blocks')
    BY <1>a, <2>2
  <2>6. result' = "none"
    BY <1>3 DEF EndsOnce, SkipBody, ReadBody
  <2>7. CASE b.code = "ENDB"
    BY <2>1, <2>2, <2>3, <2>4, <2>5, <2>6, <2>7
       DEF PushBack, EndsOnce, Ended, AcceptedIsComplete
  <2>8. CASE b.code # "ENDB"
    BY <2>1, <2>2, <2>4, <2>6, <2>8 DEF PushBack, EndsOnce, AcceptedIsComplete
  <2> QED BY <2>7, <2>8
<1>4. CASE CheckExhausted
  <2>1. /\ phase = "IsAtEnd" /\ phase' = "done"
        /\ UNCHANGED <<kind, m_Size, position, header, blocks>>
    BY <1>4 DEF CheckExhausted, Finish, source
  <2>2. NextStart' = NextStart
    BY <2>1, FrameTiled
  <2>3. Ended
    BY <2>1 DEF EndsOnce
  <2>4. ASSUME result' = "accepted"
        PROVE  m_Size = NextStart \/ (kind = "file" /\ IsShort /\ m_Size >= NextStart)
    <3>1. position >= m_Size /\ NextStart <= m_Size
      BY <1>4, <2>1, <2>3, <2>4 DEF CheckExhausted, Finish, IsAtEnd, InSource, Ended
    <3>2. CASE ~IsShort
      <4>1. position = NextStart
        BY <2>1, <3>2 DEF Placed, BlocksTile
      <4> QED BY <1>a, <3>1, <4>1
    <3>3. CASE IsShort
      <4>1. kind = "file"
        BY <1>a, <3>3, SsizeAssumption, BlendFileAssumption
           DEF TypeOK, InSource, IsShort, MaxUsize, Modulus
      <4> QED BY <1>a, <3>1, <3>3, <4>1
    <3> QED BY <3>2, <3>3
  <2> QED BY <2>1, <2>2, <2>3, <2>4 DEF EndsOnce, AcceptedIsComplete, Ended, IsShort
<1>5. CASE Resize \/ UNCHANGED vars
  BY <1>5 DEF Resize, vars, source, EndsOnce, Ended, AcceptedIsComplete, NextStart, EndOf,
              BlockHeaderSize, AddressWidth, HeaderSize, IsShort
<1> QED BY <1>1, <1>2, <1>3, <1>4, <1>5 DEF Next, Step

-----------------------------------------------------------------------------
(***************************************************************************)
(* Lengths and byte order.                                                 *)
(***************************************************************************)
LEMMA LengthsPreserved ==
  Placed /\ LengthsKept /\ LengthsAreAsWritten /\ [Next]_vars
    => (LengthsKept /\ LengthsAreAsWritten)'
<1> SUFFICES ASSUME Placed, LengthsKept, LengthsAreAsWritten, [Next]_vars
             PROVE  (LengthsKept /\ LengthsAreAsWritten)'
  OBVIOUS
<1>a. TypeOK /\ Len(blocks) \in Nat /\ Len(written) \in Nat
  BY DEF Placed, TypeOK
<1>1. CASE ReadFails \/ InvalidHeader \/ CheckExhausted
  <2>1. phase' = "done" /\ UNCHANGED <<blocks, written>>
    BY <1>1 DEF ReadFails, InvalidHeader, CheckExhausted, Finish
  <2> QED BY <2>1 DEF LengthsKept, LengthsAreAsWritten, HeaderPhases, BlockPhases
<1>2. CASE ReadHeaderField \/ SetEndian
  <2>1. /\ phase \in HeaderPhases
        /\ phase' \in HeaderPhases \/ (phase' = "code" /\ m_Endian' = header'.endian)
        /\ UNCHANGED <<blocks, written>>
    BY <1>2 DEF ReadHeaderField, SetEndian, Following, HeaderPhases
  <2> QED BY <2>1 DEF LengthsKept, LengthsAreAsWritten, HeaderPhases, BlockPhases
<1>3. CASE ReadCode \/ ReadBlockField
  <2>1. \/ phase = "code" /\ phase' = "length"
        \/ phase \in BlockPhases \ {"length"} /\ phase' \in BlockPhases \ {"length"}
    BY <1>3 DEF ReadCode, ReadBlockField, Following, BlockPhases
  <2>2. UNCHANGED <<m_Endian, header, blocks, written>>
    BY <1>3 DEF ReadCode, ReadBlockField
  <2>3. phase # "code" => block'.length = block.length
    BY <1>3 DEF ReadCode, ReadBlockField
  <2> QED BY <2>1, <2>2, <2>3 DEF LengthsKept, LengthsAreAsWritten, HeaderPhases, BlockPhases
<1>4. CASE ReadLength
  <2>1. PICK n \in WrittenLengths :
          block' = [block EXCEPT !.length = Decoded(n)] /\ written' = Append(written, n)
    BY <1>4 DEF ReadLength
  <2>2. /\ phase = "length" /\ phase' = "address" /\ UNCHANGED <<m_Endian, header, blocks>>
    BY <1>4 DEF ReadLength, Following
  <2>3. block'.length = n
    BY <1>a, <2>1, <2>2 DEF Decoded, LengthsKept, HeaderPhases, TypeOK, BlockType
  <2>4. /\ Len(written') = Len(written) + 1 /\ written'[Len(written')] = n
        /\ \A i \in 1 .. Len(written) : written'[i] = written[i]
    BY <1>a, <2>1, WordType DEF TypeOK
  <2>5. Len(written) = Len(blocks)
    BY <2>2 DEF LengthsKept
  <2>6. LengthsKept'
    BY <1>a, <2>2, <2>3, <2>4, <2>5 DEF LengthsKept, HeaderPhases, BlockPhases
  <2>7. LengthsAreAsWritten'
    BY <2>2, <2>4, <2>5 DEF LengthsAreAsWritten
  <2> QED BY <2>6, <2>7
<1>5. CASE SkipBody \/ ReadBody
  <2>1. PICK b \in BlockType : PushBack(b) /\ b.length = block.length /\ phase = "body"
    BY <1>5, RoundEnds
  <2>2. UNCHANGED <<m_Endian, header, written>> /\ phase' \in {"code", "IsAtEnd"}
    BY <1>5, <2>1 DEF SkipBody, ReadBody, PushBack
  <2>3. /\ Len(blocks') = Len(blocks) + 1 /\ blocks'[Len(blocks')] = b
        /\ \A i \in 1 .. Len(blocks) : blocks'[i] = blocks[i]
    BY <1>a, <2>1 DEF PushBack, TypeOK
  <2>4. Len(written) = Len(blocks) + 1 /\ block.length = written[Len(written)]
    BY <2>1 DEF LengthsKept, BlockPhases
  <2>5. LengthsKept'
    BY <1>a, <2>1, <2>2, <2>3, <2>4 DEF LengthsKept, HeaderPhases, BlockPhases
  <2>6. LengthsAreAsWritten'
    <3>1. \A i \in 1 .. Len(blocks') : i \in 1 .. Len(blocks) \/ i = Len(blocks')
      BY <1>a, <2>3
    <3> QED BY <2>1, <2>2, <2>3, <2>4, <3>1 DEF LengthsAreAsWritten
  <2> QED BY <2>5, <2>6
<1>6. CASE Resize \/ UNCHANGED vars
  BY <1>6 DEF Resize, vars, LengthsKept, LengthsAreAsWritten
<1> QED BY <1>1, <1>2, <1>3, <1>4, <1>5, <1>6 DEF Next, Step

-----------------------------------------------------------------------------
(***************************************************************************)
(* Bodies.                                                                 *)
(***************************************************************************)
LEMMA BodiesPreserved ==
  Placed /\ InSource /\ BodiesKept /\ BodiesAreTheirBlocks /\ [Next]_vars
    => (BodiesKept /\ BodiesAreTheirBlocks)'
<1> SUFFICES ASSUME Placed, InSource, BodiesKept, BodiesAreTheirBlocks, [Next]_vars
             PROVE  (BodiesKept /\ BodiesAreTheirBlocks)'
  OBVIOUS
<1>a. TypeOK /\ TypeOK' /\ Len(blocks) \in Nat
  BY TypePreserved DEF Placed, TypeOK
<1>b. ASSUME UNCHANGED <<blocks, header, kind>>,
             UNCHANGED position \/ (~IsShort)
      PROVE  BodiesAreTheirBlocks'
  BY <1>b DEF BodiesAreTheirBlocks, BodiesKept, BlockHeaderSize, AddressWidth, IsShort
<1>1. CASE ReadFails \/ CheckExhausted \/ InvalidHeader
  <2>1. phase' = "done" /\ UNCHANGED <<blocks, header, kind>>
    BY <1>1, <1>a, FetchMoves, WidthType DEF ReadFails, CheckExhausted, InvalidHeader, Finish, source
  <2>2. UNCHANGED position \/ ~IsShort
    BY <1>1, <1>a, FetchMoves, WidthType DEF ReadFails, CheckExhausted, InvalidHeader
  <2> QED BY <1>b, <2>1, <2>2 DEF BodiesKept, IsShort
<1>2. CASE ReadHeaderField
  <2>1. blocks = <<>> /\ blocks' = <<>>
    BY <1>2 DEF ReadHeaderField, Placed, AtItsPlace, HeaderPhases
  <2> QED BY <2>1 DEF BodiesKept, BodiesAreTheirBlocks
<1>3. CASE SetEndian
  <2>1. phase' = "code" /\ phase = "SetEndian" /\ blocks = <<>> /\ UNCHANGED <<blocks, header, kind, position>>
    BY <1>3 DEF SetEndian, source, Placed, AtItsPlace, HeaderPhases
  <2> QED BY <1>b, <2>1 DEF BodiesKept
<1>4. CASE ReadCode \/ ReadLength \/ ReadBlockField
  <2>1. /\ phase # "done" /\ UNCHANGED <<blocks, header, kind>> /\ block'.body = block.body
        /\ ~IsShort
    BY <1>4, <1>a, FetchMoves, WidthType
       DEF ReadCode, ReadLength, ReadBlockField, TypeOK, BlockType, source
  <2> QED BY <1>b, <2>1 DEF BodiesKept
<1>5. CASE SkipBody \/ ReadBody
  <2>1. PICK b \in BlockType :
           /\ PushBack(b) /\ block' = b
           /\ b.start = block.start /\ b.length = block.length
           /\ phase = "body" /\ header' = header
           /\ Offset = BlockHeaderSize
           /\ b.length = 0 => b.body = block.body /\ UNCHANGED position
           /\ b.length # 0 =>
                /\ Fetch
                /\ b.body.from = position
                /\ b.body.count = b.length \/ ~IsWhole
    BY <1>5, RoundEnds
  <2>2. /\ Len(blocks') = Len(blocks) + 1 /\ blocks'[Len(blocks')] = b
        /\ \A i \in 1 .. Len(blocks) : blocks'[i] = blocks[i]
        /\ phase' \in {"code", "IsAtEnd"}
    BY <1>a, <2>1 DEF PushBack, TypeOK
  <2>3. \A i \in 1 .. Len(blocks) : blocks[i].length # 0 => blocks[i].body.count = blocks[i].length
    BY <2>1 DEF BodiesKept
  <2>4. b.length # 0 =>
          /\ b.body.from = b.start + BlockHeaderSize
          /\ b.body.count = b.length \/ (IsShort' /\ kind' = "file")
    <3>1. SUFFICES ASSUME b.length # 0 PROVE <2>4!2
      OBVIOUS
    <3>2. ~IsShort /\ position = block.start + Offset
      BY <1>a, <2>1, <3>1, FetchMoves, WidthType DEF Placed, AtItsPlace, BlockPhases
    <3>3. b.body.count # b.length => IsShort'
      BY <2>1, <3>1 DEF Fetch, IsShort
    <3>4. kind' = kind /\ (kind = "memory" => ~IsShort')
      <4>1. kind = "memory" => IsWhole
        <5>1. position \in Nat /\ m_Size \in Nat /\ Width \in Nat
          BY <1>a, WidthType, WordType DEF TypeOK
        <5> QED BY <2>1, <3>1, <5>1 DEF InSource, Fetch, CanRead, IsAtEnd, IsWhole
      <4>2. kind' = kind /\ (kind = "memory" => b.body.count = b.length)
        BY <2>1, <3>1, <4>1 DEF Fetch, source
      <4> QED BY <1>a, <2>1, <3>1, <4>1, <4>2, SourcePreserved, SsizeAssumption, BlendFileAssumption
              DEF InSource, IsShort, MaxUsize, Modulus, TypeOK
    <3>5. kind \in {"memory", "file"}
      BY <1>a DEF TypeOK
    <3> QED BY <2>1, <3>1, <3>2, <3>3, <3>4, <3>5
  <2>5. b.length = 0 /\ blocks # <<>> => b.body = blocks[Len(blocks)].body
    BY <2>1 DEF BodiesKept
  <2>6. BodiesKept'
    BY <1>a, <2>1, <2>2, <2>3, <2>4 DEF BodiesKept
  <2>7. ASSUME NEW i \in 1 .. Len(blocks')
        PROVE  IF blocks'[i].length = 0
               THEN i > 1 => blocks'[i].body = blocks'[i - 1].body
               ELSE /\ blocks'[i].body.from = blocks'[i].start + BlockHeaderSize
                    /\ \/ blocks'[i].body.count = blocks'[i].length
                       \/ i = Len(blocks') /\ IsShort' /\ kind' = "file"
    <3>1. CASE i \in 1 .. Len(blocks)
      <4>1. i > 1 => i - 1 \in 1 .. Len(blocks)
        BY <1>a, <3>1
      <4> QED BY <2>2, <2>3, <3>1, <4>1 DEF BodiesAreTheirBlocks
    <3>2. CASE i = Len(blocks')
      <4>1. i > 1 => i - 1 = Len(blocks) /\ i - 1 \in 1 .. Len(blocks) /\ blocks # <<>>
        BY <1>a, <2>2, <3>2
      <4> QED BY <2>2, <2>4, <2>5, <3>2, <4>1
    <3> QED BY <1>a, <2>2, <3>1, <3>2
  <2>8. BlockHeaderSize' = BlockHeaderSize
    BY <2>1 DEF BlockHeaderSize, AddressWidth
  <2> QED BY <2>6, <2>7, <2>8 DEF BodiesAreTheirBlocks
<1>6. CASE Resize \/ UNCHANGED vars
  <2>1. UNCHANGED <<phase, blocks, block, header, kind, position>>
    BY <1>6 DEF Resize, vars, source
  <2> QED BY <1>b, <2>1 DEF BodiesKept, IsShort
<1> QED BY <1>1, <1>2, <1>3, <1>4, <1>5, <1>6 DEF Next, Step

-----------------------------------------------------------------------------
(***************************************************************************)
(* The theorems.                                                           *)
(***************************************************************************)
LEMMA InitIInv == Init => IInv
<1> SUFFICES ASSUME Init PROVE IInv
  OBVIOUS
<1>1. /\ blocks = <<>> /\ written = <<>> /\ Len(blocks) = 0 /\ Len(written) = 0
      /\ phase = "magic" /\ result = "none" /\ 0 \in Usize
      /\ position = 0 \/ position = MaxUsize
  <2>1. 0 \in Usize
    BY SsizeAssumption DEF Usize, Modulus
  <2> QED BY <2>1 DEF Init
<1>2. TypeOK
  <2>1. block \in BlockType /\ header \in [pointer : Pointers, endian : Endians]
    BY <1>1 DEF Init, BlockType, Codes, Extents, Pointers, Endians
  <2>2. position \in Usize /\ m_Size \in Sizes \cup {MaxUsize} /\ fileLen \in Sizes
    BY <1>1, WordType DEF Init
  <2>3. blocks \in Seq(BlockType) /\ written \in Seq(Nat)
    BY <1>1
  <2> QED BY <1>1, <2>1, <2>2, <2>3 DEF Init, TypeOK, Endians, Phases
<1>3. BlocksTile /\ AtItsPlace
  BY <1>1 DEF BlocksTile, AtItsPlace, HeaderPhases, BlockPhases, HeaderOffset, IsShort
<1>4. InSource
  <2>1. kind = "memory" => m_Size \in Sizes /\ fileLen = m_Size /\ position = 0
    BY DEF Init
  <2>2. m_Size \in Nat
    BY <1>2, WordType DEF TypeOK
  <2> QED BY <1>1, <2>1, <2>2 DEF InSource, BlockPhases
<1>5. EndsOnce /\ AcceptedIsComplete
  BY <1>1 DEF EndsOnce, AcceptedIsComplete
<1>6. LengthsKept /\ LengthsAreAsWritten
  BY <1>1 DEF LengthsKept, LengthsAreAsWritten, HeaderPhases, BlockPhases
<1>7. BodiesKept /\ BodiesAreTheirBlocks
  BY <1>1 DEF BodiesKept, BodiesAreTheirBlocks
<1> QED BY <1>2, <1>3, <1>4, <1>5, <1>6, <1>7 DEF IInv, Placed

LEMMA InvariantIInv == Spec => []IInv
<1>1. IInv /\ [Next]_vars => IInv'
  BY TypePreserved, TilePreserved, SourcePreserved, EndPreserved, LengthsPreserved,
     BodiesPreserved DEF IInv, Placed
<1> QED BY InitIInv, <1>1, PTL DEF Spec

(* Every variable keeps its type while a source is taken apart.            *)
THEOREM TypeCorrect == Spec => []TypeOK
BY InvariantIInv, PTL DEF IInv, Placed

(* The blocks tile the source from the end of the file header on: ReadFile *)
(* never skips a byte nor reads one twice, for any source, any lengths,    *)
(* either pointer width and either byte order.                             *)
THEOREM BlocksAlwaysTile == Spec => []BlocksTile
BY InvariantIInv, PTL DEF IInv, Placed

(* Every body is the bytes behind its block's own header, and only the     *)
(* last thing read from a file that became shorter may be incomplete.      *)
THEOREM BodiesAlwaysTheirBlocks == Spec => []BodiesAreTheirBlocks
BY InvariantIInv, PTL DEF IInv

(* What ReadBlendData lets through to ReadSdna ends with its only ENDB     *)
(* block, and that block ends the source.                                  *)
THEOREM AcceptedAlwaysComplete == Spec => []AcceptedIsComplete
BY InvariantIInv, PTL DEF IInv

(* Every block length is the number its writer wrote, in either byte order *)
(* and for every radix that machine bytes may have.                        *)
THEOREM LengthsAlwaysAsWritten == Spec => []LengthsAreAsWritten
BY InvariantIInv, PTL DEF IInv

-----------------------------------------------------------------------------
(* Only the read of a phase that fails, and the check for the end, have    *)
(* something to say; both say it from where InSource puts the position.    *)
LEMMA StepIsTruthful ==
  ASSUME IInv, [Next]_vars, result = "none", vars' # vars
  PROVE  /\ kind = "memory" /\ result' = "UnexpectedEndOfFile" => position + Width > m_Size
         /\ result' = "FileNotExhausted" => NextStart < m_Size
<1>1. /\ position \in Nat /\ m_Size \in Nat /\ Width \in Nat /\ NextStart \in Nat
      /\ m_Size <= MaxUsize /\ MaxUsize \in Nat
  <2>1. position \in Nat /\ m_Size \in Nat /\ Width \in Nat /\ NextStart \in Nat
    BY WidthType, WordType, NextStartType DEF IInv, Placed, TypeOK
  <2>2. m_Size <= MaxUsize /\ MaxUsize \in Nat
    <3>1. m_Size \in Sizes \cup {MaxUsize}
      BY DEF IInv, Placed, TypeOK
    <3> QED BY <3>1, SsizeAssumption, BlendFileAssumption DEF MaxUsize, Modulus
  <2> QED BY <2>1, <2>2
<1>2. CASE ReadFails
  <2>1. /\ result' = "UnexpectedEndOfFile"
        /\ kind = "memory" => ~CanRead(position, m_Size, Width)
    BY <1>2 DEF ReadFails, Finish
  <2>2. Width > 0
    <3>1. phase = "body" => block.length \in Nat \ {0}
      BY <1>2 DEF ReadFails, IInv, Placed, TypeOK, BlockType
    <3> QED BY <3>1 DEF Width, AddressWidth
  <2>3. kind = "memory" => position + Width > m_Size
    BY <1>1, <2>1, <2>2 DEF CanRead, IsAtEnd
  <2> QED BY <2>1, <2>3
<1>3. CASE CheckExhausted
  <2>1. phase = "IsAtEnd" /\ result' \in {"accepted", "FileNotExhausted"}
        /\ (result' = "FileNotExhausted" => ~IsAtEnd(position, m_Size))
    BY <1>3 DEF CheckExhausted, Finish
  <2>2. position = MaxUsize \/ position = NextStart
    BY <2>1 DEF IInv, Placed, BlocksTile, IsShort
  <2> QED BY <1>1, <2>1, <2>2 DEF IsAtEnd
<1>4. CASE InvalidHeader
  BY <1>4 DEF InvalidHeader, Finish
<1>5. CASE UNCHANGED result
  BY <1>5
<1> QED
  BY <1>2, <1>3, <1>4, <1>5
     DEF Next, Step, ReadHeaderField, SetEndian, ReadCode, ReadLength, ReadBlockField,
         SkipBody, ReadBody, Resize, vars

(* Memory is refused for a reason: the item that was to be read does not   *)
(* fit into what is left of it.  And it or a file is said not to be        *)
(* exhausted only if bytes lie behind its ENDB block, by the length that   *)
(* it had when it was opened.                                              *)
THEOREM ErrorsAlwaysTruthful == Spec => ErrorsAreTruthful
<1>1. IInv /\ [Next]_vars =>
        [result = "none" =>
           /\ kind = "memory" /\ result' = "UnexpectedEndOfFile" => position + Width > m_Size
           /\ result' = "FileNotExhausted" => NextStart < m_Size]_vars
  BY StepIsTruthful
<1> QED BY InvariantIInv, <1>1, PTL DEF Spec, ErrorsAreTruthful
=============================================================================
