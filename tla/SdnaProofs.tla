----------------------------- MODULE SdnaProofs -----------------------------
(***************************************************************************)
(* ReadSdna for every body and every word size, and however many names,    *)
(* types, structs and fields there are: the four tables lie one behind the *)
(* other in the body, and what is accepted is what was written, as it is   *)
(* read in the native byte order.                                          *)
(***************************************************************************)
EXTENDS Sdna, SequenceTheorems, TLAPS

(***************************************************************************)
(* The inductive invariant.  While the body is read, the position follows  *)
(* from the section, the part of it that is next and the entries that have *)
(* been read; tables that have not been come to are empty; and each count  *)
(* is the one that was written for its table, as it was read.              *)
(***************************************************************************)
Structs == [from : Usize, field_count : Nat, fields : Seq(Usize)]

Headed == section \in {"DNA1", "SDNA"}

(* Where each table ends as far as it has been read.                       *)
NamesEnd   == IF field_names = <<>> THEN NamesAt ELSE EndOf(Last(field_names))
TypesEnd   == IF type_names = <<>> THEN TypesAt ELSE EndOf(Last(type_names))
LengthsEnd == LengthsAt + 2 * Len(type_lengths)
StructsEnd == IF structs = <<>> THEN StructsAt
              ELSE Last(structs).from + 4 + 4 * Last(structs).field_count

(* The parts that the sections have.                                       *)
InParts ==
  /\ section # "" /\ result = "none"
  /\ Headed => at = "code"
  /\ section \in {"NAME", "TYPE"} => at \in {"code", "count", "entries", "align"}
  /\ section = "TLEN" => at \in {"code", "entries", "align"}
  /\ section = "STRC" => at \in {"code", "count", "entries", "fields"}
  /\ at = "fields" => structs # <<>>

(* Whether the entries of a table have been come to.                       *)
NamesBegun   == ~Headed /\ (section = "NAME" => at \notin {"code", "count"})
TypesBegun   == section \in {"TYPE", "TLEN", "STRC"} /\ (section = "TYPE" => at \notin {"code", "count"})
LengthsBegun == section \in {"TLEN", "STRC"} /\ (section = "TLEN" => at # "code")
StructsBegun == section = "STRC" /\ at \notin {"code", "count"}

Untouched ==
  /\ ~NamesBegun => field_names = <<>>
  /\ ~TypesBegun => type_names = <<>>
  /\ ~LengthsBegun => type_lengths = <<>>
  /\ ~StructsBegun => structs = <<>>

Placed ==
  /\ Headed => position = 0
  /\ section = "NAME" =>
       position = IF at = "code" THEN 4 ELSE IF at = "count" THEN 8 ELSE NamesEnd
  /\ section = "TYPE" =>
       position = IF at = "code" THEN TypesAt - 8 ELSE IF at = "count" THEN TypesAt - 4
                  ELSE TypesEnd
  /\ section = "TLEN" => position = IF at = "code" THEN LengthsAt - 4 ELSE LengthsEnd
  /\ section = "STRC" =>
       position = IF at = "code" THEN StructsAt - 8 ELSE IF at = "count" THEN StructsAt - 4
                  ELSE IF at = "fields"
                  THEN Last(structs).from + 4 + 4 * Len(Last(structs).fields)
                  ELSE StructsEnd

(* A table that is read has no more entries than its count says, and one   *)
(* that has been read has as many.                                         *)
Filled(here, entries, declared) ==
  IF section = here
  THEN count = declared /\ entries <= declared /\ (at = "align" => entries = declared)
  ELSE entries = declared

Heads == IF StructsBegun THEN 3 ELSE IF TypesBegun THEN 2 ELSE IF NamesBegun THEN 1 ELSE 0

Counted ==
  /\ Len(written) = Heads + Len(structs)
  /\ NamesBegun => Filled("NAME", Len(field_names), Decoded(written[1]))
  /\ TypesBegun => Filled("TYPE", Len(type_names), Decoded(written[2]))
  /\ LengthsBegun => Filled("TLEN", Len(type_lengths), Len(type_names))
  /\ StructsBegun => Filled("STRC", Len(structs), Decoded(written[3]))
  /\ \A i \in DOMAIN structs :
       /\ structs[i].field_count = DecodedShort(written[3 + i])
       /\ Len(structs[i].fields) <= structs[i].field_count
       /\ i < Len(structs) \/ at # "fields" => Len(structs[i].fields) = structs[i].field_count

(* Every entry has taken at least one byte of the body, and the first tag  *)
(* four.                                                                   *)
Spaced ==
  /\ Headed \/ 4 <= position
  /\ Len(field_names) <= position
  /\ Len(type_names) <= position
  /\ Len(structs) <= position
  /\ \A i \in DOMAIN structs : Len(structs[i].fields) <= position

Reading == InParts /\ Untouched /\ Placed /\ Counted /\ Spaced

IInv == TypeOK /\ TablesTile /\ AcceptedIsAsWritten /\ (at # "done" => Reading)

-----------------------------------------------------------------------------
(* What the invariant says of the numbers it is about.                     *)
LEMMA Numbers ==
  ASSUME TypeOK
  PROVE  /\ m_Size \in Nat /\ m_Size < SsizeLimit /\ SsizeLimit \in Nat
         /\ position \in Nat /\ position <= m_Size /\ position \in Usize
         /\ Len(field_names) \in Nat /\ Len(type_names) \in Nat
         /\ Len(type_lengths) \in Nat /\ Len(structs) \in Nat /\ Len(written) \in Nat
<1>1. m_Size \in 0 .. SsizeLimit - 1 /\ SsizeLimit \in Nat /\ position \in 0 .. m_Size
  BY SdnaAssumption, SsizeAssumption DEF TypeOK
<1>2. /\ Len(field_names) \in Nat /\ Len(type_names) \in Nat
      /\ Len(type_lengths) \in Nat /\ Len(structs) \in Nat /\ Len(written) \in Nat
  BY LenProperties DEF TypeOK
<1> QED BY <1>1, <1>2 DEF Usize, Modulus

LEMMA SectionIsOne ==
  ASSUME TypeOK
  PROVE  section \in {"", "DNA1", "SDNA", "NAME", "TYPE", "TLEN", "STRC"}
<1>1. DOMAIN Sections = 1 .. 5
  BY DEF Sections
<1>2. \A i \in 1 .. 5 : Sections[i] \in {"SDNA", "NAME", "TYPE", "TLEN", "STRC"}
  BY DEF Sections
<1>3. Range(Sections) \subseteq {"SDNA", "NAME", "TYPE", "TLEN", "STRC"}
  BY <1>1, <1>2 DEF Range
<1> QED BY <1>3 DEF TypeOK

LEMMA LastIsIn ==
  ASSUME NEW S, NEW s \in Seq(S), s # <<>>
  PROVE  Last(s) \in S /\ Len(s) \in Nat \ {0}
BY LenProperties, EmptySeq, ElementOfSeq DEF Last

LEMMA PadType ==
  ASSUME NEW n \in Nat
  PROVE  Pad(n) \in Nat /\ n <= Pad(n)
BY DEF Pad

LEMMA UsizeIsNat == Usize \subseteq Nat
BY SsizeAssumption DEF Usize, Modulus

(* Where the tables begin and end.                                         *)
LEMMA Places ==
  ASSUME TypeOK
  PROVE  /\ NamesAt \in Nat /\ NamesEnd \in Nat
         /\ TypesAt \in Nat /\ TypesEnd \in Nat /\ TypesAt = Pad(NamesEnd) + 8
         /\ LengthsAt \in Nat /\ LengthsEnd \in Nat /\ LengthsAt = Pad(TypesEnd) + 4
         /\ StructsAt \in Nat /\ StructsEnd \in Nat /\ StructsAt = Pad(LengthsEnd) + 8
         /\ NamesEnd <= TypesAt - 8
         /\ TypesEnd <= LengthsAt - 4
         /\ LengthsEnd <= StructsAt - 8
<1>1. \A s \in Seq(Runs) : s # <<>> => EndOf(Last(s)) \in Nat
  <2> TAKE s \in Seq(Runs)
  <2> HAVE s # <<>>
  <2>1. Last(s) \in Runs
    BY LastIsIn
  <2>2. Last(s).from \in Nat /\ Last(s).count \in Nat
    BY <2>1, UsizeIsNat DEF Runs
  <2> QED BY <2>2 DEF EndOf
<1>2. NamesAt \in Nat /\ NamesEnd \in Nat
  BY <1>1 DEF NamesAt, NamesEnd, TypeOK
<1>3. TypesAt = Pad(NamesEnd) + 8 /\ TypesAt \in Nat /\ NamesEnd <= TypesAt - 8
  BY <1>2, PadType DEF TypesAt, NamesEnd
<1>4. TypesEnd \in Nat
  BY <1>1, <1>3 DEF TypesEnd, TypeOK
<1>5. LengthsAt = Pad(TypesEnd) + 4 /\ LengthsAt \in Nat /\ TypesEnd <= LengthsAt - 4
  BY <1>4, PadType DEF LengthsAt, TypesEnd
<1>6. LengthsEnd \in Nat
  BY <1>5, Numbers DEF LengthsEnd
<1>7. StructsAt = Pad(LengthsEnd) + 8 /\ StructsAt \in Nat /\ LengthsEnd <= StructsAt - 8
  <2>1. StructsAt = Pad(LengthsEnd) + 8
    BY DEF StructsAt, LengthsEnd
  <2> QED BY <1>6, <2>1, PadType
<1>8. StructsEnd \in Nat
  <2>1. structs # <<>> => Last(structs) \in Structs
    BY LastIsIn DEF TypeOK, Structs
  <2>2. structs # <<>> => Last(structs).from \in Nat /\ Last(structs).field_count \in Nat
    BY <2>1, UsizeIsNat DEF Structs
  <2> QED BY <1>7, <2>2 DEF StructsEnd
<1> QED BY <1>2, <1>3, <1>4, <1>5, <1>6, <1>7, <1>8

(* Align goes to the place where the next section begins, and does not     *)
(* wrap on the way there.                                                  *)
LEMMA AlignPads ==
  ASSUME NEW n \in Nat, 4 <= n, n < SsizeLimit
  PROVE  AlignTarget(n, 4) = Pad(n)
<1>1. SsizeLimit \in Nat
  BY SsizeAssumption
<1>2. CASE n % 4 = 0
  BY <1>1, <1>2 DEF AlignTarget, ToUsize, Modulus, Pad
<1>3. CASE n % 4 # 0
  BY <1>1, <1>3 DEF AlignTarget, ToUsize, Modulus, Pad
<1> QED BY <1>2, <1>3

(* The bytes of a count, and what they make from the other end.            *)
LEMMA BytesType ==
  ASSUME NEW n \in Nat
  PROVE  /\ Bytes(n) \in [1 .. 4 -> 0 .. Radix - 1] /\ Len(Bytes(n)) = 4
         /\ ShortBytes(n) \in [1 .. 2 -> 0 .. Radix - 1] /\ Len(ShortBytes(n)) = 2
<1>1. \A m \in Nat : m \div Radix \in Nat /\ m % Radix \in 0 .. Radix - 1
  BY SdnaAssumption
<1> QED BY <1>1 DEF Bytes, ShortBytes

LEMMA ReverseFour ==
  ASSUME NEW b, NEW S, b \in [1 .. 4 -> S], Len(b) = 4
  PROVE  Reverse(b) = <<b[4], b[3], b[2], b[1]>>
BY DEF Reverse

LEMMA ReverseTwo ==
  ASSUME NEW b, NEW S, b \in [1 .. 2 -> S], Len(b) = 2
  PROVE  Reverse(b) = <<b[2], b[1]>>
BY DEF Reverse

(* The lowest byte of a number, and the others.                            *)
LEMMA LowestByte ==
  ASSUME NEW q \in Nat, NEW d \in 0 .. Radix - 1
  PROVE  /\ q * Radix + d \in Nat
         /\ (q * Radix + d) % Radix = d
         /\ (q * Radix + d) \div Radix = q
<1> DEFINE n == q * Radix + d
           e == n % Radix
           r == n \div Radix
<1>1. Radix \in Nat \ {0, 1} /\ d \in Nat /\ d < Radix
  BY SdnaAssumption
<1>2. n \in Nat
  BY <1>1
<1>3. n = Radix * r + e /\ r \in Nat /\ e \in 0 .. Radix - 1
  BY <1>1, <1>2
<1>4. e - d = Radix * (q - r)
  BY <1>1, <1>3
<1> HIDE DEF n, e, r
<1>5. e - d < Radix /\ d - e < Radix
  BY <1>1, <1>3
<1>6. q - r >= 1 => Radix * (q - r) >= Radix
  BY <1>1, <1>3
<1>7. r - q >= 1 => Radix * (r - q) >= Radix
  BY <1>1, <1>3
<1>8. Radix * (r - q) = d - e
  BY <1>1, <1>3, <1>4
<1>9. q = r
  BY <1>1, <1>3, <1>4, <1>5, <1>6, <1>7, <1>8
<1>10. e = d
  BY <1>1, <1>3, <1>4, <1>9
<1> QED BY <1>2, <1>9, <1>10 DEF n, e, r

LEMMA NumberHasBytes ==
  ASSUME NEW b \in [1 .. 4 -> 0 .. Radix - 1], b = <<b[1], b[2], b[3], b[4]>>
  PROVE  Number(b) \in Nat /\ Bytes(Number(b)) = b
<1> DEFINE high   == b[4]
           higher == high * Radix + b[3]
           middle == higher * Radix + b[2]
           all    == middle * Radix + b[1]
<1>1. b[1] \in 0 .. Radix - 1 /\ b[2] \in 0 .. Radix - 1
      /\ b[3] \in 0 .. Radix - 1 /\ b[4] \in 0 .. Radix - 1
  OBVIOUS
<1>2. high \in Nat /\ high % Radix = high
  BY <1>1, SdnaAssumption
<1> HIDE DEF high
<1>3. higher \in Nat /\ higher % Radix = b[3] /\ higher \div Radix = high
  BY <1>1, <1>2, LowestByte
<1> HIDE DEF higher
<1>4. middle \in Nat /\ middle % Radix = b[2] /\ middle \div Radix = higher
  BY <1>1, <1>3, LowestByte
<1> HIDE DEF middle
<1>5. all \in Nat /\ all % Radix = b[1] /\ all \div Radix = middle
  BY <1>1, <1>4, LowestByte
<1>6. Number(b) = all
  BY DEF Number, high, higher, middle
<1> HIDE DEF all
<1>7. Bytes(all) = <<b[1], b[2], b[3], b[4]>>
  BY <1>2, <1>3, <1>4, <1>5 DEF Bytes, high
<1> QED BY <1>5, <1>6, <1>7

LEMMA ShortNumberHasBytes ==
  ASSUME NEW b \in [1 .. 2 -> 0 .. Radix - 1], b = <<b[1], b[2]>>
  PROVE  ShortNumber(b) \in Nat /\ ShortBytes(ShortNumber(b)) = b
<1>1. b[1] \in 0 .. Radix - 1 /\ b[2] \in 0 .. Radix - 1
  OBVIOUS
<1>2. b[2] \in Nat /\ b[2] % Radix = b[2]
  BY <1>1, SdnaAssumption
<1> DEFINE all == b[2] * Radix + b[1]
<1>3. all \in Nat /\ all % Radix = b[1] /\ all \div Radix = b[2]
  BY <1>1, <1>2, LowestByte
<1>4. ShortNumber(b) = all
  BY DEF ShortNumber
<1> HIDE DEF all
<1>5. ShortBytes(all) = <<b[1], b[2]>>
  BY <1>2, <1>3 DEF ShortBytes
<1> QED BY <1>3, <1>4, <1>5

(* A count turned around has the bytes of the count backwards.             *)
LEMMA SwapTurnsAround ==
  ASSUME NEW n \in Nat
  PROVE  /\ ByteSwap(n) \in Nat /\ Bytes(ByteSwap(n)) = Reverse(Bytes(n))
         /\ ByteSwapShort(n) \in Nat /\ ShortBytes(ByteSwapShort(n)) = Reverse(ShortBytes(n))
<1> DEFINE b == Bytes(n)
           s == ShortBytes(n)
           B == Reverse(b)
           S == Reverse(s)
<1>1. b \in [1 .. 4 -> 0 .. Radix - 1] /\ Len(b) = 4
  BY BytesType
<1>2. s \in [1 .. 2 -> 0 .. Radix - 1] /\ Len(s) = 2
  BY BytesType
<1> HIDE DEF b, s
<1>3. B = <<b[4], b[3], b[2], b[1]>>
  BY <1>1, ReverseFour
<1>4. S = <<s[2], s[1]>>
  BY <1>2, ReverseTwo
<1> HIDE DEF B, S
<1>5. B \in [1 .. 4 -> 0 .. Radix - 1] /\ B = <<B[1], B[2], B[3], B[4]>>
  BY <1>1, <1>3
<1>6. S \in [1 .. 2 -> 0 .. Radix - 1] /\ S = <<S[1], S[2]>>
  BY <1>2, <1>4
<1>7. Number(B) \in Nat /\ Bytes(Number(B)) = B
  BY <1>5, NumberHasBytes
<1>8. ShortNumber(S) \in Nat /\ ShortBytes(ShortNumber(S)) = S
  BY <1>6, ShortNumberHasBytes
<1> QED BY <1>7, <1>8 DEF ByteSwap, ByteSwapShort, b, s, B, S

LEMMA CountsAreNat == WrittenCounts \subseteq Nat
BY SdnaAssumption

LEMMA DecodedType ==
  ASSUME NEW n \in WrittenCounts
  PROVE  Decoded(n) \in Nat /\ DecodedShort(n) \in Nat
BY CountsAreNat, SwapTurnsAround DEF Decoded, DecodedShort

(* A step that leaves the tables alone.                                    *)
LEMMA SameTables ==
  ASSUME TablesTile, UNCHANGED lists
  PROVE  /\ TablesTile'
         /\ NamesEnd' = NamesEnd /\ TypesAt' = TypesAt /\ TypesEnd' = TypesEnd
         /\ LengthsAt' = LengthsAt /\ LengthsEnd' = LengthsEnd
         /\ StructsAt' = StructsAt /\ StructsEnd' = StructsEnd
<1> USE DEF lists
<1>1. NamesEnd' = NamesEnd /\ TypesAt' = TypesAt
  BY DEF NamesEnd, TypesAt
<1>2. TypesEnd' = TypesEnd /\ LengthsAt' = LengthsAt
  BY <1>1 DEF TypesEnd, LengthsAt
<1>3. LengthsEnd' = LengthsEnd /\ StructsAt' = StructsAt
  BY <1>2 DEF LengthsEnd, StructsAt
<1>4. StructsEnd' = StructsEnd
  BY <1>3 DEF StructsEnd
<1>5. TablesTile'
  BY <1>1, <1>2, <1>3 DEF TablesTile, StringsTile
<1> QED BY <1>1, <1>2, <1>3, <1>4, <1>5

(* What Fetch reads is there.                                              *)
LEMMA FetchFits ==
  ASSUME TypeOK, Fetch
  PROVE  position' = position + Width /\ position' \in 0 .. m_Size
         /\ Width \in {2, 4}
BY Numbers DEF Fetch, CanRead, IsAtEnd, Width

-----------------------------------------------------------------------------
(* The actions.  Those that leave the tables alone come first.             *)
LEMMA Refusal ==
  ASSUME IInv, at' = "done", result' \in Errors, position' \in 0 .. m_Size,
         UNCHANGED <<body, section, count, lists, written>>
  PROVE  IInv'
<1>1. TypeOK'
  BY DEF IInv, TypeOK, body, lists
<1>2. TablesTile' /\ result' # "accepted"
  BY SameTables DEF IInv, Errors
<1> QED BY <1>1, <1>2 DEF IInv, AcceptedIsAsWritten

LEMMA FindBlockKeeps ==
  ASSUME IInv, FindBlock
  PROVE  IInv'
<1>1. CASE section' = "SDNA" /\ UNCHANGED <<at, result>>
  <2>1. section = "DNA1" /\ at = "code" /\ UNCHANGED <<body, position, count, lists, written>>
    BY DEF FindBlock
  <2>2. TypeOK'
    BY <1>1, <2>1 DEF IInv, TypeOK, body, lists, Sections, Range
  <2>3. TablesTile' /\ AcceptedIsAsWritten'
    BY <1>1, <2>1, SameTables DEF IInv, Reading, InParts, AcceptedIsAsWritten
  <2>4. Reading'
    BY <1>1, <2>1 DEF IInv, Reading, InParts, Untouched, Placed, Counted, Spaced, Headed, lists,
      NamesBegun, TypesBegun, LengthsBegun, StructsBegun, Heads
  <2> QED BY <2>2, <2>3, <2>4 DEF IInv
<1>2. CASE Finish("SdnaNotFound") /\ UNCHANGED section
  BY <1>2, Refusal DEF FindBlock, Finish, Errors, IInv, TypeOK
<1> QED BY <1>1, <1>2 DEF FindBlock

LEMMA ReadFailsKeeps ==
  ASSUME IInv, ReadFails
  PROVE  IInv'
BY Refusal DEF ReadFails, Finish, Errors, IInv, TypeOK

LEMMA ReadCodeKeeps ==
  ASSUME IInv, ReadCode
  PROVE  IInv'
<1>1. /\ section # "DNA1" /\ at = "code" /\ Reading
      /\ UNCHANGED <<body, lists, written>> /\ Width = 4
      /\ position' = position + 4 /\ position' \in 0 .. m_Size /\ position \in Nat
  BY FetchFits, Numbers DEF ReadCode, IInv, Width
<1>2. TablesTile' /\ TypesAt' = TypesAt /\ LengthsAt' = LengthsAt /\ StructsAt' = StructsAt
      /\ LengthsEnd' = LengthsEnd
  BY <1>1, SameTables DEF IInv
<1>3. CASE section = "SDNA" /\ section' = "NAME" /\ UNCHANGED <<at, count, result>>
  <2>1. TypeOK'
    BY <1>1, <1>3 DEF IInv, TypeOK, body, lists, Sections, Range
  <2>2. InParts' /\ Untouched' /\ AcceptedIsAsWritten'
    BY <1>1, <1>3 DEF Reading, InParts, Untouched, Headed, lists, AcceptedIsAsWritten,
      NamesBegun, TypesBegun, LengthsBegun, StructsBegun
  <2>3. Placed'
    BY <1>1, <1>3 DEF Reading, Placed, Headed
  <2>4. Counted' /\ Spaced'
    BY <1>1, <1>3 DEF Reading, Untouched, Counted, Spaced, Headed, lists,
      NamesBegun, TypesBegun, LengthsBegun, StructsBegun, Heads
  <2> QED BY <1>2, <2>1, <2>2, <2>3, <2>4 DEF IInv, Reading
<1>4. CASE section = "TLEN" /\ at' = "entries" /\ count' = Len(type_names) /\ UNCHANGED <<section, result>>
  <2>1. TypeOK'
    BY <1>1, <1>4, Numbers DEF IInv, TypeOK, body, lists
  <2>2. InParts' /\ Untouched' /\ AcceptedIsAsWritten'
    BY <1>1, <1>4 DEF Reading, InParts, Untouched, Headed, lists, AcceptedIsAsWritten,
      NamesBegun, TypesBegun, LengthsBegun, StructsBegun
  <2>3. Placed'
    BY <1>1, <1>2, <1>4, Places DEF IInv, Reading, Placed, Headed, Untouched, LengthsBegun, LengthsEnd
  <2>4. Counted'
    BY <1>1, <1>4 DEF Reading, Untouched, Counted, Filled, Headed, lists, Decoded, DecodedShort, body,
      NamesBegun, TypesBegun, LengthsBegun, StructsBegun, Heads
  <2>5. Spaced'
    BY <1>1, Numbers, LenProperties DEF IInv, Reading, Spaced, lists, Untouched, LengthsBegun
  <2> QED BY <1>2, <2>1, <2>2, <2>3, <2>4, <2>5 DEF IInv, Reading
<1>5. CASE section \notin {"SDNA", "TLEN"} /\ at' = "count" /\ UNCHANGED <<section, count, result>>
  <2>1. TypeOK'
    BY <1>1, <1>5, Numbers DEF IInv, TypeOK, body, lists
  <2>2. InParts' /\ Untouched' /\ AcceptedIsAsWritten'
    BY <1>1, <1>5 DEF Reading, InParts, Untouched, Headed, lists, AcceptedIsAsWritten,
      NamesBegun, TypesBegun, LengthsBegun, StructsBegun
  <2>3. Placed'
    BY <1>1, <1>2, <1>5, Places DEF IInv, Reading, Placed, Headed
  <2>4. Counted'
    BY <1>1, <1>5 DEF Reading, Untouched, Counted, Filled, Headed, lists, Decoded, DecodedShort, body,
      NamesBegun, TypesBegun, LengthsBegun, StructsBegun, Heads
  <2>5. Spaced'
    BY <1>1, Numbers, LenProperties DEF IInv, Reading, Spaced, lists, Untouched, StructsBegun
  <2> QED BY <1>2, <2>1, <2>2, <2>3, <2>4, <2>5 DEF IInv, Reading
<1>6. CASE Finish("InvalidSdnaHeader") /\ UNCHANGED <<section, count>>
  BY <1>1, <1>6, Refusal DEF Finish, Errors
<1> QED BY <1>3, <1>4, <1>5, <1>6 DEF ReadCode

LEMMA ReadCountKeeps ==
  ASSUME IInv, ReadCount
  PROVE  IInv'
<1>1. PICK n \in WrittenCounts : count' = Decoded(n) /\ written' = Append(written, n)
  BY DEF ReadCount
<1>2. /\ at = "count" /\ at' = "entries" /\ Reading /\ section \in {"NAME", "TYPE", "STRC"}
      /\ UNCHANGED <<body, section, lists, result>> /\ Width = 4
      /\ position' = position + 4 /\ position' \in 0 .. m_Size /\ position \in Nat
  BY FetchFits, Numbers, SectionIsOne DEF ReadCount, IInv, Width, Reading, InParts, Headed
<1>3. /\ written \in Seq(WrittenCounts) /\ written' \in Seq(WrittenCounts)
      /\ Len(written') = Len(written) + 1 /\ Len(written) \in Nat /\ written'[Len(written) + 1] = n
      /\ \A i \in 1 .. Len(written) : written'[i] = written[i]
  <2>1. written \in Seq(WrittenCounts)
    BY DEF IInv, TypeOK
  <2> QED BY <1>1, <2>1, AppendProperties, LenProperties
<1>4. count' \in Nat
  BY <1>1, DecodedType DEF IInv
<1>5. TypeOK'
  BY <1>2, <1>3, <1>4 DEF IInv, TypeOK, body, lists
<1>6. TablesTile' /\ TypesAt' = TypesAt /\ LengthsAt' = LengthsAt /\ StructsAt' = StructsAt
  BY <1>2, SameTables DEF IInv
<1>7. InParts' /\ Untouched' /\ AcceptedIsAsWritten'
  BY <1>2 DEF Reading, InParts, Untouched, Headed, lists, AcceptedIsAsWritten,
    NamesBegun, TypesBegun, LengthsBegun, StructsBegun
<1>8. Placed'
  BY <1>2, <1>6, Places DEF IInv, Reading, Placed, Headed, Untouched, lists, NamesBegun, TypesBegun,
    StructsBegun, NamesEnd, TypesEnd, StructsEnd, NamesAt
<1>9. Counted'
  <2>1. /\ Len(written) = Heads /\ Heads' = Heads + 1
        /\ section = "NAME" => Heads = 0
        /\ section = "TYPE" => Heads = 1
        /\ section = "STRC" => Heads = 2
    BY <1>2, EmptySeq DEF Reading, Counted, Untouched, Heads, Headed,
      NamesBegun, TypesBegun, LengthsBegun, StructsBegun
  <2>3. Decoded(written[1])' = Decoded(written'[1])
    BY <1>2 DEF Decoded, body
  <2>4. Decoded(written[2])' = Decoded(written'[2])
    BY <1>2 DEF Decoded, body
  <2>5. Decoded(written[3])' = Decoded(written'[3])
    BY <1>2 DEF Decoded, body
  <2>6. CASE section = "NAME"
    BY <1>1, <1>2, <1>3, <1>4, <2>1, <2>3, <2>6 DEF Reading, Untouched, Counted, Filled, Headed, lists,
      NamesBegun, TypesBegun, LengthsBegun, StructsBegun
  <2>7. CASE section = "TYPE"
    BY <1>1, <1>2, <1>3, <1>4, <2>1, <2>3, <2>4, <2>7 DEF Reading, Untouched, Counted, Filled, Headed, lists,
      NamesBegun, TypesBegun, LengthsBegun, StructsBegun
  <2>8. CASE section = "STRC"
    BY <1>1, <1>2, <1>3, <1>4, <2>1, <2>3, <2>4, <2>5, <2>8 DEF Reading, Untouched, Counted, Filled, Headed, lists,
      NamesBegun, TypesBegun, LengthsBegun, StructsBegun
  <2> QED BY <1>2, <2>6, <2>7, <2>8
<1>10. Spaced'
  BY <1>2, Numbers, LenProperties DEF IInv, Reading, Spaced, lists, Untouched, StructsBegun
<1> QED BY <1>5, <1>6, <1>7, <1>8, <1>9, <1>10 DEF IInv, Reading

(* How far the table of the section is.                                    *)
LEMMA EntriesLeft ==
  ASSUME TypeOK, Reading, at = "entries"
  PROVE  /\ section \in {"NAME", "TYPE", "TLEN", "STRC"}
         /\ section = "NAME" => (HasEntries <=> Len(field_names) < count)
         /\ section = "TYPE" => (HasEntries <=> Len(type_names) < count)
         /\ section = "TLEN" => (HasEntries <=> Len(type_lengths) < count)
         /\ section = "STRC" => (HasEntries <=> Len(structs) < count)
BY SectionIsOne DEF Reading, InParts, Headed, HasEntries

LEMMA EndEntriesKeeps ==
  ASSUME IInv, EndEntries
  PROVE  IInv'
<1>1. /\ at = "entries" /\ at' = "align" /\ Reading /\ section \in {"NAME", "TYPE", "TLEN"} /\ ~HasEntries
      /\ UNCHANGED <<body, position, section, count, lists, written, result>>
  BY EntriesLeft DEF EndEntries, IInv
<1>2. TypeOK'
  BY <1>1 DEF IInv, TypeOK, body, lists
<1>3. /\ TablesTile' /\ TypesAt' = TypesAt /\ LengthsAt' = LengthsAt
      /\ NamesEnd' = NamesEnd /\ TypesEnd' = TypesEnd /\ LengthsEnd' = LengthsEnd
  BY <1>1, SameTables DEF IInv
<1>4. InParts' /\ Untouched' /\ AcceptedIsAsWritten'
  BY <1>1 DEF Reading, InParts, Untouched, Headed, lists, AcceptedIsAsWritten,
    NamesBegun, TypesBegun, LengthsBegun, StructsBegun
<1>5. Placed' /\ Spaced'
  BY <1>1, <1>3 DEF Reading, Placed, Headed, Spaced, lists
<1>6. Counted'
  <2>1. count \in Nat /\ UNCHANGED structs /\ structs = <<>>
    BY <1>1 DEF IInv, TypeOK, lists, Reading, Untouched, StructsBegun
  <2>2. /\ Decoded(written[1])' = Decoded(written[1])
        /\ Decoded(written[2])' = Decoded(written[2])
    BY <1>1 DEF Decoded, body
  <2>3. Heads' = Heads /\ (NamesBegun => NamesBegun') /\ ~StructsBegun'
    BY <1>1 DEF Heads, Headed, NamesBegun, TypesBegun, StructsBegun
  <2>4. CASE section = "NAME"
    BY <1>1, <2>1, <2>2, <2>3, <2>4, EntriesLeft, Numbers DEF IInv, Reading, Counted, Filled, Headed, lists,
      NamesBegun, TypesBegun, LengthsBegun
  <2>5. CASE section = "TYPE"
    BY <1>1, <2>1, <2>2, <2>3, <2>5, EntriesLeft, Numbers DEF IInv, Reading, Counted, Filled, Headed, lists,
      NamesBegun, TypesBegun, LengthsBegun
  <2>6. CASE section = "TLEN"
    BY <1>1, <2>1, <2>2, <2>3, <2>6, EntriesLeft, Numbers DEF IInv, Reading, Counted, Filled, Headed, lists,
      NamesBegun, TypesBegun, LengthsBegun
  <2> QED BY <1>1, <2>4, <2>5, <2>6
<1> QED BY <1>2, <1>3, <1>4, <1>5, <1>6 DEF IInv, Reading

LEMMA AlignSectionKeeps ==
  ASSUME IInv, AlignSection
  PROVE  IInv'
<1>1. /\ at = "align" /\ at' = "code" /\ Reading /\ section \in {"NAME", "TYPE", "TLEN"}
      /\ UNCHANGED <<body, count, lists, written, result>>
      /\ position' = AlignTarget(position, 4) /\ position' < m_Size
      /\ section' = IF section = "NAME" THEN "TYPE" ELSE IF section = "TYPE" THEN "TLEN" ELSE "STRC"
  <2>1. at = "align" /\ Reading /\ section \in {"NAME", "TYPE", "TLEN"}
    BY SectionIsOne DEF AlignSection, IInv, Reading, InParts, Headed
  <2>2. section' = IF section = "NAME" THEN "TYPE" ELSE IF section = "TYPE" THEN "TLEN" ELSE "STRC"
    BY <2>1 DEF AlignSection, Following
  <2> QED BY <2>1, <2>2 DEF AlignSection
<1>2. /\ TablesTile' /\ TypesAt' = TypesAt /\ LengthsAt' = LengthsAt /\ StructsAt' = StructsAt
      /\ NamesEnd' = NamesEnd /\ TypesEnd' = TypesEnd /\ LengthsEnd' = LengthsEnd
  BY <1>1, SameTables DEF IInv
<1>3. position = IF section = "NAME" THEN NamesEnd ELSE IF section = "TYPE" THEN TypesEnd ELSE LengthsEnd
  BY <1>1 DEF Reading, Placed
<1>4. 4 <= position
  BY <1>1 DEF Reading, Spaced, Headed
<1>5. position' = Pad(position) /\ position' \in Nat /\ position <= position'
  <2>1. position \in Nat /\ position < SsizeLimit
    BY Numbers DEF IInv
  <2>2. AlignTarget(position, 4) = Pad(position)
    BY <1>4, <2>1, AlignPads
  <2> QED BY <1>1, <2>1, <2>2, PadType
<1>6. TypeOK'
  <2>1. section' \in Range(Sections)
    BY <1>1 DEF Sections, Range
  <2>2. position' \in 0 .. m_Size
    BY <1>1, <1>5, Numbers DEF IInv
  <2> QED BY <1>1, <2>1, <2>2 DEF IInv, TypeOK, body, lists
<1>7. InParts' /\ AcceptedIsAsWritten'
  BY <1>1 DEF Reading, InParts, Headed, lists, AcceptedIsAsWritten
<1>8. Untouched'
  BY <1>1 DEF Reading, Untouched, Headed, lists, NamesBegun, TypesBegun, LengthsBegun, StructsBegun
<1>9. Placed'
  BY <1>1, <1>2, <1>3, <1>5, Places DEF IInv, Placed, Headed
<1>10. Counted'
  <2>1. /\ Decoded(written[1])' = Decoded(written[1])
        /\ Decoded(written[2])' = Decoded(written[2])
    BY <1>1 DEF Decoded, body
  <2>2. /\ structs = <<>> /\ structs' = <<>> /\ Heads' = Heads /\ ~StructsBegun'
        /\ NamesBegun /\ (TypesBegun' => TypesBegun) /\ (LengthsBegun' => LengthsBegun)
    BY <1>1 DEF Reading, Untouched, Heads, Headed, lists, NamesBegun, TypesBegun, LengthsBegun, StructsBegun
  <2>3. UNCHANGED <<field_names, type_names, type_lengths, structs, written, count>>
    BY <1>1 DEF lists
  <2>4. Filled("NAME", Len(field_names), Decoded(written[1]))'
    BY <1>1, <2>1, <2>2, <2>3 DEF Reading, Counted, Filled
  <2>5. TypesBegun' => Filled("TYPE", Len(type_names), Decoded(written[2]))'
    BY <1>1, <2>1, <2>2, <2>3 DEF Reading, Counted, Filled, TypesBegun
  <2>6. LengthsBegun' => Filled("TLEN", Len(type_lengths), Len(type_names))'
    BY <1>1, <2>2, <2>3 DEF Reading, Counted, Filled, LengthsBegun
  <2>7. DOMAIN structs' = {}
    BY <2>2
  <2> QED BY <1>1, <2>2, <2>3, <2>4, <2>5, <2>6, <2>7 DEF Reading, Counted
<1>11. Spaced'
  <2>1. structs = <<>> /\ structs' = <<>> /\ DOMAIN structs' = {} /\ Len(structs') = 0
    BY <1>1 DEF Reading, Untouched, StructsBegun, lists
  <2>2. UNCHANGED <<field_names, type_names>>
    BY <1>1 DEF lists
  <2> QED BY <1>1, <1>4, <1>5, <2>1, <2>2, Numbers DEF IInv, Reading, Spaced
<1> QED BY <1>2, <1>6, <1>7, <1>8, <1>9, <1>10, <1>11 DEF IInv, Reading

LEMMA EndStructKeeps ==
  ASSUME IInv, EndStruct
  PROVE  IInv'
<1>1. /\ at = "fields" /\ at' = "entries" /\ Reading /\ section = "STRC" /\ structs # <<>>
      /\ ~(Len(Last(structs).fields) < Last(structs).field_count)
      /\ UNCHANGED <<body, position, section, count, lists, written, result>>
  BY SectionIsOne DEF EndStruct, IInv, Reading, InParts, Headed, StructHasFields
<1>2. structs \in Seq(Structs) /\ Len(structs) \in Nat \ {0} /\ DOMAIN structs = 1 .. Len(structs)
  BY <1>1, LastIsIn, LenProperties DEF IInv, TypeOK, Structs
<1>3. Len(structs[Len(structs)].fields) = structs[Len(structs)].field_count
  <2>1. /\ Len(structs[Len(structs)].fields) <= structs[Len(structs)].field_count
        /\ Len(structs[Len(structs)].fields) \in Nat /\ structs[Len(structs)].field_count \in Nat
    <3>1. structs[Len(structs)] \in Structs
      BY <1>2, ElementOfSeq
    <3>2. structs[Len(structs)].fields \in Seq(Usize) /\ structs[Len(structs)].field_count \in Nat
      BY <3>1 DEF Structs
    <3>3. Len(structs[Len(structs)].fields) \in Nat
      BY <3>2, LenProperties
    <3>4. Len(structs) \in DOMAIN structs
      BY <1>2
    <3> QED BY <1>1, <3>2, <3>3, <3>4 DEF Reading, Counted
  <2> QED BY <1>1, <2>1 DEF Last
<1>4. TypeOK'
  BY <1>1 DEF IInv, TypeOK, body, lists
<1>5. TablesTile' /\ StructsEnd' = StructsEnd
  BY <1>1, SameTables DEF IInv
<1>6. InParts' /\ Untouched' /\ AcceptedIsAsWritten'
  BY <1>1 DEF Reading, InParts, Untouched, Headed, lists, AcceptedIsAsWritten,
    NamesBegun, TypesBegun, LengthsBegun, StructsBegun
<1>7. Placed' /\ Spaced'
  BY <1>1, <1>3, <1>5 DEF Reading, Placed, Headed, Spaced, lists, Last, StructsEnd
<1>8. Counted'
  <2>1. UNCHANGED <<structs, field_names, type_names, type_lengths, written, count, section>>
    BY <1>1 DEF lists
  <2>2. \A i \in DOMAIN structs : DecodedShort(written[3 + i])' = DecodedShort(written[3 + i])
    BY <1>1 DEF DecodedShort, body
  <2>3. /\ Decoded(written[1])' = Decoded(written[1])
        /\ Decoded(written[2])' = Decoded(written[2])
        /\ Decoded(written[3])' = Decoded(written[3])
    BY <1>1 DEF Decoded, body
  <2>4. /\ Heads' = Heads /\ NamesBegun /\ TypesBegun /\ LengthsBegun /\ StructsBegun
    BY <1>1 DEF Heads, Headed, NamesBegun, TypesBegun, LengthsBegun, StructsBegun
  <2>5. \A i \in DOMAIN structs :
          /\ structs[i].field_count = DecodedShort(written[3 + i])
          /\ Len(structs[i].fields) = structs[i].field_count
    BY <1>1, <1>2, <1>3 DEF Reading, Counted
  <2> QED BY <1>1, <2>1, <2>2, <2>3, <2>4, <2>5 DEF Reading, Counted, Filled
<1> QED BY <1>4, <1>5, <1>6, <1>7, <1>8 DEF IInv, Reading

-----------------------------------------------------------------------------
(* The actions that make the tables longer.  What lies before the new      *)
(* entry stays where it is, and the tables behind are still empty.         *)
LEMMA TileLonger ==
  ASSUME NEW strings \in Seq(Runs), NEW start, StringsTile(strings, start),
         NEW string \in Runs,
         string.from = IF strings = <<>> THEN start ELSE EndOf(Last(strings))
  PROVE  StringsTile(Append(strings, string), start)
<1> DEFINE longer == Append(strings, string)
<1>1. /\ Len(strings) \in Nat /\ DOMAIN strings = 1 .. Len(strings)
      /\ Len(longer) = Len(strings) + 1 /\ DOMAIN longer = 1 .. Len(strings) + 1
      /\ \A i \in 1 .. Len(strings) : longer[i] = strings[i]
      /\ longer[Len(strings) + 1] = string
  BY AppendProperties, LenProperties
<1>2. strings = <<>> <=> Len(strings) = 0
  BY EmptySeq
<1> SUFFICES ASSUME NEW i \in 1 .. Len(strings) + 1
             PROVE  longer[i].from = IF i = 1 THEN start ELSE EndOf(longer[i - 1])
  BY <1>1 DEF StringsTile
<1> HIDE DEF longer
<1>3. CASE i <= Len(strings)
  <2>1. i \in DOMAIN strings /\ longer[i] = strings[i] /\ (i # 1 => longer[i - 1] = strings[i - 1])
    BY <1>1, <1>3
  <2> QED BY <2>1 DEF StringsTile
<1>4. CASE i = Len(strings) + 1
  <2>1. longer[i] = string /\ (i # 1 => longer[i - 1] = Last(strings)) /\ (i = 1 <=> strings = <<>>)
    BY <1>1, <1>2, <1>4 DEF Last
  <2> QED BY <2>1
<1> QED BY <1>1, <1>3, <1>4

LEMMA ReadStringKeeps ==
  ASSUME IInv, ReadString
  PROVE  IInv'
<1>1. /\ at = "entries" /\ HasEntries /\ Reading /\ section \in {"NAME", "TYPE"}
      /\ UNCHANGED <<body, section, at, count, type_lengths, structs, written, result>>
  BY EntriesLeft DEF ReadString, IInv, HasEntries, IsTable
<1>2. PICK n \in StringLengths :
        LET string == [from |-> position, count |-> n]
        IN  /\ position + n < m_Size
            /\ position' = position + n + 1
            /\ IF section = "NAME"
               THEN field_names' = Append(field_names, string) /\ UNCHANGED type_names
               ELSE type_names' = Append(type_names, string) /\ UNCHANGED field_names
  BY DEF ReadString
<1> DEFINE string == [from |-> position, count |-> n]
<1>3. n \in Nat /\ n \in Usize /\ position \in Nat /\ position \in Usize /\ m_Size \in Nat
  BY Numbers, SdnaAssumption, SsizeAssumption DEF IInv, Usize, Modulus
<1>4. string \in Runs /\ string.from = position /\ EndOf(string) = position'
  BY <1>2, <1>3 DEF Runs, EndOf
<1>5. position' \in 0 .. m_Size /\ position < position' /\ 4 <= position
  BY <1>1, <1>2, <1>3 DEF Reading, Spaced, Headed
<1>6. structs = <<>> /\ type_lengths = <<>> /\ ~StructsBegun /\ ~LengthsBegun /\ NamesBegun
      /\ ~StructsBegun' /\ ~LengthsBegun' /\ NamesBegun' /\ DOMAIN structs = {}
      /\ (section = "NAME" => ~TypesBegun) /\ Heads' = Heads /\ (TypesBegun' <=> TypesBegun)
  BY <1>1 DEF Reading, Untouched, StructsBegun, LengthsBegun, NamesBegun, TypesBegun, Heads, Headed
<1>7. field_names \in Seq(Runs) /\ type_names \in Seq(Runs) /\ type_lengths \in Seq(Usize)
      /\ Len(field_names) \in Nat /\ Len(type_names) \in Nat /\ count \in Nat
  BY Numbers DEF IInv, TypeOK
<1> HIDE DEF string
<1>8. CASE section = "NAME"
  <2>1. /\ field_names' = Append(field_names, string) /\ UNCHANGED type_names
        /\ Len(field_names) < count /\ type_names = <<>>
    BY <1>1, <1>2, <1>6, <1>8, EntriesLeft DEF IInv, string, Reading, Untouched
  <2>2. /\ field_names' \in Seq(Runs) /\ field_names' # <<>>
        /\ Len(field_names') = Len(field_names) + 1 /\ Last(field_names') = string
    BY <1>4, <1>7, <2>1, AppendProperties DEF Last
  <2>3. position = NamesEnd /\ NamesEnd' = position'
    BY <1>1, <1>4, <1>8, <2>2 DEF Reading, Placed, NamesEnd, EndOf
  <2>4. TypeOK'
    BY <1>1, <1>5, <2>1, <2>2 DEF IInv, TypeOK, body
  <2>5. TablesTile'
    <3>1. StringsTile(field_names, NamesAt)'
      <4>1. string.from = IF field_names = <<>> THEN NamesAt ELSE EndOf(Last(field_names))
        BY <1>4, <2>3 DEF NamesEnd
      <4>2. StringsTile(Append(field_names, string), NamesAt)
        BY <1>4, <1>7, <4>1, TileLonger DEF IInv, TablesTile
      <4> QED BY <2>1, <4>2 DEF NamesAt, StringsTile
    <3>2. DOMAIN type_names' = {} /\ DOMAIN type_lengths' = {} /\ DOMAIN structs' = {}
      BY <1>1, <1>6, <2>1
    <3> QED BY <3>1, <3>2 DEF TablesTile, StringsTile
  <2>6. InParts' /\ Untouched' /\ AcceptedIsAsWritten'
    BY <1>1, <1>6, <1>8, <2>1 DEF Reading, InParts, Untouched, Headed, AcceptedIsAsWritten
  <2>7. Placed'
    BY <1>1, <1>8, <2>3 DEF Placed, Headed
  <2>8. Counted'
    <3>1. Decoded(written[1])' = Decoded(written[1])
      BY <1>1 DEF Decoded, body
    <3>2. Filled("NAME", Len(field_names), Decoded(written[1]))'
      BY <1>1, <1>6, <1>7, <1>8, <2>1, <2>2, <3>1 DEF Reading, Counted, Filled
    <3> QED BY <1>1, <1>6, <1>8, <2>1, <3>2 DEF Reading, Counted
  <2>9. Spaced'
    BY <1>1, <1>3, <1>5, <1>6, <1>7, <2>1, <2>2 DEF Reading, Spaced, Headed
  <2> QED BY <2>4, <2>5, <2>6, <2>7, <2>8, <2>9 DEF IInv, Reading
<1>9. CASE section = "TYPE"
  <2>1. /\ type_names' = Append(type_names, string) /\ UNCHANGED field_names
        /\ Len(type_names) < count
    BY <1>1, <1>2, <1>9, EntriesLeft DEF IInv, string
  <2>2. /\ type_names' \in Seq(Runs) /\ type_names' # <<>>
        /\ Len(type_names') = Len(type_names) + 1 /\ Last(type_names') = string
    BY <1>4, <1>7, <2>1, AppendProperties DEF Last
  <2>3. position = TypesEnd /\ TypesEnd' = position' /\ TypesAt' = TypesAt
    BY <1>1, <1>4, <1>9, <2>1, <2>2 DEF Reading, Placed, TypesEnd, EndOf, TypesAt
  <2>4. TypeOK'
    BY <1>1, <1>5, <2>1, <2>2 DEF IInv, TypeOK, body
  <2>5. TablesTile'
    <3>1. StringsTile(type_names, TypesAt)'
      <4>1. string.from = IF type_names = <<>> THEN TypesAt ELSE EndOf(Last(type_names))
        BY <1>4, <2>3 DEF TypesEnd
      <4>2. TypesAt \in Nat
        BY Places DEF IInv
      <4>3. StringsTile(Append(type_names, string), TypesAt)
        BY <1>4, <1>7, <4>1, <4>2, TileLonger DEF IInv, TablesTile
      <4> QED BY <2>1, <2>3, <4>3 DEF StringsTile
    <3>2. StringsTile(field_names, NamesAt)'
      BY <2>1 DEF IInv, TablesTile, StringsTile, NamesAt
    <3>3. DOMAIN type_lengths' = {} /\ DOMAIN structs' = {}
      BY <1>1, <1>6
    <3> QED BY <3>1, <3>2, <3>3 DEF TablesTile
  <2>6. InParts' /\ Untouched' /\ AcceptedIsAsWritten'
    BY <1>1, <1>6, <1>9, <2>1 DEF Reading, InParts, Untouched, Headed, AcceptedIsAsWritten, TypesBegun
  <2>7. Placed'
    BY <1>1, <1>9, <2>3 DEF Placed, Headed
  <2>8. Counted'
    <3>1. Decoded(written[1])' = Decoded(written[1]) /\ Decoded(written[2])' = Decoded(written[2])
      BY <1>1 DEF Decoded, body
    <3>2. Filled("NAME", Len(field_names), Decoded(written[1]))'
      BY <1>1, <1>6, <1>9, <2>1, <3>1 DEF Reading, Counted, Filled
    <3>3. Filled("TYPE", Len(type_names), Decoded(written[2]))'
      BY <1>1, <1>7, <1>9, <2>1, <2>2, <3>1 DEF Reading, Counted, Filled, TypesBegun
    <3> QED BY <1>1, <1>6, <3>2, <3>3 DEF Reading, Counted
  <2>9. Spaced'
    BY <1>1, <1>3, <1>5, <1>6, <1>7, <2>1, <2>2 DEF Reading, Spaced, Headed
  <2> QED BY <2>4, <2>5, <2>6, <2>7, <2>8, <2>9 DEF IInv, Reading
<1> QED BY <1>1, <1>8, <1>9

LEMMA ReadLengthKeeps ==
  ASSUME IInv, ReadLength
  PROVE  IInv'
<1>1. /\ section = "TLEN" /\ at = "entries" /\ HasEntries /\ Reading /\ Width = 2
      /\ position' = position + 2 /\ position' \in 0 .. m_Size /\ position \in Nat /\ position \in Usize
      /\ type_lengths' = Append(type_lengths, position)
      /\ UNCHANGED <<body, section, at, count, field_names, type_names, structs, written, result>>
  BY FetchFits, Numbers DEF ReadLength, IInv, HasEntries, Width
<1>2. /\ type_lengths \in Seq(Usize) /\ type_lengths' \in Seq(Usize)
      /\ Len(type_lengths) \in Nat /\ Len(type_lengths') = Len(type_lengths) + 1
      /\ DOMAIN type_lengths = 1 .. Len(type_lengths)
      /\ DOMAIN type_lengths' = 1 .. Len(type_lengths) + 1
      /\ \A i \in 1 .. Len(type_lengths) : type_lengths'[i] = type_lengths[i]
      /\ type_lengths'[Len(type_lengths) + 1] = position
  <2>1. type_lengths \in Seq(Usize)
    BY DEF IInv, TypeOK
  <2> QED BY <1>1, <2>1, AppendProperties, LenProperties
<1>3. structs = <<>> /\ ~StructsBegun /\ LengthsBegun /\ NamesBegun /\ TypesBegun
      /\ ~StructsBegun' /\ LengthsBegun' /\ NamesBegun' /\ TypesBegun' /\ DOMAIN structs = {}
      /\ Heads' = Heads
  BY <1>1 DEF Reading, Untouched, StructsBegun, LengthsBegun, NamesBegun, TypesBegun, Heads, Headed
<1>4. Len(type_lengths) < count /\ count \in Nat
  BY <1>1, EntriesLeft DEF IInv, TypeOK
<1>5. UNCHANGED <<TypesAt, LengthsAt>>
  BY <1>1 DEF TypesAt, LengthsAt
<1>6. position = LengthsEnd /\ LengthsEnd = LengthsAt + 2 * Len(type_lengths) /\ LengthsAt \in Nat
  BY <1>1, Places DEF IInv, Reading, Placed, LengthsEnd
<1>7. TypeOK'
  BY <1>1, <1>2 DEF IInv, TypeOK, body
<1>8. TablesTile'
  <2>1. ASSUME NEW i \in DOMAIN type_lengths'
        PROVE  type_lengths'[i] = LengthsAt + 2 * (i - 1)
    <3>1. CASE i \in DOMAIN type_lengths
      BY <1>2, <3>1 DEF IInv, TablesTile
    <3>2. CASE i = Len(type_lengths) + 1
      BY <1>2, <1>6, <3>2
    <3> QED BY <1>2, <3>1, <3>2
  <2>2. StringsTile(field_names, NamesAt)' /\ StringsTile(type_names, TypesAt)'
    BY <1>1, <1>5 DEF IInv, TablesTile, StringsTile, NamesAt
  <2> QED BY <1>1, <1>3, <1>5, <2>1, <2>2 DEF TablesTile
<1>9. InParts' /\ Untouched' /\ AcceptedIsAsWritten'
  BY <1>1, <1>3 DEF Reading, InParts, Untouched, Headed, AcceptedIsAsWritten
<1>10. Placed'
  BY <1>1, <1>2, <1>5, <1>6 DEF Placed, Headed, LengthsEnd
<1>11. Counted'
  <2>1. Decoded(written[1])' = Decoded(written[1]) /\ Decoded(written[2])' = Decoded(written[2])
    BY <1>1 DEF Decoded, body
  <2>2. Filled("NAME", Len(field_names), Decoded(written[1]))'
    BY <1>1, <1>3, <2>1 DEF Reading, Counted, Filled
  <2>3. Filled("TYPE", Len(type_names), Decoded(written[2]))'
    BY <1>1, <1>3, <2>1 DEF Reading, Counted, Filled
  <2>4. Filled("TLEN", Len(type_lengths), Len(type_names))'
    BY <1>1, <1>2, <1>3, <1>4 DEF Reading, Counted, Filled
  <2> QED BY <1>1, <1>3, <2>2, <2>3, <2>4 DEF Reading, Counted
<1>12. Spaced'
  BY <1>1, <1>3, Numbers DEF IInv, Reading, Spaced, Headed
<1> QED BY <1>7, <1>8, <1>9, <1>10, <1>11, <1>12 DEF IInv, Reading

(* What a struct begins with, and what a field adds to the last one.       *)
LEMMA ReadStructKeeps ==
  ASSUME IInv, ReadStruct
  PROVE  IInv'
<1>1. PICK n \in WrittenCounts :
        /\ structs' = Append(structs, [from |-> position, field_count |-> DecodedShort(n), fields |-> <<>>])
        /\ written' = Append(written, n)
  BY DEF ReadStruct
<1> DEFINE struct == [from |-> position, field_count |-> DecodedShort(n), fields |-> <<>>]
<1>2. /\ section = "STRC" /\ at = "entries" /\ at' = "fields" /\ HasEntries /\ Reading /\ Width = 4
      /\ position' = position + 4 /\ position' \in 0 .. m_Size /\ position \in Nat /\ position \in Usize
      /\ UNCHANGED <<body, section, count, field_names, type_names, type_lengths, result>>
  BY FetchFits, Numbers DEF ReadStruct, IInv, HasEntries, Width
<1>3. /\ struct \in Structs /\ struct.from = position /\ struct.field_count = DecodedShort(n)
      /\ struct.fields = <<>> /\ Len(struct.fields) = 0 /\ DOMAIN struct.fields = {}
      /\ DecodedShort(n) \in Nat
  BY <1>2, DecodedType, EmptySeq DEF Structs, IInv
<1> HIDE DEF struct
<1>4. /\ structs \in Seq(Structs) /\ structs' \in Seq(Structs) /\ structs' # <<>>
      /\ Len(structs) \in Nat /\ Len(structs') = Len(structs) + 1
      /\ DOMAIN structs = 1 .. Len(structs) /\ DOMAIN structs' = 1 .. Len(structs) + 1
      /\ \A i \in 1 .. Len(structs) : structs'[i] = structs[i]
      /\ structs'[Len(structs) + 1] = struct
  <2>1. structs \in Seq(Structs) /\ structs' = Append(structs, struct)
    BY <1>1 DEF IInv, TypeOK, Structs, struct
  <2> QED BY <1>3, <2>1, AppendProperties, LenProperties
<1>5. /\ written \in Seq(WrittenCounts) /\ written' \in Seq(WrittenCounts)
      /\ Len(written) \in Nat /\ Len(written') = Len(written) + 1
      /\ \A i \in 1 .. Len(written) : written'[i] = written[i]
      /\ written'[Len(written) + 1] = n
  <2>1. written \in Seq(WrittenCounts)
    BY DEF IInv, TypeOK
  <2> QED BY <1>1, <2>1, AppendProperties, LenProperties
<1>6. /\ StructsBegun /\ LengthsBegun /\ NamesBegun /\ TypesBegun
      /\ StructsBegun' /\ LengthsBegun' /\ NamesBegun' /\ TypesBegun'
      /\ Heads' = 3 /\ Heads = 3 /\ Len(written) = 3 + Len(structs)
  BY <1>2 DEF Reading, Counted, StructsBegun, LengthsBegun, NamesBegun, TypesBegun, Heads, Headed
<1>7. Len(structs) < count /\ count \in Nat
  BY <1>2, EntriesLeft DEF IInv, TypeOK
<1>8. UNCHANGED <<TypesAt, LengthsAt, StructsAt>>
  BY <1>2 DEF TypesAt, LengthsAt, StructsAt
<1>9. position = StructsEnd
  BY <1>2 DEF Reading, Placed
<1>10. TypeOK'
  BY <1>2, <1>4, <1>5 DEF IInv, TypeOK, body, Structs
<1>11. TablesTile'
  <2> DEFINE Behind(s) == s.from + 4 + 4 * s.field_count
  <2>1. ASSUME NEW i \in 1 .. Len(structs) + 1
        PROVE  /\ structs'[i].from = IF i = 1 THEN StructsAt ELSE Behind(structs'[i - 1])
               /\ \A k \in DOMAIN structs'[i].fields : structs'[i].fields[k] = structs'[i].from + 4 * k
    <3>1. CASE i <= Len(structs)
      <4>1. i \in DOMAIN structs /\ structs'[i] = structs[i] /\ (i # 1 => structs'[i - 1] = structs[i - 1])
        BY <1>4, <3>1
      <4> QED BY <4>1 DEF IInv, TablesTile
    <3>2. CASE i = Len(structs) + 1
      <4>1. structs'[i] = struct /\ (i # 1 => structs'[i - 1] = Last(structs)) /\ (i = 1 <=> structs = <<>>)
        BY <1>4, <3>2, EmptySeq DEF Last
      <4> QED BY <1>3, <1>9, <4>1 DEF StructsEnd
    <3> QED BY <1>4, <3>1, <3>2
  <2>2. StringsTile(field_names, NamesAt)' /\ StringsTile(type_names, TypesAt)'
    BY <1>2, <1>8 DEF IInv, TablesTile, StringsTile, NamesAt
  <2>3. \A i \in DOMAIN type_lengths' : type_lengths'[i] = LengthsAt' + 2 * (i - 1)
    BY <1>2, <1>8 DEF IInv, TablesTile
  <2> QED BY <1>4, <1>8, <2>1, <2>2, <2>3 DEF TablesTile
<1>12. InParts' /\ Untouched' /\ AcceptedIsAsWritten'
  BY <1>2, <1>4, <1>6 DEF Reading, InParts, Untouched, Headed, AcceptedIsAsWritten
<1>13. Placed'
  <2>1. Last(structs)' = struct
    BY <1>4 DEF Last
  <2> QED BY <1>2, <1>3, <2>1 DEF Placed, Headed
<1>14. Counted'
  <2>1. /\ \A m : Decoded(m) = IF foreign' THEN ByteSwap(m) ELSE m
        /\ \A m : DecodedShort(m) = IF foreign' THEN ByteSwapShort(m) ELSE m
    BY <1>2 DEF Decoded, DecodedShort, body
  <2>2. Decoded(written[1])' = Decoded(written[1]) /\ Decoded(written[2])' = Decoded(written[2])
        /\ Decoded(written[3])' = Decoded(written[3])
    BY <1>4, <1>5, <1>6, <2>1 DEF Decoded
  <2>3. Filled("NAME", Len(field_names), Decoded(written[1]))'
        /\ Filled("TYPE", Len(type_names), Decoded(written[2]))'
        /\ Filled("TLEN", Len(type_lengths), Len(type_names))'
    BY <1>2, <1>6, <2>2 DEF Reading, Counted, Filled
  <2>4. Filled("STRC", Len(structs), Decoded(written[3]))'
    BY <1>2, <1>4, <1>6, <1>7, <2>2 DEF Reading, Counted, Filled
  <2>5. ASSUME NEW i \in 1 .. Len(structs) + 1
        PROVE  /\ structs'[i].field_count = (IF foreign' THEN ByteSwapShort(written'[3 + i]) ELSE written'[3 + i])
               /\ Len(structs'[i].fields) <= structs'[i].field_count
               /\ i < Len(structs) + 1 => Len(structs'[i].fields) = structs'[i].field_count
    <3>1. CASE i <= Len(structs)
      <4>1. i \in DOMAIN structs /\ structs'[i] = structs[i] /\ written'[3 + i] = written[3 + i]
        BY <1>4, <1>5, <1>6, <3>1
      <4> QED BY <1>2, <2>1, <4>1 DEF Reading, Counted
    <3>2. CASE i = Len(structs) + 1
      <4>1. structs'[i] = struct /\ written'[3 + i] = n
        BY <1>4, <1>5, <1>6, <3>2
      <4> QED BY <1>3, <2>1, <3>2, <4>1
    <3> QED BY <1>4, <3>1, <3>2
  <2>6. ASSUME NEW i \in DOMAIN structs'
        PROVE  /\ structs'[i].field_count = DecodedShort(written[3 + i])'
               /\ Len(structs'[i].fields) <= structs'[i].field_count
               /\ i < Len(structs') \/ at' # "fields" => Len(structs'[i].fields) = structs'[i].field_count
    BY <1>2, <1>4, <2>5 DEF DecodedShort
  <2> QED BY <1>4, <1>5, <1>6, <2>3, <2>4, <2>6 DEF Counted
<1>15. Spaced'
  <2>1. \A i \in DOMAIN structs' : Len(structs'[i].fields) <= position'
    <3> TAKE i \in DOMAIN structs'
    <3>1. CASE i <= Len(structs)
      <4>1. i \in DOMAIN structs /\ structs'[i] = structs[i]
        BY <1>4, <3>1
      <4>2. Len(structs[i].fields) <= position
        BY <1>2, <4>1 DEF Reading, Spaced
      <4>3. Len(structs[i].fields) \in Nat
        BY <1>2, <4>1, LenProperties, ElementOfSeq DEF Structs
      <4> QED BY <1>2, <1>4, <4>1, <4>2, <4>3
    <3>2. CASE i = Len(structs) + 1
      BY <1>2, <1>3, <1>4, <3>2
    <3> QED BY <1>4, <3>1, <3>2
  <2> QED BY <1>2, <1>4, <2>1, Numbers DEF IInv, Reading, Spaced, Headed
<1> QED BY <1>10, <1>11, <1>12, <1>13, <1>14, <1>15 DEF IInv, Reading

LEMMA ReadFieldKeeps ==
  ASSUME IInv, ReadField
  PROVE  IInv'
<1> DEFINE last   == Len(structs)
           struct == structs[last]
           fields == Append(struct.fields, position)
<1>1. /\ section = "STRC" /\ at = "fields" /\ Reading /\ Width = 4 /\ structs # <<>>
      /\ position' = position + 4 /\ position' \in 0 .. m_Size /\ position \in Nat /\ position \in Usize
      /\ Len(struct.fields) < struct.field_count
      /\ structs' = [structs EXCEPT ![last].fields = Append(@, position)]
      /\ UNCHANGED <<body, section, at, count, field_names, type_names, type_lengths, written, result>>
  BY FetchFits, Numbers, SectionIsOne
  DEF ReadField, IInv, Width, Reading, InParts, Headed, StructHasFields, Last
<1>2. /\ structs \in Seq(Structs) /\ last \in Nat \ {0} /\ DOMAIN structs = 1 .. last /\ struct \in Structs
  <2>1. structs \in Seq(Structs) /\ structs # <<>>
    BY <1>1 DEF IInv, TypeOK, Structs
  <2> QED BY <2>1, LastIsIn, LenProperties DEF Last
<1>3. /\ struct.from \in Usize /\ struct.field_count \in Nat /\ struct.fields \in Seq(Usize)
      /\ Len(struct.fields) \in Nat /\ DOMAIN struct.fields = 1 .. Len(struct.fields)
  BY <1>2, LenProperties DEF Structs
<1>4. /\ fields \in Seq(Usize) /\ Len(fields) = Len(struct.fields) + 1
      /\ DOMAIN fields = 1 .. Len(struct.fields) + 1
      /\ \A k \in 1 .. Len(struct.fields) : fields[k] = struct.fields[k]
      /\ fields[Len(struct.fields) + 1] = position
  BY <1>1, <1>3, AppendProperties, LenProperties
<1>5. /\ structs' = [structs EXCEPT ![last] = [struct EXCEPT !.fields = fields]]
      /\ [struct EXCEPT !.fields = fields] \in Structs
  BY <1>1, <1>2, <1>4 DEF Structs
<1>6. /\ structs' \in Seq(Structs) /\ Len(structs') = last /\ DOMAIN structs' = 1 .. last
      /\ \A i \in 1 .. last : i # last => structs'[i] = structs[i]
      /\ structs'[last] = [struct EXCEPT !.fields = fields]
  BY <1>2, <1>5, ExceptSeq, LenProperties
<1>7. /\ structs'[last].from = struct.from /\ structs'[last].field_count = struct.field_count
      /\ structs'[last].fields = fields
  BY <1>2, <1>6 DEF Structs
<1>8. /\ \A i \in 1 .. last : structs'[i].from = structs[i].from
      /\ \A i \in 1 .. last : structs'[i].field_count = structs[i].field_count
      /\ structs' # <<>>
  BY <1>2, <1>6, <1>7, EmptySeq
<1> HIDE DEF struct, fields, last
<1>9. position = struct.from + 4 + 4 * Len(struct.fields)
  BY <1>1 DEF Reading, Placed, Last, struct, last
<1>10. /\ StructsBegun /\ LengthsBegun /\ NamesBegun /\ TypesBegun
       /\ StructsBegun' /\ LengthsBegun' /\ NamesBegun' /\ TypesBegun'
       /\ Heads' = 3 /\ Heads = 3
  BY <1>1 DEF StructsBegun, LengthsBegun, NamesBegun, TypesBegun, Heads, Headed
<1>11. TypeOK'
  BY <1>1, <1>6 DEF IInv, TypeOK, body, Structs
<1>12. TablesTile'
  <2> DEFINE Behind(s) == s.from + 4 + 4 * s.field_count
  <2>1. UNCHANGED <<TypesAt, LengthsAt, StructsAt>>
    BY <1>1 DEF TypesAt, LengthsAt, StructsAt
  <2>2. StringsTile(field_names, NamesAt)' /\ StringsTile(type_names, TypesAt)'
    BY <1>1, <2>1 DEF IInv, TablesTile, StringsTile, NamesAt
  <2>3. \A i \in DOMAIN type_lengths' : type_lengths'[i] = LengthsAt' + 2 * (i - 1)
    BY <1>1, <2>1 DEF IInv, TablesTile
  <2>4. ASSUME NEW i \in 1 .. last
        PROVE  structs'[i].from = IF i = 1 THEN StructsAt ELSE Behind(structs'[i - 1])
    <3>1. structs[i].from = IF i = 1 THEN StructsAt ELSE Behind(structs[i - 1])
      BY <1>2 DEF IInv, TablesTile
    <3>2. i # 1 => i - 1 \in 1 .. last
      BY <1>2
    <3> QED BY <1>8, <3>1, <3>2
  <2>5. ASSUME NEW i \in 1 .. last, NEW k \in DOMAIN structs'[i].fields
        PROVE  structs'[i].fields[k] = structs'[i].from + 4 * k
    <3>1. CASE i # last
      BY <1>2, <1>6, <2>5, <3>1 DEF IInv, TablesTile
    <3>2. CASE i = last /\ k \in DOMAIN struct.fields
      <4>1. struct.fields[k] = struct.from + 4 * k
        BY <1>2, <3>2 DEF IInv, TablesTile, struct
      <4> QED BY <1>3, <1>4, <1>7, <3>2, <4>1
    <3>3. CASE i = last /\ k = Len(struct.fields) + 1
      <4>1. struct.from \in Nat
        BY <1>3, UsizeIsNat
      <4>2. structs'[i].fields[k] = position /\ structs'[i].from = struct.from
        BY <1>4, <1>7, <3>3
      <4> QED BY <1>3, <1>9, <3>3, <4>1, <4>2
    <3> QED BY <1>3, <1>4, <1>7, <2>5, <3>1, <3>2, <3>3
  <2> QED BY <1>6, <2>1, <2>2, <2>3, <2>4, <2>5 DEF TablesTile
<1>13. InParts' /\ Untouched' /\ AcceptedIsAsWritten'
  BY <1>1, <1>8, <1>10 DEF Reading, InParts, Untouched, Headed, AcceptedIsAsWritten
<1>14. Placed'
  <2>1. Last(structs)' = structs'[last]
    BY <1>6 DEF Last
  <2>2. struct.from \in Nat
    BY <1>3, UsizeIsNat
  <2>3. /\ Last(structs)'.from = struct.from
        /\ Len(Last(structs)'.fields) = Len(struct.fields) + 1
    BY <1>4, <1>7, <2>1
  <2>4. position' = Last(structs)'.from + 4 + 4 * Len(Last(structs)'.fields)
    <3>1. position' = struct.from + 4 + 4 * (Len(struct.fields) + 1)
      BY <1>1, <1>3, <1>9, <2>2
    <3> QED BY <2>3, <3>1, Zenon
  <2> QED BY <1>1, <2>4 DEF Placed, Headed
<1>15. Counted'
  <2>1. UNCHANGED <<Decoded(written[1]), Decoded(written[2]), Decoded(written[3])>>
    BY <1>1 DEF Decoded, body
  <2>2. Filled("NAME", Len(field_names), Decoded(written[1]))'
        /\ Filled("TYPE", Len(type_names), Decoded(written[2]))'
        /\ Filled("TLEN", Len(type_lengths), Len(type_names))'
        /\ Filled("STRC", Len(structs), Decoded(written[3]))'
    BY <1>1, <1>6, <1>10, <2>1 DEF Reading, Counted, Filled, last
  <2>3. ASSUME NEW i \in DOMAIN structs'
        PROVE  /\ structs'[i].field_count = DecodedShort(written[3 + i])'
               /\ Len(structs'[i].fields) <= structs'[i].field_count
               /\ i < Len(structs') \/ at' # "fields" => Len(structs'[i].fields) = structs'[i].field_count
    <3>1. i \in 1 .. last /\ i \in DOMAIN structs /\ DecodedShort(written[3 + i])' = DecodedShort(written[3 + i])
      BY <1>1, <1>2, <1>6 DEF DecodedShort, body
    <3>2. structs'[i].field_count = DecodedShort(written[3 + i])'
      BY <1>1, <1>8, <3>1 DEF Reading, Counted
    <3>3. CASE i # last
      BY <1>1, <1>2, <1>6, <3>1, <3>3 DEF Reading, Counted, last
    <3>4. CASE i = last
      BY <1>1, <1>2, <1>3, <1>4, <1>6, <1>7, <3>2, <3>4
    <3> QED BY <3>2, <3>3, <3>4
  <2> QED BY <1>1, <1>6, <1>10, <2>2, <2>3 DEF Reading, Counted, last
<1>16. Spaced'
  <2>1. ASSUME NEW i \in DOMAIN structs' PROVE Len(structs'[i].fields) <= position'
    <3>1. i \in 1 .. last /\ i \in DOMAIN structs /\ Len(structs[i].fields) <= position
      BY <1>1, <1>2, <1>6 DEF Reading, Spaced
    <3>2. CASE i # last
      <4>1. structs[i] \in Structs
        BY <1>2, <3>1, ElementOfSeq DEF last
      <4>2. Len(structs[i].fields) \in Nat
        BY <4>1, LenProperties DEF Structs
      <4> QED BY <1>1, <1>6, <3>1, <3>2, <4>2
    <3>3. CASE i = last
      BY <1>1, <1>3, <1>4, <1>7, <3>1, <3>3 DEF struct
    <3> QED BY <3>2, <3>3
  <2> QED BY <1>1, <1>6, <2>1, Numbers DEF IInv, Reading, Spaced, Headed, last
<1> QED BY <1>11, <1>12, <1>13, <1>14, <1>15, <1>16 DEF IInv, Reading

-----------------------------------------------------------------------------
(* What was written, when the structs have been read and nothing is left.  *)
LEMMA DecodedIsWritten ==
  ASSUME NEW n \in WrittenCounts
  PROVE  /\ IF foreign THEN Bytes(Decoded(n)) = Reverse(Bytes(n)) ELSE Decoded(n) = n
         /\ IF foreign THEN ShortBytes(DecodedShort(n)) = Reverse(ShortBytes(n))
            ELSE DecodedShort(n) = n
BY CountsAreNat, SwapTurnsAround DEF Decoded, DecodedShort

LEMMA CheckExhaustedKeeps ==
  ASSUME IInv, CheckExhausted
  PROVE  IInv'
<1>1. /\ section = "STRC" /\ at = "entries" /\ at' = "done" /\ Reading /\ ~HasEntries
      /\ result' = (IF IsAtEnd(position, m_Size) THEN "accepted" ELSE "SdnaNotExhausted")
      /\ UNCHANGED <<body, position, section, count, lists, written>>
  BY DEF CheckExhausted, Finish, IInv
<1>2. CASE ~IsAtEnd(position, m_Size)
  BY <1>1, <1>2, Refusal DEF Errors, IInv, TypeOK
<1>3. CASE IsAtEnd(position, m_Size)
  <2>1. TypeOK'
    BY <1>1, <1>3 DEF IInv, TypeOK, body, lists
  <2>2. TablesTile'
    BY <1>1, SameTables DEF IInv
  <2>3. /\ structs \in Seq(Structs) /\ Len(structs) \in Nat /\ DOMAIN structs = 1 .. Len(structs)
        /\ written \in Seq(WrittenCounts) /\ Len(written) = 3 + Len(structs)
        /\ DOMAIN written = 1 .. 3 + Len(structs)
        /\ \A i \in 1 .. 3 + Len(structs) : written[i] \in WrittenCounts
    BY <1>1, LenProperties, ElementOfSeq
    DEF IInv, TypeOK, Structs, Reading, Counted, Heads, StructsBegun
  <2>4. /\ Len(field_names) = Decoded(written[1]) /\ Len(type_names) = Decoded(written[2])
        /\ Len(structs) = Decoded(written[3]) /\ Len(type_lengths) = Len(type_names)
    <3>1. ~(Len(structs) < count) /\ count \in Nat
      BY <1>1, EntriesLeft DEF IInv, TypeOK
    <3> QED BY <1>1, <2>3, <3>1 DEF Reading, Counted, Filled, Headed, NamesBegun, TypesBegun,
          LengthsBegun, StructsBegun
  <2>5. ASSUME NEW i \in 1 .. Len(structs)
        PROVE  Len(structs[i].fields) = DecodedShort(written[3 + i])
    BY <1>1, <2>3, <2>5 DEF Reading, Counted
  <2> DEFINE heads == <<Len(field_names), Len(type_names), Len(structs)>>
             sizes == [i \in DOMAIN structs |-> Len(structs[i].fields)]
  <2>6. /\ Len(Counts) = 3 + Len(structs)
        /\ \A i \in 1 .. 3 + Len(structs) :
             Counts[i] = IF i <= 3 THEN Decoded(written[i]) ELSE DecodedShort(written[i])
    <3>1. /\ heads \in Seq(Nat) /\ Len(heads) = 3 /\ heads[1] = Decoded(written[1])
          /\ heads[2] = Decoded(written[2]) /\ heads[3] = Decoded(written[3])
      BY <2>4, Numbers DEF IInv
    <3>2. \A i \in 1 .. Len(structs) : DecodedShort(written[3 + i]) \in Nat
      <4> TAKE i \in 1 .. Len(structs)
      <4>1. 3 + i \in 1 .. 3 + Len(structs)
        BY <2>3
      <4> QED BY <2>3, <4>1, DecodedType
    <3>3. sizes \in [1 .. Len(structs) -> Nat]
      BY <2>3, <2>5, <3>2
    <3>4. sizes \in Seq(Nat) /\ Len(sizes) = Len(structs)
      BY <2>3, <3>3
    <3>5. \A i \in 1 .. Len(structs) : sizes[i] = DecodedShort(written[3 + i])
      BY <2>3, <2>5
    <3>6. Counts = heads \o sizes
      BY DEF Counts
    <3> HIDE DEF heads, sizes
    <3>7. /\ Len(Counts) = 3 + Len(structs)
          /\ \A i \in 1 .. 3 + Len(structs) :
               Counts[i] = IF i <= 3 THEN heads[i] ELSE sizes[i - 3]
      <4>1. /\ Len(heads \o sizes) = Len(heads) + Len(sizes)
            /\ \A i \in 1 .. Len(heads) + Len(sizes) :
                 (heads \o sizes)[i] = IF i <= Len(heads) THEN heads[i] ELSE sizes[i - Len(heads)]
        <5>1. heads \in Seq(Nat) /\ sizes \in Seq(Nat)
          BY <3>1, <3>4
        <5> QED BY <5>1, ConcatProperties, Zenon
      <4> QED BY <3>1, <3>4, <3>6, <4>1, Zenon
    <3>8. ASSUME NEW i \in 1 .. 3 + Len(structs)
          PROVE  Counts[i] = IF i <= 3 THEN Decoded(written[i]) ELSE DecodedShort(written[i])
      <4>1. CASE i <= 3
        <5>1. i = 1 \/ i = 2 \/ i = 3
          BY <2>3, <4>1
        <5> QED BY <3>1, <3>7, <4>1, <5>1
      <4>2. CASE ~(i <= 3)
        <5>1. i - 3 \in 1 .. Len(structs) /\ 3 + (i - 3) = i
          BY <2>3, <4>2
        <5>2. sizes[i - 3] = DecodedShort(written[i])
          BY <3>5, <5>1
        <5> QED BY <3>7, <4>2, <5>2
      <4> QED BY <4>1, <4>2
    <3> QED BY <3>7, <3>8
  <2>7. ASSUME NEW i \in 1 .. 3 + Len(structs)
        PROVE  IF foreign THEN SameBytesBackwards(i, Counts[i], written[i])
               ELSE Counts[i] = written[i]
    <3>1. written[i] \in WrittenCounts
      BY <2>3
    <3>2. CASE i <= 3
      BY <2>6, <3>1, <3>2, DecodedIsWritten DEF SameBytesBackwards
    <3>3. CASE ~(i <= 3)
      BY <2>6, <3>1, <3>3, DecodedIsWritten DEF SameBytesBackwards
    <3> QED BY <3>2, <3>3
  <2>9. m_Size = StructsEnd
    BY <1>1, <1>3, Numbers DEF IInv, Reading, Placed, IsAtEnd
  <2>10. AcceptedIsAsWritten'
    <3>1. /\ UNCHANGED <<m_Size, foreign, written, field_names, type_names, type_lengths, structs>>
          /\ StructsAt' = StructsAt
      BY <1>1, SameTables DEF body, lists, IInv
    <3>2. Counts' = Counts
      BY <3>1 DEF Counts
    <3> QED BY <2>3, <2>4, <2>6, <2>7, <2>9, <3>1, <3>2 DEF AcceptedIsAsWritten, StructsEnd
  <2> QED BY <1>1, <2>1, <2>2, <2>10 DEF IInv
<1> QED BY <1>2, <1>3

-----------------------------------------------------------------------------
LEMMA InitHolds == Init => IInv
<1> SUFFICES ASSUME Init PROVE IInv
  OBVIOUS
<1>1. TypeOK
  <2>1. m_Size \in Nat
    BY SdnaAssumption, SsizeAssumption DEF Init
  <2> QED BY <2>1, EmptySeq DEF Init, TypeOK
<1>2. TablesTile /\ AcceptedIsAsWritten
  BY DEF Init, TablesTile, StringsTile, AcceptedIsAsWritten
<1>3. Reading
  BY EmptySeq DEF Init, Reading, InParts, Untouched, Placed, Counted, Spaced, Headed, Heads,
    NamesBegun, TypesBegun, LengthsBegun, StructsBegun
<1> QED BY <1>1, <1>2, <1>3 DEF IInv

LEMMA StepKeeps == IInv /\ [Next]_vars => IInv'
<1> SUFFICES ASSUME IInv, [Next]_vars PROVE IInv'
  OBVIOUS
<1>1. CASE UNCHANGED vars
  <2>1. UNCHANGED <<m_Size, foreign, position, section, at, count, field_names, type_names,
                    type_lengths, structs, written, result>>
    BY <1>1 DEF vars, body, lists
  <2>2. TypeOK' /\ TablesTile'
    BY <2>1, SameTables DEF IInv, TypeOK, lists
  <2>3. StructsAt' = StructsAt
    BY <2>1, SameTables DEF IInv, lists
  <2>4. AcceptedIsAsWritten'
    <3>1. Counts' = Counts
      BY <2>1 DEF Counts
    <3> QED BY <2>1, <2>3, <3>1 DEF IInv, AcceptedIsAsWritten
  <2>5. ASSUME at # "done" PROVE Reading'
    <3>1. InParts' /\ Untouched' /\ Spaced'
      BY <2>1, <2>5 DEF IInv, Reading, InParts, Untouched, Spaced, Headed,
        NamesBegun, TypesBegun, LengthsBegun, StructsBegun
    <3>2. Placed'
      BY <2>1, <2>5, SameTables DEF IInv, lists, Reading, Placed, Headed
    <3>3. Counted'
      BY <2>1, <2>5 DEF IInv, Reading, Counted, Filled, Heads, Headed, Decoded, DecodedShort,
        NamesBegun, TypesBegun, LengthsBegun, StructsBegun
    <3> QED BY <3>1, <3>2, <3>3 DEF Reading
  <2> QED BY <2>1, <2>2, <2>4, <2>5 DEF IInv
<1>2. CASE Next
  BY <1>2, FindBlockKeeps, ReadFailsKeeps, ReadCodeKeeps, ReadCountKeeps, ReadStringKeeps,
    ReadLengthKeeps, ReadStructKeeps, ReadFieldKeeps, EndStructKeeps, EndEntriesKeeps,
    AlignSectionKeeps, CheckExhaustedKeeps DEF Next
<1> QED BY <1>1, <1>2

(* The invariant, of every behaviour.                                      *)
LEMMA InvariantHolds == Spec => []IInv
BY InitHolds, StepKeeps, PTL DEF Spec

(* Every variable keeps its type, whatever the body says; above all the    *)
(* position stays in the body.                                             *)
THEOREM TypeCorrect == Spec => []TypeOK
<1>1. IInv => TypeOK
  BY DEF IInv
<1> QED BY InvariantHolds, <1>1, PTL

(* The tables that ReadSdna makes lie one behind the other, with the       *)
(* padding between them, for any number of names, types and structs.       *)
THEOREM TablesAlwaysTile == Spec => []TablesTile
<1>1. IInv => TablesTile
  BY DEF IInv
<1> QED BY InvariantHolds, <1>1, PTL

(* ReadSdna accepts a body of the native byte order only with as many      *)
(* names, types, structs and fields as were written, one of the other      *)
(* order only with as many as the bytes of each written count make         *)
(* backwards, and both only if they end behind the last struct.            *)
THEOREM AcceptedAlwaysAsWritten == Spec => []AcceptedIsAsWritten
<1>1. IInv => AcceptedIsAsWritten
  BY DEF IInv
<1> QED BY InvariantHolds, <1>1, PTL
=============================================================================
