-------------------------------- MODULE Sdna --------------------------------
(***************************************************************************)
(* ReadSdna: how the body of the DNA1 block is taken apart into the names  *)
(* of fields, the names and the lengths of types, and the structs.  The    *)
(* body is read as a MemoryStream, of which only the position and the size *)
(* matter here; what the bytes say is decided when they are read.          *)
(*                                                                         *)
(* The stream is made in ReadSdna and stays in the native byte order,      *)
(* whichever one the file was written in.                                  *)
(***************************************************************************)
EXTENDS Stream, Sequences, SequencesExt

CONSTANTS
  Sizes,          \* the lengths of body to consider
  StringLengths,  \* the lengths a string may have
  Radix,          \* how many values a byte has
  WrittenCounts   \* the counts a writer may write

ASSUME SdnaAssumption ==
  /\ Sizes \subseteq 0 .. SsizeLimit - 1
  /\ StringLengths \subseteq 0 .. SsizeLimit - 1
  /\ Radix \in Nat \ {0, 1}
  /\ WrittenCounts \subseteq 0 .. Radix * Radix * Radix * Radix - 1

VARIABLES
  m_Size,
  foreign,       \* the file was written in the other byte order
  position,      \* m_Position
  section,       \* the tag of the section that is read
  at,            \* the part of the section that comes next
  count,         \* of the entries of the section
  field_names,   \* the strings, as runs of bytes of the body
  type_names,
  type_lengths,  \* where the lengths are
  structs,       \* where each struct is, its number of fields, and where they are
  written,       \* the counts read so far, as their writer wrote them
  result         \* "none", "accepted" or the error

body  == <<m_Size, foreign>>
lists == <<field_names, type_names, type_lengths, structs>>
vars  == <<body, position, section, at, count, lists, written, result>>

Sections == <<"SDNA", "NAME", "TYPE", "TLEN", "STRC">>
Errors   == {"SdnaNotFound", "InvalidSdnaHeader", "UnexpectedEndOfSdna", "SdnaNotExhausted"}

Runs == [from : Usize, count : Usize]

TypeOK ==
  /\ m_Size \in Sizes /\ foreign \in BOOLEAN
  /\ position \in 0 .. m_Size
  /\ section \in Range(Sections) \cup {"DNA1", ""}
  /\ at \in {"code", "count", "entries", "fields", "align", "done"}
  /\ count \in Nat
  /\ field_names \in Seq(Runs) /\ type_names \in Seq(Runs)
  /\ type_lengths \in Seq(Usize)
  /\ structs \in Seq([from : Usize, field_count : Nat, fields : Seq(Usize)])
  /\ written \in Seq(WrittenCounts)
  /\ result \in {"none", "accepted"} \cup Errors

Init ==
  /\ m_Size \in Sizes /\ foreign \in BOOLEAN
  /\ position = 0
  /\ section = "DNA1"
  /\ at = "code"
  /\ count = 0
  /\ field_names = <<>> /\ type_names = <<>> /\ type_lengths = <<>> /\ structs = <<>>
  /\ written = <<>>
  /\ result = "none"

-----------------------------------------------------------------------------
Finish(outcome) == at' = "done" /\ result' = outcome

(* The first block with the code DNA1, if there is one.                    *)
FindBlock ==
  /\ section = "DNA1" /\ at = "code"
  /\ \/ section' = "SDNA" /\ UNCHANGED <<at, result>>
     \/ Finish("SdnaNotFound") /\ UNCHANGED section
  /\ UNCHANGED <<body, position, count, lists, written>>

(* The struct that is being read is the last one.                          *)
StructHasFields == Len(Last(structs).fields) < Last(structs).field_count

HasEntries ==
  /\ at = "entries"
  /\ Len(CASE section = "NAME" -> field_names
           [] section = "TYPE" -> type_names
           [] section = "TLEN" -> type_lengths
           [] section = "STRC" -> structs) < count

IsTable == section \in {"TLEN", "STRC"}

(* The reads of a fixed size.  The two halves of a field, and the type of  *)
(* a struct and its number of fields, are taken as one read: either of     *)
(* them that fails ends it all.                                            *)
IsFixed ==
  /\ section # "DNA1"
  /\ \/ at \in {"code", "count"}
     \/ HasEntries /\ IsTable
     \/ at = "fields" /\ StructHasFields

Width == IF section = "TLEN" /\ at = "entries" THEN 2 ELSE 4

Fetch ==
  /\ CanRead(position, m_Size, Width)
  /\ position' = position + Width

ReadFails ==
  /\ \/ IsFixed /\ ~CanRead(position, m_Size, Width)
     \/ HasEntries /\ ~IsTable             \* no NUL in what is left
     \/ at = "align" /\ AlignTarget(position, 4) >= m_Size
  /\ Finish("UnexpectedEndOfSdna")
  /\ UNCHANGED <<body, position, section, count, lists, written>>

-----------------------------------------------------------------------------
\* Mutant: as many lengths as there are names of fields.
ReadCodeOfFields ==
  /\ section # "DNA1" /\ at = "code"
  /\ Fetch
  /\ \/ /\ section = "SDNA"
        /\ section' = "NAME"
        /\ UNCHANGED <<at, count, result>>
     \/ /\ section = "TLEN"
        /\ at' = "entries"
        /\ count' = Len(field_names)
        /\ UNCHANGED <<section, result>>
     \/ /\ section \notin {"SDNA", "TLEN"}
        /\ at' = "count"
        /\ UNCHANGED <<section, count, result>>
     \/ /\ Finish("InvalidSdnaHeader")
        /\ UNCHANGED <<section, count>>
  /\ UNCHANGED <<body, lists, written>>

ReadCode ==
  /\ section # "DNA1" /\ at = "code"
  /\ Fetch
  /\ \/ /\ section = "SDNA"
        /\ section' = "NAME"
        /\ UNCHANGED <<at, count, result>>
     \/ /\ section = "TLEN"                \* as many as there are names of types
        /\ at' = "entries"
        /\ count' = Len(type_names)
        /\ UNCHANGED <<section, result>>
     \/ /\ section \notin {"SDNA", "TLEN"}
        /\ at' = "count"
        /\ UNCHANGED <<section, count, result>>
     \/ /\ Finish("InvalidSdnaHeader")
        /\ UNCHANGED <<section, count>>
  /\ UNCHANGED <<body, lists, written>>

(* The bytes of a u32 and of a u16, and the number that bytes are.         *)
Bytes(n) ==
  LET Higher(m) == m \div Radix
  IN  <<n % Radix, Higher(n) % Radix, Higher(Higher(n)) % Radix,
        Higher(Higher(Higher(n))) % Radix>>

ShortBytes(n) == <<n % Radix, (n \div Radix) % Radix>>

Number(bytes) ==
  ((bytes[4] * Radix + bytes[3]) * Radix + bytes[2]) * Radix + bytes[1]

ShortNumber(bytes) == bytes[2] * Radix + bytes[1]

(* Nothing turns the bytes of the other byte order around, so a count is   *)
(* read as if its writer had turned them around.                           *)
ByteSwap(n)      == Number(Reverse(Bytes(n)))
ByteSwapShort(n) == ShortNumber(Reverse(ShortBytes(n)))

Decoded(n)      == IF foreign THEN ByteSwap(n) ELSE n
DecodedShort(n) == IF foreign THEN ByteSwapShort(n) ELSE n

ReadCount ==
  /\ at = "count"
  /\ Fetch
  /\ \E n \in WrittenCounts :
       /\ count' = Decoded(n)
       /\ written' = Append(written, n)
  /\ at' = "entries"
  /\ UNCHANGED <<body, section, lists, result>>

\* Mutant: the end of the body ends a string as well.
ReadStringUnended ==
  /\ HasEntries /\ ~IsTable
  /\ \E n \in StringLengths :
       LET string == [from |-> position, count |-> n]
       IN  /\ position + n <= m_Size
           /\ position' = position + n + 1
           /\ IF section = "NAME"
              THEN field_names' = Append(field_names, string) /\ UNCHANGED type_names
              ELSE type_names' = Append(type_names, string) /\ UNCHANGED field_names
  /\ UNCHANGED <<body, section, at, count, type_lengths, structs, written, result>>

(* A string and its NUL.                                                   *)
ReadString ==
  /\ HasEntries /\ ~IsTable
  /\ \E n \in StringLengths :
       LET string == [from |-> position, count |-> n]
       IN  /\ position + n < m_Size
           /\ position' = position + n + 1
           /\ IF section = "NAME"
              THEN field_names' = Append(field_names, string) /\ UNCHANGED type_names
              ELSE type_names' = Append(type_names, string) /\ UNCHANGED field_names
  /\ UNCHANGED <<body, section, at, count, type_lengths, structs, written, result>>

ReadLength ==
  /\ section = "TLEN" /\ HasEntries
  /\ Fetch
  /\ type_lengths' = Append(type_lengths, position)
  /\ UNCHANGED <<body, section, at, count, field_names, type_names, structs, written, result>>

ReadStruct ==
  /\ section = "STRC" /\ HasEntries
  /\ Fetch
  /\ \E n \in WrittenCounts :
       /\ n < Radix * Radix
       /\ structs' = Append(structs, [from |-> position, field_count |-> DecodedShort(n),
                                      fields |-> <<>>])
       /\ written' = Append(written, n)
  /\ at' = "fields"
  /\ UNCHANGED <<body, section, count, field_names, type_names, type_lengths, result>>

ReadField ==
  /\ at = "fields" /\ StructHasFields
  /\ Fetch
  /\ structs' = [structs EXCEPT ![Len(structs)].fields = Append(@, position)]
  /\ UNCHANGED <<body, section, at, count, field_names, type_names, type_lengths, written, result>>

EndStruct ==
  /\ at = "fields" /\ ~StructHasFields
  /\ at' = "entries"
  /\ UNCHANGED <<body, position, section, count, lists, written, result>>

EndEntries ==
  /\ at = "entries" /\ ~HasEntries /\ section # "STRC"
  /\ at' = "align"
  /\ UNCHANGED <<body, position, section, count, lists, written, result>>

Following == [NAME |-> "TYPE", TYPE |-> "TLEN", TLEN |-> "STRC"]

\* Mutant: the lengths are not padded.
AlignNames ==
  LET next == IF section = "TLEN" THEN position ELSE AlignTarget(position, 4)
  IN  /\ at = "align"
      /\ next < m_Size
      /\ position' = next
      /\ section' = Following[section]
      /\ at' = "code"
      /\ UNCHANGED <<body, count, lists, written, result>>

AlignSection ==
  /\ at = "align"
  /\ AlignTarget(position, 4) < m_Size
  /\ position' = AlignTarget(position, 4)
  /\ section' = Following[section]
  /\ at' = "code"
  /\ UNCHANGED <<body, count, lists, written, result>>

(* The structs are the last section, which is not padded.                  *)
CheckExhausted ==
  /\ at = "entries" /\ ~HasEntries /\ section = "STRC"
  /\ Finish(IF IsAtEnd(position, m_Size) THEN "accepted" ELSE "SdnaNotExhausted")
  /\ UNCHANGED <<body, position, section, count, lists, written>>

Next ==
  \/ FindBlock
  \/ ReadFails
  \/ ReadCode
  \/ ReadCount
  \/ ReadString
  \/ ReadLength
  \/ ReadStruct
  \/ ReadField
  \/ EndStruct
  \/ EndEntries
  \/ AlignSection
  \/ CheckExhausted

Spec == Init /\ [][Next]_vars

-----------------------------------------------------------------------------
(***************************************************************************)
(* Properties.                                                             *)
(***************************************************************************)
EndOf(run) == run.from + run.count + 1

(* Where the entries of the sections begin: each section at the first      *)
(* multiple of four behind the one before it, four bytes of tag, and four  *)
(* bytes of count except for the lengths.                                  *)
Pad(n) == 4 * ((n + 3) \div 4)

NamesAt   == 12
TypesAt   == Pad(IF field_names = <<>> THEN NamesAt ELSE EndOf(Last(field_names))) + 8
LengthsAt == Pad(IF type_names = <<>> THEN TypesAt ELSE EndOf(Last(type_names))) + 4
StructsAt == Pad(LengthsAt + 2 * Len(type_lengths)) + 8

StringsTile(strings, start) ==
  \A i \in DOMAIN strings :
    strings[i].from = IF i = 1 THEN start ELSE EndOf(strings[i - 1])

(* The four tables lie one behind the other in the body: the strings of a  *)
(* table with a NUL between them, the lengths every two bytes, each struct *)
(* behind the last field of the one before.                                *)
TablesTile ==
  /\ StringsTile(field_names, NamesAt)
  /\ StringsTile(type_names, TypesAt)
  /\ \A i \in DOMAIN type_lengths : type_lengths[i] = LengthsAt + 2 * (i - 1)
  /\ \A i \in DOMAIN structs :
       LET Behind(struct) == struct.from + 4 + 4 * struct.field_count
       IN  /\ structs[i].from = IF i = 1 THEN StructsAt ELSE Behind(structs[i - 1])
           /\ \A k \in DOMAIN structs[i].fields : structs[i].fields[k] = structs[i].from + 4 * k

(* What has been read of everything that a count was written for.          *)
Counts == <<Len(field_names), Len(type_names), Len(structs)>>
            \o [i \in DOMAIN structs |-> Len(structs[i].fields)]

(* The three counts of tables are u32, and those of fields u16.            *)
SameBytesBackwards(i, n, m) ==
  IF i <= 3 THEN Bytes(n) = Reverse(Bytes(m)) ELSE ShortBytes(n) = Reverse(ShortBytes(m))

(* What is accepted has as many names, types, structs and fields as its    *)
(* writer wrote, a length for every type, and nothing behind the last      *)
(* struct.  In the other byte order it has as many of each as the bytes of *)
(* the written count make backwards, which are as many as written only if  *)
(* these read the same from both ends: mostly it is refused, but ReadSdna  *)
(* does take a body for what it is not when the numbers happen to fit.     *)
AcceptedIsAsWritten ==
  result = "accepted" =>
    /\ Len(Counts) = Len(written)
    /\ \A i \in DOMAIN written :
         IF foreign THEN SameBytesBackwards(i, Counts[i], written[i])
         ELSE Counts[i] = written[i]
    /\ Len(type_lengths) = Len(type_names)
    /\ m_Size = IF structs = <<>> THEN StructsAt
                ELSE Last(structs).from + 4 + 4 * Last(structs).field_count
=============================================================================
