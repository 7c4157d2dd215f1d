----------------------------- MODULE BlendFile ------------------------------
(***************************************************************************)
(* How ReadBlendData takes a stream apart: ReadHeader, SetEndian, ReadFile *)
(* and the check that the stream is exhausted, one read at a time.         *)
(*                                                                         *)
(* The stream is a MemoryStream or a FileStream as those modules describe  *)
(* them, reduced to what a reader that only reads forward can see: a read  *)
(* is checked against m_Size, and on a file that has become shorter since  *)
(* it was opened it succeeds with fewer bytes and leaves the position at   *)
(* MaxUsize.  What the bytes say is decided when they are read.            *)
(***************************************************************************)
EXTENDS Stream, Sequences

CONSTANTS
  Sizes,          \* the lengths of source to consider
  WrittenLengths, \* the body lengths a writer may give a block
  Radix           \* a length is two digits of this radix

ASSUME BlendFileAssumption ==
  /\ Sizes \subseteq 0 .. SsizeLimit - 1
  /\ Radix \in Nat \ {0}
  /\ WrittenLengths \subseteq 0 .. Radix * Radix - 1

VARIABLES
  kind,         \* "memory" or "file"
  m_Size,
  fileLen,      \* the bytes the source has by now
  position,     \* m_Position
  m_Endian,     \* the byte order the stream turns integers from
  phase,        \* the read, or the check, that comes next
  header,       \* of the file: the pointer width and the byte order it declares
  block,        \* ReadFile's local block, which every round of its loop reuses
  blocks,       \* the blocks read
  written,      \* the lengths of the blocks begun, as the writer wrote them
  result        \* "none", "accepted" or the error

source == <<kind, m_Size, fileLen>>
vars   == <<source, position, m_Endian, phase, header, block, blocks, written, result>>

Endians  == {"little", "big"}
Pointers == {"U32", "U64"}
Codes    == {"", "DATA", "ENDB"}
Errors   == {"UnexpectedEndOfFile", "InvalidFileHeader", "FileNotExhausted"}
Phases   == {"magic", "pointer", "endian", "version", "SetEndian", "code", "length",
             "address", "struct_index", "count", "body", "IsAtEnd", "done"}

Extents    == [from : Usize, count : Nat]
BlockType == [code : Codes, length : Nat, start : Usize, body : Extents]

TypeOK ==
  /\ kind \in {"memory", "file"}
  /\ m_Size \in Sizes \cup {MaxUsize}
  /\ fileLen \in Sizes
  /\ position \in Usize
  /\ m_Endian \in Endians
  /\ phase \in Phases
  /\ header \in [pointer : Pointers, endian : Endians]
  /\ block \in BlockType
  /\ blocks \in Seq(BlockType)
  /\ written \in Seq(Nat)
  /\ result \in {"none", "accepted"} \cup Errors

(* A file that could not be opened is a stream that is at its end.         *)
Init ==
  /\ kind \in {"memory", "file"}
  /\ fileLen \in Sizes
  /\ \/ m_Size = fileLen /\ position = 0
     \/ kind = "file" /\ m_Size = MaxUsize /\ position = MaxUsize
  /\ m_Endian = "little"
  /\ phase = "magic"
  /\ header = [pointer |-> "U64", endian |-> "little"]
  /\ block = [code |-> "", length |-> 0, start |-> 0, body |-> [from |-> 0, count |-> 0]]
  /\ blocks = <<>>
  /\ written = <<>>
  /\ result = "none"

-----------------------------------------------------------------------------
(* Another process may give the file another length.                       *)
Resize ==
  /\ kind = "file" /\ phase # "done"
  /\ fileLen' \in Sizes
  /\ UNCHANGED <<kind, m_Size, position, m_Endian, phase, header, block, blocks, written, result>>

-----------------------------------------------------------------------------
AddressWidth(pointer) == IF pointer = "U32" THEN 4 ELSE 8

\* Mutant: addresses are read as 64 bits wide from every file.
Width64 ==
  CASE phase = "magic"               -> 7
    [] phase \in {"pointer", "endian"} -> 1
    [] phase = "version"             -> 3
    [] phase = "address"             -> 8
    [] phase = "body"                -> block.length
    [] OTHER                         -> 4

(* How many bytes the read of a phase asks for.                            *)
Width ==
  CASE phase = "magic"   -> 7
    [] phase = "pointer" -> 1
    [] phase = "endian"  -> 1
    [] phase = "version" -> 3
    [] phase = "address" -> AddressWidth(header.pointer)
    [] phase = "body"    -> block.length
    [] OTHER             -> 4

HeaderSize == 12

BlockHeaderSize == 16 + AddressWidth(header.pointer)

Reading == phase \notin {"SetEndian", "IsAtEnd", "done"}

(* A read that succeeds moves on by what it asked for, unless the file has *)
(* fewer bytes by now.                                                     *)
IsWhole == position + Width <= fileLen

\* Mutant: the -1 of tellg() is kept.
FetchSigned ==
  /\ CanRead(position, m_Size, Width)
  /\ position' = IF IsWhole THEN position + Width ELSE -1
  /\ UNCHANGED source

Fetch ==
  /\ CanRead(position, m_Size, Width)
  /\ position' = IF IsWhole THEN position + Width ELSE MaxUsize
  /\ UNCHANGED source

Finish(outcome) == phase' = "done" /\ result' = outcome

\* Mutant: a block header that cannot be read is tried again.
ReadFailsAndRetries ==
  /\ Reading
  /\ phase = "body" => block.length # 0
  /\ kind = "file" \/ ~CanRead(position, m_Size, Width)
  /\ IF written = <<>> THEN Finish("UnexpectedEndOfFile")
     ELSE phase' = "code" /\ UNCHANGED result
  /\ UNCHANGED <<source, position, m_Endian, header, block, blocks, written>>

(* Every read that the stream refuses, and on a file any read, may end it. *)
ReadFails ==
  /\ Reading
  /\ phase = "body" => block.length # 0
  /\ kind = "file" \/ ~CanRead(position, m_Size, Width)
  /\ Finish("UnexpectedEndOfFile")
  /\ UNCHANGED <<source, position, m_Endian, header, block, blocks, written>>

(* ReadHeader: magic, pointer width and byte order are checked as they are *)
(* read, the version is not.                                               *)
Following ==
  [magic |-> "pointer", pointer |-> "endian", endian |-> "version", version |-> "SetEndian",
   code |-> "length", length |-> "address", address |-> "struct_index",
   struct_index |-> "count", count |-> "body"]

InvalidHeader ==
  /\ phase \in {"magic", "pointer", "endian"}
  /\ Fetch
  /\ Finish("InvalidFileHeader")
  /\ UNCHANGED <<m_Endian, header, block, blocks, written>>

ReadHeaderField ==
  /\ phase \in {"magic", "pointer", "endian", "version"}
  /\ Fetch
  /\ \/ phase = "pointer" /\ \E pointer \in Pointers : header' = [header EXCEPT !.pointer = pointer]
     \/ phase = "endian" /\ \E endian \in Endians : header' = [header EXCEPT !.endian = endian]
     \/ phase \in {"magic", "version"} /\ UNCHANGED header
  /\ phase' = Following[phase]
  /\ UNCHANGED <<m_Endian, block, blocks, written, result>>

\* Mutant: the stream stays in the native byte order.
KeepEndian ==
  /\ phase = "SetEndian"
  /\ phase' = "code"
  /\ UNCHANGED <<source, position, m_Endian, header, block, blocks, written, result>>

SetEndian ==
  /\ phase = "SetEndian"
  /\ m_Endian' = header.endian
  /\ phase' = "code"
  /\ UNCHANGED <<source, position, header, block, blocks, written, result>>

-----------------------------------------------------------------------------
(* ReadBlockHeader.  The fields start as zero, so what a short read makes  *)
(* of a code is not ENDB, and what it makes of a length is anyone's guess. *)
ReadCode ==
  /\ phase = "code"
  /\ Fetch
  /\ \E code \in {"DATA", "ENDB"} :
       /\ code = "ENDB" => IsWhole
       /\ block' = [block EXCEPT !.code = code, !.start = position]
  /\ phase' = Following[phase]
  /\ UNCHANGED <<m_Endian, header, blocks, written, result>>

ByteSwap(n) == (n % Radix) * Radix + n \div Radix

(* The stream turns an integer around if its byte order is not the native  *)
(* one; the writer wrote it in the byte order that the header declares.    *)
Decoded(n) == IF m_Endian = header.endian THEN n ELSE ByteSwap(n)

ReadLength ==
  /\ phase = "length"
  /\ Fetch
  /\ \E n \in WrittenLengths :
       /\ block' = [block EXCEPT !.length = Decoded(n)]
       /\ written' = Append(written, n)
  /\ phase' = Following[phase]
  /\ UNCHANGED <<m_Endian, header, blocks, result>>

(* The address, the struct index and the count say nothing to ReadFile.    *)
ReadBlockField ==
  /\ phase \in {"address", "struct_index", "count"}
  /\ Fetch
  /\ phase' = Following[phase]
  /\ UNCHANGED <<m_Endian, header, block, blocks, written, result>>

(* The end of a round of ReadFile's loop.                                  *)
PushBack(b) ==
  /\ blocks' = Append(blocks, b)
  /\ phase' = IF b.code = "ENDB" THEN "IsAtEnd" ELSE "code"

(* A block of length 0 reads no body, and is pushed with the one that the  *)
(* local block still has.                                                  *)
SkipBody ==
  /\ phase = "body"
  /\ block.length = 0
  /\ PushBack(block)
  /\ UNCHANGED <<source, position, m_Endian, header, block, written, result>>

\* Mutant: the block is pushed before its body is read.
ReadBodyLate ==
  /\ phase = "body"
  /\ block.length # 0
  /\ Fetch
  /\ block' = [block EXCEPT !.body = [from |-> position, count |-> block.length]]
  /\ PushBack(block)
  /\ UNCHANGED <<m_Endian, header, written, result>>

ReadBody ==
  LET got == IF IsWhole THEN block.length
             ELSE IF position >= fileLen THEN 0 ELSE fileLen - position
  IN  /\ phase = "body"
      /\ block.length # 0
      /\ Fetch
      /\ block' = [block EXCEPT !.body = [from |-> position, count |-> got]]
      /\ PushBack(block')
      /\ UNCHANGED <<m_Endian, header, written, result>>

\* Mutant: what follows the ENDB block is not looked for.
AcceptAnyEnd ==
  /\ phase = "IsAtEnd"
  /\ Finish("accepted")
  /\ UNCHANGED <<source, position, m_Endian, header, block, blocks, written>>

CheckExhausted ==
  /\ phase = "IsAtEnd"
  /\ Finish(IF IsAtEnd(position, m_Size) THEN "accepted" ELSE "FileNotExhausted")
  /\ UNCHANGED <<source, position, m_Endian, header, block, blocks, written>>

Step ==
  \/ ReadFails
  \/ InvalidHeader
  \/ ReadHeaderField
  \/ SetEndian
  \/ ReadCode
  \/ ReadLength
  \/ ReadBlockField
  \/ SkipBody
  \/ ReadBody
  \/ CheckExhausted

Next == Step \/ Resize

(* The thread that called Blend::Open or Blend::Read keeps running.        *)
Spec == Init /\ [][Next]_vars /\ WF_vars(Step)

-----------------------------------------------------------------------------
(***************************************************************************)
(* Properties.                                                             *)
(***************************************************************************)
EndOf(b) == b.start + BlockHeaderSize + b.length

NextStart == IF blocks = <<>> THEN HeaderSize ELSE EndOf(blocks[Len(blocks)])

IsShort == position = MaxUsize    \* the last read handed out fewer bytes than it should

(* The blocks tile the source: the first one begins behind the header,     *)
(* each begins where the one before it says it ends, whichever pointer     *)
(* width, body lengths and byte order, and the next one is looked for      *)
(* where the last one ended.                                               *)
BlocksTile ==
  /\ \A i \in 1 .. Len(blocks) :
       blocks[i].start = IF i = 1 THEN HeaderSize ELSE EndOf(blocks[i - 1])
  /\ phase \in {"code", "IsAtEnd"} /\ ~IsShort => position = NextStart

(* The body of a block that has one is the bytes behind its own header,    *)
(* all of them, unless it is the last thing read from a file that has      *)
(* become shorter.  A block without a body carries the body of the last    *)
(* block before it that had one.                                           *)
BodiesAreTheirBlocks ==
  \A i \in 1 .. Len(blocks) :
    IF blocks[i].length = 0
    THEN i > 1 => blocks[i].body = blocks[i - 1].body
    ELSE /\ blocks[i].body.from = blocks[i].start + BlockHeaderSize
         /\ \/ blocks[i].body.count = blocks[i].length
            \/ i = Len(blocks) /\ IsShort /\ kind = "file"

(* What is accepted has exactly one ENDB block, the last one, and nothing  *)
(* behind it; whatever else happens to a file while it is read, every      *)
(* block before the last one is whole.                                     *)
AcceptedIsComplete ==
  result = "accepted" =>
    /\ \A i \in 1 .. Len(blocks) : blocks[i].code = "ENDB" <=> i = Len(blocks)
    /\ blocks # <<>>
    /\ m_Size = NextStart \/ (kind = "file" /\ IsShort /\ m_Size >= NextStart)

(* The error tells the truth.  The end of memory was unexpected if the     *)
(* item being read does not fit into what is left; of a file, which may    *)
(* refuse any read, nothing is said.  Either was not exhausted if, going   *)
(* by the length it had when it was opened, bytes follow the ENDB block,   *)
(* whatever has happened to its length since.                              *)
ErrorsAreTruthful ==
  [][result = "none" =>
       /\ kind = "memory" /\ result' = "UnexpectedEndOfFile" => position + Width > m_Size
       /\ result' = "FileNotExhausted" => NextStart < m_Size]_vars

(* The length of every block is the one its writer wrote, in either byte   *)
(* order: the stream knows the byte order before the first length is read. *)
LengthsAreAsWritten ==
  \A i \in 1 .. Len(blocks) : blocks[i].length = written[i]

(* Reading ends: every round of the loop uses up the source, and a stream  *)
(* that failed refuses the next read.                                      *)
ReadingEnds == <>(phase = "done")
=============================================================================
