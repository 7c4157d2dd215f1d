---------------------------- MODULE MemoryStream ----------------------------
(***************************************************************************)
(* cblend::MemoryStream: a stream over a span of memory that nobody else   *)
(* changes, under every sequence of calls a client can make.  The span is  *)
(* described by its length and by which of its bytes are NUL, the only     *)
(* byte value any member function looks at.                                *)
(***************************************************************************)
EXTENDS Stream

CONSTANTS
  Sizes,        \* the lengths of span to consider
  Lengths,      \* the read sizes clients ask for
  Alignments    \* the alignments clients ask for

(* No object is larger than PTRDIFF_MAX bytes; Align divides by its        *)
(* argument.                                                               *)
ASSUME MemoryStreamAssumption ==
  /\ Sizes \subseteq 0 .. SsizeLimit - 1
  /\ Lengths \subseteq 0 .. SsizeLimit - 1
  /\ Alignments \subseteq 1 .. SsizeLimit - 1

VARIABLES
  m_Size,
  nuls,         \* the offsets of the span's NUL bytes
  m_Position,
  ret           \* the last call: its name, its arguments and what it returned

vars == <<m_Size, nuls, m_Position, ret>>

Calls == {"MemoryStream", "Read", "ReadString", "ReadView", "Seek", "Skip",
          "Align", "ReadAt", "ReadStringAt"}

NoSeek == [kind |-> "none", value |-> 0]

TypeOK ==
  /\ m_Size \in Sizes
  /\ nuls \in SUBSET (0 .. m_Size - 1)
  /\ m_Position \in Usize
  /\ ret \in [call : Calls, arg : Int, seek : SeekValues \cup {NoSeek},
             ok : BOOLEAN, from : Usize, count : Usize]

(* The constructor.                                                        *)
Init ==
  /\ m_Size \in Sizes
  /\ nuls \in SUBSET (0 .. m_Size - 1)
  /\ m_Position = 0
  /\ ret = [call |-> "MemoryStream", arg |-> 0, seek |-> NoSeek,
            ok |-> TRUE, from |-> 0, count |-> 0]

-----------------------------------------------------------------------------
(* The virtual functions of the stream, as what a call made at a given     *)
(* position does.                                                          *)

SeekAbsolute(at, position) ==
  IF position >= m_Size THEN Refused(at) ELSE Moved(position)

(* Mutants: the sum that does not wrap, and the sum compared before it     *)
(* wraps.                                                                  *)
SeekRelativeUnwrapped(at, by) ==
  IF at + by >= m_Size THEN Refused(at) ELSE Moved(at + by)

SeekRelativeSigned(at, by) ==
  IF at + by >= m_Size THEN Refused(at) ELSE Moved(ToUsize(at + by))

(* The sum wraps, so a step before the beginning is a huge position.       *)
SeekRelative(at, by) ==
  IF ToUsize(at + by) >= m_Size THEN Refused(at) ELSE Moved(ToUsize(at + by))

SeekPosition(kind) == Moved(IF kind = "begin" THEN 0 ELSE m_Size)

SeekOutcome(at, seek) ==
  CASE seek.kind \in {"begin", "end"} -> SeekPosition(seek.kind)
    [] seek.kind = "absolute"         -> SeekAbsolute(at, seek.value)
    [] seek.kind = "relative"         -> SeekRelative(at, seek.value)

\* Mutant: the end is checked and the length is not.
ReadOutcomeUnchecked(at, n) ==
  IF IsAtEnd(at, m_Size) THEN Refused(at) ELSE Handed(at, n, at + n)

ReadOutcome(at, n) ==
  IF CanRead(at, m_Size, n) THEN Handed(at, n, at + n) ELSE Refused(at)

(* Characters are read one by one up to a NUL, which is consumed too; if   *)
(* there is none the characters are lost and the stream is at its end.     *)
NulsFrom(at) == {k \in nuls : k >= at}

FirstNul(at) == CHOOSE k \in NulsFrom(at) : \A j \in NulsFrom(at) : k <= j

StringOutcome(at) ==
  IF NulsFrom(at) = {}
  THEN Refused(m_Size)
  ELSE Handed(at, FirstNul(at) - at, FirstNul(at) + 1)

\* Mutant: a read that failed returns early, from where it was made.
SeekBackUnlessFailed(at, got) ==
  LET back == SeekAbsolute(got.position, at)
  IN  IF ~got.ok \/ ~back.ok THEN Refused(got.position)
      ELSE [got EXCEPT !.position = back.position]

(* A read elsewhere: seek, read, seek back.  The seek back is an absolute  *)
(* one and may itself be refused.                                          *)
SeekBack(at, got) ==
  LET back == SeekAbsolute(got.position, at)
  IN  IF back.ok THEN [got EXCEPT !.position = back.position]
      ELSE Refused(got.position)

ReadAtOutcome(at, seek, n) ==
  LET there == SeekOutcome(at, seek)
  IN  IF there.ok THEN SeekBack(at, ReadOutcome(there.position, n))
      ELSE Refused(at)

StringAtOutcome(at, seek) ==
  LET there == SeekOutcome(at, seek)
  IN  IF there.ok THEN SeekBack(at, StringOutcome(there.position))
      ELSE Refused(at)

-----------------------------------------------------------------------------
Return(call, arg, seek, outcome) ==
  /\ m_Position' = outcome.position
  /\ ret' = [call |-> call, arg |-> arg, seek |-> seek, ok |-> outcome.ok,
             from |-> outcome.from, count |-> outcome.count]
  /\ UNCHANGED <<m_Size, nuls>>

Read(n) == Return("Read", n, NoSeek, ReadOutcome(m_Position, n))

ReadString == Return("ReadString", 0, NoSeek, StringOutcome(m_Position))

(* The string_view overload: it reads the same characters, and hands out   *)
(* the memory itself from where the position was on entry.                 *)
ReadView == Return("ReadView", 0, NoSeek, StringOutcome(m_Position))

Seek(seek) == Return("Seek", 0, seek, SeekOutcome(m_Position, seek))

Skip(n) ==
  Return("Skip", n, NoSeek, SeekOutcome(m_Position, SeekRelativeBy(ToSsize(n))))

Align(alignment) ==
  LET position == AlignTarget(m_Position, alignment)
  IN  Return("Align", alignment, NoSeek,
             IF position >= m_Size THEN Refused(m_Position) ELSE Moved(position))

ReadAt(seek, n) ==
  Return("ReadAt", n, seek, ReadAtOutcome(m_Position, seek, n))

ReadStringAt(seek) ==
  Return("ReadStringAt", 0, seek, StringAtOutcome(m_Position, seek))

Next ==
  \/ \E n \in Lengths : Read(n)
  \/ ReadString
  \/ ReadView
  \/ \E seek \in SeekValues : Seek(seek)
  \/ \E n \in Usize : Skip(n)
  \/ \E alignment \in Alignments : Align(alignment)
  \/ \E seek \in SeekValues, n \in Lengths : ReadAt(seek, n)
  \/ \E seek \in SeekValues : ReadStringAt(seek)

Spec == Init /\ [][Next]_vars

-----------------------------------------------------------------------------
(***************************************************************************)
(* Properties.                                                             *)
(***************************************************************************)

(* However seeks, aligns and reads are combined, and whatever numbers they *)
(* are given, the position never passes the end of the span: the pointer   *)
(* m_Span.data() + m_Position is always one that memcpy may be given.      *)
PositionInBounds == m_Position <= m_Size

(* The place a seek asks for, as a number that does not wrap, and whether  *)
(* the stream goes there: the end is only reached by its own name.         *)
Sought(seek) ==
  CASE seek.kind = "begin"    -> 0
    [] seek.kind = "end"      -> m_Size
    [] seek.kind = "absolute" -> seek.value
    [] seek.kind = "relative" -> m_Position + seek.value

IsThere(seek) == seek.kind \in {"begin", "end"} \/ Sought(seek) \in 0 .. m_Size - 1

Goes(to)  == ret'.ok /\ m_Position' = to
IsRefused == ~ret'.ok /\ m_Position' = m_Position

SeeksGoThere ==
  ret'.call = "Seek" => IF IsThere(ret'.seek) THEN Goes(Sought(ret'.seek)) ELSE IsRefused

SkipsGoOn ==
  LET to == m_Position + (IF ret'.arg < SsizeLimit THEN ret'.arg ELSE ret'.arg - Modulus)
  IN  ret'.call = "Skip" => IF to \in 0 .. m_Size - 1 THEN Goes(to) ELSE IsRefused

AlignsGoToBoundaries ==
  LET boundaries == {p \in m_Position .. m_Size - 1 : p % ret'.arg = 0}
  IN  ret'.call = "Align" =>
        IF boundaries = {} THEN IsRefused
        ELSE \E p \in boundaries : Goes(p) /\ \A q \in boundaries : p <= q

(* What a read at a place may be given, and is.                            *)
OfBytes == ret'.call \in {"Read", "ReadAt"}

HasAt(p) ==
  IF OfBytes THEN p < m_Size /\ p + ret'.arg <= m_Size
  ELSE nuls \cap (p .. m_Size - 1) # {}

EndsAtFirstNul(got) ==
  /\ nuls \cap (got.from .. got.from + got.count - 1) = {}
  /\ got.from + got.count \in nuls

HandsOutFrom(p) ==
  /\ ret'.ok
  /\ ret'.from = p
  /\ IF OfBytes THEN ret'.count = ret'.arg ELSE EndsAtFirstNul(ret')

ReadsGoOn ==
  ret'.call \in {"Read", "ReadString", "ReadView"} =>
    IF HasAt(m_Position)
    THEN /\ HandsOutFrom(m_Position)
         /\ m_Position' = m_Position + ret'.count + (IF OfBytes THEN 0 ELSE 1)
    ELSE ~ret'.ok /\ m_Position' = IF OfBytes THEN m_Position ELSE m_Size

PositionalReadsComeBack ==
  ret'.call \in {"ReadAt", "ReadStringAt"} =>
    /\ IF m_Position < m_Size /\ IsThere(ret'.seek) /\ HasAt(Sought(ret'.seek))
       THEN HandsOutFrom(Sought(ret'.seek))
       ELSE ~ret'.ok
    /\ m_Position < m_Size => m_Position' = m_Position

(* Every call does what it was asked for if that can be done, and is       *)
(* refused if not; a refused one leaves the position alone.  A seek goes   *)
(* to the place it names, however the sum wraps, a Skip by its number and  *)
(* an Align to the next boundary.  A read hands out the bytes asked for,   *)
(* and one of a string those before the first NUL, from the position or,   *)
(* if it is a positional one, from the place sought, and it comes back.    *)
(* What is not so is part of it: a Skip by more than PTRDIFF_MAX goes back *)
(* by what it lacks of the wrap, the end can only be sought by its name, a *)
(* string without a NUL is lost and leaves the stream at its end, and at   *)
(* the end every positional read is refused, wherever it leaves the stream *)
(* then, as it cannot go back there.                                       *)
CallsDoAsAsked ==
  [][/\ SeeksGoThere
     /\ SkipsGoOn
     /\ AlignsGoToBoundaries
     /\ ReadsGoOn
     /\ PositionalReadsComeBack]_vars

(* A memory stream keeps the promise of ByteCursor: what a successful read *)
(* hands out is what was under the position, or, for a positional read,    *)
(* what is at the place it sought from where the position is and stays.    *)
Cursor == INSTANCE ByteCursor WITH
            size   <- m_Size,
            cursor <- m_Position,
            asked  <- IF ~ret.ok THEN [how |-> "none", place |-> 0]
                      ELSE CASE ret.call \in {"Read", "ReadString", "ReadView"} ->
                                  [how |-> "next", place |-> 0]
                             [] ret.call \in {"ReadAt", "ReadStringAt"} ->
                                  [how |-> "elsewhere", place |-> Sought(ret.seek)]
                             [] OTHER -> [how |-> "none", place |-> 0],
            out    <- [from |-> ret.from, count |-> ret.count]

ImplementsByteCursor == Cursor!Spec
=============================================================================
