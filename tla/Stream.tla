------------------------------- MODULE Stream -------------------------------
(***************************************************************************)
(* The part of cblend::Stream that MemoryStream and FileStream share: the  *)
(* machine integers a position is made of, the questions a stream answers  *)
(* about itself, and the arithmetic of Align.  A stream is described by    *)
(* its m_Position and its m_Size; which bytes it holds does not matter     *)
(* here, so a run of bytes is named by where it starts and how long it is. *)
(***************************************************************************)
EXTENDS Integers

CONSTANT SsizeLimit   \* 2^(w-1) for a machine word of w bits

ASSUME SsizeAssumption == SsizeLimit \in Nat \ {0}

Modulus  == 2 * SsizeLimit
Usize    == 0 .. Modulus - 1                    \* std::size_t
Ssize    == -SsizeLimit .. SsizeLimit - 1       \* std::ptrdiff_t
MaxUsize == Modulus - 1

(* An integer brought into usize.  One wrap is enough: it is only applied  *)
(* to an ssize, and to the sum or difference of two words.                 *)
ToUsize(x) ==
  IF x < 0 THEN x + Modulus ELSE IF x >= Modulus THEN x - Modulus ELSE x

(* ssize(n), as Skip and FileStream::SeekAbsolute convert their argument.  *)
ToSsize(n) == IF n >= SsizeLimit THEN n - Modulus ELSE n

(* std::variant<StreamPosition, usize, ssize>.                             *)
SeekValues ==
  [kind : {"begin", "end"}, value : {0}]
    \cup [kind : {"absolute"}, value : Usize]
    \cup [kind : {"relative"}, value : Ssize]

SeekAbsoluteTo(p) == [kind |-> "absolute", value |-> p]
SeekRelativeBy(d) == [kind |-> "relative", value |-> d]

-----------------------------------------------------------------------------
IsAtEnd(position, size) == position >= size

\* Mutant: a read of all that is left is refused.
CanReadStrictly(position, size, n) ==
  /\ ~IsAtEnd(position, size)
  /\ size - position > n

CanRead(position, size, n) ==
  /\ ~IsAtEnd(position, size)
  /\ size - position >= n

(* The multiple of alignment that Align moves to, in usize arithmetic.     *)
AlignTarget(position, alignment) ==
  LET quotient  == position \div alignment
      remainder == IF position % alignment # 0 THEN 1 ELSE 0
  IN  ToUsize((quotient + remainder) * alignment)

-----------------------------------------------------------------------------
(* What a call tells its caller: whether it succeeded and, for a read, the *)
(* run of bytes it handed out.                                             *)
Refused(position) ==
  [ok |-> FALSE, position |-> position, from |-> 0, count |-> 0]

Moved(position) ==
  [ok |-> TRUE, position |-> position, from |-> 0, count |-> 0]

Handed(from, count, position) ==
  [ok |-> TRUE, position |-> position, from |-> from, count |-> count]

=============================================================================
