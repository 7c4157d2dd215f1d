------------------------- MODULE MemoryStreamProofs -------------------------
(***************************************************************************)
(* MemoryStream for every word size, every span and every sequence of      *)
(* calls: the position stays inside the span, every call does what it was  *)
(* asked for or is refused, and the stream implements ByteCursor.          *)
(***************************************************************************)
EXTENDS MemoryStream, FiniteSetTheorems, TLAPS

(* A non-empty set of naturals has a least element: an interval from 0 to  *)
(* one of its elements is finite, and one of these contains no other.      *)
LEMMA LeastElement ==
  ASSUME NEW S \in SUBSET Nat, S # {}
  PROVE  \E k \in S : \A j \in S : k <= j
<1> DEFINE Upto(k) == 0 .. k
           T       == {Upto(k) : k \in S}
<1>1. PICK k \in S : \A j \in S : ~(<<Upto(j), Upto(k)>> \in StrictSubsetOrdering(Nat))
  <2>1. ASSUME NEW k \in S PROVE IsFiniteSet(Upto(k)) /\ Upto(k) \in SUBSET Nat
    BY FS_Interval
  <2>2. T \subseteq FiniteSubsetsOf(Nat) /\ T # {}
    BY <2>1 DEF FiniteSubsetsOf
  <2>3. \E x \in T : \A y \in T : ~(<<y, x>> \in StrictSubsetOrdering(Nat))
    <3> HIDE DEF T
    <3> QED BY <2>2, FS_StrictSubsetOrderingWellFounded, WFMin
  <2> QED BY <2>3
<1>2. ASSUME NEW j \in S, j < k PROVE FALSE
  <2>1. /\ Upto(j) \in SUBSET Nat /\ Upto(k) \in SUBSET Nat
        /\ Upto(j) \subseteq Upto(k) /\ Upto(k) # Upto(j)
    BY <1>2
  <2> HIDE DEF Upto
  <2> QED BY <1>1, <2>1 DEF StrictSubsetOrdering
<1> QED BY <1>2

-----------------------------------------------------------------------------
(***************************************************************************)
(* The inductive invariant.  Type correctness alone is not inductive: a    *)
(* string read from beyond the end would not know where to stop.           *)
(***************************************************************************)
IInv == TypeOK /\ PositionInBounds

LEMMA SizeType ==
  ASSUME IInv
  PROVE  /\ m_Size \in Nat /\ m_Size < SsizeLimit /\ SsizeLimit \in Nat \ {0}
         /\ m_Position \in 0 .. m_Size /\ m_Position \in Nat
         /\ nuls \in SUBSET (0 .. m_Size - 1)
         /\ Lengths \subseteq Nat
<1>1. m_Size \in Nat /\ m_Size < SsizeLimit /\ SsizeLimit \in Nat \ {0}
  BY MemoryStreamAssumption, SsizeAssumption DEF IInv, TypeOK
<1>2. m_Position \in Nat /\ m_Position <= m_Size /\ nuls \in SUBSET (0 .. m_Size - 1)
  BY <1>1 DEF IInv, TypeOK, PositionInBounds, Usize, Modulus
<1>3. Lengths \subseteq Nat
  BY MemoryStreamAssumption
<1> QED BY <1>1, <1>2, <1>3

-----------------------------------------------------------------------------
(***************************************************************************)
(* What the virtual functions answer.                                      *)
(***************************************************************************)
(* A seek goes to the place sought or nowhere: the sum of SeekRelative     *)
(* wraps only if it is negative, and is beyond every span then.            *)
LEMMA SeekGoes ==
  ASSUME IInv, NEW seek \in SeekValues
  PROVE  /\ SeekOutcome(m_Position, seek) =
              IF IsThere(seek) THEN Moved(Sought(seek)) ELSE Refused(m_Position)
         /\ IsThere(seek) => Sought(seek) \in 0 .. m_Size
<1>1. CASE seek.kind \in {"begin", "end"}
  BY <1>1, SizeType DEF SeekOutcome, SeekPosition, IsThere, Sought
<1>2. CASE seek.kind = "absolute" /\ seek.value \in Usize
  <2>1. seek.value \in Nat
    BY <1>2, SizeType DEF Usize, Modulus
  <2> QED BY <1>2, <2>1, SizeType DEF SeekOutcome, SeekAbsolute, IsThere, Sought
<1>3. CASE seek.kind = "relative" /\ seek.value \in Ssize
  <2> DEFINE to == m_Position + seek.value
  <2>1. to \in Int /\ ToUsize(to) = IF to < 0 THEN to + Modulus ELSE to
    BY <1>3, SizeType DEF ToUsize, Ssize, Modulus
  <2>2. to < 0 => to + Modulus >= m_Size
    BY <1>3, SizeType DEF Ssize, Modulus
  <2>3. Sought(seek) = to /\ SeekOutcome(m_Position, seek) = SeekRelative(m_Position, seek.value)
    BY <1>3 DEF Sought, SeekOutcome
  <2>4. to \notin 0 .. m_Size - 1 => ToUsize(to) >= m_Size
    BY <2>1, <2>2, SizeType
  <2>5. to \in 0 .. m_Size - 1 => ToUsize(to) = to /\ ~(to >= m_Size)
    BY <2>1, SizeType
  <2>6. IsThere(seek) <=> to \in 0 .. m_Size - 1
    BY <1>3, <2>3 DEF IsThere
  <2> HIDE DEF to
  <2>7. CASE to \in 0 .. m_Size - 1
    <3>1. SeekRelative(m_Position, seek.value) = Moved(to)
      BY <2>5, <2>7 DEF SeekRelative, to
    <3> QED BY <2>3, <2>6, <2>7, <3>1, SizeType
  <2>8. CASE to \notin 0 .. m_Size - 1
    <3>1. SeekRelative(m_Position, seek.value) = Refused(m_Position)
      BY <2>4, <2>8 DEF SeekRelative, to
    <3> QED BY <2>3, <2>6, <2>8, <3>1
  <2> QED BY <2>7, <2>8
<1> QED BY <1>1, <1>2, <1>3 DEF SeekValues

(* A read of bytes hands them out if they are all there.                   *)
LEMMA ReadGives ==
  ASSUME IInv, NEW at \in 0 .. m_Size, NEW n \in Nat
  PROVE  ReadOutcome(at, n) = IF at < m_Size /\ at + n <= m_Size
                              THEN Handed(at, n, at + n) ELSE Refused(at)
BY SizeType DEF ReadOutcome, CanRead, IsAtEnd

(* A read of a string hands out what comes before the first NUL.           *)
LEMMA StringGives ==
  ASSUME IInv, NEW at \in 0 .. m_Size
  PROVE  IF nuls \cap (at .. m_Size - 1) = {} THEN StringOutcome(at) = Refused(m_Size)
         ELSE \E count \in 0 .. m_Size :
                /\ StringOutcome(at) = Handed(at, count, at + count + 1)
                /\ at + count + 1 <= m_Size
                /\ at + count \in nuls
                /\ nuls \cap (at .. at + count - 1) = {}
<1> DEFINE k == FirstNul(at)
<1>1. NulsFrom(at) = nuls \cap (at .. m_Size - 1)
  BY SizeType DEF NulsFrom
<1>2. CASE NulsFrom(at) = {}
  BY <1>1, <1>2 DEF StringOutcome
<1>3. CASE NulsFrom(at) # {}
  <2>1. NulsFrom(at) \in SUBSET Nat
    BY <1>1, SizeType
  <2>2. \E i \in NulsFrom(at) : \A j \in NulsFrom(at) : i <= j
    BY <1>3, <2>1, LeastElement
  <2>3. k \in NulsFrom(at) /\ \A j \in NulsFrom(at) : k <= j
    BY <2>2 DEF FirstNul
  <2> HIDE DEF k
  <2>4. k \in nuls /\ k \in at .. m_Size - 1
    BY <1>1, <2>3
  <2>5. k - at \in 0 .. m_Size /\ at + (k - at) = k /\ at + (k - at) + 1 <= m_Size
    BY <2>4, SizeType
  <2>6. StringOutcome(at) = Handed(at, k - at, k + 1)
    BY <1>3 DEF StringOutcome, k
  <2>7. ASSUME NEW i \in nuls \cap (at .. k - 1) PROVE FALSE
    <3>1. i \in at .. m_Size - 1 /\ i < k /\ i \in Nat
      BY <2>4, SizeType
    <3> QED BY <1>1, <2>3, <2>4, <3>1, SizeType
  <2> DEFINE count == k - at
  <2>8. /\ count \in 0 .. m_Size /\ at + count = k
        /\ StringOutcome(at) = Handed(at, count, at + count + 1)
        /\ at + count + 1 <= m_Size /\ at + count \in nuls
        /\ nuls \cap (at .. at + count - 1) = {}
    <3>1. count \in 0 .. m_Size /\ at + count = k /\ at + count + 1 <= m_Size
      BY <2>5
    <3> HIDE DEF count
    <3>2. StringOutcome(at) = Handed(at, count, k + 1)
      BY <2>6 DEF count
    <3> QED BY <2>4, <2>7, <3>1, <3>2
  <2> HIDE DEF count
  <2> QED BY <1>1, <1>3, <2>8
<1> QED BY <1>2, <1>3

(* A read elsewhere comes back if the position is before the end, with     *)
(* what it was given there; at the end it is refused.                      *)
LEMMA SeekBackReturns ==
  ASSUME IInv, NEW got
  PROVE  SeekBack(m_Position, got) =
           IF m_Position < m_Size THEN [got EXCEPT !.position = m_Position]
           ELSE Refused(got.position)
BY SizeType DEF SeekBack, SeekAbsolute, Moved, Refused

-----------------------------------------------------------------------------
(***************************************************************************)
(* What a call may answer.  It leaves the position in the span, and hands  *)
(* out only bytes of the span, if any.                                     *)
(***************************************************************************)
Outcomes ==
  {o \in [ok : BOOLEAN, position : 0 .. m_Size, from : 0 .. m_Size,
          count : 0 .. m_Size] : o.from + o.count <= m_Size}

HandsOutNothing(o) == o.from = 0 /\ o.count = 0

Moves == {o \in Outcomes : HandsOutNothing(o)}

(* The bytes under the position and possibly the NUL behind them.          *)
Reads ==
  {o \in Outcomes :
     IF o.ok
     THEN /\ o.from = m_Position
          /\ \E terminator \in {0, 1} : o.position = m_Position + o.count + terminator
     ELSE HandsOutNothing(o)}

(* Bytes of the place sought, with the position where it was.              *)
Elsewhere(seek) ==
  {o \in Outcomes :
     IF o.ok THEN o.position = m_Position /\ o.from = Sought(seek) ELSE HandsOutNothing(o)}

Moving    == {"Seek", "Skip", "Align"}
ReadingOn == {"Read", "ReadString", "ReadView"}
ReadingAt == {"ReadAt", "ReadStringAt"}

Answers(call, seek) ==
  IF call \in Moving THEN Moves ELSE IF call \in ReadingOn THEN Reads ELSE Elsewhere(seek)

LEMMA PlacesAnswer ==
  ASSUME IInv, NEW p \in 0 .. m_Size
  PROVE  Moved(p) \in Moves /\ Refused(p) \in Outcomes /\ ~Refused(p).ok
         /\ HandsOutNothing(Refused(p))
BY SizeType DEF Moved, Refused, Moves, Outcomes, HandsOutNothing

LEMMA SeekAnswers ==
  ASSUME IInv, NEW seek \in SeekValues
  PROVE  SeekOutcome(m_Position, seek) \in Moves
BY SeekGoes, PlacesAnswer, SizeType DEF Moves

(* Align moves to a place in the span or not at all.                       *)
LEMMA AlignAnswers ==
  ASSUME IInv, NEW alignment \in Alignments
  PROVE  /\ AlignTarget(m_Position, alignment) \in Nat
         /\ (IF AlignTarget(m_Position, alignment) >= m_Size THEN Refused(m_Position)
             ELSE Moved(AlignTarget(m_Position, alignment))) \in Moves
<1>1. alignment \in Nat \ {0} /\ Modulus \in Nat
  BY MemoryStreamAssumption, SizeType DEF Modulus
<1>2. AlignTarget(m_Position, alignment) \in Nat
  <2> DEFINE up == (m_Position \div alignment
                     + IF m_Position % alignment # 0 THEN 1 ELSE 0) * alignment
  <2>1. up \in Nat
    BY <1>1, SizeType
  <2> HIDE DEF up
  <2>2. ToUsize(up) \in Nat
    BY <1>1, <2>1 DEF ToUsize
  <2> QED BY <2>2 DEF AlignTarget, up
<1> HIDE DEF AlignTarget
<1> QED BY <1>2, PlacesAnswer, SizeType DEF Moves

(* A read at a place of the span leaves the position in it, and hands out  *)
(* only bytes from that place on, and nothing if it is refused.            *)
ReadsAt(p) == {o \in Outcomes : IF o.ok THEN o.from = p ELSE HandsOutNothing(o)}

LEMMA ReadAnswers ==
  ASSUME IInv, NEW p \in 0 .. m_Size, NEW n \in Nat
  PROVE  ReadOutcome(p, n) \in ReadsAt(p)
         /\ (ReadOutcome(p, n).ok => ReadOutcome(p, n).position = p + ReadOutcome(p, n).count)
<1>1. CASE p < m_Size /\ p + n <= m_Size
  <2>1. ReadOutcome(p, n) = Handed(p, n, p + n)
    BY <1>1, ReadGives
  <2> QED BY <1>1, <2>1, SizeType DEF Handed, ReadsAt, Outcomes
<1>2. CASE ~(p < m_Size /\ p + n <= m_Size)
  BY <1>2, ReadGives, PlacesAnswer DEF ReadsAt, Outcomes
<1> QED BY <1>1, <1>2

LEMMA StringAnswers ==
  ASSUME IInv, NEW p \in 0 .. m_Size
  PROVE  StringOutcome(p) \in ReadsAt(p)
         /\ (StringOutcome(p).ok => StringOutcome(p).position = p + StringOutcome(p).count + 1)
<1>1. CASE nuls \cap (p .. m_Size - 1) = {}
  <2>1. StringOutcome(p) = Refused(m_Size) /\ m_Size \in 0 .. m_Size
    BY <1>1, StringGives, SizeType
  <2> QED BY <2>1, PlacesAnswer DEF ReadsAt, Outcomes
<1>2. CASE nuls \cap (p .. m_Size - 1) # {}
  <2>1. PICK count \in 0 .. m_Size : /\ StringOutcome(p) = Handed(p, count, p + count + 1)
                                     /\ p + count + 1 <= m_Size
    BY <1>2, StringGives
  <2> QED BY <2>1, SizeType DEF Handed, ReadsAt, Outcomes
<1> QED BY <1>1, <1>2

LEMMA SeekBackAnswers ==
  ASSUME IInv, NEW seek, NEW got \in ReadsAt(Sought(seek))
  PROVE  SeekBack(m_Position, got) \in Elsewhere(seek)
<1>1. /\ got \in [ok : BOOLEAN, position : 0 .. m_Size, from : 0 .. m_Size, count : 0 .. m_Size]
      /\ got.from + got.count <= m_Size
      /\ IF got.ok THEN got.from = Sought(seek) ELSE HandsOutNothing(got)
  BY DEF ReadsAt, Outcomes
<1>2. CASE m_Position < m_Size
  <2> DEFINE back == [got EXCEPT !.position = m_Position]
  <2>1. /\ back \in [ok : BOOLEAN, position : 0 .. m_Size, from : 0 .. m_Size, count : 0 .. m_Size]
        /\ back.ok = got.ok /\ back.position = m_Position
        /\ back.from = got.from /\ back.count = got.count
    BY <1>1, SizeType
  <2>2. SeekBack(m_Position, got) = back
    BY <1>2, SeekBackReturns
  <2> HIDE DEF back
  <2>3. back \in Outcomes
    BY <1>1, <2>1 DEF Outcomes
  <2> QED BY <1>1, <2>1, <2>2, <2>3 DEF Elsewhere, HandsOutNothing
<1>3. CASE ~(m_Position < m_Size)
  <2>1. SeekBack(m_Position, got) = Refused(got.position) /\ got.position \in 0 .. m_Size
    BY <1>1, <1>3, SeekBackReturns
  <2> QED BY <2>1, PlacesAnswer DEF Elsewhere
<1> QED BY <1>2, <1>3

LEMMA AtAnswers ==
  ASSUME IInv, NEW seek \in SeekValues
  PROVE  /\ \A n \in Nat : ReadAtOutcome(m_Position, seek, n) \in Elsewhere(seek)
         /\ StringAtOutcome(m_Position, seek) \in Elsewhere(seek)
<1>1. CASE IsThere(seek)
  <2>1. /\ SeekOutcome(m_Position, seek) = Moved(Sought(seek))
        /\ Moved(Sought(seek)).ok /\ Moved(Sought(seek)).position = Sought(seek)
        /\ Sought(seek) \in 0 .. m_Size
    BY <1>1, SeekGoes DEF Moved
  <2>2. /\ \A n \in Nat : ReadOutcome(Sought(seek), n) \in ReadsAt(Sought(seek))
        /\ StringOutcome(Sought(seek)) \in ReadsAt(Sought(seek))
    BY <2>1, ReadAnswers, StringAnswers
  <2>3. /\ \A n \in Nat : ReadAtOutcome(m_Position, seek, n)
                            = SeekBack(m_Position, ReadOutcome(Sought(seek), n))
        /\ StringAtOutcome(m_Position, seek) = SeekBack(m_Position, StringOutcome(Sought(seek)))
    BY <2>1 DEF ReadAtOutcome, StringAtOutcome
  <2> QED BY <2>2, <2>3, SeekBackAnswers
<1>2. CASE ~IsThere(seek)
  <2>1. SeekOutcome(m_Position, seek) = Refused(m_Position) /\ ~Refused(m_Position).ok
    BY <1>2, SeekGoes DEF Refused
  <2>2. /\ \A n \in Nat : ReadAtOutcome(m_Position, seek, n) = Refused(m_Position)
        /\ StringAtOutcome(m_Position, seek) = Refused(m_Position)
    BY <2>1 DEF ReadAtOutcome, StringAtOutcome
  <2> QED BY <2>2, PlacesAnswer, SizeType DEF Elsewhere
<1> QED BY <1>1, <1>2

-----------------------------------------------------------------------------
(***************************************************************************)
(* From what calls answer to what steps do.                                *)
(***************************************************************************)
LEMMA StepsAnswer ==
  ASSUME IInv, Next
  PROVE  \E call \in Moving \cup ReadingOn \cup ReadingAt, arg \in Int,
            seek \in SeekValues \cup {NoSeek} :
           \E o \in Answers(call, seek) : Return(call, arg, seek, o)
<1> DEFINE Goal == \E call \in Moving \cup ReadingOn \cup ReadingAt, arg \in Int,
                      seek \in SeekValues \cup {NoSeek} :
                     \E o \in Answers(call, seek) : Return(call, arg, seek, o)
<1>1. ASSUME NEW call \in Moving \cup ReadingOn \cup ReadingAt, NEW arg \in Int,
             NEW seek \in SeekValues \cup {NoSeek}, NEW o \in Answers(call, seek),
             Return(call, arg, seek, o)
      PROVE  Goal
  BY <1>1
<1> HIDE DEF Goal
<1>2. m_Position \in 0 .. m_Size /\ Lengths \subseteq Nat /\ 0 \in Int
  BY SizeType
<1>3. ASSUME NEW n \in Lengths, Read(n) PROVE Goal
  <2>1. ReadOutcome(m_Position, n) \in Reads
    <3> DEFINE o == ReadOutcome(m_Position, n)
    <3>1. o \in ReadsAt(m_Position) /\ (o.ok => o.position = m_Position + o.count)
      BY <1>2, ReadAnswers
    <3>2. o.count \in 0 .. m_Size /\ m_Size \in Nat
      BY <3>1, SizeType DEF ReadsAt, Outcomes
    <3> HIDE DEF o
    <3>3. o.position = m_Position + o.count => o.position = m_Position + o.count + 0
      BY <1>2, <3>2
    <3> QED BY <3>1, <3>3 DEF Reads, ReadsAt, o
  <2> QED BY <1>1, <1>2, <1>3, <2>1 DEF Read, Answers, Moving, ReadingOn
<1>4. ASSUME ReadString \/ ReadView PROVE Goal
  <2>1. StringOutcome(m_Position) \in Reads
    BY <1>2, StringAnswers DEF Reads, ReadsAt, Outcomes
  <2> QED BY <1>1, <1>2, <1>4, <2>1 DEF ReadString, ReadView, Answers, Moving, ReadingOn
<1>5. ASSUME NEW seek \in SeekValues, Seek(seek) PROVE Goal
  BY <1>1, <1>2, <1>5, SeekAnswers DEF Seek, Answers, Moving
<1>6. ASSUME NEW n \in Usize, Skip(n) PROVE Goal
  <2>1. n \in Int /\ SeekRelativeBy(ToSsize(n)) \in SeekValues
    BY SizeType DEF SeekRelativeBy, SeekValues, ToSsize, Usize, Ssize, Modulus
  <2> QED BY <1>1, <1>6, <2>1, SeekAnswers DEF Skip, Answers, Moving
<1>7. ASSUME NEW alignment \in Alignments, Align(alignment) PROVE Goal
  <2>1. alignment \in Int
    BY MemoryStreamAssumption
  <2> QED BY <1>1, <1>7, <2>1, AlignAnswers DEF Align, Answers, Moving
<1>8. ASSUME NEW seek \in SeekValues, NEW n \in Lengths, ReadAt(seek, n) PROVE Goal
  BY <1>1, <1>2, <1>8, AtAnswers DEF ReadAt, Answers, Moving, ReadingOn, ReadingAt
<1>9. ASSUME NEW seek \in SeekValues, ReadStringAt(seek) PROVE Goal
  BY <1>1, <1>2, <1>9, AtAnswers DEF ReadStringAt, Answers, Moving, ReadingOn, ReadingAt
<1> QED
  BY <1>3, <1>4, <1>5, <1>6, <1>7, <1>8, <1>9 DEF Next, Goal

-----------------------------------------------------------------------------
(***************************************************************************)
(* The invariant.                                                          *)
(***************************************************************************)
LEMMA InitIInv == Init => IInv
BY SsizeAssumption, MemoryStreamAssumption
   DEF Init, IInv, TypeOK, PositionInBounds, Calls, Usize, Modulus

LEMMA AnswersInOutcomes == \A call, seek : Answers(call, seek) \subseteq Outcomes
BY DEF Answers, Moves, Reads, Elsewhere

LEMMA ReturnIInv ==
  ASSUME IInv, NEW call \in Moving \cup ReadingOn \cup ReadingAt, NEW arg \in Int,
         NEW seek \in SeekValues \cup {NoSeek}, NEW o \in Outcomes,
         Return(call, arg, seek, o)
  PROVE  IInv'
<1>1. 0 .. m_Size \subseteq Usize
  BY SizeType DEF Usize, Modulus
<1>2. /\ o.ok \in BOOLEAN /\ o.position \in 0 .. m_Size
      /\ o.from \in 0 .. m_Size /\ o.count \in 0 .. m_Size
  BY DEF Outcomes
<1>3. m_Position' \in Usize /\ m_Position' <= m_Size'
  BY <1>1, <1>2, SizeType DEF Return
<1>4. call \in Calls
  BY DEF Moving, ReadingOn, ReadingAt, Calls
<1>5. ret' \in [call : Calls, arg : Int, seek : SeekValues \cup {NoSeek},
                ok : BOOLEAN, from : Usize, count : Usize]
  BY <1>1, <1>2, <1>4 DEF Return
<1>6. m_Size' \in Sizes /\ nuls' \in SUBSET (0 .. m_Size' - 1)
  BY DEF IInv, TypeOK, Return
<1> QED BY <1>3, <1>5, <1>6 DEF IInv, TypeOK, PositionInBounds

LEMMA StutterIInv == IInv /\ UNCHANGED vars => IInv'
BY DEF IInv, TypeOK, PositionInBounds, vars

LEMMA InvariantIInv == Spec => []IInv
<1>1. IInv /\ [Next]_vars => IInv'
  BY StepsAnswer, AnswersInOutcomes, ReturnIInv, StutterIInv
<1> QED BY InitIInv, <1>1, PTL DEF Spec

(* Every variable of the stream keeps its type, whatever is called.        *)
THEOREM TypeCorrect == Spec => []TypeOK
BY InvariantIInv, PTL DEF IInv

(* The position never passes the end of the span: the address that Read    *)
(* passes to memcpy is in the span or one past it, for every word size,    *)
(* span and argument.                                                      *)
THEOREM PositionStaysInBounds == Spec => []PositionInBounds
BY InvariantIInv, PTL DEF IInv

-----------------------------------------------------------------------------
(***************************************************************************)
(* The refinement.                                                         *)
(***************************************************************************)
LEMMA ReturnIsCursorStep ==
  ASSUME IInv, NEW call \in Moving \cup ReadingOn \cup ReadingAt, NEW arg \in Int,
         NEW seek \in SeekValues \cup {NoSeek}, NEW o \in Answers(call, seek),
         Return(call, arg, seek, o)
  PROVE  Cursor!Next
<1>1. m_Size \in Nat /\ m_Position \in 0 .. m_Size /\ o \in Outcomes
  BY SizeType, AnswersInOutcomes
<1>2. /\ m_Size' = m_Size /\ m_Position' = o.position
      /\ ret'.call = call /\ ret'.ok = o.ok /\ ret'.seek = seek
      /\ ret'.from = o.from /\ ret'.count = o.count
  BY DEF Return
<1>3. /\ o.position \in 0 .. m_Size
      /\ o.from \in 0 .. m_Size /\ o.count \in 0 .. m_Size
      /\ o.from + o.count <= m_Size
  BY <1>1 DEF Outcomes
<1>4. CASE call \in Moving \/ ~o.ok
  <2>1. HandsOutNothing(o)
    BY <1>4 DEF Answers, Moves, Reads, Elsewhere
  <2>2. Cursor!Move
    BY <1>1, <1>2, <1>3, <1>4, <2>1
       DEF Cursor!Move, Cursor!Nothing, Cursor!NotGiven, HandsOutNothing, Moving
  <2> QED BY <2>2 DEF Cursor!Next
<1>5. CASE call \in ReadingOn /\ o.ok
  <2>1. o \in Reads
    BY <1>5 DEF Answers, Moving, ReadingOn
  <2>2. PICK terminator \in {0, 1} :
          o.from = m_Position /\ o.position = m_Position + o.count + terminator
    BY <1>5, <2>1 DEF Reads
  <2>3. Cursor!Take(o.count, terminator)
    BY <1>1, <1>2, <1>3, <1>5, <2>2 DEF Cursor!Take, Cursor!TheNext, ReadingOn
  <2> QED BY <1>3, <2>3 DEF Cursor!Next
<1>6. CASE call \in ReadingAt /\ o.ok
  <2>1. o \in Elsewhere(seek)
    BY <1>6 DEF Answers, Moving, ReadingOn, ReadingAt
  <2>2. o.position = m_Position /\ o.from = Sought(seek)
    BY <1>6, <2>1 DEF Elsewhere
  <2>3. Sought(ret.seek)' = o.from
    BY <1>2, <2>2 DEF Sought
  <2>4. Cursor!Peek(o.from, o.count)
    BY <1>1, <1>2, <1>3, <1>6, <2>2, <2>3 DEF Cursor!Peek, Cursor!Elsewhere, ReadingAt
  <2> QED BY <1>3, <2>4 DEF Cursor!Next
<1> QED BY <1>4, <1>5, <1>6

LEMMA InitIsCursorInit == Init => Cursor!Init
BY MemoryStreamAssumption, SsizeAssumption
   DEF Init, Cursor!Init, Cursor!Nothing, Cursor!NotGiven

(* MemoryStream implements ByteCursor: what a successful read hands out is *)
(* the bytes under the position, which moves behind them, or for a         *)
(* positional read the bytes at the place it sought while the position     *)
(* stays; nothing beyond the span is ever handed out.                      *)
THEOREM MemoryStreamIsACursor == Spec => ImplementsByteCursor
<1>1. IInv /\ [Next]_vars => [Cursor!Next]_(Cursor!vars)
  <2>1. ASSUME IInv, Next PROVE Cursor!Next
    BY <2>1, StepsAnswer, ReturnIsCursorStep
  <2>2. ASSUME UNCHANGED vars PROVE UNCHANGED Cursor!vars
    BY <2>2 DEF vars, Cursor!vars, Sought
  <2> QED BY <2>1, <2>2
<1> QED BY InitIsCursorInit, InvariantIInv, <1>1, PTL
       DEF Spec, ImplementsByteCursor, Cursor!Spec

-----------------------------------------------------------------------------
(***************************************************************************)
(* What the calls do.  Each of the parts of the property is about some     *)
(* calls, and holds of the others.                                         *)
(***************************************************************************)
Asked ==
  SeeksGoThere /\ SkipsGoOn /\ AlignsGoToBoundaries /\ ReadsGoOn /\ PositionalReadsComeBack

LEMMA SeekDoesAsAsked ==
  ASSUME IInv, NEW seek \in SeekValues, Seek(seek)
  PROVE  Asked
<1>1. /\ ret'.call = "Seek" /\ ret'.seek = seek
      /\ ret'.ok = SeekOutcome(m_Position, seek).ok
      /\ m_Position' = SeekOutcome(m_Position, seek).position
  BY DEF Seek, Return
<1>2. SeeksGoThere
  BY <1>1, SeekGoes DEF SeeksGoThere, Goes, IsRefused, Moved, Refused
<1> QED BY <1>1, <1>2 DEF Asked, SkipsGoOn, AlignsGoToBoundaries, ReadsGoOn, PositionalReadsComeBack

(* A Skip is a relative seek by a number that may have become negative.    *)
LEMMA SkipDoesAsAsked ==
  ASSUME IInv, NEW n \in Usize, Skip(n)
  PROVE  Asked
<1> DEFINE by   == ToSsize(n)
           seek == SeekRelativeBy(by)
<1>1. n \in Nat /\ by = (IF n < SsizeLimit THEN n ELSE n - Modulus) /\ seek \in SeekValues
  BY SizeType DEF SeekRelativeBy, SeekValues, ToSsize, Usize, Ssize, Modulus
<1>2. /\ ret'.call = "Skip" /\ ret'.arg = n
      /\ ret'.ok = SeekOutcome(m_Position, seek).ok
      /\ m_Position' = SeekOutcome(m_Position, seek).position
  BY DEF Skip, Return
<1>3. Sought(seek) = m_Position + by /\ (IsThere(seek) <=> m_Position + by \in 0 .. m_Size - 1)
  BY DEF Sought, IsThere, SeekRelativeBy
<1> HIDE DEF by, seek
<1>4. SkipsGoOn
  <2>1. IF m_Position + by \in 0 .. m_Size - 1 THEN Goes(m_Position + by) ELSE IsRefused
    BY <1>1, <1>2, <1>3, SeekGoes DEF Goes, IsRefused, Moved, Refused
  <2> QED BY <1>1, <1>2, <2>1 DEF SkipsGoOn
<1> QED BY <1>2, <1>4 DEF Asked, SeeksGoThere, AlignsGoToBoundaries, ReadsGoOn, PositionalReadsComeBack

LEMMA MultipleHasNoRemainder ==
  ASSUME NEW a \in Nat \ {0}, NEW k \in Nat
  PROVE  (k * a) % a = 0
OBVIOUS

(* The target of Align is the first multiple that is not behind it, and    *)
(* does not wrap: it is less than one alignment away.                      *)
LEMMA AlignReachesBoundary ==
  ASSUME IInv, NEW alignment \in Alignments
  PROVE  /\ AlignTarget(m_Position, alignment) \in Nat
         /\ AlignTarget(m_Position, alignment) % alignment = 0
         /\ m_Position <= AlignTarget(m_Position, alignment)
         /\ \A p \in Nat : m_Position <= p /\ p % alignment = 0
                             => AlignTarget(m_Position, alignment) <= p
<1>1. /\ m_Position \in Nat /\ m_Position < SsizeLimit /\ SsizeLimit \in Nat
      /\ alignment \in Nat \ {0} /\ alignment < SsizeLimit
  BY SizeType, MemoryStreamAssumption
<1> DEFINE q == m_Position \div alignment
           r == m_Position % alignment
           k == q + (IF r # 0 THEN 1 ELSE 0)
<1>2. m_Position = (alignment * q) + r /\ q \in Nat /\ r \in 0 .. alignment - 1
  BY <1>1
<1> HIDE DEF q, r
<1>3. k \in Nat /\ (k * alignment) - m_Position \in 0 .. alignment - 1 /\ k * alignment \in Nat
  BY <1>1, <1>2
<1>4. AlignTarget(m_Position, alignment) = ToUsize(k * alignment)
  BY DEF AlignTarget, q, r
<1> HIDE DEF k
<1>5. ToUsize(k * alignment) = k * alignment
  BY <1>1, <1>3 DEF ToUsize, Modulus
<1>6. (k * alignment) % alignment = 0
  BY <1>1, <1>3, MultipleHasNoRemainder
<1>7. ASSUME NEW p \in Nat, m_Position <= p, p % alignment = 0
      PROVE  k * alignment <= p
  <2> DEFINE j == p \div alignment
  <2>1. p = alignment * j /\ j \in Nat
    BY <1>1, <1>7
  <2> HIDE DEF j
  <2>2. (k * alignment) - p < alignment
    BY <1>1, <1>3, <1>7
  <2>3. (k * alignment) - p = alignment * (k - j)
    BY <1>1, <1>3, <2>1
  <2>4. k - j >= 1 => alignment * (k - j) >= alignment
    BY <1>1, <1>3, <2>1
  <2>5. k - j < 1
    BY <1>1, <1>3, <1>7, <2>1, <2>2, <2>3, <2>4
  <2>6. alignment * (k - j) <= 0
    BY <1>1, <1>3, <2>1, <2>5
  <2> QED BY <1>1, <1>3, <1>7, <2>3, <2>6
<1> QED BY <1>1, <1>3, <1>4, <1>5, <1>6, <1>7

LEMMA AlignDoesAsAsked ==
  ASSUME IInv, NEW alignment \in Alignments, Align(alignment)
  PROVE  Asked
<1> DEFINE to         == AlignTarget(m_Position, alignment)
           boundaries == {p \in m_Position .. m_Size - 1 : p % alignment = 0}
<1>1. /\ ret'.call = "Align" /\ ret'.arg = alignment
      /\ IF to >= m_Size THEN IsRefused ELSE Goes(to)
  BY DEF Align, Return, Refused, Moved, IsRefused, Goes
<1>2. /\ to \in Nat /\ to % alignment = 0 /\ m_Position <= to
      /\ \A p \in Nat : m_Position <= p /\ p % alignment = 0 => to <= p
  BY AlignReachesBoundary
<1> HIDE DEF to
<1>3. \A p \in boundaries : p \in Nat /\ to <= p /\ p < m_Size
  BY <1>2, SizeType
<1>4. CASE to >= m_Size
  <2>1. boundaries = {}
    BY <1>2, <1>3, <1>4, SizeType
  <2> HIDE DEF boundaries
  <2>2. IsRefused
    BY <1>1, <1>4
  <2>3. boundaries = {p \in m_Position .. m_Size - 1 : p % ret'.arg = 0}
    BY <1>1 DEF boundaries
  <2>4. AlignsGoToBoundaries
    BY <2>1, <2>2, <2>3 DEF AlignsGoToBoundaries
  <2> QED BY <1>1, <2>4 DEF Asked, SeeksGoThere, SkipsGoOn, ReadsGoOn, PositionalReadsComeBack
<1>5. CASE ~(to >= m_Size)
  <2>1. to \in boundaries
    BY <1>2, <1>5, SizeType
  <2>2. Goes(to)
    BY <1>1, <1>5
  <2>3. boundaries = {p \in m_Position .. m_Size - 1 : p % ret'.arg = 0}
    BY <1>1
  <2> HIDE DEF boundaries
  <2>4. \E p \in boundaries : Goes(p) /\ \A q \in boundaries : p <= q
    BY <1>3, <2>1, <2>2
  <2>5. AlignsGoToBoundaries
    BY <2>1, <2>3, <2>4 DEF AlignsGoToBoundaries
  <2> QED BY <1>1, <2>5 DEF Asked, SeeksGoThere, SkipsGoOn, ReadsGoOn, PositionalReadsComeBack
<1> QED BY <1>4, <1>5

LEMMA ReadDoesAsAsked ==
  ASSUME IInv, NEW n \in Lengths, Read(n)
  PROVE  Asked
<1> DEFINE o == ReadOutcome(m_Position, n)
<1>1. /\ ret'.call = "Read" /\ ret'.arg = n /\ ret'.ok = o.ok
      /\ ret'.from = o.from /\ ret'.count = o.count /\ m_Position' = o.position
  BY DEF Read, Return
<1>2. n \in Nat /\ m_Position \in 0 .. m_Size
  BY SizeType
<1>3. o = IF m_Position < m_Size /\ m_Position + n <= m_Size
          THEN Handed(m_Position, n, m_Position + n) ELSE Refused(m_Position)
  BY <1>2, ReadGives
<1> HIDE DEF o
<1>4. ReadsGoOn
  BY <1>1, <1>2, <1>3 DEF ReadsGoOn, HasAt, HandsOutFrom, OfBytes, Handed, Refused
<1> QED BY <1>1, <1>4 DEF Asked, SeeksGoThere, SkipsGoOn, AlignsGoToBoundaries, PositionalReadsComeBack

LEMMA StringDoesAsAsked ==
  ASSUME IInv, ReadString \/ ReadView
  PROVE  Asked
<1> DEFINE o == StringOutcome(m_Position)
<1>1. /\ ret'.call \in {"ReadString", "ReadView"} /\ ret'.ok = o.ok
      /\ ret'.from = o.from /\ ret'.count = o.count /\ m_Position' = o.position
  BY DEF ReadString, ReadView, Return
<1>2. m_Position \in 0 .. m_Size
  BY SizeType
<1>3. CASE nuls \cap (m_Position .. m_Size - 1) = {}
  <2>1. o = Refused(m_Size)
    BY <1>2, <1>3, StringGives
  <2> HIDE DEF o
  <2>2. ReadsGoOn
    BY <1>1, <1>3, <2>1 DEF ReadsGoOn, HasAt, OfBytes, Refused
  <2> QED BY <1>1, <2>2 DEF Asked, SeeksGoThere, SkipsGoOn, AlignsGoToBoundaries, PositionalReadsComeBack
<1>4. CASE nuls \cap (m_Position .. m_Size - 1) # {}
  <2>1. PICK count \in 0 .. m_Size : /\ o = Handed(m_Position, count, m_Position + count + 1)
                                     /\ m_Position + count \in nuls
                                     /\ nuls \cap (m_Position .. m_Position + count - 1) = {}
    BY <1>2, <1>4, StringGives
  <2> HIDE DEF o
  <2>2. /\ ret'.ok /\ ret'.from = m_Position /\ ret'.count = count
        /\ m_Position' = m_Position + count + 1
    BY <1>1, <2>1 DEF Handed
  <2>3. EndsAtFirstNul(ret')
    BY <2>1, <2>2 DEF EndsAtFirstNul
  <2>4. ReadsGoOn
    BY <1>1, <1>4, <2>2, <2>3 DEF ReadsGoOn, HasAt, HandsOutFrom, OfBytes
  <2> QED BY <1>1, <2>4 DEF Asked, SeeksGoThere, SkipsGoOn, AlignsGoToBoundaries, PositionalReadsComeBack
<1> QED BY <1>3, <1>4

(* What is read at the place sought is handed out as it was read, if the   *)
(* stream can go back.                                                     *)
LEMMA ElsewhereDoesAsAsked ==
  ASSUME IInv, NEW seek \in SeekValues, NEW got,
         ret'.call \in ReadingAt, ret'.seek = seek,
         IF IsThere(seek)
         THEN /\ Return(ret'.call, ret'.arg, seek, SeekBack(m_Position, got))
              /\ got \in ReadsAt(Sought(seek))
              /\ got.ok <=> HasAt(Sought(seek))
              /\ got.ok => IF OfBytes THEN got.count = ret'.arg ELSE EndsAtFirstNul(got)
         ELSE Return(ret'.call, ret'.arg, seek, Refused(m_Position))
  PROVE  Asked
<1>1. CASE ~IsThere(seek)
  <2>1. ~ret'.ok /\ m_Position' = m_Position
    BY <1>1 DEF Return, Refused
  <2>2. PositionalReadsComeBack
    BY <1>1, <2>1 DEF PositionalReadsComeBack
  <2> QED BY <2>2 DEF Asked, ReadingAt, SeeksGoThere, SkipsGoOn, AlignsGoToBoundaries, ReadsGoOn
<1>2. CASE IsThere(seek) /\ m_Position < m_Size
  <2>1. SeekBack(m_Position, got) = [got EXCEPT !.position = m_Position]
    BY <1>2, SeekBackReturns
  <2>2. got \in [ok : BOOLEAN, position : 0 .. m_Size, from : 0 .. m_Size, count : 0 .. m_Size]
        /\ (got.ok => got.from = Sought(seek))
    BY <1>2 DEF ReadsAt, Outcomes
  <2>3. Return(ret'.call, ret'.arg, seek, [got EXCEPT !.position = m_Position])
    BY <1>2, <2>1
  <2>4. /\ m_Position' = m_Position /\ ret'.ok = got.ok
        /\ ret'.from = got.from /\ ret'.count = got.count
    BY <2>2, <2>3 DEF Return
  <2>5. got.ok => EndsAtFirstNul(got) = EndsAtFirstNul(ret')
    BY <2>4 DEF EndsAtFirstNul
  <2>6. HasAt(Sought(seek)) => HandsOutFrom(Sought(seek))
    BY <1>2, <2>2, <2>4, <2>5 DEF HandsOutFrom
  <2>7. ~HasAt(Sought(seek)) => ~ret'.ok
    BY <1>2, <2>4
  <2>8. PositionalReadsComeBack
    BY <1>2, <2>4, <2>6, <2>7 DEF PositionalReadsComeBack
  <2> QED BY <2>8 DEF Asked, ReadingAt, SeeksGoThere, SkipsGoOn, AlignsGoToBoundaries, ReadsGoOn
<1>3. CASE IsThere(seek) /\ ~(m_Position < m_Size)
  <2>1. SeekBack(m_Position, got) = Refused(got.position)
    BY <1>3, SeekBackReturns
  <2>2. ~ret'.ok
    BY <1>3, <2>1 DEF Return, Refused
  <2>3. PositionalReadsComeBack
    BY <1>3, <2>2 DEF PositionalReadsComeBack
  <2> QED BY <2>3 DEF Asked, ReadingAt, SeeksGoThere, SkipsGoOn, AlignsGoToBoundaries, ReadsGoOn
<1> QED BY <1>1, <1>2, <1>3

LEMMA ReadAtDoesAsAsked ==
  ASSUME IInv, NEW seek \in SeekValues, NEW n \in Lengths, ReadAt(seek, n)
  PROVE  Asked
<1> DEFINE p   == Sought(seek)
           got == ReadOutcome(p, n)
<1>1. /\ Return("ReadAt", n, seek, ReadAtOutcome(m_Position, seek, n))
      /\ ret'.call = "ReadAt" /\ ret'.arg = n /\ ret'.seek = seek /\ n \in Nat
  BY SizeType DEF ReadAt, Return
<1>2. CASE ~IsThere(seek)
  <2>1. ReadAtOutcome(m_Position, seek, n) = Refused(m_Position)
    BY <1>2, SeekGoes DEF ReadAtOutcome, Refused
  <2> QED BY <1>1, <1>2, <2>1, ElsewhereDoesAsAsked DEF ReadingAt
<1>3. CASE IsThere(seek)
  <2>1. p \in 0 .. m_Size /\ SeekOutcome(m_Position, seek) = Moved(p)
    BY <1>3, SeekGoes
  <2>2. ReadAtOutcome(m_Position, seek, n) = SeekBack(m_Position, got)
    BY <2>1 DEF ReadAtOutcome, Moved
  <2>3. got = IF p < m_Size /\ p + n <= m_Size THEN Handed(p, n, p + n) ELSE Refused(p)
    BY <1>1, <2>1, ReadGives
  <2>4. got \in ReadsAt(p)
    BY <1>1, <2>1, ReadAnswers
  <2>5. OfBytes /\ (HasAt(p) <=> p < m_Size /\ p + n <= m_Size)
    BY <1>1 DEF OfBytes, HasAt
  <2> HIDE DEF got
  <2>6. (got.ok <=> HasAt(p)) /\ (got.ok => got.count = n)
    BY <2>3, <2>5 DEF Handed, Refused
  <2> QED BY <1>1, <1>3, <2>2, <2>4, <2>5, <2>6, ElsewhereDoesAsAsked DEF ReadingAt
<1> QED BY <1>2, <1>3

LEMMA ReadStringAtDoesAsAsked ==
  ASSUME IInv, NEW seek \in SeekValues, ReadStringAt(seek)
  PROVE  Asked
<1> DEFINE p   == Sought(seek)
           got == StringOutcome(p)
<1>1. /\ Return("ReadStringAt", 0, seek, StringAtOutcome(m_Position, seek))
      /\ ret'.call = "ReadStringAt" /\ ret'.arg = 0 /\ ret'.seek = seek
  BY DEF ReadStringAt, Return
<1>2. CASE ~IsThere(seek)
  <2>1. StringAtOutcome(m_Position, seek) = Refused(m_Position)
    BY <1>2, SeekGoes DEF StringAtOutcome, Refused
  <2> QED BY <1>1, <1>2, <2>1, ElsewhereDoesAsAsked DEF ReadingAt
<1>3. CASE IsThere(seek)
  <2>1. p \in 0 .. m_Size /\ SeekOutcome(m_Position, seek) = Moved(p)
    BY <1>3, SeekGoes
  <2>2. StringAtOutcome(m_Position, seek) = SeekBack(m_Position, got)
    BY <2>1 DEF StringAtOutcome, Moved
  <2>3. got \in ReadsAt(p)
    BY <2>1, StringAnswers
  <2>4. ~OfBytes /\ (HasAt(p) <=> nuls \cap (p .. m_Size - 1) # {})
    BY <1>1 DEF OfBytes, HasAt
  <2>5. (got.ok <=> HasAt(p)) /\ (got.ok => EndsAtFirstNul(got))
    <3>1. CASE nuls \cap (p .. m_Size - 1) = {}
      <4>1. got = Refused(m_Size)
        BY <2>1, <3>1, StringGives
      <4> HIDE DEF got
      <4> QED BY <2>4, <3>1, <4>1 DEF Refused
    <3>2. CASE nuls \cap (p .. m_Size - 1) # {}
      <4>1. PICK count \in 0 .. m_Size : /\ got = Handed(p, count, p + count + 1)
                                         /\ p + count \in nuls
                                         /\ nuls \cap (p .. p + count - 1) = {}
        BY <2>1, <3>2, StringGives
      <4> HIDE DEF got
      <4>2. got.ok /\ got.from = p /\ got.count = count
        BY <4>1 DEF Handed
      <4> QED BY <2>4, <3>2, <4>1, <4>2 DEF EndsAtFirstNul
    <3> QED BY <3>1, <3>2
  <2> HIDE DEF got
  <2> QED BY <1>1, <1>3, <2>2, <2>3, <2>4, <2>5, ElsewhereDoesAsAsked DEF ReadingAt
<1> QED BY <1>2, <1>3

(* For every word size, span, set of NULs and argument each call does what *)
(* it was asked for or is refused: a seek goes to the place it names, a    *)
(* Skip by its number and an Align to the next boundary, a read hands out  *)
(* the bytes asked for or the characters before the first NUL, from the    *)
(* position or from the place sought, and a positional one comes back.     *)
THEOREM CallsAlwaysDoAsAsked == Spec => CallsDoAsAsked
<1>1. ASSUME IInv, Next PROVE Asked
  BY <1>1, SeekDoesAsAsked, SkipDoesAsAsked, AlignDoesAsAsked, ReadDoesAsAsked,
     StringDoesAsAsked, ReadAtDoesAsAsked, ReadStringAtDoesAsAsked DEF Next
<1>2. IInv /\ [Next]_vars =>
        [/\ SeeksGoThere
         /\ SkipsGoOn
         /\ AlignsGoToBoundaries
         /\ ReadsGoOn
         /\ PositionalReadsComeBack]_vars
  BY <1>1 DEF Asked
<1> QED BY InvariantIInv, <1>2, PTL DEF Spec, CallsDoAsAsked
=============================================================================
