-------------------------- MODULE FileStreamProofs --------------------------
(***************************************************************************)
(* FileStream for every word size, every file and every way the file, the  *)
(* path and the disk may behave: a failed ifstream leaves the stream at    *)
(* its end, a read that leaves it good is whole, a positional read comes   *)
(* back, and only Align parts the stream from its ifstream.                *)
(***************************************************************************)
EXTENDS FileStream, FiniteSetTheorems, TLAPS

(* A non-empty set of naturals has a least element: an interval from 0 to  *)
(* one of its elements is finite, and one of these contains no other.      *)
LEMMA LeastElement ==
  ASSUME NEW S \in SUBSET Nat, S # {}
  PROVE  \E k \in S : \A j \in S : k <= j
<1> DEFINE Upto(k) == 0 .. k
           T       == {Upto(k) : k \in S}
<1>1. PICK k \in S : \A j \in S : ~(<<Upto(j), Upto(k)>> \in StrictSubsetOrdering(Nat))
  <2>1. ASSUME NEW k \in S PROVE IsFiniteSet(Upto(k)) /\ Upto(k) \in SUBSET Nat
    BY FS_Interval
  <2>2. T \subseteq FiniteSubsetsOf(Nat) /\ T # {}
    BY <2>1 DEF FiniteSubsetsOf
  <2>3. \E x \in T : \A y \in T : ~(<<y, x>> \in StrictSubsetOrdering(Nat))
    <3> HIDE DEF T
    <3> QED BY <2>2, FS_StrictSubsetOrderingWellFounded, WFMin
  <2> QED BY <2>3
<1>2. ASSUME NEW j \in S, j < k PROVE FALSE
  <2>1. /\ Upto(j) \in SUBSET Nat /\ Upto(k) \in SUBSET Nat
        /\ Upto(j) \subseteq Upto(k) /\ Upto(k) # Upto(j)
    BY <1>2
  <2> HIDE DEF Upto
  <2> QED BY <1>1, <2>1 DEF StrictSubsetOrdering
<1> QED BY <1>2

LEMMA MinIsLeast ==
  ASSUME NEW S \in SUBSET Nat, S # {}
  PROVE  Min(S) \in S /\ \A j \in S : Min(S) <= j
BY LeastElement DEF Min

LEMMA MinOfTwo ==
  ASSUME NEW m \in Int, NEW n \in Int
  PROVE  Min({m, n}) = IF m <= n THEN m ELSE n
<1>1. \E k \in {m, n} : \A j \in {m, n} : k <= j
  OBVIOUS
<1>2. Min({m, n}) \in {m, n} /\ \A j \in {m, n} : Min({m, n}) <= j
  BY <1>1 DEF Min
<1> QED BY <1>2

LEMMA MaxOfTwo ==
  ASSUME NEW m \in Int, NEW n \in Int
  PROVE  Max({m, n}) = IF m >= n THEN m ELSE n
<1>1. \E k \in {m, n} : \A j \in {m, n} : k >= j
  OBVIOUS
<1>2. Max({m, n}) \in {m, n} /\ \A j \in {m, n} : Max({m, n}) >= j
  BY <1>1 DEF Max
<1> QED BY <1>2

(* A bounded set of naturals has a greatest element: its distance from the *)
(* bound is the least.                                                     *)
LEMMA MaxIsGreatest ==
  ASSUME NEW bound \in Nat, NEW S \in SUBSET (0 .. bound), S # {}
  PROVE  Max(S) \in S
<1> DEFINE D == {bound - k : k \in S}
<1>1. D \in SUBSET Nat /\ D # {}
  <2>1. \A k \in S : bound - k \in Nat
    OBVIOUS
  <2> QED BY <2>1
<1>2. PICK d \in D : \A j \in D : d <= j
  <2> HIDE DEF D
  <2> QED BY <1>1, LeastElement
<1>3. PICK k \in S : d = bound - k
  BY <1>2
<1>4. \A j \in S : k >= j
  <2> SUFFICES ASSUME NEW j \in S PROVE k >= j
    OBVIOUS
  <2>1. bound - j \in D
    OBVIOUS
  <2>2. d <= bound - j
    BY <1>2, <2>1
  <2> QED BY <1>3, <2>2
<1> QED BY <1>3, <1>4 DEF Max

-----------------------------------------------------------------------------
(***************************************************************************)
(* What a call may leave and answer.  Told says that m_Position is what    *)
(* tellg() answers, -1 as the largest usize; every call but a refused read *)
(* and Align asks it.                                                      *)
(***************************************************************************)
States   == [ios : {"good", "fail", "bad"}, file : Offsets, position : Usize]
Outcomes == [ok : BOOLEAN, st : States, from : Offsets, count : Offsets]

Told(st) == st.position = Tell(st.ios, st.file)

(* The inductive invariant: the offset is still at the beginning when the  *)
(* file is opened.                                                         *)
IInv == TypeOK /\ (created # "stream" => filePos = 0)

LEMMA WordType ==
  /\ SsizeLimit \in Nat \ {0} /\ Modulus = 2 * SsizeLimit
  /\ Usize \subseteq Nat /\ MaxUsize \in Usize /\ MaxUsize >= SsizeLimit
  /\ Offsets \subseteq Usize /\ 0 \in Offsets
  /\ FileLengths \subseteq Offsets /\ Lengths \subseteq Offsets
BY SsizeAssumption, FileStreamAssumption DEF Usize, MaxUsize, Modulus, Offsets

LEMMA LeftType ==
  ASSUME NEW state \in {"good", "fail", "bad"}, NEW offset \in Offsets
  PROVE  Left(state, offset) \in States /\ Told(Left(state, offset))
BY WordType DEF Left, States, Told, Tell

LEMMA HereType == TypeOK => Here \in States
BY DEF TypeOK, Here, States

-----------------------------------------------------------------------------
LEMMA SeekOutcomes ==
  ASSUME TypeOK, NEW st \in States, NEW seek \in SeekValues
  PROVE  /\ SeekOutcome(st, seek) \in Outcomes
         /\ Told(SeekOutcome(st, seek).st)
         /\ SeekOutcome(st, seek).ok <=> SeekOutcome(st, seek).st.ios # "bad"
         /\ SeekOutcome(st, seek).st.ios = "good" =>
              st.ios = "good" /\ SeekOutcome(st, seek).st.file = SeekTarget(st, seek)
<1> DEFINE target == SeekTarget(st, seek)
           state  == IF st.ios = "good" /\ target \notin Offsets THEN "fail" ELSE st.ios
           offset == IF state = "good" THEN target ELSE st.file
<1>1. st.ios \in {"good", "fail", "bad"} /\ st.file \in Offsets
  BY DEF States
<1>2. state \in {"good", "fail", "bad"} /\ offset \in Offsets
  <2> HIDE DEF target
  <2> QED BY <1>1
<1>3. SeekOutcome(st, seek) = Answer(state # "bad", Left(state, offset), 0, 0)
  BY DEF SeekOutcome
<1>4. Left(state, offset) \in States /\ Told(Left(state, offset))
  <2> HIDE DEF state, offset
  <2> QED BY <1>2, LeftType
<1>5. state = "good" => st.ios = "good" /\ offset = target
  BY <1>1
<1>6. Left(state, offset).ios = state /\ Left(state, offset).file = offset
  BY DEF Left
<1> HIDE DEF state, offset, target
<1>7. SeekTarget(st, seek) = target
  BY DEF target
<1>8. /\ SeekOutcome(st, seek).ok = (state # "bad")
      /\ SeekOutcome(st, seek).st = Left(state, offset)
      /\ SeekOutcome(st, seek) \in Outcomes
  BY <1>3, <1>4, WordType DEF Answer, Outcomes
<1> QED BY <1>4, <1>5, <1>6, <1>7, <1>8

(* A read is refused and leaves everything, or it asks tellg(); one that   *)
(* leaves the ifstream good is whole.                                      *)
LEMMA ReadOutcomes ==
  ASSUME TypeOK, NEW st \in States, NEW n \in Nat, NEW disk \in Disk
  PROVE  /\ ReadOutcome(st, n, disk) \in Outcomes
         /\ ReadOutcome(st, n, disk).st = st \/ Told(ReadOutcome(st, n, disk).st)
         /\ ReadOutcome(st, n, disk).ok /\ ReadOutcome(st, n, disk).st.ios = "good" =>
              /\ st.ios = "good"
              /\ ReadOutcome(st, n, disk).from = st.file
              /\ ReadOutcome(st, n, disk).count = n
              /\ n > 0 => st.file + n <= fileLen
<1> DEFINE got   == IF disk = "error" THEN 0 ELSE Available(st, n)
           state == IF st.ios # "good" THEN st.ios
                    ELSE IF disk = "error" /\ n > 0 THEN "bad"
                    ELSE IF got = n THEN "good" ELSE "fail"
           o     == ReadOutcome(st, n, disk)
<1>1. /\ st.ios \in {"good", "fail", "bad"} /\ st.file \in Nat /\ st.file < SsizeLimit
      /\ n \in Nat /\ fileLen \in Nat /\ fileLen < SsizeLimit
      /\ SsizeLimit \in Nat
  BY WordType DEF States, Offsets, TypeOK
<1>2. got \in 0 .. n /\ (got > 0 => st.file + got <= fileLen)
  <2>1. Available(st, n) = IF st.ios = "good"
                           THEN IF n <= fileLen - st.file THEN n
                                ELSE IF fileLen - st.file >= 0 THEN fileLen - st.file ELSE 0
                           ELSE 0
    BY <1>1, MinOfTwo, MaxOfTwo DEF Available
  <2> QED BY <1>1, <2>1
<1>3. /\ state \in {"good", "fail", "bad"}
      /\ state = "good" => st.ios = "good" /\ got = n
  <2> HIDE DEF got
  <2> QED BY <1>1, <1>2
<1>4. got \in Offsets /\ st.file + got \in Offsets
  <2> HIDE DEF got
  <2> QED BY <1>1, <1>2 DEF Offsets
<1>5. Left(state, st.file + got) \in States /\ Told(Left(state, st.file + got))
  <2> HIDE DEF got, state
  <2> QED BY <1>3, <1>4, LeftType
<1>6. o = IF CanRead(st.position, m_Size, n)
          THEN Answer(state # "bad", Left(state, st.file + got), st.file, got)
          ELSE Answer(FALSE, st, 0, 0)
  BY DEF ReadOutcome
<1>7. Left(state, st.file + got).ios = state
  BY DEF Left
<1> HIDE DEF got, state, o
<1>8. CASE CanRead(st.position, m_Size, n)
  <2>1. /\ o.ok = (state # "bad") /\ o.st = Left(state, st.file + got)
        /\ o.from = st.file /\ o.count = got /\ o \in Outcomes
    BY <1>4, <1>5, <1>6, <1>8 DEF Answer, Outcomes, States
  <2> QED BY <1>1, <1>2, <1>3, <1>5, <1>7, <2>1 DEF o
<1>9. CASE ~CanRead(st.position, m_Size, n)
  <2>1. ~o.ok /\ o.st = st /\ o \in Outcomes
    BY <1>6, <1>9, WordType DEF Answer, Outcomes
  <2> QED BY <2>1 DEF o
<1> QED BY <1>8, <1>9

(* A string ends at the first NUL, if the ifstream is still good.          *)
IsString(got) ==
  /\ got.from + got.count \in nuls
  /\ nuls \cap (got.from .. got.from + got.count - 1) = {}

LEMMA StringOutcomes ==
  ASSUME TypeOK, NEW st \in States, NEW disk \in Disk
  PROVE  /\ StringOutcome(st, disk) \in Outcomes
         /\ StringOutcome(st, disk).st = st \/ Told(StringOutcome(st, disk).st)
         /\ StringOutcome(st, disk).ok /\ StringOutcome(st, disk).st.ios = "good" =>
              IsString(StringOutcome(st, disk))
<1> DEFINE first == ReadOutcome(st, 1, disk)
           end   == Min({fileLen, m_Size})
           ends  == {k \in nuls : st.file <= k /\ k < end}
           stop  == IF ends = {} THEN end ELSE Min(ends)
           o     == StringOutcome(st, disk)
<1>1. /\ st.file \in Nat /\ fileLen \in Nat /\ fileLen < SsizeLimit /\ m_Size \in Nat
      /\ SsizeLimit \in Nat /\ nuls \subseteq 0 .. SsizeLimit - 1
  BY WordType DEF States, Offsets, TypeOK
<1>2. CASE ~first.ok \/ first.st.ios # "good"
  <2>1. o = first
    BY <1>2 DEF StringOutcome
  <2> QED BY <1>2, <2>1, ReadOutcomes
<1>3. CASE first.ok /\ first.st.ios = "good"
  <2>1. st.ios = "good" /\ st.file + 1 <= fileLen
    BY <1>3, ReadOutcomes
  <2>2. end = (IF fileLen <= m_Size THEN fileLen ELSE m_Size)
    BY <1>1, MinOfTwo
  <2>3. o = IF ends # {} THEN Answer(TRUE, Left("good", stop + 1), st.file, stop - st.file)
            ELSE IF fileLen < m_Size THEN Answer(TRUE, Left("fail", stop), st.file, stop - st.file)
            ELSE Answer(FALSE, Left("good", stop), 0, 0)
    BY <1>3 DEF StringOutcome
  <2>4. \A state, offset : Left(state, offset).ios = state
    BY DEF Left
  <2>5. CASE ends # {}
    <3>1. ends \in SUBSET Nat
      <4>1. \A k \in nuls : k \in Nat
        BY <1>1
      <4> QED BY <4>1
    <3>2. stop \in ends /\ \A k \in ends : stop <= k
      <4> HIDE DEF ends
      <4> QED BY <2>5, <3>1, MinIsLeast
    <3>3. stop \in nuls /\ stop \in Nat /\ st.file <= stop /\ stop < end
      <4> HIDE DEF stop, end
      <4> QED BY <3>1, <3>2
    <3>4. ASSUME NEW k \in nuls \cap (st.file .. stop - 1) PROVE FALSE
      <4>1. k \in nuls /\ k \in Nat /\ st.file <= k /\ k < stop
        <5> HIDE DEF stop, end, ends
        <5> QED BY <1>1, <3>3
      <4>2. k \in ends
        <5> HIDE DEF stop, end
        <5> QED BY <1>1, <2>2, <3>3, <4>1
      <4> HIDE DEF ends, stop
      <4> QED BY <3>2, <3>3, <4>1, <4>2
    <3> HIDE DEF ends, stop, end
    <3>5. stop + 1 \in Offsets /\ stop - st.file \in Offsets /\ st.file \in Offsets
          /\ st.file + (stop - st.file) = stop
      BY <1>1, <2>2, <3>3 DEF Offsets
    <3>6. o = Answer(TRUE, Left("good", stop + 1), st.file, stop - st.file)
      BY <2>3, <2>5
    <3>7. o.st = Left("good", stop + 1) /\ o.from = st.file /\ o.count = stop - st.file
      BY <3>6 DEF Answer
    <3>8. Told(o.st) /\ o \in Outcomes
      BY <3>5, <3>6, <3>7, LeftType DEF Answer, Outcomes
    <3>9. IsString(o)
      <4>1. nuls \cap (st.file .. stop - 1) = {}
        BY <3>4
      <4> HIDE DEF o
      <4>2. o.from + o.count = stop /\ o.from = st.file
        BY <3>5, <3>7
      <4>3. (o.from .. o.from + o.count - 1) = (st.file .. stop - 1)
        <5>1. o.from + o.count - 1 = stop - 1
          <6>1. st.file + (stop - st.file) - 1 = stop - 1
            BY <1>1, <3>3
          <6> QED BY <3>7, <6>1, Zenon
        <5> QED BY <4>2, <5>1, Zenon
      <4>4. o.from + o.count \in nuls
        BY <3>3, <4>2
      <4>5. nuls \cap (o.from .. o.from + o.count - 1) = {}
        BY <4>1, <4>3
      <4> QED BY <4>4, <4>5 DEF IsString
    <3> QED BY <3>8, <3>9 DEF o
  <2>6. CASE ends = {} /\ fileLen < m_Size
    <3>1. stop = fileLen /\ st.file \in Offsets /\ fileLen \in Offsets /\ fileLen - st.file \in Offsets
      BY <1>1, <2>1, <2>2, <2>6 DEF Offsets
    <3> HIDE DEF ends, stop
    <3>2. o = Answer(TRUE, Left("fail", fileLen), st.file, fileLen - st.file)
      BY <2>3, <2>6, <3>1
    <3>3. o.st = Left("fail", fileLen) /\ Told(o.st) /\ o \in Outcomes
      BY <3>1, <3>2, LeftType DEF Answer, Outcomes
    <3> QED BY <2>4, <3>3 DEF o
  <2>7. CASE ends = {} /\ ~(fileLen < m_Size)
    <3>1. stop = m_Size /\ m_Size \in Offsets
      BY <1>1, <2>2, <2>7 DEF Offsets
    <3> HIDE DEF ends, stop
    <3>2. o = Answer(FALSE, Left("good", m_Size), 0, 0)
      BY <2>3, <2>7, <3>1
    <3>3. ~o.ok /\ Told(o.st) /\ o \in Outcomes
      BY <3>1, <3>2, LeftType, WordType DEF Answer, Outcomes
    <3> QED BY <3>3 DEF o
  <2> QED BY <2>5, <2>6, <2>7
<1> QED BY <1>2, <1>3

-----------------------------------------------------------------------------
(* Coming back asks tellg() in any case, and ends good only where the      *)
(* stream was: an offset is no larger than the largest position.           *)
LEMMA SeekBackOutcomes ==
  ASSUME TypeOK, NEW position \in Usize, NEW got \in Outcomes
  PROVE  /\ SeekBack(position, got) \in Outcomes
         /\ Told(SeekBack(position, got).st)
         /\ SeekBack(position, got).st.ios = "good" =>
              /\ got.st.ios = "good"
              /\ SeekBack(position, got).st.file = position
              /\ SeekBack(position, got).st.position = position
         /\ SeekBack(position, got).ok =>
              /\ got.ok
              /\ SeekBack(position, got).from = got.from
              /\ SeekBack(position, got).count = got.count
<1> DEFINE seek == SeekAbsoluteTo(position)
           back == SeekOutcome(got.st, seek)
           o    == SeekBack(position, got)
<1>1. seek \in SeekValues /\ got.st \in States
  BY DEF SeekAbsoluteTo, SeekValues, Outcomes
<1> HIDE DEF seek
<1>2. /\ back \in Outcomes /\ Told(back.st)
      /\ back.ok <=> back.st.ios # "bad"
      /\ back.st.ios = "good" => got.st.ios = "good" /\ back.st.file = SeekTarget(got.st, seek)
  BY <1>1, SeekOutcomes
<1>3. back.st.ios = "good" => back.st.file = position /\ back.st.position = position
  <2> SUFFICES ASSUME back.st.ios = "good"
               PROVE  back.st.file = position /\ back.st.position = position
    OBVIOUS
  <2>1. back.st.file = ToSsize(position) /\ back.st.file \in Offsets
    BY <1>2 DEF seek, SeekTarget, SeekAbsoluteTo, Outcomes, States
  <2>2. back.st.file = position
    BY <2>1, WordType DEF ToSsize, Offsets, Usize
  <2> QED BY <1>2, <2>2 DEF Told, Tell
<1>4. o = IF back.ok THEN [got EXCEPT !.st = back.st] ELSE Answer(FALSE, back.st, 0, 0)
  BY DEF SeekBack, seek
<1> HIDE DEF back, o
<1>5. CASE back.ok
  <2>1. /\ o.st = back.st /\ o.ok = got.ok /\ o.from = got.from /\ o.count = got.count
        /\ o \in Outcomes
    BY <1>2, <1>4, <1>5 DEF Outcomes
  <2> QED BY <1>2, <1>3, <2>1 DEF o
<1>6. CASE ~back.ok
  <2>1. o.st = back.st /\ o \in Outcomes /\ ~o.ok
    BY <1>2, <1>4, <1>6, WordType DEF Outcomes, Answer
  <2> QED BY <1>2, <1>6, <2>1 DEF o
<1> QED BY <1>5, <1>6

(* What a positional call answers: as its read does, from another place.   *)
LEMMA ReadAtOutcomes ==
  ASSUME TypeOK, NEW seek \in SeekValues, NEW n \in Nat, NEW disk \in Disk
  PROVE  LET o == ReadAtOutcome(Here, seek, n, disk)
         IN  /\ o \in Outcomes /\ Told(o.st)
             /\ o.st.ios = "good" => o.st.file = m_Position /\ o.st.position = m_Position
             /\ o.ok /\ o.st.ios = "good" =>
                  o.count = n /\ (n > 0 => o.from + n <= fileLen)
<1> DEFINE there == SeekOutcome(Here, seek)
           got   == ReadOutcome(there.st, n, disk)
           o     == ReadAtOutcome(Here, seek, n, disk)
<1>1. there \in Outcomes /\ Told(there.st) /\ (there.ok <=> there.st.ios # "bad")
  BY HereType, SeekOutcomes
<1>2. there.st \in States /\ Here.position = m_Position /\ m_Position \in Usize
  BY <1>1 DEF Outcomes, Here, TypeOK
<1>3. o = IF there.ok THEN SeekBack(m_Position, got) ELSE there
  BY <1>2 DEF ReadAtOutcome
<1> HIDE DEF there
<1>4. /\ got \in Outcomes
      /\ got.ok /\ got.st.ios = "good" =>
           /\ got.from = there.st.file /\ got.count = n
           /\ n > 0 => there.st.file + n <= fileLen
  BY <1>2, ReadOutcomes
<1> HIDE DEF got, o
<1>5. CASE there.ok
  BY <1>2, <1>3, <1>4, <1>5, SeekBackOutcomes DEF o
<1>6. CASE ~there.ok
  BY <1>1, <1>3, <1>6 DEF o
<1> QED BY <1>5, <1>6

LEMMA StringAtOutcomes ==
  ASSUME TypeOK, NEW seek \in SeekValues, NEW disk \in Disk
  PROVE  LET o == StringAtOutcome(Here, seek, disk)
         IN  /\ o \in Outcomes /\ Told(o.st)
             /\ o.st.ios = "good" => o.st.file = m_Position /\ o.st.position = m_Position
             /\ o.ok /\ o.st.ios = "good" => IsString(o)
<1> DEFINE there == SeekOutcome(Here, seek)
           got   == StringOutcome(there.st, disk)
           o     == StringAtOutcome(Here, seek, disk)
<1>1. there \in Outcomes /\ Told(there.st) /\ (there.ok <=> there.st.ios # "bad")
  BY HereType, SeekOutcomes
<1>2. there.st \in States /\ Here.position = m_Position /\ m_Position \in Usize
  BY <1>1 DEF Outcomes, Here, TypeOK
<1>3. o = IF there.ok THEN SeekBack(m_Position, got) ELSE there
  BY <1>2 DEF StringAtOutcome
<1> HIDE DEF there
<1>4. got \in Outcomes /\ (got.ok /\ got.st.ios = "good" => IsString(got))
  BY <1>2, StringOutcomes
<1> HIDE DEF got, o
<1>5. CASE there.ok
  BY <1>2, <1>3, <1>4, <1>5, SeekBackOutcomes DEF o, IsString
<1>6. CASE ~there.ok
  BY <1>1, <1>3, <1>6 DEF o
<1> QED BY <1>5, <1>6

LEMMA AlignType ==
  ASSUME TypeOK, NEW alignment \in Alignments
  PROVE  AlignTarget(m_Position, alignment) \in Nat
<1>1. m_Position \in Nat /\ alignment \in Nat \ {0} /\ Modulus \in Nat
  BY WordType, FileStreamAssumption DEF TypeOK
<1> DEFINE up == (m_Position \div alignment
                   + IF m_Position % alignment # 0 THEN 1 ELSE 0) * alignment
<1>2. up \in Nat
  BY <1>1
<1> HIDE DEF up
<1>3. ToUsize(up) \in Nat
  BY <1>1, <1>2 DEF ToUsize
<1> QED BY <1>3 DEF AlignTarget, up

-----------------------------------------------------------------------------
(***************************************************************************)
(* Every call of a stream is one of these: a refused call, an Align, or    *)
(* one that asks tellg().                                                  *)
(***************************************************************************)
Answers(call, arg, o) ==
  /\ call \in Calls /\ arg \in Int /\ o \in Outcomes
  /\ o.st = Here \/ Told(o.st) \/ (call = "Align" /\ o.st.ios = ios)
  /\ o.ok /\ o.st.ios = "good" =>
       /\ call \in {"Read", "ReadAt"} =>
            o.count = arg /\ (o.count > 0 => o.from + o.count <= fileLen)
       /\ call \in {"ReadString", "ReadStringAt"} => IsString(o)
  /\ call \in {"ReadAt", "ReadStringAt"} /\ o.st.ios = "good" =>
       o.st.position = m_Position /\ o.st.file = m_Position

Call ==
  \/ \E n \in Lengths : Read(n)
  \/ ReadString
  \/ \E seek \in SeekValues : Seek(seek)
  \/ \E n \in Usize : Skip(n)
  \/ \E alignment \in Alignments : Align(alignment)
  \/ \E seek \in SeekValues, n \in Lengths : ReadAt(seek, n)
  \/ \E seek \in SeekValues : ReadStringAt(seek)

LEMMA CallsAnswer ==
  ASSUME TypeOK, Call
  PROVE  \E call, arg, o : Answers(call, arg, o) /\ Return(call, arg, o)
<1> DEFINE Goal == \E call, arg, o : Answers(call, arg, o) /\ Return(call, arg, o)
<1>1. ASSUME NEW call, NEW arg, NEW o, Answers(call, arg, o), Return(call, arg, o) PROVE Goal
  BY <1>1
<1> HIDE DEF Goal
<1>2. Lengths \subseteq Nat /\ Lengths \subseteq Int /\ Here \in States
  <2>1. Lengths \subseteq Nat
    BY FileStreamAssumption, WordType
  <2> QED BY <2>1, HereType
<1>3. ASSUME NEW n \in Lengths, Read(n) PROVE Goal
  <2>1. PICK disk \in Disk : Return("Read", n, ReadOutcome(Here, n, disk))
    BY <1>3 DEF Read
  <2>2. Answers("Read", n, ReadOutcome(Here, n, disk))
    BY <1>2, ReadOutcomes DEF Answers, Calls
  <2> QED BY <1>1, <2>1, <2>2
<1>4. ASSUME ReadString PROVE Goal
  <2>1. PICK disk \in Disk : Return("ReadString", 0, StringOutcome(Here, disk))
    BY <1>4 DEF ReadString
  <2>2. Answers("ReadString", 0, StringOutcome(Here, disk))
    BY <1>2, StringOutcomes DEF Answers, Calls
  <2> QED BY <1>1, <2>1, <2>2
<1>5. ASSUME NEW seek \in SeekValues, Seek(seek) PROVE Goal
  <2>1. Answers("Seek", 0, SeekOutcome(Here, seek))
    BY <1>2, SeekOutcomes DEF Answers, Calls
  <2> QED BY <1>1, <1>5, <2>1 DEF Seek
<1>6. ASSUME NEW n \in Usize, Skip(n) PROVE Goal
  <2>1. n \in Int /\ SeekRelativeBy(ToSsize(n)) \in SeekValues
    BY WordType DEF SeekRelativeBy, SeekValues, ToSsize, Usize, Ssize
  <2>2. Answers("Skip", n, SeekOutcome(Here, SeekRelativeBy(ToSsize(n))))
    BY <1>2, <2>1, SeekOutcomes DEF Answers, Calls
  <2> QED BY <1>1, <1>6, <2>2 DEF Skip
<1>7. ASSUME NEW alignment \in Alignments, Align(alignment) PROVE Goal
  <2> DEFINE position == AlignTarget(m_Position, alignment)
             o == IF position >= m_Size THEN Answer(FALSE, Here, 0, 0)
                  ELSE Answer(TRUE, [Here EXCEPT !.position = position], 0, 0)
  <2>1. alignment \in Int /\ position \in Nat
    BY FileStreamAssumption, AlignType
  <2>2. Return("Align", alignment, o)
    BY <1>7 DEF Align
  <2> HIDE DEF position
  <2>3. o \in Outcomes /\ o.st.ios = ios
    <3>1. Here.ios = ios
      BY DEF Here
    <3>2. CASE position >= m_Size
      BY <1>2, <3>1, <3>2, WordType DEF Answer, Outcomes
    <3>3. CASE ~(position >= m_Size)
      <4>1. position \in Usize
        BY <2>1, <3>3, WordType DEF TypeOK, Usize
      <4>2. [Here EXCEPT !.position = position] \in States
            /\ [Here EXCEPT !.position = position].ios = ios
        BY <1>2, <3>1, <4>1 DEF States
      <4> QED BY <3>3, <4>2, WordType DEF Answer, Outcomes
    <3> QED BY <3>2, <3>3
  <2> HIDE DEF o
  <2>4. Answers("Align", alignment, o)
    BY <2>1, <2>3 DEF Answers, Calls
  <2> QED BY <1>1, <2>2, <2>4
<1>8. ASSUME NEW seek \in SeekValues, NEW n \in Lengths, ReadAt(seek, n) PROVE Goal
  <2>1. PICK disk \in Disk : Return("ReadAt", n, ReadAtOutcome(Here, seek, n, disk))
    BY <1>8 DEF ReadAt
  <2>2. Answers("ReadAt", n, ReadAtOutcome(Here, seek, n, disk))
    BY <1>2, ReadAtOutcomes DEF Answers, Calls
  <2> QED BY <1>1, <2>1, <2>2
<1>9. ASSUME NEW seek \in SeekValues, ReadStringAt(seek) PROVE Goal
  <2>1. PICK disk \in Disk : Return("ReadStringAt", 0, StringAtOutcome(Here, seek, disk))
    BY <1>9 DEF ReadStringAt
  <2>2. Answers("ReadStringAt", 0, StringAtOutcome(Here, seek, disk))
    BY <1>2, StringAtOutcomes DEF Answers, Calls
  <2> QED BY <1>1, <2>1, <2>2
<1> QED BY <1>3, <1>4, <1>5, <1>6, <1>7, <1>8, <1>9 DEF Call, Goal

LEMMA NextIs == Next <=> Call \/ Replace \/ Resize \/ CheckExists \/ CheckRegular \/ OpenFile
BY DEF Next, Call

-----------------------------------------------------------------------------
(***************************************************************************)
(* The invariant.                                                          *)
(***************************************************************************)
LEMMA InitIInv == Init => IInv
<1> SUFFICES ASSUME Init PROVE IInv
  OBVIOUS
<1>1. Max(FileLengths) \in FileLengths
  <2>1. FileLengths \in SUBSET (0 .. SsizeLimit - 1) /\ SsizeLimit - 1 \in Nat
        /\ FileLengths # {}
    BY WordType, FileStreamAssumption DEF Init
  <2> QED BY <2>1, MaxIsGreatest
<1>2. nuls \subseteq 0 .. SsizeLimit - 1
  <2>1. Max(FileLengths) \in Nat /\ Max(FileLengths) < SsizeLimit
    <3>1. \A k \in FileLengths : k \in Nat /\ k < SsizeLimit
      BY WordType DEF Offsets
    <3> QED BY <1>1, <3>1
  <2>2. nuls \subseteq 0 .. Max(FileLengths) - 1
    BY DEF Init
  <2>3. \A k \in 0 .. Max(FileLengths) - 1 : k \in 0 .. SsizeLimit - 1
    BY <2>1, WordType
  <2> QED BY <2>2, <2>3
<1>3. ret \in [call : Calls, arg : Int, ok : BOOLEAN, from : Offsets, count : Offsets]
  BY WordType DEF Init, NoCall, Calls
<1> QED BY <1>2, <1>3, WordType DEF Init, IInv, TypeOK, Stages, Paths

LEMMA StepIInv ==
  ASSUME IInv, [Next]_vars
  PROVE  IInv'
<1>1. CASE Call
  <2>1. PICK call, arg, o : Answers(call, arg, o) /\ Return(call, arg, o)
    BY <1>1, CallsAnswer DEF IInv
  <2>2. /\ call \in Calls /\ arg \in Int /\ o.ok \in BOOLEAN
        /\ o.from \in Offsets /\ o.count \in Offsets
        /\ o.st.ios \in {"good", "fail", "bad"} /\ o.st.file \in Offsets
        /\ o.st.position \in Usize
    BY <2>1 DEF Answers, Outcomes, States
  <2> QED BY <2>1, <2>2 DEF Return, IInv, TypeOK, world
<1>2. CASE Replace \/ Resize \/ CheckExists \/ CheckRegular
  BY <1>2 DEF Replace, Resize, CheckExists, CheckRegular, IInv, TypeOK, world, Stages, Errors
<1>3. CASE OpenFile
  <2>1. OpenedAs \in {"good", "fail"} /\ fileLen \in Offsets
    BY WordType DEF OpenedAs, IInv, TypeOK
  <2>2. Tell(OpenedAs, fileLen) \in Usize /\ Tell(OpenedAs, 0) \in Usize
    BY <2>1, WordType DEF Tell
  <2> QED BY <1>3, <2>1, <2>2 DEF OpenFile, IInv, TypeOK, world, Stages
<1>4. CASE UNCHANGED vars
  BY <1>4 DEF vars, world, IInv, TypeOK
<1> QED BY <1>1, <1>2, <1>3, <1>4, NextIs

LEMMA InvariantIInv == Spec => []IInv
BY InitIInv, StepIInv, PTL DEF Spec

(* Every variable keeps its type, whichever file, calls and errors.        *)
THEOREM TypeCorrect == Spec => []TypeOK
BY InvariantIInv, PTL DEF IInv

-----------------------------------------------------------------------------
(***************************************************************************)
(* What steps do.                                                          *)
(***************************************************************************)
(* An ifstream that fails takes the stream to its end: -1 becomes the      *)
(* largest position, which is not below any size.                          *)
THEOREM FailedStreamsAlwaysAtEnd == Spec => FailedStreamsAreAtEnd
<1>1. ASSUME IInv, [Next]_vars
      PROVE  [ios' # "good" /\ ~IsAtEnd(m_Position', m_Size') =>
                UNCHANGED <<ios, m_Position>> \/ ret'.call = "Align"]_vars
  <2> SUFFICES ASSUME Next, ios' # "good", ~IsAtEnd(m_Position', m_Size')
               PROVE  UNCHANGED <<ios, m_Position>> \/ ret'.call = "Align"
    BY <1>1
  <2>1. m_Position' # MaxUsize
    <3>1. m_Size' \in Usize
      BY <1>1, StepIInv DEF IInv, TypeOK
    <3> QED BY <3>1, WordType DEF IsAtEnd, Usize, MaxUsize
  <2>2. CASE Call
    <3>1. PICK call, arg, o : Answers(call, arg, o) /\ Return(call, arg, o)
      BY <1>1, <2>2, CallsAnswer DEF IInv
    <3>2. ~Told(o.st)
      BY <2>1, <3>1 DEF Return, Told, Tell
    <3>3. o.st = Here \/ call = "Align"
      BY <3>1, <3>2 DEF Answers
    <3> QED BY <3>1, <3>3 DEF Return, Here
  <2>3. CASE Replace \/ Resize \/ CheckExists \/ CheckRegular
    BY <2>3 DEF Replace, Resize, CheckExists, CheckRegular
  <2>4. CASE OpenFile
    BY <2>1, <2>4 DEF OpenFile, Tell
  <2> QED BY <2>2, <2>3, <2>4, NextIs
<1> QED BY InvariantIInv, <1>1, PTL DEF Spec, FailedStreamsAreAtEnd

(* A read that leaves the ifstream good handed out all it was asked for,   *)
(* and only bytes of the file.                                             *)
THEOREM GoodReadsAlwaysWhole == Spec => GoodReadsAreWhole
<1>1. ASSUME IInv, [Next]_vars
      PROVE  [Called /\ ret'.ok /\ ios' = "good" =>
                /\ ret'.call \in {"Read", "ReadAt"} =>
                     ret'.count = ret'.arg
                     /\ (ret'.count > 0 => ret'.from + ret'.count <= fileLen)
                /\ ret'.call \in {"ReadString", "ReadStringAt"} =>
                     /\ ret'.from + ret'.count \in nuls
                     /\ nuls \cap (ret'.from .. ret'.from + ret'.count - 1) = {}]_vars
  <2>1. CASE Call
    <3>1. PICK call, arg, o : Answers(call, arg, o) /\ Return(call, arg, o)
      BY <1>1, <2>1, CallsAnswer DEF IInv
    <3> QED BY <3>1 DEF Return, Answers, IsString
  <2>2. CASE Replace \/ Resize \/ CheckExists \/ CheckRegular \/ OpenFile
    BY <2>2 DEF Replace, Resize, CheckExists, CheckRegular, OpenFile, Called, world, vars
  <2> QED BY <1>1, <2>1, <2>2, NextIs
<1> QED BY InvariantIInv, <1>1, PTL DEF Spec, GoodReadsAreWhole

(* Where the stream believes to be and where its ifstream is part in Align *)
(* alone.                                                                  *)
THEOREM OnlyAlignEverLosesTheOffset == Spec => OnlyAlignLosesTheOffset
<1>1. ASSUME IInv, [Next]_vars
      PROVE  [m_Position = filePos /\ ios' = "good" /\ m_Position' # filePos' =>
                ret'.call = "Align"]_vars
  <2> SUFFICES ASSUME Next, m_Position = filePos, ios' = "good", m_Position' # filePos'
               PROVE  ret'.call = "Align"
    BY <1>1
  <2>1. CASE Call
    <3>1. PICK call, arg, o : Answers(call, arg, o) /\ Return(call, arg, o)
      BY <1>1, <2>1, CallsAnswer DEF IInv
    <3>2. o.st # Here /\ ~Told(o.st)
      BY <3>1 DEF Return, Here, Told, Tell
    <3> QED BY <3>1, <3>2 DEF Return, Answers
  <2>2. CASE Replace \/ Resize \/ CheckExists \/ CheckRegular
    BY <2>2 DEF Replace, Resize, CheckExists, CheckRegular
  <2>3. CASE OpenFile
    BY <1>1, <2>3 DEF OpenFile, Tell, IInv
  <2> QED BY <2>1, <2>2, <2>3, NextIs
<1> QED BY InvariantIInv, <1>1, PTL DEF Spec, OnlyAlignLosesTheOffset

(* A positional read that leaves the ifstream good leaves the stream and   *)
(* the ifstream where the stream was.                                      *)
THEOREM PositionalReadsAlwaysRestore == Spec => PositionalReadRestores
<1>1. ASSUME IInv, [Next]_vars
      PROVE  [Called /\ ret'.call \in {"ReadAt", "ReadStringAt"} /\ ios' = "good" =>
                m_Position' = m_Position /\ filePos' = m_Position]_vars
  <2>1. CASE Call
    <3>1. PICK call, arg, o : Answers(call, arg, o) /\ Return(call, arg, o)
      BY <1>1, <2>1, CallsAnswer DEF IInv
    <3> QED BY <3>1 DEF Return, Answers
  <2>2. CASE Replace \/ Resize \/ CheckExists \/ CheckRegular \/ OpenFile
    BY <2>2 DEF Replace, Resize, CheckExists, CheckRegular, OpenFile, Called, world, vars
  <2> QED BY <1>1, <2>1, <2>2, NextIs
<1> QED BY InvariantIInv, <1>1, PTL DEF Spec, PositionalReadRestores
=============================================================================
