----------------------------- MODULE FileStream -----------------------------
(***************************************************************************)
(* cblend::FileStream: how Create opens a path, and then a stream over a   *)
(* std::ifstream.  The object keeps a copy of two things the ifstream and  *)
(* the file also know: m_Size, taken once when the file is opened, and     *)
(* m_Position, asked for with tellg() after every call that reaches the    *)
(* ifstream.  Other processes may replace the path, and shorten or extend  *)
(* the file, between any two steps.                                        *)
(*                                                                         *)
(* The ifstream is external: good, failed (failbit, which nothing here     *)
(* ever clears) or bad (badbit, a disk error), and an offset in the file.  *)
(* tellg() is -1 unless it is good.                                        *)
(***************************************************************************)
EXTENDS Stream, FiniteSetsExt

CONSTANTS
  FileLengths,  \* the lengths a file may have
  Lengths,      \* the read sizes clients ask for
  Alignments    \* the alignments clients ask for

ASSUME FileStreamAssumption ==
  /\ FileLengths \subseteq 0 .. SsizeLimit - 1
  /\ Lengths \subseteq 0 .. SsizeLimit - 1
  /\ Alignments \subseteq 1 .. SsizeLimit - 1

VARIABLES
  path,         \* what the path names
  fileLen,      \* the bytes of it that a read can reach
  nuls,         \* where the file has, or would have, NUL bytes
  created,      \* how far Create is, and what it returned
  ios,          \* the state of m_Stream
  filePos,      \* the offset of m_Stream
  m_Size,
  m_Position,
  ret           \* the last call: its name, its argument and what it returned

world == <<path, fileLen, nuls>>
vars  == <<world, created, ios, filePos, m_Size, m_Position, ret>>

Paths   == {"missing", "directory", "unreadable", "file"}
Offsets == 0 .. SsizeLimit - 1      \* what an off_t that is not negative holds
Errors  == {"FileNotFound", "DirectorySpecified", "AccessDenied"}
Stages  == {"exists", "regular", "open"} \cup Errors \cup {"stream"}
Calls   == {"none", "Read", "ReadString", "Seek", "Skip", "Align", "ReadAt",
            "ReadStringAt"}

TypeOK ==
  /\ path \in Paths
  /\ fileLen \in FileLengths
  /\ nuls \subseteq 0 .. SsizeLimit - 1
  /\ created \in Stages
  /\ ios \in {"good", "fail", "bad"}
  /\ filePos \in Offsets
  /\ m_Size \in Usize
  /\ m_Position \in Usize
  /\ ret \in [call : Calls, arg : Int, ok : BOOLEAN, from : Offsets, count : Offsets]

NoCall == [call |-> "none", arg |-> 0, ok |-> TRUE, from |-> 0, count |-> 0]

Init ==
  /\ path \in Paths
  /\ fileLen \in FileLengths
  /\ nuls \in SUBSET (0 .. Max(FileLengths) - 1)
  /\ created = "exists"
  /\ ios = "good"
  /\ filePos = 0
  /\ m_Size = 0
  /\ m_Position = 0
  /\ ret = NoCall

-----------------------------------------------------------------------------
(* Other processes.                                                        *)
Replace ==
  /\ created \in {"exists", "regular", "open"}
  /\ path' \in Paths
  /\ UNCHANGED <<fileLen, nuls, created, ios, filePos, m_Size, m_Position, ret>>

Resize ==
  /\ fileLen' \in FileLengths
  /\ UNCHANGED <<path, nuls, created, ios, filePos, m_Size, m_Position, ret>>

-----------------------------------------------------------------------------
(* Mutants: -1 kept as it is, and the position counted by the stream       *)
(* itself.                                                                 *)
TellSigned(state, offset) == IF state = "good" THEN offset ELSE -1

TellCounted(state, offset) == offset

(* tellg() as m_Position and m_Size see it: -1 becomes the largest usize.  *)
Tell(state, offset) == IF state = "good" THEN offset ELSE MaxUsize

(* Create asks about the path twice and then opens it.                     *)
CheckExists ==
  /\ created = "exists"
  /\ created' = IF path = "missing" THEN "FileNotFound" ELSE "regular"
  /\ UNCHANGED <<world, ios, filePos, m_Size, m_Position, ret>>

CheckRegular ==
  /\ created = "regular"
  /\ created' = IF path \in {"unreadable", "file"} THEN "open"
                ELSE "DirectorySpecified"
  /\ UNCHANGED <<world, ios, filePos, m_Size, m_Position, ret>>

(* An open that fails sets failbit, not badbit.  What has become a         *)
(* directory since Create asked can be opened and has some length, but     *)
(* cannot be read; what cannot be sought in, such as a pipe, fails in the  *)
(* constructor and leaves the stream like one that could not be opened.    *)
OpenedAs == IF path \in {"file", "directory"} THEN "good" ELSE "fail"

(* Opening and the constructor, which seeks to the end, takes the size     *)
(* from there, and seeks back to the beginning.                            *)
OpenFile ==
  /\ created = "open"
  /\ ios' = OpenedAs
  /\ created' = IF OpenedAs = "bad" THEN "AccessDenied" ELSE "stream"
  /\ m_Size' = Tell(OpenedAs, fileLen)
  /\ m_Position' = Tell(OpenedAs, 0)
  /\ UNCHANGED <<world, filePos, ret>>

-----------------------------------------------------------------------------
(* What a call does, from the state st the stream is in: the state it      *)
(* leaves, whether it succeeded, and the run of bytes it handed out.       *)
Here == [ios |-> ios, file |-> filePos, position |-> m_Position]

Left(state, offset) ==
  [ios |-> state, file |-> offset, position |-> Tell(state, offset)]

Answer(ok, st, from, count) == [ok |-> ok, st |-> st, from |-> from, count |-> count]

(* seekg, for every kind of seek.  On a failed ifstream it does nothing;   *)
(* an offset no file can have fails it; one behind the end of the file is  *)
(* as good as any.                                                         *)
SeekTarget(st, seek) ==
  CASE seek.kind = "begin"    -> 0
    [] seek.kind = "end"      -> fileLen
    [] seek.kind = "absolute" -> ToSsize(seek.value)
    [] seek.kind = "relative" -> st.file + seek.value

SeekOutcome(st, seek) ==
  LET target == SeekTarget(st, seek)
      state  == IF st.ios = "good" /\ target \notin Offsets THEN "fail" ELSE st.ios
      offset == IF state = "good" THEN target ELSE st.file
  IN  Answer(state # "bad", Left(state, offset), 0, 0)

(* What a read of n bytes gets.                                            *)
Available(st, n) ==
  IF st.ios = "good" THEN Min({n, Max({fileLen - st.file, 0})}) ELSE 0

\* Mutant: the ifstream is cleared after a short read.
ReadOutcomeCleared(st, n, disk) ==
  LET got == IF disk = "error" THEN 0 ELSE Available(st, n)
  IN  IF CanRead(st.position, m_Size, n)
      THEN Answer(TRUE, Left("good", st.file + got), st.file, got)
      ELSE Answer(FALSE, st, 0, 0)

(* Nothing but badbit makes the call fail: a file that has become too      *)
(* short yields what it has and sets failbit, a failed ifstream yields     *)
(* nothing, and the call succeeds.                                         *)
ReadOutcome(st, n, disk) ==
  LET got   == IF disk = "error" THEN 0 ELSE Available(st, n)
      state == IF st.ios # "good" THEN st.ios
               ELSE IF disk = "error" /\ n > 0 THEN "bad"
               ELSE IF got = n THEN "good" ELSE "fail"
  IN  IF CanRead(st.position, m_Size, n)
      THEN Answer(state # "bad", Left(state, st.file + got), st.file, got)
      ELSE Answer(FALSE, st, 0, 0)

(* Reading characters until one is NUL or cannot be read.  The character   *)
(* of a read that yields nothing is NUL.                                   *)
StringOutcome(st, disk) ==
  LET first == ReadOutcome(st, 1, disk)
      end   == Min({fileLen, m_Size})
      ends  == {k \in nuls : st.file <= k /\ k < end}
      stop  == IF ends = {} THEN end ELSE Min(ends)
  IN  IF ~first.ok \/ first.st.ios # "good" THEN first
      ELSE IF ends # {}
        THEN Answer(TRUE, Left("good", stop + 1), st.file, stop - st.file)
      ELSE IF fileLen < m_Size
        THEN Answer(TRUE, Left("fail", stop), st.file, stop - st.file)
      ELSE Answer(FALSE, Left("good", stop), 0, 0)

(* Mutants: the position is put back without a seek, and a read that       *)
(* failed returns early.                                                   *)
SeekBackInName(position, got) == [got EXCEPT !.st.position = position]

SeekBackUnlessFailed(position, got) ==
  IF got.ok THEN Answer(got.ok, SeekOutcome(got.st, SeekAbsoluteTo(position)).st,
                        got.from, got.count)
  ELSE got

(* A read elsewhere: seek, read, seek back to m_Position.                  *)
SeekBack(position, got) ==
  LET back == SeekOutcome(got.st, SeekAbsoluteTo(position))
  IN  IF back.ok THEN [got EXCEPT !.st = back.st] ELSE Answer(FALSE, back.st, 0, 0)

ReadAtOutcome(st, seek, n, disk) ==
  LET there == SeekOutcome(st, seek)
  IN  IF there.ok THEN SeekBack(st.position, ReadOutcome(there.st, n, disk)) ELSE there

StringAtOutcome(st, seek, disk) ==
  LET there == SeekOutcome(st, seek)
  IN  IF there.ok THEN SeekBack(st.position, StringOutcome(there.st, disk)) ELSE there

-----------------------------------------------------------------------------
Return(call, arg, answer) ==
  /\ created = "stream"
  /\ ios' = answer.st.ios
  /\ filePos' = answer.st.file
  /\ m_Position' = answer.st.position
  /\ ret' = [call |-> call, arg |-> arg, ok |-> answer.ok,
             from |-> answer.from, count |-> answer.count]
  /\ UNCHANGED <<world, created, m_Size>>

Disk == IF path = "directory" THEN {"error"} ELSE {"ok", "error"}

Read(n) == \E disk \in Disk : Return("Read", n, ReadOutcome(Here, n, disk))

ReadString == \E disk \in Disk : Return("ReadString", 0, StringOutcome(Here, disk))

Seek(seek) == Return("Seek", 0, SeekOutcome(Here, seek))

Skip(n) ==
  Return("Skip", n, SeekOutcome(Here, SeekRelativeBy(ToSsize(n))))

(* Align sets m_Position and leaves the ifstream where it is.              *)
Align(alignment) ==
  LET position == AlignTarget(m_Position, alignment)
  IN  Return("Align", alignment,
             IF position >= m_Size THEN Answer(FALSE, Here, 0, 0)
             ELSE Answer(TRUE, [Here EXCEPT !.position = position], 0, 0))

ReadAt(seek, n) ==
  \E disk \in Disk : Return("ReadAt", n, ReadAtOutcome(Here, seek, n, disk))

ReadStringAt(seek) ==
  \E disk \in Disk : Return("ReadStringAt", 0, StringAtOutcome(Here, seek, disk))

Next ==
  \/ Replace
  \/ Resize
  \/ CheckExists
  \/ CheckRegular
  \/ OpenFile
  \/ \E n \in Lengths : Read(n)
  \/ ReadString
  \/ \E seek \in SeekValues : Seek(seek)
  \/ \E n \in Usize : Skip(n)
  \/ \E alignment \in Alignments : Align(alignment)
  \/ \E seek \in SeekValues, n \in Lengths : ReadAt(seek, n)
  \/ \E seek \in SeekValues : ReadStringAt(seek)

Spec == Init /\ [][Next]_vars

-----------------------------------------------------------------------------
(***************************************************************************)
(* Properties.                                                             *)
(***************************************************************************)
Called == created = "stream" /\ UNCHANGED world

(* An ifstream that failed, when it was opened or later, leaves the stream *)
(* at its end, where every read is refused, although no call looks at      *)
(* failbit.  Only Align can lead a failed stream away from its end.        *)
FailedStreamsAreAtEnd ==
  [][ios' # "good" /\ ~IsAtEnd(m_Position', m_Size') =>
       UNCHANGED <<ios, m_Position>> \/ ret'.call = "Align"]_vars

(* A read that succeeds and leaves the ifstream good handed out all that   *)
(* it was asked for, and of bytes the file has: a short read never passes  *)
(* for a whole one unless the ifstream is left failed.                     *)
GoodReadsAreWhole ==
  [][Called /\ ret'.ok /\ ios' = "good" =>
       /\ ret'.call \in {"Read", "ReadAt"} =>
            ret'.count = ret'.arg
            /\ (ret'.count > 0 => ret'.from + ret'.count <= fileLen)
       /\ ret'.call \in {"ReadString", "ReadStringAt"} =>
            /\ ret'.from + ret'.count \in nuls
            /\ nuls \cap (ret'.from .. ret'.from + ret'.count - 1) = {}]_vars

(* m_Position and the offset of a good ifstream part in an Align and in no *)
(* other call, whatever fails on the way.                                  *)
OnlyAlignLosesTheOffset ==
  [][m_Position = filePos /\ ios' = "good" /\ m_Position' # filePos' =>
       ret'.call = "Align"]_vars

(* Read(SeekValue, ...) leaves a stream that is still good where it was,   *)
(* at its end and after an Align too.                                      *)
PositionalReadRestores ==
  [][Called /\ ret'.call \in {"ReadAt", "ReadStringAt"} /\ ios' = "good" =>
       m_Position' = m_Position /\ filePos' = m_Position]_vars

(* Create hands out a stream only over a file it could open; it has an     *)
(* error, AccessDenied, for one that it could not.                         *)
CreateReportsAccessDenied ==
  [][created # "stream" /\ created' = "stream" => ios' = "good"]_vars
=============================================================================
