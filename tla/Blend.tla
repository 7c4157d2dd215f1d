------------------------------- MODULE Blend -------------------------------
(***************************************************************************)
(* A Blend and what refers to it.  Open makes a Blend of a file; a client  *)
(* moves it from one object to another, assigns to the object or destroys  *)
(* it, while it keeps a type and a view of blocks.  A type refers to the   *)
(* memory table of the object it was asked of, and to a reflected type on  *)
(* the heap, which moves with the Blend.  A view refers to the blocks of   *)
(* its object, and to the client's variable with the code or the type that *)
(* its blocks are to have.                                                 *)
(***************************************************************************)
EXTENDS Integers, Sequences, SequencesExt

CONSTANTS
  Objects,    \* the places a Blend can be in
  Sources,    \* each has a name, can be opened once and may fail in one stage
  Codes,      \* of blocks
  Dead, MovedFrom, Gone, NoView

Stages == {"create", "header", "file", "exhausted", "sdna", "types"}

(* struct_map leads from the structs of a file to the slots of its types.  *)
IsSource(s) ==
  /\ s.name \notin {"undefined", "dangling"}
  /\ s.fault \in Stages \cup {"none"}
  /\ s.blocks \in Seq([code : Codes, struct_index : Nat])
  /\ s.struct_map \in Seq(0 .. s.type_count - 1)

ASSUME BlendAssumption ==
  /\ \A s \in Sources : IsSource(s)
  /\ Dead \notin Sources /\ MovedFrom \notin Sources /\ Dead # MovedFrom

VARIABLES
  blends,      \* what each object holds
  opened,      \* the sources that have been opened
  criterion,   \* the client's variable: a code, a type, or gone
  view,        \* its object; the first block, once found, and of which file;
               \* the block that a pass over the view is at
  handed,      \* the blocks that the last pass has handed out
  disturbed,   \* whether something that the view refers to has changed
  spoiled,     \* whether something that the type refers to is gone
  ret          \* of the last call

vars == <<blends, opened, criterion, view, handed, disturbed, spoiled, ret>>

Code(c) == [kind |-> "code", code |-> c]
Type(object, source, slot) ==
  [kind |-> "type", object |-> object, source |-> source, slot |-> slot]

(* Nothing goes on after a step that is undefined.                         *)
IsDefined == ret \notin {"undefined", "dangling"}

Holds(o)  == blends[o] \in Sources
Lives(s)  == \E o \in Objects : blends[o] = s
IsType    == criterion # Gone /\ criterion.kind = "type"
Blocks(o) == IF Holds(o) THEN blends[o].blocks ELSE <<>>

TypeOK ==
  /\ blends \in [Objects -> Sources \cup {Dead, MovedFrom}]
  /\ \A o, p \in Objects : Holds(o) /\ blends[o] = blends[p] => o = p
  /\ \A o \in Objects : Holds(o) => blends[o] \in opened /\ blends[o].fault = "none"
  /\ IsType => criterion.object \in Objects /\ criterion.source \in opened
  /\ view # NoView => view.object \in Objects
  /\ disturbed \in BOOLEAN /\ spoiled \in BOOLEAN

Init ==
  /\ blends = [o \in Objects |-> Dead]
  /\ opened = {}
  /\ criterion = Gone
  /\ view = NoView
  /\ handed = <<>>
  /\ disturbed = FALSE /\ spoiled = FALSE
  /\ ret = "none"

-----------------------------------------------------------------------------
(* ReadBlendData returns the error of the stage that fails.                *)
ErrorOf(stage) ==
  CASE stage = "create" -> "FileStreamError"
    [] stage \in {"header", "file", "exhausted", "sdna"} -> "FormatError"
    [] stage = "types" -> "ReflectionError"

Open(o, s) ==
  /\ IsDefined
  /\ blends[o] = Dead
  /\ s \notin opened
  /\ opened' = opened \cup {s}
  /\ IF s.fault = "none"
     THEN blends' = [blends EXCEPT ![o] = s] /\ ret' = "opened"
     ELSE ret' = ErrorOf(s.fault) /\ UNCHANGED blends
  /\ UNCHANGED <<criterion, view, handed, disturbed, spoiled>>

(* What becomes of the view and the type when objects are left or filled   *)
(* with another Blend, and when the Blend in one of them is lost.          *)
Loses(o) == IsType /\ criterion.source = blends[o]

Disturb(touched, loses) ==
  disturbed' = (disturbed \/ (view # NoView /\ (view.object \in touched \/ loses)))

Spoil(o, other) ==
  spoiled' = (spoiled \/ Loses(o)
                      \/ (IsType /\ criterion.object = o /\ criterion.source # other))

\* Mutant: the Blend stays where it was, too.
MoveAsCopy(from, to) ==
  /\ IsDefined
  /\ Holds(from) /\ blends[to] = Dead
  /\ blends' = [blends EXCEPT ![to] = blends[from]]
  /\ Disturb({from}, FALSE)
  /\ ret' = "none"
  /\ UNCHANGED <<opened, criterion, view, handed, spoiled>>

Move(from, to) ==
  /\ IsDefined
  /\ Holds(from) /\ blends[to] = Dead
  /\ blends' = [blends EXCEPT ![to] = blends[from], ![from] = MovedFrom]
  /\ Disturb({from}, FALSE)
  /\ ret' = "none"
  /\ UNCHANGED <<opened, criterion, view, handed, spoiled>>

\* Mutant: the two Blends are swapped.
AssignBySwap(from, to) ==
  /\ IsDefined
  /\ Holds(from) /\ blends[to] # Dead /\ from # to
  /\ blends' = [blends EXCEPT ![to] = blends[from], ![from] = blends[to]]
  /\ Disturb({from, to}, Loses(to))
  /\ Spoil(to, blends[from])
  /\ ret' = "none"
  /\ UNCHANGED <<opened, criterion, view, handed>>

Assign(from, to) ==
  /\ IsDefined
  /\ Holds(from) /\ blends[to] # Dead /\ from # to
  /\ blends' = [blends EXCEPT ![to] = blends[from], ![from] = MovedFrom]
  /\ Disturb({from, to}, Loses(to))
  /\ Spoil(to, blends[from])
  /\ ret' = "none"
  /\ UNCHANGED <<opened, criterion, view, handed>>

Destroy(o) ==
  /\ IsDefined
  /\ blends[o] # Dead
  /\ blends' = [blends EXCEPT ![o] = Dead]
  /\ Disturb({o}, Loses(o))
  /\ Spoil(o, Dead)
  /\ ret' = "none"
  /\ UNCHANGED <<opened, criterion, view, handed>>

-----------------------------------------------------------------------------
(* The slot of the type of a block, or 0, which is never found.            *)
GetBlockType(s, block) ==
  IF block.struct_index + 1 \in DOMAIN s.struct_map
  THEN s.struct_map[block.struct_index + 1] ELSE 0

(* The client sets its variable to a code, to the type that GetType or     *)
(* GetBlockType answers with, or lets it go.                               *)
SetCriterion(c) ==
  /\ IsDefined
  /\ criterion' = c
  /\ disturbed' = (disturbed \/ (view # NoView /\ c # criterion))
  /\ spoiled' = FALSE
  /\ ret' = "none"
  /\ UNCHANGED <<blends, opened, view, handed>>

SetCode(c) == SetCriterion(Code(c))

GetType(o) ==
  /\ Holds(o)
  /\ \E slot \in 1 .. blends[o].type_count - 1 : SetCriterion(Type(o, blends[o], slot))

Drop == criterion # Gone /\ SetCriterion(Gone)

(* A query by the type, for what its memory table leads to.                *)
Lookup ==
  /\ IsDefined
  /\ IsType
  /\ ret' = CASE ~Lives(criterion.source) \/ blends[criterion.object] = Dead -> "dangling"
              [] Lives(criterion.source) /\ blends[criterion.object] = MovedFrom -> "nothing"
              [] Lives(criterion.source) /\ Holds(criterion.object) ->
                   blends[criterion.object].name
  /\ UNCHANGED <<blends, opened, criterion, view, handed, disturbed, spoiled>>

-----------------------------------------------------------------------------
(* BlockFilter and TypeFilter: one type is another if it is the same object*)
(* on the heap.                                                            *)
\* Mutant: it is if it has the same place in its list.
MatchesSlot(o, block) ==
  IF IsType
  THEN GetBlockType(blends[o], block) = criterion.slot
  ELSE block.code = criterion.code

Matches(o, block) ==
  IF IsType
  THEN GetBlockType(blends[o], block) = criterion.slot /\ blends[o] = criterion.source
  ELSE block.code = criterion.code

NextMatch(o, i) ==
  LET later == SelectInSubSeq(Blocks(o), i + 1, Len(Blocks(o)), LAMBDA b : Matches(o, b))
  IN  IF later = 0 THEN Len(Blocks(o)) + 1 ELSE later

GetBlockCount(o) == Cardinality({i \in DOMAIN Blocks(o) : Matches(o, Blocks(o)[i])})

GetBlock(o) == IF NextMatch(o, 0) \in DOMAIN Blocks(o) THEN <<NextMatch(o, 0)>> ELSE <<>>

GetBlocks(o) ==
  /\ IsDefined
  /\ blends[o] # Dead
  /\ criterion # Gone
  /\ view' = [object |-> o, first |-> 0, of |-> blends[o], it |-> 0]
  /\ handed' = <<>>
  /\ disturbed' = (IsType /\ ~Lives(criterion.source))
  /\ ret' = "none"
  /\ UNCHANGED <<blends, opened, criterion, spoiled>>

(* What a pass over a view reads: the object, the code or the type, and    *)
(* the blocks that the first one was found in.                             *)
IsReadable ==
  /\ blends[view.object] # Dead
  /\ criterion # Gone
  /\ IsType => Lives(criterion.source)
  /\ view.first = 0 \/ blends[view.object] = view.of

GoTo(i) ==
  IF IsReadable
  THEN LET o == view.object
           first == IF view.first = 0 THEN NextMatch(o, 0) ELSE view.first
           it    == IF i = 0 THEN first ELSE NextMatch(o, i)
       IN  /\ view' = [object |-> o, first |-> first, of |-> blends[o], it |-> it]
           /\ handed' = (IF i = 0 THEN <<>> ELSE handed)
                          \o (IF it \in DOMAIN Blocks(o) THEN <<it>> ELSE <<>>)
           /\ ret' = "none"
  ELSE ret' = "undefined" /\ UNCHANGED <<view, handed>>

(* A pass over the view; the first one looks for the first block, which    *)
(* the view remembers.                                                     *)
BeginPass ==
  /\ IsDefined
  /\ view # NoView
  /\ GoTo(0)
  /\ UNCHANGED <<blends, opened, criterion, disturbed, spoiled>>

Advance ==
  /\ IsDefined
  /\ view # NoView
  /\ handed # <<>> /\ view.it = Last(handed)
  /\ GoTo(view.it)
  /\ UNCHANGED <<blends, opened, criterion, disturbed, spoiled>>

-----------------------------------------------------------------------------
Next ==
  \/ \E o \in Objects, s \in Sources : Open(o, s)
  \/ \E from, to \in Objects : Move(from, to) \/ Assign(from, to)
  \/ \E o \in Objects : Destroy(o) \/ GetType(o) \/ GetBlocks(o)
  \/ \E c \in Codes : SetCode(c)
  \/ Drop
  \/ Lookup
  \/ BeginPass
  \/ Advance

Spec == Init /\ [][Next]_vars

-----------------------------------------------------------------------------
(***************************************************************************)
(* Properties.                                                             *)
(***************************************************************************)
(* The reference: the blocks a view stands for.                            *)
IsMeant(block) ==
  CASE criterion.kind = "code" -> block.code = criterion.code
    [] criterion.kind = "type" ->
         /\ criterion.source = blends[view.object]
         /\ block.struct_index + 1 \in DOMAIN criterion.source.struct_map
         /\ criterion.source.struct_map[block.struct_index + 1] = criterion.slot

Meant == {i \in DOMAIN Blocks(view.object) : IsMeant(Blocks(view.object)[i])}

IsAscending(s) == \A i, j \in DOMAIN s : i < j => s[i] < s[j]

(* As long as its object stays where it is, its code or type is the one it *)
(* was made for and the Blend of the type is somewhere, every pass over a  *)
(* view, the first and later ones, hands out the blocks of that code or    *)
(* type, each once and in the order of the file: whatever is moved, lost   *)
(* or opened elsewhere.  GetBlock and GetBlockCount agree with it.         *)
ViewsSelectExactly ==
  view # NoView /\ ~disturbed =>
    /\ ret # "undefined"
    /\ IsAscending(handed)
    /\ Range(handed) = {i \in Meant : i <= view.it}
    /\ GetBlock(view.object) = (IF Meant = {} THEN <<>> ELSE <<Min(Meant)>>)
    /\ GetBlockCount(view.object) = Cardinality(Meant)

(* A type answers from the file it came from, or finds nothing once its    *)
(* Blend has moved to another object, as long as that Blend is somewhere   *)
(* and no other one has come to the object; it never answers from another  *)
(* file, although its table and its fields belong to different objects.    *)
TypesAnswerFromTheirFile ==
  IsType /\ ~spoiled => ret \in {"none", "opened", "nothing", "undefined", criterion.source.name}
                                  \cup {ErrorOf(stage) : stage \in Stages}
=============================================================================
