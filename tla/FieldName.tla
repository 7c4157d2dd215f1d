------------------------------ MODULE FieldName ------------------------------
(***************************************************************************)
(* How ProcessFunctionPointerField and ProcessField read one field name,   *)
(* character by character: the prefix of '*', the name, and the brackets   *)
(* behind it.  Letters, and the underscore, are all "x"; characters that   *)
(* mean nothing in a declarator are all "-".                               *)
(***************************************************************************)
EXTENDS Declarator, FiniteSetsExt

CONSTANTS
  Spellings,    \* declarators, their names and dimensions spelled out
  Texts         \* other texts to consider

Value == [c \in {"0", "2", "3", "9"} |->
            CASE c = "0" -> 0 [] c = "2" -> 2 [] c = "3" -> 3 [] c = "9" -> 9]

Digits == DOMAIN Value
Chars  == Digits \cup {"*", "[", "]", "(", ")", "x", "-"}

Number(text) == FoldLeft(LAMBDA n, c : 10 * n + Value[c], 0, text)

IsValidName(name) ==
  /\ name # <<>>
  /\ Head(name) = "x"
  /\ \A i \in DOMAIN name : name[i] \in Digits \cup {"x"}

(* A declarator that is well-formed: no bracket is empty, and the count    *)
(* that matters is a std::size_t.                                          *)
IsSpelling(s) ==
  /\ s.kind \in {"plain", "function"} /\ s.pointers \in Nat
  /\ s.name \in Seq(Chars) /\ IsValidName(s.name)
  /\ s.dims \in Seq(Seq(Digits) \ {<<>>})
  /\ s.dims # <<>> => Number(Head(s.dims)) <= MaxUsize
  /\ s.kind = "function" => s.pointers = 1 /\ s.dims = <<>>

ASSUME FieldNameAssumption ==
  /\ \A s \in Spellings : IsSpelling(s)
  /\ Texts \subseteq Seq(Chars)

(* How the declarator of a spelling is written.                            *)
Dimension(digits) == <<"[">> \o digits \o <<"]">>

Spell(s) ==
  IF s.kind = "function" THEN <<"(", "*">> \o s.name \o <<")", "(", ")">>
  ELSE [i \in 1 .. s.pointers |-> "*"] \o s.name
         \o FlattenSeq([i \in DOMAIN s.dims |-> Dimension(s.dims[i])])

FieldNames == Texts \cup {Spell(s) : s \in Spellings}

VARIABLES
  field_name,
  at,             \* where the parser is
  pointer_count,
  name_length,
  name_end,       \* the offset that the scan for brackets has reached
  array_begin,
  types,          \* the types pushed so far
  field           \* the name of the field, as the offsets it spans, or the error

vars == <<field_name, at, pointer_count, name_length, name_end, array_begin, types, field>>

Parsers == {"function", "name", "arrays", "scan", "count", "done"}

NoField == [from |-> 0, to |-> 0]
Error   == [from |-> 0, to |-> -1]

TypeOK ==
  /\ field_name \in FieldNames
  /\ at \in Parsers
  /\ LET Offsets == 0 .. Len(field_name)
     IN  /\ {pointer_count, name_length, name_end, array_begin} \subseteq Offsets
         /\ field \in [from : Offsets, to : Offsets] \cup {Error}
  /\ types \in Seq(Wrappers) /\ \A i \in DOMAIN types : types[i].count <= MaxUsize

Init ==
  /\ field_name \in FieldNames
  /\ at = "function"
  /\ pointer_count = 0 /\ name_length = 0 /\ name_end = 0 /\ array_begin = 0
  /\ types = <<>>
  /\ field = NoField

-----------------------------------------------------------------------------
size    == Len(field_name)

Char(i) == field_name[i + 1]     \* the code counts from 0

(* The characters from an offset up to another.                            *)
Text(from, to) == SubSeq(field_name, from + 1, to)

CountPointers ==
  Max({i \in 0 .. size : \A j \in 0 .. i - 1 : j + 1 < size /\ Char(j) = "*"})

CalculateNameLength(pointers) ==
  Min({i \in pointers .. size : i = size \/ Char(i) = "["}) - pointers

Fail ==
  /\ at' = "done"
  /\ field' = Error

(* A function pointer: the characters around its name, two before and      *)
(* three behind, are not looked at.                                        *)
ProcessFunctionPointerField ==
  /\ at = "function"
  /\ IF ~(size > 0 /\ Char(0) = "(") THEN at' = "name" /\ UNCHANGED <<types, field>>
     ELSE IF size > 5 /\ IsValidName(Text(2, size - 3))
     THEN /\ at' = "done"
          /\ types' = <<FunctionType, PointerType>>
          /\ field' = [from |-> 2, to |-> size - 3]
     ELSE Fail /\ UNCHANGED types
  /\ UNCHANGED <<field_name, pointer_count, name_length, name_end, array_begin>>

ReadName ==
  LET pointers == CountPointers
      length   == CalculateNameLength(pointers)
  IN  /\ at = "name"
      /\ pointer_count' = pointers
      /\ name_length' = length
      /\ name_end' = pointers + length
      /\ IF IsValidName(Text(pointers, pointers + length))
         THEN at' = "arrays" /\ UNCHANGED field
         ELSE Fail
      /\ UNCHANGED <<field_name, array_begin, types>>

(* The outer loop: what is left begins with '[', or nothing is left, where *)
(* a single last character counts as nothing.                              *)
BeginArray ==
  /\ at = "arrays"
  /\ name_end + 1 < size
  /\ array_begin' = name_end + 1
  /\ IF Char(name_end) = "[" THEN at' = "scan" /\ UNCHANGED field ELSE Fail
  /\ UNCHANGED <<field_name, pointer_count, name_length, name_end, types>>

(* The inner loop goes over every bracket up to the end of the name.       *)
\* Mutant: whatever is not a bracket is taken for a digit.
ScanAnything ==
  /\ at = "scan"
  /\ name_end + 1 < size
  /\ Char(name_end + 1) # "]"
  /\ name_end' = name_end + 1
  /\ UNCHANGED <<field_name, at, pointer_count, name_length, array_begin, types, field>>

ScanDigit ==
  /\ at = "scan"
  /\ name_end + 1 < size
  /\ Char(name_end + 1) # "]"
  /\ name_end' = name_end + 1
  /\ IF Char(name_end + 1) \in Digits THEN UNCHANGED <<at, field>> ELSE Fail
  /\ UNCHANGED <<field_name, pointer_count, name_length, array_begin, types>>

\* Mutant: the count is read from the last bracket.
ScanBracketAgain ==
  /\ at = "scan"
  /\ name_end + 1 < size
  /\ Char(name_end + 1) = "]"
  /\ name_end' = IF name_end + 2 >= size THEN name_end + 1 ELSE name_end + 2
  /\ array_begin' = IF name_end + 2 >= size THEN array_begin ELSE name_end + 3
  /\ IF name_end + 2 < size /\ Char(name_end + 2) # "[" THEN Fail ELSE UNCHANGED <<at, field>>
  /\ UNCHANGED <<field_name, pointer_count, name_length, types>>

\* Mutant: the last bracket is looked at again and again.
ScanBracketStays ==
  /\ at = "scan"
  /\ name_end + 2 < size
  /\ Char(name_end + 1) = "]"
  /\ name_end' = name_end + 2
  /\ IF Char(name_end + 2) = "[" THEN UNCHANGED <<at, field>> ELSE Fail
  /\ UNCHANGED <<field_name, pointer_count, name_length, array_begin, types>>

ScanBracket ==
  /\ at = "scan"
  /\ name_end + 1 < size
  /\ Char(name_end + 1) = "]"
  /\ IF name_end + 2 >= size
     THEN name_end' = name_end + 1 /\ UNCHANGED <<at, field>>
     ELSE /\ name_end' = name_end + 2
          /\ IF Char(name_end + 2) = "[" THEN UNCHANGED <<at, field>> ELSE Fail
  /\ UNCHANGED <<field_name, pointer_count, name_length, array_begin, types>>

ScanEnds ==
  /\ at = "scan"
  /\ name_end + 1 >= size
  /\ IF Char(name_end) = "]" THEN at' = "count" /\ UNCHANGED field ELSE Fail
  /\ UNCHANGED <<field_name, pointer_count, name_length, name_end, array_begin, types>>

(* from_chars stops at the first character that is not a digit.            *)
LeadingDigits(from, to) ==
  Max({n \in 0 .. to - from : \A i \in from .. from + n - 1 : Char(i) \in Digits})

\* Mutant: a count that is too large is not noticed.
ReadCountUnchecked ==
  LET length == LeadingDigits(array_begin, name_end)
      count  == Number(Text(array_begin, array_begin + length))
  IN  /\ at = "count"
      /\ IF length = 0
         THEN Fail /\ UNCHANGED types
         ELSE types' = Append(types, ArrayType(count)) /\ at' = "arrays" /\ UNCHANGED field
      /\ UNCHANGED <<field_name, pointer_count, name_length, name_end, array_begin>>

ReadCount ==
  LET length == LeadingDigits(array_begin, name_end)
      count  == Number(Text(array_begin, array_begin + length))
  IN  /\ at = "count"
      /\ IF length = 0 \/ count > MaxUsize
         THEN Fail /\ UNCHANGED types
         ELSE types' = Append(types, ArrayType(count)) /\ at' = "arrays" /\ UNCHANGED field
      /\ UNCHANGED <<field_name, pointer_count, name_length, name_end, array_begin>>

(* The end of ProcessField, with AddPointers.                              *)
AddPointers ==
  /\ at = "arrays"
  /\ name_end + 1 >= size
  /\ at' = "done"
  /\ types' = types \o Pointers(pointer_count)
  /\ field' = [from |-> pointer_count, to |-> pointer_count + name_length]
  /\ UNCHANGED <<field_name, pointer_count, name_length, name_end, array_begin>>

Next ==
  \/ ProcessFunctionPointerField
  \/ ReadName
  \/ BeginArray
  \/ ScanDigit
  \/ ScanBracket
  \/ ScanEnds
  \/ ReadCount
  \/ AddPointers

Spec == Init /\ [][Next]_vars /\ WF_vars(Next)

-----------------------------------------------------------------------------
(***************************************************************************)
(* Properties.                                                             *)
(***************************************************************************)
IsField == at = "done" /\ field # Error

Declared(s) ==
  [kind |-> s.kind, pointers |-> s.pointers, dims |-> [i \in DOMAIN s.dims |-> Number(s.dims[i])]]

(* The offset of the name in the spelling.                                 *)
NameAt(s) == IF s.kind = "function" THEN 2 ELSE s.pointers

(* Every well-formed declarator is accepted, with its name, and the types  *)
(* built for it are those of Built: the first dimension and the pointers,  *)
(* in that order.                                                          *)
DeclaratorsAreRead ==
  at = "done" =>
    \A s \in Spellings : field_name = Spell(s) =>
      /\ field = [from |-> NameAt(s), to |-> NameAt(s) + Len(s.name)]
      /\ types = Built(Declared(s))

(* What is accepted is well-formed: a name that a C identifier could be,   *)
(* between its stars and digits in brackets, or, where the text begins     *)
(* with '(', between the two characters before and the three behind that a *)
(* function pointer has.  Three slips of the parser are excepted: a single *)
(* last '[' is not looked at, dimensions after the first may be empty, and *)
(* around the name of a function pointer only the '(' is looked at, so     *)
(* that (ab--- is taken for one whose name is b.                           *)
Brackets(from) ==
  /\ Char(from) = "[" /\ Char(from + 1) \in Digits /\ Char(size - 1) = "]"
  /\ \A i \in from .. size - 2 :
       \/ Char(i) = "[" /\ Char(i + 1) \in Digits \cup {"]"}
       \/ Char(i) \in Digits /\ Char(i + 1) \in Digits \cup {"]"}
       \/ Char(i) = "]" /\ Char(i + 1) = "["

AcceptedIsWellFormed ==
  IsField =>
    /\ IsValidName(Text(field.from, field.to))
    /\ IF Char(0) = "(" THEN field = [from |-> 2, to |-> size - 3]
       ELSE /\ \A i \in 0 .. field.from - 1 : Char(i) = "*"
            /\ \/ field.to = size
               \/ field.to = size - 1 /\ Char(field.to) = "["
               \/ field.to < size - 2 /\ Brackets(field.to)

(* Reading a name ends: every step of both loops moves on.                 *)
ReadingEnds == <>(at = "done")

(* The field has the size that its declarator asks for, in however many    *)
(* dimensions it is written.                                               *)
EveryDimensionCounts ==
  at = "done" =>
    \A s \in Spellings :
      field_name = Spell(s) /\ s.kind = "plain" /\ s.pointers = 0 =>
        SizeOf(types, 1) = CSize(Declared(s), 1)
=============================================================================
