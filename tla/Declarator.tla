----------------------------- MODULE Declarator -----------------------------
(***************************************************************************)
(* What a field name of an SDNA declares, and the types the code builds    *)
(* for it.  A declarator has a number of '*' before the name and numbers   *)
(* in brackets behind it, or is a function pointer.                        *)
(***************************************************************************)
EXTENDS Integers, Sequences, SequencesExt

CONSTANTS
  PointerSize,   \* what the header of the file says
  MaxUsize       \* the largest value of a std::size_t

ASSUME DeclaratorAssumption == PointerSize \in 1 .. MaxUsize /\ MaxUsize \in Nat

(* std::size_t wraps around.                                               *)
Wrap(n) == n % (MaxUsize + 1)

Declarators ==
  [kind : {"plain"}, pointers : Nat, dims : Seq(Nat)]
    \cup [kind : {"function"}, pointers : {1}, dims : {<<>>}]

(* The types pushed on top of the element type, the last one being the     *)
(* type of the field.                                                      *)
ArrayType(count) == [kind |-> "array", count |-> count]
PointerType      == [kind |-> "pointer", count |-> 1]
FunctionType     == [kind |-> "function", count |-> 0]

Wrappers == [kind : {"array", "pointer", "function"}, count : Nat]

Pointers(n) == [i \in 1 .. n |-> PointerType]

(* GetSize() of a type around another one, and of the field's type from    *)
(* the size of the element type.                                           *)
\* Mutant: pointers are 64 bits wide in every file.
SizeAround64(inner, w) ==
  CASE w.kind = "array"    -> Wrap(inner * w.count)
    [] w.kind = "pointer"  -> 8
    [] w.kind = "function" -> 0

SizeAround(inner, w) ==
  CASE w.kind = "array"    -> Wrap(inner * w.count)
    [] w.kind = "pointer"  -> PointerSize
    [] w.kind = "function" -> 0

SizeOf(wrappers, size) == FoldLeft(SizeAround, size, wrappers)

(* What is built for a declarator that can be read: an array of the first  *)
(* dimension only, and the pointers around it.                             *)
Built(d) ==
  IF d.kind = "function"
  THEN <<FunctionType, PointerType>>
  ELSE (IF d.dims = <<>> THEN <<>> ELSE <<ArrayType(Head(d.dims))>>) \o Pointers(d.pointers)

-----------------------------------------------------------------------------
(* The reference: what the declarator means in C.  Every dimension counts, *)
(* and *name[n] is an array of pointers.                                   *)
Product(s) == FoldLeft(LAMBDA p, n : p * n, 1, s)

CSize(d, size) ==
  Product(d.dims) * (IF d.pointers > 0 THEN PointerSize ELSE size)

(* The declarators for which the code builds what they mean.               *)
IsSimple(d) == Len(d.dims) <= 1 /\ (d.pointers > 0 => d.dims = <<>>)
=============================================================================
