------------------------------ MODULE Reflection ------------------------------
(***************************************************************************)
(* The reflected types.  A type list is a sequence of types, numbered from *)
(* 0 as slots; arrays and pointers refer to the slot of the type they are  *)
(* built around, and the fields of an aggregate to the slots of theirs.    *)
(***************************************************************************)
EXTENDS Declarator

Fundamental(name, size) == [kind |-> "fundamental", name |-> name, size |-> size]
Aggregate(name, size, fields) ==
  [kind |-> "aggregate", name |-> name, size |-> size, fields |-> fields]

NoSlot == -1
Around(wrapper, slot) ==
  [kind |-> wrapper.kind, count |-> wrapper.count,
   of |-> IF wrapper.kind = "function" THEN NoSlot ELSE slot]

(* GetSize() of the type in a slot.                                        *)
GetSize(list, slot) ==
  LET size[s \in 0 .. Len(list) - 1] ==
        LET t == list[s + 1]
        IN  IF t.kind \in {"fundamental", "aggregate"} THEN t.size
            ELSE SizeAround(IF t.kind = "array" THEN size[t.of] ELSE 0, t)
  IN  size[slot]

(* The slot of the element type of an array or pointer, or none.           *)
GetElementType(list, slot) ==
  IF list[slot + 1].kind \in {"array", "pointer"} THEN list[slot + 1].of ELSE NoSlot
=============================================================================
