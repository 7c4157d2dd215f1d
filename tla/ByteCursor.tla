----------------------------- MODULE ByteCursor -----------------------------
(***************************************************************************)
(* What every stream promises to the readers of the blend format: bytes    *)
(* are handed out either from under the cursor, which then moves past      *)
(* them, to a call that asked for the next ones, or without moving the     *)
(* cursor from the place that a call asked for; and only bytes that exist  *)
(* are handed out.  Where a call that hands out nothing leaves the cursor  *)
(* is up to the stream.                                                    *)
(***************************************************************************)
EXTENDS Integers

VARIABLES
  size,     \* how many bytes the source holds
  cursor,   \* the next byte to hand out; a cursor >= size hands out nothing
  asked,    \* what the last call asked for, if it was given it
  out       \* the run of bytes the last call handed out

vars == <<size, cursor, asked, out>>

NotGiven     == [how |-> "none", place |-> 0]
TheNext      == [how |-> "next", place |-> 0]
Elsewhere(p) == [how |-> "elsewhere", place |-> p]

Nothing == [from |-> 0, count |-> 0]

Init ==
  /\ size \in Nat
  /\ cursor \in Nat
  /\ asked = NotGiven
  /\ out = Nothing

(* The next n bytes.  A terminator is consumed with them but not handed    *)
(* out.                                                                    *)
Take(n, terminator) ==
  /\ cursor + n + terminator <= size
  /\ asked' = TheNext
  /\ out' = [from |-> cursor, count |-> n]
  /\ cursor' = cursor + n + terminator
  /\ UNCHANGED size

(* n bytes from the place p asked for, the cursor staying where it is.     *)
Peek(p, n) ==
  /\ p + n <= size
  /\ asked' = Elsewhere(p)
  /\ out' = [from |-> p, count |-> n]
  /\ UNCHANGED <<size, cursor>>

(* Nothing is handed out, as none was asked for or the call was refused.   *)
Move ==
  /\ cursor' \in Nat
  /\ asked' = NotGiven
  /\ out' = Nothing
  /\ UNCHANGED size

Next ==
  \/ \E n \in 0 .. size, terminator \in {0, 1} : Take(n, terminator)
  \/ \E p, n \in 0 .. size : Peek(p, n)
  \/ Move

Spec == Init /\ [][Next]_vars
=============================================================================
