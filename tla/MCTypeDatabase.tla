--------------------------- MODULE MCTypeDatabase ---------------------------
(* Two types, a first struct with up to two fields and a second one with   *)
(* up to one, of every type and every name, with indices just out of range *)
(* and a name that cannot be read; 16 is small enough for offsets to wrap. *)
EXTENDS TypeDatabase

Plain(pointers, dims) == [kind |-> "plain", pointers |-> pointers, dims |-> dims]

MCNames ==
  <<Plain(0, <<>>), Plain(1, <<>>), Plain(0, <<2>>), Plain(2, <<3, 2>>),
    [kind |-> "function", pointers |-> 1, dims |-> <<>>], Unreadable>>

MCFields ==
  [type_index : {0, 1}, name_index : 0 .. 4]
    \cup {[type_index |-> 2, name_index |-> 0], [type_index |-> 0, name_index |-> 5],
          [type_index |-> 0, name_index |-> 6]}

MCStructs(n) ==
  [type_index : 0 .. 2, fields : UNION {[1 .. k -> MCFields] : k \in 0 .. n}]

MCSdna(names, structs) ==
  [field_names |-> MCNames, type_names |-> names, type_lengths |-> <<2, 7>>, structs |-> structs]

MCSdnas ==
  {MCSdna(<<"a", "b">>, <<s, t>>) : s \in MCStructs(2), t \in MCStructs(1)}
    \cup {MCSdna(<<"a", "a">>, <<s>>) : s \in MCStructs(1)}
    \cup {MCSdna(<<"a", "b">>, <<>>)}
=============================================================================
