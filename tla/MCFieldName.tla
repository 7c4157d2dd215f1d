---------------------------- MODULE MCFieldName -----------------------------
(* Every text of up to four characters, and every declarator with up to    *)
(* two pointers and up to three dimensions.  9 stands for a count that is  *)
(* too large, and the texts that are not declarators include what brackets *)
(* can go wrong with behind a good one, and what a function pointer is     *)
(* only taken to have around its name.                                     *)
EXTENDS FieldName

MCMaxUsize == 32

MCDims == {<<"2">>, <<"0">>, <<"3", "2">>}

MCSpellings ==
  [kind : {"plain"}, pointers : 0 .. 2, name : {<<"x">>, <<"x", "2">>},
   dims : UNION {[1 .. n -> MCDims] : n \in 0 .. 3}]
    \cup [kind : {"function"}, pointers : {1}, name : {<<"x">>, <<"x", "2">>}, dims : {<<>>}]

MCTails == {<<"[", "]">>, <<"[", "2", "x", "]">>, <<"[", "2", "]", "]">>,
            <<"[", "2", "]", "[">>, <<"[", "2", "]", "[", "]">>, <<"[", "[", "2", "]">>,
            <<"[", "9", "9", "]">>, <<"[", "2", "]", "-">>, <<"[", "2", "[", "3", "]">>,
            <<"[", "2", "]", "x", "[", "2", "]">>, <<"[", "]", "[", "2", "]">>}

MCTexts ==
  UNION {[1 .. n -> Chars \ {"0", "9"}] : n \in 0 .. 4}
    \cup {<<"x">> \o tail : tail \in MCTails}
    \cup {<<"(", "*">> \o name \o <<")", "(", ")">> : name \in {<<"2">>, <<"x", "-">>, <<"*">>}}
    \cup {<<"(", "x", "x", "-", "-", "-">>, <<"(", "x", "-", "-", "-", "-">>}
=============================================================================
