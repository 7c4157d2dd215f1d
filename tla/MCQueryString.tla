---------------------------- MODULE MCQueryString ----------------------------
(* Every string of up to five characters of a delimiter, a letter, two      *)
(* digits and a character that no token may have.                          *)
EXTENDS QueryString

MCInputs == UNION {[1 .. n -> Chars \ {"0"}] : n \in 0 .. 5} \cup {<<"x", ".", "1", "0">>}
=============================================================================
