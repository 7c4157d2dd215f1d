------------------------------- MODULE MCSdna -------------------------------
(* Bodies that end in every section, and complete ones with up to two      *)
(* names, two types and two structs; strings of one and of four bytes need *)
(* every amount of padding.  A byte has two values: of the counts that are *)
(* written 4 is read as 2 in the other byte order, 1 as 8 or, of fields,   *)
(* as 2, and 6 reads the same from both ends.                              *)
EXTENDS Sdna

MCSizes == {6, 14, 22, 32, 41, 44, 48, 52, 56, 64}
MCStringLengths == {1, 4}
MCWrittenCounts == {0, 1, 2, 4, 6}
=============================================================================
