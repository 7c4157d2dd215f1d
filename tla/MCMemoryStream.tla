--------------------------- MODULE MCMemoryStream ---------------------------
(* Spans of up to 4 bytes on a machine with 4-bit words.                   *)
EXTENDS MemoryStream

MCSizes      == 0 .. 4
MCLengths    == {0, 1, 2, 7}
MCAlignments == {1, 2, 3, 4, 7}
=============================================================================
