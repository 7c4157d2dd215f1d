---------------------------- MODULE MCFileStream ----------------------------
(* Files of up to 3 bytes on a machine with 4-bit words.  Align by 2 can   *)
(* move inside such a file, and Align by 4 wraps from the position of a    *)
(* failed stream.                                                          *)
EXTENDS FileStream

MCFileLengths == {0, 1, 3}
MCLengths     == {0, 1, 2}
MCAlignments  == {2, 4}
=============================================================================
