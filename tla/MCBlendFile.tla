---------------------------- MODULE MCBlendFile -----------------------------
(* Sources that end inside the header, inside a block header, inside a     *)
(* body and behind up to three blocks with bodies of up to 2 bytes, with   *)
(* 4-byte and with 8-byte addresses.                                       *)
EXTENDS BlendFile

MCSizes          == {0, 6, 12, 20, 32, 33, 34, 36, 37, 38, 53, 54, 56, 60, 63, 64, 72}
MCWrittenLengths == {0, 1, 2}
=============================================================================
