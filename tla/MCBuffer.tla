------------------------------ MODULE MCBuffer ------------------------------
(* BufferADT on an area of four cells holding one of two byte values.      *)
EXTENDS BufferADT

MCByte == {0, 1}
=============================================================================
