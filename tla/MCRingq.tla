------------------------------ MODULE MCRingq ------------------------------
(* Rings of several sizes and items of several lengths, over two byte values. *)
EXTENDS Ringq

MCSizes == 4 .. 15
MCItemSizes == 0 .. 3
MCByte == {0, 1}
=============================================================================
