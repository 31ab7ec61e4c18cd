------------------------------ MODULE MCMpool ------------------------------
(* Pools of one to five slabs. *)
EXTENDS Mpool

MCNums == 1 .. 5
=============================================================================
