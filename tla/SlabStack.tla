----------------------------- MODULE SlabStack -----------------------------
(***************************************************************************)
(* What the memory pool promises: the idle slabs form a stack.  A get      *)
(* takes the slab that was put last and fails only when none is idle; a    *)
(* put of a slab that is already idle does nothing.                        *)
(***************************************************************************)
EXTENDS Naturals, Sequences, SequencesExt

CONSTANT NULL

VARIABLES slab_num,  \* the number of slabs
          idle,      \* the idle slabs, the next one to hand out first
          got        \* what the last get returned

vars == <<slab_num, idle, got>>

Init ==
  /\ idle = [i \in 1 .. slab_num |-> slab_num + 1 - i]
  /\ got = NULL

Get ==
  /\ IF idle = <<>>
       THEN got' = NULL /\ UNCHANGED idle
       ELSE got' = Head(idle) /\ idle' = Tail(idle)
  /\ UNCHANGED slab_num

Put(s) ==
  /\ ~Contains(idle, s)
  /\ idle' = <<s>> \o idle
  /\ UNCHANGED <<slab_num, got>>

Next == Get \/ \E s \in 1 .. slab_num : Put(s)

Spec == Init /\ [][Next]_vars
=============================================================================
