---------------------------- MODULE MCEventBase ----------------------------
(* One base, two descriptors, three interchangeable event structures. *)
EXTENDS EventBase

CONSTANT b1

MCBaseOf == [h \in Handles |-> b1]

EventSymmetry == Permutations(Events)
=============================================================================
