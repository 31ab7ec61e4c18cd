------------------------------ MODULE Vector ------------------------------
(* What the Vec container promises: a sequence that grows at its end. *)
EXTENDS Integers, Sequences

CONSTANT Vals

VARIABLE elems

Init == elems = <<>>

Push(x) == elems' = Append(elems, x)
Pop     == elems # <<>> /\ elems' = SubSeq(elems, 1, Len(elems) - 1)
Clear   == elems' = <<>>

\* The count elements from the zero-based place start on are taken out.
Splice(start, count) ==
  /\ start + count <= Len(elems)
  /\ elems' = SubSeq(elems, 1, start) \o SubSeq(elems, start + count + 1, Len(elems))

Next ==
  \/ \E x \in Vals : Push(x)
  \/ Pop \/ Clear
  \/ \E start, count \in 0 .. Len(elems) : Splice(start, count)

Spec == Init /\ [][Next]_elems
=============================================================================
