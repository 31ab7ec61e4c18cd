-------------------------------- MODULE Fifo --------------------------------
(***************************************************************************)
(* What a ring queue promises its callers: a first-in first-out queue of   *)
(* whole items.  A queue made with a capacity of cap bytes accepts an item *)
(* exactly when the queued items, each with its length header of hdr       *)
(* bytes, still fit in cap bytes; a refused push and a pop from an empty   *)
(* queue return -1 and change nothing.                                     *)
(***************************************************************************)
EXTENDS Integers, Sequences

CONSTANTS Byte,   \* values of an item's bytes
          hdr     \* bytes of bookkeeping an item costs

VARIABLES cap,    \* capacity in bytes, fixed when the queue is made
          len,    \* the length of the items this queue is used with
          q,      \* the queued items, oldest first
          ret,    \* what the last call returned
          out     \* the item the last successful pop copied out

vars == <<cap, len, q, ret, out>>

Items == [1 .. len -> Byte]

Init == q = <<>> /\ ret = 0 /\ out = <<>>

Push(item) ==
  /\ IF (Len(q) + 1) * (hdr + len) <= cap
       THEN q' = Append(q, item) /\ ret' = 0
       ELSE q' = q /\ ret' = -1
  /\ UNCHANGED <<cap, len, out>>

Pop ==
  /\ IF q = <<>>
       THEN ret' = -1 /\ UNCHANGED <<q, out>>
       ELSE ret' = 0 /\ out' = Head(q) /\ q' = Tail(q)
  /\ UNCHANGED <<cap, len>>

Next == (\E item \in Items : Push(item)) \/ Pop

Spec == Init /\ [][Next]_vars
=============================================================================
