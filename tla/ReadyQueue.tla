----------------------------- MODULE ReadyQueue -----------------------------
(***************************************************************************)
(* What a ready queue promises the loop of an event base: each queued      *)
(* event is taken once, in the order the events were queued, and an event  *)
(* that is in a queue already is not queued again.                         *)
(***************************************************************************)
EXTENDS Sequences, SequencesExt

CONSTANTS Bases, Events, NULL

VARIABLES ready,   \* the ready queue of each base
          taken    \* the event last taken for dispatching

Init == ready = [b \in Bases |-> <<>>] /\ taken = NULL

Queue(b, e) ==
  /\ \A c \in Bases : ~Contains(ready[c], e)
  /\ ready' = [ready EXCEPT ![b] = Append(@, e)]
  /\ UNCHANGED taken

Take(b) ==
  /\ ready[b] # <<>>
  /\ taken' = Head(ready[b])
  /\ ready' = [ready EXCEPT ![b] = Tail(@)]

Next == \E b \in Bases : Take(b) \/ \E e \in Events : Queue(b, e)

Spec == Init /\ [][Next]_<<ready, taken>>
=============================================================================
