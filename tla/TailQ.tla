------------------------------- MODULE TailQ --------------------------------
(***************************************************************************)
(* The ready queues of the event bases on the links themselves: the TAILQ  *)
(* macros of sys/queue.h as event_readies uses them.                       *)
(*                                                                         *)
(* A tail queue is a chain of next links whose last one the head points    *)
(* to, and every element points back to the link that leads to it.  A link *)
(* is named by what holds it: base b holds tqh_first of its queue, event e *)
(* its own tqe_next.                                                       *)
(***************************************************************************)
EXTENDS Integers, FiniteSets

CONSTANTS Bases, Events, NULL

ASSUME TailQAssumption ==
  /\ Bases # {} /\ IsFiniteSet(Events) /\ Bases \cap Events = {}
  /\ NULL \notin Bases \cup Events

VARIABLES
  next,     \* tqh_first of each base, tqe_next of each event
  last,     \* tqh_last of each base
  prev,     \* tqe_prev of each event
  queued,   \* e->queued
  taken,    \* the event last unlinked by dispatch_events
  fault     \* a NULL tqe_prev was written through

vars == <<next, last, prev, queued, taken, fault>>

Links == Bases \cup Events

\* ebot_new: memset and TAILQ_INIT; mpool_new clears the events.
Init ==
  /\ next = [l \in Links |-> NULL] /\ last = [b \in Bases |-> b]
  /\ prev = [e \in Events |-> NULL] /\ queued = [e \in Events |-> 0]
  /\ taken = NULL /\ fault = FALSE
-----------------------------------------------------------------------------
TAILQ_INSERT_TAIL(b, e) ==
  /\ next' = [next EXCEPT ![e] = NULL, ![last[b]] = e]
  /\ prev' = [prev EXCEPT ![e] = last[b]]
  /\ last' = [last EXCEPT ![b] = e]

\* Mutant: the end of the queue is left at the element removed.
LastAfterKept(b, e) == last

\* Mutant: the end of the queue follows the removed element's next link.
LastAfterNext(b, e) == IF next[e] # NULL THEN last ELSE [last EXCEPT ![b] = next[e]]

\* What tqh_last becomes when e is removed.
LastAfter(b, e) == IF next[e] # NULL THEN last ELSE [last EXCEPT ![b] = prev[e]]

\* The element keeps its own links.
TAILQ_REMOVE(b, e) ==
  /\ prev' = IF next[e] # NULL THEN [prev EXCEPT ![next[e]] = prev[e]] ELSE prev
  /\ last' = LastAfter(b, e)
  /\ IF prev[e] = NULL
       THEN fault' = TRUE /\ next' = next
       ELSE fault' = fault /\ next' = [next EXCEPT ![prev[e]] = next[e]]
-----------------------------------------------------------------------------
\* queued_event_readies, when it does queue e.
queued_event_readies(b, e) ==
  /\ ~fault /\ queued[e] = 0
  /\ TAILQ_INSERT_TAIL(b, e)
  /\ queued' = [queued EXCEPT ![e] = 1]
  /\ UNCHANGED <<taken, fault>>

\* Mutant: TAILQ_LAST.
TAILQ_FIRSTLast(b) == IF last[b] = b THEN NULL ELSE last[b]

TAILQ_FIRST(b) == next[b]

\* One pass of the loop of dispatch_events.
dispatch_events(b) ==
  LET e == TAILQ_FIRST(b) IN
  /\ ~fault /\ e # NULL
  /\ TAILQ_REMOVE(b, e)
  /\ queued' = [queued EXCEPT ![e] = 0]
  /\ taken' = e

\* event_read or event_write sets an event up anew, links and all: one that is in no queue
\* (what becomes of a queue when it is in one is shown with module Server).
event_set(e) ==
  /\ ~fault /\ queued[e] = 0
  /\ next' = [next EXCEPT ![e] = NULL] /\ prev' = [prev EXCEPT ![e] = NULL]
  /\ queued' = [queued EXCEPT ![e] = 0]
  /\ UNCHANGED <<last, taken, fault>>

Next ==
  \/ \E b \in Bases : dispatch_events(b) \/ \E e \in Events : queued_event_readies(b, e)
  \/ \E e \in Events : event_set(e)

Spec == Init /\ [][Next]_vars
-----------------------------------------------------------------------------
\* Type invariant.
TypeOK ==
  /\ next \in [Links -> Events \cup {NULL}]
  /\ last \in [Bases -> Links]
  /\ prev \in [Events -> Links \cup {NULL}]
  /\ queued \in [Events -> {0, 1}]
  /\ taken \in Events \cup {NULL} /\ fault \in BOOLEAN

\* Seen from the link of each queued event, the queue is whole: the link that leads to the
\* event is the one it points back to, and the chain ends at the link the head calls last.
\* What an event that is in no queue still points to does not matter.
Held(l) == l \in Bases \/ queued[l] = 1

LinksAgree ==
  /\ \A e \in Events : queued[e] = 1 =>
       prev[e] \in Links /\ Held(prev[e]) /\ next[prev[e]] = e
  /\ \A l \in Links : Held(l) /\ next[l] # NULL => queued[next[l]] = 1 /\ prev[next[l]] = l
  /\ \A b \in Bases : Held(last[b]) /\ next[last[b]] = NULL

\* No removal writes through a NULL link.
NoNullWrite == ~fault

\* What the links nx reach from h in n steps at most: NULL beyond the end.
Path(h, nx, n) ==
  LET at[i \in 0 .. n] == IF i = 0 THEN h
                          ELSE IF at[i - 1] = NULL THEN NULL ELSE nx[at[i - 1]]
  IN  at

\* The events reached from the head of b along the links nx, in order.
Chain(b, nx) ==
  LET at == Path(b, nx, Cardinality(Events))
  IN  [i \in 1 .. Cardinality({n \in 1 .. Cardinality(Events) : at[n] # NULL}) |-> at[i]]

Abstract == INSTANCE ReadyQueue WITH ready <- [b \in Bases |-> Chain(b, next)]

\* The linked queues are the queues of ReadyQueue: no event is lost, reordered or taken twice.
QueueSpec == Abstract!Spec
=============================================================================
