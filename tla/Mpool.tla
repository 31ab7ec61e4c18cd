------------------------------- MODULE Mpool -------------------------------
(***************************************************************************)
(* The memory pool of ebot.c: slab_num slabs of one allocation, all of     *)
(* them always linked in one doubly linked list.  mpool_get looks at the   *)
(* head only and moves it to the tail; mpool_put moves a slab back to the  *)
(* head.  Each call runs under the pool's mutex, so it is one step.        *)
(*                                                                         *)
(* A slab is named by its place in the allocation, 1 .. slab_num.          *)
(***************************************************************************)
EXTENDS Integers

CONSTANT Nums  \* the slab_num arguments of mpool_new

ASSUME MpoolAssumption == Nums \subseteq Nat \ {0}

VARIABLES slab_num, head, tail, slab_used,  \* the fields of mpool
          used, prev, next,                 \* the fields of each mslab
          got,                              \* what the last get returned
          fault                             \* a NULL pointer was dereferenced

list == <<head, tail, prev, next>>
vars == <<slab_num, head, tail, slab_used, used, prev, next, got, fault>>

NULL == 0

Slabs == 1 .. slab_num
-----------------------------------------------------------------------------
\* The loop of mpool_new inserts the slabs at the head in address order.
mpool_new(n) ==
  /\ slab_num = n
  /\ head = n /\ tail = 1
  /\ next = [s \in 1 .. n |-> IF s = 1 THEN NULL ELSE s - 1]
  /\ prev = [s \in 1 .. n |-> IF s = n THEN NULL ELSE s + 1]
  /\ used = [s \in 1 .. n |-> 0]
  /\ slab_used = 0

Init == (\E n \in Nums : mpool_new(n)) /\ got = NULL /\ fault = FALSE

\* Mutant: the other end of the list is tested.
GetNoneAtTail ==
  /\ used[tail] # 0
  /\ got' = NULL
  /\ UNCHANGED <<slab_num, list, slab_used, used, fault>>

\* The head is busy: there is nothing to hand out.
GetNone ==
  /\ used[head] # 0
  /\ got' = NULL
  /\ UNCHANGED <<slab_num, list, slab_used, used, fault>>

\* Mutant: s->next is reset before its successor is unlinked.
GetFaultReset ==
  /\ used[head] = 0
  /\ fault' = TRUE
  /\ UNCHANGED <<slab_num, list, slab_used, used, got>>

\* s->next->prev = NULL with s the only slab: the process faults.
GetFault ==
  /\ used[head] = 0 /\ next[head] = NULL
  /\ fault' = TRUE
  /\ UNCHANGED <<slab_num, list, slab_used, used, got>>

\* Mutant: the head is read again after it has moved.
GetHeadNext ==
  LET s == head
  IN  /\ used[s] = 0 /\ next[s] # NULL
      /\ used' = [used EXCEPT ![s] = 1]
      /\ slab_used' = slab_used + 1
      /\ head' = next[s]
      /\ prev' = [prev EXCEPT ![next[s]] = NULL, ![s] = tail]
      /\ next' = [next EXCEPT ![tail] = s, ![s] = NULL]
      /\ tail' = s
      /\ got' = next[s]
      /\ UNCHANGED <<slab_num, fault>>

GetHead ==
  LET s == head
  IN  /\ used[s] = 0 /\ next[s] # NULL
      /\ used' = [used EXCEPT ![s] = 1]
      /\ slab_used' = slab_used + 1
      /\ head' = next[s]
      /\ prev' = [prev EXCEPT ![next[s]] = NULL, ![s] = tail]
      /\ next' = [next EXCEPT ![tail] = s, ![s] = NULL]
      /\ tail' = s
      /\ got' = s
      /\ UNCHANGED <<slab_num, fault>>

mpool_get == GetNone \/ GetFault \/ GetHead

\* Mutant: the old head does not learn of its new predecessor.
MoveToHeadOneWay(s) ==
  /\ head' = s
  /\ IF next[s] = NULL
       THEN /\ tail' = prev[s]
            /\ next' = [next EXCEPT ![prev[s]] = NULL, ![s] = head]
            /\ prev' = [prev EXCEPT ![s] = NULL]
       ELSE /\ tail' = tail
            /\ next' = [next EXCEPT ![prev[s]] = next[s], ![s] = head]
            /\ prev' = [prev EXCEPT ![next[s]] = prev[s], ![s] = NULL]

\* Unlink s, which has a predecessor, and insert it at the head.
MoveToHead(s) ==
  /\ head' = s
  /\ IF next[s] = NULL
       THEN /\ tail' = prev[s]
            /\ next' = [next EXCEPT ![prev[s]] = NULL, ![s] = head]
            /\ prev' = [prev EXCEPT ![s] = NULL, ![head] = s]
       ELSE /\ tail' = tail
            /\ next' = [next EXCEPT ![prev[s]] = next[s], ![s] = head]
            /\ prev' = [prev EXCEPT ![next[s]] = prev[s], ![s] = NULL, ![head] = s]

\* Mutant: a slab that is idle already is put again.
mpool_putTwice(s) ==
  /\ slab_used' = slab_used - 1
  /\ used' = [used EXCEPT ![s] = 0]
  /\ IF prev[s] = NULL THEN UNCHANGED list ELSE MoveToHead(s)
  /\ UNCHANGED <<slab_num, got, fault>>

\* A put of a slab that is not in use returns at once.
mpool_put(s) ==
  /\ used[s] # 0
  /\ slab_used' = slab_used - 1
  /\ used' = [used EXCEPT ![s] = 0]
  /\ IF prev[s] = NULL THEN UNCHANGED list ELSE MoveToHead(s)
  /\ UNCHANGED <<slab_num, got, fault>>

Next == ~fault /\ (mpool_get \/ \E s \in Slabs : mpool_put(s))

Spec == Init /\ [][Next]_vars
-----------------------------------------------------------------------------
\* Type invariant.
TypeOK ==
  /\ slab_num \in Nums
  /\ head \in Slabs /\ tail \in Slabs
  /\ slab_used \in 0 .. slab_num
  /\ used \in [Slabs -> {0, 1}]
  /\ prev \in [Slabs -> Slabs \cup {NULL}]
  /\ next \in [Slabs -> Slabs \cup {NULL}]
  /\ got \in Slabs \cup {NULL}
  /\ fault \in BOOLEAN

\* ord lists the slabs in the order the links give: prev and next are inverse, the
\* list starts at head, ends at tail and passes through every slab once.
Linked(ord) ==
  /\ \A i, j \in Slabs : ord[i] = ord[j] => i = j
  /\ \A s \in Slabs : \E i \in Slabs : ord[i] = s
  /\ head = ord[1] /\ tail = ord[slab_num]
  /\ \A i \in Slabs : next[ord[i]] = IF i = slab_num THEN NULL ELSE ord[i + 1]
  /\ \A i \in Slabs : prev[ord[i]] = IF i = 1 THEN NULL ELSE ord[i - 1]

\* The first k slabs of the list are the idle ones, the others are the busy ones.
IdleFirst(ord, k) ==
  /\ \A i \in Slabs : used[ord[i]] = 0 <=> i <= k
  /\ slab_used = slab_num - k

\* No sequence of gets and puts loses a slab or links one twice, and the idle slabs
\* all come before the busy ones, which is what lets mpool_get look at the head only.
WellFormed ==
  \E ord \in [Slabs -> Slabs], k \in 0 .. slab_num : Linked(ord) /\ IdleFirst(ord, k)

\* A pool of two slabs or more never follows a NULL link.
NoNullDeref == slab_num > 1 => ~fault

\* A get fails only when every slab is in use: mpool_get, which tests the head
\* alone, never reports an exhausted pool while an idle slab is left.
NoFalseExhaustion == [][GetNone => \A s \in Slabs : used[s] # 0]_vars
-----------------------------------------------------------------------------
\* The places of a list of n slabs that starts at h, as the links nx give them.
ListFrom(h, nx, n) ==
  LET at[i \in 1 .. n] == IF i = 1 THEN h
                          ELSE IF at[i - 1] = NULL THEN NULL ELSE nx[at[i - 1]]
  IN  at

\* The idle slabs: those that slab_used leaves at the front of the list.
Idle == [i \in 1 .. slab_num - slab_used |-> ListFrom(head, next, slab_num)[i]]

Stack == INSTANCE SlabStack WITH idle <- Idle

\* The linked list implements a stack of idle slabs: a get hands out the slab that
\* was put last, and the links never lose an idle slab.
StackSpec == Stack!Spec
=============================================================================
