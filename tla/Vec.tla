-------------------------------- MODULE Vec --------------------------------
(***************************************************************************)
(* The Vec container of ebot.c: an array that doubles when it is full.     *)
(* (No code in the repository uses it.)                                    *)
(***************************************************************************)
EXTENDS Integers, Sequences

CONSTANTS Vals,
          Unset,      \* what freshly allocated memory holds
          MayFail     \* realloc may fail

VARIABLES
  data,               \* the allocated elements, from index 0 on
  length, capacity,
  wild                \* an element has been written where nothing is allocated

vars == <<data, length, capacity, wild>>

Places(n) == 0 .. n - 1

\* vec_init
Init == data = [i \in Places(0) |-> Unset] /\ length = 0 /\ capacity = 0 /\ wild = FALSE
-----------------------------------------------------------------------------
\* The test of vec_expand.
Full == length + 1 > capacity

Doubled == IF capacity = 0 THEN 1 ELSE 2 * capacity

\* vec_expand and realloc: the capacity has been doubled before realloc answers, and
\* stays so when it fails and the array does not.
Expanded(ok) ==
  IF Full /\ ok
    THEN [i \in Places(Doubled) |-> IF i \in DOMAIN data THEN data[i] ELSE Unset]
    ELSE data

vec_push(x, ok) ==
  /\ capacity' = IF Full THEN Doubled ELSE capacity
  /\ IF length \in DOMAIN Expanded(ok)
       THEN data' = [Expanded(ok) EXCEPT ![length] = x] /\ UNCHANGED wild
       ELSE data' = Expanded(ok) /\ wild' = TRUE
  /\ length' = length + 1

\* assert(length > 0) is what the caller has to see to.
vec_pop == length > 0 /\ length' = length - 1 /\ UNCHANGED <<data, capacity, wild>>

vec_clear == length' = 0 /\ UNCHANGED <<data, capacity, wild>>

\* The places memmove writes.
Moved(start, count) == start .. length - count - 1

\* memmove closes the gap, then the length shrinks.
vec_splice(start, count) ==
  /\ start + count <= length
  /\ data' = [i \in DOMAIN data |-> IF i \in Moved(start, count) THEN data[i + count]
                                    ELSE data[i]]
  /\ length' = length - count
  /\ UNCHANGED <<capacity, wild>>

Push == \E x \in Vals : \E ok \in (IF MayFail THEN BOOLEAN ELSE {TRUE}) : vec_push(x, ok)
Splice == \E start, count \in 0 .. length : vec_splice(start, count)

Next == ~wild /\ (Push \/ vec_pop \/ vec_clear \/ Splice)

Spec == Init /\ [][Next]_vars
-----------------------------------------------------------------------------
\* Type invariant; what the length covers has been written.
TypeOK ==
  /\ length \in Nat /\ capacity \in Nat /\ wild \in BOOLEAN
  /\ \E room \in 0 .. capacity : data \in [Places(room) -> Vals \cup {Unset}]
  /\ ~wild => \A i \in Places(length) : data[i] \in Vals

\* vec_push never writes behind the memory realloc has given.
WritesInside == ~wild

\* Through any mix of pushes that move the array and of splices, pops and clears the
\* container holds the elements a sequence would hold, in that order.
elems == [i \in 1 .. length |-> data[i - 1]]
V == INSTANCE Vector
VectorSpec == V!Spec
=============================================================================
