---------------------------- MODULE MpoolProofs ----------------------------
(***************************************************************************)
(* Proofs about the memory pool, for pools of any size: the list keeps     *)
(* every slab with the idle ones in front, a pool of two slabs or more     *)
(* never follows a NULL link, a get fails only when all are in use, and    *)
(* the pool implements a stack of idle slabs.                              *)
(***************************************************************************)
EXTENDS Mpool, Sequences, WellFoundedInduction, TLAPS

\* A list that runs through all slabs in the order ord, the idle ones first.
Order(ord, k) ==
  /\ ord \in [Slabs -> Slabs] /\ k \in 0 .. slab_num
  /\ Linked(ord) /\ IdleFirst(ord, k)

PoolInv == TypeOK /\ WellFormed /\ NoNullDeref

\* An order of the slabs as mpool_get and mpool_put leave it is a witness of WellFormed.
LEMMA OrderWellFormed ==
  ASSUME NEW ord, NEW k, Order(ord, k)
  PROVE  WellFormed
BY DEF Order, WellFormed

\* mpool_new links the slabs from the last one down to the first one.
LEMMA InitPool == Init => PoolInv
<1> SUFFICES ASSUME NEW n \in Nums, mpool_new(n), got = NULL, fault = FALSE
             PROVE  PoolInv
  BY DEF Init
<1>1. n \in Nat \ {0} /\ Slabs = 1 .. n
  BY MpoolAssumption DEF mpool_new, Slabs
<1>2. TypeOK
  <2>1. head \in Slabs /\ tail \in Slabs /\ slab_num \in Nums /\ slab_used \in 0 .. slab_num
    BY <1>1 DEF mpool_new
  <2>2. used \in [Slabs -> {0, 1}]
    BY <1>1 DEF mpool_new
  <2>3. next \in [Slabs -> Slabs \cup {NULL}]
    BY <1>1 DEF mpool_new, NULL
  <2>4. prev \in [Slabs -> Slabs \cup {NULL}]
    BY <1>1 DEF mpool_new, NULL
  <2> QED BY <2>1, <2>2, <2>3, <2>4 DEF TypeOK
<1> DEFINE o == [i \in Slabs |-> n + 1 - i]
<1>3. Order(o, n)
  <2>1. o \in [Slabs -> Slabs] /\ n \in 0 .. slab_num
    BY <1>1 DEF mpool_new
  <2>2. \A s \in Slabs : n + 1 - s \in Slabs /\ o[n + 1 - s] = s
    BY <1>1
  <2>3. Linked(o)
    BY <1>1, <2>1, <2>2 DEF mpool_new, Linked, NULL
  <2>4. IdleFirst(o, n)
    BY <1>1, <2>1 DEF mpool_new, IdleFirst
  <2> QED BY <2>1, <2>3, <2>4 DEF Order
<1>4. NoNullDeref
  BY DEF NoNullDeref
<1> QED BY <1>2, <1>3, <1>4, OrderWellFormed DEF PoolInv

\* What a call must establish of the new links and flags, for some order o.
LEMMA NewOrder ==
  ASSUME slab_num' = slab_num,
         NEW o \in [Slabs -> Slabs], NEW k \in 0 .. slab_num,
         \A m, n \in Slabs : o[m] = o[n] => m = n,
         \A s \in Slabs : \E j \in Slabs : o[j] = s,
         head' = o[1], tail' = o[slab_num],
         \A j \in Slabs : next'[o[j]] = IF j = slab_num THEN NULL ELSE o[j + 1],
         \A j \in Slabs : prev'[o[j]] = IF j = 1 THEN NULL ELSE o[j - 1],
         \A j \in Slabs : used'[o[j]] = 0 <=> j <= k,
         slab_used' = slab_num - k
  PROVE  Order(o, k)' /\ WellFormed'
<1>1. Slabs' = Slabs
  BY DEF Slabs
<1>2. (\A i \in Slabs : next[o[i]] = IF i = slab_num THEN NULL ELSE o[i + 1])'
  BY <1>1
<1>3. (\A i \in Slabs : prev[o[i]] = IF i = 1 THEN NULL ELSE o[i - 1])'
  BY <1>1
<1>4. (\A i, j \in Slabs : o[i] = o[j] => i = j)'
  BY <1>1
<1>5. (\A s \in Slabs : \E i \in Slabs : o[i] = s)'
  BY <1>1
<1>6. Linked(o)'
  BY <1>2, <1>3, <1>4, <1>5 DEF Linked
<1>7. IdleFirst(o, k)'
  BY <1>1 DEF IdleFirst
<1> QED BY <1>1, <1>6, <1>7 DEF Order, WellFormed

\* The list with its first slab moved to the end.
Rotated(ord) == [j \in Slabs |-> IF j = slab_num THEN ord[1] ELSE ord[j + 1]]

\* A get takes the slab at the head and makes it the last one.
LEMMA GetOrder ==
  ASSUME PoolInv, GetHead, NEW ord, NEW k, Order(ord, k), NEW q, q = Rotated(ord)
  PROVE  TypeOK' /\ WellFormed' /\ k > 0 /\ Order(q, k - 1)'
<1>0. ord \in [Slabs -> Slabs] /\ k \in 0 .. slab_num /\ Linked(ord) /\ IdleFirst(ord, k)
  BY DEF Order
<1> USE <1>0
<1>1. slab_num \in Nat \ {0} /\ Slabs = 1 .. slab_num /\ slab_num' = slab_num
  BY MpoolAssumption DEF PoolInv, TypeOK, Slabs, GetHead
<1>2. Slabs' = Slabs
  BY <1>1 DEF Slabs
<1>3. slab_num > 1 /\ head = ord[1] /\ tail = ord[slab_num] /\ next[head] = ord[2]
  <2>1. head = ord[1] /\ tail = ord[slab_num] /\ next[head] # NULL
    BY DEF GetHead, Linked
  <2>2. 1 \in Slabs /\ 1 + 1 = 2
    BY <1>1
  <2>3. next[ord[1]] = IF 1 = slab_num THEN NULL ELSE ord[2]
    BY <2>2 DEF Linked
  <2> QED BY <1>1, <2>1, <2>3
<1>4. k > 0 /\ used[head] = 0
  BY <1>1, <1>3 DEF GetHead, IdleFirst
<1> DEFINE o == [j \in Slabs |-> IF j = slab_num THEN ord[1] ELSE ord[j + 1]]
<1>5. o \in [Slabs -> Slabs]
  BY <1>1
<1>6. /\ used' = [used EXCEPT ![ord[1]] = 1]
      /\ slab_used' = slab_used + 1
      /\ head' = ord[2] /\ tail' = ord[1] /\ got' = ord[1] /\ fault' = fault
      /\ prev' = [prev EXCEPT ![ord[2]] = NULL, ![ord[1]] = ord[slab_num]]
      /\ next' = [next EXCEPT ![ord[slab_num]] = ord[1], ![ord[1]] = NULL]
  BY <1>3 DEF GetHead
<1>7. /\ used \in [Slabs -> {0, 1}]
      /\ prev \in [Slabs -> Slabs \cup {NULL}] /\ next \in [Slabs -> Slabs \cup {NULL}]
  BY DEF PoolInv, TypeOK
<1>8. \A j \in Slabs : used'[o[j]] = 0 <=> j <= k - 1
  <2> SUFFICES ASSUME NEW j \in Slabs PROVE used'[o[j]] = 0 <=> j <= k - 1
    OBVIOUS
  <2>1. CASE j = slab_num
    BY <1>1, <1>3, <1>6, <1>7, <2>1
  <2>2. CASE j # slab_num
    <3>1. j + 1 \in Slabs /\ o[j] = ord[j + 1] /\ ord[j + 1] # ord[1]
      BY <1>1, <2>2 DEF Linked
    <3>2. used'[o[j]] = used[ord[j + 1]]
      BY <1>6, <1>7, <3>1
    <3>3. used[ord[j + 1]] = 0 <=> j + 1 <= k
      BY <3>1 DEF IdleFirst
    <3> QED BY <1>1, <3>2, <3>3
  <2> QED BY <2>1, <2>2
<1>9. \A j \in Slabs :
        /\ next'[ord[j]] = IF j = 1 THEN NULL
                           ELSE IF j = slab_num THEN ord[1] ELSE ord[j + 1]
        /\ prev'[ord[j]] = IF j = 1 THEN ord[slab_num]
                           ELSE IF j = 2 THEN NULL ELSE ord[j - 1]
  <2> SUFFICES ASSUME NEW j \in Slabs
               PROVE /\ next'[ord[j]] = IF j = 1 THEN NULL
                           ELSE IF j = slab_num THEN ord[1] ELSE ord[j + 1]
                     /\ prev'[ord[j]] = IF j = 1 THEN ord[slab_num]
                           ELSE IF j = 2 THEN NULL ELSE ord[j - 1]
    OBVIOUS
  <2>1. /\ 1 \in Slabs /\ 2 \in Slabs /\ slab_num \in Slabs
        /\ ord[j] = ord[1] <=> j = 1
        /\ ord[j] = ord[2] <=> j = 2
        /\ ord[j] = ord[slab_num] <=> j = slab_num
    <3>1. 1 \in Slabs /\ 2 \in Slabs /\ slab_num \in Slabs
      BY <1>1, <1>3
    <3> QED BY <3>1 DEF Linked
  <2> QED BY <1>1, <1>6, <1>7, <2>1 DEF Linked
<1>10. \A s \in Slabs : \E j \in Slabs : o[j] = s
  <2> SUFFICES ASSUME NEW s \in Slabs PROVE \E j \in Slabs : o[j] = s
    OBVIOUS
  <2>1. PICK m \in Slabs : ord[m] = s
    BY DEF Linked
  <2>2. CASE m = 1
    BY <1>1, <2>1, <2>2
  <2>3. CASE m # 1
    <3>1. m - 1 \in Slabs /\ o[m - 1] = s
      BY <1>1, <2>1, <2>3
    <3> QED BY <3>1
  <2> QED BY <2>2, <2>3
<1>11. \A m, n \in Slabs : o[m] = o[n] => m = n
  <2> SUFFICES ASSUME NEW m \in Slabs, NEW n \in Slabs, o[m] = o[n] PROVE m = n
    OBVIOUS
  <2>1. /\ 1 \in Slabs
        /\ m # slab_num => m + 1 \in Slabs /\ m + 1 # 1
        /\ n # slab_num => n + 1 \in Slabs /\ n + 1 # 1
        /\ m + 1 = n + 1 => m = n
    BY <1>1
  <2> QED BY <2>1 DEF Linked
<1>12. head' = o[1] /\ tail' = o[slab_num]
  BY <1>1, <1>3, <1>6
<1>13. \A j \in Slabs : next'[o[j]] = IF j = slab_num THEN NULL ELSE o[j + 1]
  <2> SUFFICES ASSUME NEW j \in Slabs
               PROVE  next'[o[j]] = IF j = slab_num THEN NULL ELSE o[j + 1]
    OBVIOUS
  <2>1. CASE j = slab_num
    <3>1. 1 \in Slabs /\ o[j] = ord[1]
      BY <1>1, <2>1
    <3> QED BY <1>9, <2>1, <3>1
  <2>2. CASE j # slab_num
    <3>1. j + 1 \in Slabs /\ j + 1 # 1 /\ o[j] = ord[j + 1]
      BY <1>1, <2>2
    <3>2. o[j + 1] = IF j + 1 = slab_num THEN ord[1] ELSE ord[j + 1 + 1]
      BY <3>1
    <3> QED BY <1>9, <2>2, <3>1, <3>2
  <2> QED BY <2>1, <2>2
<1>14. \A j \in Slabs : prev'[o[j]] = IF j = 1 THEN NULL ELSE o[j - 1]
  <2> SUFFICES ASSUME NEW j \in Slabs
               PROVE  prev'[o[j]] = IF j = 1 THEN NULL ELSE o[j - 1]
    OBVIOUS
  <2>1. CASE j = slab_num
    <3>1. 1 \in Slabs /\ o[j] = ord[1] /\ j # 1 /\ j - 1 \in Slabs /\ j - 1 # slab_num
      BY <1>1, <1>3, <2>1
    <3>2. o[j - 1] = ord[j - 1 + 1] /\ j - 1 + 1 = slab_num
      BY <1>1, <2>1, <3>1
    <3> QED BY <1>9, <3>1, <3>2
  <2>2. CASE j # slab_num
    <3>1. /\ j + 1 \in Slabs /\ j + 1 # 1 /\ o[j] = ord[j + 1]
          /\ j + 1 = 2 <=> j = 1
          /\ j + 1 - 1 = j
      BY <1>1, <2>2
    <3>2. prev'[ord[j + 1]] = IF j + 1 = 2 THEN NULL ELSE ord[j + 1 - 1]
      <4> DEFINE m == j + 1
      <4>1. m \in Slabs /\ m # 1
        BY <3>1
      <4> HIDE DEF m
      <4>2. prev'[ord[m]] = IF m = 2 THEN NULL ELSE ord[m - 1]
        BY <1>9, <4>1
      <4> QED BY <1>1, <4>2 DEF m
    <3>3. j # 1 => o[j - 1] = ord[j]
      BY <1>1, <2>2
    <3> QED BY <3>1, <3>2, <3>3
  <2> QED BY <2>1, <2>2
<1>15. WellFormed' /\ Order(q, k - 1)'
  <2>0. q = o
    BY DEF Rotated
  <2>1. k - 1 \in 0 .. slab_num /\ slab_used' = slab_num - (k - 1)
    BY <1>1, <1>4, <1>6 DEF IdleFirst
  <2> HIDE DEF o
  <2>2. /\ q \in [Slabs -> Slabs] /\ head' = q[1] /\ tail' = q[slab_num]
        /\ \A j \in Slabs : used'[q[j]] = 0 <=> j <= k - 1
        /\ \A s \in Slabs : \E j \in Slabs : q[j] = s
        /\ \A m, n \in Slabs : q[m] = q[n] => m = n
        /\ \A j \in Slabs : next'[q[j]] = IF j = slab_num THEN NULL ELSE q[j + 1]
        /\ \A j \in Slabs : prev'[q[j]] = IF j = 1 THEN NULL ELSE q[j - 1]
    BY <2>0, <1>5, <1>8, <1>10, <1>11, <1>12, <1>13, <1>14
  <2> QED BY <1>1, <2>1, <2>2, NewOrder
<1>16. TypeOK'
  <2>1. slab_used' \in 0 .. slab_num
    BY <1>1, <1>4, <1>6 DEF IdleFirst
  <2>2. /\ ord[1] \in Slabs /\ ord[2] \in Slabs /\ ord[slab_num] \in Slabs
    BY <1>1, <1>3
  <2> QED BY <1>1, <1>2, <1>6, <1>7, <2>1, <2>2 DEF PoolInv, TypeOK
<1> QED BY <1>4, <1>15, <1>16

\* Where the slab at place j of the list was before the slab at place p was moved to
\* the front, and the old places of the successor and the predecessor that the slab at
\* the old place j then has (0 for none), in a list of n slabs.
OldPlace(p, j) == IF j = 1 THEN p ELSE IF j <= p THEN j - 1 ELSE j
NextPlace(n, p, j) ==
  IF j = p THEN 1
  ELSE IF j = p - 1 THEN IF p = n THEN 0 ELSE p + 1
  ELSE IF j = n THEN 0 ELSE j + 1
PrevPlace(p, j) ==
  IF j = p THEN 0 ELSE IF j = 1 THEN p ELSE IF j = p + 1 THEN p - 1 ELSE j - 1

\* The links mpool_put sets are those of the list with the slab at place p in front.
LinksMoved(n, p) ==
  \A j \in 1 .. n :
    /\ OldPlace(p, j) \in 1 .. n
    /\ NextPlace(n, p, OldPlace(p, j)) = IF j = n THEN 0 ELSE OldPlace(p, j + 1)
    /\ PrevPlace(p, OldPlace(p, j)) = IF j = 1 THEN 0 ELSE OldPlace(p, j - 1)
    /\ j # n => j + 1 \in 1 .. n
    /\ j # 1 => j - 1 \in 1 .. n

\* The list with the slab at place p in front holds every slab, once.
PlacesPermuted(n, p) ==
  /\ \A i, j \in 1 .. n : OldPlace(p, i) = OldPlace(p, j) => i = j
  /\ \A j \in 1 .. n : \E m \in 1 .. n : OldPlace(p, m) = j
  /\ OldPlace(p, 1) = p
  /\ OldPlace(p, n) = IF p = n THEN p - 1 ELSE n

\* MoveToHead, which mpool_put makes, links the slabs in the new order.
LEMMA ToFront ==
  ASSUME NEW n \in Nat, NEW p \in 2 .. n
  PROVE  LinksMoved(n, p)
<1> SUFFICES ASSUME NEW j \in 1 .. n
             PROVE  /\ OldPlace(p, j) \in 1 .. n
                    /\ NextPlace(n, p, OldPlace(p, j)) =
                         IF j = n THEN 0 ELSE OldPlace(p, j + 1)
                    /\ PrevPlace(p, OldPlace(p, j)) =
                         IF j = 1 THEN 0 ELSE OldPlace(p, j - 1)
                    /\ j # n => j + 1 \in 1 .. n
                    /\ j # 1 => j - 1 \in 1 .. n
  BY DEF LinksMoved
<1>1. CASE j = 1
  BY <1>1 DEF OldPlace, NextPlace, PrevPlace
<1>2. CASE j # 1 /\ j < p
  BY <1>2 DEF OldPlace, NextPlace, PrevPlace
<1>3. CASE j # 1 /\ j = p
  BY <1>3 DEF OldPlace, NextPlace, PrevPlace
<1>4. CASE j # 1 /\ j > p
  BY <1>4 DEF OldPlace, NextPlace, PrevPlace
<1> QED BY <1>1, <1>2, <1>3, <1>4

\* mpool_put, moving a slab to the front, keeps every slab in the list, once.
LEMMA ToFrontPermutes ==
  ASSUME NEW n \in Nat, NEW p \in 2 .. n
  PROVE  PlacesPermuted(n, p)
<1>1. ASSUME NEW i \in 1 .. n, NEW j \in 1 .. n, OldPlace(p, i) = OldPlace(p, j)
      PROVE  i = j
  BY <1>1 DEF OldPlace
<1>2. ASSUME NEW j \in 1 .. n PROVE \E m \in 1 .. n : OldPlace(p, m) = j
  <2>1. CASE j = p
    <3>1. 1 \in 1 .. n /\ OldPlace(p, 1) = j
      BY <2>1 DEF OldPlace
    <3> QED BY <3>1
  <2>2. CASE j < p
    <3>1. j + 1 \in 1 .. n /\ OldPlace(p, j + 1) = j
      BY <2>2 DEF OldPlace
    <3> QED BY <3>1
  <2>3. CASE j > p
    <3>1. OldPlace(p, j) = j
      BY <2>3 DEF OldPlace
    <3> QED BY <3>1
  <2> QED BY <2>1, <2>2, <2>3
<1>3. OldPlace(p, 1) = p
  BY DEF OldPlace
<1>4. OldPlace(p, n) = IF p = n THEN p - 1 ELSE n
  BY DEF OldPlace
<1> QED BY <1>1, <1>2, <1>3, <1>4 DEF PlacesPermuted

\* A put moves the slab, wherever it is among the busy ones, to the head, and leaves the
\* idle ones behind it in their order.
LEMMA PutOrder ==
  ASSUME PoolInv, NEW s \in Slabs, mpool_put(s), NEW ord, NEW k, Order(ord, k)
  PROVE  /\ TypeOK' /\ WellFormed'
         /\ \E o : /\ Order(o, k + 1)' /\ o[1] = s
                   /\ \A j \in 1 .. k : o[j + 1] = ord[j]
<1>0. ord \in [Slabs -> Slabs] /\ k \in 0 .. slab_num /\ Linked(ord) /\ IdleFirst(ord, k)
  BY DEF Order
<1> USE <1>0
<1>1. slab_num \in Nat \ {0} /\ Slabs = 1 .. slab_num /\ slab_num' = slab_num
  BY MpoolAssumption DEF PoolInv, TypeOK, Slabs, mpool_put
<1>2. Slabs' = Slabs
  BY <1>1 DEF Slabs
<1>3. PICK p \in Slabs : ord[p] = s
  BY DEF Linked
<1>4. /\ used \in [Slabs -> {0, 1}]
      /\ prev \in [Slabs -> Slabs \cup {NULL}] /\ next \in [Slabs -> Slabs \cup {NULL}]
  BY DEF PoolInv, TypeOK
<1>5. k < p /\ k + 1 \in 0 .. slab_num
  BY <1>1, <1>3, <1>4 DEF mpool_put, IdleFirst
<1>6. /\ used' = [used EXCEPT ![ord[p]] = 0]
      /\ slab_used' = slab_num - (k + 1) /\ slab_used' \in 0 .. slab_num
      /\ got' = got /\ fault' = fault
  BY <1>1, <1>3, <1>5 DEF mpool_put, IdleFirst
<1>7. /\ head = ord[1] /\ tail = ord[slab_num]
      /\ \A m, n \in Slabs : ord[m] = ord[n] => m = n
      /\ \A m \in Slabs : next[ord[m]] = IF m = slab_num THEN NULL ELSE ord[m + 1]
      /\ \A m \in Slabs : prev[ord[m]] = IF m = 1 THEN NULL ELSE ord[m - 1]
  BY DEF Linked
<1>8. NULL \notin Slabs
  BY <1>1 DEF NULL
<1>9. CASE prev[s] = NULL
  <2>1. p = 1 /\ k = 0
    <3>1. p = 1
      <4> SUFFICES ASSUME p # 1 PROVE FALSE
        OBVIOUS
      <4>1. prev[ord[p]] = ord[p - 1]
        BY <1>7
      <4>2. p - 1 \in Slabs
        BY <1>1
      <4> QED BY <1>3, <1>8, <1>9, <4>1, <4>2
    <3> QED BY <1>1, <1>5, <3>1
  <2>2. UNCHANGED list
    BY <1>9 DEF mpool_put
  <2>3. \A j \in Slabs : used'[ord[j]] = 0 <=> j <= k + 1
    <3> SUFFICES ASSUME NEW j \in Slabs PROVE used'[ord[j]] = 0 <=> j <= k + 1
      OBVIOUS
    <3>1. used[ord[j]] # 0
      <4>1. ~(j <= k)
        BY <1>1, <2>1
      <4> QED BY <4>1 DEF IdleFirst
    <3>2. ord[j] = ord[p] <=> j = 1
      BY <1>3, <1>7, <2>1
    <3>3. j <= k + 1 <=> j = 1
      BY <1>1, <2>1
    <3> QED BY <1>4, <1>6, <3>1, <3>2, <3>3
  <2>4. WellFormed' /\ Order(ord, k + 1)'
    <3>1. \A r \in Slabs : \E j \in Slabs : ord[j] = r
      BY DEF Linked
    <3>2. head' = head /\ tail' = tail /\ next' = next /\ prev' = prev
      BY <2>2 DEF list
    <3>3. head' = ord[1] /\ tail' = ord[slab_num]
      BY <1>7, <3>2
    <3>4. /\ \A m \in Slabs : next'[ord[m]] = IF m = slab_num THEN NULL ELSE ord[m + 1]
          /\ \A m \in Slabs : prev'[ord[m]] = IF m = 1 THEN NULL ELSE ord[m - 1]
      BY <1>7, <3>2
    <3> QED BY <1>1, <1>5, <1>6, <1>7, <2>3, <3>1, <3>3, <3>4, NewOrder
  <2>5. TypeOK'
    BY <1>1, <1>2, <1>4, <1>6, <2>2 DEF list, PoolInv, TypeOK
  <2>6. ord[1] = s /\ \A j \in 1 .. k : ord[j + 1] = ord[j]
    BY <1>3, <2>1
  <2> QED BY <2>4, <2>5, <2>6
<1>10. CASE prev[s] # NULL
  <2> DEFINE c(j) == OldPlace(p, j)
             nx(j) == NextPlace(slab_num, p, j)
             pv(j) == PrevPlace(p, j)
             o == [j \in Slabs |-> ord[c(j)]]
  <2>1. p > 1 /\ p - 1 \in Slabs /\ prev[s] = ord[p - 1] /\ 1 \in Slabs
    BY <1>1, <1>3, <1>7, <1>10
  <2>2. MoveToHead(s)
    BY <1>10 DEF mpool_put
  <2>a. LinksMoved(slab_num, p) /\ PlacesPermuted(slab_num, p)
    <3>1. slab_num \in Nat /\ p \in 2 .. slab_num
      BY <1>1, <2>1
    <3> QED BY <3>1, ToFront, ToFrontPermutes
  \* c(j) is the old position of the slab at the new position j.
  <2>3. /\ \A j \in Slabs : c(j) \in Slabs
        /\ \A m, n \in Slabs : c(m) = c(n) => m = n
        /\ c(1) = p /\ c(slab_num) = IF p = slab_num THEN p - 1 ELSE slab_num
    BY <1>1, <2>a DEF LinksMoved, PlacesPermuted
  <2>4. \A j \in Slabs : \E m \in Slabs : c(m) = j
    BY <1>1, <2>a DEF PlacesPermuted
  <2>5. \A j \in Slabs :
          /\ nx(c(j)) = IF j = slab_num THEN 0 ELSE c(j + 1)
          /\ pv(c(j)) = IF j = 1 THEN 0 ELSE c(j - 1)
          /\ j # slab_num => j + 1 \in Slabs
          /\ j # 1 => j - 1 \in Slabs
    BY <1>1, <2>a DEF LinksMoved
  <2>6. /\ head' = ord[p]
        /\ tail' = IF p = slab_num THEN ord[p - 1] ELSE tail
        /\ \A j \in Slabs : next'[ord[j]] = IF nx(j) = 0 THEN NULL ELSE ord[nx(j)]
        /\ \A j \in Slabs : prev'[ord[j]] = IF pv(j) = 0 THEN NULL ELSE ord[pv(j)]
        /\ next' \in [Slabs -> Slabs \cup {NULL}] /\ prev' \in [Slabs -> Slabs \cup {NULL}]
    <3>1. /\ \A j \in Slabs : ord[j] = ord[p] <=> j = p
          /\ \A j \in Slabs : ord[j] = ord[1] <=> j = 1
          /\ \A j \in Slabs : ord[j] = ord[p - 1] <=> j = p - 1
      BY <1>7, <2>1
    <3>2. CASE p = slab_num
      <4>1. next[s] = NULL
        BY <1>3, <1>7, <3>2
      <4>2. /\ head' = ord[p] /\ tail' = ord[p - 1]
            /\ next' = [next EXCEPT ![ord[p - 1]] = NULL, ![ord[p]] = ord[1]]
            /\ prev' = [prev EXCEPT ![ord[p]] = NULL, ![ord[1]] = ord[p]]
        BY <1>3, <1>7, <2>1, <2>2, <4>1 DEF MoveToHead
      <4>3. ASSUME NEW j \in Slabs
            PROVE  /\ next'[ord[j]] = IF nx(j) = 0 THEN NULL ELSE ord[nx(j)]
                   /\ prev'[ord[j]] = IF pv(j) = 0 THEN NULL ELSE ord[pv(j)]
        <5>1. /\ next'[ord[j]] = IF j = p THEN ord[1]
                                ELSE IF j = p - 1 THEN NULL ELSE next[ord[j]]
              /\ prev'[ord[j]] = IF j = 1 THEN ord[p]
                                ELSE IF j = p THEN NULL ELSE prev[ord[j]]
          BY <1>4, <2>1, <3>1, <4>2
        <5>2. p # 1 /\ j # p + 1 /\ j + 1 # 0 /\ (j # 1 => j - 1 # 0)
          <6>1. p \in Int /\ j \in Int /\ j >= 1 /\ j <= p
            BY <1>1, <3>2
          <6> QED BY <2>1, <6>1
        <5> QED BY <1>7, <2>1, <3>2, <5>1, <5>2 DEF NextPlace, PrevPlace
      <4>4. next' \in [Slabs -> Slabs \cup {NULL}] /\ prev' \in [Slabs -> Slabs \cup {NULL}]
        BY <1>4, <2>1, <4>2
      <4> QED BY <3>2, <4>2, <4>3, <4>4
    <3>3. CASE p # slab_num
      <4>1. p + 1 \in Slabs
        BY <1>1, <3>3
      <4>2. next[s] = ord[p + 1] /\ next[s] # NULL
        BY <1>3, <1>7, <1>8, <3>3, <4>1
      <4>3. /\ head' = ord[p] /\ tail' = tail
            /\ next' = [next EXCEPT ![ord[p - 1]] = ord[p + 1], ![ord[p]] = ord[1]]
            /\ prev' = [prev EXCEPT ![ord[p + 1]] = ord[p - 1], ![ord[p]] = NULL,
                                    ![ord[1]] = ord[p]]
        BY <1>3, <1>7, <2>1, <2>2, <4>2 DEF MoveToHead
      <4>4. \A j \in Slabs : ord[j] = ord[p + 1] <=> j = p + 1
        BY <1>7, <4>1
      <4>5. ASSUME NEW j \in Slabs
            PROVE  /\ next'[ord[j]] = IF nx(j) = 0 THEN NULL ELSE ord[nx(j)]
                   /\ prev'[ord[j]] = IF pv(j) = 0 THEN NULL ELSE ord[pv(j)]
        <5>1. /\ next'[ord[j]] = IF j = p THEN ord[1]
                                ELSE IF j = p - 1 THEN ord[p + 1] ELSE next[ord[j]]
              /\ prev'[ord[j]] = IF j = 1 THEN ord[p] ELSE IF j = p THEN NULL
                                ELSE IF j = p + 1 THEN ord[p - 1] ELSE prev[ord[j]]
          BY <1>4, <2>1, <3>1, <4>1, <4>3, <4>4
        <5>2. /\ p # 1 /\ p + 1 # 0 /\ p - 1 # 0
              /\ j + 1 # 0 /\ (j # 1 => j - 1 # 0)
          <6>1. p \in Int /\ j \in Int /\ j >= 1
            BY <1>1
          <6> QED BY <2>1, <6>1
        <5> QED BY <1>7, <2>1, <3>3, <5>1, <5>2 DEF NextPlace, PrevPlace
      <4>6. next' \in [Slabs -> Slabs \cup {NULL}] /\ prev' \in [Slabs -> Slabs \cup {NULL}]
        BY <1>4, <2>1, <4>1, <4>3
      <4> QED BY <3>3, <4>3, <4>5, <4>6
    <3> QED BY <3>2, <3>3
  <2>7. \A m \in Slabs : used'[ord[m]] = 0 <=> m = p \/ m <= k
    BY <1>4, <1>6, <1>7 DEF IdleFirst
  <2>8. \A j \in Slabs : (c(j) = p \/ c(j) <= k) <=> j <= k + 1
    <3> SUFFICES ASSUME NEW j \in Slabs PROVE (c(j) = p \/ c(j) <= k) <=> j <= k + 1
      OBVIOUS
    <3>1. j \in Int /\ p \in Int /\ k \in Int /\ 0 <= k /\ k < p
      BY <1>1, <1>5
    <3>2. CASE j = 1
      BY <3>1, <3>2 DEF OldPlace
    <3>3. CASE j # 1 /\ j <= p
      BY <3>1, <3>3 DEF OldPlace
    <3>4. CASE j # 1 /\ ~(j <= p)
      BY <3>1, <3>4 DEF OldPlace
    <3> QED BY <3>2, <3>3, <3>4
  <2>9. NULL = 0 /\ 0 \notin Slabs
    BY <1>8 DEF NULL
  <2> HIDE DEF c, nx, pv
  <2>10. o \in [Slabs -> Slabs] /\ \A j \in Slabs : o[j] = ord[c(j)]
    BY <2>3
  <2> HIDE DEF o
  <2>11. \A r \in Slabs : \E j \in Slabs : o[j] = r
    BY <2>4, <2>10 DEF Linked
  <2>12. \A m, n \in Slabs : o[m] = o[n] => m = n
    BY <1>7, <2>3, <2>10
  <2>13. head' = o[1] /\ tail' = o[slab_num]
    <3>1. 1 \in Slabs /\ slab_num \in Slabs
      BY <1>1
    <3> QED BY <1>7, <2>3, <2>6, <2>10, <3>1
  <2>14. \A j \in Slabs : next'[o[j]] = IF j = slab_num THEN NULL ELSE o[j + 1]
    BY <2>3, <2>5, <2>6, <2>9, <2>10
  <2>15. \A j \in Slabs : prev'[o[j]] = IF j = 1 THEN NULL ELSE o[j - 1]
    BY <2>3, <2>5, <2>6, <2>9, <2>10
  <2>16. \A j \in Slabs : used'[o[j]] = 0 <=> j <= k + 1
    BY <2>3, <2>7, <2>8, <2>10
  <2>b. PICK q : q = o
    OBVIOUS
  <2>17. WellFormed' /\ Order(q, k + 1)'
    BY <1>1, <1>5, <1>6, <2>10, <2>11, <2>12, <2>13, <2>14, <2>15, <2>16,
       <2>b, NewOrder
  <2>18. TypeOK'
    <3>1. head' \in Slabs /\ tail' \in Slabs
      BY <1>1, <2>10, <2>13
    <3> QED BY <1>1, <1>2, <1>4, <1>6, <2>6, <3>1 DEF PoolInv, TypeOK
  <2>19. o[1] = s /\ \A j \in 1 .. k : o[j + 1] = ord[j]
    <3>1. 1 \in Slabs /\ o[1] = s
      BY <1>3, <2>1, <2>3, <2>10
    <3>2. ASSUME NEW j \in 1 .. k PROVE o[j + 1] = ord[j]
      <4>1. j + 1 \in Slabs /\ OldPlace(p, j + 1) = j
        BY <1>1, <1>5 DEF OldPlace
      <4> QED BY <2>10, <4>1 DEF c
    <3> QED BY <3>1, <3>2
  <2> QED BY <2>17, <2>18, <2>19, <2>b
<1> QED BY <1>9, <1>10

\* The head of the list is idle unless every slab is busy, and in a pool of two slabs
\* or more it has a successor.
LEMMA HeadOfList ==
  ASSUME PoolInv
  PROVE  /\ used[head] # 0 => \A s \in Slabs : used[s] # 0
         /\ slab_num > 1 => next[head] # NULL
<1> PICK ord \in [Slabs -> Slabs], k \in 0 .. slab_num : Linked(ord) /\ IdleFirst(ord, k)
  BY DEF PoolInv, WellFormed
<1>1. slab_num \in Nat \ {0} /\ Slabs = 1 .. slab_num /\ head = ord[1] /\ 1 \in Slabs
  BY MpoolAssumption DEF PoolInv, TypeOK, Slabs, Linked
<1>2. ASSUME used[head] # 0, NEW s \in Slabs PROVE used[s] # 0
  <2>1. k = 0
    BY <1>1, <1>2 DEF IdleFirst
  <2>2. PICK j \in Slabs : ord[j] = s
    BY DEF Linked
  <2>3. ~(j <= 0)
    BY <1>1
  <2> QED BY <2>1, <2>2, <2>3 DEF IdleFirst
<1>3. ASSUME slab_num > 1 PROVE next[head] # NULL
  <2>1. 2 \in Slabs /\ 1 + 1 = 2 /\ 1 # slab_num /\ NULL \notin Slabs
    BY <1>1, <1>3 DEF NULL
  <2>2. next[ord[1]] = IF 1 = slab_num THEN NULL ELSE ord[1 + 1]
    BY <1>1 DEF Linked
  <2>3. ord[2] \in Slabs
    BY <2>1
  <2> QED BY <1>1, <2>1, <2>2, <2>3
<1> QED BY <1>2, <1>3

\* Every call keeps the pool in order.
LEMMA NextPool == PoolInv /\ [Next]_vars => PoolInv'
<1> SUFFICES ASSUME PoolInv, [Next]_vars PROVE PoolInv'
  OBVIOUS
<1>1. ASSUME UNCHANGED <<slab_num, list, slab_used, used>>,
             got' \in Slabs \cup {NULL}, fault' \in BOOLEAN
      PROVE  TypeOK' /\ WellFormed'
  <2>1. Slabs' = Slabs
    BY <1>1 DEF Slabs
  <2>2. TypeOK'
    BY <1>1, <2>1 DEF list, PoolInv, TypeOK
  <2>3. PICK ord \in [Slabs -> Slabs], k \in 0 .. slab_num :
          Linked(ord) /\ IdleFirst(ord, k)
    BY DEF PoolInv, WellFormed
  <2>4. Linked(ord)' /\ IdleFirst(ord, k)'
    BY <1>1, <2>1, <2>3 DEF list, Linked, IdleFirst
  <2>5. WellFormed'
    BY <1>1, <2>1, <2>4 DEF WellFormed
  <2> QED BY <2>2, <2>5
<1>2. CASE GetNone
  <2>1. TypeOK' /\ WellFormed'
    BY <1>1, <1>2 DEF GetNone, PoolInv, TypeOK
  <2> QED BY <1>2, <2>1 DEF GetNone, PoolInv, NoNullDeref
<1>3. CASE GetFault
  <2>1. TypeOK' /\ WellFormed'
    BY <1>1, <1>3 DEF GetFault, PoolInv, TypeOK
  <2>2. ~(slab_num > 1)
    BY <1>3, HeadOfList DEF GetFault
  <2> QED BY <1>3, <2>1, <2>2 DEF GetFault, PoolInv, NoNullDeref
<1>4. CASE GetHead
  <2>1. PICK ord, k : Order(ord, k)
    BY DEF PoolInv, WellFormed, Order
  <2>2. TypeOK' /\ WellFormed'
    BY <1>4, <2>1, GetOrder
  <2> QED BY <1>4, <2>2 DEF GetHead, PoolInv, NoNullDeref
<1>5. ASSUME NEW s \in Slabs, mpool_put(s) PROVE PoolInv'
  <2>1. PICK ord, k : Order(ord, k)
    BY DEF PoolInv, WellFormed, Order
  <2>2. TypeOK' /\ WellFormed'
    BY <1>5, <2>1, PutOrder
  <2> QED BY <1>5, <2>2 DEF mpool_put, PoolInv, NoNullDeref
<1>6. CASE UNCHANGED vars
  <2>1. TypeOK' /\ WellFormed'
    BY <1>1, <1>6 DEF vars, list, PoolInv, TypeOK
  <2> QED BY <1>6, <2>1 DEF vars, PoolInv, NoNullDeref
<1> QED BY <1>2, <1>3, <1>4, <1>5, <1>6 DEF Next, mpool_get
-----------------------------------------------------------------------------
\* However gets and puts follow each other, the list of a pool of any size holds every
\* slab once, with the idle ones in front.
THEOREM PoolWellFormed == Spec => [](TypeOK /\ WellFormed)
<1>1. PoolInv => TypeOK /\ WellFormed
  BY DEF PoolInv
<1> QED BY <1>1, InitPool, NextPool, PTL DEF Spec

\* Type correctness of Mpool.
THEOREM PoolTypeOK == Spec => []TypeOK
<1>1. PoolInv => TypeOK
  BY DEF PoolInv
<1> QED BY <1>1, InitPool, NextPool, PTL DEF Spec

\* mpool_get follows s->next without a test; with two slabs or more it is never NULL.
THEOREM PoolNeverFaults == Spec => []NoNullDeref
<1>1. PoolInv => NoNullDeref
  BY DEF PoolInv
<1> QED BY <1>1, InitPool, NextPool, PTL DEF Spec

\* mpool_get returns NULL only when no slab is idle.
THEOREM GetFailsOnlyWhenEmpty == Spec => NoFalseExhaustion
<1>1. PoolInv /\ [Next]_vars => [GetNone => \A s \in Slabs : used[s] # 0]_vars
  BY HeadOfList DEF GetNone
<1> QED BY <1>1, InitPool, NextPool, PTL DEF Spec, NoFalseExhaustion
-----------------------------------------------------------------------------
\* A set of natural numbers that is not empty has a least member.
LEMMA LeastNumber ==
  ASSUME NEW T, T \subseteq Nat, T # {}
  PROVE  \E m \in T : \A n \in T : m <= n
<1> DEFINE R == {ss \in Nat \X Nat : ss[1] < ss[2]}
<1>1. IsWellFoundedOn(R, Nat)
  BY NatLessThanWellFounded DEF OpToRel
<1>2. \E m \in T : \A n \in T : <<n, m>> \notin R
  <2> HIDE DEF R
  <2> QED BY <1>1, WFMin
<1>3. PICK m \in T : \A n \in T : <<n, m>> \notin R
  BY <1>2
<1>4. ASSUME NEW n \in T PROVE m <= n
  <2>1. m \in Nat /\ n \in Nat
    OBVIOUS
  <2>2. <<n, m>> \in Nat \X Nat /\ <<n, m>>[1] = n /\ <<n, m>>[2] = m
    BY <2>1
  <2>3. ~(n < m)
    BY <1>3, <2>2
  <2> QED BY <2>1, <2>3
<1> QED BY <1>4

\* Following the links of a list that runs through 1 .. n in the order ord gives ord.
LEMMA ListIsOrder ==
  ASSUME NEW n \in Nat, NEW ord \in [1 .. n -> 1 .. n], NEW h, NEW nx,
         h = ord[1], \A i \in 1 .. n : i # n => nx[ord[i]] = ord[i + 1]
  PROVE  ListFrom(h, nx, n) = ord
<1> DEFINE E(f) == [i \in 1 .. n |-> IF i = 1 THEN h
                                     ELSE IF f[i - 1] = NULL THEN NULL ELSE nx[f[i - 1]]]
<1>1. ListFrom(h, nx, n) = CHOOSE f : f = E(f)
  BY DEF ListFrom
<1>2. ord = E(ord)
  <2>1. ASSUME NEW i \in 1 .. n
        PROVE  ord[i] = IF i = 1 THEN h
                        ELSE IF ord[i - 1] = NULL THEN NULL ELSE nx[ord[i - 1]]
    <3>1. CASE i = 1
      BY <3>1
    <3>2. CASE i # 1
      <4>1. i - 1 \in 1 .. n /\ i - 1 # n /\ i - 1 + 1 = i
        BY <3>2
      <4>2. ord[i - 1] # NULL
        BY <4>1 DEF NULL
      <4> QED BY <3>2, <4>1, <4>2
    <3> QED BY <3>1, <3>2
  <2> QED BY <2>1
<1>3. ASSUME NEW f, f = E(f) PROVE f = ord
  <2> DEFINE T == {i \in 1 .. n : f[i] # ord[i]}
  <2>1. T = {}
    <3> SUFFICES ASSUME T # {} PROVE FALSE
      OBVIOUS
    <3>1. T \subseteq Nat
      OBVIOUS
    <3>2. PICK m \in T : \A i \in T : m <= i
      <4> HIDE DEF T
      <4> QED BY <3>1, LeastNumber
    <3>3. m \in 1 .. n /\ f[m] # ord[m]
      OBVIOUS
    <3>4. f[m] = IF m = 1 THEN h ELSE IF f[m - 1] = NULL THEN NULL ELSE nx[f[m - 1]]
      BY <1>3, <3>3
    <3>5. CASE m = 1
      BY <3>3, <3>4, <3>5
    <3>6. CASE m # 1
      <4>1. m - 1 \in 1 .. n /\ ~(m <= m - 1) /\ m - 1 # n /\ m - 1 + 1 = m
        BY <3>3, <3>6
      <4>2. f[m - 1] = ord[m - 1]
        BY <3>2, <4>1
      <4>3. ord[m - 1] # NULL
        BY <4>1 DEF NULL
      <4> QED BY <3>3, <3>4, <3>6, <4>1, <4>2, <4>3
    <3> QED BY <3>5, <3>6
  <2>2. f = [i \in 1 .. n |-> f[i]]
    BY <1>3
  <2> QED BY <2>1, <2>2
<1> HIDE DEF E
<1> QED BY <1>1, <1>2, <1>3

\* The idle slabs before a call and after it.
LEMMA IdleNow ==
  ASSUME PoolInv, NEW ord, NEW k, Order(ord, k)
  PROVE  Idle = [i \in 1 .. k |-> ord[i]] /\ k \in Nat /\ ord \in [1 .. slab_num -> 1 .. slab_num]
         /\ k <= slab_num
<1>1. slab_num \in Nat \ {0} /\ Slabs = 1 .. slab_num
  BY MpoolAssumption DEF PoolInv, TypeOK, Slabs
<1>2. /\ ord \in [1 .. slab_num -> 1 .. slab_num] /\ k \in 0 .. slab_num
      /\ slab_used = slab_num - k /\ head = ord[1]
      /\ \A i \in 1 .. slab_num : next[ord[i]] = IF i = slab_num THEN NULL ELSE ord[i + 1]
  BY <1>1 DEF Order, Linked, IdleFirst
<1>3. ListFrom(head, next, slab_num) = ord
  <2>1. \A i \in 1 .. slab_num : i # slab_num => next[ord[i]] = ord[i + 1]
    BY <1>2
  <2> QED BY <1>1, <1>2, <2>1, ListIsOrder
<1>4. Idle = [i \in 1 .. k |-> ord[i]] /\ k \in Nat
  BY <1>1, <1>2, <1>3 DEF Idle
<1> QED BY <1>1, <1>2, <1>4

LEMMA IdleNext ==
  ASSUME PoolInv', NEW ord, NEW k, Order(ord, k)'
  PROVE  Idle' = [i \in 1 .. k |-> ord[i]]
<1>1. slab_num' \in Nat \ {0} /\ Slabs' = 1 .. slab_num'
  BY MpoolAssumption DEF PoolInv, TypeOK, Slabs
<1>2. /\ ord \in [1 .. slab_num' -> 1 .. slab_num'] /\ k \in 0 .. slab_num'
      /\ slab_used' = slab_num' - k /\ head' = ord[1]
      /\ \A i \in 1 .. slab_num' : next'[ord[i]] = IF i = slab_num' THEN NULL ELSE ord[i + 1]
  BY <1>1 DEF Order, Linked, IdleFirst
<1>3. ListFrom(head', next', slab_num') = ord
  <2>1. \A i \in 1 .. slab_num' : i # slab_num' => next'[ord[i]] = ord[i + 1]
    BY <1>2
  <2> QED BY <1>1, <1>2, <2>1, ListIsOrder
<1> QED BY <1>1, <1>2, <1>3 DEF Idle

\* A new pool is a stack of all its slabs, the last one on top.
LEMMA StackInit == Init => Stack!Init
<1> SUFFICES ASSUME NEW n \in Nums, mpool_new(n), got = NULL PROVE Stack!Init
  BY DEF Init
<1>1. n \in Nat \ {0} /\ slab_num = n
  BY MpoolAssumption DEF mpool_new
<1> DEFINE o == [i \in 1 .. n |-> n + 1 - i]
<1>2. /\ o \in [1 .. n -> 1 .. n] /\ head = o[1] /\ slab_used = 0
      /\ \A i \in 1 .. n : i # n => next[o[i]] = o[i + 1]
  BY <1>1 DEF mpool_new
<1> HIDE DEF o
<1>3. Idle = [i \in 1 .. n |-> o[i]]
  <2>1. ListFrom(head, next, n) = o
    BY <1>1, <1>2, ListIsOrder
  <2> QED BY <1>1, <1>2, <2>1 DEF Idle
<1>4. Idle = [i \in 1 .. slab_num |-> slab_num + 1 - i]
  BY <1>1, <1>3 DEF o
<1> QED BY <1>4 DEF Stack!Init

\* Every call of the pool is one of the stack, or leaves it alone.
LEMMA StackStep ==
  ASSUME PoolInv, PoolInv', [Next]_vars
  PROVE  [Stack!Next]_(Stack!vars)
<1>0. slab_num \in Nat \ {0} /\ slab_num' = slab_num /\ Slabs = 1 .. slab_num
  BY MpoolAssumption DEF PoolInv, TypeOK, Next, vars, mpool_get, GetNone, GetFault, GetHead, mpool_put, Slabs
<1>1. PICK ord, k : Order(ord, k)
  BY DEF PoolInv, WellFormed, Order
<1>2. /\ Idle = [i \in 1 .. k |-> ord[i]] /\ k \in Nat /\ k <= slab_num
      /\ ord \in [1 .. slab_num -> 1 .. slab_num]
  BY <1>1, IdleNow
<1>3. ASSUME UNCHANGED <<slab_num, slab_used, list>> PROVE Idle' = Idle
  BY <1>3 DEF list, Idle
<1>4. CASE GetNone
  <2>1. k = 0
    <3>1. 1 \in Slabs /\ used[ord[1]] # 0
      BY <1>0, <1>1, <1>4 DEF GetNone, Order, Linked
    <3>2. ~(1 <= k)
      BY <1>1, <3>1 DEF Order, IdleFirst
    <3> QED BY <1>2, <3>2
  <2>2. Idle = <<>> /\ Idle' = Idle /\ got' = NULL
    BY <1>2, <1>3, <1>4, <2>1 DEF GetNone
  <2> QED BY <1>0, <2>2 DEF Stack!Next, Stack!Get
<1>5. CASE GetFault
  <2>1. Idle' = Idle /\ got' = got
    BY <1>3, <1>5 DEF GetFault
  <2> QED BY <1>0, <2>1 DEF Stack!vars
<1>6. CASE GetHead
  <2>1. PICK q : q = Rotated(ord)
    OBVIOUS
  <2>2. k > 0 /\ Order(q, k - 1)'
    BY <1>1, <1>6, <2>1, GetOrder
  <2>3. Idle' = [i \in 1 .. k - 1 |-> q[i]]
    BY <2>2, IdleNext
  <2>4. \A i \in 1 .. k - 1 : q[i] = ord[i + 1]
    BY <1>0, <1>2, <2>1 DEF Rotated
  <2>5. Idle # <<>> /\ Head(Idle) = ord[1] /\ Tail(Idle) = [i \in 1 .. k - 1 |-> ord[i + 1]]
    <3>0. \A i \in 1 .. k : ord[i] \in 1 .. slab_num
      BY <1>0, <1>2
    <3>1. Idle \in Seq(1 .. slab_num) /\ Len(Idle) = k
      BY <1>2, <3>0
    <3> QED BY <1>2, <2>2, <3>1
  <2>6. got' = ord[1]
    BY <1>1, <1>6 DEF GetHead, Order, Linked
  <2>7. Idle' = Tail(Idle) /\ got' = Head(Idle)
    BY <2>3, <2>4, <2>5, <2>6
  <2> QED BY <1>0, <2>5, <2>7 DEF Stack!Next, Stack!Get
<1>7. ASSUME NEW s \in Slabs, mpool_put(s) PROVE Stack!Next
  <2>1. PICK o : Order(o, k + 1)' /\ o[1] = s /\ \A j \in 1 .. k : o[j + 1] = ord[j]
    BY <1>1, <1>7, PutOrder
  <2>2. Idle' = [i \in 1 .. k + 1 |-> o[i]]
    BY <2>1, IdleNext
  <2>3. <<s>> \o Idle = [i \in 1 .. k + 1 |-> IF i = 1 THEN s ELSE ord[i - 1]]
    <3>0. \A i \in 1 .. k : ord[i] \in 1 .. slab_num
      BY <1>0, <1>2
    <3>1. Idle \in Seq(1 .. slab_num) /\ Len(Idle) = k
      BY <1>2, <3>0
    <3> QED BY <1>0, <1>2, <3>1
  <2>4. \A i \in 1 .. k + 1 : o[i] = IF i = 1 THEN s ELSE ord[i - 1]
    <3> SUFFICES ASSUME NEW i \in 1 .. k + 1 PROVE o[i] = IF i = 1 THEN s ELSE ord[i - 1]
      OBVIOUS
    <3>1. CASE i = 1
      BY <2>1, <3>1
    <3>2. CASE i # 1
      <4>1. i - 1 \in 1 .. k /\ i - 1 + 1 = i
        BY <1>2, <3>2
      <4> QED BY <2>1, <3>2, <4>1
    <3> QED BY <3>1, <3>2
  <2>5. Idle' = <<s>> \o Idle
    BY <2>2, <2>3, <2>4
  <2>6. ~Stack!Contains(Idle, s)
    <3> SUFFICES ASSUME NEW i \in 1 .. k, ord[i] = s PROVE FALSE
      BY <1>2 DEF Stack!Contains
    <3>1. used[ord[i]] = 0
      BY <1>0, <1>1, <1>2 DEF Order, IdleFirst
    <3> QED BY <1>7, <3>1 DEF mpool_put
  <2>7. got' = got /\ s \in 1 .. slab_num
    BY <1>0, <1>7 DEF mpool_put
  <2>8. Stack!Put(s)
    BY <1>0, <2>5, <2>6, <2>7 DEF Stack!Put
  <2> QED BY <2>7, <2>8 DEF Stack!Next
<1>8. CASE UNCHANGED vars
  <2>1. Idle' = Idle /\ got' = got
    BY <1>3, <1>8 DEF vars, list
  <2> QED BY <1>0, <2>1 DEF Stack!vars
<1> QED BY <1>4, <1>5, <1>6, <1>7, <1>8 DEF Next, mpool_get

\* The linked list of a pool of any size implements a stack: a get hands out the slab that
\* was put last and fails only when the stack is empty, and no put is lost.
THEOREM PoolIsStack == Spec => StackSpec
<1>1. PoolInv /\ PoolInv' /\ [Next]_vars => [Stack!Next]_(Stack!vars)
  BY StackStep
<1> QED BY <1>1, StackInit, InitPool, NextPool, PTL DEF Spec, StackSpec, Stack!Spec
=============================================================================
