------------------------------- MODULE Ringq -------------------------------
(***************************************************************************)
(* The ring queue of ebot.c: a circular byte buffer that holds items, each *)
(* preceded by its length.  Indexes wrap modulo size, but the length       *)
(* header is always written in one piece at tail, so it may run into the   *)
(* sizeof(ring_item) spare bytes past the end of the ring; the payload is  *)
(* then continued where a wrapped header would have ended.                 *)
(*                                                                         *)
(* Every queue of the program is used with one item size (pack_data in the *)
(* server), which both push and pop pass; it is fixed when the queue is    *)
(* made.  Each call runs under the queue's mutex, so it is one step.       *)
(***************************************************************************)
EXTENDS Integers, Sequences

CONSTANTS Sizes,      \* arguments of ringq_new: capacities in bytes
          ItemSizes,  \* sizes of the items a queue is used with
          Byte        \* values of the payload bytes

INT_MAX == 2147483647
Octet == 0 .. 255

ASSUME RingqAssumption ==
  /\ Sizes \subseteq Nat
  /\ ItemSizes \subseteq 0 .. INT_MAX
  /\ Byte \subseteq Octet

VARIABLES head, tail, size, num,  \* the fields of struct ringq
          mem,                    \* rq->mem: size ring bytes and the spare ones
          item_size,              \* the size both sides pass
          ret,                    \* what the last call returned
          out                     \* the caller's buffer after a successful pop

vars == <<head, tail, size, num, mem, item_size, ret, out>>

lsz == 4  \* sizeof(unit->length), and sizeof(ring_item)

Addr == 0 .. size + lsz - 1

\* The bytes of an int as the machine stores it, low byte first.
IntBytes(n) == << n % 256, (n \div 256) % 256, (n \div 65536) % 256, n \div 16777216 >>

\* The int stored at address a.
IntAt(m, a) == m[a] + 256 * m[a + 1] + 65536 * m[a + 2] + 16777216 * m[a + 3]

\* memcpy of the bytes b to address a.
Store(m, a, b) ==
  [x \in DOMAIN m |-> IF x \in a .. a + Len(b) - 1 THEN b[x - a + 1] ELSE m[x]]

\* memcpy of n bytes from address a.
Load(m, a, n) == [i \in 1 .. n |-> m[a + i - 1]]

Items == [1 .. item_size -> Byte]

msize == lsz + item_size
-----------------------------------------------------------------------------
\* ringq_new(s, 1): one allocation, zeroed; one byte more than the capacity
\* tells a full ring from an empty one.
ringq_new(s) ==
  /\ size = s + 1
  /\ head = 0 /\ tail = 0 /\ num = 0
  /\ mem = [a \in 0 .. s + lsz |-> 0]

Init ==
  /\ \E s \in Sizes : ringq_new(s)
  /\ item_size \in ItemSizes
  /\ ret = 0 /\ out = <<>>

ringq_empty == tail = head

ringq_full == (tail + 1) % size = head

\* Mutant: the byte that keeps full apart from empty is given away.
PushRoomAll == IF head <= tail THEN size - (tail - head) ELSE head - tail

\* Mutant: one byte more than that is kept free.
PushRoomLess == IF head <= tail THEN size - (tail - head) - 2 ELSE head - tail - 2

PushRoom == IF head <= tail THEN size - (tail - head) - 1 ELSE head - tail - 1

\* The item goes in one piece: the free space does not wrap, or its end is not reached.
PushStraight ==
  IF head <= tail THEN msize < size - tail ELSE TRUE

\* Mutant: the branch for head > tail does not write the length.
LengthSometimes == IF head <= tail THEN Store(mem, tail, IntBytes(item_size)) ELSE mem

\* unit->length = item_size, in one piece, into the spare bytes if need be.
Length == Store(mem, tail, IntBytes(item_size))

\* Where the payload of a pushed item goes, and the new tail.
PushItem(item) ==
  LET m == size - tail
  IN  CASE PushStraight ->
             /\ mem' = Store(Length, tail + lsz, item)
             /\ tail' = (tail + msize) % size
        [] ~PushStraight /\ lsz < m ->
             LET t == (tail + m) % size
             IN  /\ mem' = Store(Store(Length, tail + lsz, SubSeq(item, 1, m - lsz)),
                                 t, SubSeq(item, m - lsz + 1, item_size))
                 /\ tail' = (t + item_size - (m - lsz)) % size
        [] ~PushStraight /\ lsz >= m ->
             LET t == (tail + lsz) % size
             IN  /\ mem' = Store(Length, t, item)
                 /\ tail' = (t + item_size) % size

ringq_push(item) ==
  /\ IF ringq_full \/ PushRoom < msize
       THEN ret' = -1 /\ UNCHANGED <<mem, tail, num>>
       ELSE PushItem(item) /\ num' = num + 1 /\ ret' = 0
  /\ UNCHANGED <<head, size, item_size, out>>

\* Mutant: the 1 that push subtracts is subtracted here too.
PopAvailLessOne == IF tail <= head THEN size - (head - tail) - 1 ELSE tail - head

PopAvail == IF tail <= head THEN size - (head - tail) ELSE tail - head

length == IntAt(mem, head)

PopStraight ==
  IF tail <= head THEN length + lsz < size - head ELSE TRUE

\* The copy to the caller's buffer, and the new head.
PopItem ==
  LET m == size - head
  IN  CASE PopStraight ->
             /\ out' = Load(mem, head + lsz, item_size)
             /\ head' = (head + length + lsz) % size
        [] ~PopStraight /\ lsz < m ->
             LET h == (head + m) % size
             IN  /\ out' = Load(mem, head + lsz, m - lsz)
                             \o Load(mem, h, length - (m - lsz))
                 /\ head' = (h + length - (m - lsz)) % size
        [] ~PopStraight /\ lsz >= m ->
             LET h == (head + lsz) % size
             IN  /\ out' = Load(mem, h, item_size)
                 /\ head' = (h + length) % size

\* Mutant: the count goes down before the queue is found empty.
ringq_popCountsFirst ==
  /\ num' = num - 1
  /\ CASE ringq_empty -> ret' = -1 /\ UNCHANGED <<head, out>>
       [] ~ringq_empty /\ PopAvail < length + lsz -> ret' = 1 /\ UNCHANGED <<head, out>>
       [] ~ringq_empty /\ PopAvail >= length + lsz -> PopItem /\ ret' = 0
  /\ UNCHANGED <<tail, size, mem, item_size>>

\* "ringq out of size" in a pop is err_exit: the process ends (ret = 1).
ringq_pop ==
  /\ CASE ringq_empty -> ret' = -1 /\ UNCHANGED <<head, num, out>>
       [] ~ringq_empty /\ PopAvail < length + lsz ->
            ret' = 1 /\ UNCHANGED <<head, num, out>>
       [] ~ringq_empty /\ PopAvail >= length + lsz ->
            PopItem /\ num' = num - 1 /\ ret' = 0
  /\ UNCHANGED <<tail, size, mem, item_size>>

Running == ret # 1

Next == Running /\ ((\E item \in Items : ringq_push(item)) \/ ringq_pop)

Spec == Init /\ [][Next]_vars
-----------------------------------------------------------------------------
\* Type invariant.
TypeOK ==
  /\ size \in Nat \ {0}
  /\ head \in 0 .. size - 1
  /\ tail \in 0 .. size - 1
  /\ num \in Nat
  /\ item_size \in ItemSizes
  /\ mem \in [Addr -> Octet]
  /\ ret \in {-1, 0, 1}
  /\ out \in Seq(Octet)

\* Where the i-th queued item starts, counting from 0.
ItemPos(i) == (head + i * msize) % size

\* The head and tail indexes and the item count, three fields that push and pop
\* update independently, always agree: the queued items fill exactly the bytes
\* from head to tail, and never the byte that keeps full apart from empty.
Accounting ==
  /\ num * msize <= size - 1
  /\ tail = ItemPos(num)

\* Every queued item still starts with its own length, wherever it lies in the
\* ring: no later push has run over a header, not even one in the spare bytes.
HeadersIntact == \A i \in 0 .. num - 1 : IntAt(mem, ItemPos(i)) = item_size

\* A pop never finds an item longer than the bytes in the queue: the err_exit in
\* ringq_pop, which ends the whole server, is never reached.
NeverExits == ret # 1

\* The payload of the item that starts at address a, as it lies in the ring.
ItemAt(a) == [j \in 1 .. item_size |-> mem[(a + lsz + j - 1) % size]]

Contents == [i \in 1 .. num |-> ItemAt(ItemPos(i - 1))]

Queue == INSTANCE Fifo WITH hdr <- lsz, cap <- size - 1, len <- item_size, q <- Contents

\* The ring of bytes implements the queue of items: pushed items come out whole,
\* once and in order, and an item is refused only when it does not fit.
FifoSpec == Queue!Spec
=============================================================================
