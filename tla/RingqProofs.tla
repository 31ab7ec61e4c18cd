---------------------------- MODULE RingqProofs ----------------------------
(***************************************************************************)
(* Proofs about the ring queue, for every capacity and every item size:    *)
(* the indexes and the count agree, no push runs over a queued item, a pop *)
(* never exits, and the bytes implement the queue of items of Fifo.        *)
(***************************************************************************)
EXTENDS Ringq, SequenceTheorems, TLAPS

IInv == TypeOK /\ Accounting /\ HeadersIntact /\ NeverExits
-----------------------------------------------------------------------------
(* Arithmetic. *)

LEMMA ModWrap ==
  ASSUME NEW n \in Nat \ {0}, NEW a \in 0 .. 2 * n - 1
  PROVE  a % n = IF a < n THEN a ELSE a - n
  BY SMT

LEMMA TimesMonotone ==
  ASSUME NEW i \in Nat, NEW j \in Nat, NEW m \in Nat, i <= j
  PROVE  i * m \in Nat /\ i * m <= j * m
<1>1. (j - i) * m >= 0 /\ j * m - i * m = (j - i) * m
  BY SMT
<1>2. i * m \in Nat /\ j * m \in Nat
  BY SMT
<1> QED BY <1>1, <1>2, SMT

LEMMA Digit ==
  ASSUME NEW n \in Nat
  PROVE  n \div 256 \in Nat /\ n % 256 \in 0 .. 255 /\ n = (n % 256) + 256 * (n \div 256)
  BY SMT

LEMMA HigherDigits ==
  ASSUME NEW n \in Nat
  PROVE  /\ n \div 65536 = (n \div 256) \div 256
         /\ n \div 16777216 = ((n \div 256) \div 256) \div 256
<1>1. n \div 65536 = (n \div 256) \div 256
  BY SMT
<1>2. n \div 16777216 = (n \div 65536) \div 256
  BY SMT
<1> QED BY <1>1, <1>2, SMT

\* An int that is stored and loaded again is the same.
LEMMA IntRoundTrip ==
  ASSUME NEW n \in Nat, n <= INT_MAX
  PROVE  /\ IntBytes(n) \in [1 .. 4 -> Octet]
         /\ Len(IntBytes(n)) = 4
         /\ IntBytes(n)[1] + 256 * IntBytes(n)[2] + 65536 * IntBytes(n)[3]
              + 16777216 * IntBytes(n)[4] = n
<1>0. PICK q1 \in Nat, r0 \in 0 .. 255 :
        q1 = n \div 256 /\ r0 = n % 256 /\ n = r0 + 256 * q1
  BY Digit, SMT
<1>1. PICK q2 \in Nat, r1 \in 0 .. 255 :
        q2 = q1 \div 256 /\ r1 = q1 % 256 /\ q1 = r1 + 256 * q2
  BY Digit, SMT
<1>a. PICK q3 \in Nat, r2 \in 0 .. 255 :
        q3 = q2 \div 256 /\ r2 = q2 % 256 /\ q2 = r2 + 256 * q3
  BY Digit, SMT
<1>2. q3 \in 0 .. 255 /\ r0 + 256 * r1 + 65536 * r2 + 16777216 * q3 = n
  BY <1>0, <1>1, <1>a, SMT DEF INT_MAX
<1>3. n \div 65536 = q2 /\ n \div 16777216 = q3
  BY <1>0, <1>1, <1>a, HigherDigits, SMT
<1>4. IntBytes(n) = << r0, r1, r2, q3 >>
  BY <1>0, <1>1, <1>a, <1>3, SMT DEF IntBytes
<1>5. r0 \in Octet /\ r1 \in Octet /\ r2 \in Octet /\ q3 \in Octet
  BY <1>2 DEF Octet
<1> QED BY <1>2, <1>4, <1>5, SMT

\* The memory r is m, of domain D, with the n bytes b copied to address a.
StoredAs(r, D, m, a, n, b) ==
  /\ r \in [D -> Octet]
  /\ \A i \in 1 .. n : a + i - 1 \in D => r[a + i - 1] = b[i]
  /\ \A x \in D : x \notin a .. a + n - 1 => r[x] = m[x]

\* memcpy changes the bytes it is given and no others.
LEMMA StoreProperties ==
  ASSUME NEW D \in SUBSET Int, NEW m \in [D -> Octet], NEW a \in Int, NEW n \in Nat,
         NEW b \in [1 .. n -> Octet]
  PROVE  StoredAs(Store(m, a, b), D, m, a, n, b)
<1>1. Len(b) = n /\ DOMAIN m = D
  BY SMT
<1>2. Store(m, a, b) = [x \in D |-> IF x \in a .. a + n - 1 THEN b[x - a + 1] ELSE m[x]]
  BY <1>1, SMT DEF Store
<1>3. \A i \in 1 .. n : a + i - 1 \in a .. a + n - 1 /\ a + i - 1 - a + 1 = i
  BY SMT
<1>4. \A x \in a .. a + n - 1 : x - a + 1 \in 1 .. n
  BY SMT
<1> QED BY <1>2, <1>3, <1>4, SMT DEF StoredAs

-----------------------------------------------------------------------------
(* Positions in the ring. *)

\* The address of the ring byte a, for an a that is at most one turn ahead.
Wrap(a) == IF a < size THEN a ELSE a - size

LEMMA Fields ==
  ASSUME TypeOK
  PROVE  /\ size \in Nat \ {0} /\ num \in Nat
         /\ head \in 0 .. size - 1 /\ tail \in 0 .. size - 1
         /\ item_size \in Nat /\ item_size <= INT_MAX
         /\ msize \in Nat /\ msize = 4 + item_size /\ lsz = 4
<1>1. item_size \in ItemSizes
  BY SMT DEF TypeOK
<1>b. INT_MAX \in Nat
  BY SMT DEF INT_MAX
<1>2. item_size \in Nat /\ item_size <= INT_MAX
  BY <1>1, <1>b, RingqAssumption, SMT
<1>3. size \in Nat \ {0} /\ num \in Nat /\ head \in 0 .. size - 1 /\ tail \in 0 .. size - 1
  BY SMT DEF TypeOK
<1> QED BY <1>2, <1>3, SMT DEF msize, lsz

\* The offset of the i-th item from the head, and the offset behind it.
LEMMA Offsets ==
  ASSUME TypeOK, NEW i \in Nat
  PROVE  /\ i * msize \in Nat
         /\ (i + 1) * msize = i * msize + msize
         /\ i = 0 <=> i * msize = 0
<1>1. msize \in Nat /\ msize >= 4
  BY Fields, SMT
<1>2. i * msize \in Nat /\ (i + 1) * msize = i * msize + msize
  BY <1>1, SMT
<1>3. i >= 1 => i * msize >= 1
  BY <1>1, TimesMonotone, SMT
<1> QED BY <1>1, <1>2, <1>3, SMT

LEMMA WrapMod ==
  ASSUME size \in Nat \ {0}
  PROVE  \A a \in 0 .. 2 * size - 1 : a % size = Wrap(a)
<1>1. \A a \in 0 .. 2 * size - 1 : a % size = IF a < size THEN a ELSE a - size
  BY ModWrap
<1> QED BY <1>1, SMT DEF Wrap

LEMMA ItemPosWrap ==
  ASSUME TypeOK, NEW i \in Nat, i * msize <= size - 1
  PROVE  ItemPos(i) = Wrap(head + i * msize) /\ ItemPos(i) \in 0 .. size - 1
<1>1. i * msize \in Nat
  BY Offsets
<1>2. size \in Nat \ {0} /\ head \in 0 .. size - 1
  BY Fields
<1>3. head + i * msize \in 0 .. 2 * size - 1
  BY <1>1, <1>2, SMT
<1>a. (head + i * msize) % size = Wrap(head + i * msize)
  BY <1>2, <1>3, WrapMod
<1>4. ItemPos(i) = Wrap(head + i * msize)
  BY <1>a DEF ItemPos
<1> QED BY <1>1, <1>2, <1>4, SMT DEF Wrap

\* What the code computes from head and tail is what the count says.
LEMMA Room ==
  ASSUME TypeOK, Accounting
  PROVE  /\ num * msize \in 0 .. size - 1
         /\ tail = Wrap(head + num * msize)
         /\ PushRoom = size - 1 - num * msize
         /\ ringq_full <=> num * msize = size - 1
         /\ ringq_empty <=> num = 0
         /\ num # 0 => PopAvail = num * msize
<1>0. /\ size \in Nat \ {0} /\ num \in Nat
      /\ head \in 0 .. size - 1 /\ tail \in 0 .. size - 1
  BY Fields
<1>1. num * msize \in 0 .. size - 1 /\ (num = 0 <=> num * msize = 0)
  BY <1>0, Offsets, SMT DEF Accounting
<1>2. tail = Wrap(head + num * msize)
  BY <1>0, ItemPosWrap DEF Accounting
<1>3. tail + 1 \in 0 .. 2 * size - 1
  BY <1>0, SMT
<1>4. (tail + 1) % size = Wrap(tail + 1)
  BY <1>0, <1>3, WrapMod
<1> QED BY <1>0, <1>1, <1>2, <1>4, SMT DEF Wrap, PushRoom, PopAvail, ringq_full, ringq_empty

\* Two items whose starts are at least an item apart on both ways round share no byte.
LEMMA Apart ==
  ASSUME NEW s \in Nat, NEW n \in Nat, NEW p \in 0 .. s - 1, NEW d \in Nat, NEW t \in Int,
         4 + n <= d, d <= s - 1 - (4 + n), t = IF p + d < s THEN p + d ELSE p + d - s
  PROVE  /\ \A k \in 0 .. 3, l \in 0 .. 3 : p + k # t + l
         /\ \A k \in 0 .. 3, j \in 1 .. n :
              p + k # (IF t + 3 + j < s THEN t + 3 + j ELSE t + 3 + j - s)
         /\ \A k \in 0 .. 3, j \in 1 .. n :
              (IF p + 3 + j < s THEN p + 3 + j ELSE p + 3 + j - s) # t + k
         /\ \A i \in 1 .. n, j \in 1 .. n :
              (IF p + 3 + i < s THEN p + 3 + i ELSE p + 3 + i - s)
                # (IF t + 3 + j < s THEN t + 3 + j ELSE t + 3 + j - s)
  BY SMT

-----------------------------------------------------------------------------
(* Sequences given as functions. *)

LEMMA FunctionIsSeq ==
  ASSUME NEW S, NEW n \in Nat, NEW f \in [1 .. n -> S]
  PROVE  f \in Seq(S) /\ Len(f) = n
  BY SMT

\* The sequence r is the part a .. b of the sequence f over S.
PieceOf(r, S, f, a, b) ==
  /\ r \in [1 .. b - a + 1 -> S]
  /\ \A i \in 1 .. b - a + 1 : r[i] = f[a + i - 1]

LEMMA Piece ==
  ASSUME NEW S, NEW n \in Nat, NEW f \in [1 .. n -> S],
         NEW a \in 1 .. n + 1, NEW b \in a - 1 .. n
  PROVE  PieceOf(SubSeq(f, a, b), S, f, a, b)
<1>1. \A i \in a .. b : f[i] \in S
  BY SMT
<1>2. /\ SubSeq(f, a, b) \in Seq(S)
      /\ Len(SubSeq(f, a, b)) = IF a <= b THEN b - a + 1 ELSE 0
      /\ \A i \in 1 .. b - a + 1 : SubSeq(f, a, b)[i] = f[a + i - 1]
  BY <1>1, SubSeqProperties, SMT
<1>3. Len(SubSeq(f, a, b)) = b - a + 1
  BY <1>2, SMT
<1>4. SubSeq(f, a, b) \in [1 .. Len(SubSeq(f, a, b)) -> S]
  BY <1>2, LenProperties
<1> QED BY <1>2, <1>3, <1>4 DEF PieceOf
-----------------------------------------------------------------------------
(* What a successful push does. *)

Header(a) == a .. a + 3

LEMMA LengthPlaces ==
  ASSUME TypeOK
  PROVE  /\ Length \in [Addr -> Octet]
         /\ \A k \in 0 .. 3 : tail + k \in Addr /\ Length[tail + k] = IntBytes(item_size)[k + 1]
         /\ \A x \in Addr : x \notin Header(tail) => Length[x] = mem[x]
<1>1. /\ IntBytes(item_size) \in [1 .. 4 -> Octet]
      /\ Len(IntBytes(item_size)) = 4
  BY Fields, IntRoundTrip
<1>2. Addr \in SUBSET Int /\ mem \in [Addr -> Octet] /\ tail \in Int
  BY Fields, SMT DEF TypeOK, Addr
<1>3. /\ Length \in [Addr -> Octet]
      /\ \A i \in 1 .. 4 : tail + i - 1 \in Addr => Length[tail + i - 1] = IntBytes(item_size)[i]
      /\ \A x \in Addr : x \notin tail .. tail + 4 - 1 => Length[x] = mem[x]
  <2>1. StoredAs(Store(mem, tail, IntBytes(item_size)), Addr, mem, tail, 4, IntBytes(item_size))
    BY <1>1, <1>2, StoreProperties, 4 \in Nat
  <2> QED BY <2>1 DEF Length, StoredAs
<1>4. \A k \in 0 .. 3 : tail + k \in Addr /\ k + 1 \in 1 .. 4 /\ tail + (k + 1) - 1 = tail + k
  BY Fields, SMT DEF Addr
<1>5. \A k \in 0 .. 3 : Length[tail + k] = IntBytes(item_size)[k + 1]
  BY <1>3, <1>4, Zenon
<1>6. tail + 4 - 1 = tail + 3
  BY Fields, SMT
<1> QED BY <1>3, <1>4, <1>5, <1>6 DEF Header

LEMMA PushPlaces ==
  ASSUME TypeOK, Accounting, NEW item \in [1 .. item_size -> Octet],
         num * msize + msize <= size - 1, PushItem(item)
  PROVE  /\ tail' = Wrap(tail + msize)
         /\ mem' \in [Addr -> Octet]
         /\ \A k \in 0 .. 3 : mem'[tail + k] = IntBytes(item_size)[k + 1]
         /\ \A j \in 1 .. item_size : mem'[Wrap(tail + 3 + j)] = item[j]
         /\ \A x \in Addr :
              /\ x \notin Header(tail)
              /\ \A j \in 1 .. item_size : x # Wrap(tail + 3 + j)
              => mem'[x] = mem[x]
<1> DEFINE H == Length
           n == item_size
<1>1. /\ size \in Nat \ {0} /\ num \in Nat
      /\ head \in 0 .. size - 1 /\ tail \in 0 .. size - 1
      /\ n \in Nat /\ msize = 4 + n /\ lsz = 4
  BY Fields
<1>2. /\ tail + msize < size \/ (head <= tail /\ tail + msize - size < head)
      /\ head > tail => tail + msize < head
  BY <1>1, Room, SMT DEF Wrap
<1>3. /\ H \in [Addr -> Octet]
      /\ \A k \in 0 .. 3 : tail + k \in Addr /\ H[tail + k] = IntBytes(item_size)[k + 1]
      /\ \A x \in Addr : x \notin Header(tail) => H[x] = mem[x]
  BY LengthPlaces
<1>4. Addr \in SUBSET Int /\ Addr = 0 .. size + 3
  BY <1>1, SMT DEF Addr
<1>5. item \in [1 .. n -> Octet]
  OBVIOUS
<1>6. \A a \in 0 .. 2 * size - 1 : a % size = Wrap(a)
  BY <1>1, WrapMod
<1> HIDE DEF H, n
<1>7. CASE PushStraight
  <2>1. mem' = Store(H, tail + 4, item) /\ tail' = (tail + msize) % size
    BY <1>7, <1>1 DEF PushItem, H
  <2>2. tail + msize < size
    BY <1>1, <1>2, <1>7, SMT DEF PushStraight
  <2>3. tail + 4 \in Int
    BY <1>1, SMT
  <2>4. StoredAs(mem', Addr, H, tail + 4, n, item)
    BY <1>1, <1>3, <1>4, <1>5, <2>1, <2>3, StoreProperties
  <2>5. tail' = Wrap(tail + msize)
    BY <1>1, <1>6, <2>1, <2>2, SMT
  <2>a. \A k \in 0 .. 3 : tail + k \notin tail + 4 .. tail + 4 + n - 1
    BY <1>1, SMT
  <2>6. \A k \in 0 .. 3 : mem'[tail + k] = IntBytes(item_size)[k + 1]
    BY <1>1, <1>3, <2>4, <2>a DEF StoredAs
  <2>7. \A j \in 1 .. n : /\ Wrap(tail + 3 + j) = tail + 3 + j
                          /\ tail + 3 + j \in Addr
                          /\ tail + 3 + j \in tail + 4 .. tail + 4 + n - 1
                          /\ tail + 3 + j = tail + 4 + j - 1
    BY <1>1, <1>4, <2>2, SMT DEF Wrap
  <2>8. \A j \in 1 .. n : mem'[Wrap(tail + 3 + j)] = item[j]
    BY <2>4, <2>7 DEF StoredAs
  <2>9. ASSUME NEW x \in Addr, x \notin Header(tail), \A j \in 1 .. n : x # Wrap(tail + 3 + j)
        PROVE  mem'[x] = mem[x]
    <3>1. x \notin tail + 4 .. tail + 4 + n - 1
      <4> SUFFICES ASSUME x \in tail + 4 .. tail + 4 + n - 1
                   PROVE  FALSE
        OBVIOUS
      <4>1. x - tail - 3 \in 1 .. n /\ x = tail + 3 + (x - tail - 3)
        BY <1>1, <1>4, SMT
      <4> QED BY <2>7, <2>9, <4>1, Zenon
    <3> QED BY <1>3, <2>4, <2>9, <3>1 DEF StoredAs
  <2> QED BY <2>4, <2>5, <2>6, <2>8, <2>9 DEF n, StoredAs
<1>8. CASE ~PushStraight
  <2>1. head <= tail /\ msize >= size - tail
    BY <1>1, <1>8, SMT DEF PushStraight
  <2>2. tail + msize - size < head
    BY <1>1, <1>2, <2>1, SMT
  <2>3. CASE lsz < size - tail
    <3> DEFINE m == size - tail
               p1 == SubSeq(item, 1, m - 4)
               p2 == SubSeq(item, m - 3, n)
               F == Store(H, tail + 4, p1)
    <3>1. m \in Nat /\ m - 4 \in Nat /\ m - 4 <= n /\ n - (m - 4) \in Nat /\ tail + m = size
      BY <1>1, <2>1, <2>3, SMT
    <3>2. (tail + m) % size = 0
      BY <1>1, <1>6, <3>1, SMT DEF Wrap
    <3>3. /\ mem' = Store(F, 0, p2)
          /\ tail' = (0 + n - (m - 4)) % size
      <4>1. /\ mem' = Store(Store(H, tail + lsz, SubSeq(item, 1, m - lsz)),
                            (tail + m) % size, SubSeq(item, m - lsz + 1, n))
            /\ tail' = (((tail + m) % size) + n - (m - lsz)) % size
        <5>1. ~(lsz >= size - tail)
          BY <1>1, <2>3, SMT
        <5> QED BY <1>8, <2>3, <5>1, Zenon DEF PushItem, H, n
      <4>2. m - lsz + 1 = m - 3
        BY <1>1, <3>1, SMT
      <4> QED BY <1>1, <3>2, <4>1, <4>2
    <3>4. /\ p1 \in [1 .. m - 4 -> Octet]
          /\ \A i \in 1 .. m - 4 : p1[i] = item[i]
      <4>1. m - 4 - 1 + 1 = m - 4 /\ \A i \in 1 .. m - 4 : 1 + i - 1 = i
        BY <3>1, SMT
      <4>2. 1 \in 1 .. n + 1 /\ m - 4 \in 1 - 1 .. n
        BY <1>1, <3>1, SMT
      <4>3. PieceOf(p1, Octet, item, 1, m - 4)
        <5> HIDE DEF m
        <5> QED BY <1>1, <1>5, <4>2, Piece
      <4> HIDE DEF m, p1
      <4> QED BY <4>1, <4>3 DEF PieceOf
    <3>5. /\ p2 \in [1 .. n - (m - 4) -> Octet]
          /\ \A i \in 1 .. n - (m - 4) : p2[i] = item[i + (m - 4)]
      <4>1. /\ n - (m - 3) + 1 = n - (m - 4)
            /\ \A i \in 1 .. n - (m - 4) : m - 3 + i - 1 = i + (m - 4)
        BY <1>1, <3>1, SMT
      <4>2. m - 3 \in 1 .. n + 1 /\ n \in m - 3 - 1 .. n
        BY <1>1, <3>1, SMT
      <4>3. PieceOf(p2, Octet, item, m - 3, n)
        <5> HIDE DEF m
        <5> QED BY <1>1, <1>5, <4>2, Piece
      <4> HIDE DEF m, p2
      <4> QED BY <4>1, <4>3 DEF PieceOf
    <3> HIDE DEF p1, p2, F
    <3>6. StoredAs(F, Addr, H, tail + 4, m - 4, p1)
      <4> tail + 4 \in Int
        BY <1>1, SMT
      <4> QED BY <1>3, <1>4, <3>1, <3>4, StoreProperties DEF F
    <3>7. StoredAs(mem', Addr, F, 0, n - (m - 4), p2)
      <4> 0 \in Int /\ F \in [Addr -> Octet]
        BY <3>6, SMT DEF StoredAs
      <4> QED BY <1>4, <3>1, <3>3, <3>5, StoreProperties
    <3>8. tail' = Wrap(tail + msize)
      BY <1>1, <1>6, <2>2, <2>1, <3>1, <3>3, SMT DEF Wrap
    <3>9. \A k \in 0 .. 3 : mem'[tail + k] = IntBytes(item_size)[k + 1]
      <4>1. \A k \in 0 .. 3 : /\ tail + k \notin tail + 4 .. tail + 4 + (m - 4) - 1
                              /\ tail + k \notin 0 .. 0 + (n - (m - 4)) - 1
        BY <1>1, <2>1, <2>2, <3>1, SMT
      <4> QED BY <1>3, <3>6, <3>7, <4>1 DEF StoredAs
    <3>10. ASSUME NEW j \in 1 .. n
           PROVE  mem'[Wrap(tail + 3 + j)] = item[j] /\ Wrap(tail + 3 + j) \in Addr
                  /\ (j <= m - 4 => Wrap(tail + 3 + j) = tail + 3 + j)
                  /\ (j > m - 4 => Wrap(tail + 3 + j) = j - (m - 4) - 1)
      <4>1. CASE j <= m - 4
        <5>1. /\ Wrap(tail + 3 + j) = tail + 4 + j - 1
              /\ tail + 4 + j - 1 = tail + 3 + j
              /\ tail + 4 + j - 1 \in Addr /\ j \in 1 .. m - 4
              /\ tail + 4 + j - 1 \notin 0 .. 0 + (n - (m - 4)) - 1
          BY <1>1, <1>4, <2>1, <2>2, <3>1, <4>1, SMT DEF Wrap
        <5>2. mem'[tail + 4 + j - 1] = item[j]
          BY <3>4, <3>6, <3>7, <5>1 DEF StoredAs
        <5>3. ~(j > m - 4)
          BY <3>1, <4>1, SMT
        <5> QED BY <5>1, <5>2, <5>3
      <4>2. CASE j > m - 4
        <5> DEFINE i == j - (m - 4)
        <5>1. /\ i \in 1 .. n - (m - 4) /\ i + (m - 4) = j
              /\ Wrap(tail + 3 + j) = 0 + i - 1 /\ 0 + i - 1 \in Addr
              /\ 0 + i - 1 = i - 1
          BY <1>1, <1>4, <2>1, <2>2, <3>1, <4>2, SMT DEF Wrap
        <5> HIDE DEF i
        <5>2. mem'[0 + i - 1] = item[j]
          BY <3>5, <3>7, <5>1 DEF StoredAs
        <5>3. ~(j <= m - 4)
          BY <3>1, <4>2, SMT
        <5> QED BY <5>1, <5>2, <5>3 DEF i
      <4> QED BY <3>1, <4>1, <4>2, SMT
    <3>11. ASSUME NEW x \in Addr, x \notin Header(tail), \A j \in 1 .. n : x # Wrap(tail + 3 + j)
           PROVE  mem'[x] = mem[x]
      <4>1. x \notin tail + 4 .. tail + 4 + (m - 4) - 1
        <5> SUFFICES ASSUME x \in tail + 4 .. tail + 4 + (m - 4) - 1
                     PROVE  FALSE
          OBVIOUS
        <5>1. /\ x - tail - 3 \in 1 .. n /\ x = tail + 3 + (x - tail - 3)
              /\ x - tail - 3 <= m - 4
          BY <1>1, <1>4, <3>1, SMT
        <5> QED BY <3>10, <3>11, <5>1, Zenon
      <4>2. x \notin 0 .. 0 + (n - (m - 4)) - 1
        <5> SUFFICES ASSUME x \in 0 .. 0 + (n - (m - 4)) - 1
                     PROVE  FALSE
          OBVIOUS
        <5> DEFINE j == x + 1 + (m - 4)
        <5>1. j \in 1 .. n /\ x = j - (m - 4) - 1 /\ j > m - 4
          BY <1>1, <1>4, <3>1, SMT
        <5> HIDE DEF j, m
        <5> QED BY <3>10, <3>11, <5>1, Zenon
      <4> QED BY <1>3, <3>6, <3>7, <3>11, <4>1, <4>2 DEF StoredAs
    <3> QED BY <3>7, <3>8, <3>9, <3>10, <3>11 DEF n, StoredAs
  <2>4. CASE lsz >= size - tail
    <3> DEFINE t == tail + 4 - size
    <3>a. t \in Nat /\ t + n < head /\ tail + msize = size + (t + n)
      BY <1>1, <2>1, <2>2, <2>4, SMT
    <3>b. tail + 4 \in 0 .. 2 * size - 1 /\ Wrap(tail + 4) = t
      BY <1>1, <2>4, <3>a, SMT DEF Wrap
    <3>1. t \in Nat /\ t + n < head /\ (tail + 4) % size = t /\ tail + msize = size + (t + n)
      BY <1>6, <3>a, <3>b
    <3>2. /\ mem' = Store(H, t, item)
          /\ tail' = (t + n) % size
      BY <1>1, <1>8, <2>4, <3>1 DEF PushItem, H, n
    <3> HIDE DEF t
    <3>3. StoredAs(mem', Addr, H, t, n, item)
      BY <1>1, <1>3, <1>4, <1>5, <3>1, <3>2, t \in Int, StoreProperties
    <3>4. tail' = Wrap(tail + msize)
      BY <1>1, <1>6, <3>1, <3>2, SMT DEF Wrap
    <3>5. \A k \in 0 .. 3 : tail + k \notin t .. t + n - 1
      BY <1>1, <2>1, <3>1, SMT
    <3>6. \A k \in 0 .. 3 : mem'[tail + k] = IntBytes(item_size)[k + 1]
      BY <1>3, <3>3, <3>5 DEF StoredAs
    <3>7. \A j \in 1 .. n : Wrap(tail + 3 + j) = t + j - 1 /\ t + j - 1 \in Addr
      BY <1>1, <1>4, <2>4, <3>1, SMT DEF Wrap, t
    <3>8. \A j \in 1 .. n : mem'[Wrap(tail + 3 + j)] = item[j]
      BY <3>3, <3>7 DEF StoredAs
    <3>9. ASSUME NEW x \in Addr, x \notin Header(tail), \A j \in 1 .. n : x # Wrap(tail + 3 + j)
          PROVE  mem'[x] = mem[x]
      <4>1. x \notin t .. t + n - 1
        <5> SUFFICES ASSUME x \in t .. t + n - 1
                     PROVE  FALSE
          OBVIOUS
        <5>1. x - t + 1 \in 1 .. n /\ x = t + (x - t + 1) - 1
          BY <1>1, <1>4, <3>1, SMT
        <5> QED BY <3>7, <3>9, <5>1, Zenon
      <4> QED BY <1>3, <3>3, <3>9, <4>1 DEF StoredAs
    <3> QED BY <3>3, <3>4, <3>6, <3>8, <3>9 DEF n, StoredAs
  <2> QED BY <1>1, <2>3, <2>4, SMT
<1> QED BY <1>7, <1>8
-----------------------------------------------------------------------------
(* The items already queued, and the new one. *)

\* The bytes of the queued items are elsewhere.
LEMMA PushKeeps ==
  ASSUME TypeOK, Accounting, NEW item \in [1 .. item_size -> Octet],
         num * msize + msize <= size - 1, PushItem(item), NEW i \in 0 .. num - 1
  PROVE  /\ \A k \in 0 .. 3 : mem'[ItemPos(i) + k] = mem[ItemPos(i) + k]
         /\ \A j \in 1 .. item_size :
              mem'[Wrap(ItemPos(i) + 3 + j)] = mem[Wrap(ItemPos(i) + 3 + j)]
<1> DEFINE p == ItemPos(i)
           d == num * msize - i * msize
<1>1. /\ size \in Nat /\ num \in Nat /\ head \in 0 .. size - 1 /\ tail \in 0 .. size - 1
      /\ item_size \in Nat /\ msize = 4 + item_size
  BY Fields
<1>2. i \in Nat /\ i + 1 \in Nat /\ i + 1 <= num /\ msize \in Nat
  BY <1>1, SMT
<1>3. /\ i * msize \in Nat /\ num * msize \in Nat
      /\ i * msize + msize <= num * msize
  BY <1>1, <1>2, TimesMonotone, Offsets, SMT
<1>4. p = Wrap(head + i * msize) /\ p \in 0 .. size - 1
  BY <1>1, <1>2, <1>3, ItemPosWrap, SMT
<1>5. tail = Wrap(head + num * msize)
  BY Room
<1> HIDE DEF p
<1>6. d \in Nat /\ 4 + item_size <= d /\ d <= size - 1 - (4 + item_size)
  BY <1>1, <1>2, <1>3, SMT
<1>7. tail = IF p + d < size THEN p + d ELSE p + d - size
  BY <1>1, <1>3, <1>4, <1>5, SMT DEF Wrap
<1> HIDE DEF d
<1>8. /\ \A k \in 0 .. 3, l \in 0 .. 3 : p + k # tail + l
      /\ \A k \in 0 .. 3, j \in 1 .. item_size : p + k # Wrap(tail + 3 + j)
      /\ \A k \in 0 .. 3, j \in 1 .. item_size : Wrap(p + 3 + j) # tail + k
      /\ \A l \in 1 .. item_size, j \in 1 .. item_size : Wrap(p + 3 + l) # Wrap(tail + 3 + j)
  BY <1>1, <1>4, <1>6, <1>7, tail \in Int, Apart DEF Wrap
<1>9. /\ \A k \in 0 .. 3 : p + k \in Addr
      /\ \A j \in 1 .. item_size : Wrap(p + 3 + j) \in Addr
  BY <1>1, <1>3, <1>4, SMT DEF Addr, Wrap, lsz
<1>10. \A x \in Addr : /\ \A l \in 0 .. 3 : x # tail + l
                       /\ \A j \in 1 .. item_size : x # Wrap(tail + 3 + j)
                       => mem'[x] = mem[x]
  <2>1. \A x \in Addr : (\A l \in 0 .. 3 : x # tail + l) => x \notin Header(tail)
    <3> SUFFICES ASSUME NEW x \in Addr, x \in Header(tail)
                 PROVE  \E l \in 0 .. 3 : x = tail + l
      OBVIOUS
    <3>1. x - tail \in 0 .. 3 /\ x = tail + (x - tail)
      BY <1>1, SMT DEF Header
    <3> QED BY <3>1
  <2> QED BY <2>1, PushPlaces
<1> QED BY <1>8, <1>9, <1>10 DEF p

LEMMA PushedLength ==
  ASSUME TypeOK, Accounting, NEW item \in [1 .. item_size -> Octet],
         num * msize + msize <= size - 1, PushItem(item)
  PROVE  IntAt(mem', tail) = item_size
<1> DEFINE b == IntBytes(item_size)
<1>1. b[1] + 256 * b[2] + 65536 * b[3] + 16777216 * b[4] = item_size
  BY Fields, IntRoundTrip
<1> HIDE DEF b
<1>2. \A k \in 0 .. 3 : mem'[tail + k] = b[k + 1]
  BY PushPlaces DEF b
<1>3. mem'[tail + 0] = b[0 + 1] /\ mem'[tail + 1] = b[1 + 1] /\ mem'[tail + 2] = b[2 + 1]
      /\ mem'[tail + 3] = b[3 + 1] /\ tail + 0 = tail
  BY <1>2, Fields, SMT
<1> QED BY <1>1, <1>3, SMT DEF IntAt

\* The payload of an item in the memory m, with the wrap spelled out.
BytesAt(m, a) == [j \in 1 .. item_size |-> m[Wrap(a + 3 + j)]]

LEMMA ItemAtWrap ==
  ASSUME TypeOK, msize <= size - 1, NEW m
  PROVE  \A a \in 0 .. size - 1 :
           [j \in 1 .. item_size |-> m[(a + lsz + j - 1) % size]] = BytesAt(m, a)
<1> SUFFICES ASSUME NEW a \in 0 .. size - 1
             PROVE  [j \in 1 .. item_size |-> m[(a + lsz + j - 1) % size]] = BytesAt(m, a)
  OBVIOUS
<1>1. /\ size \in Nat \ {0} /\ item_size \in Nat /\ msize = 4 + item_size /\ lsz = 4
  BY Fields
<1>2. \A j \in 1 .. item_size : /\ a + lsz + j - 1 \in 0 .. 2 * size - 1
                                /\ a + lsz + j - 1 = a + 3 + j
  BY <1>1, SMT
<1>3. \A j \in 1 .. item_size : (a + lsz + j - 1) % size = Wrap(a + 3 + j)
  BY <1>1, <1>2, WrapMod
<1> QED BY <1>3 DEF BytesAt

LEMMA BytesAtType ==
  ASSUME TypeOK, msize <= size - 1, NEW m \in [Addr -> Octet]
  PROVE  \A a \in 0 .. size - 1 : BytesAt(m, a) \in [1 .. item_size -> Octet]
<1>1. /\ size \in Nat \ {0} /\ item_size \in Nat /\ msize = 4 + item_size /\ lsz = 4
  BY Fields
<1>2. \A a \in 0 .. size - 1 : \A j \in 1 .. item_size : Wrap(a + 3 + j) \in Addr
  BY <1>1, SMT DEF Wrap, Addr
<1> QED BY <1>2 DEF BytesAt

\* What the queue holds, item by item.
LEMMA ContentsItems ==
  ASSUME TypeOK, Accounting
  PROVE  /\ Contents \in [1 .. num -> [1 .. item_size -> Octet]]
         /\ Len(Contents) = num
         /\ \A i \in 0 .. num - 1 : i + 1 \in 1 .. num /\ Contents[i + 1] = BytesAt(mem, ItemPos(i))
<1>1. num \in Nat /\ size \in Nat \ {0} /\ msize \in Nat /\ mem \in [Addr -> Octet]
  BY Fields DEF TypeOK
<1>2. ASSUME NEW i \in 0 .. num - 1
      PROVE  /\ ItemPos(i) \in 0 .. size - 1
             /\ ItemAt(ItemPos(i)) = BytesAt(mem, ItemPos(i))
             /\ BytesAt(mem, ItemPos(i)) \in [1 .. item_size -> Octet]
  <2>1. i \in Nat /\ num >= 1 /\ i <= num
    BY <1>1, SMT
  <2>2. i * msize <= size - 1 /\ msize <= size - 1
    <3>1. i * msize <= num * msize /\ 1 * msize <= num * msize
      BY <1>1, <2>1, TimesMonotone, SMT
    <3> QED BY <1>1, <3>1, Offsets, SMT DEF Accounting
  <2>3. ItemPos(i) \in 0 .. size - 1
    BY <2>1, <2>2, ItemPosWrap
  <2> QED BY <1>1, <2>2, <2>3, ItemAtWrap, BytesAtType DEF ItemAt
<1>3. \A i \in 0 .. num - 1 : i + 1 \in 1 .. num /\ i + 1 - 1 = i
  BY <1>1, SMT
<1>4. \A i \in 1 .. num : i - 1 \in 0 .. num - 1
  BY <1>1, SMT
<1> DEFINE at == [i \in 1 .. num |-> ItemPos(i - 1)]
<1>a. /\ \A i \in 1 .. num : at[i] = ItemPos(i - 1) /\ i - 1 \in 0 .. num - 1
      /\ \A i \in 0 .. num - 1 : at[i + 1] = ItemPos(i)
  BY <1>3, <1>4
<1>b. Contents = [i \in 1 .. num |-> ItemAt(at[i])]
  BY DEF Contents
<1> HIDE DEF at
<1>5. Contents \in [1 .. num -> [1 .. item_size -> Octet]]
  <2>1. ASSUME NEW i \in 1 .. num
        PROVE  ItemAt(at[i]) \in [1 .. item_size -> Octet]
    <3>1. PICK l \in 0 .. num - 1 : at[i] = ItemPos(l)
      BY <1>a
    <3>2. ItemAt(ItemPos(l)) \in [1 .. item_size -> Octet]
      BY <1>2, Zenon
    <3> QED BY <3>1, <3>2
  <2> QED BY <1>b, <2>1
<1>6. Len(Contents) = num
  BY <1>1, <1>5, FunctionIsSeq
<1>7. ASSUME NEW i \in 0 .. num - 1
      PROVE  i + 1 \in 1 .. num /\ Contents[i + 1] = BytesAt(mem, ItemPos(i))
  <2>1. i + 1 \in 1 .. num /\ at[i + 1] = ItemPos(i)
    BY <1>3, <1>a
  <2>2. Contents[i + 1] = ItemAt(ItemPos(i))
    BY <1>b, <2>1
  <2> QED BY <1>2, <2>1, <2>2
<1> QED BY <1>5, <1>6, <1>7
-----------------------------------------------------------------------------
(* A push. *)

LEMMA ItemBytes ==
  ASSUME NEW item \in Items
  PROVE  item \in [1 .. item_size -> Octet]
  BY RingqAssumption DEF Items

\* A push is refused exactly when the item does not fit.
LEMMA PushFits ==
  ASSUME TypeOK, Accounting, NEW item \in Items, ringq_push(item)
  PROVE  /\ UNCHANGED <<head, size, item_size, out>>
         /\ num * msize + msize <= size - 1 => PushItem(item) /\ num' = num + 1 /\ ret' = 0
         /\ ~(num * msize + msize <= size - 1) => ret' = -1 /\ UNCHANGED <<mem, tail, num>>
<1>1. /\ size \in Nat \ {0} /\ msize \in Nat /\ msize >= 1 /\ num * msize \in 0 .. size - 1
      /\ PushRoom = size - 1 - num * msize
      /\ ringq_full <=> num * msize = size - 1
  BY Fields, Room, SMT
<1>2. (ringq_full \/ PushRoom < msize) <=> ~(num * msize + msize <= size - 1)
  BY <1>1, SMT
<1> QED BY <1>2 DEF ringq_push

LEMMA PushStep ==
  ASSUME IInv, NEW item \in Items, ringq_push(item)
  PROVE  IInv'
<1> USE DEF IInv
<1>1. /\ size \in Nat \ {0} /\ num \in Nat /\ msize \in Nat
      /\ head \in 0 .. size - 1 /\ tail \in 0 .. size - 1
  BY Fields
<1>2. UNCHANGED <<head, size, item_size, out>>
  BY PushFits
<1>3. CASE ~(num * msize + msize <= size - 1)
  <2>1. ret' = -1 /\ UNCHANGED <<mem, tail, num>>
    BY <1>3, PushFits
  <2>2. TypeOK'
    BY <1>2, <2>1 DEF TypeOK, Addr
  <2> QED BY <1>2, <2>1, <2>2, SMT
          DEF Accounting, HeadersIntact, NeverExits, ItemPos, msize, IntAt
<1>4. CASE num * msize + msize <= size - 1
  <2>1. PushItem(item) /\ num' = num + 1 /\ ret' = 0 /\ item \in [1 .. item_size -> Octet]
    BY <1>4, PushFits, ItemBytes
  <2>2. tail' = Wrap(tail + msize) /\ mem' \in [Addr -> Octet]
    BY <1>4, <2>1, PushPlaces
  <2>3. /\ num + 1 \in Nat
        /\ (num + 1) * msize = num * msize + msize
        /\ tail = Wrap(head + num * msize)
        /\ num * msize \in 0 .. size - 1
        /\ ItemPos(num + 1) = Wrap(head + (num + 1) * msize)
    BY <1>1, <1>4, Offsets, Room, ItemPosWrap
  <2>4. tail' = ItemPos(num + 1) /\ tail' \in 0 .. size - 1
    BY <1>1, <1>4, <2>2, <2>3, SMT DEF Wrap
  <2>5. TypeOK'
    BY <1>1, <1>2, <2>1, <2>2, <2>4 DEF TypeOK, Addr
  <2>6. Accounting'
    BY <1>2, <1>4, <2>1, <2>3, <2>4 DEF Accounting, ItemPos, msize
  <2>7. ASSUME NEW i \in 0 .. num
        PROVE  IntAt(mem', ItemPos(i)) = item_size
    <3>1. CASE i = num
      BY <1>4, <2>1, <3>1, PushedLength DEF Accounting
    <3>2. CASE i # num
      <4>1. i \in 0 .. num - 1
        BY <1>1, <3>2, SMT
      <4> DEFINE p == ItemPos(i)
      <4>2. \A k \in 0 .. 3 : mem'[p + k] = mem[p + k]
        BY <1>4, <2>1, <4>1, PushKeeps
      <4>3. IntAt(mem, p) = item_size
        BY <4>1 DEF HeadersIntact
      <4>4. p \in 0 .. size - 1
        <5>1. i \in Nat /\ i <= num
          BY <1>1, <4>1, SMT
        <5>2. i * msize <= size - 1
          BY <1>1, <2>3, <5>1, TimesMonotone, SMT
        <5> QED BY <5>1, <5>2, ItemPosWrap
      <4> HIDE DEF p
      <4>5. /\ mem'[p + 0] = mem[p + 0] /\ mem'[p + 1] = mem[p + 1] /\ mem'[p + 2] = mem[p + 2]
            /\ mem'[p + 3] = mem[p + 3] /\ p + 0 = p
        BY <1>1, <4>2, <4>4, SMT
      <4>6. IntAt(mem', p) = item_size
        BY <4>3, <4>5 DEF IntAt
      <4> QED BY <4>6 DEF p
    <3> QED BY <3>1, <3>2
  <2>8. HeadersIntact'
    <3>1. num' - 1 = num
      BY <1>1, <2>1, SMT
    <3> QED BY <1>2, <2>7, <3>1 DEF HeadersIntact, ItemPos, msize, IntAt
  <2> QED BY <2>1, <2>5, <2>6, <2>8, SMT DEF NeverExits
<1> QED BY <1>3, <1>4
-----------------------------------------------------------------------------
(* A pop. *)

LEMMA PopFacts ==
  ASSUME IInv, num # 0
  PROVE  /\ length = item_size /\ PopAvail = num * msize
         /\ msize <= num * msize /\ num * msize <= size - 1
         /\ 0 \in 0 .. num - 1 /\ ItemPos(0) = head
<1> USE DEF IInv
<1>1. /\ size \in Nat \ {0} /\ num \in Nat /\ msize \in Nat /\ head \in 0 .. size - 1
  BY Fields
<1>2. num >= 1 /\ 0 \in 0 .. num - 1 /\ 0 \in Nat /\ 1 \in Nat /\ 1 * msize = msize
      /\ head + 0 * msize = head
  BY <1>1, SMT
<1>3. msize <= num * msize
  BY <1>1, <1>2, TimesMonotone, SMT
<1>4. ItemPos(0) = head
  <2>1. head \in 0 .. 2 * size - 1 /\ Wrap(head) = head
    BY <1>1, SMT DEF Wrap
  <2>2. head % size = head
    BY <1>1, <2>1, WrapMod
  <2> QED BY <1>2, <2>2 DEF ItemPos
<1>5. length = item_size
  BY <1>2, <1>4 DEF HeadersIntact, length
<1>6. PopAvail = num * msize /\ num * msize <= size - 1
  BY Room DEF Accounting
<1> QED BY <1>2, <1>3, <1>4, <1>5, <1>6

\* The bytes r are the n bytes of the memory m from address a.
LoadedFrom(r, m, a, n) ==
  /\ r \in [1 .. n -> Octet]
  /\ \A i \in 1 .. n : r[i] = m[a + i - 1]

\* memcpy out of the ring.
LEMMA LoadProperties ==
  ASSUME NEW D \in SUBSET Int, NEW m \in [D -> Octet], NEW a \in Int, NEW n \in Nat,
         a .. a + n - 1 \subseteq D
  PROVE  LoadedFrom(Load(m, a, n), m, a, n)
<1>1. \A i \in 1 .. n : a + i - 1 \in a .. a + n - 1
  BY SMT
<1> QED BY <1>1 DEF Load, LoadedFrom

LEMMA PopPlaces ==
  ASSUME IInv, num # 0, PopItem
  PROVE  /\ head' = Wrap(head + msize)
         /\ out' = BytesAt(mem, head)
         /\ out' \in [1 .. item_size -> Octet]
<1> USE DEF IInv
<1> DEFINE n == item_size
<1>1. /\ size \in Nat \ {0} /\ num \in Nat
      /\ head \in 0 .. size - 1 /\ tail \in 0 .. size - 1
      /\ n \in Nat /\ msize = 4 + n /\ lsz = 4
  BY Fields
<1>2. /\ length = n /\ msize <= num * msize /\ num * msize <= size - 1
  BY PopFacts
<1>3. tail > head => head + msize <= tail
  BY <1>1, <1>2, Room, SMT DEF Wrap
<1>4. Addr \in SUBSET Int /\ Addr = 0 .. size + 3 /\ mem \in [Addr -> Octet]
  BY <1>1, SMT DEF Addr, TypeOK
<1>5. BytesAt(mem, head) \in [1 .. n -> Octet]
  BY <1>1, <1>2, <1>4, msize <= size - 1, BytesAtType
<1>6. \A a \in 0 .. 2 * size - 1 : a % size = Wrap(a)
  BY <1>1, WrapMod
<1>7. \A j \in 1 .. n : BytesAt(mem, head)[j] = mem[Wrap(head + 3 + j)]
  BY DEF BytesAt
<1> HIDE DEF n
<1>8. CASE PopStraight
  <2>1. head + msize < size
    BY <1>1, <1>2, <1>3, <1>8, SMT DEF PopStraight
  <2>2. out' = Load(mem, head + lsz, item_size) /\ head' = (head + length + lsz) % size
    BY <1>8 DEF PopItem
  <2>3. head' = Wrap(head + msize)
    <3>1. head + length + lsz = head + msize /\ head + msize \in 0 .. 2 * size - 1
      BY <1>1, <1>2, <2>1, SMT
    <3> QED BY <1>6, <2>2, <3>1
  <2>4. /\ out' \in [1 .. n -> Octet]
        /\ \A i \in 1 .. n : out'[i] = mem[head + 4 + i - 1]
    <3>1. head + 4 \in Int /\ head + 4 .. head + 4 + n - 1 \subseteq Addr
      BY <1>1, <1>4, <2>1, SMT
    <3>2. LoadedFrom(Load(mem, head + 4, n), mem, head + 4, n)
      BY <1>1, <1>4, <3>1, LoadProperties
    <3>3. out' = Load(mem, head + 4, n)
      BY <1>1, <2>2 DEF n
    <3> QED BY <3>2, <3>3 DEF LoadedFrom
  <2>5. \A i \in 1 .. n : head + 4 + i - 1 = Wrap(head + 3 + i)
    BY <1>1, <2>1, SMT DEF Wrap
  <2>6. out' = BytesAt(mem, head)
    <3>1. out' = [i \in 1 .. n |-> out'[i]]
      BY <2>4
    <3>2. \A i \in 1 .. n : out'[i] = mem[Wrap(head + 3 + i)]
      BY <2>4, <2>5
    <3> QED BY <3>1, <3>2 DEF BytesAt, n
  <2> QED BY <2>3, <2>4, <2>6 DEF n
<1>9. CASE ~PopStraight /\ lsz < size - head
  <2> DEFINE m == size - head
             l1 == Load(mem, head + 4, m - 4)
             l2 == Load(mem, 0, n - (m - 4))
  <2>1. head + msize >= size
    BY <1>1, <1>2, <1>9, SMT DEF PopStraight
  <2>2. /\ m - 4 \in Nat /\ m - 4 <= n /\ n - (m - 4) \in Nat /\ head + m = size
        /\ head + msize = size + (n - (m - 4)) /\ n - (m - 4) < size
    BY <1>1, <1>2, <1>9, <2>1, SMT
  <2>3. (head + m) % size = 0
    BY <1>1, <1>6, <2>2, SMT DEF Wrap
  <2>4. /\ out' = Load(mem, head + lsz, m - lsz)
                    \o Load(mem, (head + m) % size, length - (m - lsz))
        /\ head' = (((head + m) % size) + length - (m - lsz)) % size
    <3>1. ~(lsz >= size - head)
      BY <1>1, <1>9, SMT
    <3> QED BY <1>9, <3>1, Zenon DEF PopItem
  <2>5. out' = l1 \o l2 /\ head' = (0 + n - (m - 4)) % size
    BY <1>1, <1>2, <2>3, <2>4
  <2>6. head' = Wrap(head + msize)
    <3>1. 0 + n - (m - 4) = n - (m - 4) /\ n - (m - 4) \in 0 .. 2 * size - 1
          /\ Wrap(n - (m - 4)) = Wrap(head + msize)
      BY <1>1, <2>2, SMT DEF Wrap
    <3> QED BY <1>6, <2>5, <3>1
  <2>7. /\ l1 \in [1 .. m - 4 -> Octet]
        /\ \A i \in 1 .. m - 4 : l1[i] = mem[head + 4 + i - 1]
    <3>1. head + 4 \in Int /\ head + 4 .. head + 4 + (m - 4) - 1 \subseteq Addr
      BY <1>1, <1>4, <2>2, SMT
    <3>2. LoadedFrom(l1, mem, head + 4, m - 4)
      <4> HIDE DEF m
      <4> QED BY <1>4, <2>2, <3>1, LoadProperties
    <3> QED BY <3>2 DEF LoadedFrom
  <2>8. /\ l2 \in [1 .. n - (m - 4) -> Octet]
        /\ \A i \in 1 .. n - (m - 4) : l2[i] = mem[0 + i - 1]
    <3>1. 0 \in Int /\ 0 .. 0 + (n - (m - 4)) - 1 \subseteq Addr
      BY <1>1, <1>4, <2>2, SMT
    <3>2. LoadedFrom(l2, mem, 0, n - (m - 4))
      <4> HIDE DEF m
      <4> QED BY <1>4, <2>2, <3>1, LoadProperties
    <3> QED BY <3>2 DEF LoadedFrom
  <2> HIDE DEF l1, l2
  <2>9. /\ l1 \in Seq(Octet) /\ Len(l1) = m - 4
        /\ l2 \in Seq(Octet) /\ Len(l2) = n - (m - 4)
    <3> HIDE DEF m
    <3>1. l1 \in Seq(Octet) /\ Len(l1) = m - 4
      BY <2>2, <2>7, FunctionIsSeq
    <3>2. l2 \in Seq(Octet) /\ Len(l2) = n - (m - 4)
      BY <2>2, <2>8, FunctionIsSeq
    <3> QED BY <3>1, <3>2
  <2>10. /\ out' \in Seq(Octet)
         /\ Len(out') = Len(l1) + Len(l2)
         /\ \A i \in 1 .. Len(l1) + Len(l2) :
              out'[i] = IF i <= Len(l1) THEN l1[i] ELSE l2[i - Len(l1)]
    BY <2>5, <2>9, ConcatProperties
  <2>11. Len(l1) + Len(l2) = n
    BY <1>1, <2>2, <2>9, SMT
  <2>12. out' \in [1 .. n -> Octet]
    BY <2>10, <2>11, LenProperties
  <2>13. ASSUME NEW i \in 1 .. n
         PROVE  out'[i] = mem[Wrap(head + 3 + i)]
    <3>1. CASE i <= m - 4
      <4>1. /\ i \in 1 .. m - 4 /\ head + 4 + i - 1 = Wrap(head + 3 + i)
        BY <1>1, <2>2, <3>1, SMT DEF Wrap
      <4> QED BY <2>7, <2>9, <2>10, <2>11, <3>1, <4>1
    <3>2. CASE ~(i <= m - 4)
      <4>1. i - (m - 4) \in 1 .. n - (m - 4) /\ 0 + (i - (m - 4)) - 1 = Wrap(head + 3 + i)
        BY <1>1, <2>2, <3>2, SMT DEF Wrap
      <4>2. out'[i] = l2[i - (m - 4)]
        BY <2>9, <2>10, <2>11, <3>2
      <4> QED BY <2>8, <4>1, <4>2
    <3> QED BY <3>1, <3>2
  <2>14. out' = BytesAt(mem, head)
    <3>1. out' = [i \in 1 .. n |-> out'[i]]
      BY <2>12
    <3>2. \A i \in 1 .. n : out'[i] = mem[Wrap(head + 3 + i)]
      BY <2>12, <2>13
    <3> QED BY <3>1, <3>2 DEF BytesAt, n
  <2> QED BY <2>6, <2>12, <2>14 DEF n
<1>10. CASE ~PopStraight /\ lsz >= size - head
  <2> DEFINE h == head + 4 - size
  <2>1. head + msize >= size
    BY <1>1, <1>2, <1>10, SMT DEF PopStraight
  <2>2. h \in Nat /\ head + msize = size + (h + n) /\ h + n < size
        /\ head + 4 \in 0 .. 2 * size - 1 /\ Wrap(head + 4) = h
    BY <1>1, <1>2, <1>10, <2>1, SMT DEF Wrap
  <2>3. (head + lsz) % size = h
    BY <1>1, <1>6, <2>2
  <2>4. /\ out' = Load(mem, (head + lsz) % size, item_size)
        /\ head' = (((head + lsz) % size) + length) % size
    <3>1. ~(lsz < size - head)
      BY <1>1, <1>10, SMT
    <3> QED BY <1>10, <3>1, Zenon DEF PopItem
  <2>5. out' = Load(mem, h, n) /\ head' = (h + n) % size
    BY <1>2, <2>3, <2>4 DEF n
  <2>6. head' = Wrap(head + msize)
    <3>1. h + n \in 0 .. 2 * size - 1 /\ Wrap(h + n) = Wrap(head + msize)
      BY <1>1, <2>2, SMT DEF Wrap
    <3> QED BY <1>6, <2>5, <3>1
  <2>7. /\ out' \in [1 .. n -> Octet]
        /\ \A i \in 1 .. n : out'[i] = mem[h + i - 1]
    <3>1. h \in Int /\ h .. h + n - 1 \subseteq Addr
      BY <1>1, <1>4, <2>2, SMT
    <3>2. LoadedFrom(Load(mem, h, n), mem, h, n)
      <4> HIDE DEF h
      <4> QED BY <1>1, <1>4, <3>1, LoadProperties
    <3> QED BY <2>5, <3>2 DEF LoadedFrom
  <2>8. \A i \in 1 .. n : h + i - 1 = Wrap(head + 3 + i)
    BY <1>1, <1>10, <2>2, SMT DEF Wrap
  <2>9. out' = BytesAt(mem, head)
    <3>1. out' = [i \in 1 .. n |-> out'[i]]
      BY <2>7
    <3>2. \A i \in 1 .. n : out'[i] = mem[Wrap(head + 3 + i)]
      BY <2>7, <2>8
    <3> QED BY <3>1, <3>2 DEF BytesAt, n
  <2> QED BY <2>6, <2>7, <2>9 DEF n
<1>11. lsz < size - head \/ lsz >= size - head
  BY <1>1, SMT
<1> QED BY <1>8, <1>9, <1>10, <1>11

LEMMA PopFits ==
  ASSUME IInv, ringq_pop
  PROVE  /\ UNCHANGED <<tail, size, mem, item_size>>
         /\ num = 0 => ret' = -1 /\ UNCHANGED <<head, num, out>>
         /\ num # 0 => PopItem /\ num' = num - 1 /\ ret' = 0
<1> USE DEF IInv
<1>1. UNCHANGED <<tail, size, mem, item_size>>
  BY DEF ringq_pop
<1>2. num = 0 => ret' = -1 /\ UNCHANGED <<head, num, out>>
  <2>1. num = 0 => ringq_empty
    BY Room
  <2> QED BY <2>1 DEF ringq_pop
<1>3. ASSUME num # 0
      PROVE  PopItem /\ num' = num - 1 /\ ret' = 0
  <2>1. ~ringq_empty
    BY <1>3, Room
  <2>2. PopAvail >= length + lsz
    BY <1>3, PopFacts, Fields, SMT
  <2>3. ~(PopAvail < length + lsz)
    BY <1>3, PopFacts, Fields, SMT
  <2> QED BY <2>1, <2>2, <2>3, Zenon DEF ringq_pop
<1> QED BY <1>1, <1>2, <1>3

\* Taking out the first item moves every other one up by one place.
LEMMA PopShifts ==
  ASSUME IInv, ringq_pop, num # 0
  PROVE  \A i \in 0 .. num - 1 : ItemPos(i)' = ItemPos(i + 1)
<1> USE DEF IInv
<1> SUFFICES ASSUME NEW i \in 0 .. num - 1
             PROVE  ItemPos(i)' = ItemPos(i + 1)
  OBVIOUS
<1>1. /\ size \in Nat \ {0} /\ num \in Nat /\ msize \in Nat /\ head \in 0 .. size - 1
  BY Fields
<1>2. head' = Wrap(head + msize) /\ size' = size /\ item_size' = item_size
  BY PopFits, PopPlaces
<1>3. i \in Nat /\ i + 1 \in Nat /\ i + 1 <= num
  BY <1>1, SMT
<1>4. /\ i * msize \in Nat /\ (i + 1) * msize = i * msize + msize
      /\ (i + 1) * msize <= num * msize
  BY <1>1, <1>3, Offsets, TimesMonotone
<1>5. i * msize + msize <= size - 1
  BY <1>1, <1>4, Room, SMT
<1>6. ItemPos(i + 1) = Wrap(head + (i * msize + msize))
  BY <1>3, <1>4, <1>5, ItemPosWrap
<1>7. head' \in 0 .. size - 1 /\ head' + i * msize \in 0 .. 2 * size - 1
      /\ Wrap(head' + i * msize) = Wrap(head + (i * msize + msize))
  BY <1>1, <1>2, <1>4, <1>5, SMT DEF Wrap
<1>8. (head' + i * msize) % size = Wrap(head' + i * msize)
  BY <1>1, <1>7, WrapMod
<1>9. ItemPos(i)' = (head' + i * msize) % size
  BY <1>2 DEF ItemPos, msize
<1> QED BY <1>6, <1>7, <1>8, <1>9

LEMMA PopStep ==
  ASSUME IInv, ringq_pop
  PROVE  IInv'
<1> USE DEF IInv
<1>1. /\ size \in Nat \ {0} /\ num \in Nat /\ msize \in Nat /\ head \in 0 .. size - 1
      /\ item_size \in Nat
  BY Fields
<1>2. UNCHANGED <<tail, size, mem, item_size>>
  BY PopFits
<1>3. CASE num = 0
  <2>1. ret' = -1 /\ UNCHANGED <<head, num, out>>
    BY <1>3, PopFits
  <2>2. TypeOK'
    BY <1>2, <2>1 DEF TypeOK, Addr
  <2> QED BY <1>2, <2>1, <2>2, SMT
          DEF Accounting, HeadersIntact, NeverExits, ItemPos, msize, IntAt
<1>4. CASE num # 0
  <2>1. PopItem /\ num' = num - 1 /\ ret' = 0
    BY <1>4, PopFits
  <2>2. head' = Wrap(head + msize) /\ out' \in [1 .. item_size -> Octet]
    BY <1>4, <2>1, PopPlaces
  <2>3. /\ num - 1 \in Nat /\ num - 1 \in 0 .. num - 1 /\ num - 1 + 1 = num
        /\ (num - 1) * msize <= num * msize
        /\ num * msize <= size - 1 /\ msize <= size - 1
        /\ num * msize \in Int /\ (num - 1) * msize \in Int
    <3>1. num - 1 \in Nat /\ num - 1 \in 0 .. num - 1 /\ num - 1 + 1 = num /\ num - 1 <= num
      BY <1>1, <1>4, SMT
    <3>2. num * msize \in Nat /\ num * msize <= size - 1 /\ msize <= size - 1
      BY <1>1, <1>4, PopFacts, Offsets, SMT
    <3> QED BY <1>1, <3>1, <3>2, TimesMonotone, SMT
  <2>4. TypeOK'
    <3>1. head' \in 0 .. size - 1
      BY <1>1, <2>2, <2>3, SMT DEF Wrap
    <3>2. out' \in Seq(Octet)
      BY <1>1, <2>2, FunctionIsSeq
    <3> QED BY <1>2, <2>1, <2>3, <3>1, <3>2 DEF TypeOK, Addr
  <2>5. Accounting'
    <3>a. PICK l \in 0 .. num - 1 : l = num - 1 /\ l + 1 = num
      BY <2>3
    <3>b. ItemPos(l)' = ItemPos(l + 1)
      BY <1>4, PopShifts
    <3>c. ItemPos(l)' = (head' + l * (lsz + item_size)) % size
      BY <1>2 DEF ItemPos, msize
    <3>1. tail = (head' + num' * (lsz + item_size)) % size
      BY <2>1, <3>a, <3>b, <3>c DEF Accounting
    <3>2. (num - 1) * msize <= size - 1
      BY <1>1, <2>3, SMT
    <3> QED BY <1>2, <2>1, <3>1, <3>2 DEF Accounting, ItemPos, msize
  <2>6. HeadersIntact'
    <3> SUFFICES ASSUME NEW i \in 0 .. num - 1 - 1
                 PROVE  IntAt(mem', ItemPos(i)') = item_size
      BY <1>2, <2>1 DEF HeadersIntact, IntAt
    <3>1. i \in 0 .. num - 1 /\ i + 1 \in 0 .. num - 1
      BY <1>1, SMT
    <3>2. ItemPos(i)' = ItemPos(i + 1)
      BY <1>4, <3>1, PopShifts
    <3> QED BY <1>2, <3>1, <3>2 DEF HeadersIntact
  <2> QED BY <2>1, <2>4, <2>5, <2>6, SMT DEF NeverExits
<1> QED BY <1>3, <1>4
-----------------------------------------------------------------------------
(* The invariant. *)

LEMMA InitIInv ==
  ASSUME Init
  PROVE  IInv
<1>1. PICK s \in Sizes : ringq_new(s)
  BY DEF Init
<1>2. s \in Nat /\ item_size \in ItemSizes /\ ret = 0 /\ out = <<>>
  BY RingqAssumption DEF Init
<1>3. /\ size = s + 1 /\ head = 0 /\ tail = 0 /\ num = 0
      /\ mem = [a \in 0 .. s + lsz |-> 0]
  BY <1>1 DEF ringq_new
<1>4. Addr = 0 .. s + lsz /\ 0 \in Octet
  BY <1>2, <1>3, SMT DEF Addr, lsz, Octet
<1>5. TypeOK
  <2>1. mem \in [Addr -> Octet]
    BY <1>3, <1>4
  <2>2. size \in Nat \ {0} /\ head \in 0 .. size - 1 /\ tail \in 0 .. size - 1 /\ num \in Nat
    BY <1>2, <1>3, SMT
  <2>3. out \in Seq(Octet)
    BY <1>2
  <2> QED BY <1>2, <2>1, <2>2, <2>3 DEF TypeOK
<1>6. Accounting
  <2>1. num * msize = 0
    BY <1>3, <1>5, Fields, SMT
  <2>2. (head + num * msize) % size = 0
    BY <1>2, <1>3, <2>1, SMT
  <2> QED BY <1>2, <1>3, <2>1, <2>2, SMT DEF Accounting, ItemPos
<1>7. HeadersIntact
  BY <1>3, SMT DEF HeadersIntact
<1> QED BY <1>2, <1>5, <1>6, <1>7, SMT DEF IInv, NeverExits

LEMMA NextIInv ==
  ASSUME IInv, [Next]_vars
  PROVE  IInv'
<1>1. ASSUME NEW item \in Items, ringq_push(item)
      PROVE  IInv'
  BY <1>1, PushStep
<1>2. CASE ringq_pop
  BY <1>2, PopStep
<1>3. CASE UNCHANGED vars
  BY <1>3, SMT DEF vars, IInv, TypeOK, Accounting, HeadersIntact, NeverExits, ItemPos, msize,
                   IntAt, Addr
<1> QED BY <1>1, <1>2, <1>3 DEF Next

\* The indexes and the count agree, the items in the ring are whole, and a pop
\* never ends the server, whatever the capacity and the length of the items.
LEMMA RingqInvariant == Spec => []IInv
<1>1. Init => IInv
  BY InitIInv
<1>2. IInv /\ [Next]_vars => IInv'
  BY NextIInv
<1> QED BY <1>1, <1>2, PTL DEF Spec

\* Type correctness of Ringq.
THEOREM RingqTypeOK == Spec => []TypeOK
<1>1. IInv => TypeOK
  BY DEF IInv
<1> QED BY <1>1, RingqInvariant, PTL

\* The queued items fill exactly the bytes from head to tail, and never the last free one.
THEOREM RingqAccounting == Spec => []Accounting
<1>1. IInv => Accounting
  BY DEF IInv
<1> QED BY <1>1, RingqInvariant, PTL

\* No push runs over the length of an item that is still queued.
THEOREM RingqHeadersIntact == Spec => []HeadersIntact
<1>1. IInv => HeadersIntact
  BY DEF IInv
<1> QED BY <1>1, RingqInvariant, PTL

\* The err_exit of ringq_pop is never reached.
THEOREM RingqNeverExits == Spec => []NeverExits
<1>1. IInv => NeverExits
  BY DEF IInv
<1> QED BY <1>1, RingqInvariant, PTL
-----------------------------------------------------------------------------
(* The refinement of Fifo. *)

\* What ContentsItems says, as a formula of its own, for the state after a step.
ContentsShape ==
  /\ Contents \in [1 .. num -> [1 .. item_size -> Octet]]
  /\ Len(Contents) = num
  /\ \A i \in 0 .. num - 1 : i + 1 \in 1 .. num /\ Contents[i + 1] = BytesAt(mem, ItemPos(i))

LEMMA ContentsNow == IInv => ContentsShape
  BY ContentsItems DEF IInv, ContentsShape

LEMMA ContentsNext == IInv' => ContentsShape'
  BY ContentsNow, PTL

LEMMA PushImplements ==
  ASSUME IInv, NEW item \in Items, ringq_push(item)
  PROVE  Queue!Push(item)
<1> USE DEF IInv
<1>1. /\ num \in Nat /\ item_size \in Nat /\ msize \in Nat /\ size \in Nat \ {0}
      /\ msize = lsz + item_size
  BY Fields DEF msize
<1>2. /\ UNCHANGED <<head, size, item_size, out>>
      /\ num * msize + msize <= size - 1 => PushItem(item) /\ num' = num + 1 /\ ret' = 0
      /\ ~(num * msize + msize <= size - 1) => ret' = -1 /\ UNCHANGED <<mem, tail, num>>
  BY PushFits
<1>3. ContentsShape /\ ContentsShape'
  BY PushStep, ContentsNow, ContentsNext
<1>4. (Len(Contents) + 1) * (lsz + item_size) = num * msize + msize
  BY <1>1, <1>3, Offsets DEF ContentsShape
<1>5. CASE num * msize + msize <= size - 1
  <2>1. PushItem(item) /\ num' = num + 1 /\ ret' = 0
    BY <1>2, <1>5
  <2> DEFINE c == Append(Contents, item)
             T == [1 .. item_size -> Octet]
  <2>2. Contents \in Seq(T) /\ Len(Contents) = num /\ item \in T
    BY <1>1, <1>3, ItemBytes, FunctionIsSeq DEF ContentsShape
  <2>3. /\ c \in Seq(T) /\ Len(c) = num + 1
        /\ \A i \in 1 .. num : c[i] = Contents[i]
        /\ c[num + 1] = item
    BY <2>2, AppendProperties
  <2>4. Contents' \in Seq(T) /\ Len(Contents') = num + 1
    <3>1. Contents' \in [1 .. num + 1 -> T]
      BY <1>2, <1>3, <2>1 DEF ContentsShape
    <3> QED BY <1>1, <3>1, FunctionIsSeq
  <2>5. ASSUME NEW i \in 0 .. num
        PROVE  Contents'[i + 1] = BytesAt(mem', ItemPos(i))
    <3>1. num' - 1 = num
      BY <1>1, <2>1, SMT
    <3> QED BY <1>2, <1>3, <3>1 DEF ContentsShape, BytesAt, ItemPos, msize, Wrap
  <2>6. ASSUME NEW i \in 0 .. num
        PROVE  Contents'[i + 1] = c[i + 1]
    <3>1. CASE i = num
      <4>1. ItemPos(i) = tail
        BY <3>1 DEF Accounting
      <4>2. BytesAt(mem', tail) = item
        <5>1. \A j \in 1 .. item_size : mem'[Wrap(tail + 3 + j)] = item[j]
          BY <1>5, <2>1, ItemBytes, PushPlaces
        <5>2. item = [j \in 1 .. item_size |-> item[j]]
          BY <2>2
        <5> QED BY <5>1, <5>2 DEF BytesAt
      <4> QED BY <2>3, <2>5, <3>1, <4>1, <4>2
    <3>2. CASE i # num
      <4>1. i \in 0 .. num - 1
        BY <1>1, <3>2, SMT
      <4>2. \A j \in 1 .. item_size :
              mem'[Wrap(ItemPos(i) + 3 + j)] = mem[Wrap(ItemPos(i) + 3 + j)]
        BY <1>5, <2>1, <4>1, ItemBytes, PushKeeps
      <4>3. BytesAt(mem', ItemPos(i)) = BytesAt(mem, ItemPos(i))
        BY <4>2 DEF BytesAt
      <4>4. i + 1 \in 1 .. num /\ Contents[i + 1] = BytesAt(mem, ItemPos(i))
        BY <1>3, <4>1 DEF ContentsShape
      <4> QED BY <2>3, <2>5, <4>3, <4>4
    <3> QED BY <3>1, <3>2
  <2>7. \A i \in 1 .. num + 1 : Contents'[i] = c[i]
    <3>1. \A i \in 1 .. num + 1 : i - 1 \in 0 .. num /\ (i - 1) + 1 = i
      BY <1>1, SMT
    <3> QED BY <2>6, <3>1
  <2>8. Contents' = c
    <3> HIDE DEF c, T
    <3> QED BY <2>3, <2>4, <2>7, SeqEqual
  <2> QED BY <1>2, <1>4, <1>5, <2>1, <2>8 DEF Queue!Push
<1>6. CASE ~(num * msize + msize <= size - 1)
  <2>1. ret' = -1 /\ UNCHANGED <<mem, tail, num>>
    BY <1>2, <1>6
  <2>2. Contents' = Contents
    BY <1>2, <2>1 DEF Contents, ItemAt, ItemPos, msize
  <2> QED BY <1>2, <1>4, <1>6, <2>1, <2>2 DEF Queue!Push
<1> QED BY <1>5, <1>6

LEMMA PopImplements ==
  ASSUME IInv, ringq_pop
  PROVE  Queue!Pop
<1> USE DEF IInv
<1> DEFINE T == [1 .. item_size -> Octet]
<1>1. num \in Nat /\ item_size \in Nat
  BY Fields
<1>2. /\ UNCHANGED <<tail, size, mem, item_size>>
      /\ num = 0 => ret' = -1 /\ UNCHANGED <<head, num, out>>
      /\ num # 0 => PopItem /\ num' = num - 1 /\ ret' = 0
  BY PopFits
<1>3. ContentsShape /\ ContentsShape'
  BY PopStep, ContentsNow, ContentsNext
<1>4. Contents \in Seq(T) /\ Len(Contents) = num
  BY <1>1, <1>3, FunctionIsSeq DEF ContentsShape
<1>5. CASE num = 0
  <2>1. Contents' = Contents
    BY <1>2, <1>5 DEF Contents, ItemAt, ItemPos, msize
  <2>2. Contents = <<>>
    BY <1>4, <1>5, EmptySeq
  <2> QED BY <1>2, <1>5, <2>1, <2>2 DEF Queue!Pop
<1>6. CASE num # 0
  <2>1. PopItem /\ num' = num - 1 /\ ret' = 0
    BY <1>2, <1>6
  <2>2. Contents # <<>>
    BY <1>4, <1>6, EmptySeq
  <2>3. /\ Head(Contents) = Contents[1]
        /\ Tail(Contents) \in Seq(T) /\ Len(Tail(Contents)) = num - 1
        /\ \A i \in 1 .. num - 1 : Tail(Contents)[i] = Contents[i + 1]
    BY <1>4, <2>2, HeadTailProperties
  <2>4. out' = Contents[1]
    <3>1. out' = BytesAt(mem, head)
      BY <1>6, <2>1, PopPlaces
    <3>2. 0 \in 0 .. num - 1 /\ ItemPos(0) = head
      BY <1>6, PopFacts
    <3>3. Contents[0 + 1] = BytesAt(mem, head)
      BY <1>3, <3>2 DEF ContentsShape
    <3> QED BY <3>1, <3>3
  <2>5. Contents' \in Seq(T) /\ Len(Contents') = num - 1
    <3>1. Contents' \in [1 .. num - 1 -> T] /\ num - 1 \in Nat
      BY <1>1, <1>2, <1>3, <1>6, <2>1 DEF ContentsShape
    <3> QED BY <3>1, FunctionIsSeq
  <2>6. ASSUME NEW i \in 1 .. num - 1
        PROVE  Contents'[i] = Contents[i + 1]
    <3>1. PICK l \in 0 .. num - 1 - 1 : i = l + 1
      BY <1>1, SMT
    <3>2. l \in 0 .. num - 1 /\ l + 1 \in 0 .. num - 1
      BY <1>1, SMT
    <3>3. Contents'[l + 1] = BytesAt(mem, ItemPos(l)')
      BY <1>2, <1>3, <2>1 DEF ContentsShape, BytesAt, Wrap
    <3>4. ItemPos(l)' = ItemPos(l + 1)
      BY <1>6, <3>2, PopShifts
    <3>5. Contents[(l + 1) + 1] = BytesAt(mem, ItemPos(l + 1))
      BY <1>3, <3>2 DEF ContentsShape
    <3> QED BY <3>1, <3>3, <3>4, <3>5
  <2>7. Contents' = Tail(Contents)
    <3> HIDE DEF T
    <3> QED BY <2>3, <2>5, <2>6, SeqEqual
  <2> QED BY <1>2, <2>1, <2>2, <2>3, <2>4, <2>7 DEF Queue!Pop
<1> QED BY <1>5, <1>6

\* The ring implements the queue of Fifo: what a push accepts comes out whole,
\* once and in order, and it refuses exactly what does not fit.
THEOREM RingqImplementsFifo == Spec => FifoSpec
<1>1. Init => Queue!Init
  <2> SUFFICES ASSUME Init
               PROVE  Queue!Init
    OBVIOUS
  <2>1. ContentsShape /\ num = 0
    BY InitIInv, ContentsNow DEF Init, ringq_new
  <2>2. Contents = <<>>
    BY <2>1 DEF Contents
  <2> QED BY <2>2 DEF Init, Queue!Init
<1>2. IInv /\ [Next]_vars => [Queue!Next]_(Queue!vars)
  <2> SUFFICES ASSUME IInv, [Next]_vars
               PROVE  [Queue!Next]_(Queue!vars)
    OBVIOUS
  <2>1. ASSUME NEW item \in Items, ringq_push(item)
        PROVE  Queue!Next
    BY <2>1, PushImplements DEF Queue!Next, Queue!Items, Items
  <2>2. CASE ringq_pop
    BY <2>2, PopImplements DEF Queue!Next
  <2>3. CASE UNCHANGED vars
    BY <2>3 DEF vars, Queue!vars, Contents, ItemAt, ItemPos, msize
  <2> QED BY <2>1, <2>2, <2>3 DEF Next
<1> QED BY <1>1, <1>2, RingqInvariant, PTL DEF Spec, FifoSpec, Queue!Spec
=============================================================================
