----------------------------- MODULE LifeProofs -----------------------------
(***************************************************************************)
(* Proofs about the life of a server, for any number of reactors, workers  *)
(* and connections and whatever acquisitions may fail.                     *)
(***************************************************************************)
EXTENDS Life, FiniteSetTheorems, SequenceTheorems, WellFoundedInduction, TLAPS
-----------------------------------------------------------------------------
(* Sequences put together from parts. *)

\* No element of s occurs twice.
Once(s) == \A m, n \in DOMAIN s : s[m] = s[n] => m = n

LEMMA Joining ==
  ASSUME NEW S, NEW a \in Seq(S), NEW b \in Seq(S)
  PROVE  /\ a \o b \in Seq(S) /\ ToSet(a \o b) = ToSet(a) \cup ToSet(b)
         /\ Once(a) /\ Once(b) /\ ToSet(a) \cap ToSet(b) = {} => Once(a \o b)
         /\ \A k \in DOMAIN a : k \in DOMAIN (a \o b) /\ (a \o b)[k] = a[k]
<1> DEFINE s == a \o b
<1>1. /\ s \in Seq(S) /\ DOMAIN s = 1 .. Len(a) + Len(b)
      /\ DOMAIN a = 1 .. Len(a) /\ DOMAIN b = 1 .. Len(b) /\ Len(a) \in Nat /\ Len(b) \in Nat
      /\ \A k \in 1 .. Len(a) : k \in DOMAIN s /\ s[k] = a[k]
      /\ \A k \in 1 .. Len(b) : Len(a) + k \in DOMAIN s /\ s[Len(a) + k] = b[k]
  BY ConcatProperties, LenProperties
<1> HIDE DEF s
<1>2. ASSUME NEW k \in DOMAIN s
      PROVE  \/ k \in DOMAIN a /\ s[k] = a[k]
             \/ k - Len(a) \in DOMAIN b /\ s[k] = b[k - Len(a)]
  <2>1. CASE k <= Len(a)
    BY <1>1, <2>1
  <2>2. CASE k > Len(a)
    <3>1. k - Len(a) \in 1 .. Len(b) /\ Len(a) + (k - Len(a)) = k
      BY <1>1, <2>2
    <3> QED BY <1>1, <3>1
  <2> QED BY <1>1, <2>1, <2>2
<1>3. ToSet(s) = ToSet(a) \cup ToSet(b)
  <2>1. ToSet(s) \subseteq ToSet(a) \cup ToSet(b)
    BY <1>2 DEF ToSet
  <2>2. ToSet(a) \subseteq ToSet(s) /\ ToSet(b) \subseteq ToSet(s)
    BY <1>1 DEF ToSet
  <2> QED BY <2>1, <2>2
<1>4. ASSUME Once(a), Once(b), ToSet(a) \cap ToSet(b) = {}, NEW m \in DOMAIN s, NEW n \in DOMAIN s,
             s[m] = s[n]
      PROVE  m = n
  <2>1. CASE m \in DOMAIN a /\ s[m] = a[m] /\ n \in DOMAIN a /\ s[n] = a[n]
    BY <1>4, <2>1 DEF Once
  <2>2. CASE /\ m - Len(a) \in DOMAIN b /\ s[m] = b[m - Len(a)]
             /\ n - Len(a) \in DOMAIN b /\ s[n] = b[n - Len(a)]
    <3>1. m - Len(a) = n - Len(a)
      BY <1>4, <2>2 DEF Once
    <3> QED BY <1>1, <3>1
  <2>3. ASSUME NEW x \in DOMAIN a, NEW y \in DOMAIN b PROVE a[x] # b[y]
    BY <1>4 DEF ToSet
  <2> QED BY <1>2, <1>4, <2>1, <2>2, <2>3
<1> QED BY <1>1, <1>3, <1>4 DEF Once, s

\* A set of natural numbers that is not empty has a least member.
LEMMA LeastNumber ==
  ASSUME NEW T, T \subseteq Nat, T # {}
  PROVE  \E m \in T : \A n \in T : m <= n
<1> DEFINE R == {ss \in Nat \X Nat : ss[1] < ss[2]}
<1>1. IsWellFoundedOn(R, Nat)
  BY NatLessThanWellFounded DEF OpToRel
<1>2. \E m \in T : \A n \in T : <<n, m>> \notin R
  <2> HIDE DEF R
  <2> QED BY <1>1, WFMin
<1>3. PICK m \in T : \A n \in T : <<n, m>> \notin R
  BY <1>2
<1>4. ASSUME NEW n \in T PROVE m <= n
  <2>1. m \in Nat /\ n \in Nat
    OBVIOUS
  <2>2. <<n, m>> \in Nat \X Nat /\ <<n, m>>[1] = n /\ <<n, m>>[2] = m
    BY <2>1
  <2>3. ~(n < m)
    BY <1>3, <2>2
  <2> QED BY <2>1, <2>3
<1> QED BY <1>4

\* The parts of p up to each place put together.
AddsUp(p, m, f) == f = [x \in 1 .. m |-> IF x = 1 THEN p[x] ELSE f[x - 1] \o p[x]]

LEMMA PartsAddUp ==
  ASSUME NEW p, NEW n \in Nat \ {0}
  PROVE  \E f : AddsUp(p, n, f)
<1> DEFINE T == {m \in Nat \ {0} : ~ \E f : AddsUp(p, m, f)}
<1>1. T = {}
  <2> SUFFICES ASSUME T # {} PROVE FALSE
    OBVIOUS
  <2>1. PICK m \in T : \A k \in T : m <= k
    <3>1. T \subseteq Nat
      OBVIOUS
    <3> HIDE DEF T
    <3> QED BY <3>1, LeastNumber
  <2>2. m \in Nat \ {0} /\ ~ \E f : AddsUp(p, m, f)
    OBVIOUS
  <2>3. CASE m = 1
    <3> DEFINE f == [x \in 1 .. 1 |-> p[x]]
    <3>1. \A x \in 1 .. 1 : x = 1
      OBVIOUS
    <3>2. f = [x \in 1 .. 1 |-> IF x = 1 THEN p[x] ELSE f[x - 1] \o p[x]]
      BY <3>1
    <3> QED BY <2>2, <2>3, <3>2 DEF AddsUp
  <2>4. CASE m # 1
    <3>1. m - 1 \in Nat \ {0} /\ ~(m <= m - 1)
      BY <2>2, <2>4
    <3>2. PICK g : AddsUp(p, m - 1, g)
      BY <2>1, <3>1
    <3> DEFINE f == [x \in 1 .. m |-> IF x = m THEN g[m - 1] \o p[m] ELSE g[x]]
    <3>3. ASSUME NEW x \in 1 .. m
          PROVE  f[x] = IF x = 1 THEN p[x] ELSE f[x - 1] \o p[x]
      <4>1. CASE x = m
        <5>1. m - 1 \in 1 .. m /\ m - 1 # m
          BY <3>1
        <5>2. f[m - 1] = g[m - 1]
          BY <5>1
        <5> QED BY <2>4, <4>1, <5>2
      <4>2. CASE x # m
        <5>1. x \in 1 .. m - 1 /\ (x # 1 => x - 1 \in 1 .. m /\ x - 1 # m)
          BY <3>1, <4>2
        <5>2. g[x] = IF x = 1 THEN p[x] ELSE g[x - 1] \o p[x]
          BY <3>2, <5>1 DEF AddsUp
        <5>3. x # 1 => f[x - 1] = g[x - 1]
          BY <5>1
        <5> QED BY <4>2, <5>2, <5>3
      <4> QED BY <4>1, <4>2
    <3>4. f = [x \in 1 .. m |-> IF x = 1 THEN p[x] ELSE f[x - 1] \o p[x]]
      BY <3>3
    <3> HIDE DEF f
    <3> QED BY <2>2, <3>4 DEF AddsUp
  <2> QED BY <2>3, <2>4
<1> QED BY <1>1

LEMMA Flattened ==
  ASSUME NEW S, NEW n \in Nat \ {0}, NEW p \in [1 .. n -> Seq(S)]
  PROVE  \E f : AddsUp(p, n, f) /\ FlattenSeq(p) = f[n]
<1>1. p \in Seq(Seq(S)) /\ Len(p) = n
  OBVIOUS
<1>2. AddsUp(p, n, CHOOSE f : AddsUp(p, n, f))
  BY PartsAddUp
<1>3. FlattenSeq(p) = (CHOOSE f : AddsUp(p, n, f))[n]
  BY <1>1 DEF FlattenSeq, AddsUp
<1> QED BY <1>2, <1>3

\* Parts that have nothing in common and no element twice give a sequence of all elements
\* that has none twice.
LEMMA Flattening ==
  ASSUME NEW S, NEW n \in Nat \ {0}, NEW p \in [1 .. n -> Seq(S)],
         \A j \in 1 .. n : Once(p[j]),
         \A j, k \in 1 .. n : j # k => ToSet(p[j]) \cap ToSet(p[k]) = {}
  PROVE  /\ FlattenSeq(p) \in Seq(S) /\ Once(FlattenSeq(p))
         /\ ToSet(FlattenSeq(p)) = UNION {ToSet(p[j]) : j \in 1 .. n}
<1>1. PICK f : AddsUp(p, n, f) /\ FlattenSeq(p) = f[n]
  BY Flattened
<1> DEFINE Good(x) == f[x] \in Seq(S) /\ Once(f[x]) /\ ToSet(f[x]) = UNION {ToSet(p[j]) : j \in 1 .. x}
           T == {x \in 1 .. n : ~Good(x)}
<1>2. T = {}
  <2> SUFFICES ASSUME T # {} PROVE FALSE
    OBVIOUS
  <2>1. PICK m \in T : \A k \in T : m <= k
    <3>1. T \subseteq Nat
      OBVIOUS
    <3> HIDE DEF T
    <3> QED BY <3>1, LeastNumber
  <2>2. m \in 1 .. n /\ ~Good(m)
    OBVIOUS
  <2>3. f[m] = IF m = 1 THEN p[m] ELSE f[m - 1] \o p[m]
    BY <1>1, <2>2 DEF AddsUp
  <2>4. CASE m = 1
    <3>1. UNION {ToSet(p[j]) : j \in 1 .. m} = ToSet(p[m])
      BY <2>4
    <3>2. p[m] \in Seq(S) /\ Once(p[m]) /\ f[m] = p[m]
      BY <2>2, <2>3, <2>4
    <3>3. Good(m)
      <4>1. ToSet(f[m]) = UNION {ToSet(p[j]) : j \in 1 .. m}
        BY <3>1, <3>2
      <4> QED BY <3>2, <4>1
    <3> QED BY <2>2, <3>3
  <2>5. CASE m # 1
    <3>1. m - 1 \in 1 .. n /\ ~(m <= m - 1) /\ 1 .. m = (1 .. m - 1) \cup {m}
      BY <2>2, <2>5
    <3>2. Good(m - 1)
      BY <2>1, <3>1
    <3>3. UNION {ToSet(p[j]) : j \in 1 .. m} = ToSet(p[m]) \cup UNION {ToSet(p[j]) : j \in 1 .. m - 1}
      BY <3>1
    <3>4. ASSUME NEW j \in 1 .. m - 1 PROVE ToSet(p[j]) \cap ToSet(p[m]) = {}
      BY <2>2
    <3>5. ToSet(f[m - 1]) \cap ToSet(p[m]) = {}
      BY <3>2, <3>4
    <3>6. p[m] \in Seq(S) /\ Once(p[m])
      BY <2>2
    <3>7. f[m] = f[m - 1] \o p[m]
      BY <2>3, <2>5
    <3>8. /\ f[m] \in Seq(S) /\ Once(f[m])
          /\ ToSet(f[m]) = ToSet(f[m - 1]) \cup ToSet(p[m])
      BY <3>2, <3>5, <3>6, <3>7, Joining
    <3>9. ToSet(f[m]) = UNION {ToSet(p[j]) : j \in 1 .. m}
      BY <3>2, <3>3, <3>8
    <3> QED BY <2>2, <3>8, <3>9
  <2> QED BY <2>4, <2>5
<1>3. Good(n)
  <2> HIDE DEF Good
  <2>1. n \in 1 .. n /\ (~Good(n) => n \in T)
    OBVIOUS
  <2> QED BY <1>2, <2>1
<1> QED BY <1>1, <1>3
-----------------------------------------------------------------------------
(* What is acquired and what is given back. *)

Kinds ==
  {"srv", "event_pool", "base", "epevents", "read_waits", "write_waits", "epfd", "rp",
   "pipe0", "pipe1", "wp", "efd", "rq", "sfd", "stop", "rstop", "rjoin", "ustop", "ujoin"}

Things == Kinds \X Nat

\* The things of the kinds K with a number in N.
Of(K, N) == {x \in Things : x[1] \in K /\ x[2] \in N}

\* s lists the things of A, each once.
Lists(s, A) == s \in Seq(Things) /\ Once(s) /\ ToSet(s) = A

LEMMA Joined ==
  ASSUME NEW a, NEW b, NEW A, NEW B, Lists(a, A), Lists(b, B), A \cap B = {}
  PROVE  Lists(a \o b, A \cup B)
  BY Joining DEF Lists

LEMMA Pairs ==
  /\ \A k \in Kinds, n \in Nat : <<k, n>> \in Things /\ <<k, n>>[1] = k /\ <<k, n>>[2] = n
  /\ \A x \in Things : x[1] \in Kinds /\ x[2] \in Nat /\ x = <<x[1], x[2]>>
  BY DEF Things

LEMMA One ==
  ASSUME NEW a \in Things
  PROVE  Lists(<<a>>, {a})
<1> DEFINE s == <<a>>
<1>1. s \in Seq(Things) /\ DOMAIN s = {1} /\ s[1] = a
  OBVIOUS
<1> HIDE DEF s
<1>2. Lists(s, {a})
  BY <1>1 DEF ToSet, Once, Lists
<1> QED BY <1>2 DEF s

LEMMA Two ==
  ASSUME NEW a \in Things, NEW b \in Things, a # b
  PROVE  Lists(<<a, b>>, {a, b})
<1> DEFINE s == <<a, b>>
<1>1. s \in Seq(Things) /\ DOMAIN s = {1, 2} /\ s[1] = a /\ s[2] = b
  OBVIOUS
<1> HIDE DEF s
<1>2. Lists(s, {a, b})
  BY <1>1 DEF ToSet, Once, Lists
<1> QED BY <1>2 DEF s

LEMMA Four ==
  ASSUME NEW a \in Things, NEW b \in Things, NEW c \in Things, NEW d \in Things,
         a # b, a # c, a # d, b # c, b # d, c # d
  PROVE  Lists(<<a, b, c, d>>, {a, b, c, d})
<1> DEFINE s == <<a, b, c, d>>
<1>1. /\ s \in Seq(Things) /\ DOMAIN s = {1, 2, 3, 4}
      /\ s[1] = a /\ s[2] = b /\ s[3] = c /\ s[4] = d
  OBVIOUS
<1> HIDE DEF s
<1>2. Lists(s, {a, b, c, d})
  BY <1>1 DEF ToSet, Once, Lists
<1> QED BY <1>2 DEF s

LEMMA Five ==
  ASSUME NEW a \in Things, NEW b \in Things, NEW c \in Things, NEW d \in Things, NEW e \in Things,
         a # b, a # c, a # d, a # e, b # c, b # d, b # e, c # d, c # e, d # e
  PROVE  Lists(<<a, b, c, d, e>>, {a, b, c, d, e})
<1> DEFINE s == <<a, b, c, d, e>>
<1>1. /\ s \in Seq(Things) /\ DOMAIN s = {1, 2, 3, 4, 5}
      /\ s[1] = a /\ s[2] = b /\ s[3] = c /\ s[4] = d /\ s[5] = e
  OBVIOUS
<1> HIDE DEF s
<1>2. Lists(s, {a, b, c, d, e})
  BY <1>1 DEF ToSet, Once, Lists
<1> QED BY <1>2 DEF s

\* One part for each number, of the same kinds of things.
LEMMA Spread ==
  ASSUME NEW K, NEW n \in Nat \ {0}, NEW p, p = [r \in 1 .. n |-> p[r]],
         \A r \in 1 .. n : Lists(p[r], Of(K, {r}))
  PROVE  Lists(FlattenSeq(p), Of(K, 1 .. n))
<1>1. ASSUME NEW j \in 1 .. n, NEW k \in 1 .. n, j # k
      PROVE  ToSet(p[j]) \cap ToSet(p[k]) = {}
  BY <1>1 DEF Of, Lists
<1>2. UNION {ToSet(p[r]) : r \in 1 .. n} = Of(K, 1 .. n)
  <2>1. ASSUME NEW x \in Of(K, 1 .. n) PROVE \E r \in 1 .. n : x \in ToSet(p[r])
    BY DEF Of, Lists
  <2>2. ASSUME NEW r \in 1 .. n, NEW x \in ToSet(p[r]) PROVE x \in Of(K, 1 .. n)
    BY DEF Of, Lists
  <2> QED BY <2>1, <2>2
<1>3. \A j, k \in 1 .. n : j # k => ToSet(p[j]) \cap ToSet(p[k]) = {}
  BY <1>1
<1>4. p \in [1 .. n -> Seq(Things)] /\ \A r \in 1 .. n : Once(p[r])
  BY DEF Lists
<1>5. /\ FlattenSeq(p) \in Seq(Things) /\ Once(FlattenSeq(p))
      /\ ToSet(FlattenSeq(p)) = UNION {ToSet(p[r]) : r \in 1 .. n}
  BY <1>3, <1>4, Flattening
<1> QED BY <1>2, <1>5 DEF Lists

BaseParts == {"base", "epevents", "read_waits", "write_waits"}
BaseKinds == BaseParts \cup {"epfd"}

LEMMA BaseThings ==
  ASSUME NEW b \in Nat
  PROVE  /\ Lists(BaseMemory(b), Of(BaseParts, {b}))
         /\ Lists(ebot_new(b), Of(BaseKinds, {b}))
         /\ Lists(ebot_destroy(b), Of(BaseKinds, {b}))
<1> DEFINE m == <<"base", b>>
           e == <<"epevents", b>>
           r == <<"read_waits", b>>
           w == <<"write_waits", b>>
           f == <<"epfd", b>>
           g == <<f>>
<1>1. /\ m \in Things /\ e \in Things /\ r \in Things /\ w \in Things /\ f \in Things
      /\ m[1] = "base" /\ e[1] = "epevents" /\ r[1] = "read_waits" /\ w[1] = "write_waits"
      /\ f[1] = "epfd"
  BY Pairs DEF Kinds
<1>2. {m, e, r, w} = Of(BaseParts, {b}) /\ {m, e, r, w, f} = Of(BaseKinds, {b})
  <2>1. \A x \in Of(BaseKinds, {b}) : x = <<x[1], b>> /\ x[1] \in BaseKinds
    BY Pairs DEF Of
  <2>2. Of(BaseKinds, {b}) \subseteq {m, e, r, w, f}
    BY <2>1 DEF BaseKinds, BaseParts
  <2>3. Of(BaseParts, {b}) = {x \in Of(BaseKinds, {b}) : x[1] # "epfd"}
    BY DEF Of, BaseKinds, BaseParts
  <2>4. {m, e, r, w, f} \subseteq Of(BaseKinds, {b})
    BY <1>1 DEF Of, BaseKinds, BaseParts
  <2> HIDE DEF m, e, r, w, f
  <2> QED BY <1>1, <2>2, <2>3, <2>4
<1>3. BaseMemory(b) = <<m, e, r, w>> /\ ebot_destroy(b) = <<f, e, w, r, m>>
  BY DEF BaseMemory, ebot_destroy
<1>4. ebot_new(b) = Append(BaseMemory(b), f)
  BY DEF ebot_new
<1>5. m # e /\ m # r /\ m # w /\ m # f /\ e # r /\ e # w /\ e # f /\ r # w /\ r # f /\ w # f
  BY <1>1
<1> HIDE DEF m, e, r, w, f
<1>6. Lists(BaseMemory(b), {m, e, r, w})
  BY <1>1, <1>3, <1>5, Four
<1>7. Lists(ebot_new(b), {m, e, r, w, f})
  <2> DEFINE P == {m, e, r, w}
             Q == {f}
  <2>1. ebot_new(b) = BaseMemory(b) \o g
    BY <1>1, <1>4, <1>6, AppendIsConcat DEF Lists
  <2>2. Lists(g, Q)
    BY <1>1, One
  <2>3. P \cap Q = {}
    BY <1>5
  <2>4. P \cup Q = {m, e, r, w, f}
    OBVIOUS
  <2>5. Lists(BaseMemory(b), P)
    BY <1>6
  <2> HIDE DEF g, P, Q
  <2>6. Lists(BaseMemory(b) \o g, P \cup Q)
    BY <2>2, <2>3, <2>5, Joined, Zenon
  <2> QED BY <2>1, <2>4, <2>6
<1>8. Lists(ebot_destroy(b), {m, e, r, w, f})
  <2>1. {m, e, r, w, f} = {f, e, w, r, m}
    OBVIOUS
  <2> QED BY <1>1, <1>3, <1>5, <2>1, Five
<1> QED BY <1>2, <1>6, <1>7, <1>8

\* One, two and four things with the same number.
OneOf(k, n)           == << <<k, n>> >>
TwoOf(k, l, n)        == << <<k, n>>, <<l, n>> >>
FourOf(k, l, m, o, n) == << <<k, n>>, <<l, n>>, <<m, n>>, <<o, n>> >>

LEMMA OneThing ==
  ASSUME NEW k \in Kinds, NEW n \in Nat
  PROVE  Lists(OneOf(k, n), Of({k}, {n}))
<1> DEFINE a == <<k, n>>
<1>1. a \in Things /\ {a} = Of({k}, {n})
  BY Pairs DEF Of
<1> HIDE DEF a
<1> QED BY <1>1, One DEF a, OneOf

LEMMA TwoThings ==
  ASSUME NEW k \in Kinds, NEW l \in Kinds, k # l, NEW n \in Nat
  PROVE  Lists(TwoOf(k, l, n), Of({k, l}, {n}))
<1> DEFINE a == <<k, n>>
           b == <<l, n>>
<1>1. a \in Things /\ b \in Things /\ {a, b} = Of({k, l}, {n}) /\ a # b
  BY Pairs DEF Of
<1> HIDE DEF a, b
<1> QED BY <1>1, Two DEF a, b, TwoOf

LEMMA FourThings ==
  ASSUME NEW k \in Kinds, NEW l \in Kinds, NEW m \in Kinds, NEW o \in Kinds, NEW n \in Nat,
         k # l, k # m, k # o, l # m, l # o, m # o
  PROVE  Lists(FourOf(k, l, m, o, n), Of({k, l, m, o}, {n}))
<1> DEFINE a == <<k, n>>
           b == <<l, n>>
           c == <<m, n>>
           d == <<o, n>>
<1>1. /\ a \in Things /\ b \in Things /\ c \in Things /\ d \in Things
      /\ {a, b, c, d} = Of({k, l, m, o}, {n})
      /\ a # b /\ a # c /\ a # d /\ b # c /\ b # d /\ c # d
  BY Pairs DEF Of
<1> HIDE DEF a, b, c, d
<1>2. Lists(<<a, b, c, d>>, {a, b, c, d})
  BY <1>1, Four
<1>3. <<a, b, c, d>> = FourOf(k, l, m, o, n)
  BY DEF a, b, c, d, FourOf
<1> QED BY <1>1, <1>2, <1>3

LEMMA Counts ==
  /\ rsz \in Nat \ {0} /\ fsz \in Nat \ {0} /\ MaxConns \in Nat
  /\ Reactors = 1 .. rsz /\ Units = 1 .. fsz
  /\ 0 \notin Reactors /\ 0 \notin Units /\ Reactors \subseteq Nat /\ Units \subseteq Nat
  /\ Bases = Reactors \cup {0}
  BY LifeAssumption DEF Reactors, Units, Bases

\* The parts of all reactors, and of all units.
LEMMA ReactorParts ==
  ASSUME NEW K, NEW p, p = [r \in Reactors |-> p[r]],
         \A r \in Reactors : Lists(p[r], Of(K, {r}))
  PROVE  Lists(FlattenSeq(p), Of(K, Reactors))
  BY Counts, Spread

LEMMA UnitParts ==
  ASSUME NEW k \in Kinds, NEW l \in Kinds, k # l
  PROVE  Lists(FlattenSeq([u \in Units |-> TwoOf(k, l, u)]), Of({k, l}, Units))
<1> DEFINE p == [u \in Units |-> TwoOf(k, l, u)]
<1>1. \A u \in Units : p[u] = TwoOf(k, l, u)
  OBVIOUS
<1>2. p = [u \in Units |-> p[u]]
  OBVIOUS
<1> HIDE DEF p
<1>3. \A u \in Units : Lists(p[u], Of({k, l}, {u}))
  BY <1>1, Counts, TwoThings
<1>4. Lists(FlattenSeq(p), Of({k, l}, Units))
  BY <1>2, <1>3, Counts, Spread
<1> QED BY <1>4 DEF p

ReactorKinds == BaseKinds \cup {"pipe0", "pipe1"}

LEMMA ReactorsNew ==
  Lists(reactor_pool_new, Of({"rp"}, {0}) \cup Of(ReactorKinds, Reactors))
<1> DEFINE p == [r \in Reactors |-> ebot_new(r) \o TwoOf("pipe0", "pipe1", r)]
           f == FlattenSeq(p)
           s == OneOf("rp", 0)
<1>1. ASSUME NEW r \in Reactors
      PROVE  Lists(p[r], Of(ReactorKinds, {r}))
  <2> DEFINE t == TwoOf("pipe0", "pipe1", r)
             P == Of(BaseKinds, {r})
             Q == Of({"pipe0", "pipe1"}, {r})
  <2>1. Lists(t, Q)
    BY Counts, TwoThings DEF Kinds
  <2>2. Lists(ebot_new(r), P)
    BY Counts, BaseThings
  <2>3. P \cap Q = {}
    BY DEF Of, BaseKinds, BaseParts
  <2>4. P \cup Q = Of(ReactorKinds, {r})
    BY DEF Of, ReactorKinds
  <2>5. p[r] = ebot_new(r) \o t
    OBVIOUS
  <2> HIDE DEF t, p, P, Q
  <2>6. Lists(ebot_new(r) \o t, P \cup Q)
    BY <2>1, <2>2, <2>3, Joined, Zenon
  <2> QED BY <2>4, <2>5, <2>6
<1>2. p = [r \in Reactors |-> p[r]]
  OBVIOUS
<1>3. reactor_pool_new = s \o f
  BY DEF reactor_pool_new, OneOf, TwoOf
<1> HIDE DEF p
<1>4. Lists(f, Of(ReactorKinds, Reactors))
  BY <1>1, <1>2, ReactorParts
<1>5. Lists(s, Of({"rp"}, {0}))
  BY OneThing DEF Kinds
<1>6. Of({"rp"}, {0}) \cap Of(ReactorKinds, Reactors) = {}
  BY Counts DEF Of
<1> HIDE DEF f, s
<1> QED BY <1>3, <1>4, <1>5, <1>6, Joined, Zenon

LEMMA UnitsNew == Lists(wpool_new, Of({"wp"}, {0}) \cup Of({"efd", "rq"}, Units))
<1> DEFINE f == FlattenSeq([u \in Units |-> TwoOf("efd", "rq", u)])
           s == OneOf("wp", 0)
<1>1. Lists(f, Of({"efd", "rq"}, Units))
  BY UnitParts DEF Kinds
<1>2. wpool_new = s \o f
  BY DEF wpool_new, OneOf, TwoOf
<1>3. Lists(s, Of({"wp"}, {0}))
  BY OneThing DEF Kinds
<1>4. Of({"wp"}, {0}) \cap Of({"efd", "rq"}, Units) = {}
  BY Counts DEF Of
<1> HIDE DEF f, s
<1> QED BY <1>1, <1>2, <1>3, <1>4, Joined, Zenon

\* All that a server acquires.
Acquirable ==
  Of({"srv", "event_pool", "rp", "wp", "sfd"}, {0}) \cup Of(BaseKinds, Bases)
    \cup Of({"pipe0", "pipe1"}, Reactors) \cup Of({"efd", "rq"}, Units)

LEMMA SetupLists == Lists(Setup, Acquirable)
<1> DEFINE s1 == TwoOf("srv", "event_pool", 0)
           s2 == s1 \o ebot_new(0)
           s3 == s2 \o reactor_pool_new
           s4 == s3 \o wpool_new
           s5 == OneOf("sfd", 0)
<1> DEFINE A1 == Of({"srv", "event_pool"}, {0})
           B1 == Of(BaseKinds, {0})
           B2 == Of({"rp"}, {0}) \cup Of(ReactorKinds, Reactors)
           B3 == Of({"wp"}, {0}) \cup Of({"efd", "rq"}, Units)
           B4 == Of({"sfd"}, {0})
           A2 == A1 \cup B1
           A3 == A2 \cup B2
           A4 == A3 \cup B3
<1>1. Lists(s1, A1)
  BY TwoThings DEF Kinds
<1>2. Lists(s5, B4)
  BY OneThing DEF Kinds
<1>3. Lists(ebot_new(0), B1)
  BY BaseThings
<1>4. A1 \cap B1 = {}
  BY Counts DEF Of, BaseKinds, BaseParts, ReactorKinds
<1>5. A2 \cap B2 = {}
  BY Counts DEF Of, BaseKinds, BaseParts, ReactorKinds
<1>6. A3 \cap B3 = {}
  BY Counts DEF Of, BaseKinds, BaseParts, ReactorKinds
<1>7. A4 \cap B4 = {}
  BY Counts DEF Of, BaseKinds, BaseParts, ReactorKinds
<1>8. A4 \cup B4 = Acquirable
  BY Counts DEF Of, ReactorKinds, Acquirable
<1>9. Setup = s4 \o s5
  BY DEF Setup, OneOf, TwoOf
<1> HIDE DEF s1, s5, A1, B1, B2, B3, B4
<1>10. Lists(s2, A2)
  BY <1>1, <1>3, <1>4, Joined, Zenon
<1> HIDE DEF s2, A2
<1>11. Lists(s3, A3)
  BY <1>10, <1>5, ReactorsNew, Joined, Zenon DEF B2
<1> HIDE DEF s3, A3
<1>12. Lists(s4, A4)
  BY <1>11, <1>6, UnitsNew, Joined, Zenon DEF B3
<1> HIDE DEF s4, A4
<1>13. Lists(Setup, A4 \cup B4)
  BY <1>12, <1>2, <1>7, <1>9, Joined, Zenon
<1> QED BY <1>8, <1>13

LEMMA ReactorsStop ==
  Lists(reactor_pool_stop, Of({"rstop", "pipe0", "pipe1", "rjoin"}, Reactors))
<1> DEFINE p == [r \in Reactors |-> FourOf("rstop", "pipe0", "pipe1", "rjoin", r)]
<1>1. \A r \in Reactors : p[r] = FourOf("rstop", "pipe0", "pipe1", "rjoin", r)
  OBVIOUS
<1>2. p = [r \in Reactors |-> p[r]]
  OBVIOUS
<1>3. reactor_pool_stop = FlattenSeq(p)
  BY DEF reactor_pool_stop, FourOf
<1> HIDE DEF p
<1>4. ASSUME NEW r \in Reactors
      PROVE  Lists(p[r], Of({"rstop", "pipe0", "pipe1", "rjoin"}, {r}))
  <2>1. /\ "rstop" \in Kinds /\ "pipe0" \in Kinds /\ "pipe1" \in Kinds /\ "rjoin" \in Kinds
        /\ r \in Nat
    BY Counts DEF Kinds
  <2>2. Lists(FourOf("rstop", "pipe0", "pipe1", "rjoin", r),
              Of({"rstop", "pipe0", "pipe1", "rjoin"}, {r}))
    BY <2>1, FourThings
  <2> QED BY <1>1, <2>2
<1> QED BY <1>2, <1>3, <1>4, ReactorParts

LEMMA ReactorsDestroyed ==
  Lists(reactor_pool_destroy, Of(BaseKinds, Reactors) \cup Of({"rp"}, {0}))
<1> DEFINE p == [r \in Reactors |-> ebot_destroy(r)]
           f == FlattenSeq(p)
           s == OneOf("rp", 0)
<1>1. \A r \in Reactors : p[r] = ebot_destroy(r)
  OBVIOUS
<1>2. p = [r \in Reactors |-> p[r]]
  OBVIOUS
<1>3. reactor_pool_destroy = f \o s
  BY DEF reactor_pool_destroy, OneOf
<1> HIDE DEF p
<1>4. ASSUME NEW r \in Reactors PROVE Lists(p[r], Of(BaseKinds, {r}))
  BY <1>1, Counts, BaseThings
<1>5. Lists(f, Of(BaseKinds, Reactors))
  BY <1>2, <1>4, ReactorParts
<1>6. Lists(s, Of({"rp"}, {0}))
  BY OneThing DEF Kinds
<1>7. Of(BaseKinds, Reactors) \cap Of({"rp"}, {0}) = {}
  BY Counts DEF Of
<1> HIDE DEF f, s
<1> QED BY <1>3, <1>5, <1>6, <1>7, Joined, Zenon

LEMMA UnitsDestroyed == Lists(wpool_destory, Of({"rq", "efd"}, Units) \cup Of({"wp"}, {0}))
<1> DEFINE f == FlattenSeq([u \in Units |-> TwoOf("rq", "efd", u)])
           s == OneOf("wp", 0)
<1>1. Lists(f, Of({"rq", "efd"}, Units))
  BY UnitParts DEF Kinds
<1>2. wpool_destory = f \o s
  BY DEF wpool_destory, OneOf, TwoOf
<1>3. Lists(s, Of({"wp"}, {0}))
  BY OneThing DEF Kinds
<1>4. Of({"rq", "efd"}, Units) \cap Of({"wp"}, {0}) = {}
  BY Counts DEF Of
<1> HIDE DEF f, s
<1> QED BY <1>1, <1>2, <1>3, <1>4, Joined, Zenon

\* The elements of a are those s begins with.
Begins(s, a) == \A k \in DOMAIN a : k \in DOMAIN s /\ s[k] = a[k]

LEMMA JoinBegins ==
  ASSUME NEW a, NEW b, NEW c, NEW A, NEW B, Lists(a, A), Lists(b, B), Begins(a, c)
  PROVE  Begins(a \o b, c)
<1>1. \A k \in DOMAIN a : k \in DOMAIN (a \o b) /\ (a \o b)[k] = a[k]
  BY Joining DEF Lists
<1> DEFINE s == a \o b
<1> HIDE DEF s
<1>2. \A k \in DOMAIN a : k \in DOMAIN s /\ s[k] = a[k]
  BY <1>1 DEF s
<1>3. Begins(s, c)
  BY <1>2 DEF Begins
<1> QED BY <1>3 DEF s

\* What eb_srv_destroy waits for and stops, besides what it gives back.
Signals ==
  Of({"stop"}, {0}) \cup Of({"rstop", "rjoin"}, Reactors) \cup Of({"ustop", "ujoin"}, Units)

\* eb_srv_destroy gives back all that was acquired, each thing once, and frees memory
\* only after every join.
LEMMA TeardownLists ==
  /\ Lists(Teardown, Acquirable \cup Signals)
  /\ \A j, k \in DOMAIN Teardown :
       /\ Teardown[j][1] \in {"rjoin", "ujoin"}
       /\ Teardown[k][1] \notin FileKinds \cup {"stop", "rstop", "ustop", "rjoin", "ujoin"}
       => j < k
<1> DEFINE s1 == OneOf("stop", 0)
           s2 == s1 \o reactor_pool_stop
           s3 == s2 \o wpool_stop
           s4 == s3 \o reactor_pool_destroy
           s5 == s4 \o wpool_destory
           p5 == TwoOf("event_pool", "sfd", 0)
           s6 == s5 \o p5
           s7 == s6 \o ebot_destroy(0)
           p7 == OneOf("srv", 0)
<1> DEFINE A1 == Of({"stop"}, {0})
           B1 == Of({"rstop", "pipe0", "pipe1", "rjoin"}, Reactors)
           B2 == Of({"ustop", "ujoin"}, Units)
           B3 == Of(BaseKinds, Reactors) \cup Of({"rp"}, {0})
           B4 == Of({"rq", "efd"}, Units) \cup Of({"wp"}, {0})
           B5 == Of({"event_pool", "sfd"}, {0})
           B6 == Of(BaseKinds, {0})
           B7 == Of({"srv"}, {0})
           A2 == A1 \cup B1
           A3 == A2 \cup B2
           A4 == A3 \cup B3
           A5 == A4 \cup B4
           A6 == A5 \cup B5
           A7 == A6 \cup B6
<1>1. Lists(s1, A1)
  BY OneThing DEF Kinds
<1>2. Lists(p5, B5)
  BY TwoThings DEF Kinds
<1>3. Lists(p7, B7)
  BY OneThing DEF Kinds
<1>4. Lists(ebot_destroy(0), B6)
  BY BaseThings
<1>5. Lists(wpool_stop, B2)
  <2>1. wpool_stop = FlattenSeq([u \in Units |-> TwoOf("ustop", "ujoin", u)])
    BY DEF wpool_stop, TwoOf
  <2> QED BY <2>1, UnitParts DEF Kinds
<1>6. A1 \cap B1 = {}
  BY Counts DEF Of
<1>7. A2 \cap B2 = {}
  BY Counts DEF Of
<1>8. A3 \cap B3 = {}
  BY Counts DEF Of, BaseKinds, BaseParts
<1>9. A4 \cap B4 = {}
  BY Counts DEF Of, BaseKinds, BaseParts
<1>10. A5 \cap B5 = {}
  BY Counts DEF Of, BaseKinds, BaseParts
<1>11. A6 \cap B6 = {}
  BY Counts DEF Of, BaseKinds, BaseParts
<1>12. A7 \cap B7 = {}
  BY Counts DEF Of, BaseKinds, BaseParts
<1>13. A7 \cup B7 = Acquirable \cup Signals
  BY Counts DEF Of, Acquirable, Signals
<1>14. A3 = {x \in A7 \cup B7 : x[1] \in {"stop", "rstop", "pipe0", "pipe1", "rjoin", "ustop", "ujoin"}}
  BY DEF Of, BaseKinds, BaseParts
<1>15. Teardown = s7 \o p7
  BY DEF Teardown, OneOf, TwoOf
<1> HIDE DEF s1, p5, p7, A1, B1, B2, B3, B4, B5, B6, B7
<1>16. Lists(s2, A2)
  BY <1>1, <1>6, ReactorsStop, Joined, Zenon DEF B1
<1> HIDE DEF s2, A2
<1>17. Lists(s3, A3)
  BY <1>16, <1>5, <1>7, Joined, Zenon
<1> HIDE DEF s3, A3
<1>18. Begins(s3, s3)
  BY DEF Begins
<1>19. Lists(s4, A4)
  BY <1>17, <1>8, ReactorsDestroyed, Joined, Zenon DEF B3
<1>20. Begins(s4, s3)
  BY <1>17, <1>18, ReactorsDestroyed, JoinBegins, Zenon
<1> HIDE DEF s4, A4
<1>21. Lists(s5, A5)
  BY <1>19, <1>9, UnitsDestroyed, Joined, Zenon DEF B4
<1>22. Begins(s5, s3)
  BY <1>19, <1>20, UnitsDestroyed, JoinBegins, Zenon
<1> HIDE DEF s5, A5
<1>23. Lists(s6, A6)
  BY <1>21, <1>2, <1>10, Joined, Zenon
<1>24. Begins(s6, s3)
  BY <1>21, <1>22, <1>2, JoinBegins, Zenon
<1> HIDE DEF s6, A6
<1>25. Lists(s7, A7)
  BY <1>23, <1>4, <1>11, Joined, Zenon
<1>26. Begins(s7, s3)
  BY <1>23, <1>24, <1>4, JoinBegins, Zenon
<1> HIDE DEF s7, A7
<1>27. Lists(s7 \o p7, A7 \cup B7)
  BY <1>25, <1>3, <1>12, Joined, Zenon
<1>28. Begins(s7 \o p7, s3)
  BY <1>25, <1>26, <1>3, JoinBegins, Zenon
<1>29. Lists(Teardown, A7 \cup B7) /\ Begins(Teardown, s3)
  BY <1>15, <1>27, <1>28
<1>30. ASSUME NEW j \in DOMAIN Teardown, NEW k \in DOMAIN Teardown,
              Teardown[j][1] \in {"rjoin", "ujoin"},
              Teardown[k][1] \notin FileKinds \cup {"stop", "rstop", "ustop", "rjoin", "ujoin"}
       PROVE  j < k
  <2>1. /\ s3 \in Seq(Things) /\ ToSet(s3) = A3
        /\ Teardown \in Seq(Things) /\ ToSet(Teardown) = A7 \cup B7 /\ Once(Teardown)
    BY <1>17, <1>29 DEF Lists
  <2>2. Teardown[j] \in A3
    BY <2>1, <1>14, <1>30 DEF ToSet
  <2>3. Teardown[k] \notin A3
    BY <1>14, <1>30 DEF FileKinds
  <2>4. j \in DOMAIN s3
    <3>1. PICK m \in DOMAIN s3 : s3[m] = Teardown[j]
      BY <2>1, <2>2 DEF ToSet
    <3>2. m \in DOMAIN Teardown /\ Teardown[m] = Teardown[j]
      BY <1>29, <3>1 DEF Begins
    <3> QED BY <2>1, <3>1, <3>2 DEF Once
  <2>5. k \notin DOMAIN s3
    BY <1>29, <2>1, <2>3 DEF Begins, ToSet
  <2>6. DOMAIN s3 = 1 .. Len(s3) /\ Len(s3) \in Nat /\ DOMAIN Teardown = 1 .. Len(Teardown) /\ Len(Teardown) \in Nat
    BY <2>1
  <2> QED BY <2>4, <2>5, <2>6
<1> QED BY <1>13, <1>29, <1>30

LEMMA Belongings ==
  /\ Setup \in Seq(Things) /\ Once(Setup) /\ ToSet(Setup) = Memory \cup Files
  /\ Memory \cap Files = {} /\ Files \cap Conns = {}
  /\ Teardown \in Seq(Things) /\ Once(Teardown) /\ Memory \cup Files \subseteq ToSet(Teardown)
  /\ \A r \in Reactors : /\ UsedByReactor(r) \subseteq Memory
                         /\ <<"rjoin", r>> \in ToSet(Teardown) /\ <<"rjoin", r>>[1] = "rjoin"
  /\ \A u \in Units : /\ UsedByWorker(u) \subseteq Memory
                      /\ <<"ujoin", u>> \in ToSet(Teardown) /\ <<"ujoin", u>>[1] = "ujoin"
  /\ \A j, k \in DOMAIN Teardown :
       Teardown[j][1] \in {"rjoin", "ujoin"} /\ Teardown[k] \in Memory => j < k
<1>1. /\ Setup \in Seq(Things) /\ Once(Setup) /\ ToSet(Setup) = Acquirable
      /\ Teardown \in Seq(Things) /\ Once(Teardown) /\ ToSet(Teardown) = Acquirable \cup Signals
  BY SetupLists, TeardownLists DEF Lists
<1>2. /\ Memory = {o \in Acquirable : o[1] \notin FileKinds}
      /\ Files = {o \in Acquirable : o[1] \in FileKinds}
  BY <1>1 DEF Memory, Files
<1>3. Files \cap Conns = {}
  BY <1>2, Pairs DEF Conns, Acquirable, Of, FileKinds
<1>4. ASSUME NEW r \in Reactors
      PROVE  /\ UsedByReactor(r) \subseteq Memory
             /\ <<"rjoin", r>> \in ToSet(Teardown) /\ <<"rjoin", r>>[1] = "rjoin"
  <2>1. ToSet(BaseMemory(r)) = Of(BaseParts, {r}) /\ r \in Nat /\ r \in Bases
    BY Counts, BaseThings DEF Lists
  <2>2. Of(BaseParts, {r}) \subseteq Memory
    BY <1>2, <2>1 DEF Of, BaseParts, BaseKinds, Acquirable, FileKinds
  <2>3. {<<"srv", 0>>, <<"event_pool", 0>>, <<"rp", 0>>, <<"wp", 0>>} \subseteq Memory
    BY <1>2, Pairs DEF Of, Acquirable, FileKinds, Kinds
  <2>4. {<<"rq", u>> : u \in Units} \subseteq Memory
    BY <1>2, Pairs, Counts DEF Of, Acquirable, FileKinds, Kinds
  <2>5. <<"rjoin", r>> \in ToSet(Teardown) /\ <<"rjoin", r>>[1] = "rjoin"
    BY <1>1, <2>1, Pairs DEF Of, Signals, Kinds
  <2> QED BY <2>1, <2>2, <2>3, <2>4, <2>5 DEF UsedByReactor
<1>5. ASSUME NEW u \in Units
      PROVE  /\ UsedByWorker(u) \subseteq Memory
             /\ <<"ujoin", u>> \in ToSet(Teardown) /\ <<"ujoin", u>>[1] = "ujoin"
  <2>1. {<<"srv", 0>>, <<"wp", 0>>, <<"rq", u>>} \subseteq Memory
    BY <1>2, Pairs, Counts DEF Of, Acquirable, FileKinds, Kinds
  <2>2. <<"ujoin", u>> \in ToSet(Teardown) /\ <<"ujoin", u>>[1] = "ujoin"
    BY <1>1, Pairs, Counts DEF Of, Signals, Kinds
  <2> QED BY <2>1, <2>2 DEF UsedByWorker
<1>6. \A o \in Memory : o[1] \notin FileKinds \cup {"stop", "rstop", "ustop", "rjoin", "ujoin"}
  BY <1>2 DEF Of, Acquirable, BaseKinds, BaseParts
<1> QED BY <1>1, <1>2, <1>3, <1>4, <1>5, <1>6, TeardownLists
-----------------------------------------------------------------------------
(* The inductive invariant. *)

\* What has been acquired, and what eb_srv_destroy has done.
Acquired == {Setup[k] : k \in 1 .. step}
Gone     == {Teardown[k] : k \in 1 .. destroy - 1}

\* Threads run on a server that is complete, and not after they have been joined.
ThreadsOK ==
  /\ master # "off" => step = Len(Setup)
  /\ destroy > 0 => master \in {"loop", "wait", "send", "done"}
  /\ \A r \in Reactors : react[r] # "none" => master # "off"
  /\ \A u \in Units : worker[u] # "none" => master # "off"
  /\ \A r \in Reactors : <<"rjoin", r>> \in Gone => react[r] = "done"
  /\ \A u \in Units : <<"ujoin", u>> \in Gone => worker[u] = "done"

\* What is allocated, unless the process has ended on the way.
HeldOK ==
  process = "alive" \/ step = Len(Setup) => held = (Acquired \cap Memory) \ Gone

\* Each descriptor of the server that is open is open under its number, and there are
\* no more descriptors than have been opened.
FilesOK ==
  /\ \A n \in DOMAIN files :
       files[n] \in Files => no[files[n]] = n /\ files[n] \in Acquired \ Gone
  /\ \A o \in (Acquired \cap Files) \ Gone : IsOpen(no[o], o)
  /\ IsFiniteSet(DOMAIN files) /\ Cardinality(DOMAIN files) <= step + conns.count

\* A pipe holds no more than was accepted, and something when its callback is to run.
PipesOK ==
  \A r \in Reactors :
    /\ inpipe[r] + (IF master = "send" THEN 1 ELSE 0) <= conns.count
    /\ react[r] = "pipe" => inpipe[r] > 0

IInv == TypeOK /\ ThreadsOK /\ HeldOK /\ FilesOK /\ PipesOK

LEMMA InitHolds == Init => IInv
<1> SUFFICES ASSUME Init PROVE IInv
  OBVIOUS
<1>1. Acquired = {} /\ Gone = {} /\ step = 0 /\ destroy = 0
  BY DEF Init, Acquired, Gone
<1>2. Len(Setup) \in Nat /\ Len(Teardown) \in Nat
  BY Belongings
<1>3. DOMAIN files = {} /\ ToSet(files) = {}
  BY DEF Init, ToSet
<1>4. TypeOK
  BY <1>1, <1>2, <1>3, Counts DEF Init, TypeOK
<1>5. ThreadsOK
  BY <1>1 DEF Init, ThreadsOK
<1>6. HeldOK
  BY <1>1 DEF Init, HeldOK
<1>7. FilesOK
  BY <1>1, <1>3, FS_EmptySet DEF Init, FilesOK
<1>8. PipesOK
  BY DEF Init, PipesOK
<1> QED BY <1>4, <1>5, <1>6, <1>7, <1>8 DEF IInv
-----------------------------------------------------------------------------
(* Each action preserves it. *)

LEMMA Sizes ==
  /\ Len(Setup) \in Nat /\ DOMAIN Setup = 1 .. Len(Setup)
  /\ Len(Teardown) \in Nat /\ DOMAIN Teardown = 1 .. Len(Teardown)
  BY Belongings

LEMMA Below ==
  ASSUME NEW a \in Nat, NEW b \in Nat, a < b
  PROVE  a # b
  OBVIOUS

\* What an action leaves alone stays right.
LEMMA ThreadsSame ==
  ASSUME ThreadsOK, UNCHANGED <<step, master, react, worker, destroy>>
  PROVE  ThreadsOK'
  BY DEF ThreadsOK, Gone

LEMMA HeldSame ==
  ASSUME HeldOK, UNCHANGED <<step, held, destroy>>, process' = "alive" => process = "alive"
  PROVE  HeldOK'
  BY DEF HeldOK, Acquired, Gone

LEMMA FilesSame ==
  ASSUME FilesOK, UNCHANGED <<step, files, no, conns, destroy>>
  PROVE  FilesOK'
  BY DEF FilesOK, Acquired, Gone, IsOpen

LEMMA PipesSame ==
  ASSUME TypeOK, PipesOK, UNCHANGED <<inpipe, conns, react>>, master' = "send" => master = "send"
  PROVE  PipesOK'
  BY DEF PipesOK, TypeOK

\* There is always a number for a new descriptor, and it is not in use.
LEMMA NewNumber ==
  ASSUME TypeOK, FilesOK, step + conns.count < Len(Setup) + MaxConns
  PROVE  NewFd \in Numbers \ DOMAIN files
<1> DEFINE T == Numbers \ DOMAIN files
<1>1. T # {}
  <2> SUFFICES ASSUME T = {} PROVE FALSE
    OBVIOUS
  <2>1. DOMAIN files = Numbers
    BY DEF TypeOK
  <2>2. Cardinality(Numbers) = Len(Setup) + MaxConns
    <3>1. /\ Len(Setup) + MaxConns \in Nat /\ 3 \in Int /\ 2 + Len(Setup) + MaxConns \in Int
          /\ (2 + Len(Setup) + MaxConns) - 3 + 1 = Len(Setup) + MaxConns
          /\ 3 > 2 + Len(Setup) + MaxConns => Len(Setup) + MaxConns = 0
      BY Sizes, Counts
    <3> QED BY <3>1, FS_Interval DEF Numbers
  <2>3. step \in Nat /\ conns.count \in Nat /\ Len(Setup) \in Nat /\ MaxConns \in Nat
    BY Sizes, Counts DEF TypeOK
  <2> QED BY <2>1, <2>2, <2>3 DEF FilesOK
<1>2. T \subseteq Nat
  BY Sizes, Counts DEF Numbers
<1>3. \E m \in T : \A n \in T : m <= n
  <2> HIDE DEF T
  <2> QED BY <1>1, <1>2, LeastNumber
<1>4. NewFd = CHOOSE n \in T : \A m \in T : n <= m
  BY DEF NewFd
<1> HIDE DEF T
<1>5. NewFd \in T
  BY <1>3, <1>4
<1> QED BY <1>5 DEF T

\* A descriptor is opened: it is the only one with its number.
LEMMA Opening ==
  ASSUME NEW n, n = NewFd, n \in Numbers \ DOMAIN files, NEW o, Open(o), TypeOK, FilesOK
  PROVE  /\ DOMAIN files' = DOMAIN files \cup {n} /\ files'[n] = o
         /\ \A m \in DOMAIN files : m # n /\ files'[m] = files[m]
         /\ ToSet(files') \subseteq ToSet(files) \cup {o}
         /\ IsFiniteSet(DOMAIN files')
         /\ Cardinality(DOMAIN files') = Cardinality(DOMAIN files) + 1
<1>1. files' = [m \in DOMAIN files \cup {n} |-> IF m = n THEN o ELSE files[m]]
  BY DEF Open
<1>2. /\ DOMAIN files' = DOMAIN files \cup {n} /\ files'[n] = o
      /\ \A m \in DOMAIN files : m # n /\ files'[m] = files[m]
  BY <1>1
<1>3. ToSet(files') \subseteq ToSet(files) \cup {o}
  BY <1>2 DEF ToSet
<1>4. /\ IsFiniteSet(DOMAIN files')
      /\ Cardinality(DOMAIN files') = Cardinality(DOMAIN files) + 1
  BY <1>2, FS_AddElement DEF FilesOK
<1> QED BY <1>2, <1>3, <1>4

LEMMA AcquireKeeps == IInv /\ Acquire => IInv'
<1> SUFFICES ASSUME IInv, Acquire PROVE IInv'
  OBVIOUS
<1> DEFINE o == Setup[step + 1]
<1> USE DEF IInv
<1>1. /\ process = "alive" /\ step \in Nat /\ step < Len(Setup) /\ step' = step + 1
      /\ UNCHANGED <<process, master, i, status, threads, inpipe, conns, destroy>>
  BY DEF Acquire, TypeOK
<1>2. IF o \in Files
        THEN Open(o) /\ no' = [no EXCEPT ![o] = NewFd] /\ held' = held
        ELSE held' = held \cup {o} /\ UNCHANGED <<files, no>>
  BY DEF Acquire
<1>3. /\ master = "off" /\ destroy = 0
      /\ \A r \in Reactors : react[r] = "none"
      /\ \A u \in Units : worker[u] = "none"
  <2>1. master = "off"
    <3>1. step # Len(Setup)
      BY <1>1, Sizes, Below, Zenon
    <3> QED BY <3>1, Zenon DEF ThreadsOK
  <2>2. destroy \in Nat /\ ~(destroy > 0)
    BY <2>1, Sizes DEF ThreadsOK, TypeOK
  <2> QED BY <2>1, <2>2 DEF ThreadsOK
<1>4. Gone = {} /\ Gone' = {}
  BY <1>1, <1>3 DEF Gone
<1>5. /\ o \in Memory \cup Files /\ o \notin Acquired
      /\ Acquired' = Acquired \cup {o}
  <2>1. step + 1 \in DOMAIN Setup /\ \A k \in 1 .. step : k \in DOMAIN Setup /\ k # step + 1
    BY <1>1, Sizes
  <2>2. o \in Memory \cup Files
    BY <2>1, Belongings DEF ToSet
  <2>3. o \notin Acquired
    BY <2>1, Belongings DEF Acquired, Once
  <2>4. 1 .. step' = 1 .. step \cup {step + 1}
    BY <1>1
  <2>5. Acquired' = Acquired \cup {o}
    BY <2>4 DEF Acquired
  <2> QED BY <2>2, <2>3, <2>5
<1> HIDE DEF o
<1>6. o \in Files => /\ NewFd \in Numbers \ DOMAIN files
                     /\ Open(o) /\ no' = [no EXCEPT ![o] = NewFd] /\ held' = held
  <2>1. step + conns.count < Len(Setup) + MaxConns
    BY <1>1, Sizes, Counts DEF TypeOK
  <2> QED BY <1>2, <2>1, NewNumber
<1>7. ThreadsOK'
  BY <1>1, <1>3, <1>4, Sizes DEF ThreadsOK, threads
<1>8. PipesOK'
  BY <1>1, PipesSame DEF threads
<1>9. HeldOK'
  <2>1. held = Acquired \cap Memory
    BY <1>1, <1>4 DEF HeldOK
  <2>2. held' = IF o \in Files THEN held ELSE held \cup {o}
    BY <1>2
  <2>3. held' = Acquired' \cap Memory
    BY <1>5, <2>1, <2>2, Belongings
  <2> QED BY <1>4, <2>3 DEF HeldOK
<1>10. TypeOK' /\ FilesOK'
  <2>1. CASE o \notin Files
    <3>1. held' = held \cup {o} /\ UNCHANGED <<files, no>>
      BY <1>2, <2>1
    <3>2. TypeOK'
      BY <1>1, <1>5, <2>1, <3>1, Sizes DEF TypeOK, threads
    <3>3. FilesOK'
      <4>1. Acquired' \cap Files = Acquired \cap Files /\ Acquired \subseteq Acquired'
        BY <1>5, <2>1
      <4>2. Cardinality(DOMAIN files) <= step' + conns.count
        BY <1>1, FS_CardinalityType DEF FilesOK, TypeOK
      <4> QED BY <1>1, <1>4, <3>1, <4>1, <4>2 DEF FilesOK, IsOpen
    <3> QED BY <3>2, <3>3
  <2>2. CASE o \in Files
    <3>1. PICK n : n = NewFd
      OBVIOUS
    <3>2. n \in Numbers \ DOMAIN files /\ Open(o) /\ no' = [no EXCEPT ![o] = n] /\ held' = held
      BY <1>6, <2>2, <3>1
    <3>3. /\ DOMAIN files' = DOMAIN files \cup {n} /\ files'[n] = o
          /\ \A m \in DOMAIN files : m # n /\ files'[m] = files[m]
          /\ ToSet(files') \subseteq ToSet(files) \cup {o}
          /\ IsFiniteSet(DOMAIN files')
          /\ Cardinality(DOMAIN files') = Cardinality(DOMAIN files) + 1
      BY <3>1, <3>2, Opening
    <3>4. /\ no'[o] = n /\ \A x \in Files : x # o => no'[x] = no[x]
          /\ no' \in [Files -> {0} \cup Numbers]
      BY <2>2, <3>2 DEF TypeOK
    <3>5. TypeOK'
      BY <1>1, <2>2, <3>2, <3>3, <3>4, Sizes DEF TypeOK, threads
    <3>6. ASSUME NEW m \in DOMAIN files', files'[m] \in Files
          PROVE  no'[files'[m]] = m /\ files'[m] \in Acquired'
      <4>1. CASE m = n
        BY <1>5, <3>3, <3>4, <4>1
      <4>2. CASE m # n
        <5>1. m \in DOMAIN files /\ files'[m] = files[m]
          BY <3>3, <4>2
        <5>2. no[files[m]] = m /\ files[m] \in Acquired /\ files[m] # o
          BY <1>4, <1>5, <3>6, <5>1 DEF FilesOK
        <5> QED BY <1>5, <3>4, <3>6, <5>1, <5>2
      <4> QED BY <4>1, <4>2
    <3>7. ASSUME NEW x \in Acquired' \cap Files
          PROVE  no'[x] \in DOMAIN files' /\ files'[no'[x]] = x
      <4>1. CASE x = o
        BY <3>3, <3>4, <4>1
      <4>2. CASE x # o
        <5>1. no[x] \in DOMAIN files /\ files[no[x]] = x
          BY <1>4, <1>5, <4>2 DEF FilesOK, IsOpen
        <5> QED BY <3>3, <3>4, <4>2, <5>1
      <4> QED BY <4>1, <4>2
    <3>8. Cardinality(DOMAIN files') <= step' + conns'.count
      BY <1>1, <3>3, FS_CardinalityType DEF FilesOK, TypeOK
    <3> QED BY <1>4, <3>3, <3>5, <3>6, <3>7, <3>8 DEF FilesOK, IsOpen
  <2> QED BY <2>1, <2>2
<1> QED BY <1>7, <1>8, <1>9, <1>10

LEMMA AcquireFailsKeeps == IInv /\ AcquireFails => IInv'
<1> SUFFICES ASSUME IInv, AcquireFails PROVE IInv'
  OBVIOUS
<1> USE DEF IInv
<1> DEFINE o == Setup[step + 1]
<1>1. /\ process = "alive" /\ step < Len(Setup)
      /\ held' = held \ FreedOnError(o) /\ process' \in EndOnError(o)
      /\ UNCHANGED <<step, files, no, master, i, status, threads, inpipe, conns, destroy>>
  BY DEF AcquireFails
<1>2. \A x : EndOnError(x) \subseteq {"exit", "fault"}
  BY DEF EndOnError
<1>3. process' \in {"exit", "fault"} /\ held' \subseteq held
  BY <1>1, <1>2
<1> HIDE DEF o
<1>4. TypeOK'
  BY <1>1, <1>3 DEF TypeOK, threads
<1>5. HeldOK'
  <2>1. step \in Nat /\ Len(Setup) \in Nat /\ step' = step /\ step < Len(Setup)
    BY <1>1, Sizes DEF TypeOK
  <2>3. step' # Len(Setup)
    BY <2>1, Below, Zenon
  <2>2. process' # "alive"
    BY <1>3
  <2> QED BY <2>2, <2>3 DEF HeldOK
<1> QED BY <1>1, <1>4, <1>5, ThreadsSame, FilesSame, PipesSame DEF threads

\* eb_srv_start and its loops run before eb_srv_destroy is called.
LEMMA Starting ==
  ASSUME TypeOK, ThreadsOK, master \in {"off", "reactors", "workers"}
  PROVE  destroy = 0 /\ Gone = {}
<1>1. ~(destroy > 0)
  BY DEF ThreadsOK
<1>2. destroy = 0
  BY <1>1, Sizes DEF TypeOK
<1> QED BY <1>2 DEF Gone

LEMMA StartKeeps == IInv /\ eb_srv_start => IInv'
<1> SUFFICES ASSUME IInv, eb_srv_start PROVE IInv'
  OBVIOUS
<1> USE DEF IInv
<1>1. destroy = 0 /\ Gone = {}
  BY Starting DEF eb_srv_start
<1>2. TypeOK'
  BY DEF eb_srv_start, TypeOK, setup, threads
<1>3. ThreadsOK'
  <2>1. Gone' = {} /\ ~(destroy' > 0)
    BY <1>1 DEF eb_srv_start, Gone
  <2> QED BY <2>1 DEF eb_srv_start, ThreadsOK, setup, threads
<1> QED BY <1>2, <1>3, HeldSame, FilesSame, PipesSame DEF eb_srv_start, setup, threads

LEMMA StartReactorKeeps == IInv /\ StartReactor => IInv'
<1> SUFFICES ASSUME IInv, StartReactor PROVE IInv'
  OBVIOUS
<1> USE DEF IInv
<1>1. PICK t \in {"loop", "none"} : react' = [react EXCEPT ![i] = t]
  BY DEF StartReactor
<1>2. /\ process = "alive" /\ master = "reactors"
      /\ rstatus' = [rstatus EXCEPT ![i] = 1]
      /\ IF i < rsz THEN i' = i + 1 /\ master' = master ELSE i' = 1 /\ master' = "workers"
      /\ UNCHANGED <<process, setup, files, status, inpipe, ustatus, worker, conns, destroy>>
  BY DEF StartReactor
<1>3. destroy = 0 /\ Gone = {}
  BY <1>2, Starting
<1>4. i' \in Reactors \cup Units /\ master' \in {"reactors", "workers"}
  <2>1. CASE i < rsz
    BY <1>2, <2>1, Counts DEF TypeOK
  <2>2. CASE ~(i < rsz)
    BY <1>2, <2>2, Counts
  <2> QED BY <2>1, <2>2
<1>5. /\ react' \in [Reactors -> {"none", "loop", "pipe", "done"}]
      /\ rstatus' \in [Reactors -> {0, 1}]
      /\ \A r \in Reactors : react'[r] = "pipe" => react[r] = "pipe"
  BY <1>1, <1>2 DEF TypeOK
<1>6. TypeOK'
  BY <1>2, <1>4, <1>5 DEF TypeOK, setup
<1>7. ThreadsOK'
  <2>1. Gone' = {} /\ ~(destroy' > 0)
    BY <1>2, <1>3 DEF Gone
  <2> QED BY <1>2, <1>4, <2>1 DEF ThreadsOK, setup
<1>8. PipesOK'
  BY <1>2, <1>4, <1>5 DEF PipesOK, TypeOK
<1> QED BY <1>2, <1>6, <1>7, <1>8, HeldSame, FilesSame DEF setup

LEMMA StartWorkerKeeps == IInv /\ StartWorker => IInv'
<1> SUFFICES ASSUME IInv, StartWorker PROVE IInv'
  OBVIOUS
<1> USE DEF IInv
<1>1. PICK t \in {"loop", "none"} : worker' = [worker EXCEPT ![i] = t]
  BY DEF StartWorker
<1>2. /\ process = "alive" /\ master = "workers"
      /\ ustatus' = [ustatus EXCEPT ![i] = 1]
      /\ IF i < fsz THEN i' = i + 1 /\ master' = master ELSE i' = 1 /\ master' = "loop"
      /\ UNCHANGED <<process, setup, files, status, rstatus, react, inpipe, conns, destroy>>
  BY DEF StartWorker
<1>3. destroy = 0 /\ Gone = {}
  BY <1>2, Starting
<1>4. i' \in Reactors \cup Units /\ master' \in {"workers", "loop"}
  <2>1. CASE i < fsz
    BY <1>2, <2>1, Counts DEF TypeOK
  <2>2. CASE ~(i < fsz)
    BY <1>2, <2>2, Counts
  <2> QED BY <2>1, <2>2
<1>5. worker' \in [Units -> {"none", "loop", "done"}] /\ ustatus' \in [Units -> {0, 1}]
  BY <1>1, <1>2 DEF TypeOK
<1>6. TypeOK'
  BY <1>2, <1>4, <1>5 DEF TypeOK, setup
<1>7. ThreadsOK'
  <2>1. Gone' = {} /\ ~(destroy' > 0)
    BY <1>2, <1>3 DEF Gone
  <2> QED BY <1>2, <1>4, <2>1 DEF ThreadsOK, setup
<1> QED BY <1>2, <1>4, <1>6, <1>7, HeldSame, FilesSame, PipesSame DEF setup

\* The master goes round its loop.
LEMMA MasterTestsKeeps == IInv /\ MasterTests => IInv'
<1> SUFFICES ASSUME IInv, MasterTests PROVE IInv'
  OBVIOUS
<1> USE DEF IInv
<1>1. /\ master = "loop" /\ master' \in {"wait", "done"}
      /\ UNCHANGED <<process, setup, files, i, status, threads, inpipe, conns, destroy>>
  BY DEF MasterTests
<1>2. TypeOK'
  BY <1>1 DEF TypeOK, setup, threads
<1>3. ThreadsOK'
  BY <1>1 DEF ThreadsOK, Gone, setup, threads
<1> QED BY <1>1, <1>2, <1>3, HeldSame, FilesSame, PipesSame DEF setup, threads

LEMMA MasterTimesOutKeeps == IInv /\ MasterTimesOut => IInv'
<1> SUFFICES ASSUME IInv, MasterTimesOut PROVE IInv'
  OBVIOUS
<1> USE DEF IInv
<1>1. /\ master = "wait" /\ master' = "loop"
      /\ UNCHANGED <<process, setup, files, i, status, threads, inpipe, conns, destroy>>
  BY DEF MasterTimesOut
<1>2. TypeOK'
  BY <1>1 DEF TypeOK, setup, threads
<1>3. ThreadsOK'
  BY <1>1 DEF ThreadsOK, Gone, setup, threads
<1> QED BY <1>1, <1>2, <1>3, HeldSame, FilesSame, PipesSame DEF setup, threads

\* A connection takes a number that no descriptor of the server has.
LEMMA AcceptKeeps == IInv /\ Accept => IInv'
<1> SUFFICES ASSUME IInv, Accept PROVE IInv'
  OBVIOUS
<1> USE DEF IInv
<1> DEFINE o == <<"conn", conns.count + 1>>
<1>1. PICK n : n = NewFd
  OBVIOUS
<1>2. /\ master = "wait" /\ conns.count < MaxConns /\ Open(o) /\ master' = "send"
      /\ conns' = [count |-> conns.count + 1, fd |-> n]
      /\ UNCHANGED <<process, setup, i, status, threads, inpipe, destroy>>
  BY <1>1 DEF Accept
<1>3. step + conns.count < Len(Setup) + MaxConns
  BY <1>2, Sizes, Counts DEF TypeOK
<1>4. conns.count \in Nat /\ conns.count + 1 \in 1 .. MaxConns
  BY <1>2, Counts DEF TypeOK
<1>5. o \in Conns /\ o \notin Files
  BY <1>4, Belongings DEF Conns
<1> HIDE DEF o
<1>6. n \in Numbers \ DOMAIN files
  BY <1>1, <1>3, NewNumber
<1>7. /\ DOMAIN files' = DOMAIN files \cup {n} /\ files'[n] = o
      /\ \A m \in DOMAIN files : m # n /\ files'[m] = files[m]
      /\ ToSet(files') \subseteq ToSet(files) \cup {o}
      /\ IsFiniteSet(DOMAIN files')
      /\ Cardinality(DOMAIN files') = Cardinality(DOMAIN files) + 1
  BY <1>1, <1>2, <1>6, Opening
<1>8. TypeOK'
  BY <1>2, <1>4, <1>5, <1>6, <1>7, Counts DEF TypeOK, setup, threads
<1>9. ThreadsOK'
  BY <1>2 DEF ThreadsOK, Gone, setup, threads
<1>10. Acquired' = Acquired /\ Gone' = Gone /\ no' = no
  BY <1>2 DEF Acquired, Gone, setup
<1>11. FilesOK'
  <2>1. ASSUME NEW m \in DOMAIN files', files'[m] \in Files
        PROVE  no[files'[m]] = m /\ files'[m] \in Acquired \ Gone
    BY <1>5, <1>7, <2>1 DEF FilesOK
  <2>2. ASSUME NEW x \in (Acquired \cap Files) \ Gone
        PROVE  no[x] \in DOMAIN files' /\ files'[no[x]] = x
    BY <1>7 DEF FilesOK, IsOpen
  <2>3. Cardinality(DOMAIN files') <= step' + conns'.count
    <3>1. step' = step /\ step \in Nat /\ conns'.count = conns.count + 1
      BY <1>2 DEF TypeOK, setup
    <3> QED BY <1>4, <1>7, <3>1, FS_CardinalityType DEF FilesOK
  <2> QED BY <1>7, <1>10, <2>1, <2>2, <2>3 DEF FilesOK, IsOpen
<1>12. PipesOK'
  BY <1>2, <1>4 DEF PipesOK, TypeOK, threads
<1> QED BY <1>2, <1>8, <1>9, <1>11, <1>12, HeldSame DEF setup

\* What is written to a pipe is the descriptor accepted last.
LEMMA SendKeeps == IInv /\ Send => IInv'
<1> SUFFICES ASSUME IInv, Send PROVE IInv'
  OBVIOUS
<1> USE DEF IInv
<1>1. /\ process = "alive" /\ master = "send" /\ master' = "loop"
      /\ UNCHANGED <<setup, files, i, status, threads, conns, destroy>>
  BY DEF Send, MasterRuns
<1>2. \/ inpipe' = [inpipe EXCEPT ![Chosen] = @ + 1] /\ UNCHANGED process
      \/ process' = "sigpipe" /\ UNCHANGED inpipe
      \/ UNCHANGED <<inpipe, process>>
  BY DEF Send
<1>3. /\ inpipe' \in [Reactors -> Nat] /\ process' \in {"alive", "sigpipe"}
      /\ \A r \in Reactors : inpipe[r] <= inpipe'[r] /\ inpipe'[r] <= inpipe[r] + 1
  <2> DEFINE c == Chosen
  <2> HIDE DEF c
  <2>1. inpipe \in [Reactors -> Nat]
    BY Counts DEF TypeOK
  <2>2. CASE inpipe' = [inpipe EXCEPT ![c] = @ + 1] /\ UNCHANGED process
    <3>1. ASSUME NEW r \in Reactors
          PROVE  inpipe'[r] = IF r = c THEN inpipe[r] + 1 ELSE inpipe[r]
      BY <2>1, <2>2
    <3>2. inpipe' = [r \in Reactors |-> inpipe'[r]]
      BY <2>1, <2>2
    <3>3. ASSUME NEW r \in Reactors
          PROVE  inpipe'[r] \in Nat /\ inpipe[r] <= inpipe'[r] /\ inpipe'[r] <= inpipe[r] + 1
      <4>1. inpipe[r] \in Nat
        BY <2>1
      <4>2. CASE r = c
        BY <3>1, <4>1, <4>2
      <4>3. CASE r # c
        BY <3>1, <4>1, <4>3
      <4> QED BY <4>2, <4>3
    <3> QED BY <1>1, <2>2, <3>2, <3>3
  <2>3. CASE UNCHANGED inpipe /\ process' \in {"alive", "sigpipe"}
    BY <2>1, <2>3
  <2> QED BY <1>1, <1>2, <2>2, <2>3 DEF c
<1>4. PipesOK' /\ inpipe' \in [Reactors -> 0 .. MaxConns]
  <2>1. conns.count \in 0 .. MaxConns /\ inpipe \in [Reactors -> 0 .. MaxConns]
    BY DEF TypeOK
  <2>2. ASSUME NEW r \in Reactors
        PROVE  inpipe'[r] <= conns.count /\ (react[r] = "pipe" => inpipe'[r] > 0)
    <3>1. inpipe[r] + 1 <= conns.count /\ (react[r] = "pipe" => inpipe[r] > 0)
      BY <1>1 DEF PipesOK
    <3> QED BY <1>3, <2>1, <3>1, Counts
  <2> QED BY <1>1, <1>3, <2>1, <2>2, Counts DEF PipesOK, threads
<1>5. TypeOK'
  BY <1>1, <1>3, <1>4 DEF TypeOK, setup, threads
<1>6. ThreadsOK'
  BY <1>1 DEF ThreadsOK, Gone, setup, threads
<1> QED BY <1>1, <1>4, <1>5, <1>6, HeldSame, FilesSame DEF setup

\* The threads of reactors and workers: none of them has been joined.
LEMMA PipeReportedKeeps == ASSUME IInv, NEW r \in Reactors, PipeReported(r) PROVE IInv'
<1> USE DEF IInv
<1>1. /\ process = "alive" /\ react[r] = "loop" /\ inpipe[r] > 0
      /\ react' = [react EXCEPT ![r] = "pipe"]
      /\ UNCHANGED <<process, setup, files, master, i, status, rstatus, inpipe, ustatus, worker,
                     conns, destroy>>
  BY DEF PipeReported
<1>2. TypeOK'
  BY <1>1 DEF TypeOK, setup
<1>3. ThreadsOK'
  BY <1>1 DEF ThreadsOK, TypeOK, Gone, setup
<1>4. PipesOK'
  BY <1>1 DEF PipesOK, TypeOK
<1> QED BY <1>1, <1>2, <1>3, <1>4, HeldSame, FilesSame DEF setup

LEMMA PipeReadKeeps == ASSUME IInv, NEW r \in Reactors, PipeRead(r) PROVE IInv'
<1> USE DEF IInv
<1>1. /\ process = "alive" /\ react[r] = "pipe" /\ react' = [react EXCEPT ![r] = "loop"]
      /\ inpipe' \in {[inpipe EXCEPT ![r] = @ - 1], inpipe}
      /\ UNCHANGED <<process, setup, files, master, i, status, rstatus, ustatus, worker, conns,
                     destroy>>
  BY DEF PipeRead
<1>2. /\ inpipe' \in [Reactors -> 0 .. MaxConns]
      /\ \A q \in Reactors : inpipe'[q] <= inpipe[q] /\ (q # r => inpipe'[q] = inpipe[q])
  <2>1. inpipe \in [Reactors -> 0 .. MaxConns] /\ inpipe[r] > 0
    BY <1>1 DEF TypeOK, PipesOK
  <2>2. CASE inpipe' = inpipe
    BY <2>1, <2>2, Counts
  <2>3. CASE inpipe' = [inpipe EXCEPT ![r] = @ - 1]
    <3>1. inpipe[r] - 1 \in 0 .. MaxConns /\ inpipe[r] - 1 <= inpipe[r]
      BY <2>1, Counts
    <3>2. \A q \in Reactors : inpipe'[q] = IF q = r THEN inpipe[r] - 1 ELSE inpipe[q]
      BY <2>1, <2>3
    <3>3. inpipe' \in [Reactors -> 0 .. MaxConns]
      BY <2>1, <2>3, <3>1
    <3>4. ASSUME NEW q \in Reactors PROVE inpipe'[q] <= inpipe[q]
      BY <2>1, <3>1, <3>2, Counts
    <3> QED BY <3>2, <3>3, <3>4
  <2> QED BY <1>1, <2>2, <2>3
<1>3. TypeOK'
  BY <1>1, <1>2 DEF TypeOK, setup
<1>4. ThreadsOK'
  BY <1>1 DEF ThreadsOK, TypeOK, Gone, setup
<1>5. PipesOK'
  <2>1. /\ react'[r] = "loop"
        /\ \A q \in Reactors : q # r => react'[q] = react[q]
    BY <1>1 DEF TypeOK
  <2>2. ASSUME NEW q \in Reactors
        PROVE  /\ inpipe'[q] + (IF master = "send" THEN 1 ELSE 0) <= conns.count
               /\ react'[q] = "pipe" => inpipe'[q] > 0
    <3>1. inpipe[q] \in Nat /\ inpipe'[q] \in Nat /\ conns.count \in Nat
      BY <1>2, Counts DEF TypeOK
    <3>2. /\ inpipe[q] + (IF master = "send" THEN 1 ELSE 0) <= conns.count
          /\ react[q] = "pipe" => inpipe[q] > 0
      BY DEF PipesOK
    <3>3. react'[q] = "pipe" => react[q] = "pipe" /\ q # r
      BY <2>1
    <3>4. react'[q] = "pipe" => inpipe'[q] > 0
      BY <1>2, <3>2, <3>3
    <3>5. inpipe'[q] <= inpipe[q]
      BY <1>2
    <3>6. CASE master = "send"
      BY <3>1, <3>2, <3>4, <3>5, <3>6
    <3>7. CASE master # "send"
      BY <3>1, <3>2, <3>4, <3>5, <3>7
    <3> QED BY <3>6, <3>7
  <2> QED BY <1>1, <2>2 DEF PipesOK
<1> QED BY <1>1, <1>3, <1>4, <1>5, HeldSame, FilesSame DEF setup

LEMMA ReactorLeavesKeeps == ASSUME IInv, NEW r \in Reactors, ReactorLeaves(r) PROVE IInv'
<1> USE DEF IInv
<1>1. /\ process = "alive" /\ react[r] = "loop"
      /\ react' = [react EXCEPT ![r] = "done"]
      /\ UNCHANGED <<process, setup, files, master, i, status, rstatus, inpipe, ustatus, worker,
                     conns, destroy>>
  BY DEF ReactorLeaves
<1>2. TypeOK'
  BY <1>1 DEF TypeOK, setup
<1>3. ThreadsOK'
  BY <1>1 DEF ThreadsOK, TypeOK, Gone, setup
<1>4. PipesOK'
  BY <1>1 DEF PipesOK, TypeOK
<1> QED BY <1>1, <1>2, <1>3, <1>4, HeldSame, FilesSame DEF setup

LEMMA WorkerLeavesKeeps == ASSUME IInv, NEW u \in Units, WorkerLeaves(u) PROVE IInv'
<1> USE DEF IInv
<1>1. /\ process = "alive" /\ worker[u] = "loop"
      /\ worker' = [worker EXCEPT ![u] = "done"]
      /\ UNCHANGED <<process, setup, files, master, i, status, rstatus, react, inpipe, ustatus,
                     conns, destroy>>
  BY DEF WorkerLeaves
<1>2. TypeOK'
  BY <1>1 DEF TypeOK, setup
<1>3. ThreadsOK'
  BY <1>1 DEF ThreadsOK, TypeOK, Gone, setup
<1> QED BY <1>1, <1>2, <1>3, HeldSame, FilesSame, PipesSame DEF setup

\* eb_srv_destroy begins: nothing is gone yet.
LEMMA DestroyBegins == IInv /\ eb_srv_destroy => IInv'
<1> SUFFICES ASSUME IInv, eb_srv_destroy PROVE IInv'
  OBVIOUS
<1> USE DEF IInv
<1>1. /\ process = "alive" /\ destroy = 0 /\ destroy' = 1 /\ master \in {"loop", "wait", "send"}
      /\ UNCHANGED <<process, setup, files, master, i, status, threads, inpipe, conns>>
  BY DEF eb_srv_destroy
<1>2. Gone = {} /\ Gone' = {} /\ Acquired' = Acquired
  BY <1>1 DEF Gone, Acquired, setup
<1>3. TypeOK'
  BY <1>1, Sizes DEF TypeOK, setup, threads
<1>4. ThreadsOK'
  BY <1>1, <1>2 DEF ThreadsOK, setup, threads
<1>5. HeldOK'
  BY <1>1, <1>2 DEF HeldOK, setup
<1>6. FilesOK'
  BY <1>1, <1>2 DEF FilesOK, IsOpen, setup
<1> QED BY <1>1, <1>3, <1>4, <1>5, <1>6, PipesSame DEF threads

\* A step of eb_srv_destroy takes away one thing, which was not gone, and a thread that
\* it joins is done.
LEMMA DestroyKeeps == IInv /\ Destroy => IInv'
<1> SUFFICES ASSUME IInv, Destroy PROVE IInv'
  OBVIOUS
<1> USE DEF IInv
<1> DEFINE o == Teardown[destroy]
<1>1. /\ process = "alive" /\ destroy \in DOMAIN Teardown /\ destroy' = destroy + 1
      /\ held' = held \ {o}
      /\ IF o \in Files THEN Close(no[o]) ELSE UNCHANGED files
      /\ status' = IF Now("stop") THEN 0 ELSE status
      /\ rstatus' = IF Now("rstop") THEN [rstatus EXCEPT ![Whose] = 0] ELSE rstatus
      /\ ustatus' = IF Now("ustop") THEN [ustatus EXCEPT ![Whose] = 0] ELSE ustatus
      /\ UNCHANGED <<process, step, no, master, i, react, inpipe, worker, conns>>
  BY DEF Destroy
<1>2. /\ \A r \in Reactors : o = <<"rjoin", r>> => react[r] = "done"
      /\ \A u \in Units : o = <<"ujoin", u>> => worker[u] = "done"
  BY <1>1 DEF Destroy, Now, Whose
<1>3. destroy > 0 /\ step = Len(Setup) /\ master \in {"loop", "wait", "send", "done"}
  <2>1. destroy > 0
    BY <1>1, Sizes
  <2> QED BY <2>1 DEF ThreadsOK
<1>4. Gone' = Gone \cup {o} /\ o \notin Gone
  <2>1. destroy \in Nat /\ \A k \in 1 .. destroy - 1 : k \in DOMAIN Teardown /\ k # destroy
    BY <1>1, Sizes
  <2>2. 1 .. destroy' - 1 = 1 .. destroy - 1 \cup {destroy}
    BY <1>1, <1>3, <2>1
  <2>3. Gone' = Gone \cup {o}
    BY <2>2 DEF Gone
  <2>4. o \notin Gone
    BY <1>1, <2>1, Belongings DEF Gone, Once
  <2> QED BY <2>3, <2>4
<1>5. Acquired' = Acquired /\ Acquired = Memory \cup Files
  <2>1. Acquired = ToSet(Setup)
    BY <1>3, Sizes DEF Acquired, ToSet
  <2>2. Acquired' = Acquired
    BY <1>1 DEF Acquired
  <2> QED BY <2>1, <2>2, Belongings
<1> HIDE DEF o
<1>6. ThreadsOK'
  <2>1. /\ \A r \in Reactors : <<"rjoin", r>> \in Gone' => react[r] = "done"
        /\ \A u \in Units : <<"ujoin", u>> \in Gone' => worker[u] = "done"
    BY <1>2, <1>4 DEF ThreadsOK
  <2> QED BY <1>1, <1>3, <2>1 DEF ThreadsOK
<1>7. HeldOK'
  <2>1. held = (Acquired \cap Memory) \ Gone
    BY <1>1 DEF HeldOK
  <2> QED BY <1>1, <1>4, <1>5, <2>1 DEF HeldOK
<1>8. PipesOK'
  BY <1>1, PipesSame
<1>9. /\ DOMAIN files' \subseteq DOMAIN files
      /\ \A m \in DOMAIN files' : files'[m] = files[m]
      /\ o \in Files => no[o] \notin DOMAIN files'
      /\ \A m \in DOMAIN files \ DOMAIN files' : o \in Files /\ m = no[o]
  <2>1. CASE o \in Files
    <3>1. files' = [m \in DOMAIN files \ {no[o]} |-> files[m]]
      BY <1>1, <2>1 DEF Close
    <3>2. /\ DOMAIN files' = DOMAIN files \ {no[o]}
          /\ \A m \in DOMAIN files' : files'[m] = files[m]
      BY <3>1
    <3> QED BY <2>1, <3>2
  <2>2. CASE o \notin Files
    BY <1>1, <2>2
  <2> QED BY <2>1, <2>2
<1>10. TypeOK'
  <2>1. ToSet(files') \subseteq ToSet(files)
    BY <1>9 DEF ToSet
  <2>2. destroy' \in 0 .. Len(Teardown) + 1
    BY <1>1, Sizes
  <2>3. rstatus' \in [Reactors -> {0, 1}] /\ ustatus' \in [Units -> {0, 1}] /\ status' \in {0, 1}
    BY <1>1 DEF TypeOK
  <2> QED BY <1>1, <1>9, <2>1, <2>2, <2>3 DEF TypeOK
<1>11. FilesOK'
  <2>1. ASSUME NEW m \in DOMAIN files', files'[m] \in Files
        PROVE  no[files'[m]] = m /\ files'[m] \in Acquired \ Gone'
    <3>1. m \in DOMAIN files /\ files'[m] = files[m]
      BY <1>9
    <3>2. no[files[m]] = m /\ files[m] \in Acquired \ Gone
      BY <2>1, <3>1 DEF FilesOK
    <3>3. files[m] # o
      BY <1>9, <2>1, <3>1, <3>2
    <3> QED BY <1>4, <3>1, <3>2, <3>3
  <2>2. ASSUME NEW x \in (Acquired \cap Files) \ Gone'
        PROVE  no[x] \in DOMAIN files' /\ files'[no[x]] = x
    <3>1. x \notin Gone /\ x # o
      BY <1>4
    <3>2. no[x] \in DOMAIN files /\ files[no[x]] = x
      BY <3>1 DEF FilesOK, IsOpen
    <3>3. no[x] \in DOMAIN files'
      <4>1. SUFFICES ASSUME no[x] \notin DOMAIN files' PROVE FALSE
        OBVIOUS
      <4>2. o \in Files /\ no[x] = no[o]
        BY <1>9, <3>2, <4>1
      <4>3. o \in (Acquired \cap Files) \ Gone
        BY <1>4, <1>5, <4>2
      <4>4. files[no[o]] = o
        BY <4>3 DEF FilesOK, IsOpen
      <4> QED BY <3>1, <3>2, <4>2, <4>4
    <3> QED BY <1>9, <3>2, <3>3
  <2>3. /\ IsFiniteSet(DOMAIN files')
        /\ Cardinality(DOMAIN files') <= step' + conns'.count
    <3>1. IsFiniteSet(DOMAIN files) /\ Cardinality(DOMAIN files) <= step + conns.count
      BY DEF FilesOK
    <3>2. /\ IsFiniteSet(DOMAIN files') /\ Cardinality(DOMAIN files') \in Nat
          /\ Cardinality(DOMAIN files') <= Cardinality(DOMAIN files)
          /\ Cardinality(DOMAIN files) \in Nat
      BY <1>9, <3>1, FS_Subset, FS_CardinalityType
    <3>3. step \in Nat /\ conns.count \in Nat /\ step' = step /\ conns' = conns
      BY <1>1 DEF TypeOK
    <3> QED BY <3>1, <3>2, <3>3
  <2> QED BY <1>1, <1>5, <2>1, <2>2, <2>3 DEF FilesOK, IsOpen
<1> QED BY <1>6, <1>7, <1>8, <1>10, <1>11

LEMMA NextHolds == IInv /\ [Next]_vars => IInv'
<1> SUFFICES ASSUME IInv, [Next]_vars PROVE IInv'
  OBVIOUS
<1>1. CASE UNCHANGED vars
  <2>1. TypeOK'
    BY <1>1 DEF IInv, TypeOK, vars
  <2> QED BY <1>1, <2>1, ThreadsSame, HeldSame, FilesSame, PipesSame DEF IInv, vars
<1>2. ASSUME NEW r \in Reactors, Reactor(r) PROVE IInv'
  BY <1>2, PipeReportedKeeps, PipeReadKeeps, ReactorLeavesKeeps DEF Reactor
<1>3. ASSUME NEW u \in Units, WorkerLeaves(u) PROVE IInv'
  BY <1>3, WorkerLeavesKeeps
<1> QED
  BY <1>1, <1>2, <1>3, AcquireKeeps, AcquireFailsKeeps, StartKeeps, StartReactorKeeps,
     StartWorkerKeeps, MasterTestsKeeps, MasterTimesOutKeeps, AcceptKeeps, SendKeeps,
     DestroyBegins, DestroyKeeps, Zenon
  DEF Next

LEMMA Always == Spec => []IInv
<1> QED BY InitHolds, NextHolds, PTL DEF Spec

\* The type invariant, for any number of reactors, workers and connections: a number for a
\* new descriptor never runs out, and no pipe underflows.
THEOREM LifeTypeOK == Spec => []TypeOK
<1>1. IInv => TypeOK
  BY DEF IInv
<1> QED BY <1>1, Always, PTL
-----------------------------------------------------------------------------
(* What eb_srv_destroy may do, and what it leaves. *)

\* Memory is freed only after every join, and a thread that runs has not been joined.
LEMMA RunningHoldsMemory ==
  ASSUME IInv, NEW j \in DOMAIN Teardown, Teardown[j][1] \in {"rjoin", "ujoin"},
         Teardown[j] \notin Gone, master # "off"
  PROVE  held = Memory
<1>1. step = Len(Setup)
  BY DEF IInv, ThreadsOK
<1>2. Acquired = ToSet(Setup)
  BY <1>1, Sizes DEF Acquired, ToSet
<1>3. Acquired \cap Memory = Memory
  BY <1>2, Belongings
<1>4. ASSUME NEW k \in 1 .. destroy - 1, Teardown[k] \in Memory PROVE FALSE
  <2>1. destroy \in 0 .. Len(Teardown) + 1
    BY DEF IInv, TypeOK
  <2>2. k \in DOMAIN Teardown
    BY <2>1, Sizes
  <2>3. j < k
    BY <1>4, <2>2, Belongings
  <2>4. j \in 1 .. destroy - 1
    BY <2>1, <2>3, Sizes
  <2> QED BY <2>4 DEF Gone
<1>5. Gone \cap Memory = {}
  BY <1>4 DEF Gone
<1> QED BY <1>1, <1>3, <1>5 DEF IInv, HeldOK

\* eb_srv_destroy frees nothing that a reactor or a worker can still touch, whatever they
\* are doing when it is called.
THEOREM NothingFreedInUse == Spec => []ThreadsUseHeld
<1>1. ASSUME IInv, NEW r \in Reactors, react[r] \in {"loop", "pipe"}
      PROVE  UsedByReactor(r) \subseteq held
  <2>1. master # "off" /\ <<"rjoin", r>> \notin Gone
    BY <1>1 DEF IInv, ThreadsOK
  <2>2. PICK j \in DOMAIN Teardown : Teardown[j] = <<"rjoin", r>>
    BY Belongings DEF ToSet
  <2>3. Teardown[j][1] = "rjoin"
    BY <2>2, Belongings
  <2>4. held = Memory
    BY <1>1, <2>1, <2>2, <2>3, RunningHoldsMemory
  <2> QED BY <2>4, Belongings
<1>2. ASSUME IInv, NEW u \in Units, worker[u] = "loop"
      PROVE  UsedByWorker(u) \subseteq held
  <2>1. master # "off" /\ <<"ujoin", u>> \notin Gone
    BY <1>2 DEF IInv, ThreadsOK
  <2>2. PICK j \in DOMAIN Teardown : Teardown[j] = <<"ujoin", u>>
    BY Belongings DEF ToSet
  <2>3. Teardown[j][1] = "ujoin"
    BY <2>2, Belongings
  <2>4. held = Memory
    BY <1>2, <2>1, <2>2, <2>3, RunningHoldsMemory
  <2> QED BY <2>4, Belongings
<1>3. IInv => ThreadsUseHeld
  BY <1>1, <1>2 DEF ThreadsUseHeld
<1> QED BY <1>3, Always, PTL

\* Once eb_srv_destroy has begun, all of Setup had been acquired.
LEMMA DestroyedWasComplete ==
  ASSUME IInv, destroy > 0
  PROVE  /\ Acquired = Memory \cup Files
         /\ held = Memory \ Gone
<1>1. step = Len(Setup)
  BY DEF IInv, ThreadsOK
<1>2. Acquired = ToSet(Setup)
  BY <1>1, Sizes DEF Acquired, ToSet
<1> QED BY <1>1, <1>2, Belongings DEF IInv, HeldOK

\* eb_srv_destroy frees only what is allocated, and closes under a number only the
\* descriptor it was given for, although accept hands closed numbers out again.
THEOREM DestroyFreesItsOwn == Spec => []FreesItsOwn
<1>1. ASSUME IInv, destroy \in DOMAIN Teardown
      PROVE  LET o == Teardown[destroy]
             IN  /\ o \in Memory => o \in held
                 /\ o \in Files => IsOpen(no[o], o)
  <2> DEFINE o == Teardown[destroy]
  <2>1. destroy > 0 /\ destroy \in Nat
    BY <1>1, Sizes
  <2>2. o \notin Gone
    <3>1. \A k \in 1 .. destroy - 1 : k \in DOMAIN Teardown /\ k # destroy
      BY <1>1, <2>1, Sizes
    <3> QED BY <1>1, <3>1, Belongings DEF Gone, Once
  <2> HIDE DEF o
  <2>3. o \in Memory => o \in held
    BY <1>1, <2>1, <2>2, DestroyedWasComplete
  <2>4. o \in Files => IsOpen(no[o], o)
    BY <1>1, <2>1, <2>2, DestroyedWasComplete DEF IInv, FilesOK
  <2> QED BY <2>3, <2>4 DEF o
<1>2. IInv => FreesItsOwn
  BY <1>1 DEF FreesItsOwn
<1> QED BY <1>2, Always, PTL

\* eb_srv_destroy gives back all that eb_srv_new and eb_srv_listen acquired; only the
\* connections, which the library never closes, stay open.
THEOREM DestroyLeavesNothing == Spec => []NothingLeft
<1>1. ASSUME IInv, destroy > Len(Teardown)
      PROVE  held = {} /\ ToSet(files) \subseteq Conns
  <2>1. destroy > 0 /\ destroy - 1 = Len(Teardown)
    BY <1>1, Sizes DEF IInv, TypeOK
  <2>2. Gone = ToSet(Teardown)
    BY <2>1, Sizes DEF Gone, ToSet
  <2>3. Memory \cup Files \subseteq Gone
    BY <2>2, Belongings
  <2>4. held = {}
    BY <1>1, <2>1, <2>3, DestroyedWasComplete
  <2>5. ASSUME NEW n \in DOMAIN files PROVE files[n] \in Conns
    <3>1. files[n] \in Files \cup Conns
      BY <1>1 DEF IInv, TypeOK, ToSet
    <3>2. files[n] \notin Files
      BY <1>1, <2>3 DEF IInv, FilesOK
    <3> QED BY <3>1, <3>2
  <2> QED BY <2>4, <2>5 DEF ToSet
<1>2. IInv => NothingLeft
  BY <1>1 DEF NothingLeft
<1> QED BY <1>2, Always, PTL
=============================================================================
