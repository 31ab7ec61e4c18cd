-------------------------- MODULE BaseDataProofs ---------------------------
(***************************************************************************)
(* The data structures an event base is made of: the links of its ready    *)
(* queues, for any number of bases and events, and the two kinds of array  *)
(* in ebot.c that grow by doubling.                                        *)
(***************************************************************************)
EXTENDS TailQ, WaitTables, FiniteSetTheorems, SequenceTheorems, WellFoundedInduction, TLAPS
-----------------------------------------------------------------------------
(* The ready queues.                                                       *)
(*                                                                         *)
(* LinksAgree alone is not inductive: it does not say that the queue an    *)
(* element is removed from is the one whose end moves.  OwnedBy names the  *)
(* base to whose queue each link belongs.                                  *)
(*                                                                         *)
(* That the links implement the queues of ReadyQueue is proved with the    *)
(* queues themselves as the witness: Queues(q) says that the links spell   *)
(* out q, and each operation on links is the one on q.                     *)

\* Links belong to bases: every queued link to the base whose head leads to it, and the end
\* of a base's queue is the one link of its own that leads nowhere.
OwnedBy(own) ==
  /\ own \in [Links -> Bases]
  /\ \A b \in Bases : own[b] = b /\ own[last[b]] = b
  /\ \A l \in Links : Held(l) =>
       IF next[l] = NULL THEN last[own[l]] = l ELSE own[next[l]] = own[l]

IInv == TypeOK /\ LinksAgree /\ NoNullWrite /\ \E own : OwnedBy(own)

LEMMA InitHolds == Init => IInv
<1> SUFFICES ASSUME Init PROVE IInv
  OBVIOUS
<1> USE TailQAssumption DEF Links
<1>1. fault \in BOOLEAN /\ NoNullWrite
  BY Zenon DEF Init, NoNullWrite
<1>2. TypeOK
  BY <1>1 DEF Init, TypeOK
<1>3. LinksAgree
  BY DEF Init, LinksAgree, Held
<1>4. \E own : OwnedBy(own)
  <2>1. PICK c \in Bases : TRUE
    OBVIOUS
  <2> DEFINE own == [l \in Links |-> IF l \in Bases THEN l ELSE c]
  <2>2. own \in [Links -> Bases]
    OBVIOUS
  <2>3. \A b \in Bases : own[b] = b /\ own[last[b]] = b
    BY DEF Init
  <2>4. ASSUME NEW l \in Links, Held(l)
        PROVE  next[l] = NULL /\ last[own[l]] = l
    <3>1. l \in Bases
      BY <2>4 DEF Init, Held
    <3> QED BY <3>1 DEF Init
  <2> QED BY <2>2, <2>3, <2>4 DEF OwnedBy
<1> QED BY <1>1, <1>2, <1>3, <1>4 DEF IInv

\* An event joins a queue at its end.
LEMMA QueueKeeps ==
  ASSUME IInv, NEW b \in Bases, NEW e \in Events, queued_event_readies(b, e)
  PROVE  IInv'
<1> USE TailQAssumption DEF Links
<1> DEFINE l == last[b]
<1>1. PICK own : OwnedBy(own)
  BY DEF IInv
<1>2. /\ next' = [next EXCEPT ![e] = NULL, ![l] = e]
      /\ prev' = [prev EXCEPT ![e] = l]
      /\ last' = [last EXCEPT ![b] = e]
      /\ queued' = [queued EXCEPT ![e] = 1]
      /\ taken' = taken /\ fault' = fault /\ queued[e] = 0
  BY DEF queued_event_readies, TAILQ_INSERT_TAIL
<1>3. TypeOK /\ LinksAgree /\ NoNullWrite
  BY DEF IInv
<1>4. l \in Links /\ Held(l) /\ next[l] = NULL /\ ~Held(e) /\ l # e
  BY <1>2, <1>3 DEF TypeOK, LinksAgree, Held
<1>5. /\ next'[e] = NULL /\ next'[l] = e
      /\ \A m \in Links : m # e /\ m # l => next'[m] = next[m]
      /\ prev'[e] = l /\ \A d \in Events : d # e => prev'[d] = prev[d]
      /\ last'[b] = e /\ \A c \in Bases : c # b => last'[c] = last[c]
  BY <1>2, <1>3, <1>4 DEF TypeOK
<1>6. \A m \in Links : Held(m)' <=> Held(m) \/ m = e
  BY <1>2, <1>3 DEF TypeOK, Held
<1>7. TypeOK'
  BY <1>2, <1>3, <1>4 DEF TypeOK
<1>8. NoNullWrite'
  BY <1>2, <1>3, Zenon DEF NoNullWrite
<1>9. LinksAgree'
  <2>1. ASSUME NEW d \in Events, queued'[d] = 1
        PROVE  prev'[d] \in Links /\ Held(prev[d])' /\ next'[prev'[d]] = d
    <3>1. CASE d = e
      BY <3>1, <1>4, <1>5, <1>6, <1>7 DEF TypeOK, Held
    <3>2. CASE d # e
      <4>1. queued[d] = 1
        BY <2>1, <3>2, <1>2, <1>3 DEF TypeOK
      <4>2. prev[d] \in Links /\ Held(prev[d]) /\ next[prev[d]] = d
        BY <4>1, <1>3 DEF LinksAgree
      <4>3. prev[d] # l /\ prev[d] # e
        BY <4>2, <1>4
      <4> QED BY <4>2, <4>3, <3>2, <1>5, <1>6 DEF Held
    <3> QED BY <3>1, <3>2
  <2>2. ASSUME NEW m \in Links, Held(m)', next'[m] # NULL
        PROVE  queued'[next'[m]] = 1 /\ prev'[next'[m]] = m
    <3>1. CASE m = l
      BY <3>1, <1>2, <1>3, <1>5 DEF TypeOK
    <3>2. CASE m # l
      <4>1. m # e /\ Held(m) /\ next'[m] = next[m]
        BY <2>2, <3>2, <1>5, <1>6
      <4>2. next[m] \in Events /\ queued[next[m]] = 1 /\ prev[next[m]] = m
        BY <4>1, <2>2, <1>3 DEF TypeOK, LinksAgree
      <4> QED BY <4>1, <4>2, <1>2, <1>3, <1>5 DEF TypeOK
    <3> QED BY <3>1, <3>2
  <2>3. ASSUME NEW c \in Bases
        PROVE  Held(last[c])' /\ next'[last'[c]] = NULL
    <3>1. CASE c = b
      BY <3>1, <1>2, <1>3, <1>5 DEF TypeOK, Held
    <3>2. CASE c # b
      <4>1. last[c] \in Links /\ Held(last[c]) /\ next[last[c]] = NULL
        BY <1>3 DEF TypeOK, LinksAgree
      <4>2. last[c] # l /\ last[c] # e
        BY <4>1, <3>2, <1>1, <1>4 DEF OwnedBy
      <4>3. last'[c] = last[c]
        BY <3>2, <1>5
      <4>4. Held(last[c])'
        BY <4>1, <4>3, <1>2, <1>3 DEF TypeOK, Held
      <4> QED BY <4>1, <4>2, <4>3, <4>4, <1>5
    <3> QED BY <3>1, <3>2
  <2> QED BY <2>1, <2>2, <2>3 DEF LinksAgree
<1>10. OwnedBy([own EXCEPT ![e] = b])'
  <2> DEFINE new == [own EXCEPT ![e] = b]
  <2>1. /\ new \in [Links -> Bases] /\ new[e] = b
        /\ \A m \in Links : m # e => new[m] = own[m]
    BY <1>1 DEF OwnedBy
  <2>2. \A c \in Bases : new[c] = c /\ new[last'[c]] = c
    <3>1. \A c \in Bases : c # e /\ last[c] \in Links /\ last[c] # e
      BY <1>3, <1>2 DEF TypeOK, LinksAgree, Held
    <3> QED BY <3>1, <2>1, <1>1, <1>5 DEF OwnedBy
  <2>3. ASSUME NEW m \in Links, Held(m)'
        PROVE  IF next'[m] = NULL THEN last'[new[m]] = m ELSE new[next'[m]] = new[m]
    <3>1. CASE m = e
      BY <3>1, <2>1, <1>5
    <3>2. CASE m = l
      BY <3>2, <2>1, <1>1, <1>4, <1>5 DEF OwnedBy
    <3>3. CASE m # e /\ m # l
      <4>1. Held(m) /\ next'[m] = next[m] /\ new[m] = own[m] /\ own[m] \in Bases
        BY <3>3, <2>1, <2>3, <1>1, <1>5, <1>6 DEF OwnedBy
      <4>2. IF next[m] = NULL THEN last[own[m]] = m ELSE own[next[m]] = own[m]
        BY <4>1, <1>1 DEF OwnedBy
      <4>3. CASE next[m] = NULL
        <5>1. own[m] # b
          BY <4>2, <4>3, <3>3
        <5> QED BY <5>1, <4>1, <4>2, <4>3, <1>5
      <4>4. CASE next[m] # NULL
        <5>1. next[m] \in Events /\ next[m] # e
          BY <4>1, <4>4, <1>2, <1>3 DEF TypeOK, LinksAgree
        <5> QED BY <5>1, <4>1, <4>2, <4>4, <2>1
      <4> QED BY <4>3, <4>4
    <3> QED BY <3>1, <3>2, <3>3
  <2> QED BY <2>1, <2>2, <2>3 DEF OwnedBy
<1> QED BY <1>7, <1>8, <1>9, <1>10 DEF IInv

\* The first event of a queue leaves it: its back link is the head's own link, so nothing is
\* written through NULL, and the end moves only when the event was the last.
LEMMA DispatchKeeps ==
  ASSUME IInv, NEW b \in Bases, dispatch_events(b)
  PROVE  IInv'
<1> USE TailQAssumption DEF Links
<1> DEFINE e == next[b]
           f == next[e]
<1>1. PICK own : OwnedBy(own)
  BY DEF IInv
<1>2. TypeOK /\ LinksAgree /\ NoNullWrite
  BY DEF IInv
<1>3. e \in Events /\ queued[e] = 1 /\ prev[e] = b /\ Held(b) /\ Held(e)
  BY <1>2 DEF dispatch_events, TAILQ_FIRST, TypeOK, LinksAgree, Held
<1>4. /\ next' = [next EXCEPT ![b] = f]
      /\ prev' = IF f # NULL THEN [prev EXCEPT ![f] = b] ELSE prev
      /\ last' = IF f # NULL THEN last ELSE [last EXCEPT ![b] = b]
      /\ queued' = [queued EXCEPT ![e] = 0]
      /\ taken' = e /\ fault' = fault
  BY <1>3 DEF dispatch_events, TAILQ_FIRST, TAILQ_REMOVE, LastAfter
<1>5. /\ next'[b] = f /\ \A m \in Links : m # b => next'[m] = next[m]
      /\ queued'[e] = 0 /\ \A d \in Events : d # e => queued'[d] = queued[d]
  BY <1>2, <1>3, <1>4 DEF TypeOK
<1>6. \A m \in Links : Held(m)' <=> Held(m) /\ m # e
  BY <1>2, <1>3, <1>5 DEF TypeOK, Held
<1>7. f # NULL => f \in Events /\ f # e /\ queued[f] = 1 /\ prev[f] = e
  BY <1>2, <1>3 DEF TypeOK, LinksAgree
<1>8. /\ f # NULL => prev'[f] = b
      /\ \A d \in Events : d # f => prev'[d] = prev[d]
  BY <1>2, <1>4, <1>7 DEF TypeOK
<1>9. \A m \in Links : Held(m) /\ next[m] = NULL /\ f = NULL /\ own[m] = b => m = e
  <2>1. own[e] = b
    BY <1>1, <1>3 DEF OwnedBy
  <2>2. f = NULL => last[b] = e
    BY <2>1, <1>1, <1>3 DEF OwnedBy
  <2> QED BY <2>2, <1>1 DEF OwnedBy
<1>10. TypeOK'
  BY <1>2, <1>3, <1>4, <1>7 DEF TypeOK
<1>11. NoNullWrite'
  BY <1>2, <1>4, Zenon DEF NoNullWrite
<1>12. LinksAgree'
  <2>1. ASSUME NEW d \in Events, queued'[d] = 1
        PROVE  prev'[d] \in Links /\ Held(prev[d])' /\ next'[prev'[d]] = d
    <3>1. d # e /\ queued[d] = 1
      BY <2>1, <1>5
    <3>2. CASE d = f
      BY <3>1, <3>2, <1>3, <1>5, <1>7, <1>8, <1>10 DEF TypeOK, Held
    <3>3. CASE d # f
      <4>1. prev[d] \in Links /\ Held(prev[d]) /\ next[prev[d]] = d
        BY <3>1, <1>2 DEF LinksAgree
      <4>2. prev[d] # e /\ prev[d] # b
        BY <4>1, <3>1, <3>3
      <4>3. prev'[d] = prev[d]
        BY <3>3, <1>8
      <4>4. Held(prev[d])'
        BY <4>1, <4>2, <4>3, <1>5 DEF Held
      <4> QED BY <4>1, <4>2, <4>3, <4>4, <1>5
    <3> QED BY <3>2, <3>3
  <2>2. ASSUME NEW m \in Links, Held(m)', next'[m] # NULL
        PROVE  queued'[next'[m]] = 1 /\ prev'[next'[m]] = m
    <3>1. CASE m = b
      BY <2>2, <3>1, <1>5, <1>7, <1>8
    <3>2. CASE m # b
      <4>1. Held(m) /\ m # e /\ next'[m] = next[m]
        BY <2>2, <3>2, <1>5, <1>6
      <4>2. next[m] \in Events /\ queued[next[m]] = 1 /\ prev[next[m]] = m
        BY <4>1, <2>2, <1>2 DEF TypeOK, LinksAgree
      <4>3. next[m] # e /\ next[m] # f
        BY <4>1, <4>2, <3>2, <1>3, <1>7
      <4> QED BY <4>1, <4>2, <4>3, <1>5, <1>8
    <3> QED BY <3>1, <3>2
  <2>3. ASSUME NEW c \in Bases
        PROVE  Held(last[c])' /\ next'[last'[c]] = NULL
    <3>1. last[c] \in Links /\ Held(last[c]) /\ next[last[c]] = NULL /\ last[c] # b
      BY <1>2, <1>3 DEF TypeOK, LinksAgree
    <3>2. CASE f = NULL /\ c = b
      <4>1. last'[c] = b
        BY <3>2, <1>2, <1>4 DEF TypeOK
      <4> QED BY <4>1, <3>2, <1>5 DEF Held
    <3>3. CASE f # NULL \/ c # b
      <4>1. last'[c] = last[c]
        BY <3>3, <1>2, <1>4 DEF TypeOK
      <4>2. last[c] # e
        <5>1. own[e] = b /\ own[last[c]] = c
          BY <1>1, <1>3 DEF OwnedBy
        <5> QED BY <5>1, <3>1, <3>3
      <4>3. Held(last[c])'
        BY <4>1, <4>2, <3>1, <1>5 DEF Held
      <4> QED BY <4>1, <4>3, <3>1, <1>5
    <3> QED BY <3>2, <3>3
  <2> QED BY <2>1, <2>2, <2>3 DEF LinksAgree
<1>13. OwnedBy(own)'
  <2>1. own \in [Links -> Bases] /\ \A c \in Bases : own[c] = c
    BY <1>1 DEF OwnedBy
  <2>2. \A c \in Bases : own[last'[c]] = c
    BY <2>1, <1>1, <1>2, <1>4 DEF OwnedBy, TypeOK
  <2>3. ASSUME NEW m \in Links, Held(m)'
        PROVE  IF next'[m] = NULL THEN last'[own[m]] = m ELSE own[next'[m]] = own[m]
    <3>1. Held(m) /\ m # e /\ own[m] \in Bases
      BY <2>1, <2>3, <1>6
    <3>2. CASE m = b
      <4>1. f = NULL => last'[b] = b
        BY <1>2, <1>4 DEF TypeOK
      <4>2. f # NULL => own[f] = own[e] /\ own[e] = own[b]
        BY <1>1, <1>3 DEF OwnedBy
      <4> QED BY <3>2, <4>1, <4>2, <2>1, <1>5
    <3>3. CASE m # b
      <4>1. next'[m] = next[m]
        BY <3>3, <1>5
      <4>2. next[m] = NULL => last'[own[m]] = last[own[m]]
        BY <3>1, <1>2, <1>4, <1>9 DEF TypeOK
      <4> QED BY <3>1, <4>1, <4>2, <1>1 DEF OwnedBy
    <3> QED BY <3>2, <3>3
  <2> QED BY <2>1, <2>2, <2>3 DEF OwnedBy
<1> QED BY <1>10, <1>11, <1>12, <1>13 DEF IInv

\* What an event outside the queues points to does not matter.
LEMMA SetKeeps ==
  ASSUME IInv, NEW e \in Events, event_set(e)
  PROVE  IInv'
<1> USE TailQAssumption DEF Links
<1>1. PICK own : OwnedBy(own)
  BY DEF IInv
<1>2. TypeOK /\ LinksAgree /\ NoNullWrite /\ queued[e] = 0
  BY DEF IInv, event_set
<1>3. /\ \A m \in Links : m # e => next'[m] = next[m]
      /\ \A d \in Events : d # e => prev'[d] = prev[d]
      /\ queued' = queued /\ last' = last /\ fault' = fault /\ taken' = taken
  BY <1>2 DEF event_set, TypeOK
<1>4. \A m \in Links : Held(m) => m # e /\ next'[m] = next[m]
  BY <1>2, <1>3 DEF Held
<1>5. TypeOK'
  BY <1>2, <1>3 DEF TypeOK, event_set
<1>6. NoNullWrite'
  BY <1>2, <1>3, Zenon DEF NoNullWrite
<1>7. LinksAgree'
  <2>1. \A d \in Events : queued[d] = 1 => prev'[d] = prev[d] /\ d # e
    BY <1>2, <1>3
  <2>2. \A d \in Events : queued'[d] = 1 =>
          prev'[d] \in Links /\ Held(prev[d])' /\ next'[prev'[d]] = d
    BY <2>1, <1>2, <1>3, <1>4 DEF LinksAgree, Held
  <2>3. \A m \in Links : Held(m)' /\ next'[m] # NULL =>
          queued'[next'[m]] = 1 /\ prev'[next'[m]] = m
    BY <2>1, <1>2, <1>3, <1>4 DEF LinksAgree, Held, TypeOK
  <2>4. \A c \in Bases : Held(last[c])' /\ next'[last'[c]] = NULL
    BY <1>2, <1>3, <1>4 DEF LinksAgree, Held, TypeOK
  <2> QED BY <2>2, <2>3, <2>4 DEF LinksAgree
<1>8. OwnedBy(own)'
  BY <1>1, <1>3, <1>4 DEF OwnedBy, Held
<1> QED BY <1>5, <1>6, <1>7, <1>8 DEF IInv

LEMMA LinksInductive == IInv /\ [Next]_vars => IInv'
<1> SUFFICES ASSUME IInv, [Next]_vars PROVE IInv'
  OBVIOUS
<1>1. CASE Next
  BY <1>1, QueueKeeps, DispatchKeeps, SetKeeps DEF Next
<1>2. CASE UNCHANGED vars
  <2>1. TypeOK' /\ LinksAgree'
    BY <1>2 DEF IInv, vars, TypeOK, LinksAgree, Held
  <2>2. NoNullWrite'
    BY <1>2, Zenon DEF IInv, vars, NoNullWrite
  <2>3. \A own : OwnedBy(own) => OwnedBy(own)'
    BY <1>2 DEF vars, OwnedBy, Held
  <2> QED BY <2>1, <2>2, <2>3 DEF IInv
<1> QED BY <1>1, <1>2

\* The links of every ready queue are whole at all times, for any number of bases and events.
THEOREM QueuesWellLinked == Spec => []LinksAgree
<1>1. IInv => LinksAgree
  BY DEF IInv
<1> QED BY <1>1, InitHolds, LinksInductive, PTL DEF Spec

\* dispatch_events never writes through a NULL link, as long as no queued event is set anew.
THEOREM NoRemovalFaults == Spec => []NoNullWrite
<1>1. IInv => NoNullWrite
  BY DEF IInv
<1> QED BY <1>1, InitHolds, LinksInductive, PTL DEF Spec

\* The type invariant, for any number of bases and events.
THEOREM TypeCorrect == Spec => []TypeOK
<1>1. IInv => TypeOK
  BY DEF IInv
<1> QED BY <1>1, InitHolds, LinksInductive, PTL DEF Spec
-----------------------------------------------------------------------------
\* A set of natural numbers that is not empty has a least member.
LEMMA LeastNumber ==
  ASSUME NEW T, T \subseteq Nat, T # {}
  PROVE  \E m \in T : \A n \in T : m <= n
<1> DEFINE R == {ss \in Nat \X Nat : ss[1] < ss[2]}
<1>1. IsWellFoundedOn(R, Nat)
  BY NatLessThanWellFounded DEF OpToRel
<1>2. \E m \in T : \A n \in T : <<n, m>> \notin R
  <2> HIDE DEF R
  <2> QED BY <1>1, WFMin
<1>3. PICK m \in T : \A n \in T : <<n, m>> \notin R
  BY <1>2
<1>4. ASSUME NEW n \in T PROVE m <= n
  <2>1. m \in Nat /\ n \in Nat
    OBVIOUS
  <2>2. <<n, m>> \in Nat \X Nat /\ <<n, m>>[1] = n /\ <<n, m>>[2] = m
    BY <2>1
  <2>3. ~(n < m)
    BY <1>3, <2>2
  <2> QED BY <2>1, <2>3
<1> QED BY <1>4

\* Following the links from h, when they spell out s, gives s and then NULL.
LEMMA PathSpellsOut ==
  ASSUME NEW n \in Nat, NEW h, NEW nx, NEW s \in Seq(Events), h # NULL, Len(s) <= n,
         nx[h] = IF s = <<>> THEN NULL ELSE s[1],
         \A i \in 1 .. Len(s) : nx[s[i]] = IF i = Len(s) THEN NULL ELSE s[i + 1]
  PROVE  \A i \in 1 .. n : Path(h, nx, n)[i] = IF i <= Len(s) THEN s[i] ELSE NULL
<1> DEFINE E(f) == [i \in 0 .. n |-> IF i = 0 THEN h
                                     ELSE IF f[i - 1] = NULL THEN NULL ELSE nx[f[i - 1]]]
           g == [i \in 0 .. n |-> IF i = 0 THEN h ELSE IF i <= Len(s) THEN s[i] ELSE NULL]
<1>1. Path(h, nx, n) = CHOOSE f : f = E(f)
  BY DEF Path
<1>2. ASSUME NEW i \in 0 .. n
      PROVE  g[i] = IF i = 0 THEN h ELSE IF g[i - 1] = NULL THEN NULL ELSE nx[g[i - 1]]
  <2>1. Len(s) \in Nat /\ \A j \in 1 .. Len(s) : s[j] \in Events /\ s[j] # NULL
    BY TailQAssumption
  <2>2. CASE i = 0
    BY <2>2
  <2>3. CASE i = 1
    <3>1. g[0] = h /\ 1 - 1 = 0
      OBVIOUS
    <3>2. s = <<>> <=> Len(s) = 0
      OBVIOUS
    <3>3. g[1] = IF 1 <= Len(s) THEN s[1] ELSE NULL
      BY <2>3
    <3> HIDE DEF g
    <3> QED BY <2>1, <2>3, <3>1, <3>2, <3>3
  <2>4. CASE i > 1
    <3> DEFINE j == i - 1
    <3>1. j \in 1 .. n /\ j + 1 = i /\ i # 0 /\ j # 0
      BY <2>4
    <3>2. g[j] = IF j <= Len(s) THEN s[j] ELSE NULL
      BY <3>1
    <3>3. g[i] = IF i <= Len(s) THEN s[i] ELSE NULL
      BY <3>1
    <3> HIDE DEF g, j
    <3>4. CASE j <= Len(s)
      <4>1. j \in 1 .. Len(s)
        BY <2>1, <3>1, <3>4
      <4>2. nx[s[j]] = IF j = Len(s) THEN NULL ELSE s[i]
        BY <3>1, <4>1
      <4>3. i <= Len(s) <=> j # Len(s)
        BY <2>1, <3>1, <4>1
      <4>4. s[j] # NULL
        BY <2>1, <4>1
      <4> QED BY <3>1, <3>2, <3>3, <3>4, <4>2, <4>3, <4>4 DEF j
    <3>5. CASE ~(j <= Len(s))
      <4>1. ~(i <= Len(s))
        BY <2>1, <3>1, <3>5
      <4> QED BY <3>1, <3>2, <3>3, <3>5, <4>1 DEF j
    <3> QED BY <3>4, <3>5
  <2> QED BY <2>2, <2>3, <2>4
<1>3. g = E(g)
  <2>1. g = [i \in 0 .. n |-> g[i]]
    OBVIOUS
  <2> HIDE DEF g
  <2> QED BY <1>2, <2>1
<1>4. ASSUME NEW f, f = E(f) PROVE \A i \in 0 .. n : f[i] = g[i]
  <2> DEFINE T == {i \in 0 .. n : f[i] # g[i]}
  <2> HIDE DEF g
  <2> SUFFICES ASSUME T # {} PROVE FALSE
    OBVIOUS
  <2>1. T \subseteq Nat
    OBVIOUS
  <2>2. PICK m \in T : \A i \in T : m <= i
    <3> HIDE DEF T
    <3> QED BY <2>1, LeastNumber
  <2>3. m \in 0 .. n /\ f[m] # g[m]
    OBVIOUS
  <2>4. f[m] = IF m = 0 THEN h ELSE IF f[m - 1] = NULL THEN NULL ELSE nx[f[m - 1]]
    BY <1>4, <2>3
  <2>5. g[m] = IF m = 0 THEN h ELSE IF g[m - 1] = NULL THEN NULL ELSE nx[g[m - 1]]
    BY <1>2, <2>3
  <2>6. m # 0
    BY <2>3, <2>4, <2>5
  <2>7. m - 1 \in 0 .. n /\ ~(m <= m - 1)
    BY <2>3, <2>6
  <2>8. f[m - 1] = g[m - 1]
    BY <2>2, <2>7
  <2> QED BY <2>3, <2>4, <2>5, <2>8
<1>5. ASSUME NEW i \in 1 .. n PROVE Path(h, nx, n)[i] = IF i <= Len(s) THEN s[i] ELSE NULL
  <2>1. g[i] = IF i <= Len(s) THEN s[i] ELSE NULL
    OBVIOUS
  <2> HIDE DEF E, g
  <2>2. Path(h, nx, n) = E(Path(h, nx, n))
    BY <1>1, <1>3
  <2>3. i \in 0 .. n
    OBVIOUS
  <2> QED BY <1>4, <2>1, <2>2, <2>3
<1> QED BY <1>5

\* The links nx and ls and the marks qd spell out the sequences q.
Spells(q, nx, ls, qd) ==
  /\ q \in [Bases -> Seq(Events)]
  /\ \A b \in Bases : nx[b] = IF q[b] = <<>> THEN NULL ELSE q[b][1]
  /\ \A b \in Bases : ls[b] = IF q[b] = <<>> THEN b ELSE q[b][Len(q[b])]
  /\ \A b \in Bases : \A i \in 1 .. Len(q[b]) :
       nx[q[b][i]] = IF i = Len(q[b]) THEN NULL ELSE q[b][i + 1]
  /\ \A b \in Bases : \A i \in 1 .. Len(q[b]) : qd[q[b][i]] = 1
  /\ \A b, c \in Bases : \A i \in 1 .. Len(q[b]), j \in 1 .. Len(q[c]) :
       q[b][i] = q[c][j] => b = c /\ i = j
  /\ \A e \in Events : qd[e] = 1 => \E b \in Bases : \E i \in 1 .. Len(q[b]) : q[b][i] = e

Queues(q) == Spells(q, next, last, queued)

\* A queue holds no event twice, so it is no longer than there are events.
LEMMA QueueLength ==
  ASSUME NEW s \in Seq(Events), \A i, j \in 1 .. Len(s) : s[i] = s[j] => i = j
  PROVE  Len(s) <= Cardinality(Events) /\ Cardinality(Events) \in Nat
<1>1. s \in Injection(1 .. Len(s), Events) /\ Len(s) \in Nat
  BY DEF Injection, IsInjective
<1>2. Cardinality(1 .. Len(s)) = Len(s)
  <2>1. 1 \in Int /\ Len(s) \in Int
    BY <1>1
  <2>2. Cardinality(1 .. Len(s)) = IF 1 > Len(s) THEN 0 ELSE Len(s) - 1 + 1
    BY <2>1, FS_Interval
  <2> QED BY <1>1, <2>2
<1>3. IsFiniteSet(Events)
  BY TailQAssumption
<1> QED BY <1>1, <1>2, <1>3, FS_Injection, FS_CardinalityType

\* What Chain reads off the links of a base is its queue.
LEMMA ChainOf ==
  ASSUME NEW nx, NEW b \in Bases, NEW s \in Seq(Events),
         \A i, j \in 1 .. Len(s) : s[i] = s[j] => i = j,
         nx[b] = IF s = <<>> THEN NULL ELSE s[1],
         \A i \in 1 .. Len(s) : nx[s[i]] = IF i = Len(s) THEN NULL ELSE s[i + 1]
  PROVE  Chain(b, nx) = s
<1>1. PICK N : N = Cardinality(Events)
  OBVIOUS
<1>2. PICK at : at = Path(b, nx, N)
  OBVIOUS
<1>3. Len(s) <= N /\ N \in Nat /\ Len(s) \in Nat /\ b # NULL
  BY <1>1, QueueLength, TailQAssumption
<1>4. \A i \in 1 .. N : Path(b, nx, N)[i] = IF i <= Len(s) THEN s[i] ELSE NULL
  <2>1. \A i \in 1 .. Len(s) : nx[s[i]] = IF i = Len(s) THEN NULL ELSE s[i + 1]
    OBVIOUS
  <2>2. nx[b] = IF s = <<>> THEN NULL ELSE s[1]
    OBVIOUS
  <2> QED BY ONLY <1>3, <2>1, <2>2, s \in Seq(Events), PathSpellsOut, ZenonT(60)
<1>5. \A i \in 1 .. N : at[i] = IF i <= Len(s) THEN s[i] ELSE NULL
  BY <1>2, <1>4
<1>6. {n \in 1 .. N : at[n] # NULL} = 1 .. Len(s)
  <2>1. \A i \in 1 .. Len(s) : s[i] # NULL
    BY TailQAssumption
  <2> QED BY <1>3, <1>5, <2>1
<1>7. Cardinality({n \in 1 .. N : at[n] # NULL}) = Len(s)
  <2>1. 1 \in Int /\ Len(s) \in Int
    BY <1>3
  <2>2. Cardinality(1 .. Len(s)) = IF 1 > Len(s) THEN 0 ELSE Len(s) - 1 + 1
    BY <2>1, FS_Interval
  <2>3. Cardinality(1 .. Len(s)) = Len(s)
    BY <1>3, <2>2
  <2> QED BY <1>6, <2>3
<1>8. [i \in 1 .. Len(s) |-> at[i]] = s
  <2>1. s = [i \in 1 .. Len(s) |-> s[i]]
    OBVIOUS
  <2>2. \A i \in 1 .. Len(s) : at[i] = s[i]
    BY <1>3, <1>5
  <2> QED BY <2>1, <2>2
<1>9. Chain(b, nx) = [i \in 1 .. Cardinality({n \in 1 .. N : at[n] # NULL}) |-> at[i]]
  BY <1>1, <1>2 DEF Chain
<1> QED BY <1>7, <1>8, <1>9

LEMMA ChainsAre ==
  ASSUME NEW q, NEW nx, NEW ls, NEW qd, Spells(q, nx, ls, qd)
  PROVE  [b \in Bases |-> Chain(b, nx)] = q
<1>1. ASSUME NEW b \in Bases PROVE Chain(b, nx) = q[b]
  <2>1. /\ q[b] \in Seq(Events)
        /\ \A i, j \in 1 .. Len(q[b]) : q[b][i] = q[b][j] => i = j
        /\ nx[b] = IF q[b] = <<>> THEN NULL ELSE q[b][1]
        /\ \A i \in 1 .. Len(q[b]) :
             nx[q[b][i]] = IF i = Len(q[b]) THEN NULL ELSE q[b][i + 1]
    BY DEF Spells
  <2> HIDE DEF Spells
  <2> QED BY <2>1, ChainOf
<1>2. q = [b \in Bases |-> q[b]]
  BY DEF Spells
<1> QED BY <1>1, <1>2

\* queued_event_readies puts the event behind the queue of the base.
LEMMA QueueSpells ==
  ASSUME IInv, NEW b \in Bases, NEW e \in Events, queued_event_readies(b, e),
         NEW q, Queues(q), NEW r, r = [q EXCEPT ![b] = Append(q[b], e)]
  PROVE  Spells(r, next', last', queued') /\ \A c \in Bases : \A i \in 1 .. Len(q[c]) : q[c][i] # e
<1> USE TailQAssumption DEF Links
<1>1. TypeOK /\ q \in [Bases -> Seq(Events)]
  BY DEF IInv, Queues, Spells
<1>2. /\ next' = [next EXCEPT ![e] = NULL, ![last[b]] = e]
      /\ last' = [last EXCEPT ![b] = e]
      /\ queued' = [queued EXCEPT ![e] = 1] /\ queued[e] = 0
  BY DEF queued_event_readies, TAILQ_INSERT_TAIL
<1>3. \A c \in Bases : \A i \in 1 .. Len(q[c]) : q[c][i] \in Events /\ q[c][i] # e
  BY <1>1, <1>2 DEF Queues, Spells
<1>4. /\ r \in [Bases -> Seq(Events)] /\ r[b] = Append(q[b], e)
      /\ \A c \in Bases : c # b => r[c] = q[c]
  BY <1>1
<1>5. /\ Len(q[b]) \in Nat /\ Len(r[b]) = Len(q[b]) + 1 /\ r[b] # <<>>
      /\ r[b][Len(q[b]) + 1] = e
      /\ \A i \in 1 .. Len(q[b]) : r[b][i] = q[b][i]
  BY <1>1, <1>4
<1>6. /\ last[b] \in Links /\ last[b] # e
      /\ next'[e] = NULL /\ next'[last[b]] = e
      /\ \A l \in Links : l # e /\ l # last[b] => next'[l] = next[l]
  <2>1. last[b] \in Links /\ last[b] # e
    <3>1. CASE q[b] = <<>>
      BY <3>1 DEF Queues, Spells
    <3>2. CASE q[b] # <<>>
      <4>1. Len(q[b]) \in 1 .. Len(q[b]) /\ last[b] = q[b][Len(q[b])]
        BY <1>1, <3>2 DEF Queues, Spells
      <4> QED BY <1>3, <4>1
    <3> QED BY <3>1, <3>2
  <2> QED BY <1>1, <1>2, <2>1 DEF TypeOK
<1>7. \A c \in Bases : /\ last[c] = IF q[c] = <<>> THEN c ELSE q[c][Len(q[c])]
                       /\ c # b => last'[c] = last[c]
                       /\ last'[b] = e
  BY <1>1, <1>2 DEF Queues, Spells, TypeOK
\* The end of b's queue is neither another base nor an event of another place.
<1>8. /\ \A c \in Bases : c = last[b] => c = b /\ q[b] = <<>>
      /\ \A c \in Bases : \A i \in 1 .. Len(q[c]) : q[c][i] = last[b] => c = b /\ i = Len(q[b])
      /\ q[b] # <<>> => last[b] = q[b][Len(q[b])] /\ Len(q[b]) \in 1 .. Len(q[b])
      /\ q[b] = <<>> => last[b] = b
  <2>1. CASE q[b] = <<>>
    BY <1>3, <1>7, <2>1
  <2>2. CASE q[b] # <<>>
    <3>1. Len(q[b]) \in 1 .. Len(q[b])
      BY <1>1, <2>2
    <3> QED BY <1>3, <1>7, <2>2, <3>1 DEF Queues, Spells
  <2> QED BY <2>1, <2>2
<1>9. ASSUME NEW c \in Bases
      PROVE  /\ next'[c] = IF r[c] = <<>> THEN NULL ELSE r[c][1]
             /\ last'[c] = IF r[c] = <<>> THEN c ELSE r[c][Len(r[c])]
  <2>a. c \in Links /\ c # e /\ next[c] = IF q[c] = <<>> THEN NULL ELSE q[c][1]
    BY DEF Queues, Spells
  <2>1. CASE c # b
    BY <1>4, <1>6, <1>7, <1>8, <2>a, <2>1
  <2>2. CASE c = b /\ q[b] = <<>>
    <3>1. r[b][1] = e
      BY <1>5, <2>2
    <3> QED BY <1>5, <1>6, <1>7, <1>8, <2>2, <3>1
  <2>3. CASE c = b /\ q[b] # <<>>
    <3>1. 1 \in 1 .. Len(q[b])
      BY <1>8, <2>3
    <3>2. next'[b] = next[b]
      BY <1>6, <1>8, <2>a, <2>3
    <3> QED BY <1>5, <1>7, <2>a, <2>3, <3>1, <3>2
  <2> QED BY <2>1, <2>2, <2>3
<1>10. ASSUME NEW c \in Bases, NEW i \in 1 .. Len(r[c])
       PROVE  /\ next'[r[c][i]] = IF i = Len(r[c]) THEN NULL ELSE r[c][i + 1]
              /\ queued'[r[c][i]] = 1
  <2>1. CASE c # b
    <3>1. i \in 1 .. Len(q[c]) /\ r[c] = q[c]
      BY <1>4, <2>1
    <3>2. /\ q[c][i] # last[b] /\ q[c][i] \in Events /\ q[c][i] # e
          /\ next[q[c][i]] = IF i = Len(q[c]) THEN NULL ELSE q[c][i + 1]
          /\ queued[q[c][i]] = 1
      BY <1>3, <1>8, <2>1, <3>1 DEF Queues, Spells
    <3> QED BY <1>1, <1>2, <1>6, <3>1, <3>2 DEF TypeOK
  <2>2. CASE c = b /\ i = Len(q[b]) + 1
    BY <1>1, <1>2, <1>5, <1>6, <2>2 DEF TypeOK
  <2>3. CASE c = b /\ i # Len(q[b]) + 1
    <3>1. i \in 1 .. Len(q[b]) /\ r[b][i] = q[b][i] /\ i # Len(r[b])
      BY <1>5, <2>3
    <3>2. /\ q[b][i] \in Events /\ q[b][i] # e /\ queued[q[b][i]] = 1
          /\ next[q[b][i]] = IF i = Len(q[b]) THEN NULL ELSE q[b][i + 1]
      BY <1>3, <3>1 DEF Queues, Spells
    <3>3. queued'[q[b][i]] = 1
      BY <1>1, <1>2, <3>2 DEF TypeOK
    <3>4. CASE i = Len(q[b])
      <4>1. q[b] # <<>>
        BY <3>1
      <4> QED BY <1>5, <1>6, <1>8, <2>3, <3>1, <3>3, <3>4, <4>1
    <3>5. CASE i # Len(q[b])
      <4>1. i + 1 \in 1 .. Len(q[b])
        BY <1>5, <3>1, <3>5
      <4>2. q[b][i] # last[b]
        BY <1>8, <3>1, <3>5
      <4>3. next'[q[b][i]] = next[q[b][i]]
        BY <1>6, <3>2, <4>2
      <4> QED BY <1>5, <2>3, <3>1, <3>2, <3>3, <3>5, <4>1, <4>3
    <3> QED BY <3>4, <3>5
  <2> QED BY <2>1, <2>2, <2>3
<1>11. \A c \in Bases : \A i \in 1 .. Len(r[c]) :
         \/ /\ i \in 1 .. Len(q[c])
            /\ r[c][i] = q[c][i]
         \/ /\ c = b
            /\ i = Len(q[b]) + 1
            /\ r[c][i] = e
  BY <1>4, <1>5
<1>12. ASSUME NEW c \in Bases, NEW d \in Bases,
             NEW i \in 1 .. Len(r[c]), NEW j \in 1 .. Len(r[d]), r[c][i] = r[d][j]
       PROVE  c = d /\ i = j
  BY <1>3, <1>11, <1>12 DEF Queues, Spells
<1>13. ASSUME NEW d \in Events, queued'[d] = 1
       PROVE  \E c \in Bases : \E i \in 1 .. Len(r[c]) : r[c][i] = d
  <2>1. CASE d = e
    <3>1. Len(q[b]) + 1 \in 1 .. Len(r[b])
      BY <1>5
    <3> QED BY <1>5, <2>1, <3>1
  <2>2. CASE d # e
    <3>1. queued[d] = 1
      BY <1>1, <1>2, <1>13, <2>2 DEF TypeOK
    <3>a. PICK c \in Bases : \E i \in 1 .. Len(q[c]) : q[c][i] = d
      BY <3>1 DEF Queues, Spells
    <3>2. PICK i \in 1 .. Len(q[c]) : q[c][i] = d
      BY <3>a
    <3>3. i \in 1 .. Len(r[c]) /\ r[c][i] = d
      BY <1>4, <1>5, <3>2
    <3> QED BY <3>3
  <2> QED BY <2>1, <2>2
<1>14. Spells(r, next', last', queued')
  <2>1. \A c \in Bases : next'[c] = IF r[c] = <<>> THEN NULL ELSE r[c][1]
    BY <1>9
  <2>2. \A c \in Bases : last'[c] = IF r[c] = <<>> THEN c ELSE r[c][Len(r[c])]
    BY <1>9
  <2>3. \A c \in Bases : \A i \in 1 .. Len(r[c]) :
          next'[r[c][i]] = IF i = Len(r[c]) THEN NULL ELSE r[c][i + 1]
    BY <1>10
  <2>4. \A c \in Bases : \A i \in 1 .. Len(r[c]) : queued'[r[c][i]] = 1
    BY <1>10
  <2>5. \A c, d \in Bases : \A i \in 1 .. Len(r[c]), j \in 1 .. Len(r[d]) :
          r[c][i] = r[d][j] => c = d /\ i = j
    BY <1>12
  <2>6. \A d \in Events : queued'[d] = 1 =>
          \E c \in Bases : \E i \in 1 .. Len(r[c]) : r[c][i] = d
    BY <1>13
  <2> QED BY <1>4, <2>1, <2>2, <2>3, <2>4, <2>5, <2>6 DEF Spells
<1> QED BY <1>3, <1>14

\* dispatch_events takes the head of the queue of the base.
LEMMA TakeSpells ==
  ASSUME IInv, NEW b \in Bases, dispatch_events(b),
         NEW q, Queues(q), NEW r, r = [q EXCEPT ![b] = Tail(q[b])]
  PROVE  q[b] # <<>> /\ taken' = Head(q[b]) /\ Spells(r, next', last', queued')
<1> USE TailQAssumption DEF Links
<1>1. TypeOK /\ LinksAgree /\ q \in [Bases -> Seq(Events)]
  BY DEF IInv, Queues, Spells
<1>2. PICK e : e = next[b]
  OBVIOUS
<1>3. PICK f : f = next[e]
  OBVIOUS
<1>4. e \in Events /\ e # NULL /\ queued[e] = 1 /\ prev[e] = b
  BY <1>1, <1>2 DEF dispatch_events, TAILQ_FIRST, TypeOK, LinksAgree, Held
<1>5. /\ next' = [next EXCEPT ![b] = f]
      /\ last' = IF f # NULL THEN last ELSE [last EXCEPT ![b] = b]
      /\ queued' = [queued EXCEPT ![e] = 0] /\ taken' = e
  BY <1>2, <1>3, <1>4 DEF dispatch_events, TAILQ_FIRST, TAILQ_REMOVE, LastAfter
<1>6. /\ q[b] # <<>> /\ e = q[b][1]
      /\ Len(q[b]) \in Nat /\ Len(q[b]) >= 1 /\ 1 \in 1 .. Len(q[b])
  <2>1. q[b] # <<>> /\ e = q[b][1]
    BY <1>2, <1>4 DEF Queues, Spells
  <2> QED BY <1>1, <2>1
<1>7. /\ r \in [Bases -> Seq(Events)] /\ Len(r[b]) = Len(q[b]) - 1
      /\ \A i \in 1 .. Len(r[b]) : r[b][i] = q[b][i + 1]
      /\ \A c \in Bases : c # b => r[c] = q[c]
  BY <1>1, <1>6
<1>8. f = IF Len(q[b]) = 1 THEN NULL ELSE q[b][2]
  <2>a. \A i \in 1 .. Len(q[b]) : next[q[b][i]] = IF i = Len(q[b]) THEN NULL ELSE q[b][i + 1]
    BY DEF Queues, Spells
  <2>1. next[q[b][1]] = IF 1 = Len(q[b]) THEN NULL ELSE q[b][1 + 1]
    BY ONLY <1>6, <2>a
  <2>2. 1 + 1 = 2
    OBVIOUS
  <2> QED BY <1>3, <1>6, <2>1, <2>2
<1>9. /\ r[b] = <<>> <=> Len(q[b]) = 1
      /\ Len(q[b]) # 1 => f \in Events /\ f # NULL /\ r[b][1] = f /\ Len(r[b]) >= 1
      /\ Len(q[b]) # 1 => r[b][Len(r[b])] = q[b][Len(q[b])]
  <2>1. Len(q[b]) # 1 =>
          2 \in 1 .. Len(q[b]) /\ Len(r[b]) \in 1 .. Len(r[b]) /\ 1 \in 1 .. Len(r[b])
    BY <1>6, <1>7
  <2>2. r[b] = <<>> <=> Len(q[b]) = 1
    BY <1>6, <1>7
  <2>3. Len(q[b]) # 1 => q[b][2] \in Events
    BY <1>1, <2>1
  <2> QED BY <1>6, <1>7, <1>8, <2>1, <2>2, <2>3
<1>10. \A c \in Bases : next'[c] = IF r[c] = <<>> THEN NULL ELSE r[c][1]
  <2>1. next'[b] = f /\ \A c \in Bases : c # b => next'[c] = next[c]
    BY <1>1, <1>5 DEF TypeOK
  <2>2. \A c \in Bases : next[c] = IF q[c] = <<>> THEN NULL ELSE q[c][1]
    BY DEF Queues, Spells
  <2> QED BY <1>7, <1>8, <1>9, <2>1, <2>2
<1>11. \A c \in Bases : last'[c] = IF r[c] = <<>> THEN c ELSE r[c][Len(r[c])]
  <2>1. last'[b] = (IF f # NULL THEN last[b] ELSE b) /\ \A c \in Bases : c # b => last'[c] = last[c]
    BY <1>1, <1>5 DEF TypeOK
  <2>2. \A c \in Bases : last[c] = IF q[c] = <<>> THEN c ELSE q[c][Len(q[c])]
    BY DEF Queues, Spells
  <2> QED BY <1>6, <1>7, <1>8, <1>9, <2>1, <2>2
\* What is left of the queues is what was there, but for the head of b's.
<1>12. ASSUME NEW c \in Bases, NEW i \in 1 .. Len(r[c])
       PROVE  \E j \in 1 .. Len(q[c]) :
                /\ r[c][i] = q[c][j] /\ q[c][j] \in Events /\ q[c][j] # e
                /\ j = IF c = b THEN i + 1 ELSE i
  <2>1. PICK j : j = IF c = b THEN i + 1 ELSE i
    OBVIOUS
  <2>2. j \in 1 .. Len(q[c]) /\ r[c][i] = q[c][j] /\ (c = b => j # 1)
    BY <1>6, <1>7, <2>1
  <2>3. q[c][j] \in Events /\ q[c][j] # e
    BY <1>1, <1>6, <2>2 DEF Queues, Spells
  <2> QED BY <2>1, <2>2, <2>3
<1>13. ASSUME NEW c \in Bases, NEW i \in 1 .. Len(r[c])
       PROVE  /\ next'[r[c][i]] = IF i = Len(r[c]) THEN NULL ELSE r[c][i + 1]
              /\ queued'[r[c][i]] = 1
  <2>1. PICK j \in 1 .. Len(q[c]) :
          /\ r[c][i] = q[c][j] /\ q[c][j] \in Events /\ q[c][j] # e
          /\ j = IF c = b THEN i + 1 ELSE i
    BY <1>12
  <2>2. /\ next[q[c][j]] = IF j = Len(q[c]) THEN NULL ELSE q[c][j + 1]
        /\ queued[q[c][j]] = 1
    BY DEF Queues, Spells
  <2>3. next'[q[c][j]] = next[q[c][j]] /\ queued'[q[c][j]] = 1
    BY <1>1, <1>5, <2>1, <2>2 DEF TypeOK
  <2>4. /\ i = Len(r[c]) <=> j = Len(q[c])
        /\ i # Len(r[c]) => r[c][i + 1] = q[c][j + 1]
    <3>1. CASE c = b
      <4>1. i \in 1 .. Len(r[b]) /\ j = i + 1
        BY <2>1, <3>1
      <4>2. /\ i = Len(r[b]) <=> j = Len(q[b])
            /\ i # Len(r[b]) => i + 1 \in 1 .. Len(r[b])
        <5>1. PICK m, n : m = Len(r[b]) /\ n = Len(q[b])
          OBVIOUS
        <5>2. m \in Int /\ n \in Int /\ m = n - 1 /\ i \in 1 .. m /\ j = i + 1
          BY ONLY <1>6, <1>7, <4>1, <5>1
        <5>3. (i = m <=> j = n) /\ (i # m => i + 1 \in 1 .. m)
          BY ONLY <5>2
        <5> QED BY <5>1, <5>3
      <4> QED BY <1>7, <3>1, <4>1, <4>2
    <3>2. CASE c # b
      BY <1>7, <2>1, <3>2
    <3> QED BY <3>1, <3>2
  <2> QED BY <2>1, <2>2, <2>3, <2>4
<1>14. ASSUME NEW c \in Bases, NEW d \in Bases,
             NEW i \in 1 .. Len(r[c]), NEW j \in 1 .. Len(r[d]), r[c][i] = r[d][j]
       PROVE  c = d /\ i = j
  <2>1. PICK m \in 1 .. Len(q[c]) : r[c][i] = q[c][m] /\ m = IF c = b THEN i + 1 ELSE i
    BY <1>12
  <2>2. PICK n \in 1 .. Len(q[d]) : r[d][j] = q[d][n] /\ n = IF d = b THEN j + 1 ELSE j
    BY <1>12
  <2>3. c = d /\ m = n
    BY <1>14, <2>1, <2>2 DEF Queues, Spells
  <2> QED BY <2>1, <2>2, <2>3
<1>15. ASSUME NEW d \in Events, queued'[d] = 1
       PROVE  \E c \in Bases : \E i \in 1 .. Len(r[c]) : r[c][i] = d
  <2>1. d # e /\ queued[d] = 1
    BY <1>1, <1>4, <1>5, <1>15 DEF TypeOK
  <2>2. PICK c \in Bases : \E j \in 1 .. Len(q[c]) : q[c][j] = d
    BY <2>1 DEF Queues, Spells
  <2>3. PICK j \in 1 .. Len(q[c]) : q[c][j] = d
    BY <2>2
  <2>4. CASE c # b
    BY <1>7, <2>3, <2>4
  <2>5. CASE c = b
    <3>1. j # 1
      BY <1>6, <2>1, <2>3, <2>5
    <3>2. j - 1 \in 1 .. Len(r[c]) /\ (j - 1) + 1 = j
      BY <1>6, <1>7, <2>5, <3>1
    <3>3. r[c][j - 1] = d
      BY <1>7, <2>3, <2>5, <3>2
    <3> QED BY <3>2, <3>3
  <2> QED BY <2>4, <2>5
<1>16. Spells(r, next', last', queued')
  <2>1. \A c \in Bases : \A i \in 1 .. Len(r[c]) :
          next'[r[c][i]] = IF i = Len(r[c]) THEN NULL ELSE r[c][i + 1]
    BY <1>13
  <2>2. \A c \in Bases : \A i \in 1 .. Len(r[c]) : queued'[r[c][i]] = 1
    BY <1>13
  <2>3. \A c, d \in Bases : \A i \in 1 .. Len(r[c]), j \in 1 .. Len(r[d]) :
          r[c][i] = r[d][j] => c = d /\ i = j
    BY <1>14
  <2>4. \A d \in Events : queued'[d] = 1 =>
          \E c \in Bases : \E i \in 1 .. Len(r[c]) : r[c][i] = d
    BY <1>15
  <2> QED BY <1>7, <1>10, <1>11, <2>1, <2>2, <2>3, <2>4 DEF Spells
<1>17. taken' = Head(q[b])
  BY <1>5, <1>6
<1> QED BY <1>6, <1>16, <1>17

\* event_set changes no queue.
LEMMA SetSpells ==
  ASSUME IInv, NEW e \in Events, event_set(e), NEW q, Queues(q)
  PROVE  Spells(q, next', last', queued') /\ taken' = taken
<1> USE TailQAssumption DEF Links
<1>1. TypeOK /\ queued[e] = 0
  BY DEF IInv, event_set
<1>2. /\ \A m \in Links : m # e => next'[m] = next[m]
      /\ queued' = queued /\ last' = last /\ taken' = taken
  BY <1>1 DEF event_set, TypeOK
<1>3. \A b \in Bases : b # e /\ next'[b] = next[b]
  BY <1>2
<1>4. \A b \in Bases : \A i \in 1 .. Len(q[b]) : next'[q[b][i]] = next[q[b][i]]
  <2>1. \A b \in Bases : \A i \in 1 .. Len(q[b]) : q[b][i] \in Events /\ q[b][i] # e
    BY <1>1 DEF Queues, Spells
  <2> QED BY <1>2, <2>1
<1> QED BY <1>2, <1>3, <1>4 DEF Queues, Spells

\* The mapping: the chains of the links are the queues.
Simulated == IInv /\ \E q : Queues(q)

LEMMA ReadyInit == Init => Simulated /\ Abstract!Init
<1> SUFFICES ASSUME Init PROVE Simulated /\ Abstract!Init
  OBVIOUS
<1> USE TailQAssumption DEF Links
<1>1. PICK q : q = [b \in Bases |-> <<>>]
  OBVIOUS
<1>2. Queues(q)
  <2>1. \A b \in Bases : next[b] = NULL /\ last[b] = b
    BY DEF Init
  <2>2. \A e \in Events : queued[e] # 1
    BY DEF Init
  <2> QED BY <1>1, <2>1, <2>2 DEF Queues, Spells
<1>3. [b \in Bases |-> Chain(b, next)] = q
  BY <1>2, ChainsAre DEF Queues
<1>4. taken = NULL
  BY DEF Init
<1> QED BY <1>1, <1>2, <1>3, <1>4, InitHolds DEF Simulated, Abstract!Init

LEMMA ReadyStep ==
  Simulated /\ [Next]_vars =>
    Simulated' /\ [Abstract!Next]_<<[b \in Bases |-> Chain(b, next)], taken>>
<1> SUFFICES ASSUME Simulated, [Next]_vars
             PROVE  Simulated' /\ [Abstract!Next]_<<[b \in Bases |-> Chain(b, next)], taken>>
  OBVIOUS
<1>1. PICK q : IInv /\ Queues(q)
  BY DEF Simulated
<1>2. IInv'
  BY <1>1, LinksInductive
<1>3. [b \in Bases |-> Chain(b, next)] = q /\ q \in [Bases -> Seq(Events)]
  <2>1. Spells(q, next, last, queued)
    BY <1>1 DEF Queues
  <2>2. [b \in Bases |-> Chain(b, next)] = q
    BY <2>1, ChainsAre
  <2> QED BY <2>1, <2>2 DEF Spells
<1>4. ASSUME NEW r, Spells(r, next', last', queued')
      PROVE  [b \in Bases |-> Chain(b, next)]' = r /\ Simulated'
  BY <1>2, <1>4, ChainsAre DEF Simulated, Queues
<1>5. ASSUME NEW b \in Bases, NEW e \in Events, queued_event_readies(b, e)
      PROVE  Simulated' /\ Abstract!Queue(b, e)
  <2>1. PICK r : r = [q EXCEPT ![b] = Append(q[b], e)]
    OBVIOUS
  <2>2. Spells(r, next', last', queued') /\ \A c \in Bases : \A i \in 1 .. Len(q[c]) : q[c][i] # e
    BY <1>1, <1>5, <2>1, QueueSpells
  <2>3. \A c \in Bases : ~Abstract!Contains(q[c], e)
    BY <2>2 DEF Abstract!Contains
  <2>4. taken' = taken
    BY <1>5 DEF queued_event_readies
  <2> QED BY <1>3, <1>4, <2>1, <2>2, <2>3, <2>4 DEF Abstract!Queue
<1>6. ASSUME NEW b \in Bases, dispatch_events(b)
      PROVE  Simulated' /\ Abstract!Take(b)
  <2>1. PICK r : r = [q EXCEPT ![b] = Tail(q[b])]
    OBVIOUS
  <2>2. q[b] # <<>> /\ taken' = Head(q[b]) /\ Spells(r, next', last', queued')
    BY <1>1, <1>6, <2>1, TakeSpells
  <2> QED BY <1>3, <1>4, <2>1, <2>2 DEF Abstract!Take
<1>7. ASSUME NEW e \in Events, event_set(e)
      PROVE  Simulated' /\ UNCHANGED <<[b \in Bases |-> Chain(b, next)], taken>>
  BY <1>1, <1>3, <1>4, <1>7, SetSpells
<1>8. ASSUME UNCHANGED vars
      PROVE  Simulated' /\ UNCHANGED <<[b \in Bases |-> Chain(b, next)], taken>>
  <2>1. Spells(q, next', last', queued') /\ taken' = taken
    BY <1>1, <1>8 DEF vars, Queues
  <2> QED BY <1>3, <1>4, <2>1
<1> QED BY <1>5, <1>6, <1>7, <1>8 DEF Next, Abstract!Next

\* The linked queues implement those of ReadyQueue for any number of bases and events: what
\* dispatch_events takes off the links is the event queued first, and none is lost or twice in.
THEOREM LinksAreQueues == Spec => QueueSpec
<1> QED BY ReadyInit, ReadyStep, PTL DEF Spec, QueueSpec, Abstract!Spec
-----------------------------------------------------------------------------
(* The growing arrays.                                                     *)
(*                                                                         *)
(* One doubling of the wait tables is right, for every EP_SIZE: as long as *)
(* all descriptors stay below 2 * EP_SIZE and realloc succeeds, no entry   *)
(* is lost and none is written outside the tables.  (Neither hypothesis    *)
(* can be dropped: see section 4 of the README.)                           *)
(*                                                                         *)
(* Vec, which nothing in the repository uses, is right for vectors of any  *)
(* length, as long as realloc succeeds.                                    *)

\* The tables have doubled at most once, and no entry lies outside.
Fits ==
  /\ wait_sz \in {EP_SIZE, 2 * EP_SIZE}
  /\ \A k \in Kinds : \A h \in waits[k] : h < wait_sz

TablesInv == TablesTypeOK /\ Fits /\ EntriesKept /\ WritesInside

\* What the hypotheses leave of the resizing: nothing the tables hold is cleared, and
\* there is room for the descriptor.
LEMMA ResizeKeeps ==
  ASSUME MaxFd < 2 * EP_SIZE, ~MayFail, TablesTypeOK, Fits,
         NEW h \in Handles, NEW t \in Resized(h)
  PROVE  /\ t.waits = waits /\ t.freed = FALSE
         /\ t.sz \in {EP_SIZE, 2 * EP_SIZE} /\ h < t.sz /\ wait_sz <= t.sz
<1> USE WaitTablesAssumption
<1>1. CASE ~Outside(h)
  BY <1>1 DEF Resized, Outside, Fits, TablesTypeOK, Handles
<1>2. CASE Outside(h)
  <2>1. wait_sz = EP_SIZE
    BY <1>2 DEF Outside, Fits, TablesTypeOK, Handles
  <2>2. t = [sz |-> newsz, waits |-> [k \in Kinds |-> waits[k] \ Cleared],
             freed |-> FALSE]
    BY <1>2 DEF Resized
  <2>3. \A k \in Kinds : waits[k] \ Cleared = waits[k]
    BY <2>1 DEF Cleared, newsz, Fits, TablesTypeOK, Handles
  <2>4. waits = [k \in Kinds |-> waits[k]]
    BY DEF TablesTypeOK
  <2> QED BY <2>1, <2>2, <2>3, <2>4 DEF newsz, Handles
<1> QED BY <1>1, <1>2

\* An addition, once the tables have room, fills in the entry that epoll watches for.
LEMMA AddKeeps ==
  ASSUME MaxFd < 2 * EP_SIZE, ~MayFail, TablesInv, NEW h \in Handles, NEW k \in Kinds, Add(h, k)
  PROVE  TablesInv'
<1> USE WaitTablesAssumption DEF TablesInv
<1>1. PICK r \in Seen(h, "E_READ"), w \in Seen(h, "E_WRITE"), t \in Resized(h) :
        LET had == (IF r THEN {"E_READ"} ELSE {}) \cup (IF w THEN {"E_WRITE"} ELSE {})
            ok == (had = {}) <=> (interest[h] = {})
            fill == ok /\ k \notin had
        IN  /\ wait_sz' = t.sz /\ freed' = t.freed
            /\ interest' = IF ok THEN [interest EXCEPT ![h] = had \cup {k}] ELSE interest
            /\ waits' = IF fill /\ h < t.sz THEN [t.waits EXCEPT ![k] = @ \cup {h}] ELSE t.waits
            /\ astray' = IF fill /\ h >= t.sz THEN astray \cup {h} ELSE astray
  BY Zenon DEF Add, ebot_add_event
<1> DEFINE had == (IF r THEN {"E_READ"} ELSE {}) \cup (IF w THEN {"E_WRITE"} ELSE {})
           ok == (had = {}) <=> (interest[h] = {})
           fill == ok /\ k \notin had
<1>2. /\ t.waits = waits /\ t.freed = FALSE
      /\ t.sz \in {EP_SIZE, 2 * EP_SIZE} /\ h < t.sz /\ wait_sz <= t.sz
  BY ResizeKeeps
<1>3. k \notin interest[h] /\ known' \in 0 .. MaxFd + 1
  BY DEF Add, TablesTypeOK, Handles
<1>4. ok => (had = interest[h] /\ k \notin had)
  <2>1. CASE h < wait_sz
    BY <1>3, <2>1 DEF Seen, EntriesKept, TablesTypeOK, Kinds
  <2>2. CASE ~(h < wait_sz)
    <3>1. interest[h] = {}
      BY <2>2 DEF EntriesKept, Fits, TablesTypeOK
    <3> QED BY <3>1
  <2> QED BY <2>1, <2>2
<1>5. /\ wait_sz' = t.sz /\ freed' = FALSE
      /\ interest' = IF ok THEN [interest EXCEPT ![h] = had \cup {k}] ELSE interest
      /\ waits' = IF ok THEN [waits EXCEPT ![k] = @ \cup {h}] ELSE waits
      /\ astray' = astray
  BY <1>1, <1>2, <1>4 DEF Handles
<1>6. wait_sz' \in Nat /\ freed' \in BOOLEAN /\ astray' \subseteq Handles /\ WritesInside'
  <2>1. wait_sz' \in Nat /\ astray' \subseteq Handles
    BY <1>2, <1>5 DEF TablesTypeOK
  <2>2. freed' \in BOOLEAN /\ WritesInside'
    BY <1>5, Zenon DEF WritesInside
  <2> QED BY <2>1, <2>2
<1>7. /\ {g \in Handles : g < wait_sz} \subseteq {g \in Handles : g < wait_sz'}
      /\ h \in {g \in Handles : g < wait_sz'}
  <2>1. wait_sz \in Nat /\ wait_sz' \in Nat /\ wait_sz <= wait_sz' /\ h < wait_sz'
    BY <1>2, <1>5, <1>6 DEF TablesTypeOK
  <2> QED BY <2>1 DEF Handles
<1>8. CASE ~ok
  <2>1. waits' = waits /\ interest' = interest
    BY <1>5, <1>8
  <2>2. TablesTypeOK'
    BY <2>1, <1>3, <1>6, <1>7 DEF TablesTypeOK
  <2>3. Fits'
    BY <2>1, <1>2, <1>5 DEF TablesTypeOK, Fits, Handles
  <2> QED BY <2>1, <2>2, <2>3, <1>6 DEF EntriesKept
<1>9. CASE ok
  <2>1. /\ interest' = [interest EXCEPT ![h] = @ \cup {k}]
        /\ waits' = [waits EXCEPT ![k] = @ \cup {h}]
    BY <1>4, <1>5, <1>9
  <2>2. TablesTypeOK'
    BY <2>1, <1>3, <1>6, <1>7 DEF TablesTypeOK
  <2>3. Fits'
    BY <2>1, <1>2, <1>5 DEF TablesTypeOK, Fits, Handles
  <2>4. EntriesKept'
    BY <2>1 DEF TablesTypeOK, EntriesKept
  <2> QED BY <2>2, <2>3, <2>4, <1>6
<1> QED BY <1>8, <1>9

LEMMA DelKeeps ==
  ASSUME TablesInv, NEW h \in Handles, NEW k \in Kinds, Del(h, k)
  PROVE  TablesInv'
<1> USE DEF TablesInv, Del, ebot_del_event
<1>1. TablesTypeOK'
  BY DEF TablesTypeOK
<1>2. Fits'
  BY DEF TablesTypeOK, Fits
<1>3. EntriesKept'
  BY DEF TablesTypeOK, EntriesKept
<1>4. WritesInside'
  BY DEF WritesInside
<1> QED BY <1>1, <1>2, <1>3, <1>4

LEMMA TablesInductive ==
  ASSUME MaxFd < 2 * EP_SIZE, ~MayFail
  PROVE  /\ TablesInit => TablesInv
         /\ TablesInv /\ [TablesNext]_tablesVars => TablesInv'
<1> USE WaitTablesAssumption DEF TablesInv
<1>1. TablesInit => TablesInv
  <2> SUFFICES ASSUME TablesInit PROVE TablesInv
    OBVIOUS
  <2>1. freed \in BOOLEAN /\ WritesInside
    BY Zenon DEF TablesInit, WritesInside
  <2>2. TablesTypeOK
    BY <2>1 DEF TablesInit, TablesTypeOK
  <2>3. Fits
    BY DEF TablesInit, Fits
  <2>4. EntriesKept
    BY DEF TablesInit, EntriesKept
  <2> QED BY <2>1, <2>2, <2>3, <2>4
<1>2. TablesInv /\ [TablesNext]_tablesVars => TablesInv'
  <2>1. ASSUME TablesInv, TablesNext PROVE TablesInv'
    BY <2>1, AddKeeps, DelKeeps DEF TablesNext
  <2>2. TablesInv /\ UNCHANGED tablesVars => TablesInv'
    BY DEF tablesVars, TablesTypeOK, Fits, EntriesKept, WritesInside
  <2> QED BY <2>1, <2>2
<1> QED BY <1>1, <1>2

\* One doubling loses no event: for every EP_SIZE, what epoll reports for a descriptor
\* below 2 * EP_SIZE has its event in the tables, and the reverse.
THEOREM OneDoublingKeepsEntries ==
  ASSUME MaxFd < 2 * EP_SIZE, ~MayFail
  PROVE  TablesSpec => []EntriesKept
<1>1. TablesInit => TablesInv
  BY TablesInductive
<1>2. TablesInv /\ [TablesNext]_tablesVars => TablesInv'
  BY TablesInductive
<1>3. TablesInv => EntriesKept
  BY DEF TablesInv
<1> QED BY <1>1, <1>2, <1>3, PTL DEF TablesSpec

\* Type correctness of WaitTables, while one doubling is enough.
THEOREM TablesTypeCorrect ==
  ASSUME MaxFd < 2 * EP_SIZE, ~MayFail
  PROVE  TablesSpec => []TablesTypeOK
<1>1. TablesInit => TablesInv
  BY TablesInductive
<1>2. TablesInv /\ [TablesNext]_tablesVars => TablesInv'
  BY TablesInductive
<1>3. TablesInv => TablesTypeOK
  BY DEF TablesInv
<1> QED BY <1>1, <1>2, <1>3, PTL DEF TablesSpec

\* One doubling makes room: ebot_add_event then writes inside the tables only.
THEOREM OneDoublingMakesRoom ==
  ASSUME MaxFd < 2 * EP_SIZE, ~MayFail
  PROVE  TablesSpec => []WritesInside
<1>1. TablesInit => TablesInv
  BY TablesInductive
<1>2. TablesInv /\ [TablesNext]_tablesVars => TablesInv'
  BY TablesInductive
<1>3. TablesInv => WritesInside
  BY DEF TablesInv
<1> QED BY <1>1, <1>2, <1>3, PTL DEF TablesSpec
-----------------------------------------------------------------------------
\* Vec has variables of its own, and nothing of the wait tables'.
CONSTANTS Vals, Unset
VARIABLES data, length, capacity, wild

A == INSTANCE Vec

\* The memory has room for what the capacity says, and the length stays within it.
VecFits == DOMAIN data = A!Places(capacity) /\ length <= capacity

VecInv == A!TypeOK /\ A!WritesInside /\ VecFits

LEMMA InPlaces ==
  ASSUME NEW n \in Nat, NEW i
  PROVE  i \in A!Places(n) <=> i \in Nat /\ i < n
  BY DEF A!Places

LEMMA Unfold ==
  ASSUME VecInv
  PROVE  /\ length \in Nat /\ capacity \in Nat /\ length <= capacity /\ wild = FALSE
         /\ data \in [A!Places(capacity) -> Vals \cup {Unset}]
         /\ \A i \in A!Places(length) : data[i] \in Vals
  BY DEF VecInv, A!TypeOK, VecFits, A!WritesInside

LEMMA Fold ==
  ASSUME length \in Nat, capacity \in Nat, length <= capacity, wild = FALSE,
         data \in [A!Places(capacity) -> Vals \cup {Unset}],
         \A i \in A!Places(length) : data[i] \in Vals
  PROVE  VecInv
<1>1. \E room \in 0 .. capacity : data \in [A!Places(room) -> Vals \cup {Unset}]
  <2>1. capacity \in 0 .. capacity
    OBVIOUS
  <2> QED BY <2>1
<1> QED BY <1>1 DEF VecInv, A!TypeOK, VecFits, A!WritesInside

\* The array is written at its end only after it has been made large enough.
LEMMA PushFits ==
  ASSUME VecInv, NEW x \in Vals, A!vec_push(x, TRUE)
  PROVE  /\ VecInv' /\ data'[length] = x /\ \A i \in A!Places(length) : data'[i] = data[i]
<1>1. length \in Nat /\ capacity \in Nat /\ length <= capacity
  BY Unfold
<1>2. capacity' = (IF A!Full THEN A!Doubled ELSE capacity) /\ length' = length + 1
  BY DEF A!vec_push
<1>3. capacity' \in Nat /\ length < capacity' /\ capacity <= capacity'
  BY <1>1, <1>2 DEF A!Full, A!Doubled
<1>4. length \in A!Places(capacity') /\ A!Places(length) \subseteq A!Places(capacity)
  BY <1>1, <1>3, InPlaces
<1>5. /\ A!Expanded(TRUE) \in [A!Places(capacity') -> Vals \cup {Unset}]
      /\ \A i \in A!Places(length) : A!Expanded(TRUE)[i] = data[i]
  <2>1. data \in [A!Places(capacity) -> Vals \cup {Unset}]
    BY Unfold
  <2>2. A!Places(length) \subseteq A!Places(capacity')
    BY <1>1, <1>3, InPlaces
  <2>3. CASE A!Full
    <3>1. A!Expanded(TRUE) = [i \in A!Places(capacity') |->
                              IF i \in A!Places(capacity) THEN data[i] ELSE Unset]
      BY <1>2, <2>1, <2>3 DEF A!Expanded
    <3> QED BY <2>1, <2>2, <3>1, <1>4
  <2>4. CASE ~A!Full
    BY <1>2, <2>1, <2>4 DEF A!Expanded
  <2> QED BY <2>3, <2>4
<1>6. data' = [A!Expanded(TRUE) EXCEPT ![length] = x] /\ wild' = wild
  BY <1>4, <1>5 DEF A!vec_push
<1>7. length \notin A!Places(length) /\ A!Places(length) \subseteq A!Places(capacity')
  BY <1>1, <1>3, InPlaces
<1>8. /\ data' \in [A!Places(capacity') -> Vals \cup {Unset}]
      /\ data'[length] = x /\ \A i \in A!Places(length) : data'[i] = data[i]
  BY <1>4, <1>5, <1>6, <1>7
<1>9. \A i \in A!Places(length') : i \in A!Places(length) \/ i = length
  BY <1>1, <1>2, InPlaces
<1>10. \A i \in A!Places(length') : data'[i] \in Vals
  BY <1>8, <1>9, Unfold
<1>11. length' \in Nat /\ length' <= capacity' /\ wild' = FALSE
  BY <1>1, <1>2, <1>3, <1>6, Unfold
<1>12. VecInv'
  <2>1. capacity' \in 0 .. capacity'
    BY <1>3
  <2>2. \E room \in 0 .. capacity' : data' \in [A!Places(room) -> Vals \cup {Unset}]
    BY <1>8, <2>1
  <2>3. DOMAIN data' = A!Places(capacity')
    BY <1>8
  <2> QED BY <1>3, <1>10, <1>11, <2>2, <2>3 DEF VecInv, A!TypeOK, VecFits, A!WritesInside
<1> QED BY <1>8, <1>12

\* A splice keeps what is before the gap and moves what is behind it.
LEMMA SpliceFits ==
  ASSUME VecInv, NEW start \in Nat, NEW count \in Nat, A!vec_splice(start, count)
  PROVE  /\ VecInv'
         /\ \A i \in A!Places(length') :
              data'[i] = IF i < start THEN data[i] ELSE data[i + count]
<1>1. length \in Nat /\ capacity \in Nat /\ length <= capacity
  BY Unfold
<1>2. /\ length' = length - count /\ length' \in Nat /\ start <= length'
      /\ UNCHANGED <<capacity, wild>>
  BY <1>1 DEF A!vec_splice
<1>3. data \in [A!Places(capacity) -> Vals \cup {Unset}]
  BY Unfold
<1>4. data' = [i \in A!Places(capacity) |->
                 IF i \in A!Moved(start, count) THEN data[i + count] ELSE data[i]]
  BY <1>3 DEF A!vec_splice
<1>5. /\ \A i \in A!Moved(start, count) : i + count \in A!Places(length)
      /\ A!Places(length) \subseteq A!Places(capacity)
      /\ A!Places(length') \subseteq A!Places(length)
      /\ \A i \in A!Places(length') : i \in A!Moved(start, count) <=> ~(i < start)
  BY <1>1, <1>2, InPlaces DEF A!Moved
<1>6. data' \in [A!Places(capacity') -> Vals \cup {Unset}]
  BY <1>2, <1>3, <1>4, <1>5
<1>7. \A i \in A!Places(length') : data'[i] = IF i < start THEN data[i] ELSE data[i + count]
  BY <1>4, <1>5
<1>8. \A i \in A!Places(length') : data'[i] \in Vals
  BY <1>4, <1>5, Unfold
<1>9. length' <= capacity' /\ capacity' \in Nat /\ wild' = FALSE
  BY <1>1, <1>2, Unfold
<1>10. VecInv'
  BY <1>2, <1>6, <1>8, <1>9 DEF VecInv, A!TypeOK, VecFits, A!WritesInside
<1> QED BY <1>7, <1>10

LEMMA VecInit == A!Init => VecInv
<1> SUFFICES ASSUME A!Init PROVE VecInv
  OBVIOUS
<1>1. data \in [A!Places(0) -> Vals \cup {Unset}] /\ DOMAIN data = A!Places(0)
  BY DEF A!Init
<1>2. \A i \in A!Places(0) : FALSE
  BY DEF A!Places
<1>3. capacity = 0 /\ length = 0 /\ wild = FALSE
  BY DEF A!Init
<1>4. /\ length \in Nat /\ capacity \in Nat /\ length <= capacity
      /\ data \in [A!Places(capacity) -> Vals \cup {Unset}]
      /\ \A i \in A!Places(length) : data[i] \in Vals
  BY <1>1, <1>2, <1>3
<1> QED BY <1>3, <1>4, Fold

LEMMA VecNext == ASSUME ~MayFail PROVE VecInv /\ [A!Next]_A!vars => VecInv'
<1> SUFFICES ASSUME VecInv, [A!Next]_A!vars PROVE VecInv'
  OBVIOUS
<1>1. CASE A!Push
  BY <1>1, PushFits DEF A!Push
<1>2. CASE A!vec_pop
  BY <1>2 DEF VecInv, A!TypeOK, VecFits, A!WritesInside, A!vec_pop, A!Places
<1>3. CASE A!vec_clear
  BY <1>3 DEF VecInv, A!TypeOK, VecFits, A!WritesInside, A!vec_clear, A!Places
<1>4. CASE A!Splice
  <2>1. PICK start, count \in 0 .. length : A!vec_splice(start, count)
    BY <1>4 DEF A!Splice
  <2> QED BY <2>1, SpliceFits DEF VecInv, A!TypeOK
<1>5. CASE UNCHANGED A!vars
  BY <1>5 DEF VecInv, A!TypeOK, VecFits, A!WritesInside, A!vars
<1> QED BY <1>1, <1>2, <1>3, <1>4, <1>5 DEF A!Next

\* Unless realloc fails, a vector never writes behind its memory.
THEOREM NeverWritesOutside == ASSUME ~MayFail PROVE A!Spec => []A!WritesInside
<1>1. A!Init => VecInv
  BY VecInit
<1>2. VecInv /\ [A!Next]_A!vars => VecInv'
  BY VecNext
<1>3. VecInv => A!WritesInside
  BY DEF VecInv
<1> QED BY <1>1, <1>2, <1>3, PTL DEF A!Spec
-----------------------------------------------------------------------------
(* The vector implements Vector: one step per step. *)

LEMMA ElemsType == VecInv => A!elems \in Seq(Vals) /\ Len(A!elems) = length /\ length \in Nat
  BY DEF VecInv, A!TypeOK, A!WritesInside, A!Places, A!elems

LEMMA PushSimulates ==
  ASSUME VecInv, NEW x \in Vals, A!vec_push(x, TRUE)
  PROVE  A!V!Push(x)
<1>1. A!elems \in Seq(Vals) /\ Len(A!elems) = length /\ length \in Nat
  BY ElemsType
<1>2. A!elems' = [i \in 1 .. length + 1 |-> data'[i - 1]]
  BY <1>1 DEF A!vec_push, A!elems
<1>3. \A i \in 1 .. length + 1 : A!elems'[i] = IF i <= length THEN A!elems[i] ELSE x
  <2> TAKE i \in 1 .. length + 1
  <2>1. A!elems'[i] = data'[i - 1]
    BY <1>2
  <2>2. CASE i <= length
    <3>1. i - 1 \in A!Places(length) /\ i \in 1 .. length
      BY <1>1, <2>2 DEF A!Places
    <3>2. data'[i - 1] = data[i - 1]
      BY <3>1, PushFits
    <3>3. A!elems[i] = data[i - 1]
      BY <3>1 DEF A!elems
    <3> QED BY <2>1, <2>2, <3>2, <3>3
  <2>3. CASE i = length + 1
    <3>1. i - 1 = length /\ ~(i <= length)
      BY <1>1, <2>3
    <3>2. data'[length] = x
      BY PushFits
    <3> QED BY <2>1, <3>1, <3>2
  <2> QED BY <1>1, <2>2, <2>3
<1>4. A!elems' \in Seq(Vals) /\ Len(A!elems') = length + 1
  <2>1. \A i \in 1 .. length + 1 : A!elems'[i] \in Vals
    BY <1>1, <1>3
  <2>2. A!elems' \in [1 .. length + 1 -> Vals]
    BY <1>2, <2>1
  <2>3. length + 1 \in Nat
    BY <1>1
  <2> QED BY <2>2, <2>3
<1>5. A!elems' = Append(A!elems, x)
  BY <1>1, <1>3, <1>4, SeqEqual
<1> QED BY <1>5 DEF A!V!Push

LEMMA PopSimulates == ASSUME VecInv, A!vec_pop PROVE A!V!Pop
<1>1. A!elems \in Seq(Vals) /\ Len(A!elems) = length /\ length \in Nat /\ length > 0
  BY ElemsType DEF A!vec_pop
<1>2. A!elems' = [i \in 1 .. length - 1 |-> data[i - 1]]
  BY <1>1 DEF A!vec_pop, A!elems
<1>3. \A i \in 1 .. length - 1 : A!elems[i] = data[i - 1]
  <2>1. 1 .. length - 1 \subseteq 1 .. length
    BY <1>1
  <2> QED BY <2>1 DEF A!elems
<1>4. A!elems' = SubSeq(A!elems, 1, Len(A!elems) - 1)
  BY <1>1, <1>2, <1>3
<1>5. A!elems # << >>
  BY <1>1
<1> QED BY <1>4, <1>5 DEF A!V!Pop

LEMMA SpliceSimulates ==
  ASSUME VecInv, NEW start \in Nat, NEW count \in Nat, A!vec_splice(start, count)
  PROVE  A!V!Splice(start, count)
<1>1. A!elems \in Seq(Vals) /\ Len(A!elems) = length /\ length \in Nat
  BY ElemsType
<1>2. start + count <= length /\ length' = length - count
  BY DEF A!vec_splice
<1>3. A!elems' = [i \in 1 .. length - count |-> data'[i - 1]]
  BY <1>1, <1>2 DEF A!elems
<1>4. \A i \in 1 .. length - count :
        A!elems'[i] = IF i <= start THEN A!elems[i] ELSE A!elems[i + count]
  <2> TAKE i \in 1 .. length - count
  <2>1. i - 1 \in A!Places(length') /\ A!elems'[i] = data'[i - 1]
    BY <1>1, <1>2, <1>3 DEF A!Places
  <2>2. data'[i - 1] = IF i - 1 < start THEN data[i - 1] ELSE data[i - 1 + count]
    BY <2>1, SpliceFits
  <2>3. i \in 1 .. length /\ i + count \in 1 .. length
    BY <1>1, <1>2
  <2>4. A!elems[i] = data[i - 1] /\ A!elems[i + count] = data[i + count - 1]
    BY <2>3 DEF A!elems
  <2>5. i - 1 + count = i + count - 1 /\ (i - 1 < start <=> i <= start)
    OBVIOUS
  <2> QED BY <2>1, <2>2, <2>4, <2>5
<1> DEFINE before == SubSeq(A!elems, 1, start)
           behind == SubSeq(A!elems, start + count + 1, Len(A!elems))
<1>5. /\ before \in Seq(Vals) /\ Len(before) = start
      /\ \A i \in 1 .. start : before[i] = A!elems[i]
  BY <1>1, <1>2
<1>6. /\ behind \in Seq(Vals) /\ Len(behind) = length - start - count
      /\ \A i \in 1 .. length - start - count : behind[i] = A!elems[start + count + i]
  BY <1>1, <1>2
<1> HIDE DEF before, behind
<1>7. /\ before \o behind \in Seq(Vals) /\ Len(before \o behind) = length - count
      /\ \A i \in 1 .. length - count :
           (before \o behind)[i] = IF i <= start THEN A!elems[i] ELSE A!elems[i + count]
  <2>1. /\ before \o behind \in Seq(Vals)
        /\ Len(before \o behind) = start + (length - start - count)
        /\ \A i \in 1 .. start + (length - start - count) :
             (before \o behind)[i] = IF i <= start THEN before[i] ELSE behind[i - start]
    <3>1. /\ before \o behind \in Seq(Vals)
          /\ Len(before \o behind) = Len(before) + Len(behind)
          /\ \A i \in 1 .. Len(before) + Len(behind) :
               (before \o behind)[i] = IF i <= Len(before) THEN before[i]
                                       ELSE behind[i - Len(before)]
      <4>1. before \in Seq(Vals) /\ behind \in Seq(Vals)
        BY <1>5, <1>6
      <4> QED BY <4>1, ConcatProperties, Zenon
    <3>2. Len(before) = start /\ Len(behind) = length - start - count
      BY <1>5, <1>6
    <3> QED BY <3>1, <3>2, Zenon
  <2>4. start + (length - start - count) = length - count
    BY <1>1
  <2>2. ASSUME NEW i \in 1 .. length - count, i > start
        PROVE  behind[i - start] = A!elems[i + count]
    <3>1. i - start \in 1 .. length - start - count
      BY <1>1, <1>2, <2>2
    <3>2. start + count + (i - start) = i + count
      BY <1>1
    <3> QED BY <1>6, <3>1, <3>2
  <2>3. ASSUME NEW i \in 1 .. length - count, i <= start PROVE before[i] = A!elems[i]
    BY <1>5, <2>3
  <2>5. Len(before \o behind) = length - count
    BY <2>1, <2>4
  <2>6. ASSUME NEW i \in 1 .. length - count
        PROVE  (before \o behind)[i] = IF i <= start THEN A!elems[i] ELSE A!elems[i + count]
    <3>1. i \in 1 .. start + (length - start - count)
      BY <2>4
    <3>2. (before \o behind)[i] = IF i <= start THEN before[i] ELSE behind[i - start]
      BY <2>1, <3>1
    <3>3. CASE i <= start
      BY <3>2, <3>3, <2>3
    <3>4. CASE i > start
      <4>1. ~(i <= start)
        BY <1>1, <3>4
      <4> QED BY <3>2, <3>4, <4>1, <2>2
    <3>5. i <= start \/ i > start
      BY <1>1
    <3> QED BY <3>3, <3>4, <3>5, Zenon
  <2> QED BY <2>1, <2>5, <2>6
<1>8. A!elems' \in Seq(Vals) /\ Len(A!elems') = length - count
  <2>1. \A i \in 1 .. length - count : A!elems'[i] \in Vals
    <3> TAKE i \in 1 .. length - count
    <3>1. i \in 1 .. length /\ i + count \in 1 .. length
      BY <1>1, <1>2
    <3> QED BY <1>1, <1>4, <3>1
  <2>2. length - count \in Nat
    BY <1>1, <1>2
  <2> QED BY <1>3, <2>1, <2>2
<1>9. A!elems' = before \o behind
  BY <1>4, <1>7, <1>8, SeqEqual
<1> QED BY <1>1, <1>2, <1>9 DEF A!V!Splice, before, behind

\* The array behaves as the sequence it stands for: pushes, pops, splices and clears have
\* the effect Vector gives them, as long as realloc gives memory.
THEOREM VecIsVector == ASSUME ~MayFail PROVE A!Spec => A!VectorSpec
<1>1. A!Init => A!V!Init
  BY DEF A!Init, A!V!Init, A!elems
<1>2. A!Init => VecInv
  BY VecInit
<1>3. VecInv /\ [A!Next]_A!vars => VecInv'
  BY VecNext
<1>4. ASSUME VecInv, [A!Next]_A!vars PROVE [A!V!Next]_A!elems
  <2>1. CASE A!Push
    <3>1. PICK x \in Vals : A!vec_push(x, TRUE)
      BY <2>1 DEF A!Push
    <3> QED BY <3>1, <1>4, PushSimulates DEF A!V!Next
  <2>2. CASE A!vec_pop
    BY <2>2, <1>4, PopSimulates DEF A!V!Next
  <2>3. CASE A!vec_clear
    <3>1. A!elems' = << >>
      BY <2>3 DEF A!vec_clear, A!elems
    <3> QED BY <3>1 DEF A!V!Next, A!V!Clear
  <2>4. CASE A!Splice
    <3>1. PICK start, count \in 0 .. length : A!vec_splice(start, count)
      BY <2>4 DEF A!Splice
    <3>2. A!V!Splice(start, count) /\ Len(A!elems) = length /\ length \in Nat
      BY <3>1, <1>4, SpliceSimulates, ElemsType DEF VecInv, A!TypeOK
    <3> QED BY <3>1, <3>2 DEF A!V!Next
  <2>5. CASE UNCHANGED A!vars
    BY <2>5 DEF A!vars, A!elems
  <2> QED BY <2>1, <2>2, <2>3, <2>4, <2>5, <1>4 DEF A!Next
<1> QED BY <1>1, <1>2, <1>3, <1>4, PTL DEF A!Spec, A!VectorSpec, A!V!Spec
=============================================================================
