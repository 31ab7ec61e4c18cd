---------------------------- MODULE ServerProofs ----------------------------
(***************************************************************************)
(* Proofs about the running server, for any number of reactors, workers,   *)
(* event structures and connections.                                       *)
(*                                                                         *)
(* AllInv is the inductive invariant: EventsInv says where each event      *)
(* structure is (in the pool, in a wait table, or in the hands of a        *)
(* reactor), ConnsInv where each connection is (with the master, in a      *)
(* pipe, or registered).  From it follow NoSlabLost, and, with one more    *)
(* count, NeverOverLimit and PipesGetEvents.  PacksOK adds the types of    *)
(* what rings and calls hold, and OrderInv the order of the packs of a     *)
(* connection on their way from its socket to its callbacks, from which    *)
(* CallbacksInOrder and ClosesAreTrue follow.                              *)
(***************************************************************************)
EXTENDS Server, FiniteSetTheorems, SequenceTheorems, TLAPS
-----------------------------------------------------------------------------
(* The constants. *)

LEMMA Sizes == /\ rsz \in Nat \ {0} /\ fsz \in Nat \ {0} /\ psz \in Nat \ {0}
               /\ Attempts \in Nat \ {0} /\ MaxSend \in Nat /\ MaxFails \in Nat
  BY ServerAssumption DEF rsz, fsz, psz, OrFour

\* Which base a descriptor belongs to.
HandlesApart ==
  /\ Listen \in Handles /\ Conns \subseteq Handles
  /\ \A h \in Handles : h \in Int /\ (h < 0 => -h - 1 \in Reactors /\ Pipe(-h - 1) = h)
                        /\ (h > 0 <=> h \in Conns)
  /\ \A r \in Reactors : Pipe(r) \in Handles \ Conns /\ Pipe(r) # Listen /\ Pipe(r) < 0
  /\ Listen \notin Conns
  /\ \A r, q \in Reactors : Pipe(r) = Pipe(q) => r = q
  /\ Master \in 0 .. rsz /\ Reactors \subseteq 0 .. rsz /\ Master \notin Reactors
  /\ NULL \notin Slabs /\ NULL \notin 0 .. rsz
  /\ EB!E_READ # EB!E_WRITE

BaseOfOK ==
  /\ BaseOf \in [Handles -> 0 .. rsz] /\ BaseOf[Listen] = Master
  /\ \A h \in Handles : BaseOf[h] = Master => h = Listen
  /\ \A r \in Reactors : BaseOf[Pipe(r)] = r
  /\ \A c \in Conns : BaseOf[c] = c % rsz /\ c % rsz \in Reactors /\ c % fsz \in Units

LEMMA HandleFacts == HandlesApart
<1>1. Attempts \in Nat /\ rsz \in Nat \ {0} /\ psz \in Nat
  BY Sizes
<1>2. ASSUME NEW h \in Handles
      PROVE  h \in Int /\ (h < 0 => -h - 1 \in Reactors /\ Pipe(-h - 1) = h)
                       /\ (h > 0 <=> h \in Conns)
  <2>1. CASE h \in {Listen} \cup Conns
    BY <1>1, <2>1 DEF Listen, Conns
  <2>2. CASE \E r \in Reactors : h = Pipe(r)
    BY <1>1, <2>2 DEF Pipe, Reactors, Conns
  <2> QED BY <2>1, <2>2 DEF Handles
<1>3. ASSUME NEW r \in Reactors
      PROVE  Pipe(r) \in Handles \ Conns /\ Pipe(r) # Listen /\ Pipe(r) < 0
  BY <1>1 DEF Pipe, Reactors, Conns, Listen, Handles
<1>4. \A r, q \in Reactors : Pipe(r) = Pipe(q) => r = q
  BY <1>1 DEF Pipe, Reactors
<1>5. /\ Master \in 0 .. rsz /\ Reactors \subseteq 0 .. rsz /\ Master \notin Reactors
      /\ NULL \notin Slabs /\ NULL \notin 0 .. rsz
      /\ EB!E_READ # EB!E_WRITE
      /\ Listen \in Handles /\ Conns \subseteq Handles /\ Listen \notin Conns
  BY <1>1 DEF Master, Reactors, NULL, Slabs, EB!E_READ, EB!E_WRITE, Handles, Listen, Conns
<1> QED BY <1>2, <1>3, <1>4, <1>5 DEF HandlesApart

LEMMA BaseFacts == BaseOfOK
<1> USE HandleFacts DEF HandlesApart
<1>1. Attempts \in Nat /\ rsz \in Nat \ {0} /\ fsz \in Nat \ {0}
  BY Sizes
<1>2. ASSUME NEW c \in Conns PROVE c % rsz \in Reactors /\ c % fsz \in Units
  BY <1>1 DEF Reactors, Units, Conns
<1>3. ASSUME NEW h \in Handles
      PROVE  /\ h = Listen => BaseOf[h] = Master
             /\ h \in Conns => BaseOf[h] = h % rsz
             /\ h < 0 => BaseOf[h] = -h - 1
             /\ h = Listen \/ h \in Conns \/ h < 0
  BY DEF BaseOf, Listen
<1>4. ASSUME NEW r \in Reactors PROVE BaseOf[Pipe(r)] = r
  BY <1>1, <1>3 DEF Pipe, Reactors
<1>5. BaseOf = [h \in Handles |-> BaseOf[h]]
  BY DEF BaseOf
<1>6. ASSUME NEW h \in Handles
      PROVE  BaseOf[h] \in 0 .. rsz /\ (BaseOf[h] = Master => h = Listen)
  BY <1>1, <1>2, <1>3
<1>7. BaseOf \in [Handles -> 0 .. rsz]
  BY <1>5, <1>6
<1> QED BY <1>2, <1>3, <1>4, <1>6, <1>7 DEF BaseOfOK
-----------------------------------------------------------------------------
(* Sequences. *)

\* No element of s occurs twice.
Once(s) == \A m, n \in DOMAIN s : s[m] = s[n] => m = n

\* What remains of a sequence without its head.
LEMMA TailFacts ==
  ASSUME NEW S, NEW s \in Seq(S), s # <<>>
  PROVE  /\ Head(s) = s[1] /\ Head(s) \in S /\ 1 \in DOMAIN s
         /\ Tail(s) \in Seq(S) /\ DOMAIN Tail(s) = 1 .. Len(s) - 1
         /\ Len(s) \in Nat /\ DOMAIN s = 1 .. Len(s) /\ Len(s) >= 1
         /\ Len(Tail(s)) = Len(s) - 1
         /\ \A m \in DOMAIN Tail(s) : m + 1 \in DOMAIN s /\ Tail(s)[m] = s[m + 1]
<1>1. Len(s) \in Nat /\ DOMAIN s = 1 .. Len(s) /\ Len(s) >= 1
  OBVIOUS
<1>2. /\ Head(s) \in S /\ Tail(s) \in Seq(S) /\ Head(s) = s[1]
      /\ Len(Tail(s)) = Len(s) - 1
      /\ \A i \in 1 .. Len(s) - 1 : Tail(s)[i] = s[i + 1]
  BY <1>1, HeadTailProperties
<1>3. DOMAIN Tail(s) = 1 .. Len(s) - 1
  BY <1>2
<1> QED BY <1>1, <1>2, <1>3

LEMMA TailOnce ==
  ASSUME NEW S, NEW s \in Seq(S), s # <<>>, Once(s)
  PROVE  ToSet(Tail(s)) = ToSet(s) \ {Head(s)} /\ Once(Tail(s)) /\ Head(s) \in ToSet(s)
<1> DEFINE t == Tail(s)
<1>1. /\ Head(s) = s[1] /\ 1 \in DOMAIN s /\ DOMAIN t = 1 .. Len(s) - 1
      /\ Len(s) \in Nat /\ DOMAIN s = 1 .. Len(s)
      /\ \A m \in DOMAIN t : m + 1 \in DOMAIN s /\ t[m] = s[m + 1]
  BY TailFacts
<1> HIDE DEF t
<1>2. Once(t)
  <2> SUFFICES ASSUME NEW m \in DOMAIN t, NEW n \in DOMAIN t, t[m] = t[n] PROVE m = n
    BY DEF Once
  <2>1. m + 1 = n + 1
    BY <1>1 DEF Once
  <2> QED BY <1>1, <2>1
<1>3. ASSUME NEW x \in ToSet(t) PROVE x \in ToSet(s) \ {Head(s)}
  <2>1. PICK m \in DOMAIN t : t[m] = x
    BY DEF ToSet
  <2>2. m + 1 \in DOMAIN s /\ s[m + 1] = x /\ m + 1 # 1
    BY <1>1, <2>1
  <2> QED BY <1>1, <2>2 DEF ToSet, Once
<1>4. ASSUME NEW x \in ToSet(s) \ {Head(s)} PROVE x \in ToSet(t)
  <2>1. PICK m \in DOMAIN s : s[m] = x
    BY DEF ToSet
  <2>2. m - 1 \in DOMAIN t /\ (m - 1) + 1 = m
    BY <1>1, <2>1
  <2>3. t[m - 1] = x
    BY <1>1, <2>1, <2>2
  <2> QED BY <2>2, <2>3 DEF ToSet
<1> QED BY <1>1, <1>2, <1>3, <1>4 DEF ToSet, t

\* A new element in front.
LEMMA ConsOnce ==
  ASSUME NEW S, NEW s \in Seq(S), NEW e \in S, e \notin ToSet(s), Once(s)
  PROVE  /\ <<e>> \o s \in Seq(S) /\ Once(<<e>> \o s)
         /\ ToSet(<<e>> \o s) = ToSet(s) \cup {e}
<1> DEFINE t == <<e>> \o s
<1>1. /\ t \in Seq(S) /\ Len(t) = Len(s) + 1 /\ Len(s) \in Nat
      /\ t[1] = e /\ \A m \in 2 .. Len(s) + 1 : t[m] = s[m - 1]
      /\ DOMAIN s = 1 .. Len(s) /\ DOMAIN t = 1 .. Len(s) + 1
  OBVIOUS
<1> HIDE DEF t
<1>2. \A m \in DOMAIN t : m = 1 \/ (m \in 2 .. Len(s) + 1 /\ m - 1 \in DOMAIN s)
  BY <1>1
<1>3. \A m \in DOMAIN s : s[m] \in ToSet(s) /\ m + 1 \in 2 .. Len(s) + 1 /\ (m + 1) - 1 = m
  BY <1>1 DEF ToSet
<1>4. Once(t)
  <2> SUFFICES ASSUME NEW m \in DOMAIN t, NEW n \in DOMAIN t, t[m] = t[n] PROVE m = n
    BY DEF Once
  <2>1. CASE m = 1 \/ n = 1
    BY <1>1, <1>2, <1>3, <2>1
  <2>2. CASE m # 1 /\ n # 1
    <3>1. m - 1 = n - 1
      BY <1>1, <1>2, <2>2 DEF Once
    <3> QED BY <1>1, <3>1
  <2> QED BY <2>1, <2>2
<1>5. ASSUME NEW x \in ToSet(s) PROVE x \in ToSet(t)
  <2>1. PICK m \in DOMAIN s : s[m] = x
    BY DEF ToSet
  <2>2. m + 1 \in DOMAIN t /\ t[m + 1] = x
    BY <1>1, <1>3, <2>1
  <2> QED BY <2>2 DEF ToSet
<1>6. ASSUME NEW x \in ToSet(t) PROVE x \in ToSet(s) \cup {e}
  BY <1>1, <1>2, <1>3 DEF ToSet
<1>7. e \in ToSet(t)
  BY <1>1 DEF ToSet
<1> QED BY <1>1, <1>4, <1>5, <1>6, <1>7 DEF t
-----------------------------------------------------------------------------
(* The events: tables, queues and pool. *)

EventsOK ==
  /\ fd \in [Slabs -> Handles] /\ kide \in [Slabs -> {EB!E_READ, EB!E_WRITE}]
  /\ queued \in [Slabs -> 0 .. rsz \cup {NULL}]
  /\ read_waits \in [Handles -> Slabs \cup {NULL}]
  /\ write_waits \in [Handles -> Slabs \cup {NULL}]
  /\ readies \in [0 .. rsz -> Seq(Slabs)]
  /\ interest \in [Handles -> SUBSET {"EPOLLIN", "EPOLLOUT", "EPOLLET"}]
  /\ edge \subseteq Handles
  /\ idle \in Seq(Slabs)

\* The pool holds each slab that waits for nothing, once.
PoolOK == Once(idle) /\ ToSet(idle) = Slabs \ InUse

\* A queued event is queued on the base of its descriptor, and a queued read event is
\* still the one that waits: only the callback of an event that left the queue deletes it.
QueuedOK ==
  \A e \in Slabs : queued[e] # NULL =>
    /\ queued[e] = BaseOf[fd[e]]
    /\ kide[e] = EB!E_READ => read_waits[fd[e]] = e

EventsInv ==
  EventsOK /\ EB!InterestMatchesWaits /\ EB!WaitsAreTheirs /\ PoolOK /\ QueuedOK

\* What registering an event on h changes, and what it leaves alone.
Added(h, k) ==
  /\ readies' = readies
  /\ \A g \in Handles : g # h => /\ read_waits'[g] = read_waits[g]
                               /\ write_waits'[g] = write_waits[g]
  /\ k = EB!E_READ => write_waits' = write_waits
  /\ k = EB!E_WRITE => read_waits' = read_waits
  /\ \A e \in Slabs : queued'[e] # NULL => queued'[e] = queued[e] /\ fd'[e] = fd[e]
  /\ \A g \in Handles : read_waits[g] # NULL => read_waits'[g] = read_waits[g]

LEMMA AddEvents ==
  ASSUME EventsInv, NEW h \in Handles, NEW k \in {EB!E_READ, EB!E_WRITE}, NEW ok,
         GetAndAdd(h, k, ok),
         (IF k = EB!E_READ THEN read_waits ELSE write_waits)[h] = NULL
  PROVE  EventsInv' /\ Added(h, k)
<1> DEFINE e == Head(idle)
<1>0. NULL \notin Slabs /\ NULL \notin 0 .. rsz /\ EB!E_READ # EB!E_WRITE
  BY HandleFacts DEF HandlesApart
<1>1. /\ idle \in Seq(Slabs) /\ idle # <<>> /\ Once(idle) /\ ToSet(idle) = Slabs \ InUse
      /\ EventsOK /\ EB!WaitsAreTheirs /\ EB!InterestMatchesWaits /\ QueuedOK
  BY DEF EventsInv, EventsOK, PoolOK, GetAndAdd
<1>2. /\ e \in Slabs /\ Tail(idle) \in Seq(Slabs) /\ Once(Tail(idle)) /\ e \in Slabs \ InUse
      /\ ToSet(Tail(idle)) = (Slabs \ InUse) \ {e}
  BY <1>1, TailFacts, TailOnce
<1>3. /\ \A g \in Handles : read_waits[g] # e /\ write_waits[g] # e
      /\ \A g \in Handles : read_waits[g] \in Slabs \cup {NULL}
                           /\ write_waits[g] \in Slabs \cup {NULL}
  BY <1>1, <1>2 DEF InUse, EventsOK
<1>4. /\ fd' = [fd EXCEPT ![e] = h] /\ kide' = [kide EXCEPT ![e] = k]
      /\ queued' = [queued EXCEPT ![e] = NULL] /\ readies' = readies
      /\ EB!ebot_add_event(e, h, k, ok)
      /\ idle' = IF EB!AddWorks(h, ok) THEN Tail(idle) ELSE idle
  BY DEF GetAndAdd, EB!event_set
<1> HIDE DEF e
<1>5. /\ fd' \in [Slabs -> Handles] /\ kide' \in [Slabs -> {EB!E_READ, EB!E_WRITE}]
      /\ queued' \in [Slabs -> 0 .. rsz \cup {NULL}]
      /\ fd'[e] = h /\ kide'[e] = k /\ queued'[e] = NULL
      /\ \A d \in Slabs : d # e => /\ fd'[d] = fd[d] /\ kide'[d] = kide[d]
                                  /\ queued'[d] = queued[d]
  BY <1>1, <1>2, <1>4 DEF EventsOK
<1>6. CASE EB!AddWorks(h, ok)
  <2>1. /\ interest' = [interest EXCEPT ![h] = EB!AddFlags(h, k)]
        /\ edge' = edge \cup {h}
        /\ read_waits' = IF k = EB!E_READ THEN [read_waits EXCEPT ![h] = e] ELSE read_waits
        /\ write_waits' = IF k = EB!E_WRITE THEN [write_waits EXCEPT ![h] = e] ELSE write_waits
        /\ idle' = Tail(idle)
    BY <1>4, <1>6, <1>0 DEF EB!ebot_add_event
  <2>2. /\ read_waits' \in [Handles -> Slabs \cup {NULL}]
        /\ write_waits' \in [Handles -> Slabs \cup {NULL}]
        /\ \A g \in Handles :
             /\ read_waits'[g] = IF g = h /\ k = EB!E_READ THEN e ELSE read_waits[g]
             /\ write_waits'[g] = IF g = h /\ k = EB!E_WRITE THEN e ELSE write_waits[g]
    BY <1>1, <1>2, <2>1 DEF EventsOK
  <2>3. EB!AddFlags(h, k) \in SUBSET {"EPOLLIN", "EPOLLOUT", "EPOLLET"}
    BY DEF EB!AddFlags
  <2>4. EventsOK'
    BY <1>1, <1>2, <1>4, <1>5, <2>1, <2>2, <2>3 DEF EventsOK
  <2>5. EB!InterestMatchesWaits'
    <3>1. /\ "EPOLLIN" \in EB!AddFlags(h, k) <=> (k = EB!E_READ \/ read_waits[h] # NULL)
          /\ "EPOLLOUT" \in EB!AddFlags(h, k) <=> (k = EB!E_WRITE \/ write_waits[h] # NULL)
          /\ EB!AddFlags(h, k) # {"EPOLLET"}
      BY <1>0 DEF EB!AddFlags
    <3>2. \A g \in Handles : interest'[g] = IF g = h THEN EB!AddFlags(h, k) ELSE interest[g]
      BY <1>1, <2>1 DEF EventsOK
    <3> QED BY <1>0, <1>1, <1>2, <2>2, <3>1, <3>2 DEF EB!InterestMatchesWaits
  <2>6. EB!WaitsAreTheirs'
    BY <1>0, <1>1, <1>3, <1>5, <2>2 DEF EB!WaitsAreTheirs
  <2>7. InUse' = InUse \cup {e}
    BY <1>0, <1>2, <1>3, <2>2 DEF InUse
  <2>8. PoolOK'
    BY <1>2, <2>1, <2>7 DEF PoolOK
  <2>9. QueuedOK'
    BY <1>0, <1>1, <1>5, <1>3, <2>2 DEF QueuedOK, EventsOK
  <2>10. Added(h, k)
    BY <1>0, <1>3, <1>4, <1>5, <2>1, <2>2 DEF Added
  <2> QED BY <2>4, <2>5, <2>6, <2>8, <2>9, <2>10 DEF EventsInv
<1>7. CASE ~EB!AddWorks(h, ok)
  <2>1. UNCHANGED <<interest, edge, read_waits, write_waits>> /\ idle' = idle
    BY <1>4, <1>7 DEF EB!ebot_add_event
  <2>2. EventsOK'
    BY <1>1, <1>4, <1>5, <2>1 DEF EventsOK
  <2>3. EB!InterestMatchesWaits'
    BY <1>1, <2>1 DEF EB!InterestMatchesWaits
  <2>4. EB!WaitsAreTheirs'
    BY <1>1, <1>3, <1>5, <2>1 DEF EB!WaitsAreTheirs
  <2>5. PoolOK'
    BY <1>1, <2>1 DEF PoolOK, InUse
  <2>6. QueuedOK'
    BY <1>0, <1>1, <1>5, <2>1 DEF QueuedOK
  <2>7. Added(h, k)
    BY <1>4, <1>5, <2>1 DEF Added
  <2> QED BY <2>2, <2>3, <2>4, <2>5, <2>6, <2>7 DEF EventsInv
<1> QED BY <1>6, <1>7

\* What deleting the waiting event e changes, and what it leaves alone.
Deleted(e) ==
  /\ UNCHANGED <<fd, kide, queued, readies>>
  /\ IF kide[e] = EB!E_READ
       THEN /\ read_waits' = [read_waits EXCEPT ![fd[e]] = NULL]
            /\ write_waits' = write_waits
       ELSE /\ write_waits' = [write_waits EXCEPT ![fd[e]] = NULL]
            /\ read_waits' = read_waits

LEMMA DelEvents ==
  ASSUME EventsInv, NEW e \in Slabs, NEW h \in Handles, e \in {read_waits[h], write_waits[h]},
         e = read_waits[h] => queued[e] = NULL, DelAndPut(e)
  PROVE  EventsInv' /\ Deleted(e) /\ fd[e] = h
<1>0. NULL \notin Slabs /\ NULL \notin 0 .. rsz /\ EB!E_READ # EB!E_WRITE
  BY HandleFacts DEF HandlesApart
<1>1. /\ idle \in Seq(Slabs) /\ Once(idle) /\ ToSet(idle) = Slabs \ InUse
      /\ EventsOK /\ EB!WaitsAreTheirs /\ EB!InterestMatchesWaits /\ QueuedOK
  BY DEF EventsInv, EventsOK, PoolOK
<1>2. /\ UNCHANGED <<fd, kide, queued, readies>> /\ idle' = <<e>> \o idle
      /\ EB!ebot_del_event(e)
  BY DEF DelAndPut
<1>3. /\ fd[e] = h /\ kide[e] \in {EB!E_READ, EB!E_WRITE}
      /\ kide[e] = EB!E_READ => e = read_waits[h]
      /\ kide[e] = EB!E_WRITE => e = write_waits[h]
  BY <1>0, <1>1 DEF EB!WaitsAreTheirs, EventsOK
<1> DEFINE F == CASE kide[e] = EB!E_READ /\ write_waits[fd[e]] # NULL -> {"EPOLLOUT"}
                  [] kide[e] = EB!E_WRITE /\ read_waits[fd[e]] # NULL -> {"EPOLLIN", "EPOLLET"}
                  [] OTHER -> {}
<1>4. /\ interest' = [interest EXCEPT ![fd[e]] = F] /\ edge' \subseteq edge \cup {fd[e]}
      /\ read_waits' = IF kide[e] = EB!E_WRITE /\ read_waits[fd[e]] # NULL THEN read_waits
                        ELSE [read_waits EXCEPT ![fd[e]] = NULL]
      /\ write_waits' = IF kide[e] = EB!E_READ /\ write_waits[fd[e]] # NULL THEN write_waits
                        ELSE [write_waits EXCEPT ![fd[e]] = NULL]
  BY <1>2 DEF EB!ebot_del_event
<1>5. F = IF kide[e] = EB!E_READ
            THEN IF write_waits[h] # NULL THEN {"EPOLLOUT"} ELSE {}
            ELSE IF read_waits[h] # NULL THEN {"EPOLLIN", "EPOLLET"} ELSE {}
  <2>1. CASE kide[e] = EB!E_READ /\ write_waits[h] # NULL
    BY <1>0, <1>3, <2>1
  <2>2. CASE kide[e] = EB!E_WRITE /\ read_waits[h] # NULL
    BY <1>0, <1>3, <2>2
  <2>3. CASE /\ ~(kide[e] = EB!E_READ /\ write_waits[h] # NULL)
             /\ ~(kide[e] = EB!E_WRITE /\ read_waits[h] # NULL)
    <3>1. F = {}
      BY <1>3, <2>3
    <3> QED BY <1>3, <2>3, <3>1
  <2> QED BY <1>3, <2>1, <2>2, <2>3
<1> HIDE DEF F
<1>6. /\ read_waits \in [Handles -> Slabs \cup {NULL}]
      /\ write_waits \in [Handles -> Slabs \cup {NULL}]
      /\ interest \in [Handles -> SUBSET {"EPOLLIN", "EPOLLOUT", "EPOLLET"}]
      /\ edge \subseteq Handles
  BY <1>1 DEF EventsOK
<1>7. /\ read_waits' \in [Handles -> Slabs \cup {NULL}]
      /\ write_waits' \in [Handles -> Slabs \cup {NULL}]
      /\ \A g \in Handles :
           /\ read_waits'[g] = IF g = h /\ kide[e] = EB!E_READ THEN NULL ELSE read_waits[g]
           /\ write_waits'[g] = IF g = h /\ kide[e] = EB!E_WRITE THEN NULL ELSE write_waits[g]
  BY <1>0, <1>3, <1>4, <1>6
<1>8. EventsOK'
  <2>1. edge' \subseteq Handles
    BY <1>3, <1>4, <1>6
  <2>2. F \in SUBSET {"EPOLLIN", "EPOLLOUT", "EPOLLET"}
    BY <1>5
  <2>3. interest' \in [Handles -> SUBSET {"EPOLLIN", "EPOLLOUT", "EPOLLET"}]
    BY <1>3, <1>4, <1>6, <2>2
  <2>4. idle' \in Seq(Slabs)
    BY <1>1, <1>2
  <2> QED BY <1>1, <1>2, <1>7, <2>1, <2>3, <2>4 DEF EventsOK
<1>9. EB!InterestMatchesWaits'
  <2>1. \A g \in Handles : interest'[g] = IF g = h THEN F ELSE interest[g]
    BY <1>3, <1>4, <1>6
  <2> QED BY <1>0, <1>1, <1>3, <1>5, <1>7, <2>1 DEF EB!InterestMatchesWaits
<1>10. EB!WaitsAreTheirs'
  BY <1>1, <1>2, <1>7 DEF EB!WaitsAreTheirs
<1>11. InUse' = InUse \ {e}
  <2>1. \A g \in Handles : /\ read_waits[g] = e => g = h /\ kide[e] = EB!E_READ
                           /\ write_waits[g] = e => g = h /\ kide[e] = EB!E_WRITE
    BY <1>0, <1>1, <1>3 DEF EB!WaitsAreTheirs
  <2>2. \A g \in Handles : read_waits'[g] # e /\ write_waits'[g] # e
    BY <1>0, <1>7, <2>1
  <2>3. e \notin InUse'
    BY <2>2 DEF InUse
  <2>4. \A d \in Slabs : d # e => (d \in InUse' <=> d \in InUse)
    BY <1>0, <1>3, <1>7 DEF InUse
  <2> QED BY <2>3, <2>4 DEF InUse
<1>12. PoolOK'
  <2>1. e \in InUse
    BY DEF InUse
  <2>2. e \notin ToSet(idle)
    BY <1>1, <2>1
  <2>3. Once(idle') /\ ToSet(idle') = ToSet(idle) \cup {e}
    BY <1>1, <1>2, <2>2, ConsOnce
  <2>4. ToSet(idle') = Slabs \ InUse'
    BY <1>1, <1>11, <2>1, <2>3
  <2> QED BY <2>3, <2>4 DEF PoolOK
<1>13. QueuedOK'
  <2>1. kide[e] = EB!E_READ => queued[e] = NULL
    BY <1>3
  <2> QED BY <1>0, <1>1, <1>2, <1>3, <1>7, <2>1 DEF QueuedOK, EventsOK
<1>14. Deleted(e)
  <2>1. CASE kide[e] = EB!E_READ
    <3>1. write_waits[h] = NULL => [write_waits EXCEPT ![h] = NULL] = write_waits
      BY <1>6
    <3> QED BY <1>0, <1>2, <1>3, <1>4, <2>1, <3>1 DEF Deleted
  <2>2. CASE kide[e] = EB!E_WRITE
    <3>1. read_waits[h] = NULL => [read_waits EXCEPT ![h] = NULL] = read_waits
      BY <1>6
    <3> QED BY <1>0, <1>2, <1>3, <1>4, <2>2, <3>1 DEF Deleted
  <2> QED BY <1>3, <2>1, <2>2
<1> QED BY <1>3, <1>8, <1>9, <1>10, <1>12, <1>13, <1>14 DEF EventsInv

\* A step that leaves the events alone, or only adds arrivals.
LEMMA SameEvents ==
  ASSUME EventsInv, UNCHANGED <<fd, kide, queued, read_waits, write_waits, readies, interest, idle>>,
         edge' \subseteq Handles
  PROVE  EventsInv'
  BY DEF EventsInv, EventsOK, PoolOK, InUse, QueuedOK, EB!InterestMatchesWaits, EB!WaitsAreTheirs

\* What a pass of ebot_loop changes: it queues events that wait on descriptors of its base,
\* and for the master there is only the event of the listening socket.
Looped(b) ==
  /\ UNCHANGED <<fd, kide, read_waits, write_waits>>
  /\ \A e \in Slabs : queued'[e] # queued[e] =>
       /\ queued[e] = NULL /\ queued'[e] = b /\ BaseOf[fd[e]] = b
       /\ e \in {read_waits[fd[e]], write_waits[fd[e]]}
  /\ b # Master => readies'[Master] = readies[Master]
  /\ b = Master => backlog > 0 /\ Len(readies'[Master]) <= 1

\* The sequences a set of events can be queued in.
LEMMA QueueOrders ==
  ASSUME NEW S \in SUBSET Slabs, NEW ready \in EB!SetToSeqs(S)
  PROVE  /\ ready \in Seq(Slabs) /\ Len(ready) = Cardinality(S)
         /\ \A e \in Slabs : EB!Contains(ready, e) => e \in S
<1>1. Cardinality(S) \in Nat
  <2>1. IsFiniteSet(Slabs)
    BY Sizes, FS_Interval DEF Slabs
  <2> QED BY <2>1, FS_Subset, FS_CardinalityType
<1>2. ready \in [1 .. Cardinality(S) -> S]
  <2>1. EB!Cardinality(S) = Cardinality(S)
    BY DEF EB!Cardinality, Cardinality
  <2> QED BY <2>1 DEF EB!SetToSeqs
<1>3. ready \in [1 .. Cardinality(S) -> Slabs] /\ DOMAIN ready = 1 .. Cardinality(S)
  BY <1>2
<1>4. ready \in Seq(Slabs)
  BY <1>1, <1>3
<1> QED BY <1>1, <1>2, <1>3, <1>4 DEF EB!Contains

LEMMA LoopEvents ==
  ASSUME EventsInv, NEW b \in 0 .. rsz, EB!ebot_loop(b), idle' = idle
  PROVE  EventsInv' /\ Looped(b)
<1> DEFINE S == UNION {EB!ReadyEvents(h) : h \in EB!Reported(b)}
<1>0. /\ NULL \notin Slabs /\ NULL \notin 0 .. rsz /\ EB!E_READ # EB!E_WRITE
      /\ Listen \in Handles /\ \A h \in Handles : BaseOf[h] = Master => h = Listen
  BY BaseFacts, HandleFacts DEF HandlesApart, BaseOfOK
<1>1. EventsOK /\ EB!WaitsAreTheirs /\ EB!InterestMatchesWaits /\ QueuedOK /\ PoolOK
  BY DEF EventsInv
<1>2. PICK ready \in EB!SetToSeqs(S) :
        /\ readies' = [readies EXCEPT ![b] = ready]
        /\ queued' = [e \in Slabs |-> IF EB!Contains(ready, e) THEN b ELSE queued[e]]
  BY DEF EB!ebot_loop
<1>3. /\ UNCHANGED <<fd, kide, read_waits, write_waits, interest>> /\ edge' \subseteq edge
      /\ EB!Reported(b) # {} /\ EB!Reported(b) \subseteq Handles
      /\ \A h \in EB!Reported(b) : BaseOf[h] = b
  BY DEF EB!ebot_loop, EB!tables, EB!Reported
<1>4. ASSUME NEW e \in S
      PROVE  /\ e \in Slabs /\ queued[e] = NULL /\ BaseOf[fd[e]] = b
             /\ e \in {read_waits[fd[e]], write_waits[fd[e]]}
             /\ kide[e] = EB!E_READ => read_waits[fd[e]] = e
  <2>1. PICK h \in EB!Reported(b) : e \in EB!ReadyEvents(h)
    OBVIOUS
  <2>2. /\ h \in Handles /\ BaseOf[h] = b /\ e \in Slabs /\ queued[e] = NULL
        /\ e = read_waits[h] \/ e = write_waits[h]
    BY <1>3, <2>1 DEF EB!ReadyEvents
  <2> QED BY <1>0, <1>1, <2>2 DEF EB!WaitsAreTheirs
<1>5. S \in SUBSET Slabs
  BY <1>4
<1>6. ASSUME b = Master
      PROVE  backlog > 0 /\ Cardinality(S) <= 1
  <2>1. EB!Reported(b) = {Listen}
    BY <1>0, <1>3, <1>6
  <2>2. Level[Listen] = IF backlog > 0 THEN {"EPOLLIN"} ELSE {}
    BY <1>0 DEF Level
  <2>3. interest[Listen] \cap Level[Listen] # {}
    BY <2>1 DEF EB!Reported
  <2>4. backlog > 0 /\ "EPOLLOUT" \notin Level[Listen]
    BY <2>2, <2>3
  <2>5. S \subseteq {read_waits[Listen]}
    BY <2>1, <2>4 DEF EB!ReadyEvents
  <2>6. Cardinality({read_waits[Listen]}) = 1 /\ IsFiniteSet({read_waits[Listen]})
    BY FS_Singleton
  <2> HIDE DEF S
  <2>7. Cardinality(S) <= 1
    BY <2>5, <2>6, FS_Subset
  <2> QED BY <2>4, <2>7
<1> HIDE DEF S
<1>7. /\ ready \in Seq(Slabs) /\ Len(ready) = Cardinality(S)
      /\ \A e \in Slabs : EB!Contains(ready, e) => e \in S
  BY <1>5, QueueOrders
<1>8. \A e \in Slabs : \/ queued'[e] = queued[e]
                       \/ e \in S /\ queued'[e] = b
  BY <1>2, <1>7
<1>9. EventsOK'
  BY <1>1, <1>2, <1>3, <1>7 DEF EventsOK
<1>10. EB!InterestMatchesWaits' /\ EB!WaitsAreTheirs' /\ PoolOK'
  BY <1>1, <1>3 DEF EB!InterestMatchesWaits, EB!WaitsAreTheirs, PoolOK, InUse
<1>11. QueuedOK'
  BY <1>1, <1>3, <1>4, <1>8 DEF QueuedOK
<1>12. Looped(b)
  <2>1. /\ readies \in [0 .. rsz -> Seq(Slabs)]
        /\ Master \in 0 .. rsz
    BY <1>1, HandleFacts DEF EventsOK, HandlesApart
  <2> QED BY <1>2, <1>3, <1>4, <1>6, <1>7, <1>8, <2>1 DEF Looped
<1> QED BY <1>9, <1>10, <1>11, <1>12 DEF EventsInv

\* What taking the first event of a queue changes.
Dispatched(b) ==
  /\ UNCHANGED <<fd, kide>>
  /\ Head(readies[b]) \in Slabs /\ readies[b] # <<>>
  /\ readies' = [readies EXCEPT ![b] = Tail(@)]
  /\ queued' = [queued EXCEPT ![Head(readies[b])] = NULL]

LEMMA DispatchEvents ==
  ASSUME EventsInv, NEW b \in 0 .. rsz, EB!dispatch_events(b),
         UNCHANGED <<read_waits, write_waits, interest, idle>>, edge' \subseteq Handles
  PROVE  EventsInv' /\ Dispatched(b)
<1>1. EventsOK /\ EB!WaitsAreTheirs /\ EB!InterestMatchesWaits /\ QueuedOK /\ PoolOK
  BY DEF EventsInv
<1>2. /\ readies[b] # <<>> /\ fd' = fd /\ kide' = kide
      /\ readies' = [readies EXCEPT ![b] = Tail(@)]
      /\ queued' = [queued EXCEPT ![Head(readies[b])] = NULL]
      /\ readies[b] \in Seq(Slabs)
  BY <1>1 DEF EB!dispatch_events, EventsOK
<1>3. Head(readies[b]) \in Slabs /\ Tail(readies[b]) \in Seq(Slabs)
  BY <1>2, TailFacts
<1> DEFINE e == Head(readies[b])
<1> HIDE DEF e
<1>4. EventsOK'
  BY <1>1, <1>2, <1>3 DEF EventsOK
<1>5. EB!InterestMatchesWaits' /\ EB!WaitsAreTheirs' /\ PoolOK'
  BY <1>1, <1>2 DEF EB!InterestMatchesWaits, EB!WaitsAreTheirs, PoolOK, InUse
<1>6. QueuedOK'
  <2>1. \A d \in Slabs : queued'[d] = IF d = e THEN NULL ELSE queued[d]
    BY <1>1, <1>2 DEF EventsOK, e
  <2> QED BY <1>1, <1>2, <2>1 DEF QueuedOK
<1> QED BY <1>2, <1>3, <1>4, <1>5, <1>6 DEF EventsInv, Dispatched
-----------------------------------------------------------------------------
(* The connections: where each one is on its way. *)

ThreadsOK ==
  /\ backlog \in Nat /\ arrived \in 0 .. Attempts
  /\ conn \in [Conns -> {"none", "open", "fin"}]
  /\ sent \in [Conns -> 0 .. MaxSend] /\ inbox \in [Conns -> 0 .. MaxSend]
  /\ fails \in 0 .. MaxFails /\ pipe \in [Reactors -> Seq(Conns)]
  /\ mpc \in {"start", "wait", "connect"} /\ mfd \in Conns \cup {0} /\ total_conns \in Nat
  /\ rpc \in [Reactors -> {"start", "loop", "pipe", "add_read", "add_write", "read",
                           "close_read", "close_write", "push"}]
  /\ cfd \in [Reactors -> Handles] /\ pack \in [Reactors -> 0 .. MaxSend]
  /\ dead \in {"no", "exit", "assert", "queue"}
  /\ \A c \in Conns : inbox[c] <= sent[c]

\* Connections ever admitted.
Admitted == total_conns + IF mpc = "connect" THEN 1 ELSE 0

AdmissionInv ==
  /\ \A c \in Conns : conn[c] # "none" <=> c <= Admitted
  /\ Admitted + backlog <= arrived
  /\ mpc = "connect" => mfd = Admitted
  /\ readies[Master] # <<>> => backlog > 0 /\ Len(readies[Master]) <= 1

\* A descriptor on its way to its reactor is not registered.
Unregistered(c) == read_waits[c] = NULL /\ write_waits[c] = NULL

InPipe(c, r) == \E m \in DOMAIN pipe[r] : pipe[r][m] = c

PipesInv ==
  /\ \A c \in Conns : conn[c] = "none" => Unregistered(c)
  /\ \A r \in Reactors : \A m \in DOMAIN pipe[r] :
       LET c == pipe[r][m]
       IN  /\ c % rsz = r /\ conn[c] # "none" /\ Unregistered(c)
           /\ \A n \in DOMAIN pipe[r] : pipe[r][n] = c => n = m

Handling == {"add_read", "add_write", "read", "close_read", "close_write", "push"}

\* What the thread of reactor r relies on where it is.
PlaceOK(r) ==
  /\ rpc[r] = "start" => read_waits[Pipe(r)] = NULL
  /\ rpc[r] \in Handling => /\ cfd[r] \in Conns /\ cfd[r] % rsz = r
                            /\ conn[cfd[r]] # "none" /\ ~InPipe(cfd[r], r)
  /\ rpc[r] = "add_read" => Unregistered(cfd[r])
  /\ rpc[r] = "add_write" => write_waits[cfd[r]] = NULL
  /\ rpc[r] \in {"read", "close_read"} => /\ read_waits[cfd[r]] # NULL
                                          /\ queued[read_waits[cfd[r]]] = NULL
  /\ rpc[r] = "close_write" => read_waits[cfd[r]] = NULL

MasterPlace == mpc = "start" => read_waits[Listen] = NULL

\* Only events of admitted connections are queued.
QueuedConns == \A e \in Slabs : queued[e] # NULL /\ fd[e] \in Conns => conn[fd[e]] # "none"

PlacesInv == MasterPlace /\ (\A r \in Reactors : PlaceOK(r)) /\ QueuedConns

ConnsInv == ThreadsOK /\ AdmissionInv /\ PipesInv /\ PlacesInv

\* A step of the thread of base b (or of nobody, then b is the master's) leaves alone what
\* the other threads rely on.
QuietFor(b) ==
  /\ \A h \in Handles : BaseOf[h] # b => /\ read_waits'[h] = read_waits[h]
                                        /\ write_waits'[h] = write_waits[h]
  /\ \A e \in Slabs : queued'[e] # NULL =>
       /\ fd'[e] = fd[e]
       /\ queued[e] = NULL => /\ BaseOf[fd[e]] = b
                              /\ e \in {read_waits[fd[e]], write_waits[fd[e]]}
  /\ \A q \in Reactors : q # b =>
       /\ rpc'[q] = rpc[q] /\ cfd'[q] = cfd[q]
       /\ \A c \in Conns : InPipe(c, q)' => InPipe(c, q) \/ conn[c] = "none"
  /\ b # Master => mpc' = mpc
  /\ \A c \in Conns : conn[c] # "none" => conn'[c] # "none"

LEMMA OthersPlaces ==
  ASSUME EventsInv, ConnsInv, NEW b \in 0 .. rsz, QuietFor(b)
  PROVE  /\ \A q \in Reactors : q # b => PlaceOK(q)'
         /\ b # Master => MasterPlace'
         /\ QueuedConns'
<1>0. HandlesApart /\ BaseOfOK
  BY HandleFacts, BaseFacts
<1>1. ASSUME NEW q \in Reactors, q # b
      PROVE  PlaceOK(q)'
  <2>1. /\ PlaceOK(q) /\ rpc'[q] = rpc[q] /\ cfd'[q] = cfd[q]
        /\ \A c \in Conns : conn[c] # "none" => conn'[c] # "none"
        /\ \A c \in Conns : InPipe(c, q)' => InPipe(c, q) \/ conn[c] = "none"
    BY <1>1 DEF QuietFor, ConnsInv, PlacesInv
  <2>2. rpc[q] = "start" => read_waits'[Pipe(q)] = NULL
    BY <1>0, <1>1, <2>1 DEF PlaceOK, QuietFor, HandlesApart, BaseOfOK
  <2>3. ASSUME rpc[q] \in Handling
        PROVE  /\ cfd[q] \in Conns /\ cfd[q] % rsz = q /\ conn'[cfd[q]] # "none"
               /\ ~InPipe(cfd[q], q)' /\ cfd[q] \in Handles /\ BaseOf[cfd[q]] = q
               /\ read_waits'[cfd[q]] = read_waits[cfd[q]]
               /\ write_waits'[cfd[q]] = write_waits[cfd[q]]
    <3>1. /\ cfd[q] \in Conns /\ cfd[q] % rsz = q /\ conn[cfd[q]] # "none"
          /\ ~InPipe(cfd[q], q)
      BY <2>1, <2>3 DEF PlaceOK
    <3>2. cfd[q] \in Handles /\ BaseOf[cfd[q]] = q
      BY <1>0, <3>1 DEF HandlesApart, BaseOfOK
    <3>3. \A c \in Conns : c = cfd[q] => ~InPipe(c, q)'
      BY <2>1, <3>1
    <3>4. ~InPipe(cfd[q], q)'
      BY <2>1, <3>1, <3>3 DEF InPipe
    <3> QED BY <1>1, <2>1, <3>1, <3>2, <3>4 DEF QuietFor
  <2>4. ASSUME rpc[q] \in {"read", "close_read"}
        PROVE  read_waits[cfd[q]] # NULL /\ queued'[read_waits[cfd[q]]] = NULL
    <3>1. rpc[q] \in Handling
      BY <2>4 DEF Handling
    <3>2. /\ read_waits[cfd[q]] # NULL /\ queued[read_waits[cfd[q]]] = NULL
          /\ cfd[q] \in Handles /\ BaseOf[cfd[q]] = q
      BY <2>1, <2>3, <2>4, <3>1 DEF PlaceOK
    <3>3. read_waits[cfd[q]] \in Slabs /\ fd[read_waits[cfd[q]]] = cfd[q]
      BY <3>2 DEF EventsInv, EventsOK, EB!WaitsAreTheirs
    <3> QED BY <1>1, <3>2, <3>3 DEF QuietFor
  <2>5. /\ rpc'[q] \in Handling <=> rpc[q] \in Handling
        /\ \A x \in Handling : rpc[q] = x => rpc[q] \in Handling
    BY <2>1
  <2>6. {"add_read", "add_write", "read", "close_read", "close_write"} \subseteq Handling
    BY DEF Handling
  <2>7. ASSUME rpc[q] \in Handling
        PROVE  /\ cfd'[q] \in Conns /\ cfd'[q] % rsz = q
               /\ conn'[cfd'[q]] # "none" /\ ~InPipe(cfd[q], q)'
    BY <2>1, <2>3, <2>7
  <2>8. rpc[q] = "add_read" => Unregistered(cfd[q])'
    BY <2>1, <2>3, <2>6 DEF PlaceOK, Unregistered
  <2> QED BY <2>1, <2>2, <2>3, <2>4, <2>5, <2>6, <2>7, <2>8 DEF PlaceOK
<1>2. b # Master => MasterPlace'
  BY <1>0 DEF QuietFor, ConnsInv, PlacesInv, MasterPlace, HandlesApart, BaseOfOK
<1>3. QueuedConns'
  <2> SUFFICES ASSUME NEW e \in Slabs, queued'[e] # NULL, fd'[e] \in Conns
               PROVE  conn'[fd'[e]] # "none"
    BY DEF QueuedConns
  <2>1. /\ fd'[e] = fd[e]
        /\ queued[e] = NULL => e \in {read_waits[fd[e]], write_waits[fd[e]]}
    BY DEF QuietFor
  <2>2. conn[fd[e]] # "none"
    BY <1>0, <2>1 DEF ConnsInv, PlacesInv, QueuedConns, PipesInv, Unregistered, HandlesApart
  <2> QED BY <2>1, <2>2 DEF QuietFor
<1> QED BY <1>1, <1>2, <1>3

\* The tables of descriptors on their way, and the pipes, are untouched.
LEMMA PipesKept ==
  ASSUME PipesInv, pipe' = pipe,
         \A c \in Conns : conn'[c] = "none" <=> conn[c] = "none",
         \A c \in Conns : (conn[c] = "none" \/ \E q \in Reactors : InPipe(c, q)) =>
           read_waits'[c] = read_waits[c] /\ write_waits'[c] = write_waits[c],
         ThreadsOK
  PROVE  PipesInv'
<1>1. ASSUME NEW c \in Conns, conn'[c] = "none" PROVE Unregistered(c)'
  BY <1>1 DEF PipesInv, Unregistered
<1>2. ASSUME NEW r \in Reactors, NEW m \in DOMAIN pipe[r], NEW c, c = pipe[r][m]
      PROVE  /\ c % rsz = r /\ conn'[c] # "none" /\ Unregistered(c)'
             /\ \A n \in DOMAIN pipe[r] : pipe[r][n] = c => n = m
  <2>1. /\ c % rsz = r /\ conn[c] # "none" /\ Unregistered(c)
        /\ \A n \in DOMAIN pipe[r] : pipe[r][n] = c => n = m
    BY <1>2 DEF PipesInv
  <2>2. c \in Conns /\ InPipe(c, r)
    <3>1. pipe[r] \in Seq(Conns)
      BY DEF ThreadsOK
    <3>2. pipe[r][m] \in Conns
      BY <3>1
    <3> QED BY <1>2, <3>2 DEF InPipe
  <2> QED BY <2>1, <2>2 DEF Unregistered
<1>3. \A r \in Reactors : \A m \in DOMAIN pipe[r] :
         /\ pipe[r][m] % rsz = r /\ conn'[pipe[r][m]] # "none"
         /\ read_waits'[pipe[r][m]] = NULL /\ write_waits'[pipe[r][m]] = NULL
         /\ \A n \in DOMAIN pipe[r] : pipe[r][n] = pipe[r][m] => n = m
  BY <1>2 DEF Unregistered
<1> QED BY <1>1, <1>3 DEF PipesInv, Unregistered

LEMMA AdmissionKept ==
  ASSUME AdmissionInv, UNCHANGED <<backlog, arrived, mfd, total_conns>>,
         mpc' = "connect" <=> mpc = "connect",
         \A c \in Conns : conn'[c] = "none" <=> conn[c] = "none",
         readies'[Master] = readies[Master]
  PROVE  AdmissionInv' /\ Admitted' = Admitted
  BY DEF AdmissionInv, Admitted

AllInv == EventsInv /\ ConnsInv

LEMMA StepOf ==
  ASSUME AllInv, EventsInv', NEW b \in 0 .. rsz, QuietFor(b), ThreadsOK', AdmissionInv', PipesInv',
         b \in Reactors => PlaceOK(b)', b = Master => MasterPlace'
  PROVE  AllInv'
<1>1. /\ \A q \in Reactors : q # b => PlaceOK(q)'
      /\ b # Master => MasterPlace'
      /\ QueuedConns'
  BY OthersPlaces DEF AllInv
<1>2. \A q \in Reactors : PlaceOK(q)'
  BY <1>1
<1>3. PlacesInv'
  BY <1>1, <1>2 DEF PlacesInv
<1> QED BY <1>3 DEF AllInv, ConnsInv

\* The clients.
LEMMA ClientConnectStep ==
  ASSUME AllInv, ClientConnect
  PROVE  AllInv'
<1>1. HandlesApart /\ EventsInv /\ ConnsInv /\ ThreadsOK /\ AdmissionInv /\ PipesInv /\ PlacesInv
  BY HandleFacts DEF AllInv, ConnsInv
<1>2. /\ UNCHANGED <<fd, kide, queued, read_waits, write_waits, readies, interest, idle>>
      /\ UNCHANGED <<conn, pipe, rpc, cfd, mpc, mfd, total_conns>>
      /\ edge' \subseteq Handles
      /\ arrived < Attempts /\ arrived' = arrived + 1 /\ backlog' = backlog + 1
  BY <1>1 DEF ClientConnect, master, react, EventsInv, EventsOK, HandlesApart
<1>3. EventsInv'
  BY <1>1, <1>2, SameEvents
<1>4. ThreadsOK'
  BY <1>1, Sizes DEF ThreadsOK, ClientConnect, master, react
<1>5. AdmissionInv'
  BY <1>1, <1>2 DEF AdmissionInv, Admitted, ThreadsOK
<1>6. QuietFor(Master)
  BY <1>2 DEF QuietFor, InPipe
<1>7. PipesInv'
  BY <1>1, <1>2, PipesKept
<1>8. MasterPlace'
  BY <1>1, <1>2 DEF PlacesInv, MasterPlace
<1> QED BY <1>1, <1>3, <1>4, <1>5, <1>6, <1>7, <1>8, StepOf DEF HandlesApart

LEMMA ClientStep ==
  ASSUME AllInv, NEW c \in Conns, ClientSend(c) \/ ClientClose(c)
  PROVE  AllInv'
<1>1. HandlesApart /\ EventsInv /\ ConnsInv /\ ThreadsOK /\ AdmissionInv /\ PipesInv /\ PlacesInv
  BY HandleFacts DEF AllInv, ConnsInv
<1>2. /\ UNCHANGED <<fd, kide, queued, read_waits, write_waits, readies, interest, idle>>
      /\ UNCHANGED <<backlog, arrived, pipe, rpc, cfd, mpc, mfd, total_conns>>
      /\ edge' \subseteq Handles
  BY <1>1 DEF ClientSend, ClientClose, Arrives, master, react, EventsInv, EventsOK, HandlesApart
<1>3. EventsInv'
  BY <1>1, <1>2, SameEvents
<1>4. ThreadsOK'
  <2>1. CASE ClientSend(c)
    BY <1>1, <2>1, Sizes DEF ThreadsOK, ClientSend, Arrives, master, react
  <2>2. CASE ClientClose(c)
    BY <1>1, <2>2, Sizes DEF ThreadsOK, ClientClose, Arrives, master, react
  <2> QED BY <2>1, <2>2
<1>5. \A d \in Conns : conn'[d] = "none" <=> conn[d] = "none"
  BY <1>1 DEF ThreadsOK, ClientSend, ClientClose
<1>6. AdmissionInv'
  BY <1>1, <1>2, <1>5, AdmissionKept
<1>7. QuietFor(Master)
  BY <1>2, <1>5 DEF QuietFor, InPipe
<1>8. PipesInv'
  BY <1>1, <1>2, <1>5, PipesKept
<1>9. MasterPlace'
  BY <1>1, <1>2 DEF PlacesInv, MasterPlace
<1> QED BY <1>1, <1>3, <1>4, <1>6, <1>7, <1>8, <1>9, StepOf DEF HandlesApart

\* The workers.
LEMMA WorkStep ==
  ASSUME AllInv, NEW u \in Units, Work(u)
  PROVE  AllInv'
  BY DEF Work, AllInv, EventsInv, EventsOK, PoolOK, InUse, QueuedOK, EB!InterestMatchesWaits,
         EB!WaitsAreTheirs, ConnsInv, ThreadsOK, AdmissionInv, Admitted, PipesInv, Unregistered,
         PlacesInv, MasterPlace, QueuedConns, PlaceOK, InPipe, base, net, master, react

\* The parts of the invariant.
LEMMA Parts ==
  ASSUME AllInv
  PROVE  /\ HandlesApart /\ BaseOfOK /\ EventsInv /\ EventsOK /\ EB!WaitsAreTheirs /\ QueuedOK
         /\ ConnsInv /\ ThreadsOK /\ AdmissionInv /\ PipesInv
         /\ PlacesInv /\ MasterPlace /\ (\A r \in Reactors : PlaceOK(r)) /\ QueuedConns
  BY HandleFacts, BaseFacts DEF AllInv, EventsInv, ConnsInv, PlacesInv

\* The master registers the listening socket.
LEMMA MasterStartStep ==
  ASSUME AllInv, MasterStart
  PROVE  AllInv'
<1>1. /\ HandlesApart /\ BaseOfOK /\ EventsInv /\ EventsOK /\ ConnsInv /\ ThreadsOK
      /\ AdmissionInv /\ PipesInv /\ MasterPlace /\ PlacesInv
  BY Parts
<1>2. /\ UNCHANGED <<backlog, arrived, conn, sent, inbox, fails, pipe, mfd, total_conns>>
      /\ UNCHANGED <<rpc, cfd, pack>> /\ mpc = "start" /\ dead' \in {dead, "exit"}
      /\ mpc' \in {"start", "wait"}
  BY DEF MasterStart, net, react
<1>3. ThreadsOK'
  BY <1>1, <1>2 DEF ThreadsOK
<1>4. CASE idle = <<>>
  <2>1. UNCHANGED <<fd, kide, queued, read_waits, write_waits, readies, interest, edge, idle, mpc>>
    BY <1>4 DEF MasterStart, base
  <2>2. EventsInv'
    BY <1>1, <2>1, SameEvents DEF EventsOK
  <2>3. AdmissionInv'
    BY <1>1, <1>2, <2>1, AdmissionKept
  <2>4. QuietFor(Master)
    BY <1>2, <2>1 DEF QuietFor, InPipe
  <2>5. PipesInv'
    BY <1>1, <1>2, <2>1, PipesKept
  <2>6. MasterPlace'
    BY <1>1, <2>1 DEF MasterPlace
  <2> QED BY <1>1, <1>3, <2>2, <2>3, <2>4, <2>5, <2>6, StepOf DEF HandlesApart
<1>5. CASE idle # <<>>
  <2>1. PICK ok \in CtlResults : GetAndAdd(Listen, EB!E_READ, ok)
    BY <1>5 DEF MasterStart
  <2>2. read_waits[Listen] = NULL
    BY <1>1, <1>2 DEF MasterPlace
  <2>3. EventsInv' /\ Added(Listen, EB!E_READ)
    BY <1>1, <2>1, <2>2, AddEvents DEF HandlesApart
  <2>4. mpc' = "wait"
    BY <1>5 DEF MasterStart
  <2>5. /\ readies' = readies
        /\ \A g \in Handles : g # Listen => /\ read_waits'[g] = read_waits[g]
                                          /\ write_waits'[g] = write_waits[g]
        /\ \A e \in Slabs : queued'[e] # NULL => queued'[e] = queued[e] /\ fd'[e] = fd[e]
    BY <2>3 DEF Added
  <2>6. AdmissionInv'
    BY <1>1, <1>2, <2>4, <2>5, AdmissionKept
  <2>7. QuietFor(Master)
    BY <1>1, <1>2, <2>5 DEF QuietFor, InPipe, BaseOfOK
  <2>8. PipesInv'
    BY <1>1, <1>2, <2>5, PipesKept DEF HandlesApart
  <2>9. MasterPlace'
    BY <2>4 DEF MasterPlace
  <2> QED BY <1>1, <1>3, <2>3, <2>6, <2>7, <2>8, <2>9, StepOf DEF HandlesApart
<1> QED BY <1>4, <1>5

LEMMA MasterLoopStep ==
  ASSUME AllInv, MasterLoop
  PROVE  AllInv'
<1>1. /\ HandlesApart /\ BaseOfOK /\ EventsInv /\ EventsOK /\ ConnsInv /\ ThreadsOK
      /\ AdmissionInv /\ PipesInv /\ MasterPlace /\ PlacesInv
  BY Parts
<1>2. /\ UNCHANGED <<backlog, arrived, conn, sent, inbox, fails, pipe, mfd, total_conns>>
      /\ UNCHANGED <<rpc, cfd, pack, dead, mpc, idle>> /\ mpc = "wait"
      /\ EB!ebot_loop(Master)
  BY DEF MasterLoop, net, react, master
<1>3. EventsInv' /\ Looped(Master)
  BY <1>1, <1>2, LoopEvents DEF HandlesApart
<1>4. ThreadsOK'
  BY <1>1, <1>2 DEF ThreadsOK
<1>5. AdmissionInv'
  BY <1>1, <1>2, <1>3 DEF AdmissionInv, Admitted, Looped
<1>6. QuietFor(Master)
  BY <1>2, <1>3 DEF QuietFor, InPipe, Looped
<1>7. PipesInv'
  BY <1>1, <1>2, <1>3, PipesKept DEF Looped
<1>8. MasterPlace'
  BY <1>2 DEF MasterPlace
<1> QED BY <1>1, <1>3, <1>4, <1>5, <1>6, <1>7, <1>8, StepOf DEF HandlesApart

\* The descriptor that accept returns is the next connection never used.
LEMMA NewFdIsNext ==
  ASSUME AdmissionInv, ThreadsOK, backlog > 0, mpc = "wait"
  PROVE  /\ NewFd = total_conns + 1 /\ NewFd \in Conns /\ conn[NewFd] = "none"
         /\ Admitted = total_conns
<1>1. Admitted = total_conns /\ total_conns \in Nat /\ total_conns < Attempts
  BY Sizes DEF Admitted, AdmissionInv, ThreadsOK
<1>2. /\ total_conns + 1 \in Conns
      /\ \A c \in Conns : c \in Int /\ (conn[c] = "none" <=> total_conns + 1 <= c)
  BY <1>1, Sizes DEF Conns, AdmissionInv
<1>3. /\ conn[total_conns + 1] = "none"
      /\ \A d \in Conns : conn[d] = "none" => total_conns + 1 <= d
  BY <1>1, <1>2
<1>4. /\ NewFd \in Conns /\ conn[NewFd] = "none"
      /\ \A d \in Conns : conn[d] = "none" => NewFd <= d
  BY <1>2, <1>3 DEF NewFd
<1>5. NewFd = total_conns + 1
  BY <1>1, <1>2, <1>3, <1>4
<1> QED BY <1>1, <1>2, <1>3, <1>5

LEMMA AcceptRefuseStep ==
  ASSUME AllInv, AcceptRefuse
  PROVE  AllInv'
<1>1. /\ HandlesApart /\ BaseOfOK /\ EventsInv /\ EventsOK /\ ConnsInv /\ ThreadsOK
      /\ AdmissionInv /\ PipesInv /\ MasterPlace /\ PlacesInv
  BY Parts
<1>2. /\ UNCHANGED <<arrived, conn, sent, inbox, fails, pipe, mfd, total_conns>>
      /\ UNCHANGED <<rpc, cfd, pack, dead, mpc, idle, read_waits, write_waits, interest, edge>>
      /\ mpc = "wait" /\ EB!dispatch_events(Master) /\ backlog' = backlog - 1
  BY DEF AcceptRefuse, react, master
<1>3. EventsInv' /\ Dispatched(Master)
  BY <1>1, <1>2, DispatchEvents DEF HandlesApart, EventsOK
<1>4. readies[Master] # <<>> /\ backlog > 0 /\ readies'[Master] = <<>>
  <2>1. /\ readies[Master] # <<>> /\ readies[Master] \in Seq(Slabs)
        /\ readies'[Master] = Tail(readies[Master])
    BY <1>1, <1>3 DEF Dispatched, EventsOK, HandlesApart
  <2>2. Len(readies[Master]) <= 1 /\ backlog > 0
    BY <1>1, <2>1 DEF AdmissionInv
  <2>3. Tail(readies[Master]) \in Seq(Slabs) /\ Len(Tail(readies[Master])) = Len(readies[Master]) - 1
        /\ Len(readies[Master]) \in Nat
    BY <2>1, TailFacts
  <2> QED BY <2>1, <2>2, <2>3
<1>5. ThreadsOK'
  BY <1>1, <1>2, <1>4 DEF ThreadsOK
<1>6. AdmissionInv'
  BY <1>1, <1>2, <1>4 DEF AdmissionInv, Admitted, ThreadsOK
<1>7. QuietFor(Master)
  BY <1>1, <1>2, <1>3 DEF QuietFor, InPipe, Dispatched, EventsOK
<1>8. PipesInv'
  BY <1>1, <1>2, PipesKept
<1>9. MasterPlace'
  BY <1>1, <1>2 DEF MasterPlace
<1> QED BY <1>1, <1>3, <1>5, <1>6, <1>7, <1>8, <1>9, StepOf DEF HandlesApart

\* The admitted descriptor goes into the pipe of its reactor, or nowhere.
LEMMA AcceptAdmitStep ==
  ASSUME AllInv, AcceptAdmit
  PROVE  AllInv'
<1> DEFINE c == NewFd
           r == c % rsz
<1>1. /\ HandlesApart /\ BaseOfOK /\ EventsInv /\ EventsOK /\ ConnsInv /\ ThreadsOK
      /\ AdmissionInv /\ PipesInv /\ MasterPlace /\ PlacesInv
  BY Parts
<1>2. /\ UNCHANGED <<arrived, sent, inbox, fails, total_conns>>
      /\ UNCHANGED <<rpc, cfd, pack, dead, idle, read_waits, write_waits, interest>>
      /\ mpc = "wait" /\ EB!dispatch_events(Master) /\ backlog' = backlog - 1
      /\ conn' = [conn EXCEPT ![c] = "open"] /\ mpc' = "connect" /\ mfd' = c
      /\ \/ pipe' = pipe /\ edge' = edge
         \/ pipe' = [pipe EXCEPT ![r] = Append(@, c)] /\ edge' = edge \cup {Pipe(r)}
  BY DEF AcceptAdmit, react
<1>3. /\ readies[Master] # <<>> /\ readies[Master] \in Seq(Slabs)
      /\ Len(readies[Master]) <= 1 /\ backlog > 0
  BY <1>1, <1>2 DEF EB!dispatch_events, AdmissionInv, EventsOK, HandlesApart
<1>4. c = total_conns + 1 /\ c \in Conns /\ conn[c] = "none" /\ Admitted = total_conns
  BY <1>1, <1>2, <1>3, NewFdIsNext
<1> HIDE DEF c
<1>5. r \in Reactors /\ Pipe(r) \in Handles
  <2>0. c \in Conns
    BY <1>4
  <2>1. c % rsz \in Reactors
    BY <1>1, <2>0 DEF BaseOfOK
  <2> QED BY <1>1, <2>1 DEF HandlesApart
<1>6. EventsInv' /\ Dispatched(Master)
  <2>1. edge' \subseteq Handles
    BY <1>1, <1>2, <1>5 DEF EventsOK
  <2> QED BY <1>1, <1>2, <2>1, DispatchEvents DEF HandlesApart
<1>7. readies'[Master] = <<>>
  <2>1. readies'[Master] = Tail(readies[Master])
    BY <1>1, <1>6 DEF Dispatched, EventsOK, HandlesApart
  <2>2. Tail(readies[Master]) \in Seq(Slabs) /\ Len(Tail(readies[Master])) = Len(readies[Master]) - 1
        /\ Len(readies[Master]) \in Nat
    BY <1>3, TailFacts
  <2> QED BY <1>3, <2>1, <2>2
<1> HIDE DEF r
<1>8. ThreadsOK'
  <2>1. pipe' \in [Reactors -> Seq(Conns)] /\ conn' \in [Conns -> {"none", "open", "fin"}]
    <3>1. pipe \in [Reactors -> Seq(Conns)] /\ conn \in [Conns -> {"none", "open", "fin"}]
      BY <1>1 DEF ThreadsOK
    <3>2. Append(pipe[r], c) \in Seq(Conns)
      BY <1>4, <1>5, <3>1
    <3>3. conn' \in [Conns -> {"none", "open", "fin"}]
      BY <1>2, <3>1
    <3>4. pipe' \in [Reactors -> Seq(Conns)]
      BY <1>2, <1>5, <3>1, <3>2
    <3> QED BY <3>3, <3>4
  <2>2. backlog' \in Nat
    BY <1>1, <1>2, <1>3 DEF ThreadsOK
  <2> QED BY <1>1, <1>2, <1>4, <2>1, <2>2 DEF ThreadsOK
<1>9. \A d \in Conns : conn'[d] = IF d = c THEN "open" ELSE conn[d]
  BY <1>1, <1>2, <1>4 DEF ThreadsOK
<1>10. AdmissionInv'
  <2>1. Admitted' = total_conns + 1 /\ total_conns \in Nat /\ \A d \in Conns : d \in Int
    BY <1>1, <1>2, Sizes DEF Admitted, ThreadsOK, Conns
  <2>2. \A d \in Conns : conn'[d] # "none" <=> d <= Admitted'
    <3>1. \A d \in Conns : conn[d] # "none" <=> d <= total_conns
      BY <1>1, <1>4 DEF AdmissionInv
    <3> QED BY <1>4, <1>9, <2>1, <3>1
  <2>3. Admitted' + backlog' <= arrived'
    BY <1>1, <1>2, <1>3, <1>4, <2>1 DEF AdmissionInv, ThreadsOK
  <2> QED BY <1>2, <1>4, <1>7, <2>1, <2>2, <2>3 DEF AdmissionInv
<1>11. \A q \in Reactors : pipe'[q] = pipe[q] \/ (q = r /\ pipe'[q] = Append(pipe[q], c))
  BY <1>1, <1>2, <1>5 DEF ThreadsOK
<1>12. ASSUME NEW q \in Reactors, NEW m \in DOMAIN pipe'[q]
       PROVE  \/ m \in DOMAIN pipe[q] /\ pipe'[q][m] = pipe[q][m]
              \/ q = r /\ m = Len(pipe[q]) + 1 /\ pipe'[q][m] = c
  <2>1. pipe[q] \in Seq(Conns)
    BY <1>1 DEF ThreadsOK
  <2> QED BY <1>11, <2>1
<1>13. ASSUME NEW q \in Reactors, NEW m \in DOMAIN pipe[q]
       PROVE  /\ pipe[q][m] # c /\ pipe[q][m] \in Conns
              /\ pipe[q][m] % rsz = q /\ conn[pipe[q][m]] # "none" /\ Unregistered(pipe[q][m])
              /\ \A n \in DOMAIN pipe[q] : pipe[q][n] = pipe[q][m] => n = m
  <2>1. pipe[q] \in Seq(Conns)
    BY <1>1 DEF ThreadsOK
  <2>2. pipe[q][m] \in Conns
    BY <2>1
  <2> QED BY <1>1, <1>4, <2>2 DEF PipesInv
<1>14. QuietFor(Master)
  <2>1. ASSUME NEW q \in Reactors, NEW d \in Conns, InPipe(d, q)'
        PROVE  InPipe(d, q) \/ conn[d] = "none"
    <3>1. PICK m \in DOMAIN pipe'[q] : pipe'[q][m] = d
      BY <2>1 DEF InPipe
    <3> QED BY <1>4, <1>12, <3>1 DEF InPipe
  <2>2. \A e \in Slabs : queued'[e] # NULL => queued[e] # NULL /\ fd'[e] = fd[e]
    BY <1>1, <1>6 DEF Dispatched, EventsOK
  <2>3. \A d \in Conns : conn[d] # "none" => conn'[d] # "none"
    BY <1>9
  <2> QED BY <1>2, <2>1, <2>2, <2>3 DEF QuietFor
<1>15. PipesInv'
  <2>1. \A d \in Conns : Unregistered(d)' <=> Unregistered(d)
    BY <1>2 DEF Unregistered
  <2>2. \A d \in Conns : conn'[d] = "none" => Unregistered(d)'
    BY <1>1, <1>9, <2>1 DEF PipesInv
  <2>3. ASSUME NEW q \in Reactors, NEW m \in DOMAIN pipe'[q], NEW d, d = pipe'[q][m]
        PROVE  /\ d % rsz = q /\ conn'[d] # "none"
               /\ read_waits[d] = NULL /\ write_waits[d] = NULL
               /\ \A n \in DOMAIN pipe'[q] : pipe'[q][n] = d => n = m
    <3>1. CASE m \in DOMAIN pipe[q] /\ pipe'[q][m] = pipe[q][m]
      <4>1. \A n \in DOMAIN pipe'[q] : pipe'[q][n] = d => n = m
        BY <1>12, <1>13, <2>3, <3>1
      <4>2. /\ d \in Conns /\ d # c /\ d % rsz = q /\ conn[d] # "none" /\ Unregistered(d)
        BY <1>13, <2>3, <3>1
      <4> QED BY <1>9, <4>1, <4>2 DEF Unregistered
    <3>2. CASE q = r /\ m = Len(pipe[q]) + 1 /\ pipe'[q][m] = c
      <4>1. \A n \in DOMAIN pipe'[q] : pipe'[q][n] = d => n = m
        BY <1>12, <1>13, <2>3, <3>2
      <4>2. Unregistered(c)
        BY <1>1, <1>4 DEF PipesInv
      <4>3. c % rsz = q
        BY <3>2 DEF r
      <4>4. conn'[c] = "open" /\ d = c
        BY <1>4, <1>9, <2>3, <3>2
      <4> QED BY <4>1, <4>2, <4>3, <4>4 DEF Unregistered
    <3> QED BY <1>12, <3>1, <3>2
  <2>4. \A q \in Reactors : \A m \in DOMAIN pipe'[q] :
          /\ pipe'[q][m] % rsz = q /\ conn'[pipe'[q][m]] # "none"
          /\ read_waits'[pipe'[q][m]] = NULL /\ write_waits'[pipe'[q][m]] = NULL
          /\ \A n \in DOMAIN pipe'[q] : pipe'[q][n] = pipe'[q][m] => n = m
    BY <1>2, <2>3
  <2> QED BY <2>2, <2>4 DEF PipesInv, Unregistered
<1>16. MasterPlace'
  BY <1>2 DEF MasterPlace
<1> QED BY <1>1, <1>6, <1>8, <1>10, <1>14, <1>15, <1>16, StepOf DEF HandlesApart

LEMMA AcceptConnectStep ==
  ASSUME AllInv, AcceptConnect
  PROVE  AllInv'
<1>1. /\ HandlesApart /\ BaseOfOK /\ EventsInv /\ EventsOK /\ ConnsInv /\ ThreadsOK
      /\ AdmissionInv /\ PipesInv /\ MasterPlace /\ PlacesInv
  BY Parts
<1>2. /\ UNCHANGED <<fd, kide, queued, read_waits, write_waits, readies, interest, edge, idle>>
      /\ UNCHANGED <<backlog, arrived, conn, sent, inbox, fails, pipe, mfd, rpc, cfd, pack, dead>>
      /\ mpc = "connect" /\ mpc' = "wait" /\ total_conns' = total_conns + 1
  BY DEF AcceptConnect, base, net, react
<1>3. EventsInv'
  BY <1>1, <1>2, SameEvents DEF EventsOK
<1>4. ThreadsOK'
  BY <1>1, <1>2 DEF ThreadsOK
<1>5. AdmissionInv'
  BY <1>1, <1>2 DEF AdmissionInv, Admitted, ThreadsOK
<1>6. QuietFor(Master)
  BY <1>2 DEF QuietFor, InPipe
<1>7. PipesInv'
  BY <1>1, <1>2, PipesKept
<1>8. MasterPlace'
  BY <1>2 DEF MasterPlace
<1> QED BY <1>1, <1>3, <1>4, <1>5, <1>6, <1>7, <1>8, StepOf DEF HandlesApart

\* The places where a reactor relies on nothing.
LEMMA FreePlace ==
  ASSUME NEW r \in Reactors, rpc[r] \in {"loop", "pipe"}
  PROVE  PlaceOK(r)
  BY DEF PlaceOK, Handling

\* What every step of reactor r leaves alone.
LEMMA ReactorFrame ==
  ASSUME NEW r \in Reactors, ReactorThread(r), ThreadsOK
  PROVE  /\ UNCHANGED <<backlog, arrived, conn, sent, mpc, mfd, total_conns>>
         /\ \A q \in Reactors : q # r => rpc'[q] = rpc[q] /\ cfd'[q] = cfd[q] /\ pipe'[q] = pipe[q]
<1> USE DEF ThreadsOK, Goto, net, master, react
<1>1. CASE ReactorStart(r)
  BY <1>1 DEF ReactorStart
<1>2. CASE ReactorLoop(r) \/ Dispatch(r) \/ DispatchCorrupt(r)
  BY <1>2 DEF ReactorLoop, Dispatch, DispatchCorrupt
<1>3. CASE PipeRead(r)
  BY <1>3 DEF PipeRead
<1>4. CASE PipeAddRead(r) \/ PipeAddWrite(r)
  BY <1>4 DEF PipeAddRead, PipeAddWrite, PipeAdd
<1>5. CASE ReadChunk(r) \/ ReadClosed(r) \/ ReadNone(r) \/ ReadError(r)
  BY <1>5 DEF ReadChunk, ReadClosed, ReadNone, ReadError, ReadOther
<1>6. CASE CloseRead(r) \/ CloseWrite(r) \/ PushPack(r)
  BY <1>6 DEF CloseRead, CloseWrite, CloseEvent, PushPack
<1> QED BY <1>1, <1>2, <1>3, <1>4, <1>5, <1>6 DEF ReactorThread

\* Reactor r touches only the tables and the queue of its own descriptors.
OwnTables(r) ==
  /\ readies'[Master] = readies[Master]
  /\ \A h \in Handles : \/ read_waits'[h] = read_waits[h] /\ write_waits'[h] = write_waits[h]
                        \/ h = Pipe(r)
                        \/ h = cfd[r] /\ rpc[r] \in Handling
  /\ \A e \in Slabs : queued'[e] # NULL =>
       /\ fd'[e] = fd[e]
       /\ queued[e] = NULL => /\ BaseOf[fd[e]] = r
                              /\ e \in {read_waits[fd[e]], write_waits[fd[e]]}

\* A step of reactor r keeps the invariant if it keeps the types and its own place, and
\* touches only its own tables.
LEMMA ReactorStepOf ==
  ASSUME AllInv, NEW r \in Reactors, ReactorThread(r), EventsInv', ThreadsOK', PlaceOK(r)',
         pipe' = pipe, OwnTables(r)
  PROVE  AllInv'
<1>1. /\ HandlesApart /\ BaseOfOK /\ EventsInv /\ EventsOK /\ ConnsInv /\ ThreadsOK
      /\ AdmissionInv /\ PipesInv /\ MasterPlace /\ PlacesInv /\ PlaceOK(r)
      /\ r \in 0 .. rsz /\ r # Master
  BY Parts DEF HandlesApart
<1>2. /\ UNCHANGED <<backlog, arrived, conn, sent, mpc, mfd, total_conns>>
      /\ \A q \in Reactors : q # r => rpc'[q] = rpc[q] /\ cfd'[q] = cfd[q] /\ pipe'[q] = pipe[q]
  BY <1>1, ReactorFrame
<1>3. rpc[r] \in Handling => /\ cfd[r] \in Conns /\ cfd[r] % rsz = r /\ BaseOf[cfd[r]] = r
                             /\ conn[cfd[r]] # "none" /\ ~InPipe(cfd[r], r)
  BY <1>1 DEF PlaceOK, BaseOfOK
<1>4. QuietFor(r)
  <2>1. BaseOf[Pipe(r)] = r
    BY <1>1 DEF BaseOfOK
  <2>2. \A h \in Handles : BaseOf[h] # r => /\ read_waits'[h] = read_waits[h]
                                           /\ write_waits'[h] = write_waits[h]
    BY <1>3, <2>1 DEF OwnTables
  <2> QED BY <1>2, <2>2 DEF QuietFor, InPipe, OwnTables
<1>5. AdmissionInv'
  BY <1>1, <1>2, AdmissionKept DEF OwnTables
<1>6. PipesInv'
  <2>1. ASSUME NEW c \in Conns, conn[c] = "none" \/ \E q \in Reactors : InPipe(c, q)
        PROVE  read_waits'[c] = read_waits[c] /\ write_waits'[c] = write_waits[c]
    <3>1. c # Pipe(r) /\ c \in Handles
      BY <1>1 DEF HandlesApart
    <3>2. ASSUME c = cfd[r], rpc[r] \in Handling
          PROVE  FALSE
      <4>1. PICK q \in Reactors : InPipe(c, q)
        BY <1>3, <2>1, <3>2
      <4>2. PICK m \in DOMAIN pipe[q] : pipe[q][m] = c
        BY <4>1 DEF InPipe
      <4>3. c % rsz = q
        BY <1>1, <4>2 DEF PipesInv
      <4>4. q = r
        BY <1>3, <3>2, <4>3
      <4> QED BY <1>3, <3>2, <4>1, <4>4
    <3> QED BY <3>1, <3>2 DEF OwnTables
  <2> QED BY <1>1, <1>2, <2>1, PipesKept
<1> QED BY <1>1, <1>4, <1>5, <1>6, StepOf

\* The reactor registers its pipe.
LEMMA ReactorStartStep ==
  ASSUME AllInv, NEW r \in Reactors, ReactorStart(r)
  PROVE  AllInv'
<1>1. /\ HandlesApart /\ BaseOfOK /\ EventsInv /\ EventsOK /\ ConnsInv /\ ThreadsOK
      /\ AdmissionInv /\ PipesInv /\ MasterPlace /\ PlacesInv /\ PlaceOK(r)
      /\ r \in 0 .. rsz /\ r # Master
  BY Parts DEF HandlesApart
<1>2. /\ UNCHANGED <<backlog, arrived, conn, sent, inbox, fails, pipe, mpc, mfd, total_conns, cfd, pack>>
      /\ rpc[r] = "start" /\ dead' \in {dead, "exit", "assert"}
      /\ rpc' = rpc \/ rpc' = [rpc EXCEPT ![r] = "loop"]
  BY DEF ReactorStart, Goto, net, master
<1>3. ThreadsOK'
  BY <1>1, <1>2 DEF ThreadsOK
<1>4. ReactorThread(r)
  BY DEF ReactorThread
<1>5. CASE idle = <<>>
  <2>1. UNCHANGED <<fd, kide, queued, read_waits, write_waits, readies, interest, edge, idle, rpc>>
    BY <1>5 DEF ReactorStart, base
  <2>2. EventsInv'
    BY <1>1, <2>1, SameEvents DEF EventsOK
  <2>3. PlaceOK(r)'
    BY <1>1, <1>2, <2>1 DEF PlaceOK, InPipe, Unregistered
  <2>4. OwnTables(r)
    BY <2>1 DEF OwnTables
  <2> QED BY <1>2, <1>3, <1>4, <2>2, <2>3, <2>4, ReactorStepOf
<1>6. CASE idle # <<>>
  <2>1. PICK ok \in CtlResults : GetAndAdd(Pipe(r), EB!E_READ, ok)
    BY <1>6 DEF ReactorStart
  <2>2. read_waits[Pipe(r)] = NULL /\ Pipe(r) \in Handles
    BY <1>1, <1>2 DEF PlaceOK, HandlesApart
  <2>3. EventsInv' /\ Added(Pipe(r), EB!E_READ)
    BY <1>1, <2>1, <2>2, AddEvents
  <2>4. rpc'[r] = "loop"
    BY <1>1, <1>6 DEF ReactorStart, Goto, ThreadsOK
  <2>5. /\ readies' = readies
        /\ \A g \in Handles : g # Pipe(r) => /\ read_waits'[g] = read_waits[g]
                                           /\ write_waits'[g] = write_waits[g]
        /\ \A e \in Slabs : queued'[e] # NULL => queued'[e] = queued[e] /\ fd'[e] = fd[e]
    BY <2>3 DEF Added
  <2>6. PlaceOK(r)'
    BY <2>4 DEF PlaceOK, Handling
  <2>7. OwnTables(r)
    BY <2>5 DEF OwnTables
  <2> QED BY <1>2, <1>3, <1>4, <2>3, <2>6, <2>7, ReactorStepOf
<1> QED BY <1>5, <1>6

LEMMA ReactorLoopStep ==
  ASSUME AllInv, NEW r \in Reactors, ReactorLoop(r)
  PROVE  AllInv'
<1>1. /\ HandlesApart /\ BaseOfOK /\ EventsInv /\ EventsOK /\ ConnsInv /\ ThreadsOK
      /\ AdmissionInv /\ PipesInv /\ MasterPlace /\ PlacesInv /\ PlaceOK(r)
      /\ r \in 0 .. rsz /\ r # Master
  BY Parts DEF HandlesApart
<1>2. /\ UNCHANGED <<backlog, arrived, conn, sent, inbox, fails, pipe, mfd, total_conns>>
      /\ UNCHANGED <<rpc, cfd, pack, dead, mpc, idle>> /\ rpc[r] = "loop"
      /\ EB!ebot_loop(r)
  BY DEF ReactorLoop, net, react, master
<1>3. EventsInv' /\ Looped(r)
  BY <1>1, <1>2, LoopEvents
<1>4. ThreadsOK'
  BY <1>1, <1>2 DEF ThreadsOK
<1>5. PlaceOK(r)'
  BY <1>2 DEF PlaceOK, Handling
<1>6. OwnTables(r)
  BY <1>1, <1>3 DEF Looped, OwnTables
<1>7. ReactorThread(r)
  BY DEF ReactorThread
<1> QED BY <1>2, <1>3, <1>4, <1>5, <1>6, <1>7, ReactorStepOf

\* The callback of a queued event gets a descriptor of this reactor; that of a read event
\* gets one whose event still waits.
LEMMA DispatchStep ==
  ASSUME AllInv, NEW r \in Reactors, Dispatch(r)
  PROVE  AllInv'
<1> DEFINE e == Head(readies[r])
<1>1. /\ HandlesApart /\ BaseOfOK /\ EventsInv /\ EventsOK /\ ConnsInv /\ ThreadsOK
      /\ AdmissionInv /\ PipesInv /\ MasterPlace /\ PlacesInv /\ PlaceOK(r)
      /\ r \in 0 .. rsz /\ r # Master
  BY Parts DEF HandlesApart
<1>2. /\ UNCHANGED <<backlog, arrived, conn, sent, inbox, fails, pipe, mfd, total_conns>>
      /\ UNCHANGED <<pack, dead, mpc, idle, read_waits, write_waits, interest, edge>>
      /\ EB!dispatch_events(r) /\ queued[e] = r
      /\ cfd' = [cfd EXCEPT ![r] = fd[e]]
      /\ rpc' = [rpc EXCEPT ![r] = IF kide[e] = EB!E_WRITE THEN "loop"
                                   ELSE IF fd[e] < 0 THEN "pipe" ELSE "read"]
  BY DEF Dispatch, net, master, Goto
<1>3. EventsInv' /\ Dispatched(r)
  BY <1>1, <1>2, DispatchEvents DEF EventsOK
<1>4. e \in Slabs /\ queued'[e] = NULL /\ readies'[Master] = readies[Master]
      /\ \A d \in Slabs : queued'[d] # NULL => queued[d] # NULL /\ fd'[d] = fd[d]
  BY <1>1, <1>3 DEF Dispatched, EventsOK
<1> HIDE DEF e
<1>5. /\ fd[e] \in Handles /\ BaseOf[fd[e]] = r /\ kide[e] \in {EB!E_READ, EB!E_WRITE}
      /\ kide[e] = EB!E_READ => read_waits[fd[e]] = e
  <2>1. r # NULL
    BY <1>1 DEF HandlesApart
  <2> QED BY <1>1, <1>2, <1>4, <2>1 DEF EventsInv, QueuedOK, EventsOK
<1>6. ThreadsOK'
  <2>1. cfd' \in [Reactors -> Handles]
    BY <1>1, <1>2, <1>5 DEF ThreadsOK
  <2> QED BY <1>1, <1>2, <2>1 DEF ThreadsOK
<1>7. rpc'[r] \in {"loop", "pipe", "read"} /\ cfd'[r] = fd[e]
      /\ (rpc'[r] = "read" => kide[e] = EB!E_READ /\ ~(fd[e] < 0))
  BY <1>1, <1>2, <1>5 DEF ThreadsOK
<1>8. PlaceOK(r)'
  <2>1. CASE rpc'[r] # "read"
    BY <1>7, <2>1 DEF PlaceOK, Handling
  <2>2. CASE rpc'[r] = "read"
    <3>1. fd[e] \in Conns
      <4>1. fd[e] # Listen
        BY <1>1, <1>5 DEF BaseOfOK
      <4>2. fd[e] \in Int /\ fd[e] > 0
        BY <1>1, <1>5, <1>7, <2>2, <4>1 DEF HandlesApart, Listen
      <4> QED BY <1>1, <1>5, <4>2 DEF HandlesApart
    <3>2. fd[e] % rsz = r
      BY <1>1, <1>5, <3>1 DEF BaseOfOK
    <3>3. read_waits[fd[e]] = e /\ e # NULL
      BY <1>1, <1>4, <1>5, <1>7, <2>2 DEF HandlesApart
    <3>4. conn[fd[e]] # "none"
      <4>1. r # NULL
        BY <1>1 DEF HandlesApart
      <4> QED BY <1>1, <1>2, <1>4, <3>1, <4>1 DEF PlacesInv, QueuedConns
    <3>5. ~InPipe(fd[e], r)
      BY <1>1, <3>3 DEF PipesInv, Unregistered, InPipe
    <3>6. read_waits'[cfd'[r]] = e /\ conn' = conn /\ pipe' = pipe
      BY <1>2, <1>7, <3>3
    <3> QED BY <1>4, <1>7, <2>2, <3>1, <3>2, <3>3, <3>4, <3>5, <3>6
            DEF PlaceOK, Handling, InPipe
  <2> QED BY <2>1, <2>2
<1>9. ReactorThread(r)
  BY DEF ReactorThread
<1>10. OwnTables(r)
  BY <1>2, <1>4 DEF OwnTables
<1> QED BY <1>2, <1>3, <1>6, <1>8, <1>9, <1>10, ReactorStepOf

LEMMA DispatchCorruptStep ==
  ASSUME AllInv, NEW r \in Reactors, DispatchCorrupt(r)
  PROVE  AllInv'
  BY DEF DispatchCorrupt, AllInv, EventsInv, EventsOK, PoolOK, InUse, QueuedOK,
         EB!InterestMatchesWaits, EB!WaitsAreTheirs, ConnsInv, ThreadsOK, AdmissionInv, Admitted,
         PipesInv, Unregistered, PlacesInv, MasterPlace, QueuedConns, PlaceOK, InPipe,
         base, net, master, react

\* The reactor takes a descriptor out of its pipe.
LEMMA PipeReadStep ==
  ASSUME AllInv, NEW r \in Reactors, PipeRead(r)
  PROVE  AllInv'
<1>1. /\ HandlesApart /\ BaseOfOK /\ EventsInv /\ EventsOK /\ ConnsInv /\ ThreadsOK
      /\ AdmissionInv /\ PipesInv /\ MasterPlace /\ PlacesInv /\ PlaceOK(r)
      /\ r \in 0 .. rsz /\ r # Master
  BY Parts DEF HandlesApart
<1>2. /\ UNCHANGED <<fd, kide, queued, read_waits, write_waits, readies, interest, edge, idle>>
      /\ UNCHANGED <<backlog, arrived, conn, sent, inbox, fails, mpc, mfd, total_conns, pack, dead>>
      /\ rpc[r] = "pipe" /\ pipe[r] \in Seq(Conns)
  BY <1>1 DEF PipeRead, base, net, master, ThreadsOK
<1>3. EventsInv'
  BY <1>1, <1>2, SameEvents DEF EventsOK
<1>4. ReactorThread(r)
  BY DEF ReactorThread
<1>5. OwnTables(r)
  BY <1>2 DEF OwnTables
<1>6. CASE pipe[r] = <<>>
  <2>1. pipe' = pipe /\ cfd' = cfd /\ rpc' = [rpc EXCEPT ![r] = "loop"]
    BY <1>6 DEF PipeRead, Goto
  <2>2. ThreadsOK'
    BY <1>1, <1>2, <2>1 DEF ThreadsOK
  <2>3. PlaceOK(r)'
    BY <1>1, <2>1 DEF PlaceOK, Handling, ThreadsOK
  <2> QED BY <1>3, <1>4, <1>5, <2>1, <2>2, <2>3, ReactorStepOf
<1>7. CASE pipe[r] # <<>>
  <2> DEFINE c == Head(pipe[r])
             t == Tail(pipe[r])
  <2>1. /\ c = pipe[r][1] /\ c \in Conns /\ 1 \in DOMAIN pipe[r] /\ t \in Seq(Conns)
        /\ DOMAIN pipe[r] = 1 .. Len(pipe[r]) /\ Len(pipe[r]) \in Nat
        /\ DOMAIN t = 1 .. Len(pipe[r]) - 1
        /\ \A m \in DOMAIN t : m + 1 \in DOMAIN pipe[r] /\ t[m] = pipe[r][m + 1]
    BY <1>2, <1>7, TailFacts
  <2>2. /\ cfd' = [cfd EXCEPT ![r] = c] /\ pipe' = [pipe EXCEPT ![r] = t]
        /\ rpc' = [rpc EXCEPT ![r] = "add_read"]
    BY <1>7 DEF PipeRead, Goto
  <2> HIDE DEF c, t
  <2>3. /\ c % rsz = r /\ conn[c] # "none" /\ Unregistered(c)
        /\ \A n \in DOMAIN pipe[r] : pipe[r][n] = c => n = 1
    BY <1>1, <2>1 DEF PipesInv
  <2>4. /\ pipe' \in [Reactors -> Seq(Conns)] /\ pipe'[r] = t
        /\ cfd' \in [Reactors -> Handles] /\ cfd'[r] = c
        /\ rpc'[r] = "add_read"
        /\ \A q \in Reactors : q # r => pipe'[q] = pipe[q] /\ cfd'[q] = cfd[q] /\ rpc'[q] = rpc[q]
    BY <1>1, <2>1, <2>2 DEF ThreadsOK, HandlesApart
  <2>5. ThreadsOK'
    BY <1>1, <1>2, <2>2, <2>4 DEF ThreadsOK
  <2>6. \A m \in DOMAIN t : t[m] # c
    <3> SUFFICES ASSUME NEW m \in DOMAIN t, t[m] = c PROVE FALSE
      OBVIOUS
    <3>1. m + 1 \in DOMAIN pipe[r] /\ pipe[r][m + 1] = c /\ m + 1 # 1
      BY <2>1
    <3> QED BY <2>3, <3>1
  <2>7. PlaceOK(r)'
    BY <1>2, <2>1, <2>3, <2>4, <2>6 DEF PlaceOK, Handling, InPipe, Unregistered
  <2>8. ASSUME NEW d \in Conns, NEW q \in Reactors, InPipe(d, q)'
        PROVE  InPipe(d, q)
    <3>1. PICK m \in DOMAIN pipe'[q] : pipe'[q][m] = d
      BY <2>8 DEF InPipe
    <3>2. CASE q = r
      <4>1. m \in DOMAIN t /\ t[m] = d
        BY <2>4, <3>1, <3>2
      <4>2. m + 1 \in DOMAIN pipe[r] /\ pipe[r][m + 1] = d
        BY <2>1, <4>1
      <4> QED BY <3>2, <4>2 DEF InPipe
    <3>3. CASE q # r
      BY <2>4, <3>1, <3>3 DEF InPipe
    <3> QED BY <3>2, <3>3
  <2>9. QuietFor(r)
    BY <1>2, <2>4, <2>8 DEF QuietFor
  <2>10. AdmissionInv'
    BY <1>1, <1>2, AdmissionKept
  <2>11. PipesInv'
    <3>1. ASSUME NEW q \in Reactors, NEW m \in DOMAIN pipe'[q], NEW d, d = pipe'[q][m]
          PROVE  /\ d % rsz = q /\ conn[d] # "none"
                 /\ read_waits[d] = NULL /\ write_waits[d] = NULL
                 /\ \A n \in DOMAIN pipe'[q] : pipe'[q][n] = d => n = m
      <4>1. CASE q = r
        <5>1. /\ m \in DOMAIN t /\ d = t[m] /\ m + 1 \in DOMAIN pipe[r] /\ d = pipe[r][m + 1]
          BY <2>1, <2>4, <3>1, <4>1
        <5>2. /\ d % rsz = q /\ conn[d] # "none" /\ Unregistered(d)
              /\ \A n \in DOMAIN pipe[r] : pipe[r][n] = d => n = m + 1
          BY <1>1, <4>1, <5>1 DEF PipesInv
        <5>3. \A n \in DOMAIN t : t[n] = d => n = m
          <6> SUFFICES ASSUME NEW n \in DOMAIN t, t[n] = d PROVE n = m
            OBVIOUS
          <6>1. n + 1 = m + 1
            BY <2>1, <5>2
          <6> QED BY <2>1, <5>1, <6>1
        <5> QED BY <2>4, <4>1, <5>2, <5>3 DEF Unregistered
      <4>2. CASE q # r
        BY <1>1, <2>4, <3>1, <4>2 DEF PipesInv, Unregistered
      <4> QED BY <4>1, <4>2
    <3>2. \A q \in Reactors : \A m \in DOMAIN pipe'[q] :
            /\ pipe'[q][m] % rsz = q /\ conn'[pipe'[q][m]] # "none"
            /\ read_waits'[pipe'[q][m]] = NULL /\ write_waits'[pipe'[q][m]] = NULL
            /\ \A n \in DOMAIN pipe'[q] : pipe'[q][n] = pipe'[q][m] => n = m
      BY <1>2, <3>1
    <3> QED BY <1>1, <1>2, <3>2 DEF PipesInv, Unregistered
  <2> QED BY <1>1, <1>3, <2>5, <2>7, <2>9, <2>10, <2>11, StepOf
<1> QED BY <1>6, <1>7

\* The reactor registers the descriptor, for reading and then for writing.
LEMMA PipeAddStep ==
  ASSUME AllInv, NEW r \in Reactors, PipeAddRead(r) \/ PipeAddWrite(r)
  PROVE  AllInv'
<1>1. /\ HandlesApart /\ BaseOfOK /\ EventsInv /\ EventsOK /\ ConnsInv /\ ThreadsOK
      /\ AdmissionInv /\ PipesInv /\ MasterPlace /\ PlacesInv /\ PlaceOK(r)
      /\ r \in 0 .. rsz /\ r # Master
  BY Parts DEF HandlesApart
<1>2. PICK k \in {EB!E_READ, EB!E_WRITE}, from \in {"add_read", "add_write"},
               to \in {"add_write", "loop"} :
        /\ PipeAdd(r, k, from, to)
        /\ to = "add_write" => k = EB!E_READ /\ from = "add_read"
        /\ k = EB!E_READ => from = "add_read"
        /\ k = EB!E_WRITE => from = "add_write"
  BY <1>1 DEF PipeAddRead, PipeAddWrite, HandlesApart
<1>3. /\ UNCHANGED <<backlog, arrived, conn, sent, inbox, fails, pipe, mpc, mfd, total_conns, cfd, pack, dead>>
      /\ rpc[r] = from /\ rpc[r] \in Handling
      /\ rpc' = [rpc EXCEPT ![r] = "loop"] \/ rpc' = [rpc EXCEPT ![r] = to]
  BY <1>2 DEF PipeAdd, Goto, net, master, Handling
<1>4. ThreadsOK'
  BY <1>1, <1>3 DEF ThreadsOK
<1>5. ReactorThread(r)
  BY DEF ReactorThread
<1>6. CASE idle = <<>>
  <2>1. /\ UNCHANGED <<fd, kide, queued, read_waits, write_waits, readies, interest, edge, idle>>
        /\ rpc' = [rpc EXCEPT ![r] = "loop"]
    BY <1>2, <1>6 DEF PipeAdd, base, Goto
  <2>2. EventsInv'
    BY <1>1, <2>1, SameEvents DEF EventsOK
  <2>3. PlaceOK(r)'
    BY <1>1, <2>1 DEF PlaceOK, Handling, ThreadsOK
  <2>4. OwnTables(r)
    BY <2>1 DEF OwnTables
  <2> QED BY <1>3, <1>4, <1>5, <2>2, <2>3, <2>4, ReactorStepOf
<1>7. CASE idle # <<>>
  <2>1. /\ cfd[r] \in Conns /\ cfd[r] \in Handles /\ cfd[r] % rsz = r
        /\ conn[cfd[r]] # "none" /\ ~InPipe(cfd[r], r)
        /\ from = "add_read" => Unregistered(cfd[r])
        /\ from = "add_write" => write_waits[cfd[r]] = NULL
    BY <1>1, <1>3 DEF PlaceOK, HandlesApart
  <2>2. PICK ok \in CtlResults : GetAndAdd(cfd[r], k, ok)
    BY <1>2, <1>7 DEF PipeAdd
  <2>3. (IF k = EB!E_READ THEN read_waits ELSE write_waits)[cfd[r]] = NULL
    BY <1>2, <2>1 DEF Unregistered
  <2>4. EventsInv' /\ Added(cfd[r], k)
    BY <1>1, <2>1, <2>2, <2>3, AddEvents
  <2>5. rpc'[r] = to
    BY <1>1, <1>2, <1>7 DEF PipeAdd, Goto, ThreadsOK
  <2>6. PlaceOK(r)'
    <3>1. CASE to = "loop"
      BY <2>5, <3>1 DEF PlaceOK, Handling
    <3>2. CASE to = "add_write"
      <4>1. write_waits'[cfd[r]] = NULL
        BY <1>2, <2>1, <2>4, <3>2 DEF Added, Unregistered
      <4> QED BY <1>3, <2>1, <2>5, <3>2, <4>1 DEF PlaceOK, Handling, InPipe
    <3> QED BY <3>1, <3>2
  <2>7. OwnTables(r)
    BY <1>3, <2>4 DEF OwnTables, Added
  <2> QED BY <1>3, <1>4, <1>5, <2>4, <2>6, <2>7, ReactorStepOf
<1> QED BY <1>6, <1>7

\* The four outcomes of the recv in the read callback.
LEMMA ReadStep ==
  ASSUME AllInv, NEW r \in Reactors,
         ReadChunk(r) \/ ReadClosed(r) \/ ReadNone(r) \/ ReadError(r)
  PROVE  AllInv'
<1>1. /\ HandlesApart /\ BaseOfOK /\ EventsInv /\ EventsOK /\ ConnsInv /\ ThreadsOK
      /\ AdmissionInv /\ PipesInv /\ MasterPlace /\ PlacesInv /\ PlaceOK(r)
      /\ r \in 0 .. rsz /\ r # Master
  BY Parts DEF HandlesApart
<1>2. /\ UNCHANGED <<fd, kide, queued, read_waits, write_waits, readies, interest, edge, idle>>
      /\ UNCHANGED <<backlog, arrived, conn, sent, pipe, mpc, mfd, total_conns, cfd, dead>>
      /\ rpc[r] = "read"
      /\ \E to \in {"push", "close_read", "loop"} : rpc' = [rpc EXCEPT ![r] = to]
  BY DEF ReadChunk, ReadClosed, ReadNone, ReadError, ReadOther, base, master, Goto
<1>3. cfd[r] \in Conns
  BY <1>1, <1>2 DEF PlaceOK, Handling
<1>4. /\ inbox' \in [Conns -> 0 .. MaxSend] /\ fails' \in 0 .. MaxFails
      /\ pack' \in [Reactors -> 0 .. MaxSend] /\ \A c \in Conns : inbox'[c] <= sent[c]
  <2>1. CASE ReadChunk(r)
    <3> DEFINE c == cfd[r]
    <3>1. /\ inbox[c] \in 1 .. MaxSend /\ sent[c] \in 0 .. MaxSend /\ inbox[c] <= sent[c]
      BY <1>1, <1>3, <2>1, Sizes DEF ThreadsOK, ReadChunk, Readable
    <3>2. NextChunk(c) \in 0 .. MaxSend /\ inbox[c] - 1 \in 0 .. MaxSend
      BY <3>1, Sizes DEF NextChunk
    <3>3. /\ fails' = fails /\ pack' = [pack EXCEPT ![r] = NextChunk(c)]
          /\ inbox' = [inbox EXCEPT ![c] = inbox[c] - 1]
      BY <2>1 DEF ReadChunk
    <3> HIDE DEF c
    <3>4. \A d \in Conns : inbox[d] \in 0 .. MaxSend /\ sent[d] \in 0 .. MaxSend /\ inbox[d] <= sent[d]
      BY <1>1 DEF ThreadsOK
    <3>5. c \in Conns /\ inbox \in [Conns -> 0 .. MaxSend] /\ pack \in [Reactors -> 0 .. MaxSend]
          /\ fails \in 0 .. MaxFails
      BY <1>1, <1>3 DEF ThreadsOK, c
    <3>6. \A d \in Conns : inbox'[d] = IF d = c THEN inbox[c] - 1 ELSE inbox[d]
      BY <3>3, <3>5
    <3>7. \A d \in Conns : inbox'[d] <= sent[d]
      BY <3>1, <3>4, <3>5, <3>6, Sizes
    <3>8. inbox' \in [Conns -> 0 .. MaxSend]
      BY <3>2, <3>3, <3>5
    <3>9. pack' \in [Reactors -> 0 .. MaxSend]
      BY <3>2, <3>3, <3>5
    <3> QED BY <3>3, <3>5, <3>7, <3>8, <3>9
  <2>2. CASE ReadClosed(r) \/ ReadNone(r) \/ ReadError(r)
    <3>1. /\ inbox' = inbox /\ pack' = [pack EXCEPT ![r] = 0]
          /\ fails' = fails \/ (fails < MaxFails /\ fails' = fails + 1)
      BY <2>2 DEF ReadClosed, ReadNone, ReadError, ReadOther, RecvFails
    <3> QED BY <1>1, <3>1, Sizes DEF ThreadsOK
  <2> QED BY <2>1, <2>2
<1>5. ThreadsOK'
  BY <1>1, <1>2, <1>4 DEF ThreadsOK
<1>6. EventsInv'
  BY <1>1, <1>2, SameEvents DEF EventsOK
<1>7. rpc'[r] \in {"push", "close_read", "loop"}
  BY <1>1, <1>2 DEF ThreadsOK
<1>8. PlaceOK(r)'
  BY <1>1, <1>2, <1>7 DEF PlaceOK, Handling, InPipe
<1>9. ReactorThread(r) /\ OwnTables(r) /\ pipe' = pipe
  BY <1>2 DEF ReactorThread, OwnTables
<1> QED BY <1>5, <1>6, <1>8, <1>9, ReactorStepOf

\* The events of a closed connection are deleted: the read event has left the queue.
LEMMA CloseStep ==
  ASSUME AllInv, NEW r \in Reactors, CloseRead(r) \/ CloseWrite(r)
  PROVE  AllInv'
<1> DEFINE c == cfd[r]
<1>1. /\ HandlesApart /\ BaseOfOK /\ EventsInv /\ EventsOK /\ ConnsInv /\ ThreadsOK
      /\ AdmissionInv /\ PipesInv /\ MasterPlace /\ PlacesInv /\ PlaceOK(r)
      /\ r \in 0 .. rsz /\ r # Master
  BY Parts DEF HandlesApart
<1>2. PICK w \in {read_waits, write_waits}, from \in {"close_read", "close_write"}, to \in {"close_write", "push"} :
        /\ CloseEvent(r, w, from, to)
        /\ \/ from = "close_read" /\ to = "close_write" /\ w = read_waits
           \/ from = "close_write" /\ to = "push" /\ w = write_waits
  <2>1. CASE CloseRead(r)
    <3>1. CloseEvent(r, read_waits, "close_read", "close_write")
      BY <2>1 DEF CloseRead
    <3> QED BY <3>1, Zenon
  <2>2. CASE CloseWrite(r)
    <3>1. CloseEvent(r, write_waits, "close_write", "push")
      BY <2>2 DEF CloseWrite
    <3> QED BY <3>1, Zenon
  <2> QED BY <2>1, <2>2
<1>3. /\ UNCHANGED <<backlog, arrived, conn, sent, inbox, fails, pipe, mpc, mfd, total_conns, cfd, pack, dead>>
      /\ rpc[r] = from /\ rpc[r] \in Handling /\ rpc' = [rpc EXCEPT ![r] = to]
  BY <1>2 DEF CloseEvent, Goto, net, master, Handling
<1>4. ThreadsOK' /\ rpc'[r] = to
  BY <1>1, <1>3 DEF ThreadsOK
<1>5. ReactorThread(r)
  BY DEF ReactorThread
<1>6. /\ c \in Conns /\ c \in Handles /\ c % rsz = r /\ conn[c] # "none" /\ ~InPipe(c, r)
      /\ from = "close_read" => read_waits[c] # NULL /\ queued[read_waits[c]] = NULL
      /\ from = "close_write" => read_waits[c] = NULL
  BY <1>1, <1>3 DEF PlaceOK, HandlesApart
<1> HIDE DEF c
<1>7. CASE w[c] = NULL
  <2>1. UNCHANGED <<fd, kide, queued, read_waits, write_waits, readies, interest, edge, idle>>
    BY <1>2, <1>7 DEF CloseEvent, base, c
  <2>2. EventsInv'
    BY <1>1, <2>1, SameEvents DEF EventsOK
  <2>3. PlaceOK(r)'
    BY <1>2, <1>3, <1>4, <1>6, <1>7, <2>1 DEF PlaceOK, Handling, InPipe, c
  <2>4. OwnTables(r)
    BY <2>1 DEF OwnTables
  <2> QED BY <1>3, <1>4, <1>5, <2>2, <2>3, <2>4, ReactorStepOf
<1>8. CASE w[c] # NULL
  <2> DEFINE e == w[c]
  <2>1. DelAndPut(e)
    BY <1>2, <1>8 DEF CloseEvent, c
  <2>2. /\ e \in Slabs /\ e \in {read_waits[c], write_waits[c]}
        /\ e = read_waits[c] => queued[e] = NULL
    BY <1>1, <1>2, <1>6, <1>8 DEF EventsOK
  <2> HIDE DEF e
  <2>3. EventsInv' /\ Deleted(e) /\ fd[e] = c
    BY <1>1, <1>6, <2>1, <2>2, DelEvents
  <2>4. from = "close_read" => kide[e] = EB!E_READ
    BY <1>1, <1>2, <1>6, <1>8 DEF e, EventsInv, EB!WaitsAreTheirs
  <2>5. /\ read_waits \in [Handles -> Slabs \cup {NULL}]
        /\ write_waits \in [Handles -> Slabs \cup {NULL}]
    BY <1>1 DEF EventsOK
  <2>6. /\ readies' = readies /\ queued' = queued /\ fd' = fd
        /\ \A h \in Handles : h # c => read_waits'[h] = read_waits[h] /\ write_waits'[h] = write_waits[h]
        /\ read_waits'[c] = NULL \/ read_waits'[c] = read_waits[c]
        /\ kide[e] = EB!E_READ => read_waits'[c] = NULL
    BY <1>6, <2>3, <2>5 DEF Deleted
  <2>7. PlaceOK(r)'
    BY <1>2, <1>3, <1>4, <1>6, <2>4, <2>6 DEF PlaceOK, Handling, InPipe, c
  <2>8. OwnTables(r)
    BY <1>3, <2>6 DEF OwnTables, c
  <2> QED BY <1>3, <1>4, <1>5, <2>3, <2>7, <2>8, ReactorStepOf
<1> QED BY <1>7, <1>8

LEMMA PushPackStep ==
  ASSUME AllInv, NEW r \in Reactors, PushPack(r)
  PROVE  AllInv'
<1>1. /\ HandlesApart /\ BaseOfOK /\ EventsInv /\ EventsOK /\ ConnsInv /\ ThreadsOK
      /\ AdmissionInv /\ PipesInv /\ MasterPlace /\ PlacesInv /\ PlaceOK(r)
      /\ r \in 0 .. rsz /\ r # Master
  BY Parts DEF HandlesApart
<1>2. /\ UNCHANGED <<fd, kide, queued, read_waits, write_waits, readies, interest, edge, idle>>
      /\ UNCHANGED <<backlog, arrived, conn, sent, inbox, fails, pipe, mpc, mfd, total_conns, cfd, pack, dead>>
      /\ rpc' = [rpc EXCEPT ![r] = "loop"]
  BY DEF PushPack, base, net, master, Goto
<1>3. EventsInv'
  BY <1>1, <1>2, SameEvents DEF EventsOK
<1>4. ThreadsOK' /\ rpc'[r] = "loop"
  BY <1>1, <1>2 DEF ThreadsOK
<1>5. PlaceOK(r)'
  BY <1>4 DEF PlaceOK, Handling
<1>6. ReactorThread(r) /\ OwnTables(r) /\ pipe' = pipe
  BY <1>2 DEF ReactorThread, OwnTables
<1> QED BY <1>3, <1>4, <1>5, <1>6, ReactorStepOf

LEMMA InitAll == Init => AllInv
<1> SUFFICES ASSUME Init PROVE AllInv
  OBVIOUS
<1>1. HandlesApart
  BY HandleFacts
<1>2. idle = [n \in 1 .. psz |-> psz + 1 - n] /\ psz \in Nat
  BY Sizes DEF Init, Slabs
<1>3. idle \in Seq(Slabs) /\ Once(idle) /\ ToSet(idle) = Slabs
  <2>1. \A n \in 1 .. psz : psz + 1 - n \in 1 .. psz
    BY <1>2
  <2>2. idle \in [1 .. psz -> Slabs] /\ DOMAIN idle = 1 .. psz
    BY <1>2, <2>1 DEF Slabs
  <2>3. \A s \in 1 .. psz : psz + 1 - s \in 1 .. psz /\ psz + 1 - (psz + 1 - s) = s
    BY <1>2
  <2>4. \A s \in 1 .. psz : idle[psz + 1 - s] = s
    BY <1>2, <2>3
  <2>5. idle \in Seq(Slabs)
    BY <1>2, <2>2
  <2>6. Once(idle)
    BY <1>2, <2>2 DEF Once
  <2>7. ToSet(idle) = Slabs
    BY <2>2, <2>3, <2>4 DEF ToSet, Slabs
  <2> QED BY <2>5, <2>6, <2>7
<1>4. InUse = {}
  BY <1>1 DEF Init, InUse, HandlesApart
<1>5. EventsOK
  BY <1>1, <1>3 DEF Init, EventsOK, HandlesApart, Listen
<1>6. EB!InterestMatchesWaits /\ EB!WaitsAreTheirs /\ QueuedOK
  BY DEF Init, EB!InterestMatchesWaits, EB!WaitsAreTheirs, QueuedOK
<1>7. EventsInv
  BY <1>3, <1>4, <1>5, <1>6 DEF EventsInv, PoolOK
<1>8. ThreadsOK
  BY <1>1, Sizes DEF Init, ThreadsOK, HandlesApart, Listen
<1>9. AdmissionInv
  BY <1>1, Sizes DEF Init, AdmissionInv, Admitted, Conns, HandlesApart
<1>10. PipesInv /\ PlacesInv
  BY <1>1 DEF Init, PipesInv, PlacesInv, Unregistered, MasterPlace, PlaceOK, QueuedConns,
     HandlesApart, Handling
<1> QED BY <1>7, <1>8, <1>9, <1>10 DEF AllInv, ConnsInv

LEMMA NextAll == AllInv /\ [Next]_vars => AllInv'
<1> SUFFICES ASSUME AllInv, [Next]_vars PROVE AllInv'
  OBVIOUS
<1>1. CASE UNCHANGED vars
  BY <1>1 DEF vars, AllInv, EventsInv, EventsOK, PoolOK, InUse, QueuedOK,
     EB!InterestMatchesWaits, EB!WaitsAreTheirs, ConnsInv, ThreadsOK, AdmissionInv, Admitted,
     PipesInv, Unregistered, PlacesInv, MasterPlace, QueuedConns, PlaceOK, InPipe,
     base, net, master, react
<1>2. CASE ClientConnect
  BY <1>2, ClientConnectStep
<1>3. ASSUME NEW c \in Conns, ClientSend(c) \/ ClientClose(c) PROVE AllInv'
  BY <1>3, ClientStep
<1>4. CASE MasterThread
  BY <1>4, MasterStartStep, MasterLoopStep, AcceptRefuseStep, AcceptAdmitStep, AcceptConnectStep
     DEF MasterThread
<1>5. ASSUME NEW r \in Reactors, ReactorThread(r) PROVE AllInv'
  BY <1>5, ReactorStartStep, ReactorLoopStep, DispatchStep, DispatchCorruptStep, PipeReadStep,
     PipeAddStep, ReadStep, CloseStep, PushPackStep DEF ReactorThread
<1>6. ASSUME NEW u \in Units, Work(u) PROVE AllInv'
  BY <1>6, WorkStep
<1> QED BY <1>1, <1>2, <1>3, <1>4, <1>5, <1>6 DEF Next

LEMMA ServerInvariant == Spec => []AllInv
  BY InitAll, NextAll, PTL DEF Spec

\* No event structure is lost or handed out twice, whatever fails and in whatever order
\* connections come and go: for any pool, and any number of reactors and connections.
THEOREM NoSlabLost == Spec => []SlabsAccounted
<1>1. EventsInv => SlabsAccounted
  <2> SUFFICES ASSUME EventsInv PROVE SlabsAccounted
    OBVIOUS
  <2>1. /\ PoolOK /\ EB!WaitsAreTheirs /\ EventsOK /\ HandlesApart
    BY HandleFacts DEF EventsInv
  <2>2. ASSUME NEW h \in Handles, NEW g \in Handles
        PROVE  /\ read_waits[h] # NULL => read_waits[h] # write_waits[g]
               /\ read_waits[h] = read_waits[g] /\ h # g => read_waits[h] = NULL
               /\ write_waits[h] = write_waits[g] /\ h # g => write_waits[h] = NULL
    BY <2>1 DEF EB!WaitsAreTheirs, HandlesApart
  <2> QED BY <2>1, <2>2 DEF SlabsAccounted, PoolOK, Once
<1>2. AllInv => SlabsAccounted
  BY <1>1 DEF AllInv
<1> QED BY <1>2, ServerInvariant, PTL
-----------------------------------------------------------------------------
(* The limit on connections. *)

WithinLimit == Admitted <= max_connections + 1

LEMMA LimitTypes ==
  ASSUME ThreadsOK
  PROVE  Admitted \in Nat /\ max_connections \in Int
<1>1. Admitted \in Nat
  BY DEF ThreadsOK, Admitted
<1>2. max_connections \in Int
  BY ServerAssumption
<1> QED BY <1>1, <1>2

LEMMA LimitStep ==
  ASSUME max_connections >= -1, AllInv, WithinLimit, [Next]_vars
  PROVE  WithinLimit'
<1>0. ThreadsOK /\ AdmissionInv /\ HandlesApart /\ EventsOK /\ max_connections \in Int
  BY Parts, ServerAssumption
<1>1. CASE mpc' = mpc /\ total_conns' = total_conns
  BY <1>1 DEF WithinLimit, Admitted
<1>2. CASE UNCHANGED vars
  BY <1>1, <1>2 DEF vars, master
<1>3. CASE \/ ClientConnect
           \/ \E c \in Conns : ClientSend(c) \/ ClientClose(c)
           \/ \E u \in Units : Work(u)
  BY <1>1, <1>3 DEF ClientConnect, ClientSend, ClientClose, Arrives, Work, master
<1>4. ASSUME NEW r \in Reactors, ReactorThread(r) PROVE WithinLimit'
  BY <1>0, <1>1, <1>4, ReactorFrame
<1>5. CASE MasterThread
  <2>1. CASE MasterStart
    <3>1. total_conns' = total_conns /\ mpc # "connect" /\ mpc' # "connect"
      BY <2>1 DEF MasterStart
    <3> QED BY <3>1 DEF WithinLimit, Admitted
  <2>2. CASE MasterLoop \/ AcceptRefuse
    BY <1>1, <2>2 DEF MasterLoop, AcceptRefuse, master
  <2>3. CASE AcceptAdmit
    <3>1. total_conns' = total_conns /\ mpc' = "connect" /\ total_conns <= max_connections
      BY <2>3 DEF AcceptAdmit
    <3> QED BY <1>0, <3>1 DEF WithinLimit, Admitted, ThreadsOK
  <2>4. CASE AcceptConnect
    <3>1. total_conns' = total_conns + 1 /\ mpc' = "wait" /\ mpc = "connect"
      BY <2>4 DEF AcceptConnect
    <3> QED BY <1>0, <3>1 DEF WithinLimit, Admitted, ThreadsOK
  <2> QED BY <1>5, <2>1, <2>2, <2>3, <2>4 DEF MasterThread
<1> QED BY <1>2, <1>3, <1>4, <1>5 DEF Next

LEMMA LimitInvariant ==
  ASSUME max_connections >= -1
  PROVE  Spec => []WithinLimit
<1>1. Init => WithinLimit
  BY ServerAssumption DEF Init, WithinLimit, Admitted
<1>2. AllInv /\ WithinLimit /\ [Next]_vars => WithinLimit'
  BY LimitStep
<1> QED BY <1>1, <1>2, ServerInvariant, PTL DEF Spec

\* The server admits at most max_connections + 1 connections in its life, for any limit
\* that is not negative.
THEOREM NeverOverLimit ==
  ASSUME max_connections >= -1
  PROVE  Spec => []AdmissionLimit
<1>1. AllInv /\ WithinLimit => AdmissionLimit
  <2> SUFFICES ASSUME AllInv, WithinLimit PROVE AdmissionLimit
    OBVIOUS
  <2>1. /\ AdmissionInv /\ Admitted \in Nat /\ max_connections \in Int
    BY Parts, LimitTypes
  <2>2. {c \in Conns : conn[c] # "none"} \subseteq 1 .. Admitted
    BY <2>1, Sizes DEF AdmissionInv, Conns
  <2>3. IsFiniteSet(1 .. Admitted) /\ Cardinality(1 .. Admitted) = Admitted
    BY <2>1, FS_Interval
  <2>4. Cardinality({c \in Conns : conn[c] # "none"}) <= Admitted
    BY <2>2, <2>3, FS_Subset
  <2>5. Cardinality({c \in Conns : conn[c] # "none"}) \in Nat
    BY <2>2, <2>3, FS_Subset, FS_CardinalityType
  <2> QED BY <2>1, <2>4, <2>5 DEF WithinLimit, AdmissionLimit
<1> QED BY <1>1, ServerInvariant, LimitInvariant, PTL
-----------------------------------------------------------------------------
(* The pool is large enough. *)

\* Only connections have write events.
WritesOnConns == \A h \in Handles : write_waits[h] # NULL => h \in Conns

LEMMA WritesStep ==
  ASSUME AllInv, WritesOnConns, [Next]_vars
  PROVE  WritesOnConns'
<1>0. EventsOK /\ ThreadsOK /\ HandlesApart
  BY Parts
<1>1. CASE write_waits' = write_waits
  BY <1>1 DEF WritesOnConns
<1>2. CASE \/ UNCHANGED vars \/ ClientConnect
           \/ \E c \in Conns : ClientSend(c) \/ ClientClose(c)
           \/ \E u \in Units : Work(u)
  BY <1>1, <1>2 DEF vars, base, ClientConnect, ClientSend, ClientClose, Arrives, Work
<1>3. ASSUME NEW h \in Handles, NEW k, NEW ok, GetAndAdd(h, k, ok),
             k = EB!E_READ \/ h \in Conns
      PROVE  WritesOnConns'
  <2>1. \/ write_waits' = write_waits
        \/ k = EB!E_WRITE /\ write_waits' = [write_waits EXCEPT ![h] = Head(idle)]
    BY <1>3 DEF GetAndAdd, EB!ebot_add_event
  <2> QED BY <1>0, <1>1, <1>3, <2>1 DEF WritesOnConns, EventsOK, HandlesApart
<1>4. CASE MasterThread
  <2>1. CASE MasterStart
    <3>1. \/ write_waits' = write_waits
          \/ \E ok \in CtlResults : GetAndAdd(Listen, EB!E_READ, ok)
      BY <2>1 DEF MasterStart, base
    <3> QED BY <1>0, <1>1, <1>3, <3>1 DEF HandlesApart
  <2>2. CASE MasterLoop \/ AcceptRefuse \/ AcceptAdmit \/ AcceptConnect
    BY <1>1, <2>2 DEF MasterLoop, EB!ebot_loop, EB!tables, AcceptRefuse, AcceptAdmit,
                      AcceptConnect, base
  <2> QED BY <1>4, <2>1, <2>2 DEF MasterThread
<1>5. ASSUME NEW r \in Reactors, ReactorThread(r) PROVE WritesOnConns'
  <2>1. CASE ReactorStart(r)
    <3>1. \/ write_waits' = write_waits
          \/ \E ok \in CtlResults : GetAndAdd(Pipe(r), EB!E_READ, ok)
      BY <2>1 DEF ReactorStart, base
    <3> QED BY <1>0, <1>1, <1>3, <3>1 DEF HandlesApart
  <2>2. CASE PipeAddRead(r) \/ PipeAddWrite(r)
    <3>1. cfd[r] \in Conns /\ cfd[r] \in Handles
      BY <1>0, <2>2, Parts DEF PipeAddRead, PipeAddWrite, PipeAdd, PlaceOK, Handling, HandlesApart
    <3>2. \/ write_waits' = write_waits
          \/ \E k \in {EB!E_READ, EB!E_WRITE}, ok \in CtlResults : GetAndAdd(cfd[r], k, ok)
      BY <2>2 DEF PipeAddRead, PipeAddWrite, PipeAdd, base
    <3> QED BY <1>1, <1>3, <3>1, <3>2
  <2>3. CASE CloseRead(r) \/ CloseWrite(r)
    <3>1. ASSUME NEW e, DelAndPut(e) PROVE WritesOnConns'
      <4>1. \/ write_waits' = write_waits
            \/ write_waits' = [write_waits EXCEPT ![fd[e]] = NULL]
        BY <3>1 DEF DelAndPut, EB!ebot_del_event
      <4> QED BY <1>0, <1>1, <4>1 DEF WritesOnConns, EventsOK
    <3> QED BY <1>1, <2>3, <3>1 DEF CloseRead, CloseWrite, CloseEvent, base
  <2>4. CASE \/ ReactorLoop(r) \/ Dispatch(r) \/ DispatchCorrupt(r) \/ PipeRead(r) \/ PushPack(r)
             \/ ReadChunk(r) \/ ReadClosed(r) \/ ReadNone(r) \/ ReadError(r)
    BY <1>1, <2>4 DEF ReactorLoop, EB!ebot_loop, EB!tables, Dispatch, DispatchCorrupt, PipeRead,
                      ReadChunk, ReadClosed, ReadNone, ReadError, ReadOther, PushPack, base
  <2> QED BY <1>5, <2>1, <2>2, <2>3, <2>4 DEF ReactorThread
<1> QED BY <1>2, <1>4, <1>5 DEF Next

LEMMA WritesInvariant == Spec => []WritesOnConns
<1>1. Init => WritesOnConns
  BY DEF Init, WritesOnConns
<1>2. AllInv /\ WritesOnConns /\ [Next]_vars => WritesOnConns'
  BY WritesStep
<1> QED BY <1>1, <1>2, ServerInvariant, PTL DEF Spec

\* A pool without an idle slab is not larger than the events that may be registered while
\* the pipe of r is not: one for the listening socket and each other pipe, two for each
\* admitted connection.
LEMMA EmptyPool ==
  ASSUME AllInv, WritesOnConns, NEW r \in Reactors, read_waits[Pipe(r)] = NULL, idle = <<>>
  PROVE  psz <= rsz + 2 * Admitted
<1> DEFINE A == Admitted
           Reads  == (-rsz .. A) \ {Pipe(r)}
           Writes == Attempts + 1 .. Attempts + A
           slot   == [e \in Slabs |-> IF kide[e] = EB!E_READ THEN fd[e] ELSE Attempts + fd[e]]
<1>1. /\ EventsOK /\ EventsInv /\ HandlesApart /\ ThreadsOK /\ AdmissionInv /\ PipesInv
      /\ EB!WaitsAreTheirs
  BY Parts
<1>2. /\ rsz \in Nat \ {0} /\ psz \in Nat \ {0} /\ Attempts \in Nat /\ A \in Nat /\ A <= Attempts
  BY <1>1, Sizes DEF ThreadsOK, AdmissionInv, Admitted
<1>3. Slabs = InUse
  <2>1. ToSet(idle) = {}
    BY DEF ToSet
  <2> QED BY <1>1, <2>1 DEF EventsInv, PoolOK, InUse
<1>4. ASSUME NEW e \in Slabs
      PROVE  /\ fd[e] \in Handles /\ kide[e] \in {EB!E_READ, EB!E_WRITE}
             /\ kide[e] = EB!E_READ => read_waits[fd[e]] = e
             /\ kide[e] = EB!E_WRITE => write_waits[fd[e]] = e /\ fd[e] \in Conns
             /\ e # NULL
  <2>1. PICK h \in Handles : e \in {read_waits[h], write_waits[h]}
    BY <1>3 DEF InUse
  <2>2. e # NULL /\ kide[e] \in {EB!E_READ, EB!E_WRITE} /\ EB!E_READ # EB!E_WRITE
    BY <1>1 DEF HandlesApart, EventsOK
  <2> QED BY <1>1, <2>1, <2>2 DEF EB!WaitsAreTheirs, WritesOnConns
<1>5. ASSUME NEW c \in Conns, ~Unregistered(c)
      PROVE  c \in 1 .. A
  <2>1. c \in 1 .. Attempts /\ c <= Admitted
    BY <1>1, <1>5 DEF PipesInv, AdmissionInv, Conns
  <2> QED BY <1>2, <2>1
<1> HIDE DEF A
<1>6. ASSUME NEW e \in Slabs
      PROVE  /\ kide[e] = EB!E_READ => fd[e] \in Reads
             /\ kide[e] = EB!E_WRITE => fd[e] \in 1 .. A
  <2>1. CASE kide[e] = EB!E_WRITE
    BY <1>1, <1>4, <1>5, <2>1 DEF HandlesApart, Unregistered
  <2>2. CASE kide[e] = EB!E_READ
    <3>1. fd[e] # Pipe(r) /\ fd[e] \in Handles
      BY <1>4, <2>2
    <3>2. CASE fd[e] \in Conns
      <4>1. fd[e] \in 1 .. A
        BY <1>4, <1>5, <2>2, <3>2 DEF Unregistered
      <4> QED BY <1>1, <1>2, <2>2, <3>1, <4>1 DEF HandlesApart
    <3>3. CASE fd[e] = Listen
      BY <1>1, <1>2, <2>2, <3>1, <3>3 DEF Listen, HandlesApart
    <3>4. CASE \E q \in Reactors : fd[e] = Pipe(q)
      <4>1. fd[e] \in -rsz .. -1
        BY <1>2, <3>4 DEF Pipe, Reactors
      <4> QED BY <1>1, <1>2, <2>2, <3>1, <4>1 DEF HandlesApart
    <3> QED BY <3>1, <3>2, <3>3, <3>4 DEF Handles
  <2> QED BY <1>4, <2>1, <2>2
<1>7. slot \in Injection(Slabs, Reads \cup Writes)
  <2>1. ASSUME NEW e \in Slabs
        PROVE  slot[e] \in Reads \cup Writes
    <3>1. CASE kide[e] = EB!E_READ
      BY <1>6, <3>1
    <3>2. CASE kide[e] = EB!E_WRITE
      BY <1>1, <1>2, <1>6, <3>2 DEF HandlesApart
    <3> QED BY <1>4, <3>1, <3>2
  <2>2. ASSUME NEW d \in Slabs, NEW e \in Slabs, slot[d] = slot[e]
        PROVE  d = e
    <3>1. kide[d] = kide[e] /\ fd[d] = fd[e]
      <4>1. /\ slot[d] = IF kide[d] = EB!E_READ THEN fd[d] ELSE Attempts + fd[d]
            /\ slot[e] = IF kide[e] = EB!E_READ THEN fd[e] ELSE Attempts + fd[e]
        OBVIOUS
      <4>2. /\ kide[d] = EB!E_READ => fd[d] \in -rsz .. A
            /\ kide[d] = EB!E_WRITE => fd[d] \in 1 .. A
            /\ kide[e] = EB!E_READ => fd[e] \in -rsz .. A
            /\ kide[e] = EB!E_WRITE => fd[e] \in 1 .. A
            /\ kide[d] \in {EB!E_READ, EB!E_WRITE} /\ kide[e] \in {EB!E_READ, EB!E_WRITE}
            /\ EB!E_READ # EB!E_WRITE
        BY <1>1, <1>4, <1>6 DEF HandlesApart
      <4> HIDE DEF slot
      <4>3. /\ fd[d] \in Int /\ fd[e] \in Int /\ fd[d] <= A /\ fd[e] <= A
            /\ kide[d] = EB!E_WRITE => fd[d] >= 1
            /\ kide[e] = EB!E_WRITE => fd[e] >= 1
        BY <1>2, <4>2
      <4>4. CASE kide[d] = EB!E_READ /\ kide[e] = EB!E_READ
        BY <2>2, <4>1, <4>4
      <4>5. CASE kide[d] = EB!E_WRITE /\ kide[e] = EB!E_WRITE
        <5>1. Attempts + fd[d] = Attempts + fd[e]
          BY <2>2, <4>1, <4>2, <4>5
        <5> QED BY <1>2, <4>3, <4>5, <5>1
      <4>6. CASE kide[d] = EB!E_READ /\ kide[e] = EB!E_WRITE
        <5>1. fd[d] = Attempts + fd[e]
          BY <2>2, <4>1, <4>2, <4>6
        <5> QED BY <1>2, <4>3, <4>6, <5>1
      <4>7. CASE kide[d] = EB!E_WRITE /\ kide[e] = EB!E_READ
        <5>1. Attempts + fd[d] = fd[e]
          BY <2>2, <4>1, <4>2, <4>7
        <5> QED BY <1>2, <4>3, <4>7, <5>1
      <4> QED BY <4>2, <4>4, <4>5, <4>6, <4>7
    <3> QED BY <1>4, <3>1
  <2>3. slot \in [Slabs -> Reads \cup Writes]
    BY <2>1
  <2> HIDE DEF slot, Reads, Writes
  <2> QED BY <2>2, <2>3 DEF Injection, IsInjective
<1>8. /\ IsFiniteSet(-rsz .. A) /\ Cardinality(-rsz .. A) = A + rsz + 1
      /\ IsFiniteSet(Writes) /\ Cardinality(Writes) = A
  <2>1. /\ IsFiniteSet(-rsz .. A)
        /\ Cardinality(-rsz .. A) = IF -rsz > A THEN 0 ELSE A - (-rsz) + 1
    BY <1>2, FS_Interval
  <2>2. /\ IsFiniteSet(Writes)
        /\ Cardinality(Writes) = IF Attempts + 1 > Attempts + A THEN 0
                                 ELSE (Attempts + A) - (Attempts + 1) + 1
    BY <1>2, FS_Interval
  <2> HIDE DEF Writes
  <2> QED BY <1>2, <2>1, <2>2
<1>9. IsFiniteSet(Reads) /\ Cardinality(Reads) = A + rsz
  <2>1. Pipe(r) \in -rsz .. A
    BY <1>2 DEF Pipe, Reactors
  <2>2. /\ IsFiniteSet((-rsz .. A) \ {Pipe(r)})
        /\ Cardinality((-rsz .. A) \ {Pipe(r)}) = Cardinality(-rsz .. A) - 1
    BY <1>8, <2>1, FS_RemoveElement
  <2> QED BY <1>2, <1>8, <2>2
<1> HIDE DEF Reads, Writes, slot
<1>10. /\ IsFiniteSet(Reads \cup Writes)
       /\ Cardinality(Reads \cup Writes) = Cardinality(Reads) + Cardinality(Writes) - Cardinality(Reads \cap Writes)
  BY <1>8, <1>9, FS_Union
<1>11. Cardinality(Reads \cap Writes) \in Nat
  BY <1>8, FS_Intersection, FS_CardinalityType
<1>12. Cardinality(Slabs) <= Cardinality(Reads \cup Writes)
  BY <1>7, <1>10, FS_Injection
<1>13. Cardinality(Slabs) = psz
  BY <1>2, FS_Interval DEF Slabs
<1> QED BY <1>2, <1>8, <1>9, <1>10, <1>11, <1>12, <1>13 DEF A

\* When the pool has a slab for the listening socket and each pipe, and two for each
\* connection the limit lets in, assert(e != NULL) in reactor_pool_exec never fails.
THEOREM PipesGetEvents ==
  ASSUME max_connections >= -1, psz > rsz + 2 * (max_connections + 1)
  PROVE  Spec => []PipeEventAvailable
<1>1. Init => PipeEventAvailable
  BY DEF Init, PipeEventAvailable
<1>2. AllInv /\ WithinLimit /\ WritesOnConns /\ PipeEventAvailable /\ [Next]_vars
        => PipeEventAvailable'
  <2> SUFFICES ASSUME AllInv, WithinLimit, WritesOnConns, PipeEventAvailable, [Next]_vars,
                      dead' = "assert"
               PROVE  FALSE
    BY DEF PipeEventAvailable
  <2>1. PICK r \in Reactors : ReactorStart(r) /\ idle = <<>>
    <3>1. dead' # dead
      BY DEF PipeEventAvailable
    <3>2. ~UNCHANGED vars
      BY <3>1 DEF vars
    <3>3. ~ClientConnect /\ (\A c \in Conns : ~ClientSend(c) /\ ~ClientClose(c))
          /\ \A u \in Units : ~Work(u)
      BY <3>1 DEF ClientConnect, ClientSend, ClientClose, Arrives, Work
    <3>4. ~MasterThread
      BY <3>1 DEF MasterThread, MasterStart, MasterLoop, AcceptRefuse, AcceptAdmit, AcceptConnect
    <3>5. PICK r \in Reactors : ReactorThread(r)
      BY <3>2, <3>3, <3>4 DEF Next
    <3>6. ReactorStart(r)
      BY <3>1, <3>5 DEF ReactorThread, ReactorLoop, Dispatch, DispatchCorrupt, PipeRead,
         PipeAddRead, PipeAddWrite, PipeAdd, ReadChunk, ReadClosed, ReadNone, ReadError,
         ReadOther, CloseRead, CloseWrite, CloseEvent, PushPack
    <3> QED BY <3>1, <3>6 DEF ReactorStart
  <2>2. read_waits[Pipe(r)] = NULL
    BY <2>1, Parts DEF ReactorStart, PlaceOK
  <2>3. psz <= rsz + 2 * Admitted
    BY <2>1, <2>2, EmptyPool
  <2>4. Admitted \in Nat /\ max_connections \in Int /\ rsz \in Nat /\ psz \in Nat
    BY Parts, Sizes, LimitTypes
  <2> QED BY <2>3, <2>4 DEF WithinLimit
<1> QED BY <1>1, <1>2, ServerInvariant, LimitInvariant, WritesInvariant, PTL DEF Spec
-----------------------------------------------------------------------------
(* The packs in the rings and the callbacks that were run. *)

Kinds == {"EB_CONNECT", "EB_RECV", "EB_CLOSE"}

ReactorOf(c) == c % rsz
WorkerOf(c)  == c % fsz

PacksOK ==
  /\ ring \in [Units -> Seq(Conns \X (0 .. MaxSend))]
  /\ calls \in [Conns -> Seq(Kinds \X (0 .. MaxSend))]
  /\ \A u \in Units : \A n \in DOMAIN ring[u] : WorkerOf(ring[u][n][1]) = u

LEMMA ConnOf ==
  ASSUME NEW c \in Conns
  PROVE  /\ c \in Handles /\ ReactorOf(c) \in Reactors /\ WorkerOf(c) \in Units
         /\ c # Listen /\ \A r \in Reactors : c # Pipe(r)
  BY HandleFacts, BaseFacts DEF HandlesApart, BaseOfOK, ReactorOf, WorkerOf

\* What a push, the work on a pack and the connect callback do to rings and calls.
LEMMA PushEffect ==
  ASSUME AllInv, PacksOK, NEW r \in Reactors, PushPack(r), NEW c, c = cfd[r], NEW u, u = WorkerOf(c)
  PROVE  /\ c \in Conns /\ u \in Units /\ ReactorOf(c) = r
         /\ pack[r] \in 0 .. MaxSend /\ calls' = calls
         /\ rpc' = [rpc EXCEPT ![r] = "loop"] /\ rpc[r] = "push"
         /\ \/ ring' = ring
            \/ ring' = [ring EXCEPT ![u] = Append(ring[u], <<c, pack[r]>>)]
<1>1. PlaceOK(r) /\ ThreadsOK
  BY Parts
<1>2. rpc[r] = "push" /\ calls' = calls /\ rpc' = [rpc EXCEPT ![r] = "loop"]
  BY DEF PushPack, Goto
<1>3. c \in Conns /\ ReactorOf(c) = r
  BY <1>1, <1>2 DEF PlaceOK, Handling, ReactorOf
<1>4. u \in Units
  BY <1>3, ConnOf
<1>5. pack[r] \in 0 .. MaxSend
  BY <1>1 DEF ThreadsOK
<1>6. \/ ring' = ring
      \/ ring' = [ring EXCEPT ![u] = Append(ring[u], <<c, pack[r]>>)]
  BY DEF PushPack, WorkerOf
<1> QED BY <1>2, <1>3, <1>4, <1>5, <1>6

LEMMA WorkEffect ==
  ASSUME PacksOK, NEW u \in Units, Work(u),
         NEW c, c = Head(ring[u])[1], NEW n, n = Head(ring[u])[2]
  PROVE  /\ c \in Conns /\ n \in 0 .. MaxSend /\ WorkerOf(c) = u
         /\ ring[u] \in Seq(Conns \X (0 .. MaxSend)) /\ ring[u] # <<>>
         /\ 1 \in DOMAIN ring[u] /\ ring[u][1][1] = c /\ ring[u][1][2] = n
         /\ ring' = [ring EXCEPT ![u] = Tail(ring[u])]
         /\ calls' = [calls EXCEPT ![c] =
                         Append(calls[c], IF n = 0 THEN <<"EB_CLOSE", 0>> ELSE <<"EB_RECV", n>>)]
<1>1. ring[u] \in Seq(Conns \X (0 .. MaxSend)) /\ ring[u] # <<>>
  BY DEF PacksOK, Work
<1>2. /\ Head(ring[u]) = ring[u][1] /\ Head(ring[u]) \in Conns \X (0 .. MaxSend)
      /\ 1 \in DOMAIN ring[u]
  BY <1>1, TailFacts
<1>3. c \in Conns /\ n \in 0 .. MaxSend
  BY <1>2
<1>4. WorkerOf(c) = u
  BY <1>2 DEF PacksOK
<1> QED BY <1>1, <1>2, <1>3, <1>4 DEF Work

LEMMA ConnectEffect ==
  ASSUME AllInv, AcceptConnect
  PROVE  /\ mfd \in Conns /\ ring' = ring
         /\ calls' = [calls EXCEPT ![mfd] = Append(calls[mfd], <<"EB_CONNECT", 0>>)]
<1>1. mpc = "connect" /\ ThreadsOK /\ AdmissionInv
  BY Parts DEF AcceptConnect
<1>2. mfd = total_conns + 1 /\ total_conns \in Nat
  BY <1>1 DEF AdmissionInv, Admitted, ThreadsOK
<1>3. mfd \in Conns
  BY <1>1, <1>2 DEF ThreadsOK
<1> QED BY <1>3 DEF AcceptConnect

\* Which steps touch rings and calls.
LEMMA PacksSame ==
  ASSUME [Next]_vars, ~AcceptConnect, \A r \in Reactors : ~PushPack(r), \A u \in Units : ~Work(u)
  PROVE  ring' = ring /\ calls' = calls
<1>1. CASE UNCHANGED vars
  BY <1>1 DEF vars, work
<1>2. CASE ClientConnect \/ \E c \in Conns : ClientSend(c) \/ ClientClose(c)
  BY <1>2 DEF ClientConnect, ClientSend, ClientClose, Arrives, work
<1>3. CASE MasterThread
  BY <1>3 DEF MasterThread, MasterStart, MasterLoop, AcceptRefuse, AcceptAdmit, work
<1>4. ASSUME NEW r \in Reactors, ReactorThread(r) PROVE ring' = ring /\ calls' = calls
  BY <1>4 DEF ReactorThread, ReactorStart, ReactorLoop, Dispatch, DispatchCorrupt, PipeRead,
     PipeAddRead, PipeAddWrite, PipeAdd, ReadChunk, ReadClosed, ReadNone, ReadError, ReadOther,
     CloseRead, CloseWrite, CloseEvent, work
<1> QED BY <1>1, <1>2, <1>3, <1>4 DEF Next

LEMMA PacksStep ==
  ASSUME AllInv, PacksOK, [Next]_vars
  PROVE  PacksOK'
<1>1. CASE ring' = ring /\ calls' = calls
  BY <1>1 DEF PacksOK
<1>2. ASSUME NEW r \in Reactors, PushPack(r) PROVE PacksOK'
  <2> DEFINE c == cfd[r]
             u == WorkerOf(c)
  <2>1. /\ c \in Conns /\ u \in Units /\ pack[r] \in 0 .. MaxSend /\ calls' = calls
        /\ ring' = ring \/ ring' = [ring EXCEPT ![u] = Append(ring[u], <<c, pack[r]>>)]
    BY <1>2, PushEffect
  <2>2. CASE ring' = ring
    BY <1>1, <2>1, <2>2
  <2>3. CASE ring' = [ring EXCEPT ![u] = Append(ring[u], <<c, pack[r]>>)]
    <3> DEFINE x == <<c, pack[r]>>
    <3>1. x \in Conns \X (0 .. MaxSend) /\ x[1] = c
      BY <2>1
    <3>u. WorkerOf(c) = u
      OBVIOUS
    <3> HIDE DEF c, u, x
    <3>2. ring[u] \in Seq(Conns \X (0 .. MaxSend))
      BY <2>1 DEF PacksOK
    <3>3. /\ Append(ring[u], x) \in Seq(Conns \X (0 .. MaxSend))
          /\ DOMAIN Append(ring[u], x) = 1 .. Len(ring[u]) + 1 /\ DOMAIN ring[u] = 1 .. Len(ring[u])
          /\ Append(ring[u], x)[Len(ring[u]) + 1] = x /\ Len(ring[u]) \in Nat
          /\ \A n \in 1 .. Len(ring[u]) : Append(ring[u], x)[n] = ring[u][n]
      BY <3>1, <3>2
    <3>4. ring' = [ring EXCEPT ![u] = Append(ring[u], x)]
      BY <2>3 DEF x
    <3>5. ring' \in [Units -> Seq(Conns \X (0 .. MaxSend))]
      BY <2>1, <3>3, <3>4 DEF PacksOK
    <3>6. ASSUME NEW v \in Units, NEW n \in DOMAIN ring'[v]
          PROVE  WorkerOf(ring'[v][n][1]) = v
      <4>1. CASE v # u
        <5>1. ring'[v] = ring[v]
          BY <2>1, <3>4, <4>1 DEF PacksOK
        <5> QED BY <3>6, <5>1 DEF PacksOK
      <4>2. CASE v = u
        <5>1. ring'[v] = Append(ring[u], x)
          BY <2>1, <3>4, <4>2 DEF PacksOK
        <5>2. CASE n = Len(ring[u]) + 1
          BY <3>1, <3>u, <3>3, <4>2, <5>1, <5>2
        <5>3. CASE n \in 1 .. Len(ring[u])
          <6>1. ring'[v][n] = ring[u][n] /\ n \in DOMAIN ring[u]
            BY <3>3, <5>1, <5>3
          <6> QED BY <4>2, <6>1 DEF PacksOK
        <5> QED BY <3>3, <5>1, <5>2, <5>3
      <4> QED BY <4>1, <4>2
    <3> QED BY <2>1, <3>5, <3>6 DEF PacksOK
  <2> QED BY <2>1, <2>2, <2>3
<1>3. ASSUME NEW u \in Units, Work(u) PROVE PacksOK'
  <2> DEFINE c == Head(ring[u])[1]
             n == Head(ring[u])[2]
             x == IF n = 0 THEN <<"EB_CLOSE", 0>> ELSE <<"EB_RECV", n>>
  <2>1. /\ c \in Conns /\ n \in 0 .. MaxSend /\ ring[u] \in Seq(Conns \X (0 .. MaxSend))
        /\ ring[u] # <<>> /\ ring' = [ring EXCEPT ![u] = Tail(ring[u])]
        /\ calls' = [calls EXCEPT ![c] = Append(calls[c], x)]
    BY <1>3, WorkEffect
  <2>2. x \in Kinds \X (0 .. MaxSend)
    BY <2>1 DEF Kinds
  <2> HIDE DEF c, n, x
  <2>3. calls' \in [Conns -> Seq(Kinds \X (0 .. MaxSend))]
    <3>1. Append(calls[c], x) \in Seq(Kinds \X (0 .. MaxSend))
      BY <2>1, <2>2 DEF PacksOK
    <3> QED BY <2>1, <3>1 DEF PacksOK
  <2>4. /\ Tail(ring[u]) \in Seq(Conns \X (0 .. MaxSend))
        /\ \A m \in DOMAIN Tail(ring[u]) : m + 1 \in DOMAIN ring[u] /\ Tail(ring[u])[m] = ring[u][m + 1]
    BY <2>1, TailFacts
  <2>5. ring' \in [Units -> Seq(Conns \X (0 .. MaxSend))]
    BY <2>1, <2>4 DEF PacksOK
  <2>6. ASSUME NEW v \in Units, NEW m \in DOMAIN ring'[v]
        PROVE  WorkerOf(ring'[v][m][1]) = v
    <3>1. CASE v # u
      <4>1. ring'[v] = ring[v]
        BY <2>1, <3>1 DEF PacksOK
      <4> QED BY <2>6, <4>1 DEF PacksOK
    <3>2. CASE v = u
      <4>1. ring'[v] = Tail(ring[u])
        BY <2>1, <3>2 DEF PacksOK
      <4>2. m + 1 \in DOMAIN ring[u] /\ ring'[v][m] = ring[u][m + 1]
        BY <2>4, <2>6, <4>1
      <4> QED BY <3>2, <4>2 DEF PacksOK
    <3> QED BY <3>1, <3>2
  <2> QED BY <2>3, <2>5, <2>6 DEF PacksOK
<1>4. CASE AcceptConnect
  <2>1. /\ mfd \in Conns /\ ring' = ring
        /\ calls' = [calls EXCEPT ![mfd] = Append(calls[mfd], <<"EB_CONNECT", 0>>)]
    BY <1>4, ConnectEffect
  <2>2. <<"EB_CONNECT", 0>> \in Kinds \X (0 .. MaxSend)
    BY Sizes DEF Kinds
  <2>3. Append(calls[mfd], <<"EB_CONNECT", 0>>) \in Seq(Kinds \X (0 .. MaxSend))
    BY <2>1, <2>2 DEF PacksOK
  <2>4. calls' \in [Conns -> Seq(Kinds \X (0 .. MaxSend))]
    BY <2>1, <2>3 DEF PacksOK
  <2> QED BY <2>1, <2>4 DEF PacksOK
<1> QED BY <1>1, <1>2, <1>3, <1>4, PacksSame

LEMMA PacksInvariant == Spec => []PacksOK
<1>1. Init => PacksOK
  BY DEF Init, PacksOK
<1>2. AllInv /\ PacksOK /\ [Next]_vars => PacksOK'
  BY PacksStep
<1> QED BY <1>1, <1>2, ServerInvariant, PTL DEF Spec

\* Type correctness of Server.
THEOREM ServerTypeOK == Spec => []TypeOK
<1>1. AllInv /\ PacksOK => TypeOK
  <2> SUFFICES ASSUME AllInv, PacksOK PROVE TypeOK
    OBVIOUS
  <2>1. EventsOK /\ ThreadsOK /\ HandlesApart
    BY Parts
  <2>2. Level \in [Handles -> SUBSET {"EPOLLIN", "EPOLLOUT"}]
    BY DEF Level
  <2>3. EB!TypeOK
    BY <2>1, <2>2 DEF EventsOK, EB!TypeOK
  <2> QED BY <2>1, <2>3 DEF EventsOK, ThreadsOK, PacksOK, TypeOK
<1> QED BY <1>1, ServerInvariant, PacksInvariant, PTL
-----------------------------------------------------------------------------
(* The order of the callbacks of a connection. *)

\* The place of a pack of length n, and of a callback x, in the order of a connection:
\* a close comes behind every chunk.
Key(n) == IF n = 0 THEN MaxSend + 1 ELSE n
CallKey(x) == IF x[1] = "EB_CLOSE" THEN MaxSend + 1 ELSE x[2]

\* The calls of c that are about a pack, and their places in the order.
Called(c) == {m \in DOMAIN calls[c] : calls[c][m][1] # "EB_CONNECT"}
CallAt(c, m) == CallKey(calls[c][m])

\* The packs of c in the ring of its worker, and their lengths.
Rung(c) == {n \in DOMAIN ring[WorkerOf(c)] : ring[WorkerOf(c)][n][1] = c}
PackAt(c, n) == ring[WorkerOf(c)][n][2]

\* The reactor of c is about to push a pack of c.
InHand(c) == /\ rpc[ReactorOf(c)] \in {"close_read", "close_write", "push"}
             /\ cfd[ReactorOf(c)] = c
HandPack(c) == pack[ReactorOf(c)]

\* What was called comes before what is in the ring, and that before what is in hand.
KeysGrow(c) ==
  /\ \A m, n \in Called(c) : m < n => CallAt(c, m) < CallAt(c, n)
  /\ \A m \in Called(c), n \in Rung(c) : CallAt(c, m) < Key(PackAt(c, n))
  /\ \A m, n \in Rung(c) : m < n => Key(PackAt(c, m)) < Key(PackAt(c, n))
  /\ InHand(c) => \A m \in Called(c) : CallAt(c, m) < Key(HandPack(c))
  /\ InHand(c) => \A n \in Rung(c) : Key(PackAt(c, n)) < Key(HandPack(c))

Taken(c) == sent[c] - inbox[c]

\* No chunk is numbered higher than those taken from the socket.
ChunksTaken(c) ==
  /\ \A m \in Called(c) : calls[c][m][1] = "EB_RECV" => calls[c][m][2] <= Taken(c)
  /\ \A n \in Rung(c) : PackAt(c, n) <= Taken(c)
  /\ InHand(c) => HandPack(c) <= Taken(c)

\* A close of c has been seen: its callback has run, or its pack is on its way.
CloseSeen(c) ==
  \/ \E m \in Called(c) : calls[c][m][1] = "EB_CLOSE"
  \/ \E n \in Rung(c) : PackAt(c, n) = 0
  \/ InHand(c) /\ HandPack(c) = 0

\* The connection will not be read again.
NoMoreReads(c) ==
  /\ conn[c] = "fin" /\ ~InPipe(c, ReactorOf(c))
  /\ ~(rpc[ReactorOf(c)] = "add_read" /\ cfd[ReactorOf(c)] = c)
  /\ \/ read_waits[c] = NULL
     \/ rpc[ReactorOf(c)] = "close_read" /\ cfd[ReactorOf(c)] = c

\* A reactor that deletes the events of a connection has the pack of its close in hand.
ClosePacks == \A r \in Reactors : rpc[r] \in {"close_read", "close_write"} => pack[r] = 0

OrderOK(c) == KeysGrow(c) /\ ChunksTaken(c) /\ (CloseSeen(c) => NoMoreReads(c))

OrderInv == ClosePacks /\ \A c \in Conns : OrderOK(c)

\* The types of what the order is about.
LEMMA OrderTypes ==
  ASSUME PacksOK, AllInv, NEW c \in Conns
  PROVE  /\ \A m \in Called(c) : /\ m \in Nat /\ calls[c][m][2] \in 0 .. MaxSend
                                /\ calls[c][m][1] \in {"EB_RECV", "EB_CLOSE"}
                                /\ CallAt(c, m) \in Int /\ m \in 1 .. Len(calls[c])
         /\ \A n \in Rung(c) : n \in Nat /\ PackAt(c, n) \in 0 .. MaxSend /\ Key(PackAt(c, n)) \in Int
         /\ HandPack(c) \in 0 .. MaxSend /\ Key(HandPack(c)) \in Int
         /\ Taken(c) \in 0 .. MaxSend
         /\ calls[c] \in Seq(Kinds \X (0 .. MaxSend))
         /\ ring[WorkerOf(c)] \in Seq(Conns \X (0 .. MaxSend))
<1>1. ThreadsOK /\ MaxSend \in Nat /\ WorkerOf(c) \in Units /\ ReactorOf(c) \in Reactors
  BY Parts, Sizes, ConnOf
<1>2. calls[c] \in Seq(Kinds \X (0 .. MaxSend)) /\ ring[WorkerOf(c)] \in Seq(Conns \X (0 .. MaxSend))
  BY <1>1 DEF PacksOK
<1>3. ASSUME NEW m \in Called(c)
      PROVE  /\ m \in Nat /\ calls[c][m][2] \in 0 .. MaxSend
             /\ calls[c][m][1] \in {"EB_RECV", "EB_CLOSE"}
             /\ CallAt(c, m) \in Int /\ m \in 1 .. Len(calls[c])
  <2>1. m \in 1 .. Len(calls[c]) /\ Len(calls[c]) \in Nat
    BY <1>2 DEF Called
  <2>2. calls[c][m] \in Kinds \X (0 .. MaxSend)
    BY <1>2, <2>1
  <2>3. calls[c][m][1] \in {"EB_RECV", "EB_CLOSE"} /\ calls[c][m][2] \in 0 .. MaxSend
    BY <2>2 DEF Called, Kinds
  <2> QED BY <1>1, <2>1, <2>3 DEF CallAt, CallKey
<1>4. ASSUME NEW n \in Rung(c)
      PROVE  n \in Nat /\ PackAt(c, n) \in 0 .. MaxSend /\ Key(PackAt(c, n)) \in Int
  <2>1. n \in 1 .. Len(ring[WorkerOf(c)]) /\ Len(ring[WorkerOf(c)]) \in Nat
    BY <1>2 DEF Rung
  <2>2. ring[WorkerOf(c)][n] \in Conns \X (0 .. MaxSend)
    BY <1>2, <2>1
  <2>3. PackAt(c, n) \in 0 .. MaxSend
    BY <2>2 DEF PackAt
  <2> QED BY <1>1, <2>1, <2>3 DEF Key
<1>5. HandPack(c) \in 0 .. MaxSend
  BY <1>1 DEF ThreadsOK, HandPack
<1>6. Key(HandPack(c)) \in Int
  BY <1>1, <1>5 DEF Key
<1>7. Taken(c) \in 0 .. MaxSend
  <2>1. sent[c] \in 0 .. MaxSend /\ inbox[c] \in 0 .. MaxSend /\ inbox[c] <= sent[c]
    BY <1>1 DEF ThreadsOK
  <2> QED BY <1>1, <2>1 DEF Taken
<1> QED BY <1>2, <1>3, <1>4, <1>5, <1>6, <1>7

\* A step that runs no callback for a pack of c, adds no pack of c to a ring, and takes none
\* in hand.
OrderQuiet(c) ==
  /\ \A m \in Called(c)' : m \in Called(c) /\ calls'[c][m] = calls[c][m]
  /\ \/ \A n \in Rung(c)' : n \in Rung(c) /\ PackAt(c, n)' = PackAt(c, n)
     \/ \A n \in Rung(c)' : n + 1 \in Rung(c) /\ PackAt(c, n)' = PackAt(c, n + 1)
  /\ Taken(c)' = Taken(c)
  /\ InHand(c)' => InHand(c) /\ HandPack(c)' = HandPack(c)

LEMMA OrderKept ==
  ASSUME AllInv, PacksOK, AllInv', PacksOK', NEW c \in Conns, OrderOK(c), OrderQuiet(c),
         NoMoreReads(c) => NoMoreReads(c)'
  PROVE  OrderOK(c)'
<1>1. /\ \A m \in Called(c)' : m \in Called(c) /\ calls'[c][m] = calls[c][m]
                               /\ CallAt(c, m)' = CallAt(c, m) /\ m \in Nat
      /\ Taken(c)' = Taken(c)
      /\ InHand(c)' => InHand(c) /\ HandPack(c)' = HandPack(c)
  BY OrderTypes DEF OrderQuiet, CallAt
<1>2. /\ \A n \in Rung(c)' : n \in Nat
      /\ \A n \in Rung(c) : n \in Nat
  <2>1. \A n \in Rung(c) : n \in Nat
    BY OrderTypes
  <2>2. Rung(c)' \subseteq Nat
    <3>1. ring'[WorkerOf(c)] \in Seq(Conns \X (0 .. MaxSend))
      BY ConnOf DEF PacksOK
    <3> QED BY <3>1 DEF Rung
  <2> QED BY <2>1, <2>2
<1>3. PICK k \in {0, 1} : \A n \in Rung(c)' : n + k \in Rung(c) /\ PackAt(c, n)' = PackAt(c, n + k)
  <2>1. CASE \A n \in Rung(c)' : n \in Rung(c) /\ PackAt(c, n)' = PackAt(c, n)
    <3>1. \A n \in Rung(c)' : n + 0 = n
      BY <1>2
    <3> QED BY <2>1, <3>1
  <2>2. CASE \A n \in Rung(c)' : n + 1 \in Rung(c) /\ PackAt(c, n)' = PackAt(c, n + 1)
    BY <2>2
  <2> QED BY <2>1, <2>2 DEF OrderQuiet
<1>4. KeysGrow(c) /\ ChunksTaken(c) /\ (CloseSeen(c) => NoMoreReads(c))
  BY DEF OrderOK
<1>5. KeysGrow(c)'
  <2>1. ASSUME NEW m \in Called(c)', NEW n \in Called(c)', m < n
        PROVE  CallAt(c, m)' < CallAt(c, n)'
    BY <1>1, <1>4, <2>1 DEF KeysGrow
  <2>2. ASSUME NEW m \in Called(c)', NEW n \in Rung(c)'
        PROVE  CallAt(c, m)' < Key(PackAt(c, n)')
    <3>1. CallAt(c, m) < Key(PackAt(c, n + k))
      BY <1>1, <1>3, <1>4 DEF KeysGrow
    <3> QED BY <1>1, <1>3, <3>1
  <2>3. ASSUME NEW m \in Rung(c)', NEW n \in Rung(c)', m < n
        PROVE  Key(PackAt(c, m)') < Key(PackAt(c, n)')
    <3>1. m + k \in Rung(c) /\ n + k \in Rung(c) /\ m + k < n + k
      BY <1>2, <1>3, <2>3
    <3>2. Key(PackAt(c, m + k)) < Key(PackAt(c, n + k))
      BY <1>4, <3>1 DEF KeysGrow
    <3> QED BY <1>3, <3>2
  <2>4. ASSUME InHand(c)', NEW m \in Called(c)'
        PROVE  CallAt(c, m)' < Key(HandPack(c)')
    BY <1>1, <1>4, <2>4 DEF KeysGrow
  <2>5. ASSUME InHand(c)', NEW n \in Rung(c)'
        PROVE  Key(PackAt(c, n)') < Key(HandPack(c)')
    <3>1. Key(PackAt(c, n + k)) < Key(HandPack(c))
      BY <1>1, <1>3, <1>4, <2>5 DEF KeysGrow
    <3> QED BY <1>1, <1>3, <2>5, <3>1
  <2> QED BY <2>1, <2>2, <2>3, <2>4, <2>5 DEF KeysGrow, Key
<1>6. ChunksTaken(c)'
  BY <1>1, <1>3, <1>4 DEF ChunksTaken
<1>7. CloseSeen(c)' => NoMoreReads(c)'
  BY <1>1, <1>3, <1>4 DEF CloseSeen
<1> QED BY <1>5, <1>6, <1>7 DEF OrderOK

\* What a step of reactor r does to the read event of a connection.
LEMMA ReadTable ==
  ASSUME AllInv, NEW r \in Reactors, ReactorThread(r), NEW c \in Conns
  PROVE  \/ read_waits'[c] = read_waits[c]
         \/ read_waits'[c] = NULL
         \/ rpc[r] = "add_read" /\ cfd[r] = c
<1>0. EventsOK /\ EB!WaitsAreTheirs /\ HandlesApart /\ c \in Handles /\ c # Pipe(r)
  BY Parts, ConnOf
<1>1. ASSUME NEW h, NEW k, NEW ok, GetAndAdd(h, k, ok), h # c \/ k # EB!E_READ
      PROVE  read_waits'[c] = read_waits[c]
  BY <1>0, <1>1 DEF GetAndAdd, EB!ebot_add_event, EventsOK
<1>2. CASE ReactorStart(r)
  <2>1. \/ read_waits' = read_waits
        \/ \E ok \in CtlResults : GetAndAdd(Pipe(r), EB!E_READ, ok)
    BY <1>2 DEF ReactorStart, base
  <2> QED BY <1>0, <1>1, <2>1
<1>3. CASE PipeAddRead(r)
  <2>1. /\ rpc[r] = "add_read"
        /\ \/ read_waits' = read_waits
           \/ \E ok \in CtlResults : GetAndAdd(cfd[r], EB!E_READ, ok)
    BY <1>3 DEF PipeAddRead, PipeAdd, base
  <2> QED BY <1>1, <2>1
<1>4. CASE PipeAddWrite(r)
  <2>1. \/ read_waits' = read_waits
        \/ \E ok \in CtlResults : GetAndAdd(cfd[r], EB!E_WRITE, ok)
    BY <1>4 DEF PipeAddWrite, PipeAdd, base
  <2> QED BY <1>0, <1>1, <2>1 DEF HandlesApart
<1>5. CASE CloseRead(r) \/ CloseWrite(r)
  <2>1. ASSUME NEW e, DelAndPut(e)
        PROVE  read_waits'[c] = read_waits[c] \/ read_waits'[c] = NULL
    BY <1>0, <2>1 DEF DelAndPut, EB!ebot_del_event, EventsOK
  <2> QED BY <1>5, <2>1 DEF CloseRead, CloseWrite, CloseEvent, base
<1>6. CASE \/ ReactorLoop(r) \/ Dispatch(r) \/ DispatchCorrupt(r) \/ PipeRead(r) \/ PushPack(r)
           \/ ReadChunk(r) \/ ReadClosed(r) \/ ReadNone(r) \/ ReadError(r)
  BY <1>6 DEF ReactorLoop, EB!ebot_loop, EB!tables, Dispatch, DispatchCorrupt, PipeRead,
              ReadChunk, ReadClosed, ReadNone, ReadError, ReadOther, PushPack, base
<1> QED BY <1>2, <1>3, <1>4, <1>5, <1>6 DEF ReactorThread

\* The places between which a reactor moves.
Moves(r) ==
  /\ \A q \in Reactors : q # r => pack'[q] = pack[q]
  /\ \/ rpc'[r] \notin {"close_read", "close_write", "push"}
     \/ rpc[r] \in {"close_read", "close_write"} /\ cfd' = cfd /\ pack' = pack
     \/ ReadChunk(r) \/ ReadClosed(r)
  /\ rpc'[r] = "add_read" => PipeRead(r)
  /\ rpc'[r] \in {"close_read", "close_write"} => rpc[r] \in {"close_read", "close_write"} \/ ReadClosed(r)
  /\ (\A d \in Conns : inbox'[d] = inbox[d]) \/ ReadChunk(r)

LEMMA ReactorMoves ==
  ASSUME MaxFails = 0, AllInv, NEW r \in Reactors, ReactorThread(r)
  PROVE  Moves(r)
<1>0. ThreadsOK
  BY Parts
<1>1. CASE ReactorStart(r)
  <2>1. UNCHANGED <<pack, inbox, cfd>> /\ rpc'[r] \in {"start", "loop"}
    BY <1>0, <1>1 DEF ReactorStart, Goto, net, ThreadsOK
  <2> QED BY <2>1 DEF Moves
<1>2. CASE ReactorLoop(r) \/ DispatchCorrupt(r)
  <2>1. UNCHANGED <<pack, inbox, cfd>> /\ rpc'[r] = "loop"
    BY <1>0, <1>2 DEF ReactorLoop, DispatchCorrupt, net, react
  <2> QED BY <2>1 DEF Moves
<1>3. CASE Dispatch(r)
  <2>1. UNCHANGED <<pack, inbox>> /\ rpc'[r] \in {"loop", "pipe", "read"}
    BY <1>0, <1>3 DEF Dispatch, Goto, net, ThreadsOK
  <2> QED BY <2>1 DEF Moves
<1>4. CASE PipeRead(r)
  <2>1. UNCHANGED <<pack, inbox>> /\ rpc'[r] \in {"loop", "add_read"}
    BY <1>0, <1>4 DEF PipeRead, Goto, net, ThreadsOK
  <2> QED BY <1>4, <2>1 DEF Moves
<1>5. CASE PipeAddRead(r) \/ PipeAddWrite(r)
  <2>1. UNCHANGED <<pack, inbox>> /\ rpc'[r] \in {"loop", "add_write"}
    BY <1>0, <1>5 DEF PipeAddRead, PipeAddWrite, PipeAdd, Goto, net, ThreadsOK
  <2> QED BY <2>1 DEF Moves
<1>6. CASE ReadChunk(r)
  <2>1. rpc'[r] = "push" /\ \A q \in Reactors : q # r => pack'[q] = pack[q]
    BY <1>0, <1>6 DEF ReadChunk, Goto, ThreadsOK
  <2> QED BY <1>6, <2>1 DEF Moves
<1>7. CASE ReadClosed(r)
  <2>1. rpc'[r] = "close_read" /\ inbox' = inbox /\ \A q \in Reactors : q # r => pack'[q] = pack[q]
    BY <1>0, <1>7 DEF ReadClosed, ReadOther, Goto, ThreadsOK
  <2> QED BY <1>7, <2>1 DEF Moves
<1>8. CASE ReadNone(r) \/ ReadError(r)
  <2>1. fails < MaxFails /\ fails \in 0 .. MaxFails
    BY <1>0, <1>8 DEF ReadNone, ReadError, RecvFails, ThreadsOK
  <2> QED BY <2>1
<1>9. CASE CloseRead(r) \/ CloseWrite(r)
  <2>1. /\ UNCHANGED <<pack, inbox, cfd>> /\ rpc'[r] \in {"close_write", "push"}
        /\ rpc[r] \in {"close_read", "close_write"}
    BY <1>0, <1>9 DEF CloseRead, CloseWrite, CloseEvent, Goto, net, ThreadsOK
  <2> QED BY <2>1 DEF Moves
<1>10. CASE PushPack(r)
  <2>1. UNCHANGED <<pack, inbox, cfd>> /\ rpc'[r] = "loop"
    BY <1>0, <1>10 DEF PushPack, Goto, net, ThreadsOK
  <2> QED BY <2>1 DEF Moves
<1> QED BY <1>1, <1>2, <1>3, <1>4, <1>5, <1>6, <1>7, <1>8, <1>9, <1>10 DEF ReactorThread

\* Where a reactor handles c, it is the reactor of c.
LEMMA HandledByItsOwn ==
  ASSUME AllInv, NEW r \in Reactors, rpc[r] \in Handling
  PROVE  cfd[r] \in Conns /\ ReactorOf(cfd[r]) = r
  BY Parts DEF PlaceOK, ReactorOf

\* Once a connection will not be read again, it never will.
LEMMA NoMoreReadsKept ==
  ASSUME MaxFails = 0, AllInv, NEW c \in Conns, NoMoreReads(c), [Next]_vars
  PROVE  NoMoreReads(c)'
<1> DEFINE w == ReactorOf(c)
<1>0. /\ ThreadsOK /\ HandlesApart /\ EventsOK /\ EB!WaitsAreTheirs /\ AdmissionInv /\ EventsInv
      /\ w \in Reactors /\ c \in Handles /\ c # Listen
  BY Parts, ConnOf
<1>1. ASSUME UNCHANGED <<rpc, cfd>>, read_waits'[c] = read_waits[c], conn'[c] = "fin",
             InPipe(c, w)' => InPipe(c, w)
      PROVE  NoMoreReads(c)'
  BY <1>1 DEF NoMoreReads
<1>2. CASE UNCHANGED vars
  BY <1>1, <1>2 DEF vars, base, net, react, NoMoreReads, InPipe
<1>3. CASE \/ ClientConnect \/ \E u \in Units : Work(u)
  BY <1>1, <1>3 DEF ClientConnect, Work, base, net, react, NoMoreReads, InPipe
<1>4. ASSUME NEW d \in Conns, ClientSend(d) \/ ClientClose(d) PROVE NoMoreReads(c)'
  <2>1. UNCHANGED <<read_waits, pipe, rpc, cfd>> /\ conn'[c] = "fin"
    BY <1>0, <1>4 DEF ClientSend, ClientClose, Arrives, react, NoMoreReads, ThreadsOK
  <2> QED BY <1>1, <2>1 DEF InPipe
<1>5. CASE MasterThread
  <2>1. CASE MasterStart
    <3>1. UNCHANGED <<conn, pipe, rpc, cfd>>
      BY <2>1 DEF MasterStart, net, react
    <3>2. \/ read_waits' = read_waits
          \/ \E ok \in CtlResults : GetAndAdd(Listen, EB!E_READ, ok)
      BY <2>1 DEF MasterStart, base
    <3>3. read_waits'[c] = read_waits[c]
      BY <1>0, <3>2 DEF GetAndAdd, EB!ebot_add_event, EventsOK
    <3> QED BY <1>1, <3>1, <3>3 DEF InPipe, NoMoreReads
  <2>2. CASE MasterLoop \/ AcceptRefuse \/ AcceptConnect
    BY <1>1, <2>2 DEF MasterLoop, EB!ebot_loop, EB!tables, AcceptRefuse, AcceptConnect,
                      base, net, react, InPipe, NoMoreReads
  <2>3. CASE AcceptAdmit
    <3> DEFINE a == NewFd
               r == a % rsz
    <3>1. /\ UNCHANGED <<read_waits, rpc, cfd>> /\ conn' = [conn EXCEPT ![a] = "open"]
          /\ pipe' = pipe \/ pipe' = [pipe EXCEPT ![r] = Append(@, a)]
          /\ mpc = "wait" /\ EB!dispatch_events(Master)
      BY <2>3 DEF AcceptAdmit, react
    <3>2. backlog > 0
      BY <1>0, <3>1 DEF EB!dispatch_events, AdmissionInv
    <3>3. a \in Conns /\ conn[a] = "none"
      BY <1>0, <3>1, <3>2, NewFdIsNext
    <3>4. a # c /\ conn'[c] = "fin"
      BY <1>0, <3>1, <3>3 DEF NoMoreReads, ThreadsOK
    <3> HIDE DEF a, r
    <3>5. InPipe(c, w)' => InPipe(c, w)
      <4>1. pipe[w] \in Seq(Conns) /\ (pipe'[w] = pipe[w] \/ pipe'[w] = Append(pipe[w], a))
        BY <1>0, <3>1 DEF ThreadsOK
      <4>2. CASE pipe'[w] = Append(pipe[w], a)
        BY <3>4, <4>1, <4>2 DEF InPipe
      <4> QED BY <4>1, <4>2 DEF InPipe
    <3> QED BY <1>1, <3>1, <3>4, <3>5
  <2> QED BY <1>5, <2>1, <2>2, <2>3 DEF MasterThread
<1>6. ASSUME NEW r \in Reactors, ReactorThread(r) PROVE NoMoreReads(c)'
  <2>1. /\ conn' = conn
        /\ \A q \in Reactors : q # r => rpc'[q] = rpc[q] /\ cfd'[q] = cfd[q] /\ pipe'[q] = pipe[q]
    BY <1>0, <1>6, ReactorFrame
  <2>2. Moves(r)
    BY <1>6, ReactorMoves
  <2>3. read_waits'[c] = read_waits[c] \/ read_waits'[c] = NULL
    <3>1. ~(rpc[r] = "add_read" /\ cfd[r] = c)
      <4>1. SUFFICES ASSUME rpc[r] = "add_read", cfd[r] = c PROVE FALSE
        OBVIOUS
      <4>2. w = r
        BY <4>1, HandledByItsOwn DEF Handling
      <4> QED BY <4>1, <4>2 DEF NoMoreReads
    <3> QED BY <1>6, <3>1, ReadTable
  <2>4. CASE w # r
    <3>1. rpc'[w] = rpc[w] /\ cfd'[w] = cfd[w] /\ pipe'[w] = pipe[w]
      BY <1>0, <2>1, <2>4
    <3> QED BY <2>1, <2>3, <3>1 DEF NoMoreReads, InPipe
  <2>5. CASE w = r
    <3>1. pipe' = pipe \/ PipeRead(r)
      BY <1>6 DEF ReactorThread, ReactorStart, ReactorLoop, Dispatch, DispatchCorrupt,
         PipeAddRead, PipeAddWrite, PipeAdd, ReadChunk, ReadClosed, ReadNone, ReadError, ReadOther,
         CloseRead, CloseWrite, CloseEvent, PushPack
    <3>2. /\ ~InPipe(c, r)' /\ ~(rpc'[r] = "add_read" /\ cfd'[r] = c)
      <4>1. CASE PipeRead(r)
        <5>1. /\ pipe[r] \in Seq(Conns)
              /\ \/ pipe' = pipe /\ rpc'[r] = "loop"
                 \/ /\ pipe[r] # <<>> /\ pipe'[r] = Tail(pipe[r])
                    /\ cfd'[r] = Head(pipe[r])
          BY <1>0, <4>1 DEF PipeRead, Goto, ThreadsOK
        <5>2. CASE pipe' = pipe /\ rpc'[r] = "loop"
          BY <2>5, <5>2 DEF NoMoreReads, InPipe
        <5>3. CASE pipe[r] # <<>> /\ pipe'[r] = Tail(pipe[r]) /\ cfd'[r] = Head(pipe[r])
          <6>1. /\ Head(pipe[r]) = pipe[r][1] /\ 1 \in DOMAIN pipe[r]
                /\ \A m \in DOMAIN Tail(pipe[r]) : m + 1 \in DOMAIN pipe[r]
                                                  /\ Tail(pipe[r])[m] = pipe[r][m + 1]
            BY <5>1, <5>3, TailFacts
          <6>2. \A m \in DOMAIN pipe[r] : pipe[r][m] # c
            BY <2>5 DEF NoMoreReads, InPipe
          <6> QED BY <5>3, <6>1, <6>2 DEF InPipe
        <5> QED BY <5>1, <5>2, <5>3
      <4>2. CASE ~PipeRead(r)
        BY <2>2, <2>5, <3>1, <4>2 DEF Moves, NoMoreReads, InPipe
      <4> QED BY <4>1, <4>2
    <3>3. \/ read_waits'[c] = NULL
          \/ rpc'[r] = "close_read" /\ cfd'[r] = c
      <4>1. CASE read_waits[c] = NULL
        BY <2>3, <4>1
      <4>2. CASE rpc[r] = "close_read" /\ cfd[r] = c /\ read_waits[c] # NULL
        <5>1. CloseRead(r) \/ DispatchCorrupt(r)
          BY <1>6, <4>2 DEF ReactorThread, ReactorStart, ReactorLoop, Dispatch, PipeRead,
             PipeAddRead, PipeAddWrite, PipeAdd, ReadChunk, ReadClosed, ReadNone, ReadError,
             ReadOther, CloseWrite, CloseEvent, PushPack
        <5>2. DelAndPut(read_waits[c])
          BY <4>2, <5>1 DEF CloseRead, CloseEvent, DispatchCorrupt
        <5>3. read_waits[c] \in Slabs /\ queued[read_waits[c]] = NULL
          BY <1>0, <4>2, Parts DEF PlaceOK, EventsOK
        <5>4. Deleted(read_waits[c]) /\ fd[read_waits[c]] = c
          BY <1>0, <5>2, <5>3, DelEvents
        <5>5. kide[read_waits[c]] = EB!E_READ
          BY <1>0, <4>2 DEF EB!WaitsAreTheirs
        <5> QED BY <1>0, <5>4, <5>5 DEF Deleted, EventsOK
      <4> QED BY <2>5, <4>1, <4>2 DEF NoMoreReads
    <3> QED BY <2>1, <2>5, <3>2, <3>3 DEF NoMoreReads, InPipe
  <2> QED BY <2>4, <2>5
<1> QED BY <1>2, <1>3, <1>4, <1>5, <1>6 DEF Next

\* The step takes a pack of c in hand, pushes it, or works on it.
Handled(c) ==
  \/ \E r \in Reactors : cfd[r] = c /\ (ReadChunk(r) \/ ReadClosed(r) \/ PushPack(r))
  \/ \E u \in Units : Work(u) /\ Head(ring[u])[1] = c

\* A step for other connections.
LEMMA OtherQuiet ==
  ASSUME MaxFails = 0, AllInv, PacksOK, NEW c \in Conns, [Next]_vars, ~Handled(c)
  PROVE  OrderQuiet(c)
<1> DEFINE w == ReactorOf(c)
           v == WorkerOf(c)
<1>0. ThreadsOK /\ w \in Reactors /\ v \in Units
  BY Parts, ConnOf
<1>1. /\ Taken(c)' = Taken(c)
      /\ InHand(c)' => InHand(c) /\ HandPack(c)' = HandPack(c)
  <2>1. CASE /\ UNCHANGED <<rpc, cfd, pack>>
             /\ (sent' = sent /\ inbox' = inbox) \/ \E d \in Conns : ClientSend(d)
    <3>1. Taken(c)' = Taken(c)
      <4>1. ASSUME NEW d \in Conns, ClientSend(d) PROVE Taken(c)' = Taken(c)
        <5>1. /\ sent' = [sent EXCEPT ![d] = @ + 1] /\ inbox' = [inbox EXCEPT ![d] = @ + 1]
              /\ sent \in [Conns -> 0 .. MaxSend] /\ inbox \in [Conns -> 0 .. MaxSend]
          BY <1>0, <4>1 DEF ClientSend, ThreadsOK
        <5>2. sent[c] \in Int /\ inbox[c] \in Int
          BY <5>1, Sizes
        <5> QED BY <5>1, <5>2 DEF Taken
      <4> QED BY <2>1, <4>1 DEF Taken
    <3> QED BY <2>1, <3>1 DEF InHand, HandPack
  <2>2. CASE UNCHANGED vars
    BY <2>1, <2>2 DEF vars, net, react
  <2>3. CASE \/ ClientConnect \/ \E u \in Units : Work(u)
             \/ \E d \in Conns : ClientSend(d) \/ ClientClose(d)
    BY <2>1, <2>3 DEF ClientConnect, ClientSend, ClientClose, Arrives, Work, net, react
  <2>4. CASE MasterThread
    BY <2>1, <2>4 DEF MasterThread, MasterStart, MasterLoop, AcceptRefuse, AcceptAdmit,
                      AcceptConnect, net, react
  <2>5. ASSUME NEW r \in Reactors, ReactorThread(r)
        PROVE  /\ Taken(c)' = Taken(c)
               /\ InHand(c)' => InHand(c) /\ HandPack(c)' = HandPack(c)
    <3>1. /\ sent' = sent
          /\ \A q \in Reactors : q # r => rpc'[q] = rpc[q] /\ cfd'[q] = cfd[q]
      BY <1>0, <2>5, ReactorFrame
    <3>2. Moves(r)
      BY <2>5, ReactorMoves
    <3>3. ~(cfd[r] = c /\ (ReadChunk(r) \/ ReadClosed(r)))
      BY DEF Handled
    <3>4. (ReadChunk(r) \/ ReadClosed(r)) => /\ cfd' = cfd /\ cfd[r] # c
                                            /\ inbox'[c] = inbox[c]
      <4>1. ReadChunk(r) => cfd' = cfd /\ inbox' = [inbox EXCEPT ![cfd[r]] = @ - 1]
        BY DEF ReadChunk
      <4>2. ReadClosed(r) => cfd' = cfd /\ inbox' = inbox
        BY DEF ReadClosed, ReadOther
      <4> QED BY <1>0, <3>3, <4>1, <4>2 DEF ThreadsOK
    <3>5. inbox'[c] = inbox[c]
      BY <3>2, <3>4 DEF Moves
    <3>6. CASE w # r
      BY <1>0, <3>1, <3>2, <3>5, <3>6 DEF Moves, Taken, InHand, HandPack
    <3>7. CASE w = r
      BY <3>1, <3>2, <3>4, <3>5, <3>7 DEF Moves, Taken, InHand, HandPack
    <3> QED BY <3>6, <3>7
  <2> QED BY <2>2, <2>3, <2>4, <2>5 DEF Next
<1>2. ASSUME calls'[c] = calls[c], ring'[v] = ring[v]
      PROVE  OrderQuiet(c)
  BY <1>1, <1>2 DEF OrderQuiet, Called, Rung, PackAt
<1>3. /\ calls[c] \in Seq(Kinds \X (0 .. MaxSend)) /\ ring[v] \in Seq(Conns \X (0 .. MaxSend))
  BY OrderTypes
<1>4. CASE AcceptConnect
  <2>1. /\ mfd \in Conns /\ ring' = ring
        /\ calls' = [calls EXCEPT ![mfd] = Append(calls[mfd], <<"EB_CONNECT", 0>>)]
    BY <1>4, ConnectEffect
  <2>2. calls'[c] = calls[c] \/ calls'[c] = Append(calls[c], <<"EB_CONNECT", 0>>)
    BY <2>1 DEF PacksOK
  <2>3. CASE calls'[c] = Append(calls[c], <<"EB_CONNECT", 0>>)
    <3>1. \A m \in DOMAIN calls'[c] : \/ m \in DOMAIN calls[c] /\ calls'[c][m] = calls[c][m]
                                    \/ calls'[c][m] = <<"EB_CONNECT", 0>>
      BY <1>3, <2>3
    <3>2. \A m \in Called(c)' : m \in Called(c) /\ calls'[c][m] = calls[c][m]
      BY <3>1 DEF Called
    <3> QED BY <1>1, <2>1, <3>2 DEF OrderQuiet, Rung, PackAt
  <2> QED BY <1>2, <2>1, <2>2, <2>3
<1>5. ASSUME NEW r \in Reactors, PushPack(r) PROVE OrderQuiet(c)
  <2> DEFINE d == cfd[r]
             u == WorkerOf(d)
  <2>1. /\ d \in Conns /\ u \in Units /\ calls' = calls
        /\ \/ ring' = ring
           \/ ring' = [ring EXCEPT ![u] = Append(ring[u], <<d, pack[r]>>)]
    BY <1>5, PushEffect
  <2>2. d # c
    BY <1>5 DEF Handled
  <2> HIDE DEF d, u
  <2>3. ring'[v] = ring[v] \/ ring'[v] = Append(ring[v], <<d, pack[r]>>)
    BY <1>0, <2>1 DEF PacksOK
  <2>4. CASE ring'[v] = Append(ring[v], <<d, pack[r]>>)
    <3>1. \A n \in DOMAIN ring'[v] : \/ n \in DOMAIN ring[v] /\ ring'[v][n] = ring[v][n]
                                   \/ ring'[v][n] = <<d, pack[r]>>
      BY <1>3, <2>4
    <3>2. \A n \in Rung(c)' : n \in Rung(c) /\ PackAt(c, n)' = PackAt(c, n)
      BY <2>2, <3>1 DEF Rung, PackAt
    <3> QED BY <1>1, <2>1, <3>2 DEF OrderQuiet, Called
  <2> QED BY <1>2, <2>1, <2>3, <2>4
<1>6. ASSUME NEW u \in Units, Work(u) PROVE OrderQuiet(c)
  <2> DEFINE d == Head(ring[u])[1]
             n == Head(ring[u])[2]
             x == IF n = 0 THEN <<"EB_CLOSE", 0>> ELSE <<"EB_RECV", n>>
  <2>1. /\ d \in Conns /\ ring[u] \in Seq(Conns \X (0 .. MaxSend))
        /\ ring[u] # <<>> /\ ring' = [ring EXCEPT ![u] = Tail(ring[u])]
        /\ calls' = [calls EXCEPT ![d] = Append(calls[d], x)]
    BY <1>6, WorkEffect
  <2>2. d # c
    BY <1>6 DEF Handled
  <2> HIDE DEF d, n, x
  <2>3. calls'[c] = calls[c] /\ ring'[v] = IF v = u THEN Tail(ring[v]) ELSE ring[v]
    BY <1>0, <2>1, <2>2 DEF PacksOK
  <2>4. CASE v = u
    <3>1. \A m \in DOMAIN Tail(ring[v]) : m + 1 \in DOMAIN ring[v] /\ Tail(ring[v])[m] = ring[v][m + 1]
      BY <2>1, <2>4, TailFacts
    <3>2. \A m \in Rung(c)' : m + 1 \in Rung(c) /\ PackAt(c, m)' = PackAt(c, m + 1)
      BY <2>3, <2>4, <3>1 DEF Rung, PackAt
    <3> QED BY <1>1, <2>3, <3>2 DEF OrderQuiet, Called
  <2> QED BY <1>2, <2>3, <2>4
<1>7. CASE ring' = ring /\ calls' = calls
  BY <1>2, <1>7
<1> QED BY <1>4, <1>5, <1>6, <1>7, PacksSame

\* A pack taken in hand is the last of its connection.
LEMMA TakeOrder ==
  ASSUME AllInv, PacksOK, AllInv', PacksOK', NEW r \in Reactors, NEW c, c = cfd[r], OrderOK(c),
         ReadChunk(r) \/ ReadClosed(r)
  PROVE  OrderOK(c)'
<1>0. ThreadsOK /\ PlaceOK(r) /\ rpc[r] = "read"
  BY Parts DEF ReadChunk, ReadClosed, ReadOther
<1>1. c \in Conns /\ ReactorOf(c) = r /\ read_waits[c] # NULL /\ ~InPipe(c, r)
  BY <1>0 DEF PlaceOK, Handling, ReactorOf
<1>2. ~CloseSeen(c) /\ ~InHand(c)
  BY <1>0, <1>1 DEF OrderOK, NoMoreReads, InHand
<1>3. /\ UNCHANGED <<ring, calls, sent, conn, cfd, pipe, read_waits>>
  BY DEF ReadChunk, ReadClosed, ReadOther, work, base
<1>4. /\ Called(c)' = Called(c) /\ Rung(c)' = Rung(c)
      /\ \A m : CallAt(c, m)' = CallAt(c, m)
      /\ \A n : PackAt(c, n)' = PackAt(c, n)
  BY <1>3 DEF Called, Rung, CallAt, PackAt, CallKey
<1>5. /\ KeysGrow(c) /\ ChunksTaken(c) /\ MaxSend \in Nat
      /\ \A m \in Called(c) : calls[c][m][1] = "EB_RECV" /\ calls[c][m][2] <= Taken(c)
                              /\ CallAt(c, m) = calls[c][m][2]
      /\ \A n \in Rung(c) : PackAt(c, n) # 0 /\ PackAt(c, n) <= Taken(c)
                            /\ Key(PackAt(c, n)) = PackAt(c, n)
  <2>1. KeysGrow(c) /\ ChunksTaken(c) /\ MaxSend \in Nat
    BY Sizes DEF OrderOK
  <2>2. ASSUME NEW m \in Called(c)
        PROVE  calls[c][m][1] = "EB_RECV" /\ calls[c][m][2] <= Taken(c)
               /\ CallAt(c, m) = calls[c][m][2]
    <3>1. calls[c][m][1] \in {"EB_RECV", "EB_CLOSE"}
      BY <1>1, OrderTypes
    <3>2. calls[c][m][1] = "EB_RECV"
      BY <1>2, <3>1 DEF CloseSeen
    <3> QED BY <2>1, <3>2 DEF ChunksTaken, CallAt, CallKey
  <2>3. ASSUME NEW n \in Rung(c)
        PROVE  PackAt(c, n) # 0 /\ PackAt(c, n) <= Taken(c) /\ Key(PackAt(c, n)) = PackAt(c, n)
    BY <1>2, <2>1 DEF CloseSeen, ChunksTaken, Key
  <2> QED BY <2>1, <2>2, <2>3
<1>6. /\ \A m \in Called(c) : calls[c][m][2] \in Nat
      /\ \A n \in Rung(c) : PackAt(c, n) \in Nat
      /\ Taken(c) \in 0 .. MaxSend
      /\ Taken(c)' \in 0 .. MaxSend
  <2>1. Taken(c)' \in 0 .. MaxSend
    <3>1. ThreadsOK'
      BY DEF AllInv, ConnsInv
    <3>2. sent'[c] \in 0 .. MaxSend /\ inbox'[c] \in 0 .. MaxSend /\ inbox'[c] <= sent'[c]
      BY <1>1, <3>1 DEF ThreadsOK
    <3> QED BY <1>5, <3>2 DEF Taken
  <2>2. /\ \A m \in Called(c) : calls[c][m][2] \in 0 .. MaxSend
        /\ \A n \in Rung(c) : PackAt(c, n) \in 0 .. MaxSend
        /\ Taken(c) \in 0 .. MaxSend
    BY <1>1, OrderTypes
  <2> QED BY <1>5, <2>1, <2>2
<1>7. CASE ReadChunk(r)
  <2>1. /\ HandPack(c)' = Taken(c) + 1 /\ Taken(c)' = Taken(c) + 1
    <3>1. /\ pack' = [pack EXCEPT ![r] = NextChunk(c)] /\ inbox' = [inbox EXCEPT ![c] = @ - 1]
      BY <1>7 DEF ReadChunk
    <3>2. /\ sent[c] \in Int /\ inbox[c] \in Int /\ pack'[r] = NextChunk(c) /\ inbox'[c] = inbox[c] - 1
      BY <1>0, <1>1, <1>5, <3>1 DEF ThreadsOK
    <3> QED BY <1>1, <1>3, <3>2 DEF HandPack, Taken, NextChunk
  <2>2. HandPack(c)' # 0 /\ Key(HandPack(c)') = Taken(c) + 1
    BY <1>6, <2>1 DEF Key
  <2>3. KeysGrow(c)'
    <3>1. \A m \in Called(c) : CallAt(c, m) < Key(HandPack(c)')
      BY <1>5, <1>6, <2>2
    <3>2. \A n \in Rung(c) : Key(PackAt(c, n)) < Key(HandPack(c)')
      BY <1>5, <1>6, <2>2
    <3> QED BY <1>4, <1>5, <3>1, <3>2 DEF KeysGrow, Key
  <2>4. ChunksTaken(c)'
    <3>1. \A m \in Called(c) : calls[c][m][2] <= Taken(c)'
      BY <1>5, <1>6, <2>1
    <3>2. \A n \in Rung(c) : PackAt(c, n) <= Taken(c)'
      BY <1>5, <1>6, <2>1
    <3>3. HandPack(c)' <= Taken(c)'
      BY <1>6, <2>1
    <3> QED BY <1>3, <1>4, <3>1, <3>2, <3>3 DEF ChunksTaken
  <2>5. ~CloseSeen(c)'
    BY <1>2, <1>3, <1>4, <2>2 DEF CloseSeen
  <2> QED BY <2>3, <2>4, <2>5 DEF OrderOK
<1>8. CASE ReadClosed(r)
  <2>1. /\ HandPack(c)' = 0 /\ Taken(c)' = Taken(c) /\ rpc'[r] = "close_read"
        /\ conn[c] = "fin"
    BY <1>0, <1>1, <1>3, <1>8 DEF ReadClosed, ReadOther, Goto, HandPack, Taken, ThreadsOK
  <2>2. Key(HandPack(c)') = MaxSend + 1
    BY <2>1 DEF Key
  <2>3. KeysGrow(c)'
    <3>1. \A m \in Called(c) : CallAt(c, m) < Key(HandPack(c)')
      BY <1>5, <1>6, <2>2
    <3>2. \A n \in Rung(c) : Key(PackAt(c, n)) < Key(HandPack(c)')
      BY <1>5, <1>6, <2>2
    <3> QED BY <1>4, <1>5, <3>1, <3>2 DEF KeysGrow, Key
  <2>4. ChunksTaken(c)'
    <3>1. HandPack(c)' <= Taken(c)'
      BY <1>6, <2>1
    <3> QED BY <1>3, <1>4, <1>5, <2>1, <3>1 DEF ChunksTaken
  <2>5. NoMoreReads(c)'
    BY <1>1, <1>3, <2>1 DEF NoMoreReads, InPipe
  <2> QED BY <2>3, <2>4, <2>5 DEF OrderOK
<1> QED BY <1>7, <1>8

\* The pack in hand goes behind everything in the ring.
LEMMA PushOrder ==
  ASSUME AllInv, PacksOK, AllInv', PacksOK', NEW r \in Reactors, NEW c, c = cfd[r], OrderOK(c),
         PushPack(r), NoMoreReads(c) => NoMoreReads(c)'
  PROVE  OrderOK(c)'
<1> DEFINE u == WorkerOf(c)
           x == <<c, pack[r]>>
<1>1. /\ c \in Conns /\ u \in Units /\ ReactorOf(c) = r /\ pack[r] \in 0 .. MaxSend
      /\ calls' = calls /\ rpc' = [rpc EXCEPT ![r] = "loop"] /\ rpc[r] = "push"
      /\ \/ ring' = ring
         \/ ring' = [ring EXCEPT ![u] = Append(ring[u], x)]
  BY PushEffect
<1>2. /\ ThreadsOK /\ Taken(c)' = Taken(c) /\ ~InHand(c)' /\ InHand(c) /\ HandPack(c) = pack[r]
  <2>1. ThreadsOK /\ sent' = sent /\ inbox' = inbox
    BY Parts DEF PushPack, net
  <2>2. rpc'[r] = "loop"
    BY <1>1, <2>1 DEF ThreadsOK
  <2> QED BY <1>1, <2>1, <2>2 DEF Taken, InHand, HandPack
<1>3. KeysGrow(c) /\ ChunksTaken(c) /\ (CloseSeen(c) => NoMoreReads(c))
  BY DEF OrderOK
<1>4. CASE ring' = ring
  <2>1. OrderQuiet(c)
    BY <1>1, <1>2, <1>4 DEF OrderQuiet, Called, Rung, PackAt
  <2> QED BY <1>1, <2>1, OrderKept
<1>5. CASE ring' = [ring EXCEPT ![u] = Append(ring[u], x)]
  <2>1. ring[u] \in Seq(Conns \X (0 .. MaxSend)) /\ ring'[u] = Append(ring[u], x)
    BY <1>1, <1>5 DEF PacksOK
  <2>2. /\ Len(ring[u]) \in Nat /\ DOMAIN ring[u] = 1 .. Len(ring[u])
        /\ \A n \in DOMAIN ring'[u] :
             \/ /\ n \in DOMAIN ring[u]
                /\ ring'[u][n] = ring[u][n]
             \/ /\ n = Len(ring[u]) + 1
                /\ ring'[u][n] = x
    <3>1. x \in Conns \X (0 .. MaxSend)
      BY <1>1
    <3> HIDE DEF x, u
    <3> QED BY <2>1, <3>1
  <2>3. x[2] = pack[r]
    OBVIOUS
  <2>4. /\ Called(c)' = Called(c) /\ \A m : CallAt(c, m)' = CallAt(c, m)
    BY <1>1 DEF Called, CallAt, CallKey
  <2> HIDE DEF x
  <2>5. ASSUME NEW n \in Rung(c)'
        PROVE  /\ n \in Int
               /\ \/ /\ n \in Rung(c)
                     /\ PackAt(c, n)' = PackAt(c, n)
                     /\ n <= Len(ring[u])
                  \/ /\ n = Len(ring[u]) + 1
                     /\ PackAt(c, n)' = pack[r]
    <3>1. n \in DOMAIN ring'[u] /\ ring'[u][n][1] = c /\ PackAt(c, n)' = ring'[u][n][2]
      BY DEF Rung, PackAt
    <3>2. CASE n \in DOMAIN ring[u] /\ ring'[u][n] = ring[u][n]
      BY <2>2, <3>1, <3>2 DEF Rung, PackAt
    <3>3. CASE n = Len(ring[u]) + 1 /\ ring'[u][n] = x
      BY <2>2, <2>3, <3>1, <3>3
    <3> QED BY <2>2, <3>1, <3>2, <3>3
  <2>6. KeysGrow(c)'
    <3>1. ASSUME NEW m \in Called(c), NEW n \in Rung(c)'
          PROVE  CallAt(c, m) < Key(PackAt(c, n)')
      BY <1>2, <1>3, <2>5 DEF KeysGrow
    <3>2. ASSUME NEW m \in Rung(c)', NEW n \in Rung(c)', m < n
          PROVE  Key(PackAt(c, m)') < Key(PackAt(c, n)')
      <4>1. m \in Rung(c) /\ PackAt(c, m)' = PackAt(c, m)
        <5>1. Len(ring[u]) \in Int /\ m \in Int /\ n \in Int /\ n <= Len(ring[u]) + 1
          BY <2>2, <2>5
        <5>2. m # Len(ring[u]) + 1
          BY <3>2, <5>1
        <5> QED BY <2>5, <5>2
      <4>2. CASE n \in Rung(c) /\ PackAt(c, n)' = PackAt(c, n)
        BY <1>3, <3>2, <4>1, <4>2 DEF KeysGrow
      <4>3. CASE PackAt(c, n)' = pack[r]
        BY <1>2, <1>3, <4>1, <4>3 DEF KeysGrow
      <4> QED BY <2>5, <4>2, <4>3
    <3> QED BY <1>2, <1>3, <2>4, <3>1, <3>2 DEF KeysGrow, Key
  <2>7. ChunksTaken(c)'
    BY <1>1, <1>2, <1>3, <2>4, <2>5 DEF ChunksTaken
  <2>8. CloseSeen(c)' => NoMoreReads(c)'
    BY <1>1, <1>2, <1>3, <2>4, <2>5 DEF CloseSeen
  <2> QED BY <2>6, <2>7, <2>8 DEF OrderOK
<1> QED BY <1>1, <1>4, <1>5

\* The callback of the first pack comes behind every callback and before every other pack.
LEMMA WorkOrder ==
  ASSUME AllInv, PacksOK, AllInv', PacksOK', NEW u \in Units, Work(u),
         NEW c, c = Head(ring[u])[1], OrderOK(c),
         NoMoreReads(c) => NoMoreReads(c)'
  PROVE  OrderOK(c)'
<1> DEFINE k == Head(ring[u])[2]
           x == IF k = 0 THEN <<"EB_CLOSE", 0>> ELSE <<"EB_RECV", k>>
           L == Len(calls[c]) + 1
<1>1. /\ c \in Conns /\ k \in 0 .. MaxSend /\ WorkerOf(c) = u
      /\ ring[u] \in Seq(Conns \X (0 .. MaxSend)) /\ ring[u] # <<>>
      /\ 1 \in DOMAIN ring[u] /\ ring[u][1][1] = c /\ ring[u][1][2] = k
      /\ ring' = [ring EXCEPT ![u] = Tail(ring[u])]
      /\ calls' = [calls EXCEPT ![c] = Append(calls[c], x)]
  BY WorkEffect
<1>2. /\ Taken(c)' = Taken(c) /\ (InHand(c)' <=> InHand(c)) /\ HandPack(c)' = HandPack(c)
  BY DEF Work, net, react, Taken, InHand, HandPack
<1>3. KeysGrow(c) /\ ChunksTaken(c) /\ (CloseSeen(c) => NoMoreReads(c)) /\ MaxSend \in Nat
  BY Sizes DEF OrderOK
<1> HIDE DEF k
<1>4. /\ x[1] \in {"EB_RECV", "EB_CLOSE"} /\ (x[1] = "EB_CLOSE" => k = 0)
      /\ (x[1] = "EB_RECV" => x[2] = k) /\ CallKey(x) = Key(k)
  <2>1. CASE k = 0
    BY <2>1 DEF CallKey, Key
  <2>2. CASE k # 0
    BY <2>2 DEF CallKey, Key
  <2> QED BY <2>1, <2>2
<1> HIDE DEF x
<1>5. 1 \in Rung(c) /\ PackAt(c, 1) = k
  BY <1>1 DEF Rung, PackAt
<1>6. /\ calls[c] \in Seq(Kinds \X (0 .. MaxSend)) /\ calls'[c] = Append(calls[c], x)
      /\ ring'[u] = Tail(ring[u])
  BY <1>1 DEF PacksOK
<1>7. ASSUME NEW m \in Called(c)'
      PROVE  /\ m \in Nat
             /\ \/ /\ m \in Called(c)
                   /\ calls'[c][m] = calls[c][m]
                   /\ CallAt(c, m)' = CallAt(c, m)
                   /\ m < L
                \/ /\ m = L
                   /\ calls'[c][m] = x
                   /\ CallAt(c, m)' = Key(k)
  <2>1. m \in 1 .. L /\ Len(calls[c]) \in Nat /\ m \in DOMAIN calls'[c]
    BY <1>6 DEF Called
  <2>2. CASE m = L
    <3>1. x \in Kinds \X (0 .. MaxSend)
      <4>1. CASE k = 0
        BY <1>3, <4>1 DEF x, Kinds
      <4>2. CASE k # 0
        BY <1>1, <4>2 DEF x, Kinds
      <4> QED BY <4>1, <4>2
    <3>2. calls'[c][L] = x
      <4> DEFINE T == Kinds \X (0 .. MaxSend)
      <4>1. calls[c] \in Seq(T) /\ x \in T
        BY <1>6, <3>1
      <4> HIDE DEF T
      <4>2. Append(calls[c], x)[Len(calls[c]) + 1] = x
        BY <4>1
      <4> QED BY <1>6, <4>2
    <3>3. CallAt(c, m)' = CallKey(x)
      BY <2>2, <3>2 DEF CallAt, CallKey
    <3> HIDE DEF L
    <3> QED BY <1>4, <2>1, <2>2, <3>2, <3>3
  <2>3. CASE m < L
    <3>1. m \in DOMAIN calls[c] /\ calls'[c][m] = calls[c][m]
      BY <1>6, <2>1, <2>3
    <3>2. calls'[c][m][1] # "EB_CONNECT"
      BY DEF Called
    <3> QED BY <2>1, <2>3, <3>1, <3>2 DEF Called, CallAt
  <2>4. m \in Nat /\ (m = L \/ m < L)
    BY <2>1
  <2> HIDE DEF L
  <2> QED BY <2>2, <2>3, <2>4
<1>8. ASSUME NEW n \in Rung(c)'
      PROVE  /\ n \in Nat /\ n + 1 \in Rung(c) /\ PackAt(c, n)' = PackAt(c, n + 1) /\ 1 < n + 1
  <2>1. n \in DOMAIN Tail(ring[u])
    BY <1>1, <1>6 DEF Rung
  <2>2. n \in 1 .. Len(ring[u]) - 1 /\ n + 1 \in DOMAIN ring[u] /\ Tail(ring[u])[n] = ring[u][n + 1]
        /\ Len(ring[u]) \in Nat
    BY <1>1, <2>1, TailFacts
  <2>3. /\ ring'[WorkerOf(c)][n] = ring[WorkerOf(c)][n + 1]
        /\ n + 1 \in DOMAIN ring[WorkerOf(c)]
    BY <1>1, <1>6, <2>2
  <2>4. ring'[WorkerOf(c)][n][1] = c
    BY DEF Rung
  <2>5. n \in Nat /\ 1 < n + 1
    BY <2>2
  <2> QED BY <2>3, <2>4, <2>5 DEF Rung, PackAt
<1> HIDE DEF L
<1>9. KeysGrow(c)'
  <2>1. ASSUME NEW m \in Called(c)', NEW n \in Called(c)', m < n
        PROVE  CallAt(c, m)' < CallAt(c, n)'
    <3>1. m \in Called(c) /\ CallAt(c, m)' = CallAt(c, m) /\ m < L
      <4>1. L \in Int
        BY <1>6 DEF L
      <4> QED BY <1>7, <2>1, <4>1
    <3>2. CASE n \in Called(c) /\ CallAt(c, n)' = CallAt(c, n)
      BY <1>3, <2>1, <3>1, <3>2 DEF KeysGrow
    <3>3. CASE CallAt(c, n)' = Key(k)
      BY <1>3, <1>5, <3>1, <3>3 DEF KeysGrow
    <3> QED BY <1>7, <3>2, <3>3
  <2>2. ASSUME NEW m \in Called(c)', NEW n \in Rung(c)'
        PROVE  CallAt(c, m)' < Key(PackAt(c, n)')
    <3>1. n + 1 \in Rung(c) /\ PackAt(c, n)' = PackAt(c, n + 1) /\ 1 < n + 1
      BY <1>8
    <3>2. CASE m \in Called(c) /\ CallAt(c, m)' = CallAt(c, m)
      <4>1. CallAt(c, m) < Key(PackAt(c, n + 1))
        BY <1>3, <3>1, <3>2 DEF KeysGrow
      <4> QED BY <3>1, <3>2, <4>1
    <3>3. CASE CallAt(c, m)' = Key(k)
      <4>1. Key(PackAt(c, 1)) < Key(PackAt(c, n + 1))
        BY <1>3, <1>5, <3>1 DEF KeysGrow
      <4> QED BY <1>5, <3>1, <3>3, <4>1
    <3> QED BY <1>7, <3>2, <3>3
  <2>3. ASSUME NEW m \in Rung(c)', NEW n \in Rung(c)', m < n
        PROVE  Key(PackAt(c, m)') < Key(PackAt(c, n)')
    <3>1. m + 1 \in Rung(c) /\ n + 1 \in Rung(c) /\ m + 1 < n + 1
      BY <1>8, <2>3
    <3>2. Key(PackAt(c, m + 1)) < Key(PackAt(c, n + 1))
      BY <1>3, <3>1 DEF KeysGrow
    <3> QED BY <1>8, <3>2
  <2>4. ASSUME InHand(c), NEW m \in Called(c)'
        PROVE  CallAt(c, m)' < Key(HandPack(c))
    BY <1>3, <1>5, <1>7, <2>4 DEF KeysGrow
  <2>5. ASSUME InHand(c), NEW n \in Rung(c)'
        PROVE  Key(PackAt(c, n)') < Key(HandPack(c))
    <3>1. n + 1 \in Rung(c) /\ PackAt(c, n)' = PackAt(c, n + 1)
      BY <1>8
    <3>2. Key(PackAt(c, n + 1)) < Key(HandPack(c))
      BY <1>3, <2>5, <3>1 DEF KeysGrow
    <3> QED BY <3>1, <3>2
  <2> QED BY <1>2, <2>1, <2>2, <2>3, <2>4, <2>5 DEF KeysGrow, Key
<1>10. ChunksTaken(c)'
  <2>1. ASSUME NEW m \in Called(c)', calls'[c][m][1] = "EB_RECV"
        PROVE  calls'[c][m][2] <= Taken(c)
    <3>1. CASE m \in Called(c) /\ calls'[c][m] = calls[c][m]
      BY <1>3, <2>1, <3>1 DEF ChunksTaken
    <3>2. CASE calls'[c][m] = x
      BY <1>3, <1>4, <1>5, <2>1, <3>2 DEF ChunksTaken
    <3> QED BY <1>7, <3>1, <3>2
  <2>2. ASSUME NEW n \in Rung(c)'
        PROVE  PackAt(c, n)' <= Taken(c)
    <3>1. n + 1 \in Rung(c) /\ PackAt(c, n)' = PackAt(c, n + 1)
      BY <1>8
    <3>2. PackAt(c, n + 1) <= Taken(c)
      BY <1>3, <3>1 DEF ChunksTaken
    <3> QED BY <3>1, <3>2
  <2> QED BY <1>2, <1>3, <2>1, <2>2 DEF ChunksTaken
<1>11. CloseSeen(c)' => CloseSeen(c)
  <2> SUFFICES ASSUME CloseSeen(c)' PROVE CloseSeen(c)
    OBVIOUS
  <2>1. CASE \E m \in Called(c)' : calls'[c][m][1] = "EB_CLOSE"
    <3>1. PICK m \in Called(c)' : calls'[c][m][1] = "EB_CLOSE"
      BY <2>1
    <3>2. CASE m \in Called(c) /\ calls'[c][m] = calls[c][m]
      BY <3>1, <3>2 DEF CloseSeen
    <3>3. CASE calls'[c][m] = x
      BY <1>4, <1>5, <3>1, <3>3 DEF CloseSeen
    <3> QED BY <1>7, <3>2, <3>3
  <2>2. CASE \E n \in Rung(c)' : PackAt(c, n)' = 0
    <3>1. PICK n \in Rung(c)' : PackAt(c, n)' = 0
      BY <2>2
    <3>2. n + 1 \in Rung(c) /\ PackAt(c, n + 1) = 0
      BY <1>8, <3>1
    <3> QED BY <3>2 DEF CloseSeen
  <2>3. CASE InHand(c)' /\ HandPack(c)' = 0
    BY <1>2, <2>3 DEF CloseSeen
  <2> QED BY <2>1, <2>2, <2>3 DEF CloseSeen
<1> QED BY <1>3, <1>9, <1>10, <1>11 DEF OrderOK

LEMMA ClosePacksStep ==
  ASSUME MaxFails = 0, AllInv, ClosePacks, [Next]_vars
  PROVE  ClosePacks'
<1>0. ThreadsOK
  BY Parts
<1>1. CASE UNCHANGED <<rpc, pack>>
  BY <1>1 DEF ClosePacks
<1>2. CASE \/ UNCHANGED vars \/ ClientConnect \/ MasterThread
           \/ \E c \in Conns : ClientSend(c) \/ ClientClose(c)
           \/ \E u \in Units : Work(u)
  BY <1>1, <1>2 DEF vars, ClientConnect, ClientSend, ClientClose, Arrives, Work, MasterThread,
     MasterStart, MasterLoop, AcceptRefuse, AcceptAdmit, AcceptConnect, react
<1>3. ASSUME NEW r \in Reactors, ReactorThread(r) PROVE ClosePacks'
  <2>1. Moves(r) /\ \A q \in Reactors : q # r => rpc'[q] = rpc[q]
    BY <1>0, <1>3, ReactorMoves, ReactorFrame
  <2>2. ReadClosed(r) => pack'[r] = 0
    BY <1>0 DEF ReadClosed, ReadOther, ThreadsOK
  <2>3. ReadChunk(r) => rpc'[r] = "push"
    BY <1>0 DEF ReadChunk, Goto, ThreadsOK
  <2> QED BY <2>1, <2>2, <2>3 DEF Moves, ClosePacks
<1> QED BY <1>2, <1>3 DEF Next

LEMMA OrderStep ==
  ASSUME MaxFails = 0, AllInv, PacksOK, OrderInv, [Next]_vars
  PROVE  OrderInv'
<1>1. AllInv' /\ PacksOK' /\ ClosePacks'
  BY NextAll, PacksStep, ClosePacksStep DEF OrderInv
<1>2. ASSUME NEW c \in Conns PROVE OrderOK(c)'
  <2>1. OrderOK(c) /\ (NoMoreReads(c) => NoMoreReads(c)')
    BY NoMoreReadsKept DEF OrderInv
  <2>2. CASE ~Handled(c)
    <3>1. OrderQuiet(c)
      BY <2>2, OtherQuiet
    <3> QED BY <1>1, <2>1, <3>1, OrderKept
  <2>3. ASSUME NEW r \in Reactors, cfd[r] = c, ReadChunk(r) \/ ReadClosed(r)
        PROVE  OrderOK(c)'
    BY <1>1, <2>1, <2>3, TakeOrder
  <2>4. ASSUME NEW r \in Reactors, cfd[r] = c, PushPack(r) PROVE OrderOK(c)'
    BY <1>1, <2>1, <2>4, PushOrder
  <2>5. ASSUME NEW u \in Units, Head(ring[u])[1] = c, Work(u) PROVE OrderOK(c)'
    BY <1>1, <2>1, <2>5, WorkOrder
  <2> QED BY <2>2, <2>3, <2>4, <2>5 DEF Handled
<1> QED BY <1>1, <1>2 DEF OrderInv

LEMMA OrderInvariant ==
  ASSUME MaxFails = 0
  PROVE  Spec => []OrderInv
<1>1. Init => OrderInv
  <2> SUFFICES ASSUME Init PROVE OrderInv
    OBVIOUS
  <2>1. ASSUME NEW c \in Conns PROVE OrderOK(c)
    <3>1. /\ WorkerOf(c) \in Units /\ ReactorOf(c) \in Reactors
          /\ calls[c] = <<>> /\ ring[WorkerOf(c)] = <<>> /\ rpc[ReactorOf(c)] = "start"
      BY ConnOf DEF Init
    <3>2. Called(c) = {} /\ Rung(c) = {} /\ ~InHand(c)
      BY <3>1 DEF Called, Rung, InHand
    <3> QED BY <3>2 DEF OrderOK, KeysGrow, ChunksTaken, CloseSeen
  <2>2. ClosePacks
    BY DEF Init, ClosePacks
  <2> QED BY <2>1, <2>2 DEF OrderInv
<1>2. AllInv /\ PacksOK /\ OrderInv /\ [Next]_vars => OrderInv'
  BY OrderStep
<1> QED BY <1>1, <1>2, ServerInvariant, PacksInvariant, PTL DEF Spec

\* While recv never finds nothing on a descriptor that epoll reported, the callbacks of a
\* connection run in the order of its chunks, none twice and none after EB_CLOSE: for any
\* number of reactors, workers and connections, and whatever rings and pipes drop.
THEOREM CallbacksInOrder ==
  ASSUME MaxFails = 0
  PROVE  Spec => []CallbackOrder
<1>1. AllInv /\ PacksOK /\ OrderInv => CallbackOrder
  <2> SUFFICES ASSUME AllInv, PacksOK, OrderInv,
                      NEW c \in Conns, NEW m \in DOMAIN calls[c], NEW n \in DOMAIN calls[c],
                      m < n, calls[c][m][1] # "EB_CONNECT", calls[c][n][1] # "EB_CONNECT"
               PROVE  /\ calls[c][m][1] = "EB_RECV"
                      /\ calls[c][n][1] = "EB_RECV" => calls[c][m][2] < calls[c][n][2]
    BY DEF CallbackOrder
  <2>1. m \in Called(c) /\ n \in Called(c)
    BY DEF Called
  <2>2. CallAt(c, m) < CallAt(c, n)
    BY <2>1 DEF OrderInv, OrderOK, KeysGrow
  <2>3. /\ calls[c][m][2] \in 0 .. MaxSend /\ calls[c][n][2] \in 0 .. MaxSend /\ MaxSend \in Nat
        /\ calls[c][m][1] \in {"EB_RECV", "EB_CLOSE"} /\ calls[c][n][1] \in {"EB_RECV", "EB_CLOSE"}
    BY <2>1, OrderTypes, Sizes
  <2>4. /\ CallAt(c, m) = IF calls[c][m][1] = "EB_CLOSE" THEN MaxSend + 1 ELSE calls[c][m][2]
        /\ CallAt(c, n) = IF calls[c][n][1] = "EB_CLOSE" THEN MaxSend + 1 ELSE calls[c][n][2]
    BY DEF CallAt, CallKey
  <2>5. CallAt(c, n) <= MaxSend + 1
    BY <2>3, <2>4
  <2>6. calls[c][m][1] = "EB_RECV"
    BY <2>2, <2>3, <2>4, <2>5
  <2> QED BY <2>2, <2>4, <2>6
<1> QED BY <1>1, ServerInvariant, PacksInvariant, OrderInvariant, PTL

\* Under the same condition EB_CLOSE runs only for a connection whose peer has closed it.
THEOREM ClosesAreTrue ==
  ASSUME MaxFails = 0
  PROVE  Spec => []CloseOnlyWhenClosed
<1>1. AllInv /\ PacksOK /\ OrderInv => CloseOnlyWhenClosed
  <2> SUFFICES ASSUME AllInv, PacksOK, OrderInv, NEW c \in Conns,
                      Contains(calls[c], <<"EB_CLOSE", 0>>)
               PROVE  conn[c] = "fin"
    BY DEF CloseOnlyWhenClosed
  <2>1. PICK m \in 1 .. Len(calls[c]) : calls[c][m] = <<"EB_CLOSE", 0>>
    BY DEF Contains
  <2>2. calls[c] \in Seq(Kinds \X (0 .. MaxSend))
    BY OrderTypes
  <2>3. m \in Called(c) /\ calls[c][m][1] = "EB_CLOSE"
    BY <2>1, <2>2 DEF Called
  <2>4. CloseSeen(c)
    BY <2>3 DEF CloseSeen
  <2> QED BY <2>4 DEF OrderInv, OrderOK, NoMoreReads
<1> QED BY <1>1, ServerInvariant, PacksInvariant, OrderInvariant, PTL
=============================================================================
