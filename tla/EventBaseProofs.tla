-------------------------- MODULE EventBaseProofs --------------------------
(***************************************************************************)
(* Proofs about the event base, for any number of bases, descriptors and   *)
(* event structures: the kernel watches exactly what events wait for, the  *)
(* tables lead to the right event, and no event is queued twice.           *)
(***************************************************************************)
EXTENDS EventBase, FiniteSetTheorems, SequenceTheorems, TLAPS

\* The types of the tables and of the fields of events, which the argument needs.
TablesOK ==
  /\ fd \in [Events -> Handles] /\ kide \in [Events -> {E_READ, E_WRITE}]
  /\ read_waits \in [Handles -> Events \cup {NULL}]
  /\ write_waits \in [Handles -> Events \cup {NULL}]
  /\ interest \in [Handles -> SUBSET {"EPOLLIN", "EPOLLOUT", "EPOLLET"}]

\* InterestMatchesWaits is not inductive alone: to delete an event ebot_del_event goes
\* by its fd and kide, which must be those it was registered with.
TablesInv == TablesOK /\ InterestMatchesWaits /\ WaitsAreTheirs

\* The tables of a new base are empty, and so is the kernel's interest list.
LEMMA InitTables == Init => TablesInv
<1> SUFFICES ASSUME Init PROVE TablesInv
  OBVIOUS
<1>1. (CHOOSE h \in Handles : TRUE) \in Handles
  BY EventBaseAssumption
<1> QED BY <1>1 DEF Init, TablesInv, TablesOK, InterestMatchesWaits, WaitsAreTheirs

\* Registering an event keeps tables and interest in step, whether epoll_ctl works or not.
LEMMA AddTables ==
  ASSUME TablesInv, NEW e \in Events, NEW h \in Handles, NEW k \in {E_READ, E_WRITE},
         Add(e, h, k)
  PROVE  TablesInv'
<1> USE EventBaseAssumption
<1>1. /\ \A g \in Handles : read_waits[g] # e /\ write_waits[g] # e
      /\ (IF k = E_READ THEN read_waits ELSE write_waits)[h] = NULL
      /\ event_set(e, h, k)
      /\ NULL \notin Events /\ E_READ # E_WRITE
  BY DEF Add, Waiting, E_READ, E_WRITE
<1>2. PICK ok \in BOOLEAN : ebot_add_event(e, h, k, ok)
  BY DEF Add
<1>3. /\ fd' \in [Events -> Handles] /\ kide' \in [Events -> {E_READ, E_WRITE}]
      /\ fd'[e] = h /\ kide'[e] = k
      /\ \A d \in Events : d # e => fd'[d] = fd[d] /\ kide'[d] = kide[d]
  BY <1>1 DEF event_set, TablesInv, TablesOK
<1>4. CASE AddWorks(h, ok)
  <2>1. /\ interest' = [interest EXCEPT ![h] = AddFlags(h, k)]
        /\ read_waits' = IF k = E_READ /\ read_waits[h] = NULL
                           THEN [read_waits EXCEPT ![h] = e] ELSE read_waits
        /\ write_waits' = IF k = E_WRITE /\ write_waits[h] = NULL
                            THEN [write_waits EXCEPT ![h] = e] ELSE write_waits
    BY <1>2, <1>4 DEF ebot_add_event
  <2>2. TablesOK'
    BY <1>3, <2>1 DEF TablesInv, TablesOK, AddFlags
  <2>3. InterestMatchesWaits'
    BY <1>1, <2>1 DEF TablesInv, TablesOK, InterestMatchesWaits, AddFlags, E_READ, E_WRITE
  <2>4. WaitsAreTheirs'
    BY <1>1, <1>3, <2>1 DEF TablesInv, TablesOK, WaitsAreTheirs
  <2> QED BY <2>2, <2>3, <2>4 DEF TablesInv
<1>5. CASE ~AddWorks(h, ok)
  <2>1. UNCHANGED <<interest, read_waits, write_waits>>
    BY <1>2, <1>5 DEF ebot_add_event
  <2> QED BY <1>1, <1>3, <2>1
          DEF TablesInv, TablesOK, InterestMatchesWaits, WaitsAreTheirs
<1> QED BY <1>4, <1>5

\* Deleting one of the two events of a descriptor leaves the other one watched.
LEMMA DelTables ==
  ASSUME TablesInv, NEW e \in Events, Del(e)
  PROVE  TablesInv'
<1> USE EventBaseAssumption
<1> DEFINE h == fd[e]
<1>1. /\ h \in Handles /\ NULL \notin Events /\ E_READ # E_WRITE
      /\ kide[e] \in {E_READ, E_WRITE}
  BY DEF TablesInv, TablesOK, E_READ, E_WRITE
<1>2. /\ kide[e] = E_READ => read_waits[h] = e
      /\ kide[e] = E_WRITE => write_waits[h] = e
  BY <1>1 DEF Del, Waiting, TablesInv, WaitsAreTheirs
<1>3. fd' = fd /\ kide' = kide
  BY DEF Del, events
<1>4. CASE kide[e] = E_READ /\ write_waits[h] # NULL
  <2>1. /\ interest' = [interest EXCEPT ![h] = {"EPOLLOUT"}]
        /\ read_waits' = [read_waits EXCEPT ![h] = NULL] /\ write_waits' = write_waits
    BY <1>1, <1>4 DEF Del, ebot_del_event
  <2> QED BY <1>1, <1>3, <1>4, <2>1
          DEF TablesInv, TablesOK, InterestMatchesWaits, WaitsAreTheirs
<1>5. CASE kide[e] = E_WRITE /\ read_waits[h] # NULL
  <2>1. /\ interest' = [interest EXCEPT ![h] = {"EPOLLIN", "EPOLLET"}]
        /\ read_waits' = read_waits /\ write_waits' = [write_waits EXCEPT ![h] = NULL]
    BY <1>1, <1>5 DEF Del, ebot_del_event
  <2> QED BY <1>1, <1>3, <1>5, <2>1
          DEF TablesInv, TablesOK, InterestMatchesWaits, WaitsAreTheirs
<1>6. CASE /\ ~(kide[e] = E_READ /\ write_waits[h] # NULL)
           /\ ~(kide[e] = E_WRITE /\ read_waits[h] # NULL)
  <2>1. /\ interest' = [interest EXCEPT ![h] = {}]
        /\ read_waits' = [read_waits EXCEPT ![h] = NULL]
        /\ write_waits' = [write_waits EXCEPT ![h] = NULL]
    BY <1>1, <1>6 DEF Del, ebot_del_event
  <2> QED BY <1>1, <1>3, <2>1
          DEF TablesInv, TablesOK, InterestMatchesWaits, WaitsAreTheirs
<1> QED BY <1>4, <1>5, <1>6

\* Nothing else touches the tables.
LEMMA NextTables == TablesInv /\ [Next]_vars => TablesInv'
<1> SUFFICES ASSUME TablesInv, [Next]_vars PROVE TablesInv'
  OBVIOUS
<1>1. ASSUME NEW e \in Events, NEW h \in Handles, NEW k \in {E_READ, E_WRITE},
             Add(e, h, k)
      PROVE  TablesInv'
  BY <1>1, AddTables
<1>2. ASSUME NEW e \in Events, Del(e) PROVE TablesInv'
  BY <1>2, DelTables
<1>3. ASSUME fd' = fd, kide' = kide, tables' = tables PROVE TablesInv'
  BY <1>3 DEF tables, TablesInv, TablesOK, InterestMatchesWaits, WaitsAreTheirs
<1>4. ASSUME NEW b \in Bases, Loop(b) \/ Dispatch(b) PROVE TablesInv'
  BY <1>3, <1>4 DEF Loop, ebot_loop, Dispatch, dispatch_events
<1>5. ASSUME NEW h \in Handles, NEW f \in {"EPOLLIN", "EPOLLOUT"},
             Arrive(h, f) \/ Consume(h, f)
      PROVE  TablesInv'
  BY <1>3, <1>5 DEF Arrive, Consume, events
<1>6. CASE UNCHANGED vars
  BY <1>3, <1>6 DEF vars, events
<1> QED BY <1>1, <1>2, <1>4, <1>5, <1>6 DEF Next
-----------------------------------------------------------------------------
\* Whatever the order of additions, failed additions, deletions and reports, epoll
\* watches a descriptor for exactly what an event in the base's tables waits for.
THEOREM InterestAlwaysMatches == Spec => []InterestMatchesWaits
<1>1. TablesInv => InterestMatchesWaits
  BY DEF TablesInv
<1> QED BY <1>1, InitTables, NextTables, PTL DEF Spec

\* The event that ebot_loop finds in read_waits[fd] or write_waits[fd] is always one
\* made for that descriptor and that direction.
THEOREM WaitsAlwaysTheirs == Spec => []WaitsAreTheirs
<1>1. TablesInv => WaitsAreTheirs
  BY DEF TablesInv
<1> QED BY <1>1, InitTables, NextTables, PTL DEF Spec
-----------------------------------------------------------------------------
(* The queues of ready events. *)

\* The types of the queues and of what is reported.
QueuesOK ==
  /\ queued \in [Events -> Bases \cup {NULL}]
  /\ readies \in [Bases -> Seq(Events)]
  /\ edge \subseteq Handles
  /\ level \in [Handles -> SUBSET {"EPOLLIN", "EPOLLOUT"}]

QueuesInv == QueuesOK /\ QueuedOnce

\* The sequences a set of events can be queued in.
LEMMA QueueOrders ==
  ASSUME NEW S \in SUBSET Events, NEW ready \in SetToSeqs(S)
  PROVE  /\ ready \in Seq(Events) /\ DOMAIN ready = 1 .. Len(ready)
         /\ \A m, n \in DOMAIN ready : ready[m] = ready[n] => m = n
         /\ \A e \in Events : Contains(ready, e) => e \in S
<1>1. Cardinality(S) \in Nat
  BY EventBaseAssumption, FS_Subset, FS_CardinalityType
<1>2. /\ ready \in [1 .. Cardinality(S) -> S]
      /\ \A i, j \in 1 .. Cardinality(S) : i # j => ready[i] # ready[j]
  BY DEF SetToSeqs
<1>3. /\ ready \in [1 .. Cardinality(S) -> Events]
      /\ Len(ready) = Cardinality(S) /\ DOMAIN ready = 1 .. Len(ready)
  BY <1>1, <1>2
<1>4. ready \in Seq(Events)
  BY <1>1, <1>3
<1> QED BY <1>2, <1>3, <1>4 DEF Contains

LEMMA InitQueues == Init => QueuesInv
  BY EventBaseAssumption DEF Init, QueuesInv, QueuesOK, QueuedOnce, Contains

\* Only events that no queue holds are queued, each once.
LEMMA LoopQueues ==
  ASSUME QueuesInv, NEW b \in Bases, Loop(b)
  PROVE  QueuesInv'
<1> DEFINE S == UNION {ReadyEvents(h) : h \in Reported(b)}
<1>1. PICK ready \in SetToSeqs(S) :
        /\ readies' = [readies EXCEPT ![b] = ready]
        /\ queued' = [e \in Events |-> IF Contains(ready, e) THEN b ELSE queued[e]]
  BY DEF Loop, ebot_loop
<1>2. S \in SUBSET Events /\ \A e \in S : queued[e] = NULL
  BY DEF ReadyEvents
<1> HIDE DEF S
<1>3. /\ ready \in Seq(Events) /\ DOMAIN ready = 1 .. Len(ready)
      /\ \A m, n \in DOMAIN ready : ready[m] = ready[n] => m = n
      /\ \A e \in Events : Contains(ready, e) => queued[e] = NULL
  BY <1>2, QueueOrders
<1>4. readies[b] = <<>> /\ level' = level /\ edge' \subseteq edge
  BY DEF Loop, ebot_loop
<1>5. QueuesOK'
  BY <1>1, <1>3, <1>4 DEF QueuesInv, QueuesOK
<1>6. ASSUME NEW c \in Bases
      PROVE  /\ \A m, n \in DOMAIN readies'[c] : readies'[c][m] = readies'[c][n] => m = n
             /\ \A e \in Events : queued'[e] = c <=> Contains(readies'[c], e)
  <2>1. CASE c = b
    <3>1. readies'[c] = ready
      BY <1>1, <2>1 DEF QueuesInv, QueuesOK
    <3>2. \A e \in Events : queued[e] # b
      <4>1. \A e \in Events : ~Contains(readies[b], e)
        BY <1>4 DEF Contains
      <4> QED BY <4>1 DEF QueuesInv, QueuedOnce
    <3> QED BY <1>1, <1>3, <2>1, <3>1, <3>2
  <2>2. CASE c # b
    <3>1. readies'[c] = readies[c]
      BY <1>1, <2>2 DEF QueuesInv, QueuesOK
    <3>2. \A e \in Events : queued'[e] = c <=> queued[e] = c
      BY <1>1, <1>3, <2>2, EventBaseAssumption
    <3> QED BY <3>1, <3>2 DEF QueuesInv, QueuedOnce
  <2> QED BY <2>1, <2>2
<1> QED BY <1>5, <1>6 DEF QueuesInv, QueuedOnce

\* What leaves a queue is marked as out of it, and nothing else is.
LEMMA DispatchQueues ==
  ASSUME QueuesInv, NEW b \in Bases, Dispatch(b)
  PROVE  QueuesInv'
<1> DEFINE s == readies[b]
           e == Head(s)
<1>1. /\ s \in Seq(Events) /\ s # <<>>
      /\ \A m, n \in DOMAIN s : s[m] = s[n] => m = n
      /\ \A d \in Events : queued[d] = b <=> Contains(s, d)
  BY DEF QueuesInv, QueuesOK, QueuedOnce, Dispatch, dispatch_events
<1>2. /\ e \in Events /\ Tail(s) \in Seq(Events) /\ e = s[1]
      /\ Len(s) \in Nat /\ Len(s) >= 1 /\ DOMAIN s = 1 .. Len(s)
      /\ Len(Tail(s)) = Len(s) - 1
      /\ \A i \in 1 .. Len(s) - 1 : Tail(s)[i] = s[i + 1]
  <2>1. Len(s) \in Nat /\ DOMAIN s = 1 .. Len(s) /\ Len(s) >= 1
    BY <1>1
  <2> QED BY <1>1, <2>1, HeadTailProperties
<1>3. /\ readies' = [readies EXCEPT ![b] = Tail(s)]
      /\ queued' = [queued EXCEPT ![e] = NULL]
      /\ UNCHANGED <<edge, level>>
  BY DEF Dispatch, dispatch_events
<1>4. /\ \A m, n \in DOMAIN Tail(s) : Tail(s)[m] = Tail(s)[n] => m = n
      /\ \A d \in Events : Contains(Tail(s), d) <=> Contains(s, d) /\ d # e
  <2> HIDE DEF s, e
  <2>1. DOMAIN Tail(s) = 1 .. Len(s) - 1
    BY <1>2
  <2>2. \A m \in 1 .. Len(s) - 1 : m + 1 \in DOMAIN s /\ m + 1 # 1
    BY <1>2
  <2>3. \A m, n \in DOMAIN Tail(s) : Tail(s)[m] = Tail(s)[n] => m = n
    <3> SUFFICES ASSUME NEW m \in 1 .. Len(s) - 1, NEW n \in 1 .. Len(s) - 1,
                        Tail(s)[m] = Tail(s)[n]
                 PROVE  m = n
      BY <2>1
    <3>1. m + 1 = n + 1
      BY <1>1, <1>2, <2>2
    <3> QED BY <3>1
  <2>4. ASSUME NEW d \in Events
        PROVE  Contains(Tail(s), d) <=> Contains(s, d) /\ d # e
    <3>1. ASSUME Contains(Tail(s), d)
          PROVE  Contains(s, d) /\ d # e
      <4>1. PICK m \in 1 .. Len(s) - 1 : Tail(s)[m] = d
        BY <1>2, <3>1 DEF Contains
      <4>2. s[m + 1] = d /\ m + 1 \in 1 .. Len(s) /\ m + 1 # 1 /\ 1 \in DOMAIN s
        BY <1>2, <2>2, <4>1
      <4> QED BY <1>1, <1>2, <4>2 DEF Contains
    <3>2. ASSUME Contains(s, d), d # e
          PROVE  Contains(Tail(s), d)
      <4>1. PICK m \in 1 .. Len(s) : s[m] = d
        BY <3>2 DEF Contains
      <4>2. m - 1 \in 1 .. Len(s) - 1 /\ (m - 1) + 1 = m
        BY <1>2, <3>2, <4>1
      <4>3. Tail(s)[m - 1] = d
        BY <1>2, <4>1, <4>2
      <4> QED BY <1>2, <4>2, <4>3 DEF Contains
    <3> QED BY <3>1, <3>2
  <2> QED BY <2>3, <2>4
<1>5. QueuesOK'
  BY <1>2, <1>3 DEF QueuesInv, QueuesOK
<1>6. ASSUME NEW c \in Bases
      PROVE  /\ \A m, n \in DOMAIN readies'[c] : readies'[c][m] = readies'[c][n] => m = n
             /\ \A d \in Events : queued'[d] = c <=> Contains(readies'[c], d)
  <2>0. /\ \A d \in Events : queued'[d] = IF d = e THEN NULL ELSE queued[d]
        /\ readies'[c] = IF c = b THEN Tail(s) ELSE readies[c]
        /\ queued[e] = b
    <3>1. Contains(s, e)
      BY <1>2 DEF Contains
    <3> HIDE DEF s, e
    <3> QED BY <1>1, <1>2, <1>3, <3>1 DEF QueuesInv, QueuesOK
  <2>1. CASE c = b
    <3> HIDE DEF s, e
    <3> QED BY <1>1, <1>4, <2>0, <2>1, EventBaseAssumption
  <2>2. CASE c # b
    <3>1. \A d \in Events : queued'[d] = c <=> queued[d] = c
      <4> HIDE DEF s, e
      <4> QED BY <2>0, <2>2, EventBaseAssumption
    <3> QED BY <2>0, <2>2, <3>1 DEF QueuesInv, QueuedOnce
  <2> QED BY <2>1, <2>2
<1> QED BY <1>5, <1>6 DEF QueuesInv, QueuedOnce

LEMMA NextQueues == TablesInv /\ QueuesInv /\ [Next]_vars => QueuesInv'
<1> SUFFICES ASSUME TablesInv, QueuesInv, [Next]_vars PROVE QueuesInv'
  OBVIOUS
<1>1. ASSUME NEW e \in Events, NEW h \in Handles, NEW k \in {E_READ, E_WRITE},
             Add(e, h, k)
      PROVE  QueuesInv'
  <2>1. queued' = queued /\ readies' = readies /\ level' = level /\ edge' \subseteq Handles
    BY <1>1 DEF Add, event_set, ebot_add_event, QueuesInv, QueuesOK
  <2> QED BY <2>1 DEF QueuesInv, QueuesOK, QueuedOnce
<1>2. ASSUME NEW e \in Events, Del(e) PROVE QueuesInv'
  <2>1. fd[e] \in Handles
    BY DEF TablesInv, TablesOK
  <2>2. queued' = queued /\ readies' = readies /\ level' = level /\ edge' \subseteq Handles
    BY <1>2, <2>1 DEF Del, events, ebot_del_event, QueuesInv, QueuesOK
  <2> QED BY <2>2 DEF QueuesInv, QueuesOK, QueuedOnce
<1>3. ASSUME NEW b \in Bases, Loop(b) PROVE QueuesInv'
  BY <1>3, LoopQueues
<1>4. ASSUME NEW b \in Bases, Dispatch(b) PROVE QueuesInv'
  BY <1>4, DispatchQueues
<1>5. ASSUME NEW h \in Handles, NEW f \in {"EPOLLIN", "EPOLLOUT"},
             Arrive(h, f) \/ Consume(h, f)
      PROVE  QueuesInv'
  <2>1. queued' = queued /\ readies' = readies /\ edge' \subseteq Handles
    BY <1>5 DEF Arrive, Consume, events, QueuesInv, QueuesOK
  <2>2. level' \in [Handles -> SUBSET {"EPOLLIN", "EPOLLOUT"}]
    BY <1>5 DEF Arrive, Consume, QueuesInv, QueuesOK
  <2> QED BY <2>1, <2>2 DEF QueuesInv, QueuesOK, QueuedOnce
<1>6. CASE UNCHANGED vars
  BY <1>6 DEF vars, events, QueuesInv, QueuesOK, QueuedOnce
<1> QED BY <1>1, <1>2, <1>3, <1>4, <1>5, <1>6 DEF Next

\* An event is linked in a ready queue exactly when its queued flag says so, and in one
\* place: queued_event_readies never links it twice.
THEOREM NeverQueuedTwice == Spec => []QueuedOnce
<1>1. QueuesInv => QueuedOnce
  BY DEF QueuesInv
<1> QED BY <1>1, InitTables, NextTables, InitQueues, NextQueues, PTL DEF Spec

\* Type correctness of EventBase.
THEOREM EventBaseTypeOK == Spec => []TypeOK
<1>1. TablesInv /\ QueuesInv => TypeOK
  BY DEF TablesInv, TablesOK, QueuesInv, QueuesOK, TypeOK
<1> QED BY <1>1, InitTables, NextTables, InitQueues, NextQueues, PTL DEF Spec
=============================================================================
