----------------------------- MODULE EventBase -----------------------------
(***************************************************************************)
(* The event base of ebot.c (struct ebot_base): which event waits for      *)
(* which descriptor, what epoll was told about it, and the queue of ready  *)
(* events that ebot_loop fills and dispatch_events drains.                 *)
(*                                                                         *)
(* A descriptor belongs to one base, BaseOf[h], so the per-base tables are *)
(* indexed by descriptor alone.  The kernel's side of epoll is modelled    *)
(* from how the code uses it: a level-triggered descriptor is reported     *)
(* whenever it is ready, an edge-triggered one only once for each arrival  *)
(* or epoll_ctl call.  Descriptors are below EP_SIZE, so that the tables   *)
(* are never resized, and one epoll_wait reports all that are ready.       *)
(***************************************************************************)
EXTENDS Naturals, Sequences, FiniteSets, SequencesExt

CONSTANTS Bases, Handles, BaseOf,  \* event bases, descriptors, and whose they are
          Events, NULL             \* event structures, and the null pointer

ASSUME EventBaseAssumption ==
  /\ Handles # {} /\ BaseOf \in [Handles -> Bases]
  /\ IsFiniteSet(Events) /\ NULL \notin Events \cup Bases

VARIABLES
  fd, kide,                 \* fields of each event
  queued,                   \* e->queued and e's queue links: the base in whose ready
                            \* queue e is linked, or NULL when the field is 0
  read_waits, write_waits,  \* the event waiting to read or write each descriptor
  readies,                  \* event_readies of each base
  interest,                 \* kernel: the epoll flags of each descriptor, {} if none
  edge,                     \* kernel: descriptors with an unreported arrival
  level                     \* kernel: what each descriptor is ready for

events == <<fd, kide, queued>>
tables == <<read_waits, write_waits, interest>>
vars   == <<events, tables, readies, edge, level>>

E_READ  == "E_READ"
E_WRITE == "E_WRITE"
-----------------------------------------------------------------------------
\* Mutant: event_write sets the kind that event_read sets.
event_setRead(e, h, k) ==
  /\ fd' = [fd EXCEPT ![e] = h]
  /\ kide' = [kide EXCEPT ![e] = E_READ]
  /\ queued' = [queued EXCEPT ![e] = NULL]

\* event_read, event_write: memset and fill in, whatever the structure held.
event_set(e, h, k) ==
  /\ fd' = [fd EXCEPT ![e] = h]
  /\ kide' = [kide EXCEPT ![e] = k]
  /\ queued' = [queued EXCEPT ![e] = NULL]

\* Mutant: the descriptor stays edge-triggered.
AddFlagsEdge(h, k) ==
  {"EPOLLET"} \cup (IF k = E_READ \/ read_waits[h] # NULL THEN {"EPOLLIN"} ELSE {})
    \cup (IF k = E_WRITE \/ write_waits[h] # NULL THEN {"EPOLLOUT"} ELSE {})

\* The flags ebot_add_event asks for.  EPOLLET comes from the event being added only,
\* so that adding a write event makes a reading descriptor level-triggered.
AddFlags(h, k) ==
  (IF k = E_READ THEN {"EPOLLIN", "EPOLLET"} ELSE {"EPOLLOUT"})
    \cup (IF read_waits[h] # NULL THEN {"EPOLLIN"} ELSE {})
    \cup (IF write_waits[h] # NULL THEN {"EPOLLOUT"} ELSE {})

\* epoll_ctl succeeds only if the operation fits what the kernel holds for h, and
\* it may run out of memory (ok = FALSE) when it adds h.
AddWorks(h, ok) ==
  IF read_waits[h] = NULL /\ write_waits[h] = NULL
    THEN interest[h] = {} /\ ok   \* EPOLL_CTL_ADD
    ELSE interest[h] # {}         \* EPOLL_CTL_MOD

\* ebot_add_event for an event e of kind k on h.
ebot_add_event(e, h, k, ok) ==
  IF AddWorks(h, ok)
    THEN /\ interest' = [interest EXCEPT ![h] = AddFlags(h, k)]
         /\ edge' = edge \cup {h}
         /\ read_waits' = IF k = E_READ /\ read_waits[h] = NULL
                            THEN [read_waits EXCEPT ![h] = e] ELSE read_waits
         /\ write_waits' = IF k = E_WRITE /\ write_waits[h] = NULL
                             THEN [write_waits EXCEPT ![h] = e] ELSE write_waits
    ELSE UNCHANGED <<interest, edge, read_waits, write_waits>>

\* Mutant: the descriptor is removed from epoll though the other event still waits.
ebot_del_eventAll(e) ==
  LET h == fd[e]
      keepWrite == kide[e] = E_READ /\ write_waits[h] # NULL
      keepRead  == kide[e] = E_WRITE /\ read_waits[h] # NULL
  IN  /\ interest[h] # {}
      /\ interest' = [interest EXCEPT ![h] = {}]
      /\ edge' = edge \ {h}
      /\ read_waits' = IF keepRead THEN read_waits ELSE [read_waits EXCEPT ![h] = NULL]
      /\ write_waits' = IF keepWrite THEN write_waits ELSE [write_waits EXCEPT ![h] = NULL]

\* ebot_del_event: the other kind of event on the descriptor, if any, stays.
ebot_del_event(e) ==
  LET h == fd[e]
      keepWrite == kide[e] = E_READ /\ write_waits[h] # NULL
      keepRead  == kide[e] = E_WRITE /\ read_waits[h] # NULL
  IN  /\ interest[h] # {}
      /\ interest' = [interest EXCEPT ![h] =
                        CASE keepWrite -> {"EPOLLOUT"}
                          [] keepRead -> {"EPOLLIN", "EPOLLET"}
                          [] OTHER -> {}]
      /\ edge' = IF keepWrite \/ keepRead THEN edge \cup {h} ELSE edge \ {h}
      /\ read_waits' = IF keepRead THEN read_waits ELSE [read_waits EXCEPT ![h] = NULL]
      /\ write_waits' = IF keepWrite THEN write_waits ELSE [write_waits EXCEPT ![h] = NULL]
-----------------------------------------------------------------------------
\* What epoll_wait reports for b, in the order the kernel happens to list it.
Reported(b) ==
  {h \in Handles : /\ BaseOf[h] = b
                   /\ interest[h] \cap level[h] # {}
                   /\ "EPOLLET" \in interest[h] => h \in edge}

\* Mutant: both events are queued without a test.
ReadyEventsUntested(h) == {read_waits[h], write_waits[h]}

\* The events ebot_loop queues for a reported descriptor: queued_event_readies skips
\* a missing event and one that is queued already.
ReadyEvents(h) ==
  {e \in Events :
     /\ queued[e] = NULL
     /\ \/ e = read_waits[h] /\ "EPOLLIN" \in interest[h] \cap level[h]
        \/ e = write_waits[h] /\ "EPOLLOUT" \in interest[h] \cap level[h]}

\* The queue is filled descriptor by descriptor, the read event before the write event.
ReadBeforeWrite(ready) ==
  \A h \in Handles : \A m, n \in DOMAIN ready :
    ready[m] = read_waits[h] /\ ready[n] = write_waits[h] => n = m + 1

\* ebot_loop up to the call of dispatch_events, which has emptied the queue before.
ebot_loop(b) ==
  /\ readies[b] = <<>> /\ Reported(b) # {}
  /\ \E ready \in SetToSeqs(UNION {ReadyEvents(h) : h \in Reported(b)}) :
       /\ ReadBeforeWrite(ready)
       /\ readies' = [readies EXCEPT ![b] = ready]
       /\ queued' = [e \in Events |-> IF Contains(ready, e) THEN b ELSE queued[e]]
  /\ edge' = edge \ Reported(b)
  /\ UNCHANGED <<fd, kide, tables>>

\* Mutant: e->queued is not reset.
dispatch_eventsStillQueued(b) ==
  /\ readies[b] # <<>>
  /\ readies' = [readies EXCEPT ![b] = Tail(@)]
  /\ UNCHANGED <<fd, kide, queued>>

\* One pass of the loop of dispatch_events, up to the call of e->cb.
dispatch_events(b) ==
  /\ readies[b] # <<>>
  /\ readies' = [readies EXCEPT ![b] = Tail(@)]
  /\ queued' = [queued EXCEPT ![Head(readies[b])] = NULL]
  /\ UNCHANGED <<fd, kide>>
-----------------------------------------------------------------------------
(* The base on its own: callers add and delete events as the server does, *)
(* at most one of each kind for a descriptor and none that is queued.      *)

Init ==
  /\ fd = [e \in Events |-> CHOOSE h \in Handles : TRUE]
  /\ kide = [e \in Events |-> E_READ]
  /\ queued = [e \in Events |-> NULL]
  /\ read_waits = [h \in Handles |-> NULL] /\ write_waits = [h \in Handles |-> NULL]
  /\ readies = [b \in Bases |-> <<>>]
  /\ interest = [h \in Handles |-> {}] /\ edge = {}
  /\ level = [h \in Handles |-> {}]

Waiting(e) == \E h \in Handles : e \in {read_waits[h], write_waits[h]}

Add(e, h, k) ==
  /\ ~Waiting(e) /\ queued[e] = NULL
  /\ (IF k = E_READ THEN read_waits ELSE write_waits)[h] = NULL
  /\ event_set(e, h, k)
  /\ \E ok \in BOOLEAN : ebot_add_event(e, h, k, ok)
  /\ UNCHANGED <<readies, level>>

Del(e) ==
  /\ Waiting(e)
  /\ ebot_del_event(e)
  /\ UNCHANGED <<events, readies, level>>

Loop(b) == ebot_loop(b) /\ UNCHANGED level

Dispatch(b) == dispatch_events(b) /\ UNCHANGED <<tables, edge, level>>

\* The peer sends or reads; a callback takes what had arrived.
Arrive(h, f) ==
  /\ level' = [level EXCEPT ![h] = @ \cup {f}] /\ edge' = edge \cup {h}
  /\ UNCHANGED <<events, tables, readies>>

Consume(h, f) ==
  /\ level' = [level EXCEPT ![h] = @ \ {f}]
  /\ UNCHANGED <<events, tables, readies, edge>>

Next ==
  \/ \E e \in Events : Del(e) \/ \E h \in Handles, k \in {E_READ, E_WRITE} : Add(e, h, k)
  \/ \E b \in Bases : Loop(b) \/ Dispatch(b)
  \/ \E h \in Handles, f \in {"EPOLLIN", "EPOLLOUT"} : Arrive(h, f) \/ Consume(h, f)

Spec == Init /\ [][Next]_vars
-----------------------------------------------------------------------------
\* Type invariant.
TypeOK ==
  /\ fd \in [Events -> Handles] /\ kide \in [Events -> {E_READ, E_WRITE}]
  /\ queued \in [Events -> Bases \cup {NULL}]
  /\ read_waits \in [Handles -> Events \cup {NULL}]
  /\ write_waits \in [Handles -> Events \cup {NULL}]
  /\ readies \in [Bases -> Seq(Events)]
  /\ interest \in [Handles -> SUBSET {"EPOLLIN", "EPOLLOUT", "EPOLLET"}]
  /\ edge \subseteq Handles
  /\ level \in [Handles -> SUBSET {"EPOLLIN", "EPOLLOUT"}]

\* The kernel watches a descriptor for exactly what some event of the base waits for:
\* whatever the order of additions, failures and deletions, no event waits for a
\* report that cannot come, and none comes that nobody waits for.
InterestMatchesWaits ==
  \A h \in Handles :
    /\ "EPOLLIN" \in interest[h] <=> read_waits[h] # NULL
    /\ "EPOLLOUT" \in interest[h] <=> write_waits[h] # NULL
    /\ interest[h] # {"EPOLLET"}

\* The event found in a table for a descriptor is an event of that kind on that
\* descriptor: the callback that dispatch_events calls gets the reported descriptor.
WaitsAreTheirs ==
  \A h \in Handles :
    /\ read_waits[h] # NULL => /\ fd[read_waits[h]] = h
                               /\ kide[read_waits[h]] = E_READ
    /\ write_waits[h] # NULL => /\ fd[write_waits[h]] = h
                                /\ kide[write_waits[h]] = E_WRITE

\* The queued flag of an event says exactly whether it is linked in a ready queue, so
\* that no event is linked twice.
QueuedOnce ==
  \A b \in Bases :
    /\ \A m, n \in DOMAIN readies[b] : readies[b][m] = readies[b][n] => m = n
    /\ \A e \in Events : queued[e] = b <=> Contains(readies[b], e)
=============================================================================
