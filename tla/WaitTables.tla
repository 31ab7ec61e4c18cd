---------------------------- MODULE WaitTables -----------------------------
(***************************************************************************)
(* The wait tables of an event base whose descriptors outgrow them.        *)
(* read_waits and write_waits start with EP_SIZE entries; ebot_add_event   *)
(* reads the entries of a descriptor, grows the tables once when the       *)
(* descriptor lies outside, tells epoll, and fills the entry in.           *)
(*                                                                         *)
(* A table is the set of descriptors whose entry is not NULL: which event  *)
(* an entry holds is the business of module EventBase.  An entry read      *)
(* outside a table may look NULL or not.                                   *)
(*                                                                         *)
(* The parts of the specification are named TablesInit and so on, because  *)
(* its proofs share a module with those of TailQ.                          *)
(***************************************************************************)
EXTENDS Integers

CONSTANTS EP_SIZE,        \* the first size of the tables, and epsz
          MaxFd,          \* bound: the largest descriptor
          MayFail         \* whether realloc may return NULL

ASSUME WaitTablesAssumption ==
  EP_SIZE \in Nat \ {0} /\ MaxFd \in Nat /\ MayFail \in BOOLEAN

VARIABLES
  wait_sz,       \* eb->wait_sz
  waits,         \* read_waits and write_waits: for each kind the descriptors with an entry
  interest,      \* kernel: the kinds of event epoll reports for each descriptor
  freed,         \* whether eb->read_waits has been freed under the base
  known,         \* the descriptors below it have been handed to the base
  astray         \* history: descriptors whose entry was written outside the tables

tablesVars == <<wait_sz, waits, interest, freed, known, astray>>

Handles == 0 .. MaxFd
Kinds   == {"E_READ", "E_WRITE"}

TablesInit ==
  /\ wait_sz = EP_SIZE
  /\ waits = [k \in Kinds |-> {}]
  /\ interest = [h \in Handles |-> {}]
  /\ freed = FALSE /\ known = 0 /\ astray = {}
-----------------------------------------------------------------------------
\* Mutant: shifted the wrong way.
newszHalf == wait_sz \div 2

newsz == 2 * wait_sz

\* Mutant: memset starts one entry early.
ClearedEarly == (EP_SIZE - 1) .. (newsz - 1)

\* The entries that memset clears: from epsz, which stays EP_SIZE, not from the old size.
Cleared == EP_SIZE .. (newsz - 1)

\* Mutant: the first descriptor outside is taken to fit.
OutsideLate(h) == h > wait_sz

Outside(h) == h >= wait_sz

\* What _resize_epoll_events can make of the tables: it doubles both; or leaves them as
\* they are, when realloc fails; or has given up the old block of read_waits, to which
\* eb->read_waits still points, when only the second realloc fails.
Resized(h) ==
  LET old == [sz |-> wait_sz, waits |-> waits, freed |-> FALSE]
      new == [sz |-> newsz, waits |-> [k \in Kinds |-> waits[k] \ Cleared],
              freed |-> FALSE]
  IN  CASE ~Outside(h) -> {old}
        [] Outside(h) /\ ~MayFail -> {new}
        [] Outside(h) /\ MayFail -> {new, old, [old EXCEPT !.freed = TRUE]}

\* Whether the entry of h seems set when ebot_add_event reads it, before it resizes.
Seen(h, k) == IF h < wait_sz THEN {h \in waits[k]} ELSE BOOLEAN

\* ebot_add_event for kind k on h.  The result of the resizing is not looked at, and it is
\* not undone when epoll_ctl refuses to add what it has, or to modify what it has not.
ebot_add_event(h, k) ==
  \E r \in Seen(h, "E_READ"), w \in Seen(h, "E_WRITE"), t \in Resized(h) :
    LET had == (IF r THEN {"E_READ"} ELSE {}) \cup (IF w THEN {"E_WRITE"} ELSE {})
        ok == (had = {}) <=> (interest[h] = {})
        fill == ok /\ k \notin had
    IN  /\ wait_sz' = t.sz /\ freed' = t.freed
        /\ interest' = IF ok THEN [interest EXCEPT ![h] = had \cup {k}] ELSE interest
        /\ waits' = IF fill /\ h < t.sz THEN [t.waits EXCEPT ![k] = @ \cup {h}] ELSE t.waits
        /\ astray' = IF fill /\ h >= t.sz THEN astray \cup {h} ELSE astray

\* ebot_del_event for the event of kind k found in a table.
ebot_del_event(h, k) ==
  /\ interest' = [interest EXCEPT ![h] = {j \in Kinds \ {k} : h \in waits[j]}]
  /\ waits' = [waits EXCEPT ![k] = @ \ {h}]
  /\ UNCHANGED <<wait_sz, freed, astray>>
-----------------------------------------------------------------------------
\* A reactor adds one event of each kind for a descriptor, and deletes those it finds in
\* the tables.  The kernel hands out the lowest free descriptor, so that new ones come in
\* increasing order.  What a base does whose table has been freed is undefined.
Add(h, k) ==
  /\ ~freed /\ h <= known /\ k \notin interest[h]
  /\ ebot_add_event(h, k)
  /\ known' = IF h = known THEN known + 1 ELSE known

Del(h, k) ==
  /\ ~freed /\ h < wait_sz /\ h \in waits[k]
  /\ ebot_del_event(h, k)
  /\ UNCHANGED known

TablesNext == \E h \in Handles, k \in Kinds : Add(h, k) \/ Del(h, k)

TablesSpec == TablesInit /\ [][TablesNext]_tablesVars
-----------------------------------------------------------------------------
\* Type invariant.
TablesTypeOK ==
  /\ wait_sz \in Nat
  /\ waits \in [Kinds -> SUBSET {h \in Handles : h < wait_sz}]
  /\ interest \in [Handles -> SUBSET Kinds]
  /\ freed \in BOOLEAN /\ known \in 0 .. MaxFd + 1
  /\ astray \subseteq Handles

\* Growing the tables loses no event: what epoll reports for a descriptor has an event
\* in the tables that waits for it, and an event in the tables is still watched for.
EntriesKept ==
  \A h \in Handles, k \in Kinds : k \in interest[h] <=> h \in waits[k]

\* ebot_add_event writes no entry outside the tables: after the resizing they have room
\* for the descriptor, and are not freed.
WritesInside == astray = {} /\ ~freed
=============================================================================
