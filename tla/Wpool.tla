------------------------------- MODULE Wpool -------------------------------
(***************************************************************************)
(* The factory: the pool of worker threads (wpool) that run the server's   *)
(* callbacks, the reactor threads that feed it, and the thread that starts *)
(* and destroys it.                                                        *)
(*                                                                         *)
(* A reactor pushes an item on a unit's ring and then writes the unit's    *)
(* eventfd; the worker pops until the ring is empty and then blocks in a   *)
(* read of the eventfd.  wpool_stop clears the unit's status and writes    *)
(* the same eventfd.  The ring is a bounded queue here (module Ringq);     *)
(* only its length matters.                                                *)
(***************************************************************************)
EXTENDS Naturals

CONSTANTS Num,        \* wp->num
          Reactors,   \* rp->rsz
          Cap,        \* items a ring holds
          MaxPush     \* bound on the items accepted per unit

ASSUME WpoolAssumption ==
  /\ Num \in Nat \ {0} /\ Reactors \in Nat \ {0}
  /\ Cap \in Nat \ {0} /\ MaxPush \in Nat

Units     == 1 .. Num
Producers == 1 .. Reactors

VARIABLES
  q,         \* items in each unit's ring
  efd,       \* the counter of each unit's eventfd
  status,    \* units[i].status
  thread,    \* where each worker thread is: in which call, or "none" or "done"
  wpstatus,  \* wp->status
  rstatus,   \* reactors[i].status
  pending,   \* the unit whose eventfd a reactor is about to write, or 0
  exited,    \* the reactor threads that have left their loop
  at, i,     \* where the controlling thread is, and its loop index
  accepted,  \* history: items pushed on each ring
  handled    \* history: items each worker has run the callback for

vars == <<q, efd, status, thread, wpstatus, rstatus, pending, exited, at, i,
          accepted, handled>>

pool    == <<q, efd, status, thread, wpstatus>>
react   == <<rstatus, pending, exited>>
control == <<at, i>>
history == <<accepted, handled>>
-----------------------------------------------------------------------------
\* wpool_new: everything is zero; eb_srv_start has started the reactors already
\* when it starts the pool.
Init ==
  /\ q = [u \in Units |-> 0] /\ efd = [u \in Units |-> 0]
  /\ status = [u \in Units |-> 0] /\ thread = [u \in Units |-> "none"]
  /\ wpstatus = 0
  /\ rstatus = [p \in Producers |-> 1] /\ exited = {}
  /\ pending = [p \in Producers |-> 0]
  /\ at = "start" /\ i = 1
  /\ accepted = [u \in Units |-> 0] /\ handled = [u \in Units |-> 0]
-----------------------------------------------------------------------------
\* A reactor in reactor_pool_client_read_callback.  When the ring is full the item
\* is dropped and nothing is signalled.
Push(p, u) ==
  /\ p \notin exited /\ pending[p] = 0
  /\ q[u] < Cap /\ accepted[u] < MaxPush
  /\ q' = [q EXCEPT ![u] = @ + 1]
  /\ accepted' = [accepted EXCEPT ![u] = @ + 1]
  /\ pending' = [pending EXCEPT ![p] = u]
  /\ UNCHANGED <<efd, status, thread, wpstatus, rstatus, exited, control, handled>>

\* Mutant: the eventfd is chosen by the reactor's number.
NotifyOwn(p) ==
  /\ pending[p] # 0
  /\ efd' = [efd EXCEPT ![((p - 1) % Num) + 1] = @ + 1]
  /\ pending' = [pending EXCEPT ![p] = 0]
  /\ UNCHANGED <<q, status, thread, wpstatus, rstatus, exited, control, history>>

Notify(p) ==
  /\ pending[p] # 0
  /\ efd' = [efd EXCEPT ![pending[p]] = @ + 1]
  /\ pending' = [pending EXCEPT ![p] = 0]
  /\ UNCHANGED <<q, status, thread, wpstatus, rstatus, exited, control, history>>

\* The loop of reactor_pool_exec ends between two callbacks once its status is 0.
ReactorExit(p) ==
  /\ rstatus[p] = 0 /\ p \notin exited /\ pending[p] = 0
  /\ exited' = exited \cup {p}
  /\ UNCHANGED <<pool, rstatus, pending, control, history>>
-----------------------------------------------------------------------------
\* Mutant: the worker also looks at wp->status, set when all workers are started.
TestStatusPool(u) ==
  /\ thread[u] = "loop"
  /\ thread' = [thread EXCEPT ![u] = IF status[u] = 0 \/ wpstatus = 0 THEN "done" ELSE "pop"]
  /\ UNCHANGED <<q, efd, status, wpstatus, react, control, history>>

\* wpool_exec: the test at the head of the worker's loop.
TestStatus(u) ==
  /\ thread[u] = "loop"
  /\ thread' = [thread EXCEPT ![u] = IF status[u] = 0 THEN "done" ELSE "pop"]
  /\ UNCHANGED <<q, efd, status, wpstatus, react, control, history>>

\* eb_srv_factory_exec: pop an item, or go and wait for a signal.
Pop(u) ==
  /\ thread[u] = "pop"
  /\ IF q[u] > 0
       THEN /\ q' = [q EXCEPT ![u] = @ - 1]
            /\ thread' = [thread EXCEPT ![u] = "callback"]
       ELSE /\ q' = q
            /\ thread' = [thread EXCEPT ![u] = "read"]
  /\ UNCHANGED <<efd, status, wpstatus, react, control, history>>

Callback(u) ==
  /\ thread[u] = "callback"
  /\ handled' = [handled EXCEPT ![u] = @ + 1]
  /\ thread' = [thread EXCEPT ![u] = "loop"]
  /\ UNCHANGED <<q, efd, status, wpstatus, react, control, accepted>>

\* The read blocks while the counter is 0 and otherwise resets it.
ReadEfd(u) ==
  /\ thread[u] = "read" /\ efd[u] > 0
  /\ efd' = [efd EXCEPT ![u] = 0]
  /\ thread' = [thread EXCEPT ![u] = "loop"]
  /\ UNCHANGED <<q, status, wpstatus, react, control, history>>

Worker(u) == TestStatus(u) \/ Pop(u) \/ Callback(u) \/ ReadEfd(u)
-----------------------------------------------------------------------------
\* wpool_start: one pass of its loop, and wp->status after the last one.
wpool_start ==
  /\ at = "start"
  /\ status' = [status EXCEPT ![i] = 1]
  /\ thread' = [thread EXCEPT ![i] = "loop"]
  /\ IF i < Num
       THEN i' = i + 1 /\ UNCHANGED <<at, wpstatus>>
       ELSE i' = 1 /\ at' = "run" /\ wpstatus' = 1
  /\ UNCHANGED <<q, efd, react, history>>

\* eb_srv_destroy is called while the server runs: the reactors go first.
eb_srv_destroy ==
  /\ at = "run"
  /\ at' = "rstop"
  /\ UNCHANGED <<pool, react, i, history>>

\* Mutant: the reactor is joined without being told to stop.
StopReactorUntold ==
  /\ at = "rstop"
  /\ at' = "rjoin"
  /\ UNCHANGED <<pool, react, i, history>>

\* reactor_pool_stop: clear the status of reactor i, then join it.
StopReactor ==
  /\ at = "rstop"
  /\ rstatus' = [rstatus EXCEPT ![i] = 0]
  /\ at' = "rjoin"
  /\ UNCHANGED <<pool, pending, exited, i, history>>

JoinReactor ==
  /\ at = "rjoin" /\ i \in exited
  /\ IF i < Reactors
       THEN i' = i + 1 /\ at' = "rstop"
       ELSE i' = 1 /\ at' = IF wpstatus = 0 THEN "destroy" ELSE "test"
  /\ UNCHANGED <<pool, react, history>>

\* Mutant: do ... while.
StopTestLate ==
  /\ at = "test"
  /\ at' = "fas"
  /\ UNCHANGED <<pool, react, i, history>>

\* wpool_stop: while (status) { FAS(&status, 1); write(efd, 0x0F); } then join.
StopTest ==
  /\ at = "test"
  /\ at' = IF status[i] = 0 THEN "join" ELSE "fas"
  /\ UNCHANGED <<pool, react, i, history>>

StopFas ==
  /\ at = "fas"
  /\ status' = [status EXCEPT ![i] = @ - 1]
  /\ at' = "wake"
  /\ UNCHANGED <<q, efd, thread, wpstatus, react, i, history>>

StopWake ==
  /\ at = "wake"
  /\ efd' = [efd EXCEPT ![i] = @ + 15]
  /\ at' = "test"
  /\ UNCHANGED <<q, status, thread, wpstatus, react, i, history>>

\* Mutant: the worker is told to stop but not joined.
StopJoinNoWait ==
  /\ at = "join"
  /\ IF i < Num
       THEN i' = i + 1 /\ at' = "test" /\ UNCHANGED wpstatus
       ELSE i' = 1 /\ at' = "destroy" /\ wpstatus' = 0
  /\ UNCHANGED <<q, efd, status, thread, react, history>>

StopJoin ==
  /\ at = "join" /\ thread[i] = "done"
  /\ IF i < Num
       THEN i' = i + 1 /\ at' = "test" /\ UNCHANGED wpstatus
       ELSE i' = 1 /\ at' = "destroy" /\ wpstatus' = 0
  /\ UNCHANGED <<q, efd, status, thread, react, history>>

\* wpool_destory: the rings, the eventfds and the pool are freed.
wpool_destory ==
  /\ at = "destroy"
  /\ at' = "freed"
  /\ UNCHANGED <<pool, react, i, history>>

Stop == StopReactor \/ JoinReactor \/ StopTest \/ StopFas \/ StopWake \/ StopJoin
          \/ wpool_destory
-----------------------------------------------------------------------------
Next ==
  \/ \E p \in Producers : (\E u \in Units : Push(p, u)) \/ Notify(p) \/ ReactorExit(p)
  \/ \E u \in Units : Worker(u)
  \/ wpool_start \/ eb_srv_destroy \/ Stop

\* Every started thread runs and every callback returns; nobody has to call
\* eb_srv_destroy, and no client has to send anything.
Fairness ==
  /\ \A u \in Units : WF_vars(Worker(u))
  /\ \A p \in Producers : WF_vars(Notify(p)) /\ WF_vars(ReactorExit(p))
  /\ WF_vars(wpool_start) /\ WF_vars(Stop)

Spec == Init /\ [][Next]_vars

FairSpec == Spec /\ Fairness
-----------------------------------------------------------------------------
Threads == {"none", "loop", "pop", "callback", "read", "done"}

\* Type invariant.
TypeOK ==
  /\ q \in [Units -> Nat] /\ efd \in [Units -> Nat]
  /\ status \in [Units -> {0, 1}] /\ thread \in [Units -> Threads]
  /\ wpstatus \in {0, 1}
  /\ rstatus \in [Producers -> {0, 1}] /\ exited \subseteq Producers
  /\ pending \in [Producers -> Units \cup {0}]
  /\ at \in {"start", "run", "rstop", "rjoin", "test", "fas", "wake", "join",
             "destroy", "freed"}
  /\ i \in Nat \ {0}
  /\ accepted \in [Units -> Nat] /\ handled \in [Units -> Nat]

Blocked(u) == thread[u] = "read" /\ efd[u] = 0

\* No lost wakeup: a worker that is blocked in the read of its eventfd either has an
\* empty ring and is not asked to stop, or whoever pushed the item or cleared the
\* status is about to write the eventfd.
NoLostWakeup ==
  \A u \in Units : Blocked(u) =>
    /\ q[u] > 0 => \E p \in Producers : pending[p] = u
    /\ status[u] = 0 => at = "wake" /\ i = u

\* Nothing runs on freed memory: when the rings and eventfds are freed every worker
\* has finished and no reactor is left that could push or signal.
FreedWhenQuiet ==
  at = "freed" => /\ \A u \in Units : thread[u] = "done"
                  /\ exited = Producers

Stopping == at \notin {"start", "run"}

\* Every item a ring accepts is handled, unless the server is destroyed first.
EveryItemHandled ==
  \A u \in Units : \A n \in 1 .. MaxPush :
    accepted[u] >= n ~> (handled[u] >= n \/ Stopping)

\* eb_srv_destroy always gets through: no join waits for ever.
DestroyReturns == Stopping ~> at = "freed"
=============================================================================
