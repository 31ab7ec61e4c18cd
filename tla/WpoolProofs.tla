---------------------------- MODULE WpoolProofs ----------------------------
(***************************************************************************)
(* Proofs about the worker pool, for any number of workers and reactors    *)
(* and any ring capacity: the type invariant, no lost wakeup, and nothing  *)
(* left running when the pool is freed.                                    *)
(***************************************************************************)
EXTENDS Wpool, TLAPS

\* The loop index of the controlling thread names a unit or a reactor, and wpool_stop
\* only ever decrements a status that is 1.
Where ==
  /\ at \in {"start", "test", "fas", "wake", "join"} => i \in Units
  /\ at \in {"rstop", "rjoin"} => i \in Producers
  /\ at = "run" => i = 1
  /\ at = "fas" => status[i] = 1

\* NoLostWakeup, extended to the worker that has not yet reached the read.
Signalled ==
  \A u \in Units :
    /\ thread[u] = "read" /\ q[u] > 0 =>
         efd[u] > 0 \/ \E p \in Producers : pending[p] = u
    /\ thread[u] \in {"pop", "read"} /\ status[u] = 0 =>
         efd[u] > 0 \/ (at = "wake" /\ i = u)

\* How far the joins of eb_srv_destroy have come.
Joined ==
  /\ at \in {"run", "rstop", "rjoin"} => wpstatus = 1
  /\ at \in {"rstop", "rjoin"} => \A p \in Producers : p < i => p \in exited
  /\ at \in {"test", "fas", "wake", "join", "destroy", "freed"} =>
       Producers \subseteq exited
  /\ at \in {"test", "fas", "wake", "join"} =>
       \A u \in Units : u < i => thread[u] = "done"
  /\ at \in {"destroy", "freed"} => \A u \in Units : thread[u] = "done"

IInv == TypeOK /\ Where /\ Signalled /\ Joined
-----------------------------------------------------------------------------
\* The loops over the units and over the reactors start at 1 and stop at the last one.
LEMMA Loops ==
  /\ 1 \in Units /\ 1 \in Producers
  /\ Units \subseteq Nat \ {0} /\ Producers \subseteq Nat \ {0}
  /\ \A n \in Units : n < Num => n + 1 \in Units
  /\ \A n \in Producers : n < Reactors => n + 1 \in Producers
  /\ \A n, m \in Units : m < n + 1 \/ ~(n < Num) => m = n \/ m < n
  /\ \A n, m \in Producers : m < n + 1 \/ ~(n < Reactors) => m = n \/ m < n
BY WpoolAssumption DEF Units, Producers

\* The strengthened invariant holds when wpool_new has built the pool.
LEMMA InitInv == Init => IInv
<1> SUFFICES ASSUME Init PROVE IInv
  OBVIOUS
<1>1. TypeOK
  BY WpoolAssumption DEF Init, TypeOK, Threads, Units
<1>2. Where
  BY WpoolAssumption DEF Init, Where, Units
<1>3. Signalled
  BY DEF Init, Signalled
<1>4. Joined
  BY DEF Init, Joined
<1> QED BY <1>1, <1>2, <1>3, <1>4 DEF IInv

\* Every step of a reactor, a worker or the controlling thread keeps it.
LEMMA NextInv == IInv /\ [Next]_vars => IInv'
<1> SUFFICES ASSUME IInv, [Next]_vars PROVE IInv'
  OBVIOUS
<1> USE DEF IInv
<1>1. ASSUME NEW p \in Producers, NEW u \in Units, Push(p, u) PROVE IInv'
  <2>1. TypeOK'
    BY <1>1 DEF Push, control, TypeOK, Threads, Where
  <2>2. Where'
    BY <1>1 DEF Push, control, TypeOK, Where
  <2>3. Signalled'
    <3> SUFFICES ASSUME NEW w \in Units
                 PROVE  /\ thread[w] = "read" /\ q'[w] > 0 =>
                             efd[w] > 0 \/ \E r \in Producers : pending'[r] = w
                        /\ thread[w] \in {"pop", "read"} /\ status[w] = 0 =>
                             efd[w] > 0 \/ (at = "wake" /\ i = w)
      BY <1>1 DEF Push, control, Signalled
    <3>1. CASE w = u
      BY <3>1, <1>1 DEF Push, TypeOK, Signalled
    <3>2. CASE w # u
      <4>1. q'[w] = q[w]
        BY <3>2, <1>1 DEF Push, TypeOK
      <4>2. \A r \in Producers : pending[r] = w => pending'[r] = w
        BY <1>1, Loops DEF Push, TypeOK
      <4> QED BY <4>1, <4>2 DEF Signalled
    <3> QED BY <3>1, <3>2
  <2>4. Joined'
    BY <1>1 DEF Push, control, TypeOK, Where, Joined
  <2> QED BY <2>1, <2>2, <2>3, <2>4
<1>2. ASSUME NEW p \in Producers, Notify(p) PROVE IInv'
  <2>1. TypeOK'
    BY <1>2 DEF Notify, control, history, TypeOK, Threads, Where
  <2>2. Where'
    BY <1>2 DEF Notify, control, history, TypeOK, Where
  <2>3. Signalled'
    BY <1>2 DEF Notify, control, history, TypeOK, Where, Signalled
  <2>4. Joined'
    BY <1>2 DEF Notify, control, history, TypeOK, Where, Joined
  <2> QED BY <2>1, <2>2, <2>3, <2>4
<1>3. ASSUME NEW p \in Producers, ReactorExit(p) PROVE IInv'
  <2>1. TypeOK'
    BY <1>3 DEF ReactorExit, pool, react, control, history, TypeOK, Threads, Where
  <2>2. Where'
    BY <1>3 DEF ReactorExit, pool, react, control, history, TypeOK, Where
  <2>3. Signalled'
    BY <1>3 DEF ReactorExit, pool, react, control, history, TypeOK, Where, Signalled
  <2>4. Joined'
    BY <1>3 DEF ReactorExit, pool, react, control, history, TypeOK, Where, Joined
  <2> QED BY <2>1, <2>2, <2>3, <2>4
<1>4. ASSUME NEW u \in Units, TestStatus(u) PROVE IInv'
  <2>1. TypeOK'
    BY <1>4 DEF TestStatus, react, control, history, TypeOK, Threads, Where
  <2>2. Where'
    BY <1>4 DEF TestStatus, react, control, history, TypeOK, Where
  <2>3. Signalled'
    BY <1>4 DEF TestStatus, react, control, history, TypeOK, Where, Signalled
  <2>4. Joined'
    BY <1>4 DEF TestStatus, react, control, history, TypeOK, Where, Joined
  <2> QED BY <2>1, <2>2, <2>3, <2>4
<1>5. ASSUME NEW u \in Units, Pop(u) PROVE IInv'
  <2>1. TypeOK'
    BY <1>5 DEF Pop, react, control, history, TypeOK, Threads, Where
  <2>2. Where'
    BY <1>5 DEF Pop, react, control, history, TypeOK, Where
  <2>3. Signalled'
    BY <1>5 DEF Pop, react, control, history, TypeOK, Where, Signalled
  <2>4. Joined'
    BY <1>5 DEF Pop, react, control, history, TypeOK, Where, Joined
  <2> QED BY <2>1, <2>2, <2>3, <2>4
<1>6. ASSUME NEW u \in Units, Callback(u) PROVE IInv'
  <2>1. TypeOK'
    BY <1>6 DEF Callback, react, control, TypeOK, Threads, Where
  <2>2. Where'
    BY <1>6 DEF Callback, react, control, TypeOK, Where
  <2>3. Signalled'
    BY <1>6 DEF Callback, react, control, TypeOK, Where, Signalled
  <2>4. Joined'
    BY <1>6 DEF Callback, react, control, TypeOK, Where, Joined
  <2> QED BY <2>1, <2>2, <2>3, <2>4
<1>7. ASSUME NEW u \in Units, ReadEfd(u) PROVE IInv'
  <2>1. TypeOK'
    BY <1>7 DEF ReadEfd, react, control, history, TypeOK, Threads, Where
  <2>2. Where'
    BY <1>7 DEF ReadEfd, react, control, history, TypeOK, Where
  <2>3. Signalled'
    BY <1>7 DEF ReadEfd, react, control, history, TypeOK, Where, Signalled
  <2>4. Joined'
    BY <1>7 DEF ReadEfd, react, control, history, TypeOK, Where, Joined
  <2> QED BY <2>1, <2>2, <2>3, <2>4
<1>8. ASSUME wpool_start PROVE IInv'
  <2>1. TypeOK'
    BY Loops, <1>8 DEF wpool_start, react, history, TypeOK, Threads, Where
  <2>2. Where'
    BY Loops, <1>8 DEF wpool_start, react, history, TypeOK, Where
  <2>3. Signalled'
    BY Loops, <1>8 DEF wpool_start, react, history, TypeOK, Where, Signalled
  <2>4. Joined'
    BY Loops, <1>8 DEF wpool_start, react, history, TypeOK, Where, Joined
  <2> QED BY <2>1, <2>2, <2>3, <2>4
<1>9. ASSUME eb_srv_destroy PROVE IInv'
  <2>1. TypeOK'
    BY Loops, <1>9 DEF eb_srv_destroy, pool, react, history, TypeOK, Threads, Where
  <2>2. Where'
    BY Loops, <1>9 DEF eb_srv_destroy, pool, react, history, TypeOK, Where
  <2>3. Signalled'
    BY Loops, <1>9 DEF eb_srv_destroy, pool, react, history, TypeOK, Where, Signalled
  <2>4. Joined'
    BY Loops, <1>9 DEF eb_srv_destroy, pool, react, history, TypeOK, Where, Joined
  <2> QED BY <2>1, <2>2, <2>3, <2>4
<1>10. ASSUME StopReactor PROVE IInv'
  <2>1. TypeOK'
    BY <1>10 DEF StopReactor, pool, history, TypeOK, Threads, Where
  <2>2. Where'
    BY <1>10 DEF StopReactor, pool, history, TypeOK, Where
  <2>3. Signalled'
    BY <1>10 DEF StopReactor, pool, history, TypeOK, Where, Signalled
  <2>4. Joined'
    BY <1>10 DEF StopReactor, pool, history, TypeOK, Where, Joined
  <2> QED BY <2>1, <2>2, <2>3, <2>4
<1>11. ASSUME JoinReactor PROVE IInv'
  <2>1. TypeOK'
    BY Loops, <1>11 DEF JoinReactor, pool, react, history, TypeOK, Threads, Where
  <2>2. Where'
    BY Loops, <1>11 DEF JoinReactor, pool, react, history, TypeOK, Where
  <2>3. Signalled'
    BY Loops, <1>11 DEF JoinReactor, pool, react, history, TypeOK, Where, Signalled
  <2>4. Joined'
    BY Loops, <1>11 DEF JoinReactor, pool, react, history, TypeOK, Where, Joined
  <2> QED BY <2>1, <2>2, <2>3, <2>4
<1>12. ASSUME StopTest PROVE IInv'
  <2>1. TypeOK'
    BY <1>12 DEF StopTest, pool, react, history, TypeOK, Threads, Where
  <2>2. Where'
    BY <1>12 DEF StopTest, pool, react, history, TypeOK, Where
  <2>3. Signalled'
    BY <1>12 DEF StopTest, pool, react, history, TypeOK, Where, Signalled
  <2>4. Joined'
    BY <1>12 DEF StopTest, pool, react, history, TypeOK, Where, Joined
  <2> QED BY <2>1, <2>2, <2>3, <2>4
<1>13. ASSUME StopFas PROVE IInv'
  <2>1. TypeOK'
    BY <1>13 DEF StopFas, react, history, TypeOK, Threads, Where
  <2>2. Where'
    BY <1>13 DEF StopFas, react, history, TypeOK, Where
  <2>3. Signalled'
    BY <1>13 DEF StopFas, react, history, TypeOK, Where, Signalled
  <2>4. Joined'
    BY <1>13 DEF StopFas, react, history, TypeOK, Where, Joined
  <2> QED BY <2>1, <2>2, <2>3, <2>4
<1>14. ASSUME StopWake PROVE IInv'
  <2>1. TypeOK'
    BY <1>14 DEF StopWake, react, history, TypeOK, Threads, Where
  <2>2. Where'
    BY <1>14 DEF StopWake, react, history, TypeOK, Where
  <2>3. Signalled'
    BY <1>14 DEF StopWake, react, history, TypeOK, Where, Signalled
  <2>4. Joined'
    BY <1>14 DEF StopWake, react, history, TypeOK, Where, Joined
  <2> QED BY <2>1, <2>2, <2>3, <2>4
<1>15. ASSUME StopJoin PROVE IInv'
  <2>1. TypeOK'
    BY Loops, <1>15 DEF StopJoin, react, history, TypeOK, Threads, Where
  <2>2. Where'
    BY Loops, <1>15 DEF StopJoin, react, history, TypeOK, Where
  <2>3. Signalled'
    BY Loops, <1>15 DEF StopJoin, react, history, TypeOK, Where, Signalled
  <2>4. Joined'
    BY Loops, <1>15 DEF StopJoin, react, history, TypeOK, Where, Joined
  <2> QED BY <2>1, <2>2, <2>3, <2>4
<1>16. ASSUME wpool_destory PROVE IInv'
  <2>1. TypeOK'
    BY <1>16 DEF wpool_destory, pool, react, history, TypeOK, Threads, Where
  <2>2. Where'
    BY <1>16 DEF wpool_destory, pool, react, history, TypeOK, Where
  <2>3. Signalled'
    BY <1>16 DEF wpool_destory, pool, react, history, TypeOK, Where, Signalled
  <2>4. Joined'
    BY <1>16 DEF wpool_destory, pool, react, history, TypeOK, Where, Joined
  <2> QED BY <2>1, <2>2, <2>3, <2>4
<1>17. CASE UNCHANGED vars
  BY <1>17 DEF vars, TypeOK, Where, Signalled, Joined
<1> QED
  BY <1>1, <1>2, <1>3, <1>4, <1>5, <1>6, <1>7, <1>8, <1>9, <1>10, <1>11, <1>12, <1>13, <1>14, <1>15, <1>16, <1>17 DEF Next, Worker, Stop

\* IInv is an inductive invariant of the specification.
LEMMA Inductive == Spec => []IInv
<1> QED BY InitInv, NextInv, PTL DEF Spec
-----------------------------------------------------------------------------
\* Every field of the pool, its units and the reactors keeps its type; in particular
\* wpool_stop, which subtracts 1 from a unit's status, never takes it below 0.
THEOREM TypeCorrect == Spec => []TypeOK
<1>1. IInv => TypeOK
  BY DEF IInv
<1> QED BY <1>1, Inductive, PTL

\* However the push and the write of a reactor, the pop and the read of a worker and
\* the two writes of wpool_stop interleave, no worker sleeps on an item or on its stop.
THEOREM NoWakeupIsLost == Spec => []NoLostWakeup
<1>1. IInv => NoLostWakeup
  <2> SUFFICES ASSUME IInv, NEW u \in Units, Blocked(u)
               PROVE  /\ q[u] > 0 => \E p \in Producers : pending[p] = u
                      /\ status[u] = 0 => at = "wake" /\ i = u
    BY DEF NoLostWakeup
  <2>1. thread[u] = "read" /\ ~(efd[u] > 0)
    BY DEF Blocked
  <2> QED BY <2>1 DEF IInv, Signalled
<1> QED BY <1>1, Inductive, PTL

\* wpool_destory frees the rings and eventfds only after every worker has finished
\* and every reactor has left its loop.
THEOREM NothingRunsFreed == Spec => []FreedWhenQuiet
<1>1. IInv => FreedWhenQuiet
  BY DEF IInv, Joined, TypeOK, FreedWhenQuiet
<1> QED BY <1>1, Inductive, PTL
=============================================================================
