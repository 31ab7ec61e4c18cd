-------------------------------- MODULE Life --------------------------------
(***************************************************************************)
(* The life of a server: what eb_srv_new, eb_srv_listen and eb_srv_start   *)
(* acquire, in which order, what a failure on the way leads to, and what   *)
(* eb_srv_destroy, called by another thread while the server runs, gives   *)
(* back under the feet of which thread.                                    *)
(*                                                                         *)
(* Memory is a set of allocated objects; descriptors are numbers, because  *)
(* the kernel hands a closed number out again.  What reactors and workers  *)
(* do with their data is left to Server and Wpool.                         *)
(***************************************************************************)
EXTENDS Naturals, Sequences, SequencesExt

CONSTANTS rsz, fsz,    \* reactors and workers (rp->rsz, wp->num)
          MayFail,     \* the kinds of acquisition that may fail
          MaxConns     \* bound on the connections accepted

ASSUME LifeAssumption ==
  rsz \in Nat \ {0} /\ fsz \in Nat \ {0} /\ MaxConns \in Nat

Reactors == 1 .. rsz
Units    == 1 .. fsz
Bases    == 0 .. rsz     \* 0 is the master's

\* An object is a kind and the number of the base, reactor, unit or connection.
BaseMemory(b) == << <<"base", b>>, <<"epevents", b>>, <<"read_waits", b>>, <<"write_waits", b>> >>

ebot_new(b) == Append(BaseMemory(b), <<"epfd", b>>)

reactor_pool_new ==
  << <<"rp", 0>> >> \o
  FlattenSeq([r \in Reactors |-> ebot_new(r) \o << <<"pipe0", r>>, <<"pipe1", r>> >>])

wpool_new ==
  << <<"wp", 0>> >> \o FlattenSeq([u \in Units |-> << <<"efd", u>>, <<"rq", u>> >>])

\* What is acquired until the server listens, in order.
Setup ==
  << <<"srv", 0>>, <<"event_pool", 0>> >> \o ebot_new(0) \o reactor_pool_new \o wpool_new
    \o << <<"sfd", 0>> >>

FileKinds == {"epfd", "pipe0", "pipe1", "efd", "sfd"}
Memory    == {o \in ToSet(Setup) : o[1] \notin FileKinds}
Files     == ToSet(Setup) \ Memory
Conns     == {<<"conn", c>> : c \in 1 .. MaxConns}
Numbers   == 3 .. (2 + Len(Setup) + MaxConns)

VARIABLES
  process,   \* "alive", or how it ended: "exit", "fault" or "sigpipe"
  step,      \* how far Setup has come
  held,      \* the memory that is allocated
  files,     \* kernel: what each descriptor number stands for, for those in use
  no,        \* the number each of the server's own descriptors was given
  master,    \* the thread in eb_srv_start: "off", "reactors" and "workers" while it starts
             \* them, "loop", "wait" (in epoll_wait), "send" (about to hand a
             \* descriptor over) or "done"
  i,         \* the loop index of the starting thread
  status,    \* srv->status
  rstatus,   \* reactors[r].status
  react,     \* each reactor's thread: "none", "loop", "pipe" (its callback) or "done"
  inpipe,    \* the descriptors waiting in each pipe
  ustatus,   \* units[u].status
  worker,    \* each worker's thread: "none", "loop" or "done"
  conns,     \* connections accepted, and the descriptor of the last
  destroy    \* how far eb_srv_destroy has come, 0 before it is called

vars == <<process, step, held, files, no, master, i, status, rstatus, react, inpipe,
          ustatus, worker, conns, destroy>>

setup   == <<step, held, no>>
threads == <<rstatus, react, ustatus, worker>>

Init ==
  /\ process = "alive" /\ step = 0 /\ held = {}
  /\ files = <<>> /\ no = [o \in Files |-> 0]
  /\ master = "off" /\ i = 1 /\ status = 0
  /\ rstatus = [r \in Reactors |-> 0] /\ react = [r \in Reactors |-> "none"]
  /\ inpipe = [r \in Reactors |-> 0]
  /\ ustatus = [u \in Units |-> 0] /\ worker = [u \in Units |-> "none"]
  /\ conns = [count |-> 0, fd |-> 0]
  /\ destroy = 0
-----------------------------------------------------------------------------
\* The number the kernel gives to a new descriptor: the lowest that is free.
NewFd == CHOOSE n \in Numbers \ DOMAIN files : \A m \in Numbers \ DOMAIN files : n <= m

Open(o)  == files' = [m \in DOMAIN files \cup {NewFd} |-> IF m = NewFd THEN o ELSE files[m]]
Close(n) == files' = [m \in DOMAIN files \ {n} |-> files[m]]

\* Whether number n stands for object o.
IsOpen(n, o) == n \in DOMAIN files /\ files[n] = o

\* eb_srv_new and eb_srv_listen, one acquisition at a time.
Acquire ==
  /\ process = "alive" /\ step < Len(Setup)
  /\ LET o == Setup[step + 1]
     IN  IF o \in Files
           THEN Open(o) /\ no' = [no EXCEPT ![o] = NewFd] /\ held' = held
           ELSE held' = held \cup {o} /\ UNCHANGED <<files, no>>
  /\ step' = step + 1
  /\ UNCHANGED <<process, master, i, status, threads, inpipe, conns, destroy>>

\* What is freed before the failure of o is reported: the error path of ebot_new frees
\* what the base already has.
FreedOnError(o) ==
  IF o[1] \in {"epevents", "read_waits", "write_waits", "epfd"}
    THEN ToSet(BaseMemory(o[2])) ELSE {}

\* How the process ends when o cannot be had.  Most failures end in err_exit.  The error
\* path of ebot_new follows base when base is NULL; that of wpool_new tests a pointer it
\* has not set, or destroys a unit that has no ring yet.
EndOnError(o) ==
  CASE o[1] = "base" -> {"fault"}
    [] o[1] = "wp" -> {"exit", "fault"}
    [] o[1] \in {"efd", "rq"} -> {"fault"}
    [] OTHER -> {"exit"}

AcquireFails ==
  /\ process = "alive" /\ step < Len(Setup)
  /\ LET o == Setup[step + 1]
     IN  /\ o[1] \in MayFail
         /\ held' = held \ FreedOnError(o)
         /\ process' \in EndOnError(o)
  /\ UNCHANGED <<step, files, no, master, i, status, threads, inpipe, conns, destroy>>
-----------------------------------------------------------------------------
\* eb_srv_start: the status, then the reactors, then the workers, then the loop.
eb_srv_start ==
  /\ process = "alive" /\ step = Len(Setup) /\ master = "off"
  /\ status' = 1 /\ master' = "reactors"
  /\ UNCHANGED <<process, setup, files, i, threads, inpipe, conns, destroy>>

\* Mutant: the loop runs once too often.
StartReactorPast ==
  /\ process = "alive" /\ master = "reactors"
  /\ rstatus' = [rstatus EXCEPT ![i] = 1]
  /\ \E t \in {"loop"} \cup IF "thread" \in MayFail THEN {"none"} ELSE {} :
       react' = [react EXCEPT ![i] = t]
  /\ IF i <= rsz THEN i' = i + 1 /\ master' = master
                ELSE i' = 1 /\ master' = "workers"
  /\ UNCHANGED <<process, setup, files, status, inpipe, ustatus, worker, conns, destroy>>

\* One pass of reactor_pool_start.  pthread_create reports an error by a positive number,
\* and the code tests for a negative one: a thread that is not created goes unnoticed.
StartReactor ==
  /\ process = "alive" /\ master = "reactors"
  /\ rstatus' = [rstatus EXCEPT ![i] = 1]
  /\ \E t \in {"loop"} \cup IF "thread" \in MayFail THEN {"none"} ELSE {} :
       react' = [react EXCEPT ![i] = t]
  /\ IF i < rsz THEN i' = i + 1 /\ master' = master
                ELSE i' = 1 /\ master' = "workers"
  /\ UNCHANGED <<process, setup, files, status, inpipe, ustatus, worker, conns, destroy>>

\* One pass of wpool_start, and after the last one the listening event is added.
StartWorker ==
  /\ process = "alive" /\ master = "workers"
  /\ ustatus' = [ustatus EXCEPT ![i] = 1]
  /\ \E t \in {"loop"} \cup IF "thread" \in MayFail THEN {"none"} ELSE {} :
       worker' = [worker EXCEPT ![i] = t]
  /\ IF i < fsz THEN i' = i + 1 /\ master' = master
                ELSE i' = 1 /\ master' = "loop"
  /\ UNCHANGED <<process, setup, files, status, rstatus, react, inpipe, conns, destroy>>

\* The master can go on only while what its loop uses exists.  What it does with freed
\* memory (eb_srv_destroy does not join it) is undefined.
MasterRuns == process = "alive" /\ {<<"srv", 0>>} \cup ToSet(BaseMemory(0)) \subseteq held

\* The test of srv->status: one more ebot_loop, of at most a second, or the end.
MasterTests ==
  /\ MasterRuns /\ master = "loop"
  /\ master' = IF status = 1 THEN "wait" ELSE "done"
  /\ UNCHANGED <<process, setup, files, i, status, threads, inpipe, conns, destroy>>

MasterTimesOut ==
  /\ MasterRuns /\ master = "wait"
  /\ master' = "loop"
  /\ UNCHANGED <<process, setup, files, i, status, threads, inpipe, conns, destroy>>

\* ebot_srv_accept up to the write: the connection gets a number.
Accept ==
  /\ MasterRuns /\ master = "wait"
  /\ IsOpen(no[<<"sfd", 0>>], <<"sfd", 0>>) /\ conns.count < MaxConns
  /\ Open(<<"conn", conns.count + 1>>)
  /\ conns' = [count |-> conns.count + 1, fd |-> NewFd]
  /\ master' = "send"
  /\ UNCHANGED <<process, setup, i, status, threads, inpipe, destroy>>

\* The reactor of the connection being handed over, and the number written to.
Chosen == (conns.fd % rsz) + 1
pfd    == no[<<"pipe1", Chosen>>]

\* write(pfd, &fd, ..): it fails when the number is closed; a pipe that has no reading end
\* any more raises SIGPIPE, which nothing in the program catches.
Send ==
  /\ MasterRuns /\ master = "send" /\ <<"rp", 0>> \in held
  /\ IF IsOpen(pfd, <<"pipe1", Chosen>>)
       THEN IF IsOpen(no[<<"pipe0", Chosen>>], <<"pipe0", Chosen>>)
              THEN inpipe' = [inpipe EXCEPT ![Chosen] = @ + 1] /\ UNCHANGED process
              ELSE process' = "sigpipe" /\ UNCHANGED inpipe
       ELSE UNCHANGED <<inpipe, process>>
  /\ master' = "loop"
  /\ UNCHANGED <<setup, files, i, status, threads, conns, destroy>>
-----------------------------------------------------------------------------
\* ebot_loop of a reactor finds its pipe readable and is about to run the callback.
PipeReported(r) ==
  /\ process = "alive" /\ react[r] = "loop" /\ inpipe[r] > 0
  /\ IsOpen(no[<<"pipe0", r>>], <<"pipe0", r>>)
  /\ react' = [react EXCEPT ![r] = "pipe"]
  /\ UNCHANGED <<process, setup, files, master, i, status, rstatus, inpipe, ustatus, worker,
                 conns, destroy>>

\* reactor_pool_pipe_callback reads a descriptor from r->pipe[0].
PipeRead(r) ==
  /\ process = "alive" /\ react[r] = "pipe"
  /\ inpipe' = IF IsOpen(no[<<"pipe0", r>>], <<"pipe0", r>>)
                 THEN [inpipe EXCEPT ![r] = @ - 1] ELSE inpipe
  /\ react' = [react EXCEPT ![r] = "loop"]
  /\ UNCHANGED <<process, setup, files, master, i, status, rstatus, ustatus, worker, conns,
                 destroy>>

ReactorLeaves(r) ==
  /\ process = "alive" /\ react[r] = "loop" /\ rstatus[r] = 0
  /\ react' = [react EXCEPT ![r] = "done"]
  /\ UNCHANGED <<process, setup, files, master, i, status, rstatus, inpipe, ustatus, worker,
                 conns, destroy>>

WorkerLeaves(u) ==
  /\ process = "alive" /\ worker[u] = "loop" /\ ustatus[u] = 0
  /\ worker' = [worker EXCEPT ![u] = "done"]
  /\ UNCHANGED <<process, setup, files, master, i, status, rstatus, react, inpipe, ustatus,
                 conns, destroy>>
-----------------------------------------------------------------------------
\* Mutant: the reactors are told to stop but not joined.
reactor_pool_stopNoJoin ==
  FlattenSeq([r \in Reactors |-> << <<"rstop", r>>, <<"pipe0", r>>, <<"pipe1", r>> >>])

\* The steps of eb_srv_destroy, in order.
reactor_pool_stop ==
  FlattenSeq([r \in Reactors |->
    << <<"rstop", r>>, <<"pipe0", r>>, <<"pipe1", r>>, <<"rjoin", r>> >>])

wpool_stop == FlattenSeq([u \in Units |-> << <<"ustop", u>>, <<"ujoin", u>> >>])

\* Mutant: free(read_waits) is forgotten.
ebot_destroyLess(b) == << <<"epfd", b>>, <<"epevents", b>>, <<"write_waits", b>>, <<"base", b>> >>

ebot_destroy(b) ==
  << <<"epfd", b>>, <<"epevents", b>>, <<"write_waits", b>>, <<"read_waits", b>>, <<"base", b>> >>

reactor_pool_destroy == FlattenSeq([r \in Reactors |-> ebot_destroy(r)]) \o << <<"rp", 0>> >>

\* Mutant: every ring is freed twice.
wpool_destoryTwice ==
  FlattenSeq([u \in Units |-> << <<"rq", u>>, <<"efd", u>>, <<"rq", u>> >>]) \o << <<"wp", 0>> >>

wpool_destory ==
  FlattenSeq([u \in Units |-> << <<"rq", u>>, <<"efd", u>> >>]) \o << <<"wp", 0>> >>

Teardown ==
  << <<"stop", 0>> >> \o reactor_pool_stop \o wpool_stop \o reactor_pool_destroy
    \o wpool_destory \o << <<"event_pool", 0>>, <<"sfd", 0>> >> \o ebot_destroy(0)
    \o << <<"srv", 0>> >>

Now(kind) == destroy \in DOMAIN Teardown /\ Teardown[destroy][1] = kind
Whose     == Teardown[destroy][2]

\* Another thread calls eb_srv_destroy once the server runs.
eb_srv_destroy ==
  /\ process = "alive" /\ destroy = 0 /\ master \in {"loop", "wait", "send"}
  /\ destroy' = 1
  /\ UNCHANGED <<process, setup, files, master, i, status, threads, inpipe, conns>>

\* One step of eb_srv_destroy.  (What pthread_join does with a thread that was never
\* created is undefined; here it waits.)
Destroy ==
  /\ process = "alive" /\ destroy \in DOMAIN Teardown
  /\ Now("rjoin") => react[Whose] = "done"
  /\ Now("ujoin") => worker[Whose] = "done"
  /\ status' = IF Now("stop") THEN 0 ELSE status
  /\ rstatus' = IF Now("rstop") THEN [rstatus EXCEPT ![Whose] = 0] ELSE rstatus
  /\ ustatus' = IF Now("ustop") THEN [ustatus EXCEPT ![Whose] = 0] ELSE ustatus
  /\ held' = held \ {Teardown[destroy]}
  /\ IF Teardown[destroy] \in Files THEN Close(no[Teardown[destroy]]) ELSE UNCHANGED files
  /\ destroy' = destroy + 1
  /\ UNCHANGED <<process, step, no, master, i, react, inpipe, worker, conns>>
-----------------------------------------------------------------------------
Reactor(r) == PipeReported(r) \/ PipeRead(r) \/ ReactorLeaves(r)

Next ==
  \/ Acquire \/ AcquireFails
  \/ eb_srv_start \/ StartReactor \/ StartWorker
  \/ MasterTests \/ MasterTimesOut \/ Accept \/ Send
  \/ \E r \in Reactors : Reactor(r)
  \/ \E u \in Units : WorkerLeaves(u)
  \/ eb_srv_destroy \/ Destroy

Spec == Init /\ [][Next]_vars
-----------------------------------------------------------------------------
\* Type invariant.
TypeOK ==
  /\ process \in {"alive", "exit", "fault", "sigpipe"} /\ step \in 0 .. Len(Setup)
  /\ held \subseteq Memory
  /\ DOMAIN files \subseteq Numbers /\ ToSet(files) \subseteq Files \cup Conns
  /\ no \in [Files -> {0} \cup Numbers]
  /\ master \in {"off", "reactors", "workers", "loop", "wait", "send", "done"}
  /\ i \in Reactors \cup Units /\ status \in {0, 1}
  /\ rstatus \in [Reactors -> {0, 1}] /\ ustatus \in [Units -> {0, 1}]
  /\ react \in [Reactors -> {"none", "loop", "pipe", "done"}]
  /\ worker \in [Units -> {"none", "loop", "done"}]
  /\ inpipe \in [Reactors -> 0 .. MaxConns]
  /\ conns \in [count : 0 .. MaxConns, fd : {0} \cup Numbers]
  /\ destroy \in 0 .. Len(Teardown) + 1

\* What a reactor or a worker that has not left its loop may touch.
UsedByReactor(r) ==
  ToSet(BaseMemory(r)) \cup {<<"srv", 0>>, <<"event_pool", 0>>, <<"rp", 0>>, <<"wp", 0>>}
    \cup {<<"rq", u>> : u \in Units}
UsedByWorker(u) == {<<"srv", 0>>, <<"wp", 0>>, <<"rq", u>>}

\* eb_srv_destroy frees nothing that a reactor or a worker can still touch, whatever they
\* are doing when it is called.  (The master is not joined: see MasterRuns.)
ThreadsUseHeld ==
  /\ \A r \in Reactors : react[r] \in {"loop", "pipe"} => UsedByReactor(r) \subseteq held
  /\ \A u \in Units : worker[u] = "loop" => UsedByWorker(u) \subseteq held

\* eb_srv_destroy frees only what is allocated, and closes under a number only the
\* descriptor it was given for, although accept hands closed numbers out again.
FreesItsOwn ==
  destroy \in DOMAIN Teardown =>
    LET o == Teardown[destroy]
    IN  /\ o \in Memory => o \in held
        /\ o \in Files => IsOpen(no[o], o)

\* eb_srv_destroy gives back all that eb_srv_new and eb_srv_listen acquired; only the
\* connections, which the library never closes, stay open.
NothingLeft ==
  destroy > Len(Teardown) => held = {} /\ ToSet(files) \subseteq Conns

\* Whatever cannot be had, eb_srv_new ends with its error message.
EveryFailureExits == process # "fault"

\* A write that fails does not kill the server.
NeverKilled == process # "sigpipe"

\* The master writes descriptors to pipes only, and reactors read them from pipes only:
\* a number that was closed under them stands for nothing else.
PipeNumbersTheirs ==
  /\ master = "send" /\ pfd \in DOMAIN files => files[pfd] = <<"pipe1", Chosen>>
  /\ \A r \in Reactors : LET n == no[<<"pipe0", r>>] IN
       react[r] = "pipe" /\ n \in DOMAIN files => files[n] = <<"pipe0", r>>

\* When the server's loop starts, all its threads exist.
ThreadsCreated ==
  master \in {"loop", "wait", "send"} =>
    /\ \A r \in Reactors : react[r] # "none"
    /\ \A u \in Units : worker[u] # "none"
=============================================================================
