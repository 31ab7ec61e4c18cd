------------------------------- MODULE Server -------------------------------
(***************************************************************************)
(* The running server of ebot.c: the master thread that accepts, the       *)
(* reactor threads that own the connections, the pool of event structures  *)
(* they share, and the workers that run the callbacks.                     *)
(*                                                                         *)
(* The master sends each accepted descriptor through a pipe to the reactor *)
(* fd % rsz, which registers a read and a write event for it; what the     *)
(* reactor reads goes to the ring of worker fd % fsz.  The parts are used  *)
(* by their promises: event bases from EventBase, the pool as a stack      *)
(* (SlabStack), a ring as a bounded queue whose worker never misses an     *)
(* item (Ringq, Wpool).  A chunk is what one recv of STREAM_BUF_SIZE bytes *)
(* returns.                                                                *)
(***************************************************************************)
EXTENDS Integers, FiniteSets, Sequences, SequencesExt

CONSTANTS
  memory_pool_size, reactor_num, factory_num, max_connections,  \* eb_settings
  RingCap,    \* packs a ring holds
  PipeCap,    \* descriptors a pipe holds
  Attempts,   \* bound: connections the clients open
  MaxSend,    \* bound: chunks sent on a connection
  CtlFails,   \* epoll_ctl may run out of memory
  MaxFails    \* bound: how often recv finds nothing (EAGAIN) or fails (EINTR)

ASSUME ServerAssumption ==
  /\ {memory_pool_size, reactor_num, factory_num, max_connections} \subseteq Int
  /\ {RingCap, PipeCap, Attempts, MaxSend} \subseteq Nat \ {0}
  /\ CtlFails \in BOOLEAN /\ MaxFails \in Nat

\* The fallbacks of eb_srv_new for settings that are not positive.
OrFour(n) == IF n <= 0 THEN 4 ELSE n

\* Mutant: one event for each reactor, none for the listening socket.
pszReactorsOnly == OrFour(reactor_num)

psz == OrFour(memory_pool_size)
rsz == OrFour(reactor_num)
fsz == OrFour(factory_num)

Reactors == 0 .. rsz - 1
Units    == 0 .. fsz - 1
Slabs    == 1 .. psz
Conns    == 1 .. Attempts
NULL     == -1

\* Descriptors: the listening socket, the read end of each pipe, the connections.
Listen  == 0
Pipe(r) == -(r + 1)
Handles == {Listen} \cup {Pipe(r) : r \in Reactors} \cup Conns

\* The master's base is numbered after the reactors' ones.
Master == rsz
BaseOf == [h \in Handles |-> IF h = Listen THEN Master
                             ELSE IF h < 0 THEN -h - 1 ELSE h % rsz]

VARIABLES
  fd, kide, queued, read_waits, write_waits, readies, interest, edge,  \* EventBase
  idle,         \* the idle slabs of event_pool, the next to hand out first
  backlog,      \* connections waiting in the listening socket
  arrived,      \* connections opened so far
  conn,         \* "none", "open", or "fin" when the peer has closed
  sent, inbox,  \* chunks sent on a connection, and those not yet read
  fails,        \* calls of recv that failed so far
  pipe,         \* the descriptors in each reactor's pipe
  mpc, mfd,     \* where the master is, and the descriptor it handles
  total_conns,
  rpc, cfd,     \* where each reactor is, and the descriptor of its callback
  pack,         \* the pack_data it is about to push: a chunk number, 0 for len = 0
  ring,         \* the packs in each worker's ring
  calls,        \* history: the callbacks run for each connection
  dropped,      \* history: packs lost because a ring was full
  dead          \* "no", or how the process ended

base   == <<fd, kide, queued, read_waits, write_waits, readies, interest, edge>>
net    == <<backlog, arrived, conn, sent, inbox, fails>>
master == <<mpc, mfd, total_conns>>
react  == <<rpc, cfd, pack>>
work   == <<ring, calls, dropped>>
vars   == <<base, idle, net, pipe, master, react, work, dead>>

\* What the kernel would report for each descriptor; a socket is always writable.
Level ==
  [h \in Handles |->
     IF h = Listen THEN IF backlog > 0 THEN {"EPOLLIN"} ELSE {}
     ELSE IF h < 0 THEN IF pipe[-h - 1] # <<>> THEN {"EPOLLIN"} ELSE {}
     ELSE {"EPOLLOUT"} \cup IF inbox[h] > 0 \/ conn[h] = "fin" THEN {"EPOLLIN"} ELSE {}]

EB == INSTANCE EventBase WITH Bases <- 0 .. rsz, Events <- Slabs, level <- Level
-----------------------------------------------------------------------------
\* eb_srv_new has run, and eb_srv_start has created the threads.
Init ==
  /\ fd = [s \in Slabs |-> 0] /\ kide = [s \in Slabs |-> EB!E_READ]
  /\ queued = [s \in Slabs |-> NULL]
  /\ read_waits = [h \in Handles |-> NULL] /\ write_waits = [h \in Handles |-> NULL]
  /\ readies = [b \in 0 .. rsz |-> <<>>]
  /\ interest = [h \in Handles |-> {}] /\ edge = {}
  /\ idle = [n \in Slabs |-> psz + 1 - n]
  /\ backlog = 0 /\ arrived = 0 /\ conn = [c \in Conns |-> "none"]
  /\ sent = [c \in Conns |-> 0] /\ inbox = [c \in Conns |-> 0]
  /\ fails = 0 /\ pipe = [r \in Reactors |-> <<>>]
  /\ mpc = "start" /\ mfd = 0 /\ total_conns = 0
  /\ rpc = [r \in Reactors |-> "start"] /\ cfd = [r \in Reactors |-> 0]
  /\ pack = [r \in Reactors |-> 0]
  /\ ring = [u \in Units |-> <<>>]
  /\ calls = [c \in Conns |-> <<>>] /\ dropped = [c \in Conns |-> 0]
  /\ dead = "no"
-----------------------------------------------------------------------------
(* The clients and the kernel. *)

ClientConnect ==
  /\ arrived < Attempts
  /\ arrived' = arrived + 1 /\ backlog' = backlog + 1
  /\ edge' = edge \cup {Listen}
  /\ UNCHANGED <<fd, kide, queued, read_waits, write_waits, readies, interest, idle,
                 conn, sent, inbox, fails, pipe, master, react, work, dead>>

Arrives(c) ==
  /\ edge' = edge \cup {c}
  /\ UNCHANGED <<fd, kide, queued, read_waits, write_waits, readies, interest, idle,
                 backlog, arrived, fails, pipe, master, react, work, dead>>

ClientSend(c) ==
  /\ conn[c] = "open" /\ sent[c] < MaxSend
  /\ sent' = [sent EXCEPT ![c] = @ + 1] /\ inbox' = [inbox EXCEPT ![c] = @ + 1]
  /\ Arrives(c) /\ UNCHANGED conn

ClientClose(c) ==
  /\ conn[c] = "open"
  /\ conn' = [conn EXCEPT ![c] = "fin"]
  /\ Arrives(c) /\ UNCHANGED <<sent, inbox>>
-----------------------------------------------------------------------------
(* The event pool, and event_read or event_write with ebot_add_event. *)

CtlResults == IF CtlFails THEN BOOLEAN ELSE {TRUE}

\* Mutant: an event that could not be added is not put back.
GetAndAddNoPut(h, k, ok) ==
  /\ idle # <<>>
  /\ EB!event_set(Head(idle), h, k)
  /\ EB!ebot_add_event(Head(idle), h, k, ok)
  /\ idle' = Tail(idle)
  /\ UNCHANGED readies

\* mpool_get_with_lock, fill in the event and add it; if that fails, put it back.
GetAndAdd(h, k, ok) ==
  /\ idle # <<>>
  /\ EB!event_set(Head(idle), h, k)
  /\ EB!ebot_add_event(Head(idle), h, k, ok)
  /\ idle' = IF EB!AddWorks(h, ok) THEN Tail(idle) ELSE idle
  /\ UNCHANGED readies

\* ebot_del_event and mpool_put_with_lock.
DelAndPut(e) ==
  /\ EB!ebot_del_event(e)
  /\ idle' = <<e>> \o idle
  /\ UNCHANGED <<fd, kide, queued, readies>>
-----------------------------------------------------------------------------
(* The master thread. *)

\* eb_srv_start: without an event for the listening socket the process exits.
MasterStart ==
  /\ mpc = "start"
  /\ IF idle = <<>>
       THEN dead' = "exit" /\ UNCHANGED <<base, idle, mpc>>
       ELSE \E ok \in CtlResults :
              /\ GetAndAdd(Listen, EB!E_READ, ok)
              /\ dead' = IF ok THEN dead ELSE "exit"
              /\ mpc' = "wait"
  /\ UNCHANGED <<net, pipe, mfd, total_conns, react, work>>

MasterLoop ==
  /\ mpc = "wait"
  /\ EB!ebot_loop(Master)
  /\ UNCHANGED <<idle, net, pipe, master, react, work, dead>>

\* accept returns the lowest descriptor that is free.
NewFd == CHOOSE c \in Conns : /\ conn[c] = "none"
                              /\ \A d \in Conns : conn[d] = "none" => c <= d

\* ebot_srv_accept: one accept for each call; over the limit, close at once.
AcceptRefuse ==
  /\ mpc = "wait"
  /\ EB!dispatch_events(Master)
  /\ total_conns > max_connections
  /\ backlog' = backlog - 1
  /\ UNCHANGED <<read_waits, write_waits, interest, edge, idle, arrived, conn, sent,
                 inbox, fails, pipe, master, react, work, dead>>

\* The descriptor goes to its reactor; a full pipe is only logged.
AcceptAdmit ==
  LET c == NewFd
      r == c % rsz
  IN  /\ mpc = "wait"
      /\ EB!dispatch_events(Master)
      /\ total_conns <= max_connections
      /\ backlog' = backlog - 1
      /\ conn' = [conn EXCEPT ![c] = "open"]
      /\ IF Len(pipe[r]) < PipeCap
           THEN /\ pipe' = [pipe EXCEPT ![r] = Append(@, c)]
                /\ edge' = edge \cup {Pipe(r)}
           ELSE UNCHANGED <<pipe, edge>>
      /\ mpc' = "connect" /\ mfd' = c
      /\ UNCHANGED <<read_waits, write_waits, interest, idle, arrived, sent, inbox,
                     fails, total_conns, react, work, dead>>

\* Mutant: only a new maximum is counted, as if closed connections freed their place.
AcceptConnectReused ==
  /\ mpc = "connect"
  /\ calls' = [calls EXCEPT ![mfd] = Append(@, <<"EB_CONNECT", 0>>)]
  /\ total_conns' = Cardinality({c \in Conns : conn[c] = "open"})
  /\ mpc' = "wait"
  /\ UNCHANGED <<base, idle, net, pipe, mfd, react, ring, dropped, dead>>

\* The rest of ebot_srv_accept, after the descriptor has been sent.
AcceptConnect ==
  /\ mpc = "connect"
  /\ calls' = [calls EXCEPT ![mfd] = Append(@, <<"EB_CONNECT", 0>>)]
  /\ total_conns' = total_conns + 1
  /\ mpc' = "wait"
  /\ UNCHANGED <<base, idle, net, pipe, mfd, react, ring, dropped, dead>>

MasterThread == MasterStart \/ MasterLoop \/ AcceptRefuse \/ AcceptAdmit \/ AcceptConnect
-----------------------------------------------------------------------------
(* A reactor thread. *)

Goto(r, l) == rpc' = [rpc EXCEPT ![r] = l]

\* reactor_pool_exec: assert(e != NULL), then the pipe is registered.
ReactorStart(r) ==
  /\ rpc[r] = "start"
  /\ IF idle = <<>>
       THEN dead' = "assert" /\ UNCHANGED <<base, idle, rpc>>
       ELSE \E ok \in CtlResults :
              /\ GetAndAdd(Pipe(r), EB!E_READ, ok)
              /\ dead' = IF ok THEN dead ELSE "exit"
              /\ Goto(r, "loop")
  /\ UNCHANGED <<net, pipe, master, cfd, pack, work>>

ReactorLoop(r) ==
  /\ rpc[r] = "loop"
  /\ EB!ebot_loop(r)
  /\ UNCHANGED <<idle, net, pipe, master, react, work, dead>>

\* dispatch_events calls the callback of the first ready event, with the fields the
\* structure has now.  The write callback only runs EB_WRITE.
Dispatch(r) ==
  LET e == Head(readies[r])
  IN  /\ rpc[r] = "loop"
      /\ EB!dispatch_events(r)
      /\ queued[e] = r
      /\ cfd' = [cfd EXCEPT ![r] = fd[e]]
      /\ Goto(r, IF kide[e] = EB!E_WRITE THEN "loop"
                 ELSE IF fd[e] < 0 THEN "pipe" ELSE "read")
      /\ UNCHANGED <<read_waits, write_waits, interest, edge, idle, net, pipe, master,
                     pack, work, dead>>

\* TAILQ_REMOVE of an event whose links were wiped or belong to another queue.
DispatchCorrupt(r) ==
  /\ rpc[r] = "loop" /\ readies[r] # <<>> /\ queued[Head(readies[r])] # r
  /\ dead' = "queue"
  /\ UNCHANGED <<base, idle, net, pipe, master, react, work>>

\* reactor_pool_pipe_callback: one read for each call.
PipeRead(r) ==
  /\ rpc[r] = "pipe"
  /\ IF pipe[r] = <<>>
       THEN Goto(r, "loop") /\ UNCHANGED <<pipe, cfd>>
       ELSE /\ cfd' = [cfd EXCEPT ![r] = Head(pipe[r])]
            /\ pipe' = [pipe EXCEPT ![r] = Tail(@)]
            /\ Goto(r, "add_read")
  /\ UNCHANGED <<base, idle, net, master, pack, work, dead>>

\* Its two registrations: with no slab left it gives up on what remains.
PipeAdd(r, k, from, to) ==
  /\ rpc[r] = from
  /\ IF idle = <<>>
       THEN Goto(r, "loop") /\ UNCHANGED <<base, idle>>
       ELSE /\ \E ok \in CtlResults : GetAndAdd(cfd[r], k, ok)
            /\ Goto(r, to)
  /\ UNCHANGED <<net, pipe, master, cfd, pack, work, dead>>

PipeAddRead(r)  == PipeAdd(r, EB!E_READ, "add_read", "add_write")
PipeAddWrite(r) == PipeAdd(r, EB!E_WRITE, "add_write", "loop")

\* Mutant: the result of recv is not tested.
ReadableAlways(c) == TRUE

\* recv finds data on connection c.
Readable(c) == inbox[c] > 0

\* Mutant: data.len is not set.
NextChunkNoLen(c) == 0

\* The number of the chunk recv returns; data.len is its length.
NextChunk(c) == sent[c] - inbox[c] + 1

\* reactor_pool_client_read_callback, up to the switch on what readn returned:
\* n > 0, the connection is closed (-2), nothing to read (0) or an error (-1).
ReadChunk(r) ==
  LET c == cfd[r]
  IN  /\ rpc[r] = "read" /\ Readable(c)
      /\ pack' = [pack EXCEPT ![r] = NextChunk(c)]
      /\ inbox' = [inbox EXCEPT ![c] = @ - 1]
      /\ Goto(r, "push")
      /\ UNCHANGED <<base, idle, backlog, arrived, conn, sent, fails, pipe, master, cfd,
                     work, dead>>

ReadOther(r, to) ==
  /\ rpc[r] = "read"
  /\ pack' = [pack EXCEPT ![r] = 0]
  /\ Goto(r, to)
  /\ UNCHANGED <<base, idle, backlog, arrived, conn, sent, inbox, pipe, master, cfd,
                 work, dead>>

ReadClosed(r) ==
  /\ ReadOther(r, "close_read") /\ UNCHANGED fails
  /\ inbox[cfd[r]] = 0 /\ conn[cfd[r]] = "fin"

\* recv may find nothing although epoll reported the descriptor (the EAGAIN branch of
\* readn, which returns 0), or fail (-1).
RecvFails == fails < MaxFails /\ fails' = fails + 1
ReadNone(r)  == ReadOther(r, "push") /\ RecvFails
ReadError(r) == ReadOther(r, "loop") /\ RecvFails

\* Mutant: the events of a closed connection are not deleted.
CloseEventKept(r, waits, from, to) ==
  /\ rpc[r] = from
  /\ Goto(r, to)
  /\ UNCHANGED <<base, idle, net, pipe, master, cfd, pack, work, dead>>

\* The connection is closed: its events are deleted and put back, one after the other.
CloseEvent(r, waits, from, to) ==
  /\ rpc[r] = from
  /\ IF waits[cfd[r]] # NULL THEN DelAndPut(waits[cfd[r]]) ELSE UNCHANGED <<base, idle>>
  /\ Goto(r, to)
  /\ UNCHANGED <<net, pipe, master, cfd, pack, work, dead>>

\* Mutant: only the read event is deleted.
CloseWriteKept(r) ==
  /\ rpc[r] = "close_write"
  /\ Goto(r, "push")
  /\ UNCHANGED <<base, idle, net, pipe, master, cfd, pack, work, dead>>

CloseRead(r)  == CloseEvent(r, read_waits, "close_read", "close_write")
CloseWrite(r) == CloseEvent(r, write_waits, "close_write", "push")

\* Every outcome but an error ends in a push; a full ring drops the pack.
PushPack(r) ==
  LET c == cfd[r]
      u == c % fsz
  IN  /\ rpc[r] = "push"
      /\ IF Len(ring[u]) < RingCap
           THEN ring' = [ring EXCEPT ![u] = Append(@, <<c, pack[r]>>)] /\ UNCHANGED dropped
           ELSE dropped' = [dropped EXCEPT ![c] = @ + 1] /\ UNCHANGED ring
      /\ Goto(r, "loop")
      /\ UNCHANGED <<base, idle, net, pipe, master, cfd, pack, calls, dead>>

ReactorThread(r) ==
  \/ ReactorStart(r) \/ ReactorLoop(r) \/ Dispatch(r) \/ DispatchCorrupt(r)
  \/ PipeRead(r) \/ PipeAddRead(r) \/ PipeAddWrite(r)
  \/ ReadChunk(r) \/ ReadClosed(r) \/ ReadNone(r) \/ ReadError(r)
  \/ CloseRead(r) \/ CloseWrite(r) \/ PushPack(r)
-----------------------------------------------------------------------------
\* eb_srv_factory_exec: a pack of length 0 is a close.
Work(u) ==
  LET c == Head(ring[u])[1]
      n == Head(ring[u])[2]
  IN  /\ ring[u] # <<>>
      /\ ring' = [ring EXCEPT ![u] = Tail(@)]
      /\ calls' = [calls EXCEPT ![c] =
                     Append(@, IF n = 0 THEN <<"EB_CLOSE", 0>> ELSE <<"EB_RECV", n>>)]
      /\ UNCHANGED <<base, idle, net, pipe, master, react, dropped, dead>>
-----------------------------------------------------------------------------
Next ==
  /\ dead = "no"
  /\ \/ ClientConnect
     \/ \E c \in Conns : ClientSend(c) \/ ClientClose(c)
     \/ MasterThread
     \/ \E r \in Reactors : ReactorThread(r)
     \/ \E u \in Units : Work(u)

Spec == Init /\ [][Next]_vars

\* The threads of the server run; the clients do as they like.
FairSpec ==
  /\ Spec
  /\ WF_vars(dead = "no" /\ MasterThread)
  /\ \A r \in Reactors : WF_vars(dead = "no" /\ ReactorThread(r))
  /\ \A u \in Units : WF_vars(dead = "no" /\ Work(u))
-----------------------------------------------------------------------------
\* Type invariant.
TypeOK ==
  /\ EB!TypeOK
  /\ idle \in Seq(Slabs)
  /\ backlog \in Nat /\ arrived \in 0 .. Attempts
  /\ conn \in [Conns -> {"none", "open", "fin"}]
  /\ sent \in [Conns -> 0 .. MaxSend] /\ inbox \in [Conns -> 0 .. MaxSend]
  /\ fails \in 0 .. MaxFails /\ pipe \in [Reactors -> Seq(Conns)]
  /\ mpc \in {"start", "wait", "connect"} /\ mfd \in Conns \cup {0} /\ total_conns \in Nat
  /\ rpc \in [Reactors -> {"start", "loop", "pipe", "add_read", "add_write", "read",
                           "close_read", "close_write", "push"}]
  /\ cfd \in [Reactors -> Handles] /\ pack \in [Reactors -> 0 .. MaxSend]
  /\ ring \in [Units -> Seq(Conns \X (0 .. MaxSend))]
  /\ dead \in {"no", "exit", "assert", "queue"}

InUse == {e \in Slabs : \E h \in Handles : e \in {read_waits[h], write_waits[h]}}

\* No event structure is lost or handed out twice: at any moment a slab is either idle
\* or waiting in exactly one place, also after failed registrations and closes.
SlabsAccounted ==
  /\ ToSet(idle) = Slabs \ InUse
  /\ \A m, n \in DOMAIN idle : idle[m] = idle[n] => m = n
  /\ \A h, g \in Handles :
       /\ read_waits[h] # NULL => read_waits[h] # write_waits[g]
       /\ read_waits[h] = read_waits[g] /\ h # g => read_waits[h] = NULL
       /\ write_waits[h] = write_waits[g] /\ h # g => write_waits[h] = NULL

\* Of the callbacks the workers run for a connection, those of received chunks run in the
\* order they were sent, none twice, and none runs after its EB_CLOSE.
CallbackOrder ==
  \A c \in Conns : \A m, n \in DOMAIN calls[c] :
    (m < n /\ calls[c][m][1] # "EB_CONNECT" /\ calls[c][n][1] # "EB_CONNECT")
      => /\ calls[c][m][1] = "EB_RECV"
         /\ calls[c][n][1] = "EB_RECV" => calls[c][m][2] < calls[c][n][2]

\* EB_CLOSE is run only for a connection whose peer has closed it.
CloseOnlyWhenClosed ==
  \A c \in Conns : Contains(calls[c], <<"EB_CLOSE", 0>>) => conn[c] = "fin"

\* No thread unlinks an event whose queue links have been overwritten.
QueueIntact == dead # "queue"

\* assert(e != NULL) in reactor_pool_exec holds.
PipeEventAvailable == dead # "assert"

\* The limit counts every connection ever admitted, closed ones too, and admits one more
\* than max_connections: total_conns is never decremented, and compared with >.
AdmissionLimit == Cardinality({c \in Conns : conn[c] # "none"}) <= max_connections + 1

Served(c) == read_waits[c] # NULL /\ write_waits[c] # NULL

\* Every chunk that arrives on a fully registered connection reaches the EB_RECV
\* callback, unless a full ring dropped a pack of it: one recv for each report is
\* enough, because the second registration made the descriptor level-triggered.
ChunksDelivered ==
  \A c \in Conns : \A n \in 1 .. MaxSend :
    (sent[c] >= n /\ Served(c))
      ~> (Contains(calls[c], <<"EB_RECV", n>>) \/ dropped[c] > 0)

\* When the peer closes, EB_CLOSE runs and both event structures go back to the pool.
CloseDelivered ==
  \A c \in Conns :
    (conn[c] = "fin" /\ Served(c))
      ~> (/\ read_waits[c] = NULL /\ write_waits[c] = NULL
          /\ Contains(calls[c], <<"EB_CLOSE", 0>>) \/ dropped[c] > 0)

\* A descriptor that was sent to a reactor reaches it.
FdsReachReactor ==
  \A r \in Reactors : \A c \in Conns : Contains(pipe[r], c) ~> ~Contains(pipe[r], c)

\* Every client that connects is accepted and gets its EB_CONNECT.
ClientsConnected == \A n \in 1 .. Attempts : arrived >= n ~> total_conns >= n
=============================================================================
