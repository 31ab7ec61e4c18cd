# ebot: specifications, model checking and proofs

`ebot` is a small TCP server framework in C: a master thread accepts
connections, reactor threads own them and read from them with epoll, worker
threads run the application's callbacks. This directory holds TLA+ models of
its parts, TLC configurations that check them on small instances, and proofs
that TLAPS checks for every value of the constants. All line numbers refer to
`src/ebot.c` unless another file is named.

## 1. The system

### Components

| Component | State | Operations | Correct when |
|---|---|---|---|
| Ring queue `ringq` (160-407) | a byte buffer with `head`, `tail`, `size`, `num`, one mutex | `ringq_new`, `ringq_push`, `ringq_pop`, the `_with_lock` variants | items come out whole, once, in order; an item is refused only when it does not fit; the `err_exit` in `ringq_pop` is never reached |
| Worker pool `wpool` / factory (516-661) | per unit a ring, an eventfd, a `status`, a thread; `wp->status` | `wpool_new`, `wpool_start`, `wpool_exec`, `wpool_stop`, `wpool_destory` | no worker sleeps on a queued item or on its stop request; every accepted item is handled; nothing runs on freed memory; stopping ends |
| Memory pool `mpool` (666-793) | `slab_num` slabs in one doubly linked list, a `used` flag each | `mpool_new`, `mpool_get`, `mpool_put` | no slab is lost or handed out twice; a get fails only when all are in use; no NULL link is followed |
| Event base (814-1100) | `read_waits`, `write_waits`, `event_readies`, the epoll set; per event `fd`, `kide`, `queued` | `ebot_new`, `event_read`, `event_write`, `ebot_add_event`, `ebot_del_event`, `ebot_loop`, `dispatch_events` | epoll watches exactly what events wait for; an event is queued at most once; a callback gets the descriptor that was reported |
| Reactor pool (1146-1390) | per reactor a base, a pipe, a thread and a `status` | `reactor_pool_exec`, pipe / read / write callbacks, `reactor_pool_stop` | every descriptor sent to it is registered; received data and closes reach the workers in order; events go back to the pool |
| Server `ebot_srv` (1394-1678, `ebot.h`) | the settings, master base, listening socket, `total_conns`, callbacks | `eb_srv_new`, `eb_srv_listen`, `eb_srv_start`, `ebot_srv_accept`, `eb_srv_factory_exec`, `eb_srv_destroy` | each client gets EB_CONNECT, its data EB_RECV and its close EB_CLOSE |
| `writen` (1216-1238) | - | sends until all is sent or the socket refuses | bytes go out once, in order; only a refusal cuts a call short (not called in the repository) |
| `Vec` / `vec_*` (101-155) | an array, its length and capacity | push, pop, get, clear, splice | it is a sequence; nothing is written outside it (not used in the repository) |
| Chat example (`chat_server_example.c`) | a table of connections shared by the callbacks of all threads | `on_connect`, `on_recv`, `on_close` | everybody hears a client, in order; a failed write does no harm |
| `sys/queue.h` (vendored) | the links of a tail queue | TAILQ_INIT, _INSERT_TAIL, _REMOVE, _FIRST | a ready queue is a FIFO queue, whole at every link |
| `err_*`, `test.c`, PHP clients | - | messages, clients | no state |
| `sys/tree.h`, `sys/_time.h`, `include/hashtable.h` | - | macros | vendored and not used |

### How they interact

The master's base reports the listening socket; `ebot_srv_accept` accepts one
client and writes its descriptor to the pipe of reactor `fd % rsz`, and then
runs EB_CONNECT in the master thread. The reactor's base reports the pipe;
`reactor_pool_pipe_callback` reads one descriptor, takes two event structures
from the pool *shared by all threads*, and registers a read and a write event.
When the connection is readable the read callback makes one `recv` and pushes
the result, a `pack_data`, on the ring of worker `fd % fsz` and writes the
worker's eventfd. The worker pops and runs EB_RECV, or EB_CLOSE for a pack of
length 0. EB_WRITE runs in the reactor.

### What is hard

* *Sleep and wake*: push and signal are two steps, pop and blocking are two
  more, and `wpool_stop` uses the same eventfd after clearing a status.
* *Edge and level triggering*: `ebot_add_event` asks for EPOLLET for read
  events only, and a second registration on the descriptor drops it.
* *Structures that outlive their use*: an event goes back to the shared pool
  while it is still linked in a ready queue.
* *Limits*: a full ring, a full pipe, an exhausted event pool, a ring position
  where the header crosses the end of the buffer.
* *Partial failure*: `epoll_ctl` may fail for either registration, `realloc` for
  either of two tables, any acquisition of `eb_srv_new` half way through a base.
* *Descriptor numbers*: the kernel gives the lowest free number out again, so a number
  kept by a thread after its `close` may stand for something else.
* *Shutdown beside running threads*: `eb_srv_destroy` joins the reactors and workers,
  but not the master.
* *Callbacks of several threads* without a lock in the application.

`PROJECT.json` lists these one by one, at their lines, under `hazards`.

## 2. Modules

| Module | Models | Uses |
|---|---|---|
| `Fifo` | what a ring queue promises | |
| `Ringq`, `MCRingq` | the ring queue, byte by byte | implements `Fifo` |
| `RingqProofs` | proofs about `Ringq` | `Ringq` |
| `SlabStack` | what the memory pool promises | |
| `Mpool`, `MCMpool` | the linked list of the memory pool | implements `SlabStack` |
| `MpoolProofs` | proofs about `Mpool` | `Mpool` |
| `Wpool` | workers, eventfds, start and stop | a ring as a counter |
| `WpoolProofs` | proofs about `Wpool` | `Wpool` |
| `EventBase`, `MCEventBase` | tables, epoll set, ready queue | |
| `EventBaseProofs` | proofs about `EventBase` | `EventBase` |
| `WaitTables` | growth of the wait tables | the tables of `EventBase` as sets of descriptors |
| `ReadyQueue` | what a ready queue promises | |
| `TailQ` | the TAILQ links of the ready queues | implements `ReadyQueue` |
| `BaseDataProofs` | proofs about `TailQ`, `WaitTables` and `Vec` | `TailQ`, `WaitTables`, instance of `Vec` |
| `Server` | master, reactors, workers and clients together | instance of `EventBase`; pool as `SlabStack`, rings as `Fifo` |
| `ServerProofs` | proofs about `Server` | `Server` |
| `Life` | from `eb_srv_new` to the end of `eb_srv_destroy` | reactors and workers as places |
| `LifeProofs` | proofs about `Life` | `Life` |
| `Chat` | the callbacks of the chat example | the order of packs that `Server` shows |
| `ChatProofs` | proofs about `Chat` and `Writen` | `Chat`, instance of `Writen` |
| `Writen` | `writen` | |
| `Vector` | what the vector promises | |
| `Vec` | the vector | implements `Vector` |

Operators whose comment begins with *Mutant* are wrong versions of the
definition they precede. They are in no specification; each one put in the
place of that definition makes TLC report the property it is paired with in
`PROJECT.json`.

### Correspondence with the code

**Ringq.** `mem` has `size + 4` bytes: `size` ring bytes (one more than the
capacity asked for) and the spare bytes into which the length header of an item
that starts at the end of the ring runs over. `PushItem` and `PopItem` have the
three cases of the code: in one piece; payload split at the end; header alone at
the end, the payload continued where a wrapped header would have ended. Lengths
are stored as four little-endian bytes. Push and pop hold the mutex throughout,
so each is one action. `ret = 1` stands for the `err_exit` of `ringq_pop`. The
dump functions only print.

**Mpool.** Slabs are numbered by address, NULL is 0. `GetHead` and `MoveToHead`
make the code's link assignments. `GetFault` is the dereference of
`s->next->prev` when the pool has one slab. `mpool_put` of an idle slab returns
without effect in the code, and so is no step here.

**Wpool.** One action per step that another thread can observe: the push and
the write of the eventfd by a reactor; the status test, the pop, the callback
and the read of the eventfd by a worker; each assignment, write and join of
`wpool_start`, `reactor_pool_stop` and `wpool_stop`. `eb_srv_destroy` stops the
reactors first, then the pool. The ring is its number of items.

**EventBase.** `queued` combines the flag and the queue links of an event: the
base in whose ready queue it is linked, or NULL. `interest`, `edge` and `level`
are the kernel's side of epoll, modelled from its use: a level-triggered
descriptor is reported whenever it is ready, an edge-triggered one once for each
arrival or `epoll_ctl` call. `ebot_loop` queues what is reported in any order;
`dispatch_events` is one pass of its loop, up to the callback. Descriptors are
below `EP_SIZE`, so that the tables are not resized; what happens above is
`WaitTables`, and what a ready queue is made of is `TailQ`.

**WaitTables.** A table is the set of descriptors whose entry is not NULL, and the
first size `EP_SIZE` (1024 in the code) is a constant. `Resized` gives the three
outcomes of `_resize_epoll_events`: both tables doubled and their entries from
`epsz` on cleared; nothing changed; `eb->read_waits` given up. `Seen` is the
reading of the entries before the resize, which for a descriptor outside the
table may give anything. Descriptors become known in increasing order, because the
kernel hands out the lowest one. The entry is written where the code writes it;
one that lies outside is recorded in `astray`.

**TailQ.** A link is named by what holds it: a base holds `tqh_first`, an event its
`tqe_next`; so `tqh_last` and `tqe_prev`, which are addresses of links, are such
names. An event that leaves a queue keeps its own links, as in the macro. `event_set`
is only done to events in no queue here; what becomes of the others is `server_stale`.

**Life.** `Setup` lists what is acquired until the server listens, in order, and
`Teardown` what `eb_srv_destroy` does, in order; each element is one step that other
threads can observe. `held` is the allocated memory, `files` says what each descriptor
number stands for, and `no` what number the server remembers for it.
`EndOnError` says how a failure ends: mostly in `err_exit`, in the error paths of
`ebot_new` and `wpool_new` with a pointer that is NULL or not set. A failing
`ebot_new` frees the memory of the base (`FreedOnError`); its epoll descriptor cannot be open yet. The master goes on while the
memory of its loop is held (`MasterRuns`); once it is freed its behaviour is undefined
and the model leaves it where it is. Connections stay open, since the code closes only
those over the limit.

**Chat.** A callback is three actions: `Test` looks at one entry, `Write` reads it again
and writes, `Return` ends it. `Enter` is the entry made by `on_connect`, after the
descriptor went to its reactor. The table entries of larger descriptors than `N`
stay empty. A message is its kind, its sender and the number of the chunk. A
closed peer answers the first write with a reset; the next one raises SIGPIPE.

**Writen, Vec.** Bytes are numbered by their place in the buffer; `answer` is what `send`
did. `Expanded` keeps the code's order: the capacity is doubled before `realloc` has
answered. The assertions of `vec_pop` and `vec_get` and a splice within the length are
what callers have to see to, and are guards.

**Server.** The places of a reactor (`rpc`) are the points at which another
thread can come in between: each lock of the pool, each read or write of a pipe,
socket or ring. Data is abstracted to chunk numbers (what one `recv` returns); a
pack is a connection and a chunk number, 0 for `len = 0`. `calls` records the
callbacks of each connection (without EB_WRITE) and `dropped` the packs a full ring
refused. `NewFd` is the lowest free descriptor; the code never closes one, so none
is reused. `dead` says how the process ended: `err_exit`, the assertion, or a
ready queue unlinked through overwritten links.

The worker is one action here (`Work`), because `Wpool` shows that no interleaving
of its steps loses an item; the ring and the pool are the promises that `Ringq`
and `Mpool` are shown to keep.

## 3. Runs

| Run | Instance | What it shows |
|---|---|---|
| `ringq` | capacities 4-15, items of 0-3 bytes, two byte values | the ring implements `Fifo` (`FifoSpec`); `num`, `head` and `tail` agree (`Accounting`); no push overwrites the header of a queued item (`HeadersIntact`); no pop exits (`NeverExits`) |
| `mpool` | 1-5 slabs | the list always holds every slab, idle ones first (`WellFormed`); no NULL link with two slabs or more (`NoNullDeref`); a get fails only when all are busy (`NoFalseExhaustion`); the pool is a stack (`StackSpec`) |
| `wpool` | 2 workers, 2 reactors, rings of 1 item, 2 items per unit | `NoLostWakeup`, `FreedWhenQuiet`; every item is handled (`EveryItemHandled`), `eb_srv_destroy` gets through (`DestroyReturns`) |
| `eventbase` | 1 base, 2 descriptors, 3 events | tables and epoll set agree although `epoll_ctl` fails at will (`InterestMatchesWaits`), entries belong where they are (`WaitsAreTheirs`), `queued` is exact (`QueuedOnce`) |
| `server_two` | 2 reactors sharing 5 events (two are left for 2 connections that would need four), 1 worker, rings and pipes of one place, `epoll_ctl` failing at will | callbacks of a connection in order, nothing after EB_CLOSE (`CallbackOrder`); EB_CLOSE only for closed peers (`CloseOnlyWhenClosed`, given that `recv` after a report finds something); no event structure lost or handed out twice (`SlabsAccounted`), no failed assertion (`PipeEventAvailable`) |
| `server_live` | 4 events, `max_connections = 0`, one failing `recv` | what is sent on a registered connection reaches EB_RECV (`ChunksDelivered`), a close reaches EB_CLOSE and frees the events (`CloseDelivered`); closed connections count towards the limit (`AdmissionLimit`) |
| `resize_once` | first size 3, descriptors 0-5 | while one doubling is enough no event is lost (`EntriesKept`) and nothing is written outside (`WritesInside`) |
| `ready_queue` | 2 bases, 3 events | the links are consistent (`LinksAgree`) and the queues are those of `ReadyQueue` (`QueueSpec`) |
| `life_destroy` | 2 reactors, 2 workers, 3 connections, most acquisitions may fail | a destroy at any moment frees nothing in use by reactors or workers (`ThreadsUseHeld`), nothing twice and no number that is another's (`FreesItsOwn`), and leaves only connections (`NothingLeft`) |
| `chat_room` | 3 clients, 2 workers, one client that says two things | each hears another in order and nothing after its close (`InOrder`); a broadcast reaches all who stay (`BroadcastReaches`) |
| `server_pipe` | 1 reactor, a pipe of 2 places, 2 connections; a violation is expected | a descriptor can stay in the pipe (`FdsReachReactor`) |
| `server_stale` | 2 reactors, 7 events, 2 connections; a violation is expected | an event freed while queued is reused (`QueueIntact`) |

### Why the bounds are enough

* `ringq`: with items of 4-7 bytes in rings of 5-16 bytes the head reaches every
  position modulo the size, so every case of push and pop is met: header
  across the end, payload across the end, ring exactly full and one byte short, rings
  too small for any item.
* `mpool`: unlinking takes different branches for the head, the tail and a slab
  in the middle; five slabs have all three with neighbours to spare. The proofs
  cover every size.
* `wpool`: two reactors can be between push and signal for the same unit, and two
  workers make the start and stop loops pass more than once. The safety properties
  are proved for every number.
* `server_*`: two connections are the least for which a second one can arrive
  before the first is handled; two reactors the least that can race for the pool.
  `Attempts`, `MaxSend` and `MaxFails` bound what clients and the kernel do and
  appear in the guards of `ClientConnect`, `ClientSend` and `RecvFails` only.
  `max_connections = 0` makes the limit itself happen (one client is admitted,
  the next is refused).
* `resize_once`: a first size of 3 has descriptors inside, at the edge and outside. Six
  descriptors are all that one doubling makes room for.
* `ready_queue`: the end, the middle and the whole of a queue can be removed with three
  events, and an event can pass from one base to another.
* `life_destroy`: with two reactors one is still running when the other's pipe has been closed
  and its number is free; three connections are enough to take both numbers of a pipe.
  `MaxConns` is in the guard of `Accept` only.
* `chat_room`: three clients are a sender and two receivers, so that a loop can be
  between two receivers when another callback changes the table; two workers and the
  master give three callbacks at a time. Only one client talks (`Talkers`), all connect and
  close.
`CHECK_DEADLOCK FALSE` is used where the system really may stop: a pool of one slab
that has faulted, a server whose clients have nothing more to say, one that has
been destroyed, a process that has exited.

### Fairness

`Wpool!Fairness` and `Server!FairSpec` assume that a thread that can run does run,
and (through the actions that stand for them) that application callbacks return.
The scheduler guarantees the first; the second is a requirement on the
application, since a callback that does not return blocks its worker. Nothing is
assumed of the clients, of `eb_srv_destroy` being called, or of `epoll_ctl` or
`recv` succeeding. One weak fairness condition per thread suffices, because a
thread is at one place at a time; a worker blocked in a read is not enabled.

## 4. Where the code and its statements disagree

Two runs show a behaviour of the modelled code that violates what the code says:

* **`server_pipe`**: the pipe has one registration and so is edge-triggered, and the
  callback reads one descriptor per report. Of two descriptors written before the
  report is handled the second stays in the pipe until a third one is written; its
  connection is not served meanwhile.
* **`server_stale`**: the read callback of a closed connection puts the write event back
  into the pool while it is still in the ready queue. Another reactor may take it
  and `memset` it before this one unlinks it.

The models show more of this kind. TLC reports each of the following properties as
violated when the configuration of a run is given the constants and the property
named here; they are defined in the modules, at their end.

| Property | From | Constants | What happens |
|---|---|---|---|
| `Server!PipeEventAvailable` | `server_two` | `memory_pool_size`, `reactor_num`, `factory_num` = 0, `CtlFails` = FALSE, `Attempts` = 1 | with all sizes left at 0, `eb_srv_new` makes 4 events and 4 reactors, and the master takes an event too: `assert(e != NULL)` (1333) can fail |
| `Server!ClientsConnected` | `server_pipe` | as there | of two clients before one report of the listening socket the second is not accepted |
| `Server!CloseOnlyWhenClosed` | `server_live` | `max_connections` = 10, `Attempts` = 1, `MaxSend` = 1 | `readn` returns 0 when there is nothing to read, and the read callback pushes a pack of length 0, which the worker takes for a close (this assumes that `recv` may find nothing after a report, the case the EAGAIN branch is written for) |
| `WaitTables!EntriesKept` | `resize_once` | `EP_SIZE` = 2, `MaxFd` = 7 | `_resize_epoll_events` clears from `epsz` on, which stays at the first size: the second doubling (at descriptor 2048 in the code) wipes entries whose descriptors epoll still reports |
| `WaitTables!WritesInside` | `resize_once` | `EP_SIZE` = 2, `MaxFd` = 2, `MayFail` = TRUE | the result of the resizing is ignored, and the entry is written outside the table, or into one that has moved |
| `Life!EveryFailureExits` | `life_destroy` | `MayFail` = {"base", "wp", "efd", "rq"} | the error paths of `ebot_new` (946) and `wpool_new` (580, 652) use pointers that are NULL or were never set, before `eb_srv_new` can print its message |
| `Life!NeverKilled` | `life_destroy` | `MayFail` = {} | `reactor_pool_stop` closes the reading end of a pipe (1361) that the master may still write to: SIGPIPE |
| `Life!PipeNumbersTheirs` | `life_destroy` | `MayFail` = {} | the number of a pipe that `reactor_pool_stop` has closed is given to a new connection, and a reactor about to read from its pipe reads from the connection |
| `Life!ThreadsCreated` | `life_destroy` | `MayFail` = {"thread"} | `pthread_create` reports errors by positive numbers and the code tests for negative ones (610, 1350): the server runs without a thread |
| `Chat!ConnectedBeforeClosed` | `chat_room` | `N` = 2, `MaxSend` = 0 | EB_CONNECT runs after the descriptor has been handed over (1451), so another thread may have finished EB_CLOSE first; the entry made by `on_connect` then stays |
| `Chat!NeverKilled` | `chat_room` | `N` = 2, `MaxSend` = 1 | a client that has closed is written to until its EB_CLOSE has gone round; the second write kills the server, which meant to print a message |

In `Vec`, whose `vec_push` cannot see that `vec_expand` has failed, `WritesInside` does
not hold when `realloc` may fail; the theorems about it have that as a hypothesis.

Other things noticed while reading: the file does not
compile as it is (530 declares `wpool_destory` before the type `wpool`, 547-552);
descriptors are never closed and `total_conns` never decremented, so that the server
stops admitting clients after `max_connections + 1` (`AdmissionLimit`);
`eb_settings.facotry_ringq_size`, the backlog, the timeout and `writer_num` have no
effect; the chat example clears 8 bytes of its table (84) and has 1024 places for up to
10087 connections.

## 5. Proofs

The runs show the properties on small instances, the theorems for every value of the
constants. They rest on the `ASSUME`s of the modules only: sizes are natural numbers and
those that count threads, capacities or clients are positive; items are at most `INT_MAX`
long (`RingqAssumption`); pools are not empty (`MpoolAssumption`); each descriptor has one
base, there are finitely many events, and NULL is neither an event nor a base
(`EventBaseAssumption`, `TailQAssumption`). What a theorem needs beyond that is a hypothesis of it.

| Module | Inductive invariant | Theorems |
|---|---|---|
| `RingqProofs` | `TypeOK`, `Accounting`, `HeadersIntact`, `NeverExits` | `RingqTypeOK`, `RingqAccounting`, `RingqHeadersIntact`, `RingqNeverExits`, `RingqImplementsFifo` |
| `MpoolProofs` | `PoolInv` | `PoolTypeOK`, `PoolWellFormed`, `PoolNeverFaults`, `GetFailsOnlyWhenEmpty`, `PoolIsStack` |
| `WpoolProofs` | `IInv` | `TypeCorrect`, `NoWakeupIsLost`, `NothingRunsFreed` |
| `EventBaseProofs` | `TablesInv`, `QueuesInv` | `InterestAlwaysMatches`, `WaitsAlwaysTheirs`, `NeverQueuedTwice`, `EventBaseTypeOK` |
| `BaseDataProofs` | for `TailQ` `IInv`, and `Spells` for the refinement; for `WaitTables` `TablesInv`; for `Vec` `VecInv` | `TypeCorrect`, `QueuesWellLinked`, `NoRemovalFaults`, `LinksAreQueues`; `TablesTypeCorrect`, `OneDoublingKeepsEntries`, `OneDoublingMakesRoom`; `NeverWritesOutside`, `VecIsVector` |
| `ServerProofs` | `AllInv`, `PacksOK`, `OrderInv` | `ServerTypeOK`, `NoSlabLost`, `NeverOverLimit`, `PipesGetEvents`, `CallbacksInOrder`, `ClosesAreTrue` |
| `LifeProofs` | `IInv` | `LifeTypeOK`, `NothingFreedInUse`, `DestroyFreesItsOwn`, `DestroyLeavesNothing` |
| `ChatProofs` | `IInv`; `SentInv` | `ChatTypeOK`, `HeardInOrder`, `BroadcastsReach`; `BytesInOrder`, `NeverCutShort` |

**`RingqProofs`**, for rings of any size and items of any length. The four properties of the
run are inductive together. The difficulty is where the bytes lie: a header may cross the end
of the ring into the spare bytes, the payload then goes on where a wrapped header would have
ended, and a push must be shown to write none of the bytes of any queued item. The places of
an item are counted modulo the size; that four bytes give back the length they were made from
is `IntRoundTrip`. For the refinement, `ContentsShape` says what the queue of `Fifo` is for
given `head`, `tail`, `num` and bytes, and `PushImplements` and `PopImplements` that each call
adds one whole item at the end of it, or takes the first.

**`MpoolProofs`**, for pools of any size. `WellFormed` says that *some* order `ord` of
the slabs and some number `k` of idle ones describe all links and flags; together with
`TypeOK` and `NoNullDeref` it is inductive. Each action is proved by giving
the new order: `mpool_get` rotates the list by one place (`GetPool`), `mpool_put` moves
the slab at place `p` to the front and shifts those before it (`PutPool`, whose arithmetic is in
`ToFront` and `ToFrontPermutes`). `HeadOfList`
draws the two consequences `mpool_get` relies on. The stack that `SlabStack` speaks of is what
following `next` over idle slabs spells out, a recursive function; that it is the first `k`
members of `ord` is proved with the least place at which it would not be (`LeastNumber`), and
`PoolIsStack` follows since each new order has the stack that a get or a put leaves.

**`WpoolProofs`**, for any number of workers and reactors and any capacity.
`NoLostWakeup` speaks of blocked workers; it is not inductive, since a worker that
is about to block must be covered too. `Signalled` extends it to the worker
between its status test and the read: if its status has been cleared since the test,
the eventfd is positive or `wpool_stop` is about to write it. `Where` ties the loop
index of the controlling thread to the place it is at, so that the write of
the eventfd goes to the unit whose status was cleared, and says that a status is 1
when it is decremented. `Joined` says how far the joins have come.
`IInv == TypeOK /\ Where /\ Signalled /\ Joined` is inductive.

**`EventBaseProofs`**, for any number of bases, descriptors and events.
`InterestMatchesWaits` is not inductive alone: `ebot_del_event` goes by the `fd` and
`kide` of the event it is given, so `WaitsAreTheirs` is needed, and with the types
of the tables it is enough (`TablesInv`). `QueuedOnce` needs only the types of the queues
(`QueuesInv`): `ebot_loop` queues what is reported in some order of a set, without the events
whose flag is set.

**`BaseDataProofs`**, on the ready queues, for any number of bases and events. `LinksAgree` speaks of each link
on its own and does not say in which queue an event is; but `TAILQ_REMOVE` sets the end of
*the base's* queue, so an induction needs to know that an event reached from a base
belongs to it. `OwnedBy(own)` says so for a witness `own`, the base of each queued event; the
invariant is that some `own` satisfies it. Each removal keeps `own`, each insertion extends
it. For the refinement the witness is a whole sequence for each base: `Spells` says that
links, ends and marks are those of the sequences `q`. Following the links gives these sequences
back (`ChainOf`; a queue has no event twice, hence is not longer than the path
`Chain` follows), and inserting, removing and setting an event change `q` as `ReadyQueue` says.

On the wait tables, for any first size and any bound, given that descriptors stay
below twice that size and `realloc` does not fail (section 4 says what happens otherwise). `EntriesKept` and `WritesInside` are proved together:
`Fits` adds that the size is the first one or its double and that entries lie within the
tables, so that what the one resize clears is empty.

On `Vec`, which grows its memory in the same way, when `realloc` does not fail: `VecFits` says that the
memory is what the capacity promises, `PushFits` and `SpliceFits` what the array holds afterwards,
and for each operation there is the step of `Vector` it makes (`PushSimulates`,
`PopSimulates`, `SpliceSimulates`).

**`ServerProofs`**, for any number of reactors, workers, event structures and connections.
* `EventsInv` says where each event structure is: idle in the pool, in a wait table, or in the
  hands of the one reactor whose place accounts for it (`InUse`). `QueuedOnce` of `EventBase` cannot be part of it,
  because an event that is freed may still be linked (`server_stale`); what does hold, and is
  enough, is that a queued event is on the base of its descriptor and that a queued read
  event still is the one that waits (`QueuedOK`).
* `ConnsInv` says where each connection is: with the master, in one pipe, or registered with
  its reactor, and what each place of each thread says of the event or connection in its hands.
  `AllInv == EventsInv /\ ConnsInv` is inductive and gives `NoSlabLost`.
* `NeverOverLimit` and `PipesGetEvents` count: a connection holds two structures at most, a
  base one for its pipe or the listening socket. The second needs `psz > rsz + 2 * (max_connections + 1)`. With smaller pools
  (`eb_default_setting`, 1495, has 4096 structures for 10086 connections)
  the assertion is not covered, and section 4 has an instance in which it fails.
* `OrderInv` follows the packs of a connection on their way: those called, those in the ring,
  the one in the reactor's hands and those not yet taken from the socket have keys that
  grow along the way, where the key of a close is larger than that of every chunk, and after a close nothing is read.
  `CallbacksInOrder` and `ClosesAreTrue` follow when `MaxFails = 0`, that is, while `recv` finds
  something on every descriptor that was reported. Otherwise they are false (section 4).

**`LifeProofs`**, for any number of reactors, workers and connections and whatever may fail.
`Setup` and `Teardown` are concatenations over reactors and workers, and the
first half of the module says what they list: `Lists(s, A)` means that the sequence `s`
holds the things of `A`, each once; `Spread` does a loop over reactors or workers, `Joined`
puts parts together, and `Belongings` collects the result: `Setup` and `Teardown` have nothing twice, `Teardown` has all that
`Setup` has, and every join comes before everything that is memory. With that
the state is described by how far the two have come (`Acquired`, `Gone`). `HeldOK`: what is
allocated is what was acquired and is not gone. `FilesOK`: a descriptor of the server is open
under its number exactly as long as it is acquired and not gone; its counting
part shows that there is always a number for a new one. `ThreadsOK`: threads exist
only on a complete server, and those joined are done. `PipesOK` says that a pipe whose callback is to run is not empty.
`FreesItsOwn` is not inductive alone, since it
speaks of the next step of `eb_srv_destroy` only.

**`ChatProofs`**, for any number of clients, workers and chunks. What a client has heard of
another comes before what a worker is sending round, and that comes before what is still in the
worker's queue (`HeardOK`, `RunOK`, `PacksOK`; `Ahead(d)` is what comes before all that is
queued of `d`). A client's packs all go through one worker, so no two callbacks send for the
same client at a time, except for EB_CONNECT, which is why `InOrder` leaves that
message out. `Reached` strengthens `BroadcastReaches` to a loop that is
still running: whoever was to be reached and has been passed has the message. The module also
holds the proofs about `writen`: the bytes taken are exactly those the code counts (`Progress`).

`Writen` and `Vec` model code that nothing in the repository calls. They have no run: their
lengths are unbounded, and the theorems say all that a run could.

**Only model-checked.** All liveness (`EveryItemHandled`, `DestroyReturns`, `ChunksDelivered`,
`CloseDelivered`): it needs fairness and ENABLED, which TLAPS does not handle. The two violations and the table of section 4 are counterexamples
that TLC finds.

## 6. Not modelled

* What the master does after `eb_srv_destroy` has freed its base and the server: undefined,
  and the model stops it there. An `eb_srv_destroy` before the server's threads have been
  started (`wpool_stop` then returns at once, 618).
* The contents of fresh memory in the chat example, and descriptors beyond its 1024 places.
* Messages (`err_*`), dump functions, `test.c`, the PHP clients: output only, or the
  environment of the models.
* `sys/tree.h`, `sys/_time.h`, `include/hashtable.h` and the macros of `sys/queue.h` other than
  the five of TAILQ in use: vendored, and used by no code of the repository.
* Errors of `fcntl`, `setsockopt` and `pthread_mutex_init`, which end the process or are
  ignored without changing any state of the models.

## 7. Plan

1. Done: `Ringq`/`Fifo`, `Mpool`/`SlabStack`, `Wpool`, `EventBase`, `Server`; `WaitTables`,
   `TailQ`/`ReadyQueue`, `Life`, `Chat`, `Writen`, `Vec`/`Vector`, with the proofs of section 5:
   every safety property that a passing run checks.
2. To come: theorems on what the runs do not ask, such as which of the statements of section 4
   hold under which conditions.
