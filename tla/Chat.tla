-------------------------------- MODULE Chat --------------------------------
(***************************************************************************)
(* The chat server of chat_server_example.c: an application whose three    *)
(* callbacks share a table of connections.  on_connect runs in the         *)
(* master's thread, on_recv and on_close in the worker of the connection;  *)
(* each walks through the table and writes a message to every other        *)
(* connection in it.                                                       *)
(*                                                                         *)
(* The server underneath is what module Server shows it to be: the packs   *)
(* of a connection reach its worker in order, one worker handles the packs *)
(* of all its connections one after the other, and a pack may be handled   *)
(* while EB_CONNECT of its connection still runs.  Sockets never fill.     *)
(***************************************************************************)
EXTENDS Naturals, Sequences, SequencesExt

CONSTANTS N,          \* connections, whose descriptors are 1 .. N
          fsz,        \* workers
          Talkers,    \* the clients that send anything
          MaxSend     \* bound on the chunks each of them sends

ASSUME ChatAssumption ==
  N \in Nat \ {0} /\ fsz \in Nat \ {0} /\ Talkers \subseteq 1 .. N /\ MaxSend \in Nat

Fds     == 1 .. N
Workers == 1 .. fsz
Master  == 0
Threads == {Master} \cup Workers

VARIABLES
  conns,      \* the table: the descriptors whose entry is not 0
  run,        \* what each thread does: the message it sends round, the place it has
              \* reached in the table, and whether it has found a receiver there
  q,          \* the packs waiting for each worker
  client,     \* each client: "none", "open" or "closed"
  sent,       \* chunks each client has sent
  inbox,      \* the messages written to each open connection
  reset,      \* kernel: closed connections that have been written to already
  audience,   \* history: who has been in the table, and open, since the message was begun
  killed      \* whether SIGPIPE has ended the process

vars == <<conns, run, q, client, sent, inbox, reset, audience, killed>>

peers == <<q, client, sent>>

Message(kind, fd, n) == [kind |-> kind, from |-> fd, n |-> n]
Idle == [msg |-> Message("none", 0, 0), slot |-> 0, found |-> FALSE]

\* main registers these three with eb_srv_on; EB_WRITE has no callback.
Registered == {"connect", "recv", "close"}

Init ==
  /\ conns = {} /\ run = [t \in Threads |-> Idle]
  /\ q = [w \in Workers |-> <<>>]
  /\ client = [c \in Fds |-> "none"] /\ sent = [c \in Fds |-> 0]
  /\ inbox = [c \in Fds |-> <<>>] /\ reset = {}
  /\ audience = [t \in Threads |-> {}] /\ killed = FALSE
-----------------------------------------------------------------------------
\* Mutant: the pack goes to the worker with the shortest queue.
WorkerOfShortest(c) ==
  CHOOSE w \in Workers : \A v \in Workers : Len(q[w]) <= Len(q[v])

\* fd % num chooses the worker.
WorkerOf(c) == (c % fsz) + 1

\* A client sends a chunk or closes, and its reactor passes the pack on.
Pack(c, m) == q' = [q EXCEPT ![WorkerOf(c)] = Append(@, m)]

ClientSend(c) ==
  /\ ~killed /\ client[c] = "open" /\ c \in Talkers /\ sent[c] < MaxSend
  /\ sent' = [sent EXCEPT ![c] = @ + 1]
  /\ Pack(c, Message("recv", c, sent[c] + 1))
  /\ UNCHANGED <<conns, run, client, inbox, reset, audience, killed>>

ClientClose(c) ==
  /\ ~killed /\ client[c] = "open"
  /\ client' = [client EXCEPT ![c] = "closed"]
  /\ Pack(c, Message("close", c, sent[c] + 1))
  /\ audience' = [t \in Threads |-> audience[t] \ {c}]
  /\ UNCHANGED <<conns, run, sent, inbox, reset, killed>>
-----------------------------------------------------------------------------
Begin(t, m, table) ==
  /\ run' = [run EXCEPT ![t] = [msg |-> m, slot |-> 1, found |-> FALSE]]
  /\ audience' = [audience EXCEPT ![t] = {c \in table \ {m.from} : client[c] = "open"}]

\* ebot_srv_accept: the descriptor is with its reactor already when on_connect enters it in
\* the table.  The kernel gives out increasing numbers, since none is closed.
Connect(c) ==
  /\ ~killed /\ run[Master] = Idle /\ client[c] = "none"
  /\ \A d \in Fds : d < c => client[d] # "none"
  /\ client' = [client EXCEPT ![c] = "open"]
  /\ run' = [run EXCEPT ![Master] = [msg |-> Message("connect", c, 0), slot |-> 0, found |-> FALSE]]
  /\ UNCHANGED <<conns, q, sent, inbox, reset, audience, killed>>

Enter ==
  /\ ~killed /\ run[Master] # Idle /\ run[Master].slot = 0
  /\ conns' = conns \cup {run[Master].msg.from}
  /\ Begin(Master, run[Master].msg, conns)
  /\ UNCHANGED <<peers, inbox, reset, killed>>

\* eb_srv_factory_exec: the worker calls on_recv or on_close.
Work(w) ==
  /\ ~killed /\ run[w] = Idle /\ q[w] # <<>>
  /\ Head(q[w]).kind \in Registered
  /\ q' = [q EXCEPT ![w] = Tail(@)]
  /\ Begin(w, Head(q[w]), conns)
  /\ UNCHANGED <<conns, client, sent, inbox, reset, killed>>
-----------------------------------------------------------------------------
\* Mutant: the loop visits one entry too many.
LoopTestMore(i) == i <= N + 1

\* Mutant: the loop stops one entry early.
LoopTestLess(i) == i < N

\* The loop over the table (MAX_CONN entries, of which those above N stay 0).
LoopTest(i) == i <= N

\* The test of an entry, or the end of the loop.
Test(t) ==
  LET r == run[t] IN
  /\ ~killed /\ r.slot > 0 /\ ~r.found /\ LoopTest(r.slot)
  /\ run' = [run EXCEPT ![t] = IF r.slot \in conns /\ r.slot # r.msg.from
                                 THEN [r EXCEPT !.found = TRUE]
                                 ELSE [r EXCEPT !.slot = @ + 1]]
  /\ UNCHANGED <<conns, peers, inbox, reset, audience, killed>>

\* The write reads the entry again.  An entry that has been cleared since sends the message
\* to descriptor 0.  A closed connection answers the first write with a reset, and the
\* next one raises SIGPIPE, which nothing in the program catches.
Write(t) ==
  LET r == run[t]
      c == r.slot
  IN
  /\ ~killed /\ r.found
  /\ run' = [run EXCEPT ![t] = [r EXCEPT !.slot = @ + 1, !.found = FALSE]]
  /\ inbox' = IF c \in conns /\ client[c] = "open"
                THEN [inbox EXCEPT ![c] = Append(@, r.msg)] ELSE inbox
  /\ reset' = IF c \in conns /\ client[c] = "closed" THEN reset \cup {c} ELSE reset
  /\ killed' = (c \in conns /\ c \in reset)
  /\ UNCHANGED <<conns, peers, audience>>

\* The entries cleared when the callback for m has gone through the table.
Cleared(m) == IF m.kind = "close" THEN {m.from} ELSE {}

Returning(t) == run[t].slot > 0 /\ ~run[t].found /\ ~LoopTest(run[t].slot)

\* The callback returns; on_close first clears the entry of its connection.
Return(t) ==
  /\ ~killed /\ Returning(t)
  /\ run' = [run EXCEPT ![t] = Idle]
  /\ conns' = conns \ Cleared(run[t].msg)
  /\ audience' = [s \in Threads |-> IF s = t THEN {} ELSE audience[s] \ Cleared(run[t].msg)]
  /\ UNCHANGED <<peers, inbox, reset, killed>>

Callback(t) == Test(t) \/ Write(t) \/ Return(t)

Next ==
  \/ \E c \in Fds : Connect(c) \/ ClientSend(c) \/ ClientClose(c)
  \/ Enter
  \/ \E w \in Workers : Work(w)
  \/ \E t \in Threads : Callback(t)

Spec == Init /\ [][Next]_vars
-----------------------------------------------------------------------------
Messages == [kind : {"none"} \cup Registered, from : {0} \cup Fds, n : 0 .. MaxSend + 1]

\* Type invariant.
TypeOK ==
  /\ conns \subseteq Fds
  /\ run \in [Threads -> [msg : Messages, slot : 0 .. N + 1, found : BOOLEAN]]
  /\ q \in [Workers -> Seq(Messages)] /\ inbox \in [Fds -> Seq(Messages)]
  /\ client \in [Fds -> {"none", "open", "closed"}]
  /\ sent \in [Fds -> 0 .. MaxSend]
  /\ reset \subseteq Fds /\ killed \in BOOLEAN
  /\ audience \in [Threads -> SUBSET Fds]

\* A client hears what another one says in the order it was said, each thing once, and
\* nothing after it was told that the other one has closed; it never hears itself.
InOrder ==
  \A c \in Fds : \A j, k \in DOMAIN inbox[c] :
    /\ inbox[c][j].from # c
    /\ j < k /\ inbox[c][j].from = inbox[c][k].from
         /\ "connect" \notin {inbox[c][j].kind, inbox[c][k].kind}
       => inbox[c][j].n < inbox[c][k].n

\* A message reaches everybody who was in the table, and open, from the beginning to the end
\* of the callback that sends it, whatever other callbacks do to the table meanwhile.
BroadcastReaches ==
  \A t \in Threads :
    Returning(t) => \A c \in audience[t] : Contains(inbox[c], run[t].msg)

\* Nobody is told that a client has connected after being told that it has closed.
ConnectedBeforeClosed ==
  \A c \in Fds : \A j, k \in DOMAIN inbox[c] :
    /\ inbox[c][j].from = inbox[c][k].from
    /\ inbox[c][j].kind = "close" /\ inbox[c][k].kind = "connect" => k < j

\* A write that fails is reported, and the server goes on.
NeverKilled == ~killed
=============================================================================
