---------------------------- MODULE ChatProofs ----------------------------
(***************************************************************************)
(* What is written to sockets: by the chat example, for any number of      *)
(* clients, workers and chunks, and by writen, which nothing in the        *)
(* repository calls, for buffers of any length.                            *)
(*                                                                         *)
(* InOrder is about what has been written.  It is kept because what has    *)
(* been written comes before what the worker of the sender sends round     *)
(* (HeardOK), and that before what it still has to take (RunOK), which is  *)
(* in order (PacksOK).  Reached says of every place in the loop what       *)
(* BroadcastReaches says of its end.                                       *)
(***************************************************************************)
EXTENDS Chat, TLAPS

\* The number of the last pack a client has given its reactor.
Newest(d) == IF client[d] = "closed" THEN sent[d] + 1 ELSE sent[d]

\* The chunks of d that come before everything its worker still has to take.
Ahead(d) ==
  {n \in 0 .. Newest(d) :
     \A w \in Workers : \A k \in 1 .. Len(q[w]) : q[w][k].from = d => n < q[w][k].n}

\* The packs in the queues: each with the worker of its connection, and in order.
PacksOK ==
  \A w \in Workers : \A j \in 1 .. Len(q[w]) :
    /\ q[w][j].kind \in {"recv", "close"} /\ q[w][j].from \in Fds
    /\ \A d \in Fds : q[w][j].from = d => WorkerOf(d) = w /\ q[w][j].n <= Newest(d)
    /\ \A k \in 1 .. Len(q[w]) : j < k /\ q[w][j].from = q[w][k].from => q[w][j].n < q[w][k].n

\* The callbacks that run: what a worker sends round comes before what it still has to take.
RunOK ==
  /\ \A t \in Threads :
       /\ run[t] = Idle \/ run[t].msg.from \in Fds
       /\ run[t].found => run[t].slot \in Fds /\ run[t].slot # run[t].msg.from
  /\ run[Master] = Idle \/ run[Master].msg.kind = "connect"
  /\ \A w \in Workers : \A d \in Fds : run[w].msg.from = d =>
       /\ run[w].msg.kind \in {"recv", "close"}
       /\ WorkerOf(d) = w /\ run[w].msg.n \in Ahead(d)

\* What a client has heard comes before what is still to be taken, and before what is being
\* sent round, unless the loop has passed the client.
HeardOK ==
  \A c, d \in Fds : \A j \in 1 .. Len(inbox[c]) :
    inbox[c][j].from = d /\ inbox[c][j].kind # "connect" =>
      /\ inbox[c][j].n \in Ahead(d)
      /\ \A w \in Workers : run[w].msg.from = d =>
           /\ inbox[c][j].n <= run[w].msg.n
           /\ run[w].slot <= c => inbox[c][j].n < run[w].msg.n

\* Who is in the audience of a callback is in the table and open, and has the message once
\* the loop has passed it.
Reached ==
  \A t \in Threads : \A c \in audience[t] :
    /\ run[t] # Idle /\ run[t].slot > 0 /\ c # run[t].msg.from
    /\ c \in conns /\ client[c] = "open"
    /\ run[t].slot > c => Contains(inbox[c], run[t].msg)

IInv == TypeOK /\ PacksOK /\ RunOK /\ HeardOK /\ InOrder /\ Reached
-----------------------------------------------------------------------------
LEMMA ConstFacts ==
  /\ N \in Nat /\ N > 0 /\ fsz \in Nat /\ fsz > 0 /\ MaxSend \in Nat
  /\ \A c \in Fds : c \in Nat /\ c > 0 /\ c <= N /\ WorkerOf(c) \in Workers
  /\ 0 \notin Fds /\ Master \notin Workers /\ Master \in Threads
  /\ Workers \subseteq Threads /\ \A t \in Threads : t \in Workers \/ t = Master
<1>1. N \in Nat /\ N > 0 /\ fsz \in Nat /\ fsz > 0 /\ MaxSend \in Nat
  BY ChatAssumption
<1>2. ASSUME NEW c \in Fds PROVE c \in Nat /\ c > 0 /\ c <= N /\ WorkerOf(c) \in Workers
  <2>1. c \in Nat /\ c > 0 /\ c <= N
    BY <1>1 DEF Fds
  <2>2. c % fsz \in 0 .. fsz - 1
    BY <1>1, <2>1
  <2> QED BY <1>1, <2>1, <2>2 DEF WorkerOf, Workers
<1> QED BY <1>1, <1>2 DEF Fds, Workers, Master, Threads

LEMMA InitHolds == Init => IInv
<1> SUFFICES ASSUME Init PROVE IInv
  OBVIOUS
<1> USE ConstFacts
<1>1. /\ conns = {} /\ run = [t \in Threads |-> Idle] /\ q = [w \in Workers |-> <<>>]
      /\ client = [c \in Fds |-> "none"] /\ sent = [c \in Fds |-> 0]
      /\ inbox = [c \in Fds |-> <<>>] /\ reset = {}
      /\ audience = [t \in Threads |-> {}] /\ killed = FALSE
  BY Zenon DEF Init
<1>2. /\ Idle.found = FALSE /\ Idle.msg.from = 0
      /\ Idle \in [msg : Messages, slot : 0 .. N + 1, found : BOOLEAN]
  BY DEF Idle, Message, Messages
<1>3. killed \in BOOLEAN
  BY <1>1, Zenon
<1>4. TypeOK
  BY <1>1, <1>2, <1>3 DEF TypeOK
<1>5. PacksOK /\ HeardOK /\ InOrder
  BY <1>1 DEF PacksOK, HeardOK, InOrder
<1>6. RunOK /\ Reached
  BY <1>1, <1>2 DEF RunOK, Reached
<1> QED BY <1>4, <1>5, <1>6 DEF IInv

\* A step that gives a reactor one more pack of c, numbered above all before.
LEMMA PackKeeps ==
  ASSUME IInv, NEW c \in Fds, NEW kind \in {"recv", "close"}, client[c] = "open",
         Pack(c, Message(kind, c, sent[c] + 1)),
         sent[c] + 1 \in 0 .. MaxSend + 1,
         Newest(c)' = sent[c] + 1, \A d \in Fds : d # c => Newest(d)' = Newest(d),
         run' = run, inbox' = inbox
  PROVE  PacksOK' /\ RunOK' /\ HeardOK' /\ InOrder' /\ q' \in [Workers -> Seq(Messages)]
<1> USE ConstFacts
<1>1. TypeOK /\ PacksOK /\ RunOK /\ HeardOK /\ InOrder
  BY DEF IInv
<1>2. PICK m : m = Message(kind, c, sent[c] + 1)
  OBVIOUS
<1>3. PICK v : v = WorkerOf(c)
  OBVIOUS
<1>4. m.kind = kind /\ m.from = c /\ m.n = sent[c] + 1 /\ m \in Messages /\ v \in Workers
  BY <1>1, <1>2, <1>3 DEF Message, Messages, Registered
<1>5. q' = [q EXCEPT ![v] = Append(q[v], m)] /\ q \in [Workers -> Seq(Messages)]
  BY <1>1, <1>2, <1>3 DEF Pack, TypeOK
<1>6. q' \in [Workers -> Seq(Messages)]
  BY <1>4, <1>5
<1>7. /\ \A w \in Workers : Len(q[w]) \in Nat
      /\ Len(q'[v]) = Len(q[v]) + 1 /\ q'[v][Len(q[v]) + 1] = m
      /\ \A k \in 1 .. Len(q[v]) : q'[v][k] = q[v][k]
      /\ \A w \in Workers : w # v => q'[w] = q[w]
  BY <1>4, <1>5
\* What is in a queue now was there, or is the new pack.
<1>8. \A w \in Workers : \A k \in 1 .. Len(q'[w]) :
        \/ k \in 1 .. Len(q[w]) /\ q'[w][k] = q[w][k]
        \/ w = v /\ k = Len(q[v]) + 1 /\ q'[w][k] = m
  BY <1>7
<1>10. Newest(c) = sent[c] /\ sent[c] \in Nat /\ \A d \in Fds : Newest(d) \in Nat
  BY <1>1 DEF TypeOK, Newest
<1>9. \A d \in Fds : Newest(d) \in Nat /\ Newest(d)' \in Nat /\ Newest(d) <= Newest(d)'
  BY <1>10
<1>11. \A w \in Workers : \A k \in 1 .. Len(q[w]) : q[w][k].n \in Nat /\ q[w][k].from \in Fds
  <2>1. \A w \in Workers : \A k \in 1 .. Len(q[w]) : q[w][k] \in Messages
    BY <1>5
  <2> QED BY <2>1, <1>1 DEF Messages, PacksOK
<1>12. \A d \in Fds : Ahead(d) \subseteq Ahead(d)'
  <2> SUFFICES ASSUME NEW d \in Fds, NEW n \in Ahead(d) PROVE n \in Ahead(d)'
    OBVIOUS
  <2>1. /\ n \in 0 .. Newest(d)
        /\ \A w \in Workers : \A k \in 1 .. Len(q[w]) : q[w][k].from = d => n < q[w][k].n
    BY DEF Ahead
  <2>2. n \in 0 .. Newest(d)'
    BY <1>9, <2>1
  <2>3. ASSUME NEW w \in Workers, NEW k \in 1 .. Len(q'[w]), q'[w][k].from = d PROVE n < q'[w][k].n
    <3>1. CASE k \in 1 .. Len(q[w]) /\ q'[w][k] = q[w][k]
      BY <2>1, <2>3, <3>1
    <3>2. CASE q'[w][k] = m
      BY <1>4, <1>10, <2>1, <2>3, <3>2
    <3> QED BY <1>8, <3>1, <3>2
  <2> QED BY <2>2, <2>3 DEF Ahead
<1>13. PacksOK'
  <2>1. ASSUME NEW w \in Workers, NEW j \in 1 .. Len(q'[w])
        PROVE  /\ q'[w][j].kind \in {"recv", "close"} /\ q'[w][j].from \in Fds
               /\ \A d \in Fds : q'[w][j].from = d => WorkerOf(d) = w /\ q'[w][j].n <= Newest(d)'
    <3>1. CASE j \in 1 .. Len(q[w]) /\ q'[w][j] = q[w][j]
      BY <1>1, <1>9, <1>11, <3>1 DEF PacksOK
    <3>2. CASE w = v /\ q'[w][j] = m
      BY <1>3, <1>4, <1>10, <3>2
    <3> QED BY <1>8, <3>1, <3>2
  <2>2. ASSUME NEW w \in Workers, NEW j \in 1 .. Len(q'[w]), NEW k \in 1 .. Len(q'[w]),
               j < k, q'[w][j].from = q'[w][k].from
        PROVE  q'[w][j].n < q'[w][k].n
    <3>1. CASE k \in 1 .. Len(q[w]) /\ q'[w][k] = q[w][k]
      <4>1. j \in 1 .. Len(q[w]) /\ q'[w][j] = q[w][j]
        BY <1>7, <1>8, <2>2, <3>1
      <4> QED BY <1>1, <2>2, <3>1, <4>1 DEF PacksOK
    <3>2. CASE w = v /\ k = Len(q[v]) + 1 /\ q'[w][k] = m
      <4>1. j \in 1 .. Len(q[w]) /\ q'[w][j] = q[w][j]
        BY <1>7, <1>8, <2>2, <3>2
      <4>2. q[w][j].from = c
        BY <1>4, <2>2, <3>2, <4>1
      <4>3. q[w][j].n <= Newest(c) /\ q[w][j].n \in Nat
        BY <1>1, <1>11, <4>1, <4>2 DEF PacksOK
      <4> QED BY <1>4, <1>10, <3>2, <4>1, <4>3
    <3> QED BY <1>8, <3>1, <3>2
  <2> QED BY <2>1, <2>2 DEF PacksOK
<1>14. RunOK'
  BY <1>1, <1>12 DEF RunOK
<1>15. HeardOK'
  BY <1>1, <1>12 DEF HeardOK
<1> QED BY <1>1, <1>6, <1>13, <1>14, <1>15 DEF InOrder

\* A client sends.
LEMMA SendKeeps ==
  ASSUME IInv, NEW c \in Fds, ClientSend(c)
  PROVE  IInv'
<1> USE ConstFacts
<1>1. TypeOK /\ Reached
  BY DEF IInv
<1>2. /\ sent' = [sent EXCEPT ![c] = sent[c] + 1] /\ client[c] = "open" /\ sent[c] < MaxSend
      /\ Pack(c, Message("recv", c, sent[c] + 1))
      /\ UNCHANGED <<conns, run, client, inbox, reset, audience>>
  BY DEF ClientSend
<1>3. sent[c] + 1 \in 0 .. MaxSend
  BY <1>1, <1>2 DEF TypeOK
<1>4. Newest(c)' = sent[c] + 1 /\ \A d \in Fds : d # c => Newest(d)' = Newest(d)
  BY <1>1, <1>2 DEF TypeOK, Newest
<1>5. PacksOK' /\ RunOK' /\ HeardOK' /\ InOrder' /\ q' \in [Workers -> Seq(Messages)]
  BY <1>2, <1>3, <1>4, PackKeeps
<1>6. killed' \in BOOLEAN
  BY <1>1, Zenon DEF ClientSend, TypeOK
<1>7. TypeOK'
  BY <1>1, <1>2, <1>3, <1>5, <1>6 DEF TypeOK
<1>8. Reached'
  BY <1>1, <1>2 DEF Reached
<1> QED BY <1>5, <1>7, <1>8 DEF IInv

\* A client closes.
LEMMA CloseKeeps ==
  ASSUME IInv, NEW c \in Fds, ClientClose(c)
  PROVE  IInv'
<1> USE ConstFacts
<1>1. TypeOK /\ Reached
  BY DEF IInv
<1>2. /\ client' = [client EXCEPT ![c] = "closed"] /\ client[c] = "open"
      /\ Pack(c, Message("close", c, sent[c] + 1))
      /\ audience' = [t \in Threads |-> audience[t] \ {c}]
      /\ UNCHANGED <<conns, run, sent, inbox, reset>>
  BY DEF ClientClose
<1>3. sent[c] + 1 \in 0 .. MaxSend + 1
  BY <1>1 DEF TypeOK
<1>4. Newest(c)' = sent[c] + 1 /\ \A d \in Fds : d # c => Newest(d)' = Newest(d)
  BY <1>1, <1>2 DEF TypeOK, Newest
<1>5. PacksOK' /\ RunOK' /\ HeardOK' /\ InOrder' /\ q' \in [Workers -> Seq(Messages)]
  BY <1>2, <1>3, <1>4, PackKeeps
<1>6. killed' \in BOOLEAN
  BY <1>1, Zenon DEF ClientClose, TypeOK
<1>7. TypeOK'
  BY <1>1, <1>2, <1>5, <1>6 DEF TypeOK
<1>8. Reached'
  BY <1>1, <1>2 DEF Reached, TypeOK
<1> QED BY <1>5, <1>7, <1>8 DEF IInv

\* Steps that leave the queues, and the numbers given out, alone.
LEMMA SameAhead ==
  ASSUME IInv, q' = q, \A d \in Fds : Newest(d)' = Newest(d)
  PROVE  PacksOK' /\ \A d \in Fds : Ahead(d)' = Ahead(d)
BY DEF IInv, PacksOK, Ahead

LEMMA ConnectKeeps ==
  ASSUME IInv, NEW c \in Fds, Connect(c)
  PROVE  IInv'
<1> USE ConstFacts
<1>1. TypeOK /\ RunOK /\ HeardOK /\ InOrder /\ Reached
  BY DEF IInv
<1>2. PICK r : r = [msg |-> Message("connect", c, 0), slot |-> 0, found |-> FALSE]
  OBVIOUS
<1>3. /\ client' = [client EXCEPT ![c] = "open"] /\ client[c] = "none" /\ run[Master] = Idle
      /\ run' = [run EXCEPT ![Master] = r]
      /\ UNCHANGED <<conns, q, sent, inbox, reset, audience>>
  BY <1>2 DEF Connect
<1>4. /\ r.msg.kind = "connect" /\ r.msg.from = c /\ r.found = FALSE /\ r.slot = 0
      /\ r \in [msg : Messages, slot : 0 .. N + 1, found : BOOLEAN]
  BY <1>2 DEF Message, Messages, Registered
<1>5. run'[Master] = r /\ \A w \in Workers : run'[w] = run[w]
  BY <1>1, <1>3 DEF TypeOK
<1>6. \A d \in Fds : Newest(d)' = Newest(d)
  BY <1>1, <1>3 DEF TypeOK, Newest
<1>7. PacksOK' /\ \A d \in Fds : Ahead(d)' = Ahead(d)
  BY <1>3, <1>6, SameAhead
<1>8. killed' \in BOOLEAN
  BY <1>1, Zenon DEF Connect, TypeOK
<1>9. TypeOK'
  BY <1>1, <1>3, <1>4, <1>8 DEF TypeOK
<1>10. RunOK'
  BY <1>1, <1>4, <1>5, <1>7 DEF RunOK
<1>11. HeardOK' /\ InOrder'
  BY <1>1, <1>3, <1>5, <1>7 DEF HeardOK, InOrder
<1>12. Reached'
  <2>1. audience[Master] = {}
    BY <1>1, <1>3 DEF Reached
  <2>2. \A d \in Fds : client[d] = "open" => client'[d] = "open"
    BY <1>1, <1>3 DEF TypeOK
  <2> QED BY <1>1, <1>3, <1>5, <2>1, <2>2 DEF Reached, TypeOK
<1> QED BY <1>7, <1>9, <1>10, <1>11, <1>12 DEF IInv

\* on_connect enters its connection and begins.
LEMMA EnterKeeps == IInv /\ Enter => IInv'
<1> SUFFICES ASSUME IInv, Enter PROVE IInv'
  OBVIOUS
<1> USE ConstFacts
<1>1. TypeOK /\ RunOK /\ HeardOK /\ InOrder /\ Reached
  BY DEF IInv
<1>2. PICK m : m = run[Master].msg
  OBVIOUS
<1>3. PICK r : r = [msg |-> m, slot |-> 1, found |-> FALSE]
  OBVIOUS
<1>4. /\ conns' = conns \cup {m.from} /\ run[Master] # Idle
      /\ run' = [run EXCEPT ![Master] = r]
      /\ audience' = [audience EXCEPT ![Master] = {c \in conns \ {m.from} : client[c] = "open"}]
      /\ UNCHANGED <<q, client, sent, inbox, reset>>
  BY <1>2, <1>3 DEF Enter, Begin, peers
<1>5. /\ m.kind = "connect" /\ m.from \in Fds /\ m \in Messages
      /\ r.msg = m /\ r.found = FALSE /\ r.slot = 1 /\ r # Idle
      /\ r \in [msg : Messages, slot : 0 .. N + 1, found : BOOLEAN]
  <2>1. m.kind = "connect" /\ m.from \in Fds /\ m \in Messages
    BY <1>1, <1>2, <1>4 DEF TypeOK, RunOK
  <2> QED BY <1>3, <2>1 DEF Idle
<1>6. run'[Master] = r /\ \A w \in Workers : run'[w] = run[w]
  BY <1>1, <1>4 DEF TypeOK
<1>7. PacksOK' /\ \A d \in Fds : Ahead(d)' = Ahead(d)
  <2>1. \A d \in Fds : Newest(d)' = Newest(d)
    BY <1>4 DEF Newest
  <2> QED BY <1>4, <2>1, SameAhead
<1>8. killed' \in BOOLEAN
  BY <1>1, Zenon DEF Enter, TypeOK
<1>9. TypeOK'
  BY <1>1, <1>4, <1>5, <1>8 DEF TypeOK
<1>10. RunOK'
  BY <1>1, <1>5, <1>6, <1>7 DEF RunOK
<1>11. HeardOK' /\ InOrder'
  BY <1>1, <1>4, <1>6, <1>7 DEF HeardOK, InOrder
<1>12. Reached'
  <2>1. ASSUME NEW c \in audience'[Master]
        PROVE  /\ run'[Master] # Idle /\ run'[Master].slot > 0 /\ c # run'[Master].msg.from
               /\ c \in conns' /\ client'[c] = "open" /\ ~(run'[Master].slot > c)
    <3>1. c \in conns \ {m.from} /\ client[c] = "open"
      BY <1>1, <1>4, <2>1 DEF TypeOK
    <3>2. c \in Nat /\ c > 0
      BY <1>1, <3>1 DEF TypeOK
    <3> QED BY <1>4, <1>5, <1>6, <3>1, <3>2
  <2>2. \A w \in Workers : audience'[w] = audience[w]
    BY <1>1, <1>4 DEF TypeOK
  <2> QED BY <1>1, <1>4, <1>6, <2>1, <2>2 DEF Reached
<1> QED BY <1>7, <1>9, <1>10, <1>11, <1>12 DEF IInv

\* A worker takes the next pack: what its clients have heard comes before it.
LEMMA WorkKeeps ==
  ASSUME IInv, NEW v \in Workers, Work(v)
  PROVE  IInv'
<1> USE ConstFacts
<1>1. TypeOK /\ PacksOK /\ RunOK /\ HeardOK /\ InOrder /\ Reached
  BY DEF IInv
<1>2. PICK m : m = Head(q[v])
  OBVIOUS
<1>3. PICK r : r = [msg |-> m, slot |-> 1, found |-> FALSE]
  OBVIOUS
<1>4. /\ q[v] # <<>> /\ run[v] = Idle
      /\ q' = [q EXCEPT ![v] = Tail(q[v])] /\ q \in [Workers -> Seq(Messages)]
      /\ run' = [run EXCEPT ![v] = r]
      /\ audience' = [audience EXCEPT ![v] = {c \in conns \ {m.from} : client[c] = "open"}]
      /\ UNCHANGED <<conns, client, sent, inbox, reset>>
  BY <1>1, <1>2, <1>3 DEF Work, Begin, TypeOK
<1>5. /\ Len(q[v]) \in Nat /\ 1 \in 1 .. Len(q[v]) /\ m = q[v][1] /\ m \in Messages
      /\ Len(q'[v]) = Len(q[v]) - 1
      /\ \A k \in 1 .. Len(q'[v]) : k + 1 \in 1 .. Len(q[v]) /\ q'[v][k] = q[v][k + 1]
      /\ \A w \in Workers : w # v => q'[w] = q[w]
      /\ q' \in [Workers -> Seq(Messages)]
  <2>1. q[v] \in Seq(Messages) /\ q[v] # <<>>
    BY <1>4
  <2>2. Len(q[v]) \in Nat /\ 1 \in 1 .. Len(q[v]) /\ m = q[v][1] /\ m \in Messages
    BY <1>2, <2>1
  <2>3. q'[v] = Tail(q[v]) /\ \A w \in Workers : w # v => q'[w] = q[w]
    BY <1>4
  <2> QED BY <1>4, <2>1, <2>2, <2>3
<1>6. \A w \in Workers : \A k \in 1 .. Len(q'[w]) : \E j \in 1 .. Len(q[w]) :
        q'[w][k] = q[w][j] /\ (w = v => j = k + 1) /\ (w # v => j = k)
  BY <1>5
<1>7. /\ m.kind \in {"recv", "close"} /\ m.from \in Fds /\ m.n \in Nat
      /\ WorkerOf(m.from) = v /\ m.n <= Newest(m.from)
  BY <1>1, <1>5 DEF PacksOK, Messages
<1>8. \A d \in Fds : Newest(d)' = Newest(d)
  BY <1>4 DEF Newest
<1>9. \A d \in Fds : Ahead(d) \subseteq Ahead(d)'
  <2> SUFFICES ASSUME NEW d \in Fds, NEW n \in Ahead(d) PROVE n \in Ahead(d)'
    OBVIOUS
  <2>1. /\ n \in 0 .. Newest(d)
        /\ \A w \in Workers : \A k \in 1 .. Len(q[w]) : q[w][k].from = d => n < q[w][k].n
    BY DEF Ahead
  <2>2. \A w \in Workers : \A k \in 1 .. Len(q'[w]) : q'[w][k].from = d => n < q'[w][k].n
    BY <1>6, <2>1
  <2> QED BY <1>8, <2>1, <2>2 DEF Ahead
<1>10. m.n \in Ahead(m.from)'
  <2>1. ASSUME NEW w \in Workers, NEW k \in 1 .. Len(q'[w]), q'[w][k].from = m.from
        PROVE  m.n < q'[w][k].n
    <3>1. PICK j \in 1 .. Len(q[w]) : q'[w][k] = q[w][j] /\ (w = v => j = k + 1)
      BY <1>6
    <3>2. w = v
      BY <1>1, <1>7, <2>1, <3>1 DEF PacksOK
    <3>3. 1 < j
      BY <3>1, <3>2
    <3> QED BY <1>1, <1>5, <2>1, <3>1, <3>2, <3>3 DEF PacksOK
  <2>2. m.n \in 0 .. Newest(m.from)
    <3>1. Newest(m.from) \in Nat
      BY <1>1, <1>7 DEF TypeOK, Newest
    <3> QED BY <1>7, <3>1
  <2>3. PICK d \in Fds : d = m.from
    BY <1>7
  <2> QED BY <1>8, <2>1, <2>2, <2>3 DEF Ahead
<1>11. PacksOK'
  <2>1. ASSUME NEW w \in Workers, NEW j \in 1 .. Len(q'[w])
        PROVE  /\ q'[w][j].kind \in {"recv", "close"} /\ q'[w][j].from \in Fds
               /\ \A d \in Fds : q'[w][j].from = d => WorkerOf(d) = w /\ q'[w][j].n <= Newest(d)'
    <3>1. PICK a \in 1 .. Len(q[w]) : q'[w][j] = q[w][a]
      BY <1>6
    <3>2. /\ q[w][a].kind \in {"recv", "close"} /\ q[w][a].from \in Fds
          /\ \A d \in Fds : q[w][a].from = d => WorkerOf(d) = w /\ q[w][a].n <= Newest(d)
      BY <1>1 DEF PacksOK
    <3> QED BY <1>8, <3>1, <3>2
  <2>2. ASSUME NEW w \in Workers, NEW j \in 1 .. Len(q'[w]), NEW k \in 1 .. Len(q'[w]),
               j < k, q'[w][j].from = q'[w][k].from
        PROVE  q'[w][j].n < q'[w][k].n
    <3>1. PICK a \in 1 .. Len(q[w]) :
            q'[w][j] = q[w][a] /\ (w = v => a = j + 1) /\ (w # v => a = j)
      BY <1>6
    <3>2. PICK b \in 1 .. Len(q[w]) :
            q'[w][k] = q[w][b] /\ (w = v => b = k + 1) /\ (w # v => b = k)
      BY <1>6
    <3>3. a < b
      BY <2>2, <3>1, <3>2
    <3> QED BY <1>1, <2>2, <3>1, <3>2, <3>3 DEF PacksOK
  <2> QED BY <2>1, <2>2 DEF PacksOK
<1>12. /\ r.msg = m /\ r.found = FALSE /\ r.slot = 1 /\ r # Idle
       /\ r \in [msg : Messages, slot : 0 .. N + 1, found : BOOLEAN]
       /\ run'[v] = r /\ \A t \in Threads : t # v => run'[t] = run[t]
  BY <1>1, <1>3, <1>4, <1>5, <1>7 DEF TypeOK, Idle, Message
<1>13. killed' \in BOOLEAN
  BY <1>1, Zenon DEF Work, TypeOK
<1>14. TypeOK'
  BY <1>1, <1>4, <1>5, <1>12, <1>13 DEF TypeOK
<1>15. RunOK'
  <2>1. \A d \in Fds : run'[v].msg.from = d =>
          run'[v].msg.kind \in {"recv", "close"} /\ WorkerOf(d) = v /\ run'[v].msg.n \in Ahead(d)'
    <3>1. ASSUME NEW d \in Fds, m.from = d PROVE WorkerOf(d) = v /\ m.n \in Ahead(d)'
      <4>1. \A e : e = m.from => m.n \in Ahead(e)'
        BY <1>10
      <4> QED BY <1>7, <3>1, <4>1
    <3> QED BY <1>7, <1>12, <3>1
  <2> QED BY <1>1, <1>7, <1>9, <1>12, <2>1 DEF RunOK
<1>16. HeardOK'
  <2>1. ASSUME NEW c \in Fds, NEW d \in Fds, NEW j \in 1 .. Len(inbox[c]), m.from = d,
               inbox[c][j].from = d, inbox[c][j].kind # "connect"
        PROVE  inbox[c][j].n < m.n /\ inbox[c][j].n <= m.n
    <3>1. inbox[c][j].n \in Ahead(d)
      BY <1>1, <2>1 DEF HeardOK
    <3>2. PICK n : n = inbox[c][j].n
      OBVIOUS
    <3>3. n \in Nat /\ n < q[v][1].n
      BY <1>5, <2>1, <3>1, <3>2 DEF Ahead
    <3> QED BY <1>5, <1>7, <3>2, <3>3
  <2>2. ASSUME NEW c \in Fds, NEW d \in Fds, NEW j \in 1 .. Len(inbox[c]),
               inbox[c][j].from = d, inbox[c][j].kind # "connect"
        PROVE  /\ inbox[c][j].n \in Ahead(d)'
               /\ \A w \in Workers : run'[w].msg.from = d =>
                    /\ inbox[c][j].n <= run'[w].msg.n
                    /\ run'[w].slot <= c => inbox[c][j].n < run'[w].msg.n
    <3>1. /\ inbox[c][j].n \in Ahead(d)
          /\ \A w \in Workers : run[w].msg.from = d =>
               /\ inbox[c][j].n <= run[w].msg.n
               /\ run[w].slot <= c => inbox[c][j].n < run[w].msg.n
      BY <1>1, <2>2 DEF HeardOK
    <3>2. ASSUME NEW w \in Workers, run'[w].msg.from = d
          PROVE  /\ inbox[c][j].n <= run'[w].msg.n
                 /\ run'[w].slot <= c => inbox[c][j].n < run'[w].msg.n
      <4>1. CASE w = v
        BY <1>12, <2>1, <2>2, <3>2, <4>1
      <4>2. CASE w # v
        BY <1>12, <3>1, <3>2, <4>2
      <4> QED BY <4>1, <4>2
    <3> QED BY <1>9, <3>1, <3>2
  <2> QED BY <1>4, <2>2 DEF HeardOK
<1>17. Reached'
  <2>1. ASSUME NEW c \in audience'[v]
        PROVE  /\ run'[v] # Idle /\ run'[v].slot > 0 /\ c # run'[v].msg.from
               /\ c \in conns' /\ client'[c] = "open" /\ ~(run'[v].slot > c)
    <3>1. c \in conns \ {m.from} /\ client[c] = "open"
      BY <1>1, <1>4, <2>1 DEF TypeOK
    <3>2. c \in Nat /\ c > 0
      BY <1>1, <3>1 DEF TypeOK
    <3> QED BY <1>4, <1>12, <3>1, <3>2
  <2>2. \A t \in Threads : t # v => audience'[t] = audience[t]
    BY <1>1, <1>4 DEF TypeOK
  <2> QED BY <1>1, <1>4, <1>12, <2>1, <2>2 DEF Reached
<1>18. InOrder'
  BY <1>1, <1>4 DEF InOrder
<1> QED BY <1>11, <1>14, <1>15, <1>16, <1>17, <1>18 DEF IInv

\* A pass of the loop that writes nothing: it passes nobody of the audience.
LEMMA TestKeeps ==
  ASSUME IInv, NEW t \in Threads, Test(t)
  PROVE  IInv'
<1> USE ConstFacts
<1>1. TypeOK /\ RunOK /\ HeardOK /\ InOrder /\ Reached
  BY DEF IInv
<1>2. PICK r : r = run[t]
  OBVIOUS
<1>3. PICK u : u = IF r.slot \in conns /\ r.slot # r.msg.from THEN [r EXCEPT !.found = TRUE]
                   ELSE [r EXCEPT !.slot = r.slot + 1]
  OBVIOUS
<1>4. /\ r.slot > 0 /\ r.slot <= N /\ run' = [run EXCEPT ![t] = u]
      /\ UNCHANGED <<conns, q, client, sent, inbox, reset, audience>>
  BY <1>2, <1>3 DEF Test, LoopTest, peers
<1>5. /\ r \in [msg : Messages, slot : 0 .. N + 1, found : BOOLEAN]
      /\ r.msg \in Messages /\ r.slot \in 0 .. N + 1
  BY <1>1, <1>2 DEF TypeOK
<1>6. /\ u \in [msg : Messages, slot : 0 .. N + 1, found : BOOLEAN]
      /\ u.msg = r.msg /\ u.slot >= r.slot /\ u.slot > 0
  <2>1. CASE r.slot \in conns /\ r.slot # r.msg.from
    <3>1. u = [r EXCEPT !.found = TRUE]
      BY <1>3, <2>1
    <3>2. u \in [msg : Messages, slot : 0 .. N + 1, found : BOOLEAN]
      BY <1>5, <3>1
    <3>3. u.msg = r.msg /\ u.slot = r.slot
      BY <1>5, <3>1
    <3> QED BY <1>4, <1>5, <3>2, <3>3
  <2>2. CASE ~(r.slot \in conns /\ r.slot # r.msg.from)
    BY <1>3, <1>4, <1>5, <2>2
  <2> QED BY <2>1, <2>2
<1>7. u.found => u.slot \in Fds /\ u.slot # u.msg.from
  <2>1. CASE r.slot \in conns /\ r.slot # r.msg.from
    BY <1>1, <1>3, <1>5, <2>1 DEF TypeOK
  <2>2. CASE ~(r.slot \in conns /\ r.slot # r.msg.from)
    BY <1>3, <1>4, <1>5, <2>2, <1>1, <1>2 DEF Test
  <2> QED BY <2>1, <2>2
<1>8. \A x \in Nat : u.slot > x /\ ~(r.slot > x) => x = r.slot /\ ~(x \in conns /\ x # r.msg.from)
  <2>1. CASE r.slot \in conns /\ r.slot # r.msg.from
    BY <1>3, <1>5, <2>1
  <2>2. CASE ~(r.slot \in conns /\ r.slot # r.msg.from)
    BY <1>3, <1>5, <2>2
  <2> QED BY <2>1, <2>2
<1>9. run'[t] = u /\ \A w \in Threads : w # t => run'[w] = run[w]
  BY <1>1, <1>4 DEF TypeOK
<1>10. PacksOK' /\ \A d \in Fds : Ahead(d)' = Ahead(d)
  <2>1. \A d \in Fds : Newest(d)' = Newest(d)
    BY <1>4 DEF Newest
  <2> QED BY <1>4, <2>1, SameAhead
<1>11. killed' \in BOOLEAN
  BY <1>1, Zenon DEF Test, TypeOK
<1>12. TypeOK'
  BY <1>1, <1>4, <1>6, <1>11 DEF TypeOK
<1>13. r # Idle /\ u # Idle
  BY <1>4, <1>6 DEF Idle
<1>14. RunOK'
  BY <1>1, <1>2, <1>6, <1>7, <1>9, <1>10, <1>13 DEF RunOK
<1>15. HeardOK'
  <2>1. \A w \in Workers : /\ run'[w].msg = run[w].msg
                           /\ \A c \in Fds : run'[w].slot <= c => run[w].slot <= c
    BY <1>2, <1>5, <1>6, <1>9
  <2> QED BY <1>1, <1>4, <1>10, <2>1 DEF HeardOK
<1>16. Reached'
  <2>1. ASSUME NEW c \in audience[t]
        PROVE  /\ u # Idle /\ u.slot > 0 /\ c # u.msg.from /\ c \in conns /\ client[c] = "open"
               /\ u.slot > c => Contains(inbox[c], u.msg)
    <3>1. /\ c # r.msg.from /\ c \in conns /\ client[c] = "open"
          /\ r.slot > c => Contains(inbox[c], r.msg)
      BY <1>1, <1>2 DEF Reached
    <3>2. c \in Nat
      BY <1>1, <3>1 DEF TypeOK
    <3> QED BY <1>6, <1>8, <1>13, <3>1, <3>2
  <2> QED BY <1>1, <1>4, <1>9, <2>1 DEF Reached
<1>17. InOrder'
  BY <1>1, <1>4 DEF InOrder
<1> QED BY <1>10, <1>12, <1>14, <1>15, <1>16, <1>17 DEF IInv

\* A write adds the message to what a client has heard, behind all that came before it.
LEMMA WriteKeeps ==
  ASSUME IInv, NEW t \in Threads, Write(t)
  PROVE  IInv'
<1> USE ConstFacts
<1>1. TypeOK /\ RunOK /\ HeardOK /\ InOrder /\ Reached
  BY DEF IInv
<1>2. PICK r : r = run[t]
  OBVIOUS
<1>3. PICK c : c = r.slot
  OBVIOUS
<1>4. PICK m : m = r.msg
  OBVIOUS
<1>5. PICK u : u = [r EXCEPT !.slot = c + 1, !.found = FALSE]
  OBVIOUS
<1>6. /\ r.found /\ run' = [run EXCEPT ![t] = u]
      /\ inbox' = IF c \in conns /\ client[c] = "open"
                    THEN [inbox EXCEPT ![c] = Append(inbox[c], m)] ELSE inbox
      /\ reset' = IF c \in conns /\ client[c] = "closed" THEN reset \cup {c} ELSE reset
      /\ UNCHANGED <<conns, q, client, sent, audience>>
  BY <1>2, <1>3, <1>4, <1>5 DEF Write, peers
<1>7. /\ r \in [msg : Messages, slot : 0 .. N + 1, found : BOOLEAN]
      /\ m \in Messages /\ inbox \in [Fds -> Seq(Messages)]
  BY <1>1, <1>2, <1>4 DEF TypeOK
<1>8. c \in Fds /\ c # m.from /\ r # Idle /\ m.from \in Fds
  <2>1. c \in Fds /\ c # m.from
    BY <1>1, <1>2, <1>3, <1>4, <1>6 DEF RunOK
  <2>2. r # Idle
    BY <2>1, <1>3 DEF Idle
  <2> QED BY <1>1, <1>2, <1>4, <2>1, <2>2 DEF RunOK
<1>9. /\ u \in [msg : Messages, slot : 0 .. N + 1, found : BOOLEAN]
      /\ u.msg = m /\ u.slot = c + 1 /\ u.found = FALSE /\ u # Idle
  <2>1. c + 1 \in 0 .. N + 1 /\ c + 1 # 0
    BY <1>8
  <2>2. u \in [msg : Messages, slot : 0 .. N + 1, found : BOOLEAN]
    BY <1>5, <1>7, <2>1
  <2>3. u.msg = m /\ u.slot = c + 1 /\ u.found = FALSE
    BY <1>4, <1>5, <1>7
  <2> QED BY <2>1, <2>2, <2>3 DEF Idle
<1>10. run'[t] = u /\ \A w \in Threads : w # t => run'[w] = run[w]
  BY <1>1, <1>6 DEF TypeOK
<1>11. PacksOK' /\ \A d \in Fds : Ahead(d)' = Ahead(d)
  <2>1. \A d \in Fds : Newest(d)' = Newest(d)
    BY <1>6 DEF Newest
  <2> QED BY <1>6, <2>1, SameAhead
\* What a client has heard now it had heard before, or is the message just written.
<1>12. inbox' \in [Fds -> Seq(Messages)]
  BY <1>6, <1>7, <1>8
<1>13. /\ \A d \in Fds : Len(inbox[d]) \in Nat
       /\ \A d \in Fds : \A j \in 1 .. Len(inbox[d]) :
            j \in 1 .. Len(inbox'[d]) /\ inbox'[d][j] = inbox[d][j]
       /\ \A d \in Fds : \A j \in 1 .. Len(inbox'[d]) :
            \/ j \in 1 .. Len(inbox[d]) /\ inbox'[d][j] = inbox[d][j]
            \/ d = c /\ j = Len(inbox[c]) + 1 /\ inbox'[d][j] = m
       /\ c \in conns /\ client[c] = "open" =>
            Len(inbox[c]) + 1 \in 1 .. Len(inbox'[c]) /\ inbox'[c][Len(inbox[c]) + 1] = m
  <2>1. CASE c \in conns /\ client[c] = "open"
    <3>1. inbox'[c] = Append(inbox[c], m) /\ \A d \in Fds : d # c => inbox'[d] = inbox[d]
      BY <1>6, <1>7, <1>8, <2>1
    <3>2. inbox[c] \in Seq(Messages)
      BY <1>7, <1>8
    <3>3. /\ Len(inbox[c]) \in Nat /\ Len(inbox'[c]) = Len(inbox[c]) + 1
          /\ inbox'[c][Len(inbox[c]) + 1] = m
          /\ \A j \in 1 .. Len(inbox[c]) : inbox'[c][j] = inbox[c][j]
      BY <1>7, <3>1, <3>2
    <3>4. \A d \in Fds : Len(inbox[d]) \in Nat
      BY <1>7
    <3>5. ASSUME NEW d \in Fds
          PROVE  /\ \A j \in 1 .. Len(inbox[d]) :
                      j \in 1 .. Len(inbox'[d]) /\ inbox'[d][j] = inbox[d][j]
                 /\ \A j \in 1 .. Len(inbox'[d]) :
                      \/ j \in 1 .. Len(inbox[d]) /\ inbox'[d][j] = inbox[d][j]
                      \/ d = c /\ j = Len(inbox[c]) + 1 /\ inbox'[d][j] = m
      <4>1. CASE d = c
        BY <3>3, <4>1
      <4>2. CASE d # c
        BY <3>1, <4>2
      <4> QED BY <4>1, <4>2
    <3>6. Len(inbox[c]) + 1 \in 1 .. Len(inbox'[c])
      BY <3>3
    <3> QED BY <3>3, <3>4, <3>5, <3>6
  <2>2. CASE ~(c \in conns /\ client[c] = "open")
    BY <1>6, <1>7, <2>2
  <2> QED BY <2>1, <2>2
<1>14. m.kind # "connect" => t \in Workers /\ WorkerOf(m.from) = t /\ m.n \in Ahead(m.from)
  <2>1. CASE t = Master
    BY <1>1, <1>2, <1>4, <1>8, <2>1 DEF RunOK
  <2>2. CASE t \in Workers
    BY <1>1, <1>2, <1>4, <1>8, <2>2 DEF RunOK
  <2> QED BY <2>1, <2>2
<1>15. \A d \in Fds, w \in Workers :
         run'[w].msg.from = d /\ m.from = d /\ m.kind # "connect" => w = t
  <2> SUFFICES ASSUME NEW d \in Fds, NEW w \in Workers,
                      run'[w].msg.from = d, m.from = d, m.kind # "connect"
               PROVE  w = t
    OBVIOUS
  <2>1. CASE run'[w] = run[w]
    BY <1>1, <1>14, <2>1 DEF RunOK
  <2> QED BY <1>10, <2>1
<1>16. killed' \in BOOLEAN
  BY Zenon DEF Write
<1>17. TypeOK'
  <2>1. reset' \subseteq Fds
    BY <1>1, <1>6, <1>8 DEF TypeOK
  <2>2. run' \in [Threads -> [msg : Messages, slot : 0 .. N + 1, found : BOOLEAN]]
    BY <1>1, <1>6, <1>9 DEF TypeOK
  <2> QED BY <1>1, <1>6, <1>12, <1>16, <2>1, <2>2 DEF TypeOK
<1>18. RunOK'
  BY <1>1, <1>2, <1>4, <1>8, <1>9, <1>10, <1>11 DEF RunOK
<1>19. \A w \in Workers : /\ run'[w].msg = run[w].msg
                          /\ \A d \in Fds : run'[w].slot <= d => run[w].slot <= d
  BY <1>2, <1>3, <1>4, <1>8, <1>9, <1>10
<1>20. HeardOK'
  <2> SUFFICES ASSUME NEW e \in Fds, NEW d \in Fds, NEW j \in 1 .. Len(inbox'[e]),
                      inbox'[e][j].from = d, inbox'[e][j].kind # "connect"
               PROVE  /\ inbox'[e][j].n \in Ahead(d)'
                      /\ \A w \in Workers : run'[w].msg.from = d =>
                           /\ inbox'[e][j].n <= run'[w].msg.n
                           /\ run'[w].slot <= e => inbox'[e][j].n < run'[w].msg.n
    BY DEF HeardOK
  <2>1. CASE j \in 1 .. Len(inbox[e]) /\ inbox'[e][j] = inbox[e][j]
    <3>1. /\ inbox[e][j].n \in Ahead(d)
          /\ \A w \in Workers : run[w].msg.from = d =>
               /\ inbox[e][j].n <= run[w].msg.n
               /\ run[w].slot <= e => inbox[e][j].n < run[w].msg.n
      BY <1>1, <2>1 DEF HeardOK
    <3> QED BY <1>11, <1>19, <2>1, <3>1
  <2>2. CASE e = c /\ inbox'[e][j] = m
    <3>1. m.n \in Nat /\ ~(c + 1 <= c)
      BY <1>7, <1>8 DEF Messages
    <3>2. m.n \in Ahead(d)'
      BY <1>11, <1>14, <2>2
    <3> QED BY <1>9, <1>10, <1>15, <2>2, <3>1, <3>2
  <2> QED BY <1>13, <2>1, <2>2
<1>21. InOrder'
  <2> SUFFICES ASSUME NEW e \in Fds, NEW j \in 1 .. Len(inbox'[e]), NEW k \in 1 .. Len(inbox'[e])
               PROVE  /\ inbox'[e][j].from # e
                      /\ j < k /\ inbox'[e][j].from = inbox'[e][k].from
                           /\ "connect" \notin {inbox'[e][j].kind, inbox'[e][k].kind}
                         => inbox'[e][j].n < inbox'[e][k].n
    <3>1. \A e \in Fds : DOMAIN inbox'[e] = 1 .. Len(inbox'[e])
      BY <1>12
    <3> QED BY <3>1 DEF InOrder
  <2>1. \A d \in Fds : DOMAIN inbox[d] = 1 .. Len(inbox[d])
    BY <1>7
  <2>2. inbox'[e][j].from # e
    <3>1. CASE j \in 1 .. Len(inbox[e]) /\ inbox'[e][j] = inbox[e][j]
      BY <1>1, <2>1, <3>1 DEF InOrder
    <3>2. CASE e = c /\ inbox'[e][j] = m
      BY <1>8, <3>2
    <3> QED BY <1>13, <3>1, <3>2
  <2>3. ASSUME j < k, inbox'[e][j].from = inbox'[e][k].from,
               inbox'[e][j].kind # "connect", inbox'[e][k].kind # "connect"
        PROVE  inbox'[e][j].n < inbox'[e][k].n
    <3>1. CASE k \in 1 .. Len(inbox[e]) /\ inbox'[e][k] = inbox[e][k]
      <4>1. j \in 1 .. Len(inbox[e]) /\ inbox'[e][j] = inbox[e][j]
        BY <1>13, <2>3, <3>1
      <4> QED BY <1>1, <2>1, <2>3, <3>1, <4>1 DEF InOrder
    <3>2. CASE e = c /\ k = Len(inbox[c]) + 1 /\ inbox'[e][k] = m
      <4>1. j \in 1 .. Len(inbox[e]) /\ inbox'[e][j] = inbox[e][j]
        BY <1>13, <2>3, <3>2
      <4>2. inbox[e][j].from = m.from /\ inbox[e][j].kind # "connect" /\ m.kind # "connect"
        BY <2>3, <3>2, <4>1
      <4>3. t \in Workers /\ run[t].msg.from = m.from /\ run[t].slot <= c
        BY <1>2, <1>3, <1>4, <1>8, <1>14, <4>2
      <4>4. inbox[e][j].n < run[t].msg.n
        BY <1>1, <1>8, <3>2, <4>1, <4>2, <4>3 DEF HeardOK
      <4> QED BY <1>2, <1>4, <3>2, <4>1, <4>4
    <3> QED BY <1>13, <3>1, <3>2
  <2> QED BY <2>2, <2>3
<1>22. Reached'
  <2>1. ASSUME NEW d \in Fds, NEW x, Contains(inbox[d], x) PROVE Contains(inbox[d], x)'
    BY <1>13, <2>1 DEF Contains
  <2>2. ASSUME NEW d \in audience[t]
        PROVE  /\ u # Idle /\ u.slot > 0 /\ d # u.msg.from /\ d \in conns /\ client[d] = "open"
               /\ u.slot > d => Contains(inbox[d], m)'
    <3>1. /\ d # m.from /\ d \in conns /\ client[d] = "open"
          /\ c > d => Contains(inbox[d], m)
      BY <1>1, <1>2, <1>3, <1>4 DEF Reached
    <3>2. d \in Fds
      BY <1>1, <3>1 DEF TypeOK
    <3>3. d = c => Contains(inbox[d], m)'
      BY <1>13, <3>1 DEF Contains
    <3>4. c + 1 > 0 /\ (c + 1 > d => c > d \/ d = c)
      BY <1>8, <3>2
    <3> QED BY <1>9, <2>1, <3>1, <3>2, <3>3, <3>4
  <2>3. ASSUME NEW s \in Threads, s # t, NEW d \in audience[s]
        PROVE  /\ run[s] # Idle /\ run[s].slot > 0 /\ d # run[s].msg.from
               /\ d \in conns /\ client[d] = "open"
               /\ run[s].slot > d => Contains(inbox[d], run[s].msg)'
    <3>1. /\ run[s] # Idle /\ run[s].slot > 0 /\ d # run[s].msg.from
          /\ d \in conns /\ client[d] = "open"
          /\ run[s].slot > d => Contains(inbox[d], run[s].msg)
      BY <1>1 DEF Reached
    <3>2. d \in Fds /\ run'[s].msg = run[s].msg
      BY <1>1, <1>10, <2>3, <3>1 DEF TypeOK
    <3>3. Contains(inbox[d], run[s].msg) => Contains(inbox[d], run[s].msg)'
      BY <1>13, <3>2 DEF Contains
    <3> QED BY <3>1, <3>3
  <2> QED BY <1>6, <1>9, <1>10, <2>2, <2>3 DEF Reached, Contains
<1> QED BY <1>11, <1>17, <1>18, <1>20, <1>21, <1>22 DEF IInv

\* A callback returns; on_close takes its connection out of the table and of every audience.
LEMMA ReturnKeeps ==
  ASSUME IInv, NEW t \in Threads, Return(t)
  PROVE  IInv'
<1> USE ConstFacts
<1>1. TypeOK /\ RunOK /\ HeardOK /\ InOrder /\ Reached
  BY DEF IInv
<1>2. PICK gone : gone = Cleared(run[t].msg)
  OBVIOUS
<1>3. /\ run' = [run EXCEPT ![t] = Idle] /\ conns' = conns \ gone
      /\ audience' = [s \in Threads |-> IF s = t THEN {} ELSE audience[s] \ gone]
      /\ UNCHANGED <<q, client, sent, inbox, reset>>
  BY <1>2 DEF Return, peers
<1>4. /\ Idle \in [msg : Messages, slot : 0 .. N + 1, found : BOOLEAN]
      /\ Idle.msg.from = 0 /\ Idle.found = FALSE
  BY DEF Idle, Message, Messages
<1>5. run'[t] = Idle /\ \A s \in Threads : s # t => run'[s] = run[s]
  BY <1>1, <1>3 DEF TypeOK
<1>6. PacksOK' /\ \A d \in Fds : Ahead(d)' = Ahead(d)
  <2>1. \A d \in Fds : Newest(d)' = Newest(d)
    BY <1>3 DEF Newest
  <2> QED BY <1>3, <2>1, SameAhead
<1>7. killed' \in BOOLEAN
  BY <1>1, Zenon DEF Return, TypeOK
<1>8. TypeOK'
  BY <1>1, <1>3, <1>4, <1>7 DEF TypeOK
<1>9. RunOK'
  BY <1>1, <1>4, <1>5, <1>6 DEF RunOK
<1>10. HeardOK' /\ InOrder'
  BY <1>1, <1>3, <1>4, <1>5, <1>6 DEF HeardOK, InOrder
<1>11. Reached'
  BY <1>1, <1>3, <1>5 DEF Reached
<1> QED BY <1>6, <1>8, <1>9, <1>10, <1>11 DEF IInv

LEMMA ChatInductive == IInv /\ [Next]_vars => IInv'
<1> SUFFICES ASSUME IInv, [Next]_vars PROVE IInv'
  OBVIOUS
<1>1. CASE Next
  <2>1. CASE \E c \in Fds : Connect(c) \/ ClientSend(c) \/ ClientClose(c)
    BY <2>1, ConnectKeeps, SendKeeps, CloseKeeps
  <2>2. CASE Enter
    BY <2>2, EnterKeeps
  <2>3. CASE \E w \in Workers : Work(w)
    BY <2>3, WorkKeeps
  <2>4. CASE \E t \in Threads : Callback(t)
    BY <2>4, TestKeeps, WriteKeeps, ReturnKeeps DEF Callback
  <2> QED BY <1>1, <2>1, <2>2, <2>3, <2>4 DEF Next
<1>2. CASE UNCHANGED vars
  <2>1. /\ conns' = conns /\ run' = run /\ q' = q /\ client' = client /\ sent' = sent
        /\ inbox' = inbox /\ reset' = reset /\ audience' = audience
    BY <1>2 DEF vars
  <2>2. killed' = killed
    BY <1>2, Zenon DEF vars
  <2>3. \A d \in Fds : Newest(d)' = Newest(d)
    BY <2>1 DEF Newest
  <2>4. PacksOK' /\ \A d \in Fds : Ahead(d)' = Ahead(d)
    BY <2>1, <2>3, SameAhead
  <2>5. killed' \in BOOLEAN
    BY <2>2, Zenon DEF IInv, TypeOK
  <2>6. TypeOK' /\ RunOK' /\ HeardOK' /\ InOrder'
    BY <2>1, <2>4, <2>5 DEF IInv, TypeOK, RunOK, HeardOK, InOrder
  <2>7. Reached'
    BY <2>1 DEF IInv, Reached
  <2> QED BY <2>4, <2>6, <2>7 DEF IInv
<1> QED BY <1>1, <1>2

\* Type correctness of the chat example, for any number of clients, workers and chunks.
THEOREM ChatTypeOK == Spec => []TypeOK
<1>1. IInv => TypeOK
  BY DEF IInv
<1> QED BY <1>1, InitHolds, ChatInductive, PTL DEF Spec

\* Whatever callbacks run at the same time, a client hears another one in the order it
\* spoke, each thing once, nothing after its close, and never itself.
THEOREM HeardInOrder == Spec => []InOrder
<1>1. IInv => InOrder
  BY DEF IInv
<1> QED BY <1>1, InitHolds, ChatInductive, PTL DEF Spec

\* Whoever is in the table and open while a callback goes through it receives its message,
\* although other callbacks enter and clear entries of the table at the same time.
THEOREM BroadcastsReach == Spec => []BroadcastReaches
<1>1. IInv => BroadcastReaches
  <2> SUFFICES ASSUME IInv, NEW t \in Threads, Returning(t), NEW c \in audience[t]
               PROVE  Contains(inbox[c], run[t].msg)
    BY DEF BroadcastReaches
  <2>1. c \in Fds /\ run[t].slot \in Nat /\ N \in Nat
    BY ConstFacts DEF IInv, TypeOK, Reached
  <2>2. c <= N /\ run[t].slot > N
    BY <2>1, ConstFacts DEF Returning, LoopTest
  <2>3. run[t].slot > c
    BY <2>1, <2>2, ConstFacts
  <2> QED BY <2>3 DEF IInv, Reached
<1> QED BY <1>1, InitHolds, ChatInductive, PTL DEF Spec
-----------------------------------------------------------------------------
\* writen has variables of its own, and nothing of the example's.
VARIABLES len, total, at, ret, taken, answer

W == INSTANCE Writen

\* What the socket has taken are the first total bytes; a result that is not an error is
\* total, and a call that ended short has had an answer that refuses the rest.
Progress ==
  /\ taken = [j \in 1 .. total |-> j]
  /\ at = "done" /\ ret >= 0 => ret = total
  /\ at = "done" /\ total # len => answer \in {"closed", "EAGAIN", "EPIPE", "error"}

SentInv == W!TypeOK /\ Progress

LEMMA SentInit == W!Init => SentInv
  BY DEF W!Init, SentInv, W!TypeOK, Progress

LEMMA SentNext == SentInv /\ [W!Next]_W!vars => SentInv'
<1> SUFFICES ASSUME SentInv, [W!Next]_W!vars PROVE SentInv'
  OBVIOUS
<1>1. CASE W!SendSome
  <2>1. PICK n \in 1 .. len - total : taken' = taken \o W!Sent(n) /\ total' = total + n
    BY <1>1 DEF W!SendSome, W!Room
  <2>2. total \in Nat /\ len \in Nat /\ n \in Nat /\ total' \in 0 .. len
    BY <2>1 DEF SentInv, W!TypeOK
  <2>3. taken' = [j \in 1 .. total + n |-> j]
    BY <2>1, <2>2 DEF SentInv, Progress, W!Sent
  <2>4. taken' \in Seq(1 .. len)
    BY <2>2, <2>3, <2>1
  <2>5. W!TypeOK'
    BY <1>1, <2>2, <2>4 DEF SentInv, W!TypeOK, W!SendSome, W!Stay
  <2>6. Progress'
    BY <1>1, <2>1, <2>3 DEF SentInv, Progress, W!SendSome, W!Sends, W!Stay
  <2> QED BY <2>5, <2>6 DEF SentInv
<1>2. CASE W!Interrupted
  BY <1>2 DEF SentInv, W!TypeOK, Progress, W!Interrupted, W!Sends, W!Stay
<1>3. CASE W!GiveUp
  BY <1>3 DEF SentInv, W!TypeOK, Progress, W!GiveUp, W!Sends, W!Return
<1>4. CASE W!Fail
  BY <1>4 DEF SentInv, W!TypeOK, Progress, W!Fail, W!Sends, W!Return
<1>5. CASE W!Finish
  BY <1>5 DEF SentInv, W!TypeOK, Progress, W!Finish, W!Return
<1>6. CASE UNCHANGED W!vars
  BY <1>6 DEF SentInv, W!TypeOK, Progress, W!vars
<1> QED BY <1>1, <1>2, <1>3, <1>4, <1>5, <1>6 DEF W!Next

LEMMA SentGives == SentInv => W!SentInOrder /\ W!ShortOnlyWhenRefused
  BY DEF SentInv, W!TypeOK, Progress, W!SentInOrder, W!ShortOnlyWhenRefused

\* writen never skips, repeats or reorders bytes, and a result that is not an error counts
\* those the socket took, for a buffer of any length.
THEOREM BytesInOrder == W!Spec => []W!SentInOrder
  BY SentInit, SentNext, SentGives, PTL DEF W!Spec

\* Only an answer of the socket that refuses the rest makes writen return early.
THEOREM NeverCutShort == W!Spec => []W!ShortOnlyWhenRefused
  BY SentInit, SentNext, SentGives, PTL DEF W!Spec
=============================================================================
