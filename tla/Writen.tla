------------------------------- MODULE Writen -------------------------------
(***************************************************************************)
(* writen: sends a buffer of len bytes on a non-blocking socket, calling   *)
(* send again after a partial send or an interrupt, and giving up when the *)
(* socket takes no more or is broken.  Bytes are numbered by their place   *)
(* in the buffer.  (No code in the repository calls it.)                   *)
(***************************************************************************)
EXTENDS Integers, Sequences, SequencesExt

VARIABLES
  len,       \* the argument
  total,     \* what the code believes has been sent
  at, ret,   \* "loop" or "done", and what writen returned
  taken,     \* kernel: the bytes the socket has taken
  answer     \* kernel: what the last send did

vars == <<len, total, at, ret, taken, answer>>

Init ==
  /\ len \in Nat
  /\ total = 0 /\ at = "loop" /\ ret = 0
  /\ taken = <<>> /\ answer = "none"

\* The loop calls send once more.
Sends == at = "loop" /\ total < len
Stay == UNCHANGED <<len, at, ret>>
Return(r) == at' = "done" /\ ret' = r /\ UNCHANGED <<len, total>>
-----------------------------------------------------------------------------
\* The n bytes that a call of send takes.
Sent(n) == [j \in 1 .. n |-> total + j]

\* The most that a call of send is asked to take.
Room == len - total

\* n > 0: the socket takes n bytes.
SendSome ==
  /\ Sends
  /\ \E n \in 1 .. Room : taken' = taken \o Sent(n) /\ total' = total + n
  /\ answer' = "some"
  /\ Stay

\* EINTR: the loop goes round again.
Interrupted ==
  /\ Sends
  /\ answer' = "EINTR"
  /\ Stay /\ UNCHANGED <<total, taken>>

\* send returned 0, or the socket is full: what has been sent so far is returned.
GiveUp ==
  /\ Sends
  /\ answer' \in {"closed", "EAGAIN"} /\ Return(total)
  /\ UNCHANGED taken

\* An error hides what has been sent before it: EPIPE is -2, any other one -1.
Fail ==
  /\ Sends
  /\ \/ answer' = "EPIPE" /\ Return(-2)
     \/ answer' = "error" /\ Return(-1)
  /\ UNCHANGED taken

Finish == at = "loop" /\ total >= len /\ Return(total) /\ UNCHANGED <<taken, answer>>

Next == SendSome \/ Interrupted \/ GiveUp \/ Fail \/ Finish

Spec == Init /\ [][Next]_vars
-----------------------------------------------------------------------------
\* Type invariant.
TypeOK ==
  /\ len \in Nat /\ total \in 0 .. len
  /\ at \in {"loop", "done"} /\ ret \in {-2, -1} \cup 0 .. len
  /\ taken \in Seq(1 .. len)
  /\ answer \in {"none", "some", "EINTR", "closed", "EAGAIN", "EPIPE", "error"}

\* However the socket splits the buffer and whenever it is interrupted, it has taken the
\* first bytes of the buffer, each once and in order, and a result that is not an error
\* is their number.
SentInOrder ==
  /\ \A j \in DOMAIN taken : taken[j] = j
  /\ at = "done" /\ ret >= 0 => ret = Len(taken)

\* A call returns less than it was asked to send only when the socket itself refused the
\* rest: partial sends and interrupts, in any order, never cut it short.
ShortOnlyWhenRefused ==
  at = "done" /\ Len(taken) # len => answer \in {"closed", "EAGAIN", "EPIPE", "error"}
=============================================================================
