----------------------------- MODULE BoundedFifo -----------------------------
(***************************************************************************)
(* What a HyperAMP queue promises to its callers: a FIFO of messages of    *)
(* bounded length.  Each call takes effect in one step, and its result     *)
(* says the truth about the queue at that step: HYPERAMP_AGAIN means full  *)
(* to a writer and empty to a reader, and a reader that succeeds gets the  *)
(* oldest message.                                                         *)
(***************************************************************************)
EXTENDS Naturals, Sequences

CONSTANTS
  Zone,      \* the callers
  Message,   \* messages that fit a block
  Bound      \* how many messages the queue holds

VARIABLES
  fifo,     \* messages enqueued and not yet dequeued
  result    \* of each zone's last call: a code, or the message it read

fifoVars == <<fifo, result>>

Returns(z, r) == result' = [result EXCEPT ![z] = r]

Init ==
  /\ fifo = <<>>
  /\ result = [z \in Zone |-> "OK"]

Put(z) ==
  /\ Len(fifo) < Bound
  /\ \E m \in Message : fifo' = Append(fifo, m)
  /\ Returns(z, "OK")

Get(z) ==
  /\ fifo # <<>>
  /\ fifo' = Tail(fifo)
  /\ Returns(z, Head(fifo))

Peek(z) ==
  /\ fifo # <<>>
  /\ Returns(z, Head(fifo))
  /\ UNCHANGED fifo

\* release_slot: the oldest message is dropped unread.
Drop(z) ==
  /\ fifo # <<>>
  /\ fifo' = Tail(fifo)
  /\ Returns(z, "OK")

PutFull(z) ==
  /\ Len(fifo) = Bound
  /\ Returns(z, "AGAIN")
  /\ UNCHANGED fifo

GetEmpty(z) ==
  /\ fifo = <<>>
  /\ Returns(z, "AGAIN")
  /\ UNCHANGED fifo

\* A message that does not fit; peek or release_slot of an empty queue.
Refuse(z) ==
  /\ Returns(z, "ERROR")
  /\ UNCHANGED fifo

Next ==
  \E z \in Zone :
    Put(z) \/ Get(z) \/ Peek(z) \/ Drop(z) \/ PutFull(z) \/ GetEmpty(z) \/ Refuse(z)

Spec == Init /\ [][Next]_fifoVars
=============================================================================
