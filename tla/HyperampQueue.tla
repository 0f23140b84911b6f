---------------------------- MODULE HyperampQueue ----------------------------
(***************************************************************************)
(* One queue of hyperamp_shm_queue.c: hyperamp_queue_enqueue, _dequeue,    *)
(* _peek and _release_slot, called by zones that share the control block   *)
(* and the data region.                                                    *)
(*                                                                         *)
(* A message is copied chunk by chunk (hyperamp_safe_memcpy copies bytes), *)
(* so a reader that overlaps a writer sees a torn message.  A message      *)
(* covers Size[m] chunks of a block; enqueue leaves the rest of the block  *)
(* as it was, dequeue copies the whole block, and the receiver takes the   *)
(* length from the message's own header, its first chunk.                  *)
(*                                                                         *)
(* Taking the lock and the test made right after it are one step: a zone   *)
(* that waits for the lock has touched nothing yet.  enqueue_count and     *)
(* dequeue_count are statistics no code reads and are left out.  The       *)
(* indices are uint16_t and at most 256: they do not overflow.             *)
(***************************************************************************)
EXTENDS Naturals, Sequences

CONSTANTS
  Zone,        \* the callers
  Producer,    \* zones that call enqueue
  Consumer,    \* zones that call dequeue, peek and release_slot
  Message,
  Size,        \* length of each message, in chunks; 0 is the empty message
  BlockSize,   \* queue->block_size, in chunks
  Capacity,    \* queue->capacity
  Exclusive    \* the spinlock excludes (the Arm64 build)

ASSUME RoleAssumption == Producer \subseteq Zone /\ Consumer \subseteq Zone
ASSUME SizeAssumption == Size \in [Message -> Nat]
ASSUME BlockAssumption == BlockSize \in Nat \ {0}
ASSUME CapacityAssumption == Capacity \in Nat \ {0}
ASSUME ExclusiveAssumption == Exclusive \in BOOLEAN
ASSUME CodeAssumption == {"none", "OK", "AGAIN", "ERROR"} \cap Message = {}

VARIABLES
  header,   \* index of the next slot to fill
  tail,     \* index of the next slot to read
  data,     \* the data region: the chunks of the blocks 1..Capacity
  locked,   \* queue_lock.lock_value
  pc,       \* the copy loop each zone is in; "unlock": about to return
  msg,      \* enqueue: the caller's message
  cnt,      \* loop index of hyperamp_safe_memcpy
  buf,      \* dequeue, peek: the caller's buffer
  result    \* of the zone's last call: a code, or the message it read

locals == <<msg, cnt, buf>>
vars == <<header, tail, data, locked, pc, locals, result>>

Index == 0 .. Capacity - 1
Block == 1 .. Capacity
Chunk == 1 .. BlockSize
Blank == [c \in Chunk |-> "none"]

\* data_len # 0 and data_len <= block_size
Fits(m) == Size[m] > 0 /\ Size[m] <= BlockSize
Sendable == {m \in Message : Fits(m)}

\* header + 1 or tail + 1, less capacity when it reaches it
Advance(i) == IF i + 1 >= Capacity THEN i + 1 - Capacity ELSE i + 1

\* virt_base + (index + 1) * block_size
BlockOf(i) == i + 1

FullUnwrapped == header + 1 = tail
Full == Advance(header) = tail
Empty == tail = header

\* The message in a block, "none" when it holds no whole one.
Decode(b) ==
  IF b[1] \in Sendable /\ \A c \in 1 .. Size[b[1]] : b[c] = b[1] THEN b[1] ELSE "none"

Goto(z, from, to) ==
  /\ pc[z] = from
  /\ pc' = [pc EXCEPT ![z] = to]

Returns(z, r) == result' = [result EXCEPT ![z] = r]

\* hyperamp_spinlock_lock; without Exclusive two zones may both get through.
Acquire ==
  /\ Exclusive => ~locked
  /\ locked' = TRUE

\* creator's hyperamp_queue_init
Init ==
  /\ header = 0
  /\ tail = 0
  /\ data = [b \in Block |-> Blank]
  /\ locked = FALSE
  /\ pc = [z \in Zone |-> "idle"]
  /\ msg = [z \in Zone |-> "none"]
  /\ cnt = [z \in Zone |-> 1]
  /\ buf = [z \in Zone |-> Blank]
  /\ result = [z \in Zone |-> "OK"]

-----------------------------------------------------------------------------
(* hyperamp_queue_enqueue                                                  *)

EnqueueReject(z, m) ==
  /\ pc[z] = "idle"
  /\ ~Fits(m)
  /\ Returns(z, "ERROR")
  /\ UNCHANGED <<header, tail, data, locked, pc, locals>>

EnqueueFull(z, m) ==
  /\ Fits(m)
  /\ Full
  /\ Goto(z, "idle", "unlock")
  /\ Acquire
  /\ Returns(z, "AGAIN")
  /\ UNCHANGED <<header, tail, data, locals>>

EnqueueRoom(z, m) ==
  /\ Fits(m)
  /\ ~Full
  /\ Goto(z, "idle", "enqueue")
  /\ Acquire
  /\ msg' = [msg EXCEPT ![z] = m]
  /\ UNCHANGED <<header, tail, data, cnt, buf, result>>

CopyIn(z) ==
  /\ pc[z] = "enqueue"
  /\ cnt[z] <= Size[msg[z]]
  /\ data' = [data EXCEPT ![BlockOf(header)][cnt[z]] = msg[z]]
  /\ cnt' = [cnt EXCEPT ![z] = @ + 1]
  /\ UNCHANGED <<header, tail, locked, pc, msg, buf, result>>

EnqueuePublishEarly(z) ==
  /\ Goto(z, "enqueue", "unlock")
  /\ cnt[z] >= Size[msg[z]]
  /\ header' = Advance(header)
  /\ Returns(z, "OK")
  /\ msg' = [msg EXCEPT ![z] = "none"]
  /\ cnt' = [cnt EXCEPT ![z] = 1]
  /\ UNCHANGED <<tail, data, locked, buf>>
EnqueuePublish(z) ==
  /\ Goto(z, "enqueue", "unlock")
  /\ cnt[z] > Size[msg[z]]
  /\ header' = Advance(header)
  /\ Returns(z, "OK")
  /\ msg' = [msg EXCEPT ![z] = "none"]
  /\ cnt' = [cnt EXCEPT ![z] = 1]
  /\ UNCHANGED <<tail, data, locked, buf>>

-----------------------------------------------------------------------------
(* hyperamp_queue_dequeue and hyperamp_queue_peek                          *)

ReadEmpty(z, op) ==
  /\ Empty
  /\ Goto(z, "idle", "unlock")
  /\ Acquire
  /\ Returns(z, IF op = "dequeue" THEN "AGAIN" ELSE "ERROR")
  /\ UNCHANGED <<header, tail, data, locals>>

ReadBegin(z, op) ==
  /\ ~Empty
  /\ Goto(z, "idle", op)
  /\ Acquire
  /\ UNCHANGED <<header, tail, data, locals, result>>

CopyOut(z) ==
  /\ pc[z] \in {"dequeue", "peek"}
  /\ cnt[z] <= BlockSize
  /\ buf' = [buf EXCEPT ![z][cnt[z]] = data[BlockOf(tail)][cnt[z]]]
  /\ cnt' = [cnt EXCEPT ![z] = @ + 1]
  /\ UNCHANGED <<header, tail, data, locked, pc, msg, result>>

\* The whole block is copied: dequeue moves tail, peek does not.
ReadDone(z, op) ==
  /\ Goto(z, op, "unlock")
  /\ cnt[z] > BlockSize
  /\ tail' = IF op = "dequeue" THEN Advance(tail) ELSE tail
  /\ Returns(z, Decode(buf[z]))
  /\ buf' = [buf EXCEPT ![z] = Blank]
  /\ cnt' = [cnt EXCEPT ![z] = 1]
  /\ UNCHANGED <<header, data, locked, msg>>

-----------------------------------------------------------------------------
(* hyperamp_queue_release_slot                                             *)

ReleaseSlot(z) ==
  /\ Goto(z, "idle", "unlock")
  /\ Acquire
  /\ \/ /\ Empty
        /\ Returns(z, "ERROR")
        /\ UNCHANGED tail
     \/ /\ ~Empty
        /\ Returns(z, "OK")
        /\ tail' = (tail + 1) % Capacity
  /\ UNCHANGED <<header, data, locals>>

\* hyperamp_spinlock_unlock, then the function returns
Unlock(z) ==
  /\ Goto(z, "unlock", "idle")
  /\ locked' = FALSE
  /\ UNCHANGED <<header, tail, data, locals, result>>

-----------------------------------------------------------------------------
Reading == {"dequeue", "peek"}

\* The steps of a zone that is inside a call.
Continue(z) ==
  \/ CopyIn(z)
  \/ EnqueuePublish(z)
  \/ CopyOut(z)
  \/ \E op \in Reading : ReadDone(z, op)
  \/ Unlock(z)

EnqueueCall(z, m) == EnqueueReject(z, m) \/ EnqueueFull(z, m) \/ EnqueueRoom(z, m)
ReadCall(z, op) == ReadEmpty(z, op) \/ ReadBegin(z, op)

Next ==
  \/ \E z \in Zone : Continue(z)
  \/ \E z \in Producer, m \in Message : EnqueueCall(z, m)
  \/ \E z \in Consumer : ReleaseSlot(z) \/ \E op \in Reading : ReadCall(z, op)

Spec == Init /\ [][Next]_vars

-----------------------------------------------------------------------------
TypeOK ==
  /\ header \in Index /\ tail \in Index
  /\ data \in [Block -> [Chunk -> Message \cup {"none"}]]
  /\ locked \in BOOLEAN
  /\ pc \in [Zone -> Reading \cup {"idle", "enqueue", "unlock"}]
  /\ msg \in [Zone -> Message \cup {"none"}]
  /\ cnt \in [Zone -> 1 .. BlockSize + 1]
  /\ buf \in [Zone -> [Chunk -> Message \cup {"none"}]]
  /\ result \in [Zone -> Message \cup {"OK", "AGAIN", "ERROR", "none"}]

\* The messages from tail up to but not including header, in reading order.
Length == IF header >= tail THEN header - tail ELSE header + Capacity - tail
Wrap(i) == IF i >= Capacity THEN i - Capacity ELSE i
Contents == [k \in 1 .. Length |-> Decode(data[BlockOf(Wrap(tail + k - 1))])]

(* Whatever the zones interleave, the queue is the bounded FIFO its        *)
(* callers rely on (engine.c reads it until HYPERAMP_AGAIN and takes that  *)
(* for "empty"): no message is lost, duplicated, reordered or torn, and    *)
(* AGAIN is returned only when the queue really is full, or empty.         *)
Fifo == INSTANCE BoundedFifo WITH
          fifo <- Contents, Message <- Sendable, Bound <- Capacity - 1
ImplementsFifo == Fifo!Spec

(* Every slot between tail and header holds one whole message: what        *)
(* dequeue hands to the protocol parser is never half written, even when   *)
(* the producer is in the middle of its copy.                              *)
SlotsWhole == \A k \in 1 .. Length : Contents[k] # "none"

(* A reader that was told HYPERAMP_OK got a whole message, not the bytes   *)
(* of two of them.                                                         *)
ReadsWhole == \A z \in Zone : result[z] # "none"

\* What the proofs carry along, when the lock excludes: one zone is inside a
\* call, and what it has copied so far is what it should have copied.
Live(i) == IF header >= tail THEN tail <= i /\ i < header ELSE tail <= i \/ i < header

LockInv ==
  /\ \A z \in Zone : pc[z] # "idle" => locked
  /\ \A y, z \in Zone : pc[y] # "idle" /\ pc[z] # "idle" => y = z

WriterInv(z) ==
  pc[z] = "enqueue" =>
    /\ msg[z] \in Sendable /\ ~Full
    /\ cnt[z] <= Size[msg[z]] + 1
    /\ \A c \in 1 .. cnt[z] - 1 : data[BlockOf(header)][c] = msg[z]

ReaderInv(z) ==
  pc[z] \in Reading =>
    /\ ~Empty
    /\ \A c \in 1 .. cnt[z] - 1 : buf[z][c] = data[BlockOf(tail)][c]

QueueInv ==
  /\ TypeOK
  /\ LockInv
  /\ \A z \in Zone : WriterInv(z) /\ ReaderInv(z)
  /\ \A z \in Zone : pc[z] \in {"idle", "unlock"} => cnt[z] = 1
  /\ \A i \in Index : Live(i) => Decode(data[BlockOf(i)]) \in Sendable
  /\ ReadsWhole
=============================================================================
