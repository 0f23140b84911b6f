------------------------ MODULE HyperampQueue_proofs ------------------------
(***************************************************************************)
(* Proofs about the HyperAMP queue for any number of zones, any capacity   *)
(* and block size and any messages, when the spinlock excludes, and at the *)
(* end about that spinlock for any number of zones: in the Arm64 build it  *)
(* does.                                                                   *)
(***************************************************************************)
EXTENDS HyperampQueue, SequenceTheorems, TLAPS

(* Advance is addition modulo the capacity, which release_slot writes with *)
(* a remainder.                                                            *)
LEMMA AdvanceWraps ==
  ASSUME NEW i \in Index
  PROVE  /\ Advance(i) \in Index
         /\ Advance(i) = IF i + 1 = Capacity THEN 0 ELSE i + 1
         /\ (i + 1) % Capacity = Advance(i)
<1>1. CASE i + 1 = Capacity
  BY <1>1, CapacityAssumption, SMT DEF Index, Advance
<1>2. CASE i + 1 # Capacity
  BY <1>2, CapacityAssumption, SMT DEF Index, Advance
<1> QED
  BY <1>1, <1>2

(* The header slot is free, the tail slot of a queue that is not empty is  *)
(* live.                                                                   *)
LEMMA LiveEnds ==
  ASSUME TypeOK
  PROVE  ~Live(header) /\ (~Empty => Live(tail))
BY CapacityAssumption DEF TypeOK, Live, Index, Empty

(* Decode gives a message that fits, or "none".                            *)
LEMMA DecodeWhole ==
  ASSUME NEW b, NEW m \in Sendable, \A c \in 1 .. Size[m] : b[c] = m
  PROVE  Decode(b) = m
<1>1. Size[m] \in Nat /\ Size[m] > 0
  BY SizeAssumption DEF Sendable, Fits
<1>2. b[1] = m
  BY <1>1
<1> QED
  BY <1>2 DEF Decode

-----------------------------------------------------------------------------
(* While the lock excludes, the zones other than the one inside a call are *)
(* idle, and taking the lock finds them all idle.                          *)
LEMMA OthersIdle ==
  ASSUME QueueInv, NEW z \in Zone
  PROVE  /\ pc[z] # "idle" => \A y \in Zone \ {z} : pc[y] = "idle"
         /\ ~locked => \A y \in Zone : pc[y] = "idle"
BY DEF QueueInv, LockInv

(* Every step keeps the variables in their types.                          *)
LEMMA TypePreserved ==
  ASSUME QueueInv, [Next]_vars
  PROVE  TypeOK'
<1> USE DEF TypeOK, Reading
<1>0. TypeOK /\ Producer \subseteq Zone /\ Consumer \subseteq Zone
  BY RoleAssumption DEF QueueInv
<1>a. Advance(header) \in Index /\ Advance(tail) \in Index /\ (tail + 1) % Capacity \in Index
  BY <1>0, AdvanceWraps
<1>b. \A i \in Index : BlockOf(i) \in Block
  BY CapacityAssumption DEF Index, BlockOf, Block
<1>1. ASSUME NEW z \in Zone, NEW m \in Message, EnqueueCall(z, m)
      PROVE  TypeOK'
  <2>1. CASE EnqueueReject(z, m)
    BY <1>0, <2>1 DEF EnqueueReject, Returns, locals
  <2>2. CASE EnqueueFull(z, m)
    BY <1>0, <2>2 DEF EnqueueFull, Goto, Acquire, Returns, locals
  <2>3. CASE EnqueueRoom(z, m)
    BY <1>0, <2>3 DEF EnqueueRoom, Goto, Acquire
  <2> QED
    BY <1>1, <2>1, <2>2, <2>3 DEF EnqueueCall
<1>2. ASSUME NEW z \in Zone, CopyIn(z)
      PROVE  TypeOK'
  <2>1. msg[z] \in Sendable /\ msg[z] \in Message /\ cnt[z] \in 1 .. BlockSize + 1
    BY <1>0, <1>2 DEF CopyIn, QueueInv, WriterInv, Sendable
  <2>2. Size[msg[z]] \in 1 .. BlockSize
    BY <2>1, SizeAssumption, BlockAssumption DEF Sendable, Fits
  <2>3. cnt[z] \in Chunk /\ cnt[z] + 1 \in 1 .. BlockSize + 1
    BY <1>2, <2>1, <2>2, BlockAssumption DEF CopyIn, Chunk
  <2>4. data' \in [Block -> [Chunk -> Message \cup {"none"}]]
    BY <1>0, <1>b, <1>2, <2>1, <2>3 DEF CopyIn
  <2>5. cnt' \in [Zone -> 1 .. BlockSize + 1]
    BY <1>0, <1>2, <2>3 DEF CopyIn
  <2> QED
    BY <1>0, <1>2, <2>4, <2>5 DEF CopyIn
<1>3. ASSUME NEW z \in Zone, EnqueuePublish(z)
      PROVE  TypeOK'
  BY <1>0, <1>a, <1>3, BlockAssumption DEF EnqueuePublish, Goto, Returns
<1>4. ASSUME NEW z \in Zone, CopyOut(z)
      PROVE  TypeOK'
  <2>1. cnt[z] \in Chunk /\ cnt[z] + 1 \in 1 .. BlockSize + 1
    BY <1>0, <1>4, BlockAssumption DEF CopyOut, Chunk
  <2>2. data[BlockOf(tail)][cnt[z]] \in Message \cup {"none"}
    BY <1>0, <1>b, <2>1
  <2>3. buf' \in [Zone -> [Chunk -> Message \cup {"none"}]]
    BY <1>0, <1>4, <2>1, <2>2 DEF CopyOut
  <2>4. cnt' \in [Zone -> 1 .. BlockSize + 1]
    BY <1>0, <1>4, <2>1 DEF CopyOut
  <2> QED
    BY <1>0, <1>4, <2>3, <2>4 DEF CopyOut
<1>5. ASSUME NEW z \in Zone, NEW op \in Reading, ReadDone(z, op)
      PROVE  TypeOK'
  <2>1. Decode(buf[z]) \in Message \cup {"none"}
    BY DEF Decode, Sendable
  <2>2. tail' \in Index
    BY <1>0, <1>a, <1>5 DEF ReadDone
  <2>3. Blank \in [Chunk -> Message \cup {"none"}]
    BY DEF Blank
  <2>4. 1 \in 1 .. BlockSize + 1
    BY BlockAssumption
  <2> QED
    BY <1>0, <1>5, <2>1, <2>2, <2>3, <2>4 DEF ReadDone, Goto, Returns
<1>6. ASSUME NEW z \in Zone, NEW op \in Reading, ReadCall(z, op)
      PROVE  TypeOK'
  <2>1. CASE ReadEmpty(z, op)
    BY <1>0, <2>1 DEF ReadEmpty, Goto, Acquire, Returns, locals
  <2>2. CASE ReadBegin(z, op)
    BY <1>0, <2>2 DEF ReadBegin, Goto, Acquire, locals
  <2> QED
    BY <1>6, <2>1, <2>2 DEF ReadCall
<1>7. ASSUME NEW z \in Zone, ReleaseSlot(z)
      PROVE  TypeOK'
  BY <1>0, <1>a, <1>7 DEF ReleaseSlot, Goto, Acquire, Returns, locals
<1>8. ASSUME NEW z \in Zone, Unlock(z)
      PROVE  TypeOK'
  BY <1>0, <1>8, Zenon DEF Unlock, Goto, locals
<1>9. CASE UNCHANGED vars
  BY <1>0, <1>9 DEF vars, locals
<1> QED
  BY <1>0, <1>1, <1>2, <1>3, <1>4, <1>5, <1>6, <1>7, <1>8, <1>9 DEF Next, Continue

(* Every step of a zone that is inside a call, and every call that takes   *)
(* the lock, leaves at most that zone inside.                              *)
LEMMA LockPreserved ==
  ASSUME Exclusive, QueueInv, [Next]_vars
  PROVE  LockInv'
<1>0. TypeOK /\ LockInv /\ Producer \subseteq Zone /\ Consumer \subseteq Zone
  BY RoleAssumption DEF QueueInv
<1>1. ASSUME NEW z \in Zone, NEW to, ~locked, locked', pc' = [pc EXCEPT ![z] = to]
      PROVE  LockInv'
  BY <1>0, <1>1 DEF LockInv, TypeOK
<1>2. ASSUME NEW z \in Zone, NEW to, pc[z] # "idle", pc' = [pc EXCEPT ![z] = to], locked' = locked
      PROVE  LockInv'
  BY <1>0, <1>2 DEF LockInv, TypeOK
<1>3. ASSUME pc' = pc, locked' = locked
      PROVE  LockInv'
  BY <1>0, <1>3 DEF LockInv
<1>4. ASSUME NEW z \in Zone, Unlock(z)
      PROVE  LockInv'
  BY <1>0, <1>4 DEF LockInv, TypeOK, Unlock, Goto
<1>5. ASSUME NEW z \in Zone, NEW m \in Message, EnqueueCall(z, m)
      PROVE  LockInv'
  BY <1>1, <1>3, <1>5 DEF EnqueueCall, EnqueueReject, EnqueueFull, EnqueueRoom, Goto, Acquire
<1>6. ASSUME NEW z \in Zone, NEW op \in Reading, ReadCall(z, op)
      PROVE  LockInv'
  BY <1>1, <1>6 DEF ReadCall, ReadEmpty, ReadBegin, Goto, Acquire
<1>7. ASSUME NEW z \in Zone, ReleaseSlot(z)
      PROVE  LockInv'
  BY <1>1, <1>7, Zenon DEF ReleaseSlot, Goto, Acquire
<1>8. ASSUME NEW z \in Zone, CopyIn(z) \/ CopyOut(z)
      PROVE  LockInv'
  BY <1>3, <1>8 DEF CopyIn, CopyOut
<1>9. ASSUME NEW z \in Zone, EnqueuePublish(z)
      PROVE  LockInv'
  BY <1>2, <1>9, Zenon DEF EnqueuePublish, Goto
<1>10. ASSUME NEW z \in Zone, NEW op \in Reading, ReadDone(z, op)
       PROVE  LockInv'
  BY <1>2, <1>10, Zenon DEF ReadDone, Goto, Reading
<1>11. CASE UNCHANGED vars
  BY <1>3, <1>11 DEF vars
<1> QED
  BY <1>0, <1>4, <1>5, <1>6, <1>7, <1>8, <1>9, <1>10, <1>11 DEF Next, Continue

(* A zone that is idle, or about to return, owes nothing.                  *)
LEMMA IdleZone ==
  ASSUME NEW y \in Zone, pc'[y] \in {"idle", "unlock"}, cnt'[y] = 1
  PROVE  WriterInv(y)' /\ ReaderInv(y)' /\ (pc[y] \in {"idle", "unlock"} => cnt[y] = 1)'
BY DEF WriterInv, ReaderInv, Reading

(* What a zone has copied so far stays right: the writer has filled the    *)
(* header slot up to cnt, the reader holds the tail slot up to cnt.        *)
LEMMA ZonesPreserved ==
  ASSUME Exclusive, QueueInv, [Next]_vars, NEW y \in Zone
  PROVE  WriterInv(y)' /\ ReaderInv(y)' /\ (pc[y] \in {"idle", "unlock"} => cnt[y] = 1)'
<1> DEFINE Goal == WriterInv(y)' /\ ReaderInv(y)' /\ (pc[y] \in {"idle", "unlock"} => cnt[y] = 1)'
<1>0. TypeOK /\ TypeOK' /\ LockInv' /\ Producer \subseteq Zone /\ Consumer \subseteq Zone
  BY RoleAssumption, TypePreserved, LockPreserved DEF QueueInv
<1>w. WriterInv(y) /\ ReaderInv(y) /\ (pc[y] \in {"idle", "unlock"} => cnt[y] = 1)
  BY DEF QueueInv
<1>b. BlockOf(header) \in Block /\ BlockOf(tail) \in Block
  BY <1>0, CapacityAssumption DEF TypeOK, Index, BlockOf, Block
<1> HIDE DEF Goal
<1>1. ASSUME NEW z \in Zone, pc[z] # "idle", y # z, pc'[y] = pc[y], cnt'[y] = cnt[y]
      PROVE  Goal
  <2>1. pc[y] = "idle" /\ cnt[y] = 1
    BY <1>1, <1>w, OthersIdle
  <2> QED
    BY <1>1, <2>1, IdleZone DEF Goal
<1>2. ASSUME NEW z \in Zone, ~locked, y # z, pc'[y] = pc[y], cnt'[y] = cnt[y]
      PROVE  Goal
  <2>1. pc[y] = "idle" /\ cnt[y] = 1
    BY <1>2, <1>w, OthersIdle
  <2> QED
    BY <1>2, <2>1, IdleZone DEF Goal
<1>3. ASSUME NEW z \in Zone, NEW m \in Message, EnqueueCall(z, m)
      PROVE  Goal
  <2>1. CASE EnqueueReject(z, m)
    BY <1>w, <2>1 DEF EnqueueReject, Goal, WriterInv, ReaderInv, locals, Full, Empty
  <2>2. CASE EnqueueFull(z, m)
    <3>1. CASE y # z
      BY <1>0, <1>2, <2>2, <3>1 DEF EnqueueFull, Goto, Acquire, locals, TypeOK
    <3>2. CASE y = z
      BY <1>0, <1>w, <2>2, <3>2, IdleZone DEF EnqueueFull, Goto, locals, TypeOK, Goal
    <3> QED
      BY <3>1, <3>2
  <2>3. CASE EnqueueRoom(z, m)
    <3>1. CASE y # z
      BY <1>0, <1>2, <2>3, <3>1 DEF EnqueueRoom, Goto, Acquire, TypeOK
    <3>2. CASE y = z
      <4>1. pc'[y] = "enqueue" /\ cnt'[y] = 1 /\ msg'[y] = m /\ ~Full'
        BY <1>0, <1>w, <2>3, <3>2 DEF EnqueueRoom, Goto, TypeOK, Full
      <4>2. m \in Sendable /\ 1 <= Size[m] + 1
        BY <2>3, SizeAssumption DEF EnqueueRoom, Sendable
      <4> QED
        BY <4>1, <4>2 DEF Goal, WriterInv, ReaderInv, Reading
    <3> QED
      BY <3>1, <3>2
  <2> QED
    BY <1>3, <2>1, <2>2, <2>3 DEF EnqueueCall
<1>4. ASSUME NEW z \in Zone, CopyIn(z)
      PROVE  Goal
  <2>1. CASE y # z
    BY <1>0, <1>1, <1>4, <2>1 DEF CopyIn, TypeOK
  <2>2. CASE y = z
    <3>1. pc'[y] = "enqueue" /\ msg'[y] = msg[y] /\ cnt'[y] = cnt[y] + 1 /\ header' = header /\ ~Full'
      BY <1>0, <1>4, <1>w, <2>2 DEF CopyIn, TypeOK, WriterInv, Full
    <3>2. msg[y] \in Sendable /\ cnt[y] \in Nat /\ cnt[y] >= 1 /\ cnt[y] <= Size[msg[y]] /\ Size[msg[y]] \in 1 .. BlockSize
      BY <1>0, <1>4, <1>w, <2>2, SizeAssumption, BlockAssumption DEF CopyIn, WriterInv, TypeOK, Sendable, Fits
    <3>3. cnt[y] \in Chunk
      BY <3>2, BlockAssumption DEF Chunk
    <3>4. data'[BlockOf(header)] = [data[BlockOf(header)] EXCEPT ![cnt[y]] = msg[y]]
      BY <1>0, <1>4, <1>b, <2>2 DEF CopyIn, TypeOK
    <3>5. data[BlockOf(header)] \in [Chunk -> Message \cup {"none"}]
      BY <1>0, <1>b DEF TypeOK
    <3>6. \A c \in 1 .. cnt'[y] - 1 : data'[BlockOf(header')][c] = msg'[y]
      <4> TAKE c \in 1 .. cnt'[y] - 1
      <4>1. CASE c = cnt[y]
        BY <3>1, <3>3, <3>4, <3>5, <4>1
      <4>2. CASE c # cnt[y]
        <5>1. c \in 1 .. cnt[y] - 1 /\ c \in Chunk
          BY <3>1, <3>2, <4>2, BlockAssumption DEF Chunk
        <5>2. data[BlockOf(header)][c] = msg[y]
          BY <1>4, <1>w, <2>2, <5>1 DEF CopyIn, WriterInv
        <5> QED
          BY <3>1, <3>4, <3>5, <4>2, <5>1, <5>2
      <4> QED
        BY <4>1, <4>2
    <3> QED
      BY <3>1, <3>2, <3>6 DEF Goal, WriterInv, ReaderInv, Reading
  <2> QED
    BY <2>1, <2>2
<1>5. ASSUME NEW z \in Zone, EnqueuePublish(z)
      PROVE  Goal
  <2>1. CASE y # z
    BY <1>0, <1>1, <1>5, <2>1 DEF EnqueuePublish, Goto, TypeOK
  <2>2. CASE y = z
    BY <1>0, <1>5, <2>2, IdleZone DEF EnqueuePublish, Goto, TypeOK, Goal
  <2> QED
    BY <2>1, <2>2
<1>6. ASSUME NEW z \in Zone, CopyOut(z)
      PROVE  Goal
  <2>1. CASE y # z
    BY <1>0, <1>1, <1>6, <2>1, SMTT(30) DEF CopyOut, TypeOK
  <2>2. CASE y = z
    <3>1. pc'[y] \in Reading /\ pc'[y] = pc[y] /\ cnt'[y] = cnt[y] + 1 /\ tail' = tail /\ data' = data /\ ~Empty'
      BY <1>0, <1>6, <1>w, <2>2 DEF CopyOut, TypeOK, ReaderInv, Reading, Empty
    <3>2. cnt[y] \in Nat /\ cnt[y] >= 1 /\ cnt[y] \in Chunk
      BY <1>0, <1>6, <2>2, BlockAssumption, SMTT(30) DEF CopyOut, TypeOK, Chunk
    <3>3. buf'[y] = [buf[y] EXCEPT ![cnt[y]] = data[BlockOf(tail)][cnt[y]]]
      BY <1>0, <1>6, <2>2 DEF CopyOut, TypeOK
    <3>4. buf[y] \in [Chunk -> Message \cup {"none"}] /\ cnt[y] <= BlockSize
      BY <1>0, <1>6, <2>2 DEF TypeOK, CopyOut
    <3>5. \A c \in 1 .. cnt'[y] - 1 : buf'[y][c] = data'[BlockOf(tail')][c]
      <4> TAKE c \in 1 .. cnt'[y] - 1
      <4>1. CASE c = cnt[y]
        BY <3>1, <3>2, <3>3, <3>4, <4>1
      <4>2. CASE c # cnt[y]
        <5>1. c \in 1 .. cnt[y] - 1 /\ c \in Chunk
          BY <3>1, <3>2, <3>4, <4>2, BlockAssumption DEF Chunk
        <5>2. buf[y][c] = data[BlockOf(tail)][c]
          BY <1>w, <3>1, <5>1 DEF ReaderInv
        <5> QED
          BY <3>1, <3>3, <3>4, <4>2, <5>1, <5>2
      <4> QED
        BY <4>1, <4>2
    <3> QED
      BY <3>1, <3>5 DEF Goal, WriterInv, ReaderInv, Reading
  <2> QED
    BY <2>1, <2>2
<1>7. ASSUME NEW z \in Zone, NEW op \in Reading, ReadDone(z, op)
      PROVE  Goal
  <2>1. CASE y # z
    BY <1>0, <1>1, <1>7, <2>1, SMTT(30) DEF ReadDone, Goto, TypeOK, Reading
  <2>2. CASE y = z
    BY <1>0, <1>7, <2>2, IdleZone DEF ReadDone, Goto, TypeOK, Goal
  <2> QED
    BY <2>1, <2>2
<1>8. ASSUME NEW z \in Zone, NEW op \in Reading, ReadCall(z, op)
      PROVE  Goal
  <2>1. CASE y # z
    BY <1>0, <1>2, <1>8, <2>1 DEF ReadCall, ReadEmpty, ReadBegin, Goto, Acquire, locals, TypeOK
  <2>2. CASE y = z /\ ReadEmpty(z, op)
    BY <1>0, <1>w, <2>2, IdleZone DEF ReadEmpty, Goto, locals, TypeOK, Goal
  <2>3. CASE y = z /\ ReadBegin(z, op)
    <3>1. pc'[y] = op /\ cnt'[y] = 1 /\ ~Empty'
      BY <1>0, <1>w, <2>3 DEF ReadBegin, Goto, locals, TypeOK, Empty
    <3> QED
      BY <3>1 DEF Goal, WriterInv, ReaderInv, Reading
  <2> QED
    BY <1>8, <2>1, <2>2, <2>3 DEF ReadCall
<1>9. ASSUME NEW z \in Zone, ReleaseSlot(z)
      PROVE  Goal
  <2>1. CASE y # z
    BY <1>0, <1>2, <1>9, <2>1, SMTT(30) DEF ReleaseSlot, Goto, Acquire, locals, TypeOK
  <2>2. CASE y = z
    BY <1>0, <1>w, <1>9, <2>2, IdleZone DEF ReleaseSlot, Goto, locals, TypeOK, Goal
  <2> QED
    BY <2>1, <2>2
<1>10. ASSUME NEW z \in Zone, Unlock(z)
       PROVE  Goal
  <2>1. CASE y # z
    BY <1>0, <1>1, <1>10, <2>1, SMTT(30) DEF Unlock, Goto, locals, TypeOK
  <2>2. CASE y = z
    BY <1>0, <1>w, <1>10, <2>2, IdleZone DEF Unlock, Goto, locals, TypeOK, Goal
  <2> QED
    BY <2>1, <2>2
<1>11. CASE UNCHANGED vars
  BY <1>w, <1>11, SMTT(30) DEF vars, locals, Goal, WriterInv, ReaderInv, Full, Empty
<1> QED
  BY <1>0, <1>3, <1>4, <1>5, <1>6, <1>7, <1>8, <1>9, <1>10, <1>11 DEF Next, Continue, Goal

(* What a reader has copied when its loop ends is the message of the tail  *)
(* slot, and what a writer publishes is its message.                       *)
LEMMA CopiesWhole ==
  ASSUME QueueInv, NEW z \in Zone
  PROVE  /\ pc[z] \in Reading /\ cnt[z] > BlockSize
              => Decode(buf[z]) = Decode(data[BlockOf(tail)]) /\ Decode(buf[z]) \in Sendable
         /\ pc[z] = "enqueue" /\ cnt[z] > Size[msg[z]]
              => msg[z] \in Sendable /\ Decode(data[BlockOf(header)]) = msg[z]
<1>0. TypeOK /\ WriterInv(z) /\ ReaderInv(z)
  BY DEF QueueInv
<1>b. BlockOf(header) \in Block /\ BlockOf(tail) \in Block
  BY <1>0, CapacityAssumption DEF TypeOK, Index, BlockOf, Block
<1>1. ASSUME pc[z] \in Reading, cnt[z] > BlockSize
      PROVE  Decode(buf[z]) = Decode(data[BlockOf(tail)]) /\ Decode(buf[z]) \in Sendable
  <2>0. cnt[z] \in 1 .. BlockSize + 1
    BY <1>0 DEF TypeOK
  <2>1. cnt[z] - 1 = BlockSize
    BY <1>1, <2>0, BlockAssumption
  <2>2. \A c \in Chunk : buf[z][c] = data[BlockOf(tail)][c]
    BY <1>0, <1>1, <2>1 DEF ReaderInv, Chunk
  <2>3. buf[z] = data[BlockOf(tail)]
    BY <1>0, <1>b, <2>2 DEF TypeOK
  <2>4. Live(tail) /\ tail \in Index
    BY <1>0, <1>1, LiveEnds, SMTT(30) DEF ReaderInv, TypeOK
  <2> QED
    BY <2>3, <2>4 DEF QueueInv
<1>2. ASSUME pc[z] = "enqueue", cnt[z] > Size[msg[z]]
      PROVE  msg[z] \in Sendable /\ Decode(data[BlockOf(header)]) = msg[z]
  <2>1. msg[z] \in Sendable /\ cnt[z] <= Size[msg[z]] + 1
    BY <1>0, <1>2 DEF WriterInv
  <2>2. Size[msg[z]] \in Nat /\ cnt[z] \in Nat
    BY <1>0, <2>1, SizeAssumption DEF Sendable, TypeOK
  <2>3. cnt[z] - 1 = Size[msg[z]]
    BY <1>2, <2>1, <2>2
  <2>4. \A c \in 1 .. Size[msg[z]] : data[BlockOf(header)][c] = msg[z]
    BY <1>0, <1>2, <2>3 DEF WriterInv
  <2> QED
    BY <2>1, <2>4, DecodeWhole
<1> QED
  BY <1>1, <1>2, SMTT(30)

(* Live slots hold whole messages: the copy loop writes the header slot,   *)
(* which is not live, and publishing it makes a whole message live.        *)
LEMMA SlotsPreserved ==
  ASSUME Exclusive, QueueInv, [Next]_vars
  PROVE  (\A i \in Index : Live(i) => Decode(data[BlockOf(i)]) \in Sendable)'
<1> DEFINE Goal == (\A i \in Index : Live(i) => Decode(data[BlockOf(i)]) \in Sendable)'
<1>0. TypeOK /\ TypeOK' /\ Producer \subseteq Zone /\ Consumer \subseteq Zone
  BY RoleAssumption, TypePreserved, SMTT(30) DEF QueueInv
<1>s. \A i \in Index : Live(i) => Decode(data[BlockOf(i)]) \in Sendable
  BY DEF QueueInv
<1>1. ASSUME header' = header, tail' = tail, data' = data
      PROVE  Goal
  BY <1>s, <1>1 DEF Live
<1>2. ASSUME header' = header, tail' = Advance(tail), data' = data, ~Empty
      PROVE  Goal
  <2>0. header \in Index /\ tail \in Index /\ tail # header
    BY <1>0, <1>2 DEF TypeOK, Empty
  <2>a. tail' = IF tail + 1 = Capacity THEN 0 ELSE tail + 1
    BY <1>2, <2>0, AdvanceWraps
  <2>1. \A i \in Index : Live(i)' => Live(i)
    BY <1>2, <2>0, <2>a, CapacityAssumption DEF Live, Index
  <2> QED
    BY <1>s, <1>2, <2>1
<1>3. ASSUME NEW z \in Zone, CopyIn(z)
      PROVE  Goal
  <2>1. \A i \in Index : Live(i)' => Live(i) /\ i # header
    BY <1>3, LiveEnds, <1>0 DEF CopyIn, Live
  <2>2. \A i \in Index : i # header => data'[BlockOf(i)] = data[BlockOf(i)]
    BY <1>0, <1>3, CapacityAssumption DEF CopyIn, BlockOf, TypeOK, Index, Block
  <2>3. \A i \in Index : i # header => Decode(data'[BlockOf(i)]) = Decode(data[BlockOf(i)])
    BY <2>2
  <2> QED
    BY <1>s, <2>1, <2>3
<1>4. ASSUME NEW z \in Zone, EnqueuePublish(z)
      PROVE  Goal
  <2>0. header \in Index /\ tail \in Index /\ tail' = tail
    BY <1>0, <1>4 DEF TypeOK, EnqueuePublish
  <2>a. header' = IF header + 1 = Capacity THEN 0 ELSE header + 1
    BY <1>4, <2>0, AdvanceWraps DEF EnqueuePublish
  <2>1. \A i \in Index : Live(i)' => Live(i) \/ i = header
    BY <2>0, <2>a, CapacityAssumption DEF Live, Index
  <2>2. Decode(data[BlockOf(header)]) \in Sendable
    BY <1>4, CopiesWhole DEF EnqueuePublish, Goto
  <2>3. data' = data
    BY <1>4 DEF EnqueuePublish
  <2> QED
    BY <1>s, <2>1, <2>2, <2>3
<1>5. ASSUME NEW z \in Zone, NEW op \in Reading, ReadDone(z, op)
      PROVE  Goal
  <2>1. ~Empty
    BY <1>5 DEF ReadDone, Goto, QueueInv, ReaderInv
  <2> QED
    BY <1>1, <1>2, <1>5, <2>1 DEF ReadDone
<1>6. ASSUME NEW z \in Zone, ReleaseSlot(z)
      PROVE  Goal
  BY <1>0, <1>1, <1>2, <1>6, AdvanceWraps DEF ReleaseSlot, TypeOK
<1>7. ASSUME NEW z \in Zone, NEW m \in Message, EnqueueCall(z, m)
      PROVE  Goal
  BY <1>1, <1>7 DEF EnqueueCall, EnqueueReject, EnqueueFull, EnqueueRoom
<1>8. ASSUME NEW z \in Zone, NEW op \in Reading, ReadCall(z, op)
      PROVE  Goal
  BY <1>1, <1>8 DEF ReadCall, ReadEmpty, ReadBegin
<1>9. ASSUME NEW z \in Zone, CopyOut(z) \/ Unlock(z)
      PROVE  Goal
  BY <1>1, <1>9 DEF CopyOut, Unlock
<1>10. CASE UNCHANGED vars
  BY <1>1, <1>10 DEF vars
<1> QED
  BY <1>0, <1>3, <1>4, <1>5, <1>6, <1>7, <1>8, <1>9, <1>10, SMTT(30) DEF Next, Continue

(* A call that reads hands out a whole message.                            *)
LEMMA ReadsPreserved ==
  ASSUME QueueInv, [Next]_vars
  PROVE  ReadsWhole'
<1>0. TypeOK /\ ReadsWhole /\ Producer \subseteq Zone /\ Consumer \subseteq Zone
  BY RoleAssumption DEF QueueInv
<1>1. ASSUME NEW z \in Zone, NEW r, r # "none", Returns(z, r)
      PROVE  ReadsWhole'
  BY <1>0, <1>1 DEF Returns, ReadsWhole, TypeOK
<1>2. ASSUME result' = result
      PROVE  ReadsWhole'
  BY <1>0, <1>2 DEF ReadsWhole
<1>3. ASSUME NEW z \in Zone, NEW op \in Reading, ReadDone(z, op)
      PROVE  ReadsWhole'
  <2>1. Decode(buf[z]) \in Message /\ "none" \notin Message
    BY <1>3, CopiesWhole, CodeAssumption DEF ReadDone, Goto, Sendable
  <2> QED
    BY <1>1, <1>3, <2>1, SMTT(30) DEF ReadDone
<1>4. ASSUME NEW z \in Zone, EnqueuePublish(z) \/ ReleaseSlot(z)
      PROVE  ReadsWhole'
  BY <1>1, <1>4 DEF EnqueuePublish, ReleaseSlot
<1>5. ASSUME NEW z \in Zone, NEW m \in Message, EnqueueCall(z, m)
      PROVE  ReadsWhole'
  BY <1>1, <1>2, <1>5 DEF EnqueueCall, EnqueueReject, EnqueueFull, EnqueueRoom
<1>6. ASSUME NEW z \in Zone, NEW op \in Reading, ReadCall(z, op)
      PROVE  ReadsWhole'
  BY <1>1, <1>2, <1>6 DEF ReadCall, ReadEmpty, ReadBegin
<1>7. ASSUME NEW z \in Zone, CopyIn(z) \/ CopyOut(z) \/ Unlock(z)
      PROVE  ReadsWhole'
  BY <1>2, <1>7 DEF CopyIn, CopyOut, Unlock
<1>8. CASE UNCHANGED vars
  BY <1>2, <1>8, SMTT(30) DEF vars
<1> QED
  BY <1>0, <1>3, <1>4, <1>5, <1>6, <1>7, <1>8 DEF Next, Continue

(* The inductive invariant, from its parts.                                *)
LEMMA InvPreserved ==
  ASSUME Exclusive, QueueInv, [Next]_vars
  PROVE  QueueInv'
BY TypePreserved, LockPreserved, ZonesPreserved, SlotsPreserved, ReadsPreserved DEF QueueInv

(* The queue starts empty, with nobody inside.                             *)
LEMMA InvInitially ==
  ASSUME Init
  PROVE  QueueInv
<1> USE DEF Init
<1>1. TypeOK
  <2>1. Blank \in [Chunk -> Message \cup {"none"}]
    BY DEF Blank
  <2>2. 0 \in Index /\ 1 \in 1 .. BlockSize + 1
    BY CapacityAssumption, BlockAssumption DEF Index
  <2>3. data \in [Block -> [Chunk -> Message \cup {"none"}]]
    BY <2>1
  <2>4. buf \in [Zone -> [Chunk -> Message \cup {"none"}]]
    BY <2>1
  <2> QED
    BY <2>2, <2>3, <2>4, Zenon DEF TypeOK, Reading
<1>2. LockInv
  BY DEF LockInv
<1>3. \A z \in Zone : WriterInv(z) /\ ReaderInv(z)
  BY Zenon DEF WriterInv, ReaderInv, Reading
<1>4. \A i \in Index : ~Live(i)
  BY DEF Live, Index
<1>5. ReadsWhole
  BY Zenon DEF ReadsWhole
<1> QED
  BY <1>1, <1>2, <1>3, <1>4, <1>5 DEF QueueInv

-----------------------------------------------------------------------------
(* Contents is a sequence of whole messages, one for each live slot.       *)
LEMMA ContentsType ==
  ASSUME QueueInv
  PROVE  /\ header \in Index /\ tail \in Index
         /\ Length \in 0 .. Capacity - 1
         /\ \A k \in 1 .. Length : Wrap(tail + k - 1) \in Index /\ Live(Wrap(tail + k - 1))
         /\ Contents \in Seq(Sendable)
         /\ Len(Contents) = Length
         /\ \A k \in 1 .. Length : Contents[k] = Decode(data[BlockOf(Wrap(tail + k - 1))])
         /\ Empty <=> Length = 0
<1>1. header \in Index /\ tail \in Index
  BY DEF QueueInv, TypeOK
<1>2. Length \in 0 .. Capacity - 1 /\ (Empty <=> Length = 0)
  BY <1>1, CapacityAssumption DEF Length, Index, Empty
<1>3. \A k \in 1 .. Length : Wrap(tail + k - 1) \in Index /\ Live(Wrap(tail + k - 1))
  BY <1>1, CapacityAssumption DEF Length, Index, Wrap, Live
<1>4. \A k \in 1 .. Length : Decode(data[BlockOf(Wrap(tail + k - 1))]) \in Sendable
  BY <1>3 DEF QueueInv
<1>5. Contents \in Seq(Sendable) /\ Len(Contents) = Length
  BY <1>2, <1>4 DEF Contents
<1>6. \A k \in 1 .. Length : Contents[k] = Decode(data[BlockOf(Wrap(tail + k - 1))])
  BY <1>2 DEF Contents
<1> QED
  BY <1>1, <1>2, <1>3, <1>5, <1>6

(* Moving tail over the oldest message removes it from the contents.       *)
LEMMA TailDropsOldest ==
  ASSUME QueueInv, ~Empty, tail' = Advance(tail), header' = header, data' = data
  PROVE  Contents' = Tail(Contents) /\ Contents # <<>> /\ Head(Contents) = Decode(data[BlockOf(tail)])
<1>b. /\ header \in Index /\ tail \in Index
      /\ Length \in 0 .. Capacity - 1
      /\ Contents \in Seq(Sendable)
      /\ Len(Contents) = Length
      /\ \A k \in 1 .. Length : Contents[k] = Decode(data[BlockOf(Wrap(tail + k - 1))])
      /\ Length # 0
  BY ContentsType
<1>a. tail' = IF tail + 1 = Capacity THEN 0 ELSE tail + 1
  BY <1>b, AdvanceWraps
<1>1. Length' = Length - 1
  BY <1>a, <1>b, CapacityAssumption DEF Length, Index, Empty
<1>2. Contents # <<>> /\ Head(Contents) = Decode(data[BlockOf(tail)])
  <2>1. Wrap(tail + 1 - 1) = tail
    BY <1>b, CapacityAssumption DEF Wrap, Index
  <2>2. Contents # <<>> /\ Head(Contents) = Contents[1] /\ 1 \in 1 .. Length
    BY <1>b, CapacityAssumption
  <2> QED
    BY <1>b, <2>1, <2>2
<1>3. \A k \in 1 .. Length - 1 : Wrap(tail' + k - 1) = Wrap(tail + (k + 1) - 1)
  BY <1>a, <1>b, CapacityAssumption, SMTT(30) DEF Wrap, Index
<1>4. Contents' = [k \in 1 .. Length - 1 |-> Decode(data[BlockOf(Wrap(tail' + k - 1))])]
  BY <1>1 DEF Contents, Wrap, Decode, BlockOf
<1>5. \A k \in 1 .. Length - 1 : Decode(data[BlockOf(Wrap(tail' + k - 1))]) = Contents[k + 1]
  <2> TAKE k \in 1 .. Length - 1
  <2>1. k + 1 \in 1 .. Length
    BY <1>b, CapacityAssumption
  <2> QED
    BY <1>b, <1>3, <2>1
<1>6. \A k \in 1 .. Length - 1 : Contents[k + 1] \in Sendable
  <2> TAKE k \in 1 .. Length - 1
  <2>1. k + 1 \in 1 .. Length
    BY <1>b, CapacityAssumption
  <2> QED
    BY <1>b, <2>1
<1>7. Contents' \in Seq(Sendable) /\ Len(Contents') = Length - 1
  BY <1>b, <1>4, <1>5, <1>6, CapacityAssumption
<1>8. \A k \in 1 .. Length - 1 : Contents'[k] = Tail(Contents)[k]
  BY <1>b, <1>2, <1>4, <1>5, HeadTailProperties
<1> QED
  BY <1>b, <1>2, <1>7, <1>8, HeadTailProperties, SeqEqual

(* Moving header over a whole message appends it to the contents.          *)
LEMMA HeaderAppends ==
  ASSUME QueueInv, ~Full, header' = Advance(header), tail' = tail, data' = data,
         NEW m \in Sendable, Decode(data[BlockOf(header)]) = m
  PROVE  Contents' = Append(Contents, m) /\ Len(Contents) < Capacity - 1
<1>b. /\ header \in Index /\ tail \in Index
      /\ Length \in 0 .. Capacity - 1
      /\ Contents \in Seq(Sendable)
      /\ Len(Contents) = Length
      /\ \A k \in 1 .. Length : Contents[k] = Decode(data[BlockOf(Wrap(tail + k - 1))])
  BY ContentsType
<1>a. header' = (IF header + 1 = Capacity THEN 0 ELSE header + 1) /\ header' # tail
  BY <1>b, AdvanceWraps DEF Full
<1>1. Length' = Length + 1 /\ Length < Capacity - 1
  BY <1>a, <1>b, CapacityAssumption DEF Length, Index
<1>2. Wrap(tail + (Length + 1) - 1) = header
  BY <1>b, CapacityAssumption, SMTT(30) DEF Wrap, Length, Index
<1>3. Contents' = [k \in 1 .. Length + 1 |-> Decode(data[BlockOf(Wrap(tail + k - 1))])]
  BY <1>1 DEF Contents, Wrap, Decode, BlockOf
<1>4. \A k \in 1 .. Length + 1 :
        Decode(data[BlockOf(Wrap(tail + k - 1))]) = IF k = Length + 1 THEN m ELSE Contents[k]
  <2> TAKE k \in 1 .. Length + 1
  <2>1. CASE k = Length + 1
    BY <1>2, <2>1
  <2>2. CASE k # Length + 1
    <3>1. k \in 1 .. Length
      BY <1>b, <2>2
    <3> QED
      BY <1>b, <2>2, <3>1
  <2> QED
    BY <2>1, <2>2
<1>5. \A k \in 1 .. Length + 1 : Decode(data[BlockOf(Wrap(tail + k - 1))]) \in Sendable
  <2> TAKE k \in 1 .. Length + 1
  <2>1. CASE k = Length + 1
    BY <1>2, <2>1
  <2>2. CASE k # Length + 1
    <3>1. k \in 1 .. Length
      BY <1>b, <2>2
    <3>2. Contents[k] \in Sendable
      BY <1>b, <3>1
    <3> QED
      BY <1>b, <3>1, <3>2
  <2> QED
    BY <2>1, <2>2
<1>6. Contents' \in Seq(Sendable) /\ Len(Contents') = Length + 1
  BY <1>b, <1>3, <1>5
<1>7. \A k \in 1 .. Length + 1 : Contents'[k] = Append(Contents, m)[k]
  BY <1>b, <1>3, <1>4, AppendProperties
<1> QED
  BY <1>b, <1>1, <1>6, <1>7, AppendProperties, SeqEqual

(* Every step of a zone is a step of the FIFO, or none.                    *)
LEMMA StepRefines ==
  ASSUME Exclusive, QueueInv, [Next]_vars
  PROVE  [Fifo!Next]_(Fifo!fifoVars)
<1>0. Producer \subseteq Zone /\ Consumer \subseteq Zone /\ header \in Index /\ tail \in Index
  BY RoleAssumption DEF QueueInv, TypeOK
<1>e. Contents \in Seq(Sendable) /\ Len(Contents) = Length /\ (Empty <=> Contents = <<>>)
  BY ContentsType, SMTT(30)
<1>u. ASSUME header' = header, tail' = tail, data' = data
      PROVE  Contents' = Contents
  BY <1>u DEF Contents, Length, Wrap, BlockOf, Decode
<1>1. ASSUME NEW z \in Zone, NEW m \in Message, EnqueueCall(z, m)
      PROVE  [Fifo!Next]_(Fifo!fifoVars)
  <2>1. CASE EnqueueReject(z, m)
    <3>1. Fifo!Refuse(z)
      BY <1>u, <2>1 DEF EnqueueReject, Returns, Fifo!Refuse, Fifo!Returns
    <3> QED
      BY <3>1 DEF Fifo!Next
  <2>2. CASE EnqueueFull(z, m)
    <3>1. Length = Capacity - 1
      BY <1>0, <2>2, AdvanceWraps, CapacityAssumption DEF EnqueueFull, Full, Length, Index
    <3>2. Fifo!PutFull(z)
      BY <1>e, <1>u, <2>2, <3>1 DEF EnqueueFull, Returns, Fifo!PutFull, Fifo!Returns
    <3> QED
      BY <3>2 DEF Fifo!Next
  <2>3. CASE EnqueueRoom(z, m)
    BY <1>u, <2>3 DEF EnqueueRoom, Fifo!fifoVars
  <2> QED
    BY <1>1, <2>1, <2>2, <2>3 DEF EnqueueCall
<1>2. ASSUME NEW z \in Zone, CopyIn(z)
      PROVE  [Fifo!Next]_(Fifo!fifoVars)
  <2>1. \A i \in Index : Live(i) => i # header
    BY LiveEnds DEF QueueInv
  <2>2. \A i \in Index : i # header => data'[BlockOf(i)] = data[BlockOf(i)]
    BY <1>0, <1>2, CapacityAssumption DEF CopyIn, BlockOf, QueueInv, TypeOK, Index, Block
  <2>3. \A k \in 1 .. Length :
          Decode(data'[BlockOf(Wrap(tail + k - 1))]) = Decode(data[BlockOf(Wrap(tail + k - 1))])
    <3>1. ASSUME NEW k \in 1 .. Length
          PROVE  data'[BlockOf(Wrap(tail + k - 1))] = data[BlockOf(Wrap(tail + k - 1))]
      BY <2>1, <2>2, ContentsType
    <3> QED
      BY <3>1, Zenon
  <2>4. header' = header /\ tail' = tail /\ result' = result
    BY <1>2 DEF CopyIn
  <2>5. Length' = Length
    BY <2>4 DEF Length
  <2>6. Contents' = [k \in 1 .. Length |-> Decode(data'[BlockOf(Wrap(tail + k - 1))])]
    BY <2>4, <2>5, SMTT(30) DEF Contents, Wrap, BlockOf, Decode
  <2>7. Contents' = Contents
    BY <2>3, <2>6, ZenonT(60) DEF Contents
  <2> QED
    BY <2>4, <2>7 DEF Fifo!fifoVars
<1>3. ASSUME NEW z \in Zone, EnqueuePublish(z)
      PROVE  [Fifo!Next]_(Fifo!fifoVars)
  <2>1. msg[z] \in Sendable /\ Decode(data[BlockOf(header)]) = msg[z] /\ ~Full
    BY <1>3, CopiesWhole DEF EnqueuePublish, Goto, QueueInv, WriterInv
  <2>2. Contents' = Append(Contents, msg[z]) /\ Len(Contents) < Capacity - 1
    BY <1>3, <2>1, HeaderAppends DEF EnqueuePublish
  <2>3. Fifo!Put(z)
    BY <1>3, <2>1, <2>2 DEF EnqueuePublish, Returns, Fifo!Put, Fifo!Returns
  <2> QED
    BY <2>3 DEF Fifo!Next
<1>4. ASSUME NEW z \in Zone, NEW op \in Reading, ReadDone(z, op)
      PROVE  [Fifo!Next]_(Fifo!fifoVars)
  <2>1. Decode(buf[z]) = Decode(data[BlockOf(tail)]) /\ ~Empty
    BY <1>4, CopiesWhole DEF ReadDone, Goto, QueueInv, ReaderInv
  <2>2. CASE op = "dequeue"
    <3>1. Contents' = Tail(Contents) /\ Contents # <<>> /\ Head(Contents) = Decode(data[BlockOf(tail)])
      BY <1>4, <2>1, <2>2, TailDropsOldest DEF ReadDone
    <3>2. Fifo!Get(z)
      BY <1>4, <2>1, <3>1, Zenon DEF ReadDone, Returns, Fifo!Get, Fifo!Returns
    <3> QED
      BY <3>2 DEF Fifo!Next
  <2>3. CASE op # "dequeue"
    <3>1. Contents' = Contents
      BY <1>4, <1>u, <2>3 DEF ReadDone
    <3>2. Contents # <<>> /\ Head(Contents) = Decode(data[BlockOf(tail)])
      <4>1. Wrap(tail + 1 - 1) = tail
        BY <1>0, CapacityAssumption DEF Wrap, Index
      <4>2. 1 \in 1 .. Length /\ Contents # <<>>
        BY <1>e, <2>1, ContentsType, CapacityAssumption
      <4> QED
        BY <1>e, <4>1, <4>2, ContentsType
    <3>3. Fifo!Peek(z)
      BY <1>4, <2>1, <3>1, <3>2, Zenon DEF ReadDone, Returns, Fifo!Peek, Fifo!Returns
    <3> QED
      BY <3>3 DEF Fifo!Next
  <2> QED
    BY <2>2, <2>3, Zenon
<1>5. ASSUME NEW z \in Zone, NEW op \in Reading, ReadCall(z, op)
      PROVE  [Fifo!Next]_(Fifo!fifoVars)
  <2>1. CASE ReadEmpty(z, op)
    <3>1. Contents' = Contents /\ Contents = <<>>
      BY <1>e, <1>u, <2>1 DEF ReadEmpty
    <3>2. Fifo!GetEmpty(z) \/ Fifo!Refuse(z)
      BY <2>1, <3>1, Zenon DEF ReadEmpty, Returns, Fifo!GetEmpty, Fifo!Refuse, Fifo!Returns
    <3> QED
      BY <3>2 DEF Fifo!Next
  <2>2. CASE ReadBegin(z, op)
    BY <1>u, <2>2 DEF ReadBegin, Fifo!fifoVars
  <2> QED
    BY <1>5, <2>1, <2>2 DEF ReadCall
<1>6. ASSUME NEW z \in Zone, ReleaseSlot(z)
      PROVE  [Fifo!Next]_(Fifo!fifoVars)
  <2>1. CASE Empty
    <3>1. Fifo!Refuse(z)
      BY <1>6, <1>u, <2>1 DEF ReleaseSlot, Returns, Fifo!Refuse, Fifo!Returns
    <3> QED
      BY <3>1 DEF Fifo!Next
  <2>2. CASE ~Empty
    <3>1. tail' = Advance(tail) /\ header' = header /\ data' = data
      BY <1>0, <1>6, <2>2, AdvanceWraps DEF ReleaseSlot
    <3>2. Fifo!Drop(z)
      BY <1>6, <2>2, <3>1, TailDropsOldest DEF ReleaseSlot, Returns, Fifo!Drop, Fifo!Returns
    <3> QED
      BY <3>2 DEF Fifo!Next
  <2> QED
    BY <2>1, <2>2
<1>7. ASSUME NEW z \in Zone, CopyOut(z) \/ Unlock(z)
      PROVE  [Fifo!Next]_(Fifo!fifoVars)
  BY <1>u, <1>7 DEF CopyOut, Unlock, Fifo!fifoVars
<1>8. CASE UNCHANGED vars
  BY <1>u, <1>8 DEF vars, Fifo!fifoVars
<1> QED
  BY <1>0, <1>1, <1>2, <1>3, <1>4, <1>5, <1>6, <1>7, <1>8 DEF Next, Continue

-----------------------------------------------------------------------------
(* hyperamp_queue_dequeue and _peek hand out whole messages and the slots  *)
(* between tail and header hold whole messages, for every number of zones, *)
(* every capacity and every block size, when the lock excludes.            *)
THEOREM WholeMessages ==
  ASSUME Exclusive
  PROVE  Spec => [](SlotsWhole /\ ReadsWhole)
<1>1. Init => QueueInv
  BY InvInitially
<1>2. QueueInv /\ [Next]_vars => QueueInv'
  BY InvPreserved
<1>3. QueueInv => SlotsWhole /\ ReadsWhole
  <2> SUFFICES ASSUME QueueInv
               PROVE  SlotsWhole /\ ReadsWhole
    OBVIOUS
  <2>1. \A k \in 1 .. Length : Contents[k] \in Sendable
    BY ContentsType
  <2>2. "none" \notin Sendable
    BY CodeAssumption DEF Sendable
  <2> QED
    BY <2>1, <2>2 DEF SlotsWhole, QueueInv
<1> QED
  BY <1>1, <1>2, <1>3, PTL DEF Spec

(* The HyperAMP queue is a bounded FIFO of Capacity - 1 messages for every *)
(* number of zones, every capacity and every block size, when the lock     *)
(* excludes: nothing is lost, duplicated, reordered or torn, and           *)
(* HYPERAMP_AGAIN is the truth.                                            *)
THEOREM QueueIsFifo ==
  ASSUME Exclusive
  PROVE  Spec => ImplementsFifo
<1>1. Init => QueueInv
  BY InvInitially
<1>2. Init => Fifo!Init
  BY DEF Init, Fifo!Init, Contents, Length
<1>3. QueueInv /\ [Next]_vars => QueueInv'
  BY InvPreserved
<1>4. QueueInv /\ [Next]_vars => [Fifo!Next]_(Fifo!fifoVars)
  BY StepRefines
<1> QED
  BY <1>1, <1>2, <1>3, <1>4, PTL DEF Spec, ImplementsFifo, Fifo!Spec
-----------------------------------------------------------------------------
(* The spinlock of the queue, with its own variables, in either build      *)
VARIABLES arm64, lock_value, owner_zone_id, monitor, mode, place

Lock == INSTANCE HyperampSpinlock WITH pc <- place, Builds <- BOOLEAN

(* Every access of lock, trylock and unlock keeps the lock word, the owner *)
(* and the places of the zones in their ranges, in both builds.            *)
THEOREM TypeCorrect == Lock!Spec => []Lock!TypeOK
<1>1. Lock!Init => Lock!TypeOK
  BY DEF Lock!Init, Lock!TypeOK, Lock!Place
<1>2. Lock!TypeOK /\ [Lock!Next]_(Lock!vars) => Lock!TypeOK'
  <2> SUFFICES ASSUME Lock!TypeOK, [Lock!Next]_(Lock!vars)
               PROVE  Lock!TypeOK'
    OBVIOUS
  <2> USE DEF Lock!TypeOK, Lock!Place, Lock!Goto, Lock!AfterFailure, Lock!WriteLock
  <2>1. ASSUME NEW z \in Zone, NEW m \in {"lock", "try"}, Lock!Call(z, m)
        PROVE  Lock!TypeOK'
    BY <2>1 DEF Lock!Call
  <2>2. ASSUME NEW z \in Zone, Lock!Ldaxr(z) \/ Lock!SoftTest(z) \/ Lock!SoftRecheck(z)
        PROVE  Lock!TypeOK'
    BY <2>2, Zenon DEF Lock!Ldaxr, Lock!SoftTest, Lock!SoftRecheck
  <2>3. ASSUME NEW z \in Zone, Lock!StlxrSucceed(z) \/ Lock!StlxrFail(z) \/ Lock!SoftSet(z)
        PROVE  Lock!TypeOK'
    BY <2>3, Zenon DEF Lock!StlxrSucceed, Lock!StlxrFail, Lock!SoftSet
  <2>4. ASSUME NEW z \in Zone, Lock!SetOwner(z) \/ Lock!Unlock(z) \/ Lock!ClearOwner(z) \/ Lock!Release(z)
        PROVE  Lock!TypeOK'
    BY <2>4, Zenon DEF Lock!SetOwner, Lock!Unlock, Lock!ClearOwner, Lock!Release
  <2>5. CASE UNCHANGED Lock!vars
    BY <2>5 DEF Lock!vars
  <2> QED
    BY <2>1, <2>2, <2>3, <2>4, <2>5 DEF Lock!Next, Lock!Step
<1> QED
  BY <1>1, <1>2, PTL DEF Lock!Spec

(* Each access preserves the invariant that ties the monitors and the      *)
(* places to the lock word, in the build with exclusive loads and stores.  *)
LEMMA LockInvPreserved ==
  ASSUME Lock!LockInv, [Lock!Next]_(Lock!vars)
  PROVE  Lock!LockInv'
<1> USE DEF Lock!LockInv, Lock!TypeOK, Lock!NoSoftPlace, Lock!MonitorMeansFree, Lock!HolderMeansLocked,
            Lock!MutualExclusion, Lock!OwnerIsHolder, Lock!Holds, Lock!Place, Lock!Goto
<1>1. ASSUME NEW z \in Zone, NEW m \in {"lock", "try"}, Lock!Call(z, m)
      PROVE  Lock!LockInv'
  BY <1>1 DEF Lock!Call
<1>2. ASSUME NEW z \in Zone, Lock!Ldaxr(z)
      PROVE  Lock!LockInv'
  BY <1>2 DEF Lock!Ldaxr, Lock!AfterFailure
<1>3. ASSUME NEW z \in Zone, Lock!StlxrSucceed(z)
      PROVE  Lock!LockInv'
  \* The monitor shows lock_value = 0, so no zone held the lock before.
  <2>1. Lock!TypeOK'
    BY <1>3 DEF Lock!StlxrSucceed, Lock!WriteLock
  <2>2. CASE arm64
    <3>1. \A y \in Zone : ~Lock!Holds(y)
      BY <1>3, <2>2 DEF Lock!StlxrSucceed
    <3> QED
      BY <1>3, <2>1, <2>2, <3>1 DEF Lock!StlxrSucceed, Lock!WriteLock
  <2>3. CASE ~arm64
    BY <1>3, <2>1, <2>3 DEF Lock!StlxrSucceed
  <2> QED
    BY <2>2, <2>3
<1>4. ASSUME NEW z \in Zone, Lock!StlxrFail(z)
      PROVE  Lock!LockInv'
  BY <1>4 DEF Lock!StlxrFail, Lock!AfterFailure
<1>5. ASSUME NEW z \in Zone, Lock!SoftTest(z) \/ Lock!SoftSet(z) \/ Lock!SoftRecheck(z)
      PROVE  Lock!LockInv'
  \* These places exist in the other build only.
  <2>1. ~arm64 /\ UNCHANGED arm64
    BY <1>5 DEF Lock!SoftTest, Lock!SoftSet, Lock!SoftRecheck
  <2>2. CASE Lock!SoftTest(z)
    BY <2>1, <2>2 DEF Lock!SoftTest, Lock!AfterFailure
  <2>3. CASE Lock!SoftSet(z)
    BY <2>1, <2>3 DEF Lock!SoftSet, Lock!WriteLock
  <2>4. CASE Lock!SoftRecheck(z)
    BY <2>1, <2>4 DEF Lock!SoftRecheck, Lock!AfterFailure
  <2> QED
    BY <1>5, <2>2, <2>3, <2>4
<1>6. ASSUME NEW z \in Zone, Lock!SetOwner(z)
      PROVE  Lock!LockInv'
  BY <1>6 DEF Lock!SetOwner
<1>7. ASSUME NEW z \in Zone, Lock!Unlock(z)
      PROVE  Lock!LockInv'
  BY <1>7 DEF Lock!Unlock
<1>8. ASSUME NEW z \in Zone, Lock!ClearOwner(z)
      PROVE  Lock!LockInv'
  BY <1>8 DEF Lock!ClearOwner
<1>9. ASSUME NEW z \in Zone, Lock!Release(z)
      PROVE  Lock!LockInv'
  BY <1>9 DEF Lock!Release, Lock!WriteLock
<1>10. CASE UNCHANGED Lock!vars
  BY <1>10 DEF Lock!vars
<1> QED
  BY <1>1, <1>2, <1>3, <1>4, <1>5, <1>6, <1>7, <1>8, <1>9, <1>10 DEF Lock!Next, Lock!Step

(* The lock keeps its invariant.                                           *)
LEMMA LockInvHolds == Lock!Spec => []Lock!LockInv
<1>1. Lock!Init => Lock!LockInv
  BY DEF Lock!Init, Lock!LockInv, Lock!TypeOK, Lock!NoSoftPlace, Lock!MonitorMeansFree,
         Lock!HolderMeansLocked, Lock!MutualExclusion, Lock!OwnerIsHolder, Lock!Holds, Lock!Place
<1>2. Lock!LockInv /\ [Lock!Next]_(Lock!vars) => Lock!LockInv'
  BY LockInvPreserved
<1> QED
  BY <1>1, <1>2, PTL DEF Lock!Spec

(* In the Arm64 build the lock excludes: two zones never hold it together. *)
THEOREM LockExcludes == Lock!Spec => []Lock!ArmExcludes
<1>1. Lock!LockInv => Lock!ArmExcludes
  BY DEF Lock!LockInv, Lock!ArmExcludes
<1> QED
  BY <1>1, LockInvHolds, PTL

(* In the Arm64 build owner_zone_id names the holder from the end of       *)
(* hyperamp_spinlock_lock to the store that clears it in unlock.           *)
THEOREM OwnerNamesHolder == Lock!Spec => []Lock!ArmOwner
<1>1. Lock!LockInv => Lock!ArmOwner
  BY DEF Lock!LockInv, Lock!ArmOwner
<1> QED
  BY <1>1, LockInvHolds, PTL
=============================================================================
