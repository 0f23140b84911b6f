------------------------ MODULE HyperampSetup_proofs ------------------------
(***************************************************************************)
(* Proofs about the creation of a queue for any capacity, any number of    *)
(* messages and any number of kills, as long as the backend does not meet  *)
(* the queue of an earlier boot (Early holds no "old").                    *)
(***************************************************************************)
EXTENDS HyperampSetup, FiniteSetTheorems, TLAPS

\* Blocks between tail and header, and how far block i is behind tail.
Dist == IF tail <= header THEN header - tail ELSE header + Capacity - tail
Off(i) == IF tail <= i THEN i - tail ELSE i + Capacity - tail

\* Messages whose block has been given back.
Removed == sent - Dist

\* The backend does not start on the queue of an earlier boot.
NoOld == Early \subseteq {"zero"}

FrontendPlaces ==
  {"off", "header", "tail", "capacity", "block_size", "spinlock", "data",
   "ready", "lock", "test", "copy", "publish", "unlock"}
BackendPlaces ==
  {"off", "poll", "test", "copy", "read_tail", "write_tail", "unlock", "handle"}

Types == TypeOK /\ fpc \in FrontendPlaces /\ bpc \in BackendPlaces

\* While the queue is being created: the fields written so far, and a
\* backend that can only have found an empty queue.
Creating ==
  /\ sent = 0 /\ got = <<>> /\ lost = {} /\ buf = NONE /\ new_tail = 0
  /\ bpc \in {"off", "poll", "test", "unlock"}
  /\ boot = "old" => bpc = "off"
  /\ boot = "zero" \/ fpc \notin {"off", "header"} => header = 0
  /\ boot = "zero" \/ fpc \notin {"off", "header", "tail"} => tail = 0
  /\ fpc \in {"block_size", "spinlock", "data"} => capacity = Capacity
  /\ fpc \in {"spinlock", "data"} => block_size = 1

\* The blocks from tail to header hold the messages after the removed ones,
\* and the frontend has a free block, then its message in it.
Ring ==
  /\ capacity = Capacity /\ block_size = 1
  /\ Removed >= 0
  /\ \A i \in Index : Off(i) < Dist => slot[i] = Removed + 1 + Off(i)
  /\ fpc \in {"copy", "publish"} => Dist + 1 < Capacity
  /\ fpc \in {"lock", "test", "copy", "publish"} => sent < SendBound
  /\ fpc = "publish" => slot[header] = sent + 1

\* The message the backend is at.
Buffer ==
  /\ bpc \in {"off", "poll", "test", "copy"} => buf = NONE
  /\ bpc \in {"copy", "read_tail", "write_tail"} => Dist > 0
  /\ bpc \in {"read_tail", "write_tail"} => buf = Removed + 1
  /\ bpc = "write_tail" => new_tail = Advance(tail)
  /\ bpc \in {"unlock", "handle"} => buf \in {NONE, Removed}
  /\ bpc = "handle" => buf # NONE

Done == {got[i] : i \in 1 .. Len(got)}

\* What became of the removed messages.
Outcome ==
  /\ 1 .. Removed = Done \cup lost \cup InHand
  /\ \A i, j \in 1 .. Len(got) : i < j => got[i] < got[j]
  /\ \A i \in 1 .. Len(got), m \in InHand : got[i] < m

LockTrue ==
  Created \/ boot = "zero" \/ fpc = "data" =>
    (locked => Inside \/ fpc \in {"test", "copy", "publish", "unlock"} \/ wedged)

SetupInv ==
  /\ Types /\ LockTrue
  /\ ~Created => Creating
  /\ Created => Ring /\ Buffer /\ Outcome
  /\ Cardinality(lost) <= crashes
-----------------------------------------------------------------------------
(* Distances in the ring are indices: a block is less than Capacity behind *)
(* tail, the block at tail is 0 behind it, and the one at header Dist.     *)
LEMMA RingTypes ==
  ASSUME header \in Index, tail \in Index
  PROVE  /\ Dist \in Index /\ Off(header) = Dist /\ (Dist = 0 <=> header = tail)
         /\ \A i \in Index : Off(i) \in Index /\ (Off(i) = 0 <=> i = tail)
BY SetupAssumption DEF Index, Dist, Off

(* A header that moves on leaves the distances alone and adds one block,   *)
(* its own, to the queue; the queue is full just when it would meet tail.  *)
LEMMA HeaderMoves ==
  ASSUME header \in Index, tail \in Index, capacity = Capacity
  PROVE  /\ Advance(header) \in Index
         /\ Advance(header) = tail <=> Dist + 1 = Capacity
         /\ Dist + 1 < Capacity /\ header' = Advance(header) /\ tail' = tail => Dist' = Dist + 1
         /\ tail' = tail => \A i : Off(i)' = Off(i)
<1>1. Advance(header) \in Index /\ (Advance(header) = tail <=> Dist + 1 = Capacity)
  BY SetupAssumption DEF Index, Dist, Advance
<1>2. Dist + 1 < Capacity /\ header' = Advance(header) /\ tail' = tail => Dist' = Dist + 1
  BY SetupAssumption DEF Index, Dist, Advance
<1>3. tail' = tail => \A i : Off(i)' = Off(i)
  BY DEF Off
<1> QED
  BY <1>1, <1>2, <1>3

(* A tail that moves on brings every block that stays queued one nearer.   *)
LEMMA TailMoves ==
  ASSUME header \in Index, tail \in Index, capacity = Capacity, Dist > 0,
         header' = header, tail' = Advance(tail)
  PROVE  /\ tail' \in Index /\ Dist' = Dist - 1
         /\ \A i \in Index : Off(i)' < Dist' => Off(i)' = Off(i) - 1 /\ Off(i) < Dist
<1>1. tail' \in Index /\ Dist' = Dist - 1
  BY SetupAssumption DEF Index, Dist, Advance
<1>2. \A i \in Index : Off(i)' < Dist' => Off(i)' = Off(i) - 1 /\ Off(i) < Dist
  BY SetupAssumption DEF Index, Dist, Off, Advance
<1> QED
  BY <1>1, <1>2
-----------------------------------------------------------------------------
\* Steps that leave the queue and the messages as they are.
Moves ==
  \/ FrontendStart \/ InitLock \/ EnqueueCall \/ EnqueueLock \/ EnqueueTest \/ EnqueueUnlock
  \/ BackendStart \/ DequeueLock \/ DequeueTest \/ DequeueUnlock

(* They change the lock and the places of the two zones only.              *)
LEMMA MovesKeep ==
  ASSUME Moves
  PROVE  /\ header' = header /\ tail' = tail /\ new_tail' = new_tail /\ capacity' = capacity
         /\ block_size' = block_size /\ slot' = slot /\ buf' = buf /\ sent' = sent /\ got' = got
         /\ lost' = lost /\ crashes' = crashes /\ wedged' = wedged /\ boot' = boot
BY SMTT(30) DEF Moves, FrontendStart, InitLock, EnqueueCall, EnqueueLock, EnqueueTest, EnqueueUnlock,
   BackendStart, DequeueLock, DequeueTest, DequeueUnlock, control, history

(* The variables keep their types: what the frontend stores is a message,  *)
(* what the backend processes is one, and indices stay below the capacity. *)
LEMMA TypesStep ==
  ASSUME SetupInv, [Next]_vars
  PROVE  Types'
<1> USE SetupAssumption DEF Types, TypeOK, SetupInv, FrontendPlaces, BackendPlaces
<1> USE DEF FGoto, BGoto, control, history
<1>1. 0 \in Index /\ Capacity \in Nat \ {0}
  BY DEF Index
<1>2. CASE Moves
  <2>1. /\ header' = header /\ tail' = tail /\ new_tail' = new_tail /\ capacity' = capacity
        /\ block_size' = block_size /\ slot' = slot /\ buf' = buf /\ sent' = sent /\ got' = got
        /\ lost' = lost /\ crashes' = crashes /\ wedged' = wedged /\ boot' = boot
    BY <1>2, MovesKeep, SMTT(30)
  <2>2. locked' \in BOOLEAN /\ fpc' \in FrontendPlaces /\ bpc' \in BackendPlaces
    BY <1>2, ZenonT(60) DEF Moves, FrontendStart, InitLock, EnqueueCall, EnqueueLock, EnqueueTest,
       EnqueueUnlock, BackendStart, DequeueLock, DequeueTest, DequeueUnlock
  <2> QED
    BY <2>1, <2>2
<1>3. CASE InitHeader \/ InitTail \/ InitCapacity \/ InitBlockSize
  BY <1>1, <1>3 DEF InitHeader, InitTail, InitCapacity, InitBlockSize
<1>4. CASE ClearData
  BY <1>4 DEF ClearData, Cell
<1>5. CASE EnqueueCopy
  <2>1. sent + 1 \in Cell
    BY <1>5 DEF EnqueueCopy, Created, Ring, Cell, Message
  <2> QED
    BY <1>5, <2>1 DEF EnqueueCopy
<1>6. CASE EnqueuePublish
  <2>1. Ring
    BY <1>6 DEF EnqueuePublish, Created
  <2>2. sent + 1 \in 0 .. SendBound /\ Advance(header) \in Index
    BY <1>6, <2>1, HeaderMoves DEF EnqueuePublish, Ring
  <2> QED
    BY <1>6, <2>2 DEF EnqueuePublish
<1>7. CASE DequeueCopy
  BY <1>7 DEF DequeueCopy
<1>8. CASE DequeueReadTail
  <2>1. Ring
    BY <1>8 DEF DequeueReadTail, Creating
  <2>2. Advance(tail) \in Index
    BY <2>1 DEF Ring, Advance, Index
  <2> QED
    BY <1>8, <2>2 DEF DequeueReadTail
<1>9. CASE DequeueWriteTail
  BY <1>1, <1>9 DEF DequeueWriteTail
<1>10. CASE Handle
  <2>1. buf \in Cell
    BY <1>10 DEF Handle, Creating, Buffer
  <2>2. Append(got, buf) \in Seq(Cell)
    BY <2>1
  <2> QED
    BY <1>10, <2>2 DEF Handle
<1>11. CASE BackendKilled
  <2>1. InHand \subseteq Cell /\ (wedged \/ Inside) \in BOOLEAN
    BY DEF InHand, Inside
  <2>2. crashes' \in 0 .. CrashBound
    BY <1>11 DEF BackendKilled
  <2> QED
    BY <1>1, <1>11, <2>1, <2>2 DEF BackendKilled
<1>12. CASE UNCHANGED vars
  BY <1>12 DEF vars
<1> QED
  BY <1>2, <1>3, <1>4, <1>5, <1>6, <1>7, <1>8, <1>9, <1>10, <1>11, <1>12
     DEF Next, FrontendSteps, BackendSteps, Moves

(* The lock is taken by somebody or wedged: whoever takes it is inside,    *)
(* whoever leaves frees it, whoever is killed inside is remembered.        *)
LEMMA LockStep ==
  ASSUME SetupInv, [Next]_vars
  PROVE  LockTrue'
<1> USE DEF LockTrue, SetupInv, Created, Inside, FGoto, BGoto, control, history
<1>1. CASE EnqueueLock \/ EnqueueUnlock \/ DequeueLock \/ DequeueUnlock \/ InitLock
  BY <1>1 DEF EnqueueLock, EnqueueUnlock, DequeueLock, DequeueUnlock, InitLock
<1>2. CASE FrontendStart \/ InitHeader \/ InitTail \/ InitCapacity \/ InitBlockSize \/ ClearData
  BY <1>2, Zenon DEF FrontendStart, InitHeader, InitTail, InitCapacity, InitBlockSize, ClearData
<1>3. CASE EnqueueCall \/ EnqueueTest \/ EnqueueCopy \/ EnqueuePublish
  BY <1>3, Zenon DEF EnqueueCall, EnqueueTest, EnqueueCopy, EnqueuePublish
<1>4. CASE BackendStart \/ DequeueTest \/ DequeueCopy \/ DequeueReadTail \/ DequeueWriteTail \/ Handle
  BY <1>4, Zenon DEF BackendStart, DequeueTest, DequeueCopy, DequeueReadTail, DequeueWriteTail, Handle
<1>5. CASE BackendKilled
  BY <1>5, Zenon DEF BackendKilled
<1>6. CASE UNCHANGED vars
  BY <1>6 DEF vars
<1> QED
  BY <1>1, <1>2, <1>3, <1>4, <1>5, <1>6 DEF Next, FrontendSteps, BackendSteps

(* While the queue is being created the backend finds it empty: the two    *)
(* indices of a zeroed memory stay equal under the creator's writes.       *)
LEMMA CreatingStep ==
  ASSUME NoOld, SetupInv, [Next]_vars, ~Created'
  PROVE  Creating'
<1>1. ~Created /\ Creating
  BY DEF SetupInv, Created, Next, FrontendSteps, BackendSteps, vars, FGoto, FrontendStart,
     InitHeader, InitTail, InitCapacity, InitBlockSize, InitLock, ClearData, EnqueueCall,
     EnqueueLock, EnqueueTest, EnqueueCopy, EnqueuePublish, EnqueueUnlock, BackendStart,
     DequeueLock, DequeueTest, DequeueCopy, DequeueReadTail, DequeueWriteTail, DequeueUnlock,
     Handle, BackendKilled
<1> USE <1>1 DEF Creating, Created, FGoto, BGoto, control, history
<1>2. CASE FrontendStart \/ InitHeader \/ InitTail \/ InitCapacity \/ InitBlockSize \/ InitLock
  BY <1>2 DEF FrontendStart, InitHeader, InitTail, InitCapacity, InitBlockSize, InitLock
<1>3. CASE ClearData \/ EnqueueCall \/ EnqueueLock \/ EnqueueTest \/ EnqueueCopy
           \/ EnqueuePublish \/ EnqueueUnlock
  BY <1>3 DEF ClearData, EnqueueCall, EnqueueLock, EnqueueTest, EnqueueCopy, EnqueuePublish,
     EnqueueUnlock
<1>4. CASE BackendStart \/ DequeueLock \/ DequeueUnlock
  BY <1>4 DEF BackendStart, DequeueLock, DequeueUnlock, NoOld
<1>5. CASE DequeueTest
  <2>1. boot = "zero" /\ tail = header
    BY <1>5, SetupAssumption DEF DequeueTest, SetupInv, Types, TypeOK
  <2> QED
    BY <1>5, <2>1 DEF DequeueTest
<1>6. CASE DequeueCopy \/ DequeueReadTail \/ DequeueWriteTail \/ Handle
  BY <1>6 DEF DequeueCopy, DequeueReadTail, DequeueWriteTail, Handle
<1>7. CASE BackendKilled
  BY <1>7 DEF BackendKilled, InHand
<1>8. CASE UNCHANGED vars
  BY <1>8 DEF vars
<1> QED
  BY <1>2, <1>3, <1>4, <1>5, <1>6, <1>7, <1>8, Zenon DEF Next, FrontendSteps, BackendSteps
-----------------------------------------------------------------------------
\* What holds of the queue once it exists.
Queue == Ring /\ Buffer /\ Outcome

(* The creator hands over an empty queue, whatever the backend is doing.   *)
LEMMA QueueCreated ==
  ASSUME SetupInv, ClearData
  PROVE  Queue'
<1>1. /\ fpc = "data" /\ fpc' = "ready" /\ Creating
      /\ header' = header /\ tail' = tail /\ capacity' = capacity /\ block_size' = block_size
      /\ bpc' = bpc /\ buf' = buf /\ sent' = sent /\ got' = got /\ lost' = lost
  BY DEF ClearData, FGoto, SetupInv, Created, control, history
<1>2. /\ header' = 0 /\ tail' = 0 /\ capacity' = Capacity /\ block_size' = 1
      /\ sent' = 0 /\ got' = <<>> /\ lost' = {} /\ buf' = NONE
      /\ bpc' \in {"off", "poll", "test", "unlock"}
  BY <1>1 DEF Creating
<1>3. Dist' = 0 /\ Removed' = 0 /\ \A i \in Index : ~(Off(i)' < Dist')
  BY <1>2, SetupAssumption DEF Dist, Removed, Off, Index
<1>4. Ring'
  BY <1>1, <1>2, <1>3 DEF Ring
<1>5. Buffer'
  BY <1>2 DEF Buffer
<1>6. InHand' = {} /\ Done' = {} /\ Len(got') = 0
  BY <1>2 DEF InHand, Done
<1>7. Outcome'
  BY <1>2, <1>3, <1>6 DEF Outcome
<1> QED
  BY <1>4, <1>5, <1>7 DEF Queue

(* Moves of the two zones: an enqueue that found room keeps its room, and  *)
(* a dequeue that found a message still has it.                            *)
LEMMA QueueMoves ==
  ASSUME SetupInv, Queue, Created, Moves
  PROVE  Queue'
<1>1. /\ header' = header /\ tail' = tail /\ new_tail' = new_tail /\ capacity' = capacity
      /\ block_size' = block_size /\ slot' = slot /\ buf' = buf /\ sent' = sent /\ got' = got
      /\ lost' = lost
  BY MovesKeep
<1>2. header \in Index /\ tail \in Index
  BY DEF SetupInv, Types, TypeOK
<1>3. Dist' = Dist /\ Removed' = Removed /\ (\A i : Off(i)' = Off(i)) /\ Advance(tail)' = Advance(tail)
  BY <1>1 DEF Dist, Removed, Off, Advance
<1>4. Dist \in Index /\ (Dist = 0 <=> header = tail) /\ (Advance(header) = tail <=> Dist + 1 = Capacity)
  BY <1>2, RingTypes, HeaderMoves DEF Queue, Ring
<1>5. /\ fpc' \notin {"copy", "publish"} \/ fpc' = fpc
         \/ (fpc = "test" /\ fpc' = "copy" /\ Dist + 1 < Capacity)
      /\ fpc' \in {"lock", "test", "copy", "publish"} =>
           (fpc \in {"lock", "test", "copy", "publish"} \/ sent < SendBound)
      /\ fpc' = "publish" => fpc = "publish"
  BY <1>4, SetupAssumption DEF Moves, FGoto, BGoto, FrontendStart, InitLock, EnqueueCall, EnqueueLock, EnqueueTest,
     EnqueueUnlock, BackendStart, DequeueLock, DequeueTest, DequeueUnlock, Index
<1>6. Ring'
  <2>1. /\ fpc' \in {"copy", "publish"} => Dist + 1 < Capacity
        /\ fpc' \in {"lock", "test", "copy", "publish"} => sent < SendBound
        /\ fpc' = "publish" => slot[header] = sent + 1
    BY <1>5 DEF Queue, Ring
  <2> QED
    BY <1>1, <1>3, <2>1 DEF Queue, Ring
<1>7. \/ bpc' = bpc
      \/ bpc = "off" /\ bpc' = "poll"
      \/ bpc = "poll" /\ bpc' = "test"
      \/ bpc = "test" /\ bpc' = "unlock"
      \/ bpc = "test" /\ bpc' = "copy" /\ Dist > 0
      \/ bpc = "unlock" /\ bpc' = "poll" /\ buf = NONE
      \/ bpc = "unlock" /\ bpc' = "handle" /\ buf # NONE
  BY <1>4, SetupAssumption DEF Moves, FGoto, BGoto, FrontendStart, InitLock, EnqueueCall, EnqueueLock, EnqueueTest,
     EnqueueUnlock, BackendStart, DequeueLock, DequeueTest, DequeueUnlock, Index
<1>8. Buffer'
  BY <1>1, <1>3, <1>7 DEF Queue, Buffer
<1>9. InHand' = InHand
  BY <1>1, <1>7, SMTT(30) DEF InHand, Queue, Buffer
<1>10. Done' = Done
  BY <1>1 DEF Done
<1>11. Outcome'
  BY <1>1, <1>3, <1>9, <1>10 DEF Queue, Outcome
<1> QED
  BY <1>6, <1>8, <1>11 DEF Queue

(* The copy goes to the block at header, which is not queued.              *)
LEMMA QueueCopied ==
  ASSUME SetupInv, Queue, EnqueueCopy
  PROVE  Queue'
<1>1. /\ header' = header /\ tail' = tail /\ new_tail' = new_tail /\ capacity' = capacity
      /\ block_size' = block_size /\ buf' = buf /\ sent' = sent /\ got' = got /\ lost' = lost
      /\ slot' = [slot EXCEPT ![header] = sent + 1]
      /\ fpc = "copy" /\ fpc' = "publish" /\ bpc' = bpc
  BY DEF EnqueueCopy, FGoto, control, history
<1>2. header \in Index /\ tail \in Index /\ slot \in [Index -> Cell]
  BY DEF SetupInv, Types, TypeOK
<1>3. Dist' = Dist /\ Removed' = Removed /\ (\A i : Off(i)' = Off(i)) /\ Advance(tail)' = Advance(tail)
  BY <1>1 DEF Dist, Removed, Off, Advance
<1>4. Off(header) = Dist /\ Dist \in Index
  BY <1>2, RingTypes
<1>5. /\ slot'[header] = sent + 1
      /\ \A i \in Index : i # header => slot'[i] = slot[i]
  BY <1>1, <1>2
<1>6. \A i \in Index : Off(i) < Dist => i # header
  BY <1>4 DEF Index
<1>7. Ring'
  BY <1>1, <1>3, <1>5, <1>6 DEF Queue, Ring
<1>8. Buffer' /\ InHand' = InHand /\ Done' = Done
  BY <1>1, <1>3 DEF Queue, Buffer, InHand, Done
<1>9. Outcome'
  BY <1>1, <1>3, <1>8 DEF Queue, Outcome
<1> QED
  BY <1>7, <1>8, <1>9 DEF Queue

(* Publishing adds the block at header, with the next message, to the end  *)
(* of the queue and removes nothing.                                       *)
LEMMA QueuePublished ==
  ASSUME SetupInv, Queue, EnqueuePublish
  PROVE  Queue'
<1>1. /\ header' = Advance(header) /\ tail' = tail /\ new_tail' = new_tail
      /\ capacity' = capacity /\ block_size' = block_size /\ buf' = buf /\ sent' = sent + 1
      /\ got' = got /\ lost' = lost /\ slot' = slot
      /\ fpc = "publish" /\ fpc' = "unlock" /\ bpc' = bpc
  BY DEF EnqueuePublish, FGoto, control, history
<1>2. header \in Index /\ tail \in Index /\ sent \in Nat
  BY DEF SetupInv, Types, TypeOK
<1>3. Dist' = Dist + 1 /\ (\A i : Off(i)' = Off(i)) /\ Dist \in Nat
      /\ (\A i \in Index : Off(i) \in Nat)
  BY <1>1, <1>2, HeaderMoves, RingTypes DEF Queue, Ring, Index
<1>4. Removed' = Removed /\ Removed \in Nat /\ Advance(tail)' = Advance(tail)
  BY <1>1, <1>2, <1>3 DEF Removed, Advance, Queue, Ring
<1>5. \A i \in Index : Off(i) = Dist => i = header
  BY <1>2, SetupAssumption DEF Off, Dist, Index
<1>6. slot[header] = sent + 1 /\ sent = Removed + Dist
  BY <1>1, <1>2, <1>3 DEF Queue, Ring, Removed
<1>7. ASSUME NEW i \in Index, Off(i)' < Dist'
      PROVE  slot'[i] = Removed' + 1 + Off(i)'
  <2>1. CASE Off(i) < Dist
    BY <1>1, <1>3, <1>4, <2>1 DEF Queue, Ring
  <2>2. CASE Off(i) = Dist
    BY <1>1, <1>3, <1>4, <1>5, <1>6, <2>2
  <2> QED
    BY <1>3, <1>7, <2>1, <2>2
<1>8. Ring'
  BY <1>1, <1>4, <1>7 DEF Queue, Ring
<1>9. Buffer' /\ InHand' = InHand /\ Done' = Done
  BY <1>1, <1>3, <1>4 DEF Queue, Buffer, InHand, Done
<1>10. Outcome'
  BY <1>1, <1>4, <1>9 DEF Queue, Outcome
<1> QED
  BY <1>8, <1>9, <1>10 DEF Queue

(* The backend copies the first queued message and computes the new tail.  *)
LEMMA QueueRead ==
  ASSUME SetupInv, Queue, DequeueCopy \/ DequeueReadTail
  PROVE  Queue'
<1>1. /\ header' = header /\ tail' = tail /\ capacity' = capacity
      /\ block_size' = block_size /\ sent' = sent /\ got' = got /\ lost' = lost
      /\ slot' = slot /\ fpc' = fpc
  BY DEF DequeueCopy, DequeueReadTail, control, history
<1>2. header \in Index /\ tail \in Index
  BY DEF SetupInv, Types, TypeOK
<1>3. Dist' = Dist /\ Removed' = Removed /\ (\A i : Off(i)' = Off(i)) /\ Advance(tail)' = Advance(tail)
  BY <1>1 DEF Dist, Removed, Off, Advance
<1>4. Off(tail) = 0 /\ Dist \in Nat /\ sent \in Nat /\ Removed \in Int
  BY <1>2, RingTypes DEF Index, Removed, SetupInv, Types, TypeOK
<1>5. Ring'
  BY <1>1, <1>3 DEF Queue, Ring
<1>6. Buffer'
  <2>1. CASE DequeueCopy
    <3>1. bpc = "copy" /\ bpc' = "read_tail" /\ buf' = slot[tail] /\ Dist > 0
      BY <2>1 DEF DequeueCopy, BGoto, Queue, Buffer
    <3>2. slot[tail] = Removed + 1
      BY <1>2, <1>4, <3>1 DEF Queue, Ring
    <3> QED
      BY <1>3, <3>1, <3>2 DEF Buffer
  <2>2. CASE DequeueReadTail
    BY <1>3, <2>2 DEF DequeueReadTail, BGoto, Queue, Buffer
  <2> QED
    BY <2>1, <2>2
<1>7. InHand' = InHand /\ Done' = Done
  BY <1>1 DEF InHand, Done, DequeueCopy, DequeueReadTail, BGoto
<1>8. Outcome'
  BY <1>1, <1>3, <1>7 DEF Queue, Outcome
<1> QED
  BY <1>5, <1>6, <1>8 DEF Queue

(* The write of tail gives the first block back; its message is in hand.   *)
LEMMA QueueRemoved ==
  ASSUME SetupInv, Queue, DequeueWriteTail
  PROVE  Queue'
<1>1. /\ header' = header /\ tail' = new_tail /\ capacity' = capacity
      /\ block_size' = block_size /\ sent' = sent /\ got' = got /\ lost' = lost
      /\ slot' = slot /\ fpc' = fpc /\ buf' = buf
      /\ bpc = "write_tail" /\ bpc' = "unlock"
  BY DEF DequeueWriteTail, BGoto, control, history
<1>2. header \in Index /\ tail \in Index /\ sent \in Nat
  BY DEF SetupInv, Types, TypeOK
<1>3. Dist > 0 /\ tail' = Advance(tail) /\ buf = Removed + 1 /\ capacity = Capacity
  BY <1>1 DEF Queue, Buffer, Ring
<1>4. /\ Dist' = Dist - 1
      /\ \A i \in Index : Off(i)' < Dist' => Off(i)' = Off(i) - 1 /\ Off(i) < Dist
  BY <1>1, <1>2, <1>3, TailMoves
<1>5. Dist \in Nat /\ Removed \in Nat /\ (\A i \in Index : Off(i) \in Nat) /\ Removed' = Removed + 1
  BY <1>1, <1>2, <1>4, RingTypes DEF Removed, Index, Queue, Ring
<1>6. Ring'
  <2>1. ASSUME NEW i \in Index, Off(i)' < Dist'
        PROVE  slot'[i] = Removed' + 1 + Off(i)'
    <3>1. slot[i] = Removed + 1 + Off(i) /\ Off(i)' = Off(i) - 1
      BY <1>4, <2>1 DEF Queue, Ring
    <3> QED
      BY <1>1, <1>5, <3>1
  <2>2. fpc' \in {"copy", "publish"} => Dist' + 1 < Capacity
    BY <1>1, <1>4, <1>5, SetupAssumption DEF Queue, Ring
  <2> QED
    BY <1>1, <1>5, <2>1, <2>2 DEF Queue, Ring
<1>7. Buffer'
  BY <1>1, <1>3, <1>5 DEF Buffer
<1>8. InHand = {} /\ InHand' = {Removed + 1} /\ Done' = Done
  BY <1>1, <1>3, <1>5 DEF InHand, Done, NONE
<1>9. 1 .. Removed' = Done' \cup lost' \cup InHand'
  <2>1. 1 .. Removed + 1 = (1 .. Removed) \cup {Removed + 1}
    BY <1>5
  <2> QED
    BY <1>1, <1>5, <1>8, <2>1 DEF Queue, Outcome
<1>10. ASSUME NEW i \in 1 .. Len(got)
       PROVE  got[i] < Removed + 1
  <2>1. got[i] \in 1 .. Removed
    BY DEF Queue, Outcome, Done
  <2> QED
    BY <1>5, <2>1
<1>11. Outcome'
  BY <1>1, <1>8, <1>9, <1>10 DEF Queue, Outcome
<1> QED
  BY <1>6, <1>7, <1>11 DEF Queue

(* The message in hand is processed: it is later than all before it.       *)
LEMMA QueueHandled ==
  ASSUME SetupInv, Queue, Handle
  PROVE  Queue'
<1>1. /\ header' = header /\ tail' = tail /\ capacity' = capacity
      /\ block_size' = block_size /\ sent' = sent /\ lost' = lost /\ new_tail' = new_tail
      /\ slot' = slot /\ fpc' = fpc /\ got' = Append(got, buf) /\ buf' = NONE
      /\ bpc = "handle" /\ bpc' = "poll"
  BY DEF Handle, BGoto, control
<1>2. buf = Removed /\ buf # NONE /\ InHand = {buf} /\ InHand' = {}
  BY <1>1 DEF Queue, Buffer, InHand
<1>3. Dist' = Dist /\ Removed' = Removed /\ (\A i : Off(i)' = Off(i)) /\ Advance(tail)' = Advance(tail)
  BY <1>1 DEF Dist, Removed, Off, Advance
<1>4. Ring'
  BY <1>1, <1>3 DEF Queue, Ring
<1>5. Buffer'
  BY <1>1 DEF Buffer
<1>6. /\ got \in Seq(Cell) /\ Len(got) \in Nat /\ Len(got') = Len(got) + 1
      /\ got'[Len(got) + 1] = buf /\ \A i \in 1 .. Len(got) : got'[i] = got[i]
  BY <1>1 DEF SetupInv, Types, TypeOK
<1>7. Done' = Done \cup {buf}
  BY <1>6 DEF Done
<1>8. \A i \in 1 .. Len(got) : got[i] < buf
  BY <1>2 DEF Queue, Outcome
<1>9. \A i, j \in 1 .. Len(got') : i < j => got'[i] < got'[j]
  BY <1>6, <1>8 DEF Queue, Outcome
<1>10. Outcome'
  BY <1>1, <1>2, <1>3, <1>7, <1>9 DEF Queue, Outcome
<1> QED
  BY <1>4, <1>5, <1>10 DEF Queue

(* A kill before the write of tail loses nothing, one after it loses the   *)
(* message in hand.                                                        *)
LEMMA QueueKilled ==
  ASSUME SetupInv, Queue, BackendKilled
  PROVE  Queue'
<1>1. /\ header' = header /\ tail' = tail /\ capacity' = capacity
      /\ block_size' = block_size /\ sent' = sent /\ got' = got /\ lost' = lost \cup InHand
      /\ slot' = slot /\ fpc' = fpc /\ buf' = NONE /\ bpc' = "off"
  BY DEF BackendKilled, control
<1>2. Dist' = Dist /\ Removed' = Removed /\ (\A i : Off(i)' = Off(i))
  BY <1>1 DEF Dist, Removed, Off
<1>3. Ring'
  BY <1>1, <1>2, SMTT(30) DEF Queue, Ring
<1>4. Buffer' /\ InHand' = {} /\ Done' = Done
  BY <1>1 DEF Buffer, InHand, Done
<1>5. Outcome'
  BY <1>1, <1>2, <1>4 DEF Queue, Outcome
<1> QED
  BY <1>3, <1>4, <1>5 DEF Queue

(* Once created, a queue is never created again, and each step keeps it.   *)
LEMMA QueueStep ==
  ASSUME SetupInv, [Next]_vars, Created'
  PROVE  Queue'
<1>1. CASE ClearData
  BY <1>1, QueueCreated
<1>2. CASE ~ClearData
  <2>1. Created
    BY <1>2 DEF Created, Next, FrontendSteps, BackendSteps, vars, FGoto, FrontendStart,
       InitHeader, InitTail, InitCapacity, InitBlockSize, InitLock, EnqueueCall,
       EnqueueLock, EnqueueTest, EnqueueCopy, EnqueuePublish, EnqueueUnlock, BackendStart,
       DequeueLock, DequeueTest, DequeueCopy, DequeueReadTail, DequeueWriteTail,
       DequeueUnlock, Handle, BackendKilled
  <2>2. Queue /\ ~(InitHeader \/ InitTail \/ InitCapacity \/ InitBlockSize)
    BY <2>1, SMTT(30) DEF SetupInv, Queue, Created, FGoto, InitHeader, InitTail, InitCapacity, InitBlockSize
  <2>3. CASE UNCHANGED vars
    BY <2>2, <2>3, Zenon DEF vars, control, history, Queue, Ring, Buffer, Outcome, Dist, Off, Removed,
       Advance, Done, InHand
  <2>4. CASE Next
    BY <1>2, <2>1, <2>2, <2>4, QueueMoves, QueueCopied, QueuePublished, QueueRead, QueueRemoved,
       QueueHandled, QueueKilled DEF Next, FrontendSteps, BackendSteps, Moves
  <2> QED
    BY <2>3, <2>4, Zenon
<1> QED
  BY <1>1, <1>2

(* A kill adds at most one message to the lost ones.                       *)
LEMMA CountStep ==
  ASSUME SetupInv, [Next]_vars
  PROVE  Cardinality(lost)' <= crashes'
<1>1. IsFiniteSet(lost) /\ Cardinality(lost) \in Nat /\ crashes \in Nat
  <2>1. IsFiniteSet(0 .. SendBound + 2)
    BY FS_Interval, SetupAssumption
  <2>2. lost \in SUBSET (0 .. SendBound + 2)
    BY SetupAssumption DEF SetupInv, Types, TypeOK, Cell, Message, ZERO, OLD
  <2>3. IsFiniteSet(lost)
    BY <2>1, <2>2, FS_Subset, Zenon
  <2> QED
    BY <2>3, FS_CardinalityType DEF SetupInv, Types, TypeOK
<1>2. CASE BackendKilled
  <2>1. InHand = {} \/ InHand = {buf}
    BY DEF InHand
  <2>2. Cardinality(lost \cup {buf}) <= Cardinality(lost) + 1
    BY <1>1, FS_AddElement
  <2>3. crashes' = crashes + 1 /\ lost' = lost \cup InHand
    BY <1>2 DEF BackendKilled
  <2>4. CASE InHand = {}
    BY <1>1, <2>3, <2>4 DEF SetupInv
  <2>5. CASE InHand = {buf}
    <3>1. lost' = lost \cup {buf} /\ Cardinality(lost) <= crashes
      BY <2>3, <2>5 DEF SetupInv
    <3>2. Cardinality(lost \cup {buf}) \in Nat
      BY <1>1, FS_AddElement, FS_CardinalityType
    <3> QED
      BY <1>1, <2>2, <2>3, <3>1, <3>2
  <2> QED
    BY <2>1, <2>4, <2>5
<1>3. CASE ~BackendKilled
  <2>1. lost' = lost /\ crashes' = crashes
    BY <1>3 DEF Next, FrontendSteps, BackendSteps, vars, history, FrontendStart,
       InitHeader, InitTail, InitCapacity, InitBlockSize, InitLock, ClearData, EnqueueCall,
       EnqueueLock, EnqueueTest, EnqueueCopy, EnqueuePublish, EnqueueUnlock, BackendStart,
       DequeueLock, DequeueTest, DequeueCopy, DequeueReadTail, DequeueWriteTail,
       DequeueUnlock, Handle
  <2> QED
    BY <2>1, Zenon DEF SetupInv
<1> QED
  BY <1>2, <1>3

(* Every step keeps the invariant.                                         *)
LEMMA SetupInvPreserved ==
  ASSUME NoOld, SetupInv, [Next]_vars
  PROVE  SetupInv'
BY TypesStep, LockStep, CreatingStep, QueueStep, CountStep DEF SetupInv, Queue

(* Memory at boot, zeroed or with an old queue, satisfies the invariant.   *)
LEMMA SetupInvInitial == Init => SetupInv
<1> SUFFICES ASSUME Init
             PROVE  SetupInv
  OBVIOUS
<1>1. ~Created /\ fpc = "off" /\ bpc = "off"
  BY DEF Init, Created
<1>2. 0 \in Index
  BY SetupAssumption DEF Index
<1>3. TypeOK
  <2>1. ZERO \in Cell /\ OLD \in Cell
    BY DEF Cell
  <2>2. slot \in [Index -> Cell]
    BY <2>1 DEF Init
  <2>3. got \in Seq(Cell)
    BY DEF Init
  <2> QED
    BY <1>2, <2>2, <2>3, SetupAssumption DEF Init, TypeOK
<1>4. Types
  BY <1>1, <1>3 DEF Types, FrontendPlaces, BackendPlaces
<1>5. Creating
  BY <1>1 DEF Init, Creating
<1>6. LockTrue
  BY <1>1 DEF Init, LockTrue
<1>7. Cardinality(lost) <= crashes
  BY FS_EmptySet DEF Init
<1> QED
  BY <1>1, <1>4, <1>5, <1>6, <1>7 DEF SetupInv
-----------------------------------------------------------------------------
(* Every reachable state satisfies the invariant.                          *)
LEMMA SetupInvHolds ==
  ASSUME NoOld
  PROVE  Spec => []SetupInv
<1>1. Init => SetupInv
  BY SetupInvInitial
<1>2. SetupInv /\ [Next]_vars => SetupInv'
  BY SetupInvPreserved
<1> QED
  BY <1>1, <1>2, PTL DEF Spec

(* However the zones boot and however often the backend is killed, it      *)
(* processes only messages this boot's frontend sent, each at most once    *)
(* and in order.                                                           *)
THEOREM BackendProcessesInOrder ==
  ASSUME NoOld
  PROVE  Spec => []ProcessedInOrder
<1>1. SetupInv => ProcessedInOrder
  <2> SUFFICES ASSUME SetupInv
               PROVE  ProcessedInOrder
    OBVIOUS
  <2>1. CASE ~Created
    BY <2>1 DEF SetupInv, Creating, ProcessedInOrder
  <2>2. CASE Created
    <3>1. Outcome /\ sent \in Nat /\ Dist \in Nat
      BY <2>2, RingTypes DEF SetupInv, Types, TypeOK, Index
    <3>2. ASSUME NEW i \in 1 .. Len(got)
          PROVE  got[i] \in 1 .. sent
      <4>1. got[i] \in 1 .. Removed
        BY <3>1 DEF Outcome, Done
      <4> QED
        BY <3>1, <4>1 DEF Removed
    <3> QED
      BY <3>1, <3>2 DEF ProcessedInOrder, Outcome
  <2> QED
    BY <2>1, <2>2
<1> QED
  BY <1>1, SetupInvHolds, PTL

(* Every message is in the queue, in hand, processed, or lost with one of  *)
(* the kills.                                                              *)
THEOREM NoMessageDisappears ==
  ASSUME NoOld
  PROVE  Spec => []MessagesAccountedFor
<1>1. SetupInv => MessagesAccountedFor
  <2> SUFFICES ASSUME SetupInv
               PROVE  MessagesAccountedFor
    OBVIOUS
  <2>1. ASSUME Created
        PROVE  1 .. sent = Done \cup lost \cup InHand \cup Queued
    <3> DEFINE In(j) == IF tail <= header THEN tail <= j /\ j < header
                                          ELSE tail <= j \/ j < header
    <3>1. Ring /\ Outcome /\ sent \in Nat /\ header \in Index /\ tail \in Index
      BY <2>1 DEF SetupInv, Types, TypeOK
    <3>2. Dist \in Nat /\ Dist < Capacity /\ Removed \in Nat /\ sent = Removed + Dist
      BY <3>1, RingTypes, SetupAssumption DEF Index, Removed, Ring
    <3>3. \A j \in Index : (In(j) <=> Off(j) < Dist) /\ Off(j) \in Nat
      BY <3>1, SetupAssumption DEF Off, Dist, Index
    <3>4. \A j \in Index : Off(j) < Dist => slot[j] = Removed + 1 + Off(j)
      BY <3>1 DEF Ring
    <3>5. \A k \in 0 .. Dist - 1 : \E j \in Index : Off(j) = k
      <4> TAKE k \in 0 .. Dist - 1
      <4> DEFINE j == IF tail + k < Capacity THEN tail + k ELSE tail + k - Capacity
      <4>1. j \in Index /\ Off(j) = k
        BY <3>1, <3>2, SetupAssumption DEF Off, Index
      <4> QED
        BY <4>1
    <3>6. Queued = {slot[j] : j \in {l \in Index : In(l)}}
      BY DEF Queued
    <3> HIDE DEF In
    <3>7. ASSUME NEW m \in Queued
          PROVE  m \in Removed + 1 .. sent
      BY <3>2, <3>3, <3>4, <3>6, <3>7
    <3>8. ASSUME NEW m \in Removed + 1 .. sent
          PROVE  m \in Queued
      <4>1. m - Removed - 1 \in 0 .. Dist - 1
        BY <3>2, <3>8
      <4>2. PICK j \in Index : Off(j) = m - Removed - 1
        BY <3>5, <4>1
      <4>3. In(j) /\ slot[j] = m
        BY <3>2, <3>3, <3>4, <4>1, <4>2
      <4> QED
        BY <3>6, <4>3
    <3>9. Queued = Removed + 1 .. sent
      BY <3>7, <3>8, Zenon
    <3>10. 1 .. sent = (1 .. Removed) \cup (Removed + 1 .. sent)
      BY <3>2
    <3> QED
      BY <3>1, <3>9, <3>10 DEF Outcome
  <2> QED
    BY <2>1 DEF MessagesAccountedFor, SetupInv, Done
<1> QED
  BY <1>1, SetupInvHolds, PTL

(* Once the queue exists, a lock that nobody inside holds was left by a    *)
(* backend killed between lock and unlock.                                 *)
THEOREM LockNeverOrphaned ==
  ASSUME NoOld
  PROVE  Spec => []LockHasHolder
<1>1. SetupInv => LockHasHolder
  BY DEF SetupInv, LockTrue, LockHasHolder
<1> QED
  BY <1>1, SetupInvHolds, PTL
=============================================================================
