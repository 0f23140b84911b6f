---------------------------- MODULE HyperampSetup ----------------------------
(***************************************************************************)
(* How a HyperAMP queue comes to life.  engine_init_hyperamp_queue calls   *)
(* hyperamp_linux_init with is_creator = 0: the frontend zone creates the  *)
(* queue, field by field, and the backend connects to whatever the memory  *)
(* holds, without waiting ("no wait mode"), and polls it.  The memory is   *)
(* zero at a cold boot and holds an old queue after a warm one.  The       *)
(* backend process may be killed at any point, the lock in its hand, and   *)
(* started again.                                                          *)
(*                                                                         *)
(* One queue is modelled, the one the backend reads; a message is one      *)
(* cell here (HyperampQueue has the copy loops).  Indices and capacity are *)
(* below 256, so the two bytes of a field are never seen half written.     *)
(* Each zone's accesses happen one by one: the lock is being initialised,  *)
(* so nothing follows from holding it.                                     *)
(***************************************************************************)
EXTENDS Naturals, Sequences, FiniteSets

CONSTANTS
  Capacity,     \* config->capacity
  Memory,       \* what the shared memory may hold at boot
  Early,        \* kinds of memory with which the backend may start before
                \* the frontend has created the queue
  SendBound,    \* messages the frontend sends
  CrashBound    \* times the backend is killed

ASSUME SetupAssumption ==
  /\ Capacity \in Nat \ {0} /\ SendBound \in Nat /\ CrashBound \in Nat
  /\ Memory \subseteq {"zero", "old"} /\ Early \subseteq Memory

VARIABLES
  header, tail, capacity, block_size, locked,   \* the control block
  slot,       \* slot[i]: the message in block i + 1 of the data region
  fpc, bpc,   \* where the frontend and the backend are
  buf,        \* the backend's message buffer
  new_tail,   \* local of hyperamp_queue_dequeue
  boot,       \* what the memory held
  \* To state properties:
  sent,       \* messages published
  got,        \* messages the backend has processed, over all its lives
  lost,       \* messages a killed backend had taken and not processed
  crashes,
  wedged      \* the backend was killed between lock and unlock

control == <<header, tail, capacity, block_size>>
history == <<got, lost, crashes, wedged>>
vars == <<control, locked, slot, fpc, bpc, buf, new_tail, boot, sent, history>>

Index == 0 .. Capacity - 1
OLD == SendBound + 1   \* a message of the old queue
ZERO == SendBound + 2  \* a cleared block
NONE == 0              \* no message

\* (i + 1), less queue->capacity when it reaches it
Advance(i) == IF i + 1 >= capacity THEN i + 1 - capacity ELSE i + 1

\* The old queue may hold messages and its lock may have been left taken.
Init ==
  /\ boot \in Memory
  /\ \/ /\ boot = "zero"
        /\ header = 0 /\ tail = 0 /\ capacity = 0 /\ block_size = 0 /\ locked = FALSE
        /\ slot = [i \in Index |-> ZERO]
     \/ /\ boot = "old"
        /\ header \in Index /\ tail \in Index /\ capacity = Capacity /\ block_size = 1
        /\ locked \in BOOLEAN
        /\ slot = [i \in Index |-> OLD]
  /\ fpc = "off" /\ bpc = "off"
  /\ buf = NONE /\ new_tail = 0
  /\ sent = 0 /\ got = <<>> /\ lost = {} /\ crashes = 0 /\ wedged = FALSE

FGoto(from, to) == fpc = from /\ fpc' = to
BGoto(from, to) == bpc = from /\ bpc' = to
-----------------------------------------------------------------------------
(***************************************************************************)
(* The creator's hyperamp_queue_init, then the clearing of the data region *)
(* by hyperamp_linux_init.  The frontend has its own copy of this code.    *)
(***************************************************************************)
FrontendStart ==
  /\ FGoto("off", "header")
  /\ UNCHANGED <<control, locked, slot, bpc, buf, new_tail, boot, sent, history>>

\* Mutant: queue_init leaves the header as it was.
InitHeaderKept ==
  /\ FGoto("header", "tail")
  /\ UNCHANGED <<control, locked, slot, bpc, buf, new_tail, boot, sent, history>>

InitHeader ==
  /\ FGoto("header", "tail") /\ header' = 0
  /\ UNCHANGED <<tail, capacity, block_size, locked, slot, bpc, buf, new_tail, boot, sent, history>>

InitTail ==
  /\ FGoto("tail", "capacity") /\ tail' = 0
  /\ UNCHANGED <<header, capacity, block_size, locked, slot, bpc, buf, new_tail, boot, sent, history>>

InitCapacity ==
  /\ FGoto("capacity", "block_size") /\ capacity' = Capacity
  /\ UNCHANGED <<header, tail, block_size, locked, slot, bpc, buf, new_tail, boot, sent, history>>

InitBlockSize ==
  /\ FGoto("block_size", "spinlock") /\ block_size' = 1
  /\ UNCHANGED <<header, tail, capacity, locked, slot, bpc, buf, new_tail, boot, sent, history>>

\* Mutant: queue_init leaves the lock as it was.
InitLockKept ==
  /\ FGoto("spinlock", "data")
  /\ UNCHANGED <<control, locked, slot, bpc, buf, new_tail, boot, sent, history>>

\* hyperamp_spinlock_init, whoever holds the lock
InitLock ==
  /\ FGoto("spinlock", "data") /\ locked' = FALSE
  /\ UNCHANGED <<control, slot, bpc, buf, new_tail, boot, sent, history>>

ClearData ==
  /\ FGoto("data", "ready") /\ slot' = [i \in Index |-> ZERO]
  /\ UNCHANGED <<control, locked, bpc, buf, new_tail, boot, sent, history>>
-----------------------------------------------------------------------------
(* The frontend sends its messages: hyperamp_queue_enqueue.                *)

EnqueueCall ==
  /\ sent < SendBound
  /\ block_size > 0
  /\ FGoto("ready", "lock")
  /\ UNCHANGED <<control, locked, slot, bpc, buf, new_tail, boot, sent, history>>

EnqueueLock ==
  /\ FGoto("lock", "test")
  /\ ~locked /\ locked' = TRUE
  /\ UNCHANGED <<control, slot, bpc, buf, new_tail, boot, sent, history>>

\* Mutant: a full queue is not noticed.
EnqueueTestSkipped ==
  /\ FGoto("test", "copy")
  /\ UNCHANGED <<control, locked, slot, bpc, buf, new_tail, boot, sent, history>>

EnqueueTest ==
  /\ FGoto("test", IF Advance(header) = tail THEN "unlock" ELSE "copy")
  /\ UNCHANGED <<control, locked, slot, bpc, buf, new_tail, boot, sent, history>>

EnqueueCopy ==
  /\ FGoto("copy", "publish")
  /\ slot' = [slot EXCEPT ![header] = sent + 1]
  /\ UNCHANGED <<control, locked, bpc, buf, new_tail, boot, sent, history>>

EnqueuePublish ==
  /\ FGoto("publish", "unlock")
  /\ header' = Advance(header)
  /\ sent' = sent + 1
  /\ UNCHANGED <<tail, capacity, block_size, locked, slot, bpc, buf, new_tail, boot, history>>

EnqueueUnlock ==
  /\ FGoto("unlock", "ready")
  /\ locked' = FALSE
  /\ UNCHANGED <<control, slot, bpc, buf, new_tail, boot, sent, history>>
-----------------------------------------------------------------------------
(***************************************************************************)
(* The backend: engine_init_hyperamp_queue maps the memory (when it cannot *)
(* the process ends and nothing has happened), hyperamp_linux_init prints  *)
(* the capacity it finds, and STEP (1) of engine_run_hyperamp polls.       *)
(***************************************************************************)
Created == fpc \notin {"off", "header", "tail", "capacity", "block_size", "spinlock", "data"}

BackendStart ==
  /\ boot \in Early \/ Created
  /\ BGoto("off", "poll")
  /\ UNCHANGED <<control, locked, slot, fpc, buf, new_tail, boot, sent, history>>

DequeueLock ==
  /\ BGoto("poll", "test")
  /\ ~locked /\ locked' = TRUE
  /\ UNCHANGED <<control, slot, fpc, buf, new_tail, boot, sent, history>>

DequeueTest ==
  /\ BGoto("test", IF tail = header THEN "unlock" ELSE "copy")
  /\ UNCHANGED <<control, locked, slot, fpc, buf, new_tail, boot, sent, history>>

DequeueCopy ==
  /\ BGoto("copy", "read_tail")
  /\ buf' = slot[tail]
  /\ UNCHANGED <<control, locked, slot, fpc, new_tail, boot, sent, history>>

\* queue->tail is read again for the update.
DequeueReadTail ==
  /\ BGoto("read_tail", "write_tail")
  /\ new_tail' = Advance(tail)
  /\ UNCHANGED <<control, locked, slot, fpc, buf, boot, sent, history>>

DequeueWriteTail ==
  /\ BGoto("write_tail", "unlock")
  /\ tail' = new_tail /\ new_tail' = 0
  /\ UNCHANGED <<header, capacity, block_size, locked, slot, fpc, buf, boot, sent, history>>

\* Mutant: a dequeue that took a message leaves the lock taken.
DequeueUnlockForgotten ==
  /\ BGoto("unlock", IF buf = NONE THEN "poll" ELSE "handle")
  /\ locked' = (buf = NONE)
  /\ UNCHANGED <<control, slot, fpc, buf, new_tail, boot, sent, history>>

DequeueUnlock ==
  /\ BGoto("unlock", IF buf = NONE THEN "poll" ELSE "handle")
  /\ locked' = FALSE
  /\ UNCHANGED <<control, slot, fpc, buf, new_tail, boot, sent, history>>

\* backend_proxy_msg_process
Handle ==
  /\ BGoto("handle", "poll")
  /\ got' = Append(got, buf)
  /\ buf' = NONE
  /\ UNCHANGED <<control, locked, slot, fpc, new_tail, boot, sent, lost, crashes, wedged>>

Inside == bpc \in {"test", "copy", "read_tail", "write_tail", "unlock"}
InHand == IF bpc \in {"unlock", "handle"} THEN {buf} \ {NONE} ELSE {}

\* External: the process is killed.  No handler gives the lock back.
BackendKilled ==
  /\ bpc # "off" /\ bpc' = "off"
  /\ crashes < CrashBound /\ crashes' = crashes + 1
  /\ wedged' = (wedged \/ Inside)
  /\ lost' = lost \cup InHand
  /\ buf' = NONE /\ new_tail' = 0
  /\ UNCHANGED <<control, locked, slot, fpc, boot, sent, got>>
-----------------------------------------------------------------------------
FrontendSteps ==
  \/ FrontendStart \/ InitHeader \/ InitTail \/ InitCapacity \/ InitBlockSize
  \/ InitLock \/ ClearData
  \/ EnqueueCall \/ EnqueueLock \/ EnqueueTest \/ EnqueueCopy \/ EnqueuePublish \/ EnqueueUnlock

BackendSteps ==
  \/ BackendStart \/ DequeueLock \/ DequeueTest \/ DequeueCopy \/ DequeueReadTail
  \/ DequeueWriteTail \/ DequeueUnlock \/ Handle

Next == FrontendSteps \/ BackendSteps \/ BackendKilled

\* Both zones run, and somebody restarts the backend.  A zone that spins on
\* the lock gets it if it is free again and again: the backend sleeps a second
\* before each poll, and the frontend is taken to pause after HYPERAMP_AGAIN.
Fairness ==
  /\ WF_vars(FrontendSteps) /\ WF_vars(BackendSteps)
  /\ SF_vars(EnqueueLock) /\ SF_vars(DequeueLock)

Spec == Init /\ [][Next]_vars /\ Fairness
-----------------------------------------------------------------------------
Message == 1 .. SendBound
Cell == Message \cup {ZERO, OLD}

TypeOK ==
  /\ header \in Index /\ tail \in Index /\ new_tail \in Index
  /\ capacity \in {0, Capacity} /\ block_size \in {0, 1} /\ locked \in BOOLEAN
  /\ slot \in [Index -> Cell] /\ buf \in Cell \cup {NONE}
  /\ sent \in 0 .. SendBound /\ got \in Seq(Cell) /\ lost \subseteq Cell
  /\ crashes \in 0 .. CrashBound /\ wedged \in BOOLEAN /\ boot \in Memory

(***************************************************************************)
(* The backend processes, over all its lives, only messages this boot's    *)
(* frontend sent, each at most once and in the order they were sent:       *)
(* polling a queue that is being created, having the lock reset under its  *)
(* feet, and being killed and restarted in the middle of a dequeue do not  *)
(* make it read a block twice, too early, or out of the old queue.         *)
(***************************************************************************)
ProcessedInOrder ==
  /\ \A i \in 1 .. Len(got) : got[i] \in 1 .. sent
  /\ \A i, j \in 1 .. Len(got) : i < j => got[i] < got[j]

Queued ==
  {slot[i] : i \in {j \in Index : IF tail <= header THEN tail <= j /\ j < header
                                                    ELSE tail <= j \/ j < header}}

(***************************************************************************)
(* No message disappears but with a process that was killed while it had   *)
(* the message in hand, one per kill: every other one is in the queue, in  *)
(* hand, or processed.  In particular the creator's writes take effect     *)
(* before the first message, and an unlock that gives away the other       *)
(* zone's lock loses nothing.                                              *)
(***************************************************************************)
MessagesAccountedFor ==
  /\ Created => 1 .. sent = {got[i] : i \in 1 .. Len(got)} \cup lost \cup InHand \cup Queued
  /\ Cardinality(lost) <= crashes

(***************************************************************************)
(* Once the queue exists, the lock is taken by nobody only if the backend  *)
(* was killed between lock and unlock: the creator's reset frees a lock    *)
(* left by an earlier boot, and no order of the two zones' unlocks leaves  *)
(* it taken.                                                               *)
(***************************************************************************)
LockHasHolder ==
  Created /\ locked => Inside \/ fpc \in {"test", "copy", "publish", "unlock"} \/ wedged

(***************************************************************************)
(* Whatever the order in which the zones boot and however often the        *)
(* backend is restarted, every message is processed in the end, or was     *)
(* lost with a killed process, or the lock went with one.                  *)
(***************************************************************************)
AllProcessed ==
  <>(wedged \/ Message \subseteq {got[i] : i \in 1 .. Len(got)} \cup lost)

(***************************************************************************)
(* engine.c:2146: Linux "initializes both the RX and TX HyperAMP queues"   *)
(* when the engine starts: what the backend then reads was written after   *)
(* that, not found in the memory.                                          *)
(***************************************************************************)
ReadsThisBoot == \A i \in 1 .. Len(got) : got[i] \in 1 .. sent

(***************************************************************************)
(* engine.c:39-40: an interrupted backend leaves no "inconsistent states"  *)
(* behind: the lock is not left taken.                                     *)
(***************************************************************************)
KilledCleanly == ~wedged
=============================================================================
