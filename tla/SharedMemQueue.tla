---------------------------- MODULE SharedMemQueue ----------------------------
(***************************************************************************)
(* The queue of shared_mem_io.h, the predecessor of the HyperAMP queue: a  *)
(* writer that builds its message in place (build_proxy_general_message    *)
(* with MEMORY_ALLOC_SHARED takes the block at header first and fills it   *)
(* afterwards), and a reader that is handed the address of a block, not a  *)
(* copy (shared_mem_pool_queue_recv_zc), and uses it until it asks again.  *)
(*                                                                         *)
(* lock_shared_mem_pool is a stub, so nothing but the caller keeps the     *)
(* reader out while a message is being built (Overlap).  As the code       *)
(* stands it does: shared_mem_pool_queue_create_backend takes the region   *)
(* from malloc (the mmap is commented out), so both sides are calls of one *)
(* thread.  The map mode is SHARE_MEM_MAP_MODE_CONTIGUOUS_BOTH, the one    *)
(* engine.c configures.                                                    *)
(***************************************************************************)
EXTENDS Naturals, Sequences

CONSTANTS
  Capacity,   \* queue->capacity
  Message,    \* messages that can be built
  Attempt,    \* messages the writer tries to build
  Overlap     \* the reader may run while a message is being built

\* "bad": the builder of its type refuses the message; "void": no builder
\* knows its type.
ASSUME QueueAssumption ==
  /\ Capacity \in Nat \ {0}
  /\ {"bad", "void", "none", "OK", "AGAIN", "ERROR"} \cap Message = {}
  /\ Attempt \subseteq Message \cup {"bad", "void"}
  /\ Overlap \in BOOLEAN

VARIABLES
  header, tail,
  block,     \* the data region; block 0 is never used
  ppc,       \* "idle", or "fill": the block is taken and not yet filled
  addr,      \* the block being filled
  msg,       \* the message being built
  held,      \* the block the reader was last given, 0 for none
  content,   \* what it held then
  result     \* of the last call of each side

vars == <<header, tail, block, ppc, addr, msg, held, content, result>>

Index == 0 .. Capacity - 1
Block == 1 .. Capacity

\* SHM_POOL_QUEUE_ALLOC_FROM_HEADER
NextHeader == (header + 1) % Capacity

\* SHMP_QUEUE_DEQUEUE
NextTail == IF tail + 1 >= Capacity THEN tail + 1 - Capacity ELSE tail + 1

\* Mutant: header is not wrapped back.
RollbackUnwrapped == IF header = tail THEN header ELSE IF header = 0 THEN 0 ELSE header - 1

\* SHM_POOL_QUEUE_HEAD_ROLLBACK
Rollback ==
  IF header = tail THEN header ELSE IF header = 0 THEN Capacity - 1 ELSE header - 1

Returns(side, r) == result' = [result EXCEPT ![side] = r]

\* shared_mem_pool_queue_create_backend
Init ==
  /\ header = 0 /\ tail = 0
  /\ block = [b \in Block |-> "none"]
  /\ ppc = "idle" /\ addr = 0 /\ msg = "none"
  /\ held = 0 /\ content = "none"
  /\ result = [side \in {"writer", "reader"} |-> "OK"]
-----------------------------------------------------------------------------
(* build_proxy_general_message                                             *)

AllocFull ==
  /\ ppc = "idle" /\ NextHeader = tail
  /\ Returns("writer", "ERROR")
  /\ UNCHANGED <<header, tail, block, ppc, addr, msg, held, content>>

\* Mutant: a block is taken from a full queue.
AllocUnchecked(m) ==
  /\ ppc = "idle" /\ ppc' = "fill"
  /\ addr' = header + 1
  /\ header' = NextHeader
  /\ msg' = m
  /\ UNCHANGED <<tail, block, held, content, result>>

Alloc(m) ==
  /\ ppc = "idle" /\ ppc' = "fill"
  /\ NextHeader # tail
  /\ addr' = header + 1
  /\ header' = NextHeader
  /\ msg' = m
  /\ UNCHANGED <<tail, block, held, content, result>>

\* The header is written in every case.  A message that cannot be built is
\* taken back; one of unknown type stays, without a payload.
Fill ==
  /\ ppc = "fill" /\ ppc' = "idle"
  /\ block' = [block EXCEPT ![addr] = msg]
  /\ header' = IF msg = "bad" THEN Rollback ELSE header
  /\ Returns("writer", IF msg \in Message THEN "OK" ELSE "ERROR")
  /\ addr' = 0 /\ msg' = "none"
  /\ UNCHANGED <<tail, held, content>>
-----------------------------------------------------------------------------
(* backend_engine_rx_queue_get: shared_mem_pool_queue_recv_zc              *)

RecvEmpty ==
  /\ Overlap \/ ppc = "idle"
  /\ header = tail
  /\ Returns("reader", "AGAIN")
  /\ UNCHANGED <<header, tail, block, ppc, addr, msg, held, content>>

Recv ==
  /\ Overlap \/ ppc = "idle"
  /\ header # tail
  /\ held' = tail + 1
  /\ content' = block[tail + 1]
  /\ Returns("reader", block[tail + 1])
  /\ tail' = NextTail
  /\ UNCHANGED <<header, block, ppc, addr, msg>>

Next ==
  \/ AllocFull
  \/ \E m \in Attempt : Alloc(m)
  \/ Fill
  \/ RecvEmpty
  \/ Recv

Spec == Init /\ [][Next]_vars
-----------------------------------------------------------------------------
Content == Message \cup {"none", "bad", "void"}

TypeOK ==
  /\ header \in Index /\ tail \in Index
  /\ block \in [Block -> Content]
  /\ ppc \in {"idle", "fill"}
  /\ addr \in Block \cup {0} /\ msg \in Content
  /\ held \in Block \cup {0} /\ content \in Content
  /\ result \in [{"writer", "reader"} -> Content \cup {"OK", "AGAIN", "ERROR"}]

(***************************************************************************)
(* The block the reader was given stays as it was until the reader asks    *)
(* for the next one, however far the writer gets ahead: the slot that the  *)
(* full test keeps free is the one being read.                             *)
(***************************************************************************)
HeldIntact == held # 0 => block[held] = content

\* The messages in the queue; a block that is being filled is not one yet.
Length == IF header >= tail THEN header - tail ELSE header + Capacity - tail
Ready == IF ppc = "fill" THEN Length - 1 ELSE Length
Wrap(i) == IF i >= Capacity THEN i - Capacity ELSE i
Contents == [k \in 1 .. Ready |-> block[Wrap(tail + k - 1) + 1]]

(***************************************************************************)
(* Taking a block before it is filled, and giving it back when the message *)
(* cannot be built, leaves a bounded FIFO: nothing is lost, reordered or   *)
(* read half built, and a message the writer was refused is not in it.      *)
(***************************************************************************)
Fifo == INSTANCE BoundedFifo WITH
          Zone <- {"writer", "reader"}, fifo <- Contents, Bound <- Capacity - 1
SharedFifo == Fifo!Spec

\* What the proofs carry along: the block being filled is the last one before
\* header and not the one being read, which is the last one before tail.
After(b) == IF b = Capacity THEN 0 ELSE b
QueueInv ==
  /\ TypeOK
  /\ ppc = "fill" => addr # 0 /\ addr # held /\ header = After(addr) /\ header # tail
  /\ ppc = "fill" => msg \in Attempt
  /\ held # 0 => tail = After(held)
  /\ HeldIntact
=============================================================================
