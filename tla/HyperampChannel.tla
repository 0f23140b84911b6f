--------------------------- MODULE HyperampChannel ---------------------------
(***************************************************************************)
(* The two HyperAMP queues between the frontend proxy (seL4) and the       *)
(* backend engine (Linux), as hyperamp_linux_init and the engine set them  *)
(* up: each queue has its own control block, but every enqueue on          *)
(* hyper_tx_queue and every dequeue on hyper_rx_queue gets the same        *)
(* eng->hyper_amp_data_region as virt_base.  Slot i of the one queue and   *)
(* slot i of the other are the same memory.                                *)
(*                                                                         *)
(* The frontend is not part of the repository; it is modelled from what    *)
(* the backend expects of it: commands, which the backend answers with one *)
(* response each before it reads on, and data messages, which it does not  *)
(* answer.                                                                 *)
(***************************************************************************)
EXTENDS Naturals, Sequences

CONSTANTS
  Capacity,   \* slots of each queue
  BlockSize,  \* chunks of a slot
  Exclusive,  \* the spinlock excludes (the Arm64 build)
  Window      \* commands the frontend has outstanding at most

ASSUME ChannelAssumption ==
  {Capacity, BlockSize} \subseteq Nat \ {0} /\ Exclusive \in BOOLEAN /\ Window \in Nat

VARIABLES
  data,   \* the one data region
  rxHeader, rxTail, rxLocked, rxPc, rxMsg, rxCnt, rxBuf, rxResult,
  txHeader, txTail, txLocked, txPc, txMsg, txCnt, txBuf, txResult,
  pending,      \* the command the backend is handling
  outstanding   \* commands sent and not yet answered

rxOnly == <<rxHeader, rxTail, rxLocked, rxPc, rxMsg, rxCnt, rxBuf, rxResult>>
txOnly == <<txHeader, txTail, txLocked, txPc, txMsg, txCnt, txBuf, txResult>>
vars == <<data, rxOnly, txOnly, pending, outstanding>>

Command == {"open", "close"}
Reply(c) == IF c = "open" THEN "opened" ELSE "closed"
FromFrontend == Command \cup {"f2b"}
FromBackend == {"opened", "closed", "b2f"}
Message == FromFrontend \cup FromBackend

\* Every message fills its block: what matters here is where it is stored.
Size == [m \in Message |-> BlockSize]

Rx == INSTANCE HyperampQueue WITH
        Zone <- {"seL4", "Linux"}, Producer <- {"seL4"}, Consumer <- {"Linux"},
        header <- rxHeader, tail <- rxTail, locked <- rxLocked, pc <- rxPc,
        msg <- rxMsg, cnt <- rxCnt, buf <- rxBuf, result <- rxResult
Tx == INSTANCE HyperampQueue WITH
        Zone <- {"seL4", "Linux"}, Producer <- {"Linux"}, Consumer <- {"seL4"},
        header <- txHeader, tail <- txTail, locked <- txLocked, pc <- txPc,
        msg <- txMsg, cnt <- txCnt, buf <- txBuf, result <- txResult

\* A zone runs one thread: it is in at most one call at a time.
Idle(z) == rxPc[z] = "idle" /\ txPc[z] = "idle"

Init ==
  /\ Rx!Init
  /\ Tx!Init
  /\ pending = "none"
  /\ outstanding = 0

-----------------------------------------------------------------------------
(* The frontend (external)                                                 *)

FrontendCommand(c) ==
  /\ Idle("seL4")
  /\ outstanding < Window
  /\ \/ Rx!EnqueueRoom("seL4", c) /\ outstanding' = outstanding + 1
     \/ Rx!EnqueueFull("seL4", c) /\ UNCHANGED outstanding
  /\ UNCHANGED <<txOnly, pending>>

FrontendData ==
  /\ Idle("seL4")
  /\ Rx!EnqueueCall("seL4", "f2b")
  /\ UNCHANGED <<txOnly, pending, outstanding>>

FrontendPoll ==
  /\ Idle("seL4")
  /\ Tx!ReadCall("seL4", "dequeue")
  /\ UNCHANGED <<rxOnly, pending, outstanding>>

FrontendGot ==
  /\ Tx!ReadDone("seL4", "dequeue")
  /\ outstanding' = IF Tx!Decode(txBuf["seL4"]) \in {"opened", "closed"} /\ outstanding > 0
                      THEN outstanding - 1 ELSE outstanding
  /\ UNCHANGED <<rxOnly, pending>>

-----------------------------------------------------------------------------
(* The backend: rx_queue_get, the handler and its response, data for the   *)
(* frontend.                                                               *)

\* backend_engine_hyperamp_rx_queue_get
BackendPoll ==
  /\ Idle("Linux")
  /\ pending = "none"
  /\ Rx!ReadCall("Linux", "dequeue")
  /\ UNCHANGED <<txOnly, pending, outstanding>>

\* The dispatch: a command is handled, anything else needs no response.
BackendGot ==
  /\ Rx!ReadDone("Linux", "dequeue")
  /\ LET m == Rx!Decode(rxBuf["Linux"])
     IN  pending' = IF m \in Command THEN m ELSE "none"
  /\ UNCHANGED <<txOnly, outstanding>>

\* The response; when the tx queue is full it is dropped.
BackendReplyTwice ==
  /\ Idle("Linux")
  /\ pending # "none"
  /\ Tx!EnqueueFull("Linux", Reply(pending)) \/ Tx!EnqueueRoom("Linux", Reply(pending))
  /\ pending' \in {pending, "none"}
  /\ UNCHANGED <<rxOnly, outstanding>>
BackendReply ==
  /\ Idle("Linux")
  /\ pending # "none"
  /\ Tx!EnqueueFull("Linux", Reply(pending)) \/ Tx!EnqueueRoom("Linux", Reply(pending))
  /\ pending' = "none"
  /\ UNCHANGED <<rxOnly, outstanding>>

\* high_speed_data_process_b2f: backend_engine_hyperamp_tx_queue_put
BackendData ==
  /\ Idle("Linux")
  /\ pending = "none"
  /\ Tx!EnqueueCall("Linux", "b2f")
  /\ UNCHANGED <<rxOnly, pending, outstanding>>

-----------------------------------------------------------------------------
\* The steps inside a call that do not end a read.
RxStep(z) == Rx!CopyIn(z) \/ Rx!EnqueuePublish(z) \/ Rx!CopyOut(z) \/ Rx!Unlock(z)
TxStep(z) == Tx!CopyIn(z) \/ Tx!EnqueuePublish(z) \/ Tx!CopyOut(z) \/ Tx!Unlock(z)

Next ==
  \/ \E c \in Command : FrontendCommand(c)
  \/ FrontendPoll
  \/ FrontendGot
  \/ BackendPoll
  \/ BackendGot
  \/ BackendReply
  \/ \E z \in {"seL4", "Linux"} : RxStep(z) /\ UNCHANGED <<txOnly, pending, outstanding>>
  \/ \E z \in {"seL4", "Linux"} : TxStep(z) /\ UNCHANGED <<rxOnly, pending, outstanding>>

\* Commands and their responses only.
Spec == Init /\ [][Next]_vars

\* Data messages too.
DataSpec == Init /\ [][Next \/ FrontendData \/ BackendData]_vars

-----------------------------------------------------------------------------
(* Commands and their responses alone never collide in the shared slots:   *)
(* each direction is a FIFO of its own.  The two tails advance in step,    *)
(* so a response is written to the slot its command has just left.  With   *)
(* one producer and one consumer per queue this needs no lock: enqueue     *)
(* copies before it moves header, dequeue before it moves tail.            *)
RxIsFifo == Rx!ImplementsFifo
TxIsFifo == Tx!ImplementsFifo

(* engine.c:2359: when rx_queue_get succeeds "the @p data buffer contains  *)
(* valid message content": the backend reads from the rx queue only        *)
(* messages the frontend put into it.                                      *)
BackendReadsFrontendMessages ==
  rxResult["Linux"] \in FromFrontend \cup {"OK", "AGAIN", "ERROR"}
=============================================================================
