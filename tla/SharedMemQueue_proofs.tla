------------------------ MODULE SharedMemQueue_proofs ------------------------
(***************************************************************************)
(* Proofs about the queue of shared_mem_io.h for every capacity and every  *)
(* set of messages, when the reader does not run while a message is built. *)
(***************************************************************************)
EXTENDS SharedMemQueue, SequenceTheorems, TLAPS

(* The remainder in SHM_POOL_QUEUE_ALLOC_FROM_HEADER is the conditional    *)
(* subtraction of SHMP_QUEUE_DEQUEUE.                                      *)
LEMMA NextHeaderWraps ==
  ASSUME header \in Index
  PROVE  NextHeader = IF header + 1 = Capacity THEN 0 ELSE header + 1
<1>1. CASE header + 1 = Capacity
  BY <1>1, QueueAssumption, SMT DEF Index, NextHeader
<1>2. CASE header + 1 # Capacity
  BY <1>2, QueueAssumption, SMT DEF Index, NextHeader
<1> QED
  BY <1>1, <1>2

\* No step takes the block the reader still holds: a block is only taken if
\* the header would not meet the tail, and the held one is just behind it.
LEMMA InvPreserved ==
  ASSUME ~Overlap, QueueInv, [Next]_vars
  PROVE  QueueInv'
<1> USE QueueAssumption DEF QueueInv, TypeOK, HeldIntact, After, Index, Block, Content
<1>0. NextHeader \in Index /\ NextHeader = IF header + 1 = Capacity THEN 0 ELSE header + 1
  BY NextHeaderWraps
<1>1. CASE AllocFull
  BY <1>1 DEF AllocFull, Returns
<1>2. ASSUME NEW m \in Attempt, Alloc(m)
      PROVE  QueueInv'
  BY <1>0, <1>2 DEF Alloc
<1>3. CASE Fill
  <2>1. header' \in Index
    BY <1>3 DEF Fill, Rollback
  <2>2. block' \in [Block -> Content] /\ (held # 0 => block'[held] = block[held])
    BY <1>3 DEF Fill
  <2> QED
    BY <1>3, <2>1, <2>2 DEF Fill, Returns
<1>4. CASE RecvEmpty
  BY <1>4 DEF RecvEmpty, Returns
<1>5. CASE Recv
  <2>1. tail + 1 \in Block /\ block[tail + 1] \in Content
    BY <1>5
  <2>2. NextTail \in Index /\ NextTail = After(tail + 1)
    BY <1>5 DEF NextTail
  <2> QED
    BY <1>5, <2>1, <2>2 DEF Recv, Returns
<1>6. CASE UNCHANGED vars
  BY <1>6 DEF vars
<1> QED
  BY <1>1, <1>2, <1>3, <1>4, <1>5, <1>6 DEF Next

(* The block handed to the reader by shared_mem_pool_queue_recv_zc is not  *)
(* written before the reader asks for the next one, for every capacity.    *)
THEOREM ReaderSafe ==
  ASSUME ~Overlap
  PROVE  Spec => []HeldIntact
<1>1. Init => QueueInv
  BY QueueAssumption DEF Init, QueueInv, TypeOK, HeldIntact, Index, Block, Content
<1>2. QueueInv /\ [Next]_vars => QueueInv'
  BY InvPreserved
<1>3. QueueInv => HeldIntact
  BY DEF QueueInv
<1> QED
  BY <1>1, <1>2, <1>3, PTL DEF Spec

-----------------------------------------------------------------------------
(* Contents is a sequence: one entry for each block that is ready.         *)
LEMMA ContentsType ==
  ASSUME QueueInv
  PROVE  /\ Length \in 0 .. Capacity - 1
         /\ Ready \in 0 .. Capacity - 1
         /\ \A k \in 1 .. Ready : Wrap(tail + k - 1) + 1 \in Block
         /\ Contents \in Seq(Content)
         /\ Len(Contents) = Ready
         /\ \A k \in 1 .. Ready : Contents[k] = block[Wrap(tail + k - 1) + 1]
<1> USE QueueAssumption DEF QueueInv, TypeOK, Index, Block
<1>1. Length \in 0 .. Capacity - 1
  BY DEF Length
<1>2. Ready \in 0 .. Capacity - 1 /\ Ready <= Length
  BY <1>1 DEF Ready, Length
<1>3. \A k \in 1 .. Ready : Wrap(tail + k - 1) + 1 \in Block
  BY <1>1, <1>2 DEF Wrap
<1>4. \A k \in 1 .. Ready : block[Wrap(tail + k - 1) + 1] \in Content
  BY <1>3
<1>5. Contents \in Seq(Content) /\ Len(Contents) = Ready
  BY <1>2, <1>4 DEF Contents
<1>6. \A k \in 1 .. Ready : Contents[k] = block[Wrap(tail + k - 1) + 1]
  BY <1>2 DEF Contents
<1> QED
  BY <1>1, <1>2, <1>3, <1>5, <1>6

(* Every step of the queue is a step of the FIFO, or none.                 *)
LEMMA StepRefines ==
  ASSUME ~Overlap, Attempt \subseteq Message \cup {"bad"}, QueueInv, [Next]_vars
  PROVE  [Fifo!Next]_(Fifo!fifoVars)
<1> USE QueueAssumption DEF QueueInv, TypeOK, Index, Block, After
<1>a. QueueInv'
  BY InvPreserved
<1>b. /\ Length \in 0 .. Capacity - 1
      /\ Ready \in 0 .. Capacity - 1
      /\ \A k \in 1 .. Ready : Wrap(tail + k - 1) + 1 \in Block
      /\ Contents \in Seq(Content)
      /\ Len(Contents) = Ready
      /\ \A k \in 1 .. Ready : Contents[k] = block[Wrap(tail + k - 1) + 1]
  BY ContentsType
<1>c. NextHeader = IF header + 1 = Capacity THEN 0 ELSE header + 1
  BY NextHeaderWraps
<1>1. CASE AllocFull
  <2>1. Contents' = Contents
    BY <1>1 DEF AllocFull, Contents, Ready, Length, Wrap
  <2>2. Fifo!Refuse("writer")
    BY <1>1, <2>1 DEF AllocFull, Returns, Fifo!Refuse, Fifo!Returns
  <2> QED
    BY <2>2 DEF Fifo!Next
<1>2. ASSUME NEW m \in Attempt, Alloc(m)
      PROVE  UNCHANGED Fifo!fifoVars
  <2>1. Ready' = Ready
    BY <1>2, <1>c DEF Alloc, Ready, Length
  <2>2. Contents' = Contents
    BY <1>2, <2>1 DEF Alloc, Contents, Wrap
  <2> QED
    BY <1>2, <2>2 DEF Alloc, Fifo!fifoVars
<1>3. CASE Fill
  <2>1. Length >= 1 /\ Ready = Length - 1
    BY <1>3, <1>b DEF Fill, Ready, Length
  <2>2. addr = Wrap(tail + Length - 1) + 1
    BY <1>3 DEF Fill, Length, Wrap
  <2>3. \A k \in 1 .. Ready : Wrap(tail + k - 1) + 1 # addr
    BY <2>1, <2>2, <1>b DEF Wrap
  <2>4. \A k \in 1 .. Ready : block'[Wrap(tail + k - 1) + 1] = Contents[k]
    BY <1>3, <1>b, <2>3, Zenon DEF Fill
  <2>5. CASE msg = "bad"
    <3>1. Ready' = Ready
      BY <1>3, <2>1, <2>5 DEF Fill, Rollback, Ready, Length
    <3>2. Contents' = Contents
      BY <1>3, <2>4, <3>1 DEF Fill, Contents, Wrap
    <3>3. Fifo!Refuse("writer")
      BY <1>3, <2>5, <3>2, Zenon DEF Fill, Returns, Fifo!Refuse, Fifo!Returns
    <3> QED
      BY <3>3 DEF Fifo!Next
  <2>6. CASE msg \in Message
    <3>1. header' = header /\ Ready' = Ready + 1 /\ Wrap(tail + (Ready + 1) - 1) + 1 = addr
      BY <1>3, <2>1, <2>2, <2>6 DEF Fill, Ready, Length
    <3>2. Contents' = [k \in 1 .. Ready + 1 |-> block'[Wrap(tail + k - 1) + 1]]
      BY <1>3, <3>1 DEF Fill, Contents, Wrap
    <3>3. block'[addr] = msg
      BY <1>3 DEF Fill
    <3>4. Contents' = Append(Contents, msg)
      <4>1. \A k \in 1 .. Ready + 1 : block'[Wrap(tail + k - 1) + 1] = IF k = Ready + 1 THEN msg ELSE Contents[k]
        <5> TAKE k \in 1 .. Ready + 1
        <5>1. CASE k = Ready + 1
          BY <3>1, <3>3, <5>1
        <5>2. CASE k # Ready + 1
          <6>1. k \in 1 .. Ready
            BY <1>b, <5>2
          <6> QED
            BY <2>4, <5>2, <6>1
        <5> QED
          BY <5>1, <5>2
      <4>2. \A k \in 1 .. Ready + 1 : block'[Wrap(tail + k - 1) + 1] \in Content
        <5> TAKE k \in 1 .. Ready + 1
        <5>1. Wrap(tail + k - 1) + 1 \in Block
          <6>1. k = Ready + 1 \/ k \in 1 .. Ready
            BY <1>b
          <6> QED
            BY <1>3, <1>b, <3>1, <6>1, Zenon DEF Fill
        <5> QED
          BY <1>a, <5>1
      <4>3. Contents' \in Seq(Content) /\ Len(Contents') = Ready + 1
        BY <1>b, <3>2, <4>2
      <4>4. \A k \in 1 .. Ready + 1 : Contents'[k] = Append(Contents, msg)[k]
        BY <1>b, <3>2, <4>1, AppendProperties
      <4> QED
        BY <1>b, <4>3, <4>4, AppendProperties, SeqEqual
    <3>5. Fifo!Put("writer")
      BY <1>3, <1>b, <2>1, <2>6, <3>4 DEF Fill, Returns, Fifo!Put, Fifo!Returns
    <3> QED
      BY <3>5 DEF Fifo!Next
  <2> QED
    BY <1>3, <2>5, <2>6 DEF Fill
<1>4. CASE RecvEmpty
  <2>1. Contents' = Contents
    BY <1>4 DEF RecvEmpty, Contents, Ready, Length, Wrap
  <2>2. Contents = <<>>
    BY <1>4, <1>b DEF RecvEmpty, Ready, Length
  <2>3. Fifo!GetEmpty("reader")
    BY <1>4, <2>1, <2>2 DEF RecvEmpty, Returns, Fifo!GetEmpty, Fifo!Returns
  <2> QED
    BY <2>3 DEF Fifo!Next
<1>5. CASE Recv
  <2>1. Ready >= 1 /\ Ready' = Ready - 1
    BY <1>5, <1>b DEF Recv, Ready, Length, NextTail
  <2>2. Contents # <<>> /\ Head(Contents) = block[tail + 1]
    BY <1>b, <2>1 DEF Wrap
  <2>3. \A k \in 1 .. Ready - 1 : Wrap(tail' + k - 1) = Wrap(tail + (k + 1) - 1)
    BY <1>5, <1>b DEF Recv, NextTail, Wrap
  <2>4. Contents' = [k \in 1 .. Ready - 1 |-> block[Wrap(tail + (k + 1) - 1) + 1]]
    BY <1>5, <2>1, <2>3 DEF Recv, Contents, Wrap
  <2>5. Contents' = Tail(Contents)
    <3>1. \A k \in 1 .. Ready - 1 : block[Wrap(tail + (k + 1) - 1) + 1] = Contents[k + 1]
      BY <1>b
    <3>2. \A k \in 1 .. Ready - 1 : block[Wrap(tail + (k + 1) - 1) + 1] \in Content
      <4> TAKE k \in 1 .. Ready - 1
      <4>1. k + 1 \in 1 .. Ready
        BY <1>b
      <4> QED
        BY <1>b, <4>1, Zenon
    <3>3. Contents' \in Seq(Content) /\ Len(Contents') = Ready - 1
      BY <1>b, <2>1, <2>4, <3>2
    <3>4. \A k \in 1 .. Ready - 1 : Contents'[k] = Tail(Contents)[k]
      BY <1>b, <2>2, <2>4, <3>1, HeadTailProperties
    <3> QED
      BY <1>b, <2>2, <3>3, <3>4, HeadTailProperties, SeqEqual
  <2>6. Fifo!Get("reader")
    BY <1>5, <2>2, <2>5, Zenon DEF Recv, Returns, Fifo!Get, Fifo!Returns
  <2> QED
    BY <2>6 DEF Fifo!Next
<1>6. CASE UNCHANGED vars
  BY <1>6 DEF vars, Fifo!fifoVars, Contents, Ready, Length, Wrap
<1> QED
  BY <1>1, <1>2, <1>3, <1>4, <1>5, <1>6 DEF Next

(* Building messages in place and handing out blocks by address implements *)
(* a bounded FIFO, for every capacity and every set of messages.           *)
THEOREM ImplementsFifo ==
  ASSUME ~Overlap, Attempt \subseteq Message \cup {"bad"}
  PROVE  Spec => SharedFifo
<1>1. Init => QueueInv
  BY QueueAssumption DEF Init, QueueInv, TypeOK, HeldIntact, Index, Block, Content
<1>2. Init => Fifo!Init
  BY DEF Init, Fifo!Init, Contents, Ready, Length
<1>3. QueueInv /\ [Next]_vars => QueueInv'
  BY InvPreserved
<1>4. QueueInv /\ [Next]_vars => [Fifo!Next]_(Fifo!fifoVars)
  BY StepRefines
<1> QED
  BY <1>1, <1>2, <1>3, <1>4, PTL DEF Spec, SharedFifo, Fifo!Spec
=============================================================================
