----------------------- MODULE HyperampChannel_proofs -----------------------
(***************************************************************************)
(* The two queues over one data region, commands and responses only, for   *)
(* any capacity and block size and in both builds of the lock: as long as  *)
(* the frontend has no more commands outstanding than a queue has slots,   *)
(* each queue is a FIFO of its own.                                        *)
(***************************************************************************)
EXTENDS HyperampChannel, SequenceTheorems, TLAPS

-----------------------------------------------------------------------------
(* A ring of slots, whoever uses it                                        *)

Slot == 0 .. Capacity - 1
Answer == {"opened", "closed"}

Step(i) == IF i + 1 = Capacity THEN 0 ELSE i + 1
Around(i) == IF i >= Capacity THEN i - Capacity ELSE i

\* How far it is from one slot to another, in reading order.
Dist(t, h) == IF h >= t THEN h - t ELSE h + Capacity - t
Between(t, h, i) == IF h >= t THEN t <= i /\ i < h ELSE t <= i \/ i < h

\* The message that fills a block.
Whole(b) == IF b[1] \in Message /\ \A c \in 1 .. BlockSize : b[c] = b[1] THEN b[1] ELSE "none"

Held(t, h, d) == [k \in 1 .. Dist(t, h) |-> Whole(d[Around(t + k - 1) + 1])]

\* The slots between t and h hold messages of ms.
Filled(t, h, d, ms) == \A i \in Slot : Between(t, h, i) => Whole(d[i + 1]) \in ms

\* Two contents of the data region that differ in slot w at most.
SameBut(d, e, w) == \A i \in Slot : i # w => e[i + 1] = d[i + 1]

Regions == [1 .. Capacity -> [1 .. BlockSize -> Message \cup {"none"}]]

(* The operators of the two queues are these, on their own variables.      *)
LEMMA SameOperators ==
  /\ Capacity \in Nat \ {0} /\ BlockSize \in Nat \ {0}
  /\ Rx!Index = Slot /\ Tx!Index = Slot
  /\ Rx!Sendable = Message /\ Tx!Sendable = Message
  /\ \A i \in Slot : Rx!Advance(i) = Step(i) /\ Tx!Advance(i) = Step(i) /\ Step(i) \in Slot
  /\ \A b : Rx!Decode(b) = Whole(b) /\ Tx!Decode(b) = Whole(b)
<1>0. Capacity \in Nat \ {0} /\ BlockSize \in Nat \ {0}
  BY ChannelAssumption
<1>1. Rx!Index = Slot /\ Tx!Index = Slot
  BY DEF Rx!Index, Tx!Index, Slot
<1>2. \A m \in Message : Size[m] = BlockSize /\ Rx!Fits(m) /\ Tx!Fits(m)
  BY <1>0 DEF Size, Rx!Fits, Tx!Fits
<1>3. Rx!Sendable = Message /\ Tx!Sendable = Message
  BY <1>2 DEF Rx!Sendable, Tx!Sendable
<1>4. ASSUME NEW i \in Slot
      PROVE  Rx!Advance(i) = Step(i) /\ Tx!Advance(i) = Step(i) /\ Step(i) \in Slot
  BY <1>0 DEF Slot, Step, Rx!Advance, Tx!Advance
<1>5. ASSUME NEW b
      PROVE  Rx!Decode(b) = Whole(b) /\ Tx!Decode(b) = Whole(b)
  BY <1>2, <1>3 DEF Rx!Decode, Tx!Decode, Whole
<1> QED
  BY <1>0, <1>1, <1>3, <1>4, <1>5

(* Distances: a step of one end changes them by one, and the slots between *)
(* the ends are reached one after the other.                               *)
LEMMA Distances ==
  ASSUME NEW t \in Slot, NEW h \in Slot
  PROVE  /\ Dist(t, h) \in 0 .. Capacity - 1
         /\ Dist(t, h) = 0 <=> t = h
         /\ Dist(t, h) = Capacity - 1 <=> Step(h) = t
         /\ t # h => Dist(Step(t), h) = Dist(t, h) - 1
         /\ Step(h) # t => Dist(t, Step(h)) = Dist(t, h) + 1
         /\ Around(t + Dist(t, h)) = h
         /\ ~Between(t, h, h)
         /\ t # h => Between(t, h, t)
BY ChannelAssumption, SMTT(30) DEF Slot, Dist, Step, Between, Around

LEMMA SlotsBetween ==
  ASSUME NEW t \in Slot, NEW h \in Slot, NEW k \in 1 .. Dist(t, h)
  PROVE  Around(t + k - 1) \in Slot /\ Between(t, h, Around(t + k - 1))
BY ChannelAssumption DEF Slot, Dist, Between, Around

LEMMA BetweenMoves ==
  ASSUME NEW t \in Slot, NEW h \in Slot, NEW i \in Slot
  PROVE  /\ t # h /\ Between(Step(t), h, i) => Between(t, h, i)
         /\ Step(h) # t /\ Between(t, Step(h), i) => Between(t, h, i) \/ i = h
BY ChannelAssumption DEF Slot, Step, Between

(* A block is whole when every chunk of it is the message.                 *)
LEMMA WholeBlock ==
  ASSUME NEW b, NEW m \in Message, \A c \in 1 .. BlockSize : b[c] = m
  PROVE  Whole(b) = m
BY ChannelAssumption DEF Whole

-----------------------------------------------------------------------------
(* What a ring holds, as a sequence                                        *)

(* One message for each slot.                                              *)
LEMMA HeldType ==
  ASSUME NEW t \in Slot, NEW h \in Slot, NEW d, NEW ms, Filled(t, h, d, ms)
  PROVE  /\ Held(t, h, d) \in Seq(ms)
         /\ Len(Held(t, h, d)) = Dist(t, h)
         /\ \A k \in 1 .. Dist(t, h) : Held(t, h, d)[k] = Whole(d[Around(t + k - 1) + 1])
         /\ Held(t, h, d) = <<>> <=> t = h
<1>1. Dist(t, h) \in Nat
  BY Distances, ChannelAssumption
<1>2. \A k \in 1 .. Dist(t, h) : Whole(d[Around(t + k - 1) + 1]) \in ms
  BY SlotsBetween DEF Filled
<1>3. /\ Held(t, h, d) \in Seq(ms) /\ Len(Held(t, h, d)) = Dist(t, h)
      /\ \A k \in 1 .. Dist(t, h) : Held(t, h, d)[k] = Whole(d[Around(t + k - 1) + 1])
  BY <1>1, <1>2 DEF Held
<1>4. Dist(t, h) = 0 <=> t = h
  BY Distances
<1> QED
  BY <1>1, <1>3, <1>4

(* A step of the reading end drops the oldest message.                     *)
LEMMA HeldDrops ==
  ASSUME NEW t \in Slot, NEW h \in Slot, NEW d, NEW ms, Filled(t, h, d, ms), t # h
  PROVE  /\ Held(t, h, d) # <<>>
         /\ Head(Held(t, h, d)) = Whole(d[t + 1])
         /\ Held(Step(t), h, d) = Tail(Held(t, h, d))
         /\ Filled(Step(t), h, d, ms)
<1> DEFINE n == Dist(t, h)
           s == Held(t, h, d)
           r == Held(Step(t), h, d)
<1>0. /\ s \in Seq(ms) /\ Len(s) = n /\ s # <<>>
      /\ \A k \in 1 .. n : s[k] = Whole(d[Around(t + k - 1) + 1])
  BY HeldType
<1>1. n \in Nat /\ n > 0 /\ Dist(Step(t), h) = n - 1 /\ Step(t) \in Slot
  BY Distances, SameOperators, ChannelAssumption
<1>2. Filled(Step(t), h, d, ms)
  BY BetweenMoves DEF Filled
<1>3. /\ r \in Seq(ms) /\ Len(r) = n - 1
      /\ \A k \in 1 .. n - 1 : r[k] = Whole(d[Around(Step(t) + k - 1) + 1])
  BY <1>1, <1>2, HeldType
<1>4. Around(t + 1 - 1) = t
  BY ChannelAssumption DEF Around, Slot
<1>5. n <= Capacity - 1
  BY Distances, ChannelAssumption
<1>6. \A k \in 1 .. n - 1 : Around(Step(t) + k - 1) = Around(t + (k + 1) - 1)
  BY <1>1, <1>5, ChannelAssumption DEF Around, Step, Slot
<1> HIDE DEF n, s, r
<1>7. Head(s) = s[1] /\ 1 \in 1 .. n
  BY <1>0, <1>1
<1>8. \A k \in 1 .. n - 1 : r[k] = s[k + 1]
  <2> TAKE k \in 1 .. n - 1
  <2>1. k + 1 \in 1 .. n
    BY <1>1
  <2> QED
    BY <1>0, <1>3, <1>6, <2>1, SMTT(30)
<1>9. r = Tail(s)
  BY <1>0, <1>1, <1>3, <1>8, HeadTailProperties, SeqEqual, SMTT(30)
<1> QED
  BY <1>0, <1>2, <1>4, <1>7, <1>9 DEF r, s

(* A step of the writing end appends the message in its slot.              *)
LEMMA HeldGrows ==
  ASSUME NEW t \in Slot, NEW h \in Slot, NEW d, NEW ms, Filled(t, h, d, ms), Step(h) # t,
         NEW m \in ms, Whole(d[h + 1]) = m
  PROVE  /\ Held(t, Step(h), d) = Append(Held(t, h, d), m)
         /\ Len(Held(t, h, d)) < Capacity - 1
         /\ Filled(t, Step(h), d, ms)
<1> DEFINE n == Dist(t, h)
           s == Held(t, h, d)
           r == Held(t, Step(h), d)
<1>0. /\ s \in Seq(ms) /\ Len(s) = n
      /\ \A k \in 1 .. n : s[k] = Whole(d[Around(t + k - 1) + 1])
  BY HeldType
<1>1. /\ n \in Nat /\ n < Capacity - 1 /\ Dist(t, Step(h)) = n + 1 /\ Step(h) \in Slot
      /\ Around(t + n) = h
  BY Distances, SameOperators, ChannelAssumption
<1>2. Filled(t, Step(h), d, ms)
  BY BetweenMoves DEF Filled
<1>3. /\ r \in Seq(ms) /\ Len(r) = n + 1
      /\ \A k \in 1 .. n + 1 : r[k] = Whole(d[Around(t + k - 1) + 1])
  BY <1>1, <1>2, HeldType
<1>4. t + (n + 1) - 1 = t + n
  BY <1>1, ChannelAssumption DEF Slot
<1> HIDE DEF n, s, r
<1>5. r[n + 1] = m
  BY <1>1, <1>3, <1>4
<1>6. \A k \in 1 .. n + 1 : r[k] = Append(s, m)[k]
  BY <1>0, <1>1, <1>3, <1>5, AppendProperties
<1>7. r = Append(s, m)
  BY <1>0, <1>1, <1>3, <1>6, AppendProperties, SeqEqual
<1> QED
  BY <1>0, <1>1, <1>2, <1>7 DEF r, s

(* A write to a slot that is not between the ends changes nothing there.   *)
LEMMA HeldStays ==
  ASSUME NEW t \in Slot, NEW h \in Slot, NEW d, NEW e, NEW w \in Slot, NEW ms,
         Filled(t, h, d, ms), SameBut(d, e, w), ~Between(t, h, w)
  PROVE  Held(t, h, e) = Held(t, h, d) /\ Filled(t, h, e, ms)
<1>1. ASSUME NEW i \in Slot, Between(t, h, i)
      PROVE  e[i + 1] = d[i + 1]
  BY <1>1 DEF SameBut
<1>2. \A k \in 1 .. Dist(t, h) : e[Around(t + k - 1) + 1] = d[Around(t + k - 1) + 1]
  BY <1>1, SlotsBetween
<1>3. \A k \in 1 .. Dist(t, h) : Whole(e[Around(t + k - 1) + 1]) = Whole(d[Around(t + k - 1) + 1])
  BY <1>2, Zenon
<1> QED
  BY <1>1, <1>3, Zenon DEF Held, Filled

-----------------------------------------------------------------------------
(* One queue, whose producer and whose consumer are one zone each          *)

Zones == {"seL4", "Linux"}

\* A writer at slot h has copied the first chunks of its message there.
Writes(p, m, c, t, h, d, ms) ==
  p = "enqueue" => m \in ms /\ Step(h) # t /\ \A k \in 1 .. c - 1 : d[h + 1][k] = m

\* A reader at slot t has copied the first chunks of that slot.
Reads(p, c, b, t, h, d) ==
  p = "dequeue" => t # h /\ \A k \in 1 .. c - 1 : b[k] = d[t + 1][k]

(* A writer that copies one chunk more.                                    *)
LEMMA WriterCopies ==
  ASSUME NEW t \in Slot, NEW h \in Slot, NEW d \in Regions, NEW m \in Message, NEW ms,
         NEW c \in 1 .. BlockSize, Writes("enqueue", m, c, t, h, d, ms),
         NEW e, e = [d EXCEPT ![h + 1][c] = m]
  PROVE  /\ Writes("enqueue", m, c + 1, t, h, e, ms)
         /\ e \in Regions /\ SameBut(d, e, h)
<1>1. h + 1 \in 1 .. Capacity /\ c \in Nat /\ c >= 1
  BY ChannelAssumption DEF Slot
<1>2. e \in Regions
  BY <1>1 DEF Regions
<1>3. SameBut(d, e, h)
  BY <1>1, ChannelAssumption DEF SameBut, Slot, Regions
<1>4. e[h + 1] = [d[h + 1] EXCEPT ![c] = m] /\ d[h + 1] \in [1 .. BlockSize -> Message \cup {"none"}]
  BY <1>1 DEF Regions
<1>5. ASSUME NEW k \in 1 .. (c + 1) - 1
      PROVE  e[h + 1][k] = m
  <2>1. CASE k = c
    BY <1>4, <2>1, Zenon
  <2>2. CASE k # c
    <3>1. k \in 1 .. c - 1 /\ k \in 1 .. BlockSize
      BY <1>1, <2>2, ChannelAssumption
    <3> QED
      BY <1>4, <2>2, <3>1 DEF Writes
  <2> QED
    BY <2>1, <2>2
<1> QED
  BY <1>2, <1>3, <1>5 DEF Writes

(* A reader that copies one chunk more.                                    *)
LEMMA ReaderCopies ==
  ASSUME NEW t \in Slot, NEW h \in Slot, NEW d \in Regions, NEW b \in [1 .. BlockSize -> Message \cup {"none"}],
         NEW c \in 1 .. BlockSize, Reads("dequeue", c, b, t, h, d),
         NEW a, a = [b EXCEPT ![c] = d[t + 1][c]]
  PROVE  /\ Reads("dequeue", c + 1, a, t, h, d)
         /\ a \in [1 .. BlockSize -> Message \cup {"none"}]
<1>1. t + 1 \in 1 .. Capacity /\ c \in Nat /\ c >= 1
  BY ChannelAssumption DEF Slot
<1>2. d[t + 1][c] \in Message \cup {"none"}
  BY <1>1, Zenon DEF Regions
<1>3. a \in [1 .. BlockSize -> Message \cup {"none"}]
  BY <1>2
<1>4. ASSUME NEW k \in 1 .. (c + 1) - 1
      PROVE  a[k] = d[t + 1][k]
  <2>1. CASE k = c
    BY <2>1
  <2>2. CASE k # c
    <3>1. k \in 1 .. c - 1 /\ k \in 1 .. BlockSize
      BY <1>1, <2>2, ChannelAssumption
    <3> QED
      BY <2>2, <3>1 DEF Reads
  <2> QED
    BY <2>1, <2>2
<1> QED
  BY <1>3, <1>4 DEF Reads

(* The copies are complete at the end of the loops.                        *)
LEMMA WriterDone ==
  ASSUME NEW t \in Slot, NEW h \in Slot, NEW d, NEW m, NEW ms \in SUBSET Message,
         NEW c \in 1 .. BlockSize + 1, c > BlockSize, Writes("enqueue", m, c, t, h, d, ms)
  PROVE  m \in ms /\ Step(h) # t /\ Whole(d[h + 1]) = m
<1>1. c - 1 = BlockSize
  BY ChannelAssumption
<1> QED
  BY <1>1, WholeBlock DEF Writes

LEMMA ReaderDone ==
  ASSUME NEW t \in Slot, NEW h \in Slot, NEW d \in Regions, NEW b \in [1 .. BlockSize -> Message \cup {"none"}],
         NEW c \in 1 .. BlockSize + 1, c > BlockSize, Reads("dequeue", c, b, t, h, d)
  PROVE  t # h /\ b = d[t + 1]
<1>1. c - 1 = BlockSize /\ t + 1 \in 1 .. Capacity
  BY ChannelAssumption DEF Slot
<1>2. d[t + 1] \in [1 .. BlockSize -> Message \cup {"none"}]
  BY <1>1 DEF Regions
<1> QED
  BY <1>1, <1>2 DEF Reads

(* A write to a slot that is neither the writer's nor between the ends     *)
(* disturbs neither.                                                       *)
LEMMA WriteElsewhere ==
  ASSUME NEW t \in Slot, NEW h \in Slot, NEW d, NEW e, NEW w \in Slot, SameBut(d, e, w),
         NEW p, NEW m, NEW c, NEW b, NEW ms
  PROVE  /\ Writes(p, m, c, t, h, d, ms) /\ h # w => Writes(p, m, c, t, h, e, ms)
         /\ Reads(p, c, b, t, h, d) /\ ~Between(t, h, w) => Reads(p, c, b, t, h, e)
<1>1. ASSUME Writes(p, m, c, t, h, d, ms), h # w
      PROVE  Writes(p, m, c, t, h, e, ms)
  <2>1. e[h + 1] = d[h + 1]
    BY <1>1 DEF SameBut
  <2> QED
    BY <1>1, <2>1, Zenon DEF Writes
<1>2. ASSUME Reads(p, c, b, t, h, d), ~Between(t, h, w)
      PROVE  Reads(p, c, b, t, h, e)
  <2>1. CASE p = "dequeue"
    <3>1. t # w
      BY <1>2, <2>1, Distances DEF Reads
    <3>2. e[t + 1] = d[t + 1]
      BY <3>1 DEF SameBut
    <3> QED
      BY <1>2, <3>2, Zenon DEF Reads
  <2>2. CASE p # "dequeue"
    BY <2>2 DEF Reads
  <2> QED
    BY <2>1, <2>2
<1> QED
  BY <1>1, <1>2, Zenon

(* The ends move: a writer still has room, a reader still has a message.   *)
LEMMA EndsMove ==
  ASSUME NEW t \in Slot, NEW h \in Slot, NEW d, NEW p, NEW m, NEW c, NEW b, NEW ms
  PROVE  /\ Writes(p, m, c, t, h, d, ms) /\ t # h => Writes(p, m, c, Step(t), h, d, ms)
         /\ Reads(p, c, b, t, h, d) /\ Step(h) # t => Reads(p, c, b, t, Step(h), d)
<1>1. t # h => Step(h) # Step(t)
  BY ChannelAssumption DEF Step, Slot
<1> QED
  BY <1>1 DEF Writes, Reads

-----------------------------------------------------------------------------
(* The rx queue: seL4 writes commands, Linux reads them                    *)

RxTypes ==
  /\ rxHeader \in Slot /\ rxTail \in Slot /\ data \in Regions
  /\ rxPc \in [Zones -> {"idle", "enqueue", "dequeue", "unlock"}]
  /\ rxPc["seL4"] # "dequeue" /\ rxPc["Linux"] # "enqueue"
  /\ rxMsg \in [Zones -> Message \cup {"none"}]
  /\ rxCnt \in [Zones -> 1 .. BlockSize + 1]
  /\ rxBuf \in [Zones -> [1 .. BlockSize -> Message \cup {"none"}]]
  /\ \A z \in Zones : rxPc[z] \in {"idle", "unlock"} => rxCnt[z] = 1

RxCopies ==
  /\ Writes(rxPc["seL4"], rxMsg["seL4"], rxCnt["seL4"], rxTail, rxHeader, data, Command)
  /\ Reads(rxPc["Linux"], rxCnt["Linux"], rxBuf["Linux"], rxTail, rxHeader, data)

RxQueue == RxTypes /\ RxCopies /\ Filled(rxTail, rxHeader, data, Command)

\* The steps of the two zones on the queue.
RxMove ==
  \/ \E m \in Command : Rx!EnqueueRoom("seL4", m) \/ Rx!EnqueueFull("seL4", m)
  \/ Rx!CopyIn("seL4") \/ Rx!EnqueuePublish("seL4")
  \/ Rx!ReadEmpty("Linux", "dequeue") \/ Rx!ReadBegin("Linux", "dequeue")
  \/ Rx!CopyOut("Linux") \/ Rx!ReadDone("Linux", "dequeue")
  \/ \E z \in Zones : Rx!Unlock(z)

RxFifoStep == [Rx!Fifo!Next]_(Rx!Fifo!fifoVars)

(* The contents of the queue are what its ring holds.                      *)
LEMMA RxContents ==
  /\ Rx!Contents = Held(rxTail, rxHeader, data)
  /\ Rx!Contents' = Held(rxTail', rxHeader', data')
<1>1. \A b : Rx!Decode(b) = Whole(b)
  BY SameOperators
<1>2. Rx!Contents = Held(rxTail, rxHeader, data)
  BY <1>1, Zenon DEF Rx!Contents, Held, Rx!Length, Dist, Rx!BlockOf, Rx!Wrap, Around
<1>3. Rx!Contents' = Held(rxTail', rxHeader', data')
  BY <1>1, Zenon DEF Rx!Contents, Held, Rx!Length, Dist, Rx!BlockOf, Rx!Wrap, Around
<1> QED
  BY <1>2, <1>3

(* A call that finds room takes the writer to its copy loop; one that      *)
(* finds the queue full says so.                                           *)
LEMMA RxEnqueueCall ==
  ASSUME RxQueue, NEW m \in Command, Rx!EnqueueRoom("seL4", m) \/ Rx!EnqueueFull("seL4", m)
  PROVE  RxQueue' /\ RxFifoStep
<1>0. RxTypes /\ RxCopies /\ Filled(rxTail, rxHeader, data, Command)
  BY DEF RxQueue
<1>1. /\ rxHeader' = rxHeader /\ rxTail' = rxTail /\ data' = data
      /\ rxCnt' = rxCnt /\ rxBuf' = rxBuf /\ rxPc["seL4"] = "idle"
  BY DEF Rx!EnqueueRoom, Rx!EnqueueFull, Rx!Goto, Rx!locals
<1>2. Rx!Contents' = Rx!Contents
  BY <1>1, RxContents
<1>3. rxCnt["seL4"] = 1 /\ m \in Message
  BY <1>0, <1>1 DEF RxTypes, Zones, Message, FromFrontend
<1>4. CASE Rx!EnqueueRoom("seL4", m)
  <2>1. /\ rxPc' = [rxPc EXCEPT !["seL4"] = "enqueue"] /\ rxMsg' = [rxMsg EXCEPT !["seL4"] = m]
        /\ rxResult' = rxResult /\ Rx!Advance(rxHeader) # rxTail
    BY <1>4 DEF Rx!EnqueueRoom, Rx!Goto, Rx!Full
  <2>2. Step(rxHeader) # rxTail
    BY <1>0, <2>1, SameOperators DEF RxTypes
  <2>3. RxTypes'
    BY <1>0, <1>1, <1>3, <2>1 DEF RxTypes, Zones
  <2>4. /\ rxPc'["seL4"] = "enqueue" /\ rxMsg'["seL4"] = m /\ rxCnt'["seL4"] = 1
        /\ rxPc'["Linux"] = rxPc["Linux"]
    BY <1>0, <1>1, <1>3, <2>1 DEF RxTypes, Zones
  <2>5. RxCopies'
    BY <1>0, <1>1, <2>2, <2>4 DEF RxCopies, Writes, Reads
  <2> QED
    BY <1>0, <1>1, <1>2, <2>1, <2>3, <2>5 DEF RxQueue, RxFifoStep, Rx!Fifo!fifoVars
<1>5. CASE Rx!EnqueueFull("seL4", m)
  <2>1. /\ rxPc' = [rxPc EXCEPT !["seL4"] = "unlock"] /\ rxMsg' = rxMsg
        /\ rxResult' = [rxResult EXCEPT !["seL4"] = "AGAIN"] /\ Rx!Advance(rxHeader) = rxTail
    BY <1>5 DEF Rx!EnqueueFull, Rx!Goto, Rx!Full, Rx!Returns, Rx!locals
  <2>2. RxTypes'
    BY <1>0, <1>1, <1>3, <2>1 DEF RxTypes, Zones
  <2>3. rxPc'["seL4"] = "unlock" /\ rxPc'["Linux"] = rxPc["Linux"]
    BY <1>0, <2>1 DEF RxTypes, Zones
  <2>4. RxCopies'
    BY <1>0, <1>1, <2>3 DEF RxCopies, Writes, Reads
  <2>5. Len(Rx!Contents) = Capacity - 1
    <3>1. rxHeader \in Slot /\ rxTail \in Slot
      BY <1>0 DEF RxTypes
    <3>2. Len(Held(rxTail, rxHeader, data)) = Dist(rxTail, rxHeader)
      BY <1>0, <3>1, HeldType
    <3>3. Step(rxHeader) = rxTail
      BY <2>1, <3>1, SameOperators
    <3> QED
      BY <3>1, <3>2, <3>3, RxContents, Distances
  <2>6. Rx!Fifo!PutFull("seL4")
    BY <1>2, <2>1, <2>5 DEF Rx!Fifo!PutFull, Rx!Fifo!Returns
  <2> QED
    BY <1>0, <1>1, <2>2, <2>4, <2>6 DEF RxQueue, RxFifoStep, Rx!Fifo!Next
<1> QED
  BY <1>4, <1>5

(* The writer copies into its own slot, which no reader reads.             *)
LEMMA RxCopyIn ==
  ASSUME RxQueue, Rx!CopyIn("seL4")
  PROVE  RxQueue' /\ RxFifoStep /\ SameBut(data, data', rxHeader)
<1>0. RxTypes /\ RxCopies /\ Filled(rxTail, rxHeader, data, Command)
  BY DEF RxQueue
<1>1. /\ rxPc["seL4"] = "enqueue" /\ rxCnt["seL4"] <= Size[rxMsg["seL4"]]
      /\ data' = [data EXCEPT ![rxHeader + 1][rxCnt["seL4"]] = rxMsg["seL4"]]
      /\ rxCnt' = [rxCnt EXCEPT !["seL4"] = @ + 1]
      /\ rxHeader' = rxHeader /\ rxTail' = rxTail /\ rxPc' = rxPc
      /\ rxMsg' = rxMsg /\ rxBuf' = rxBuf /\ rxResult' = rxResult
  BY DEF Rx!CopyIn, Rx!BlockOf
<1>2. /\ rxHeader \in Slot /\ rxTail \in Slot /\ data \in Regions
      /\ Writes("enqueue", rxMsg["seL4"], rxCnt["seL4"], rxTail, rxHeader, data, Command)
  BY <1>0, <1>1 DEF RxTypes, RxCopies
<1>3. rxMsg["seL4"] \in Message
  BY <1>2 DEF Writes, Message, FromFrontend
<1>4. rxCnt["seL4"] \in 1 .. BlockSize
  BY <1>0, <1>1, <1>3, ChannelAssumption DEF RxTypes, Size, Zones
<1>5. /\ Writes("enqueue", rxMsg["seL4"], rxCnt["seL4"] + 1, rxTail, rxHeader, data', Command)
      /\ data' \in Regions /\ SameBut(data, data', rxHeader)
  BY <1>1, <1>2, <1>3, <1>4, WriterCopies, Zenon
<1>6. ~Between(rxTail, rxHeader, rxHeader)
  BY <1>2, Distances
<1>7. Held(rxTail, rxHeader, data') = Held(rxTail, rxHeader, data) /\ Filled(rxTail, rxHeader, data', Command)
  BY <1>0, <1>2, <1>5, <1>6, HeldStays
<1>8. Reads(rxPc["Linux"], rxCnt["Linux"], rxBuf["Linux"], rxTail, rxHeader, data')
  BY <1>0, <1>2, <1>5, <1>6, WriteElsewhere, Zenon DEF RxCopies
<1>9. rxCnt'["seL4"] = rxCnt["seL4"] + 1 /\ rxCnt'["Linux"] = rxCnt["Linux"] /\ rxCnt["seL4"] + 1 \in 1 .. BlockSize + 1
  BY <1>0, <1>1, <1>4, ChannelAssumption DEF RxTypes, Zones
<1>10. RxTypes'
  BY <1>0, <1>1, <1>5, <1>9 DEF RxTypes, Zones
<1>11. RxCopies'
  BY <1>1, <1>5, <1>8, <1>9 DEF RxCopies
<1>12. Rx!Contents' = Rx!Contents
  BY <1>1, <1>7, RxContents
<1> QED
  BY <1>1, <1>5, <1>7, <1>10, <1>11, <1>12 DEF RxQueue, RxFifoStep, Rx!Fifo!fifoVars

(* Moving header appends the message.                                      *)
LEMMA RxEnqueuePublish ==
  ASSUME RxQueue, Rx!EnqueuePublish("seL4")
  PROVE  RxQueue' /\ RxFifoStep /\ Step(rxHeader) # rxTail /\ rxHeader' = Step(rxHeader)
<1>0. RxTypes /\ RxCopies /\ Filled(rxTail, rxHeader, data, Command)
  BY DEF RxQueue
<1>1. /\ rxPc["seL4"] = "enqueue" /\ rxPc' = [rxPc EXCEPT !["seL4"] = "unlock"]
      /\ rxCnt["seL4"] > Size[rxMsg["seL4"]]
      /\ rxHeader' = Rx!Advance(rxHeader)
      /\ rxResult' = [rxResult EXCEPT !["seL4"] = "OK"]
      /\ rxMsg' = [rxMsg EXCEPT !["seL4"] = "none"]
      /\ rxCnt' = [rxCnt EXCEPT !["seL4"] = 1]
      /\ rxTail' = rxTail /\ data' = data /\ rxBuf' = rxBuf
  BY DEF Rx!EnqueuePublish, Rx!Goto, Rx!Returns
<1>2. /\ rxHeader \in Slot /\ rxTail \in Slot /\ rxCnt["seL4"] \in 1 .. BlockSize + 1
      /\ Writes("enqueue", rxMsg["seL4"], rxCnt["seL4"], rxTail, rxHeader, data, Command)
  BY <1>0, <1>1 DEF RxTypes, RxCopies, Zones
<1>3. rxMsg["seL4"] \in Command /\ rxMsg["seL4"] \in Message /\ Command \in SUBSET Message
  BY <1>2 DEF Writes, Message, FromFrontend
<1>4. rxCnt["seL4"] > BlockSize
  BY <1>1, <1>3 DEF Size
<1>5. Step(rxHeader) # rxTail /\ Whole(data[rxHeader + 1]) = rxMsg["seL4"]
  BY <1>2, <1>3, <1>4, WriterDone, Zenon
<1>6. rxHeader' = Step(rxHeader) /\ Step(rxHeader) \in Slot
  BY <1>1, <1>2, SameOperators
<1>7. /\ Held(rxTail, Step(rxHeader), data) = Append(Held(rxTail, rxHeader, data), rxMsg["seL4"])
      /\ Len(Held(rxTail, rxHeader, data)) < Capacity - 1
      /\ Filled(rxTail, Step(rxHeader), data, Command)
  BY <1>0, <1>2, <1>3, <1>5, HeldGrows
<1>8. rxPc'["seL4"] = "unlock" /\ rxPc'["Linux"] = rxPc["Linux"] /\ rxCnt'["Linux"] = rxCnt["Linux"]
  BY <1>0, <1>1 DEF RxTypes, Zones
<1>9. Reads(rxPc["Linux"], rxCnt["Linux"], rxBuf["Linux"], rxTail, Step(rxHeader), data)
  BY <1>0, <1>2, <1>5, EndsMove, Zenon DEF RxCopies
<1>10. RxTypes'
  BY <1>0, <1>1, <1>6, <1>8, ChannelAssumption DEF RxTypes, Zones
<1>11. RxCopies'
  BY <1>1, <1>6, <1>8, <1>9 DEF RxCopies, Writes
<1>12. Rx!Fifo!Put("seL4")
  BY <1>1, <1>3, <1>6, <1>7, RxContents, SameOperators DEF Rx!Fifo!Put, Rx!Fifo!Returns
<1> QED
  BY <1>1, <1>5, <1>6, <1>7, <1>10, <1>11, <1>12, SMTT(30) DEF RxQueue, RxFifoStep, Rx!Fifo!Next

(* A read that finds a message takes the reader to its copy loop; one that *)
(* finds none says so.                                                     *)
LEMMA RxReadCall ==
  ASSUME RxQueue, Rx!ReadEmpty("Linux", "dequeue") \/ Rx!ReadBegin("Linux", "dequeue")
  PROVE  RxQueue' /\ RxFifoStep
<1>0. RxTypes /\ RxCopies /\ Filled(rxTail, rxHeader, data, Command)
  BY DEF RxQueue
<1>1. /\ rxHeader' = rxHeader /\ rxTail' = rxTail /\ data' = data /\ rxPc["Linux"] = "idle"
      /\ rxCnt' = rxCnt /\ rxBuf' = rxBuf /\ rxMsg' = rxMsg
  BY DEF Rx!ReadEmpty, Rx!ReadBegin, Rx!Goto, Rx!locals
<1>2. Rx!Contents' = Rx!Contents
  BY <1>1, RxContents
<1>3. rxCnt["Linux"] = 1
  BY <1>0, <1>1 DEF RxTypes, Zones
<1>4. CASE Rx!ReadEmpty("Linux", "dequeue")
  <2>1. /\ rxPc' = [rxPc EXCEPT !["Linux"] = "unlock"]
        /\ rxResult' = [rxResult EXCEPT !["Linux"] = "AGAIN"] /\ rxTail = rxHeader
    BY <1>4 DEF Rx!ReadEmpty, Rx!Goto, Rx!Empty, Rx!Returns
  <2>2. RxTypes'
    BY <1>0, <1>1, <1>3, <2>1 DEF RxTypes, Zones
  <2>3. rxPc'["Linux"] = "unlock" /\ rxPc'["seL4"] = rxPc["seL4"]
    BY <1>0, <2>1 DEF RxTypes, Zones
  <2>4. RxCopies'
    BY <1>0, <1>1, <2>3 DEF RxCopies, Writes, Reads
  <2>5. rxHeader \in Slot /\ rxTail \in Slot
    BY <1>0 DEF RxTypes
  <2>6. Rx!Contents = <<>>
    BY <1>0, <2>1, <2>5, RxContents, HeldType
  <2>7. Rx!Fifo!GetEmpty("Linux")
    BY <1>2, <2>1, <2>6 DEF Rx!Fifo!GetEmpty, Rx!Fifo!Returns
  <2> QED
    BY <1>0, <1>1, <2>2, <2>4, <2>7 DEF RxQueue, RxFifoStep, Rx!Fifo!Next
<1>5. CASE Rx!ReadBegin("Linux", "dequeue")
  <2>1. rxPc' = [rxPc EXCEPT !["Linux"] = "dequeue"] /\ rxResult' = rxResult /\ rxTail # rxHeader
    BY <1>5 DEF Rx!ReadBegin, Rx!Goto, Rx!Empty
  <2>2. RxTypes'
    BY <1>0, <1>1, <1>3, <2>1 DEF RxTypes, Zones
  <2>3. rxPc'["Linux"] = "dequeue" /\ rxPc'["seL4"] = rxPc["seL4"] /\ rxCnt'["Linux"] = 1
    BY <1>0, <1>1, <1>3, <2>1 DEF RxTypes, Zones
  <2>4. RxCopies'
    BY <1>0, <1>1, <2>1, <2>3 DEF RxCopies, Writes, Reads
  <2> QED
    BY <1>0, <1>1, <1>2, <2>1, <2>2, <2>4 DEF RxQueue, RxFifoStep, Rx!Fifo!fifoVars
<1> QED
  BY <1>4, <1>5

(* The reader copies the oldest message, which nobody overwrites.          *)
LEMMA RxCopyOut ==
  ASSUME RxQueue, Rx!CopyOut("Linux")
  PROVE  RxQueue' /\ RxFifoStep
<1>0. RxTypes /\ RxCopies /\ Filled(rxTail, rxHeader, data, Command)
  BY DEF RxQueue
<1>1. /\ rxPc["Linux"] \in {"dequeue", "peek"} /\ rxCnt["Linux"] <= BlockSize
      /\ rxBuf' = [rxBuf EXCEPT !["Linux"][rxCnt["Linux"]] = data[rxTail + 1][rxCnt["Linux"]]]
      /\ rxCnt' = [rxCnt EXCEPT !["Linux"] = @ + 1]
      /\ rxHeader' = rxHeader /\ rxTail' = rxTail /\ data' = data /\ rxPc' = rxPc
      /\ rxMsg' = rxMsg /\ rxResult' = rxResult
  BY DEF Rx!CopyOut, Rx!BlockOf
<1>2. /\ rxHeader \in Slot /\ rxTail \in Slot /\ data \in Regions /\ rxPc["Linux"] = "dequeue"
      /\ rxBuf["Linux"] \in [1 .. BlockSize -> Message \cup {"none"}]
      /\ rxCnt["Linux"] \in 1 .. BlockSize
  BY <1>0, <1>1, ChannelAssumption, SMTT(30) DEF RxTypes, Zones
<1>3. Reads("dequeue", rxCnt["Linux"], rxBuf["Linux"], rxTail, rxHeader, data)
  BY <1>0, <1>2 DEF RxCopies
<1>4. PICK a : a = [rxBuf["Linux"] EXCEPT ![rxCnt["Linux"]] = data[rxTail + 1][rxCnt["Linux"]]]
  BY Zenon
<1>5. /\ Reads("dequeue", rxCnt["Linux"] + 1, a, rxTail, rxHeader, data)
      /\ a \in [1 .. BlockSize -> Message \cup {"none"}]
  BY <1>2, <1>3, <1>4, ReaderCopies, Zenon
<1>6. rxBuf' = [rxBuf EXCEPT !["Linux"] = a]
  BY <1>0, <1>1, <1>4 DEF RxTypes, Zones
<1>7. /\ rxBuf'["Linux"] = a /\ rxCnt'["Linux"] = rxCnt["Linux"] + 1 /\ rxCnt'["seL4"] = rxCnt["seL4"]
      /\ rxCnt["Linux"] + 1 \in 1 .. BlockSize + 1
  BY <1>0, <1>1, <1>2, <1>6, ChannelAssumption DEF RxTypes, Zones
<1>8. rxBuf' \in [Zones -> [1 .. BlockSize -> Message \cup {"none"}]]
  BY <1>0, <1>5, <1>6, Zenon DEF RxTypes
<1>9. RxTypes'
  BY <1>0, <1>1, <1>2, <1>7, <1>8, SMTT(30) DEF RxTypes, Zones
<1>10. RxCopies'
  BY <1>0, <1>1, <1>2, <1>5, <1>7 DEF RxCopies
<1>11. Rx!Contents' = Rx!Contents
  BY <1>1, RxContents
<1> QED
  BY <1>0, <1>1, <1>9, <1>10, <1>11 DEF RxQueue, RxFifoStep, Rx!Fifo!fifoVars

(* Moving tail hands over the oldest message.                              *)
LEMMA RxReadDone ==
  ASSUME RxQueue, Rx!ReadDone("Linux", "dequeue")
  PROVE  /\ RxQueue' /\ RxFifoStep
         /\ rxTail # rxHeader /\ rxTail' = Step(rxTail) /\ Rx!Decode(rxBuf["Linux"]) \in Command
<1>0. RxTypes /\ RxCopies /\ Filled(rxTail, rxHeader, data, Command)
  BY DEF RxQueue
<1>1. /\ rxPc["Linux"] = "dequeue" /\ rxPc' = [rxPc EXCEPT !["Linux"] = "unlock"]
      /\ rxCnt["Linux"] > BlockSize
      /\ rxTail' = Rx!Advance(rxTail)
      /\ rxResult' = [rxResult EXCEPT !["Linux"] = Rx!Decode(rxBuf["Linux"])]
      /\ rxBuf' = [rxBuf EXCEPT !["Linux"] = Rx!Blank]
      /\ rxCnt' = [rxCnt EXCEPT !["Linux"] = 1]
      /\ rxHeader' = rxHeader /\ data' = data /\ rxMsg' = rxMsg
  BY DEF Rx!ReadDone, Rx!Goto, Rx!Returns
<1>2. /\ rxHeader \in Slot /\ rxTail \in Slot /\ data \in Regions
      /\ rxBuf["Linux"] \in [1 .. BlockSize -> Message \cup {"none"}]
      /\ rxCnt["Linux"] \in 1 .. BlockSize + 1
      /\ Reads("dequeue", rxCnt["Linux"], rxBuf["Linux"], rxTail, rxHeader, data)
  BY <1>0, <1>1 DEF RxTypes, RxCopies, Zones
<1>3. rxTail # rxHeader /\ rxBuf["Linux"] = data[rxTail + 1]
  BY <1>1, <1>2, ReaderDone, SMTT(30)
<1>4. /\ rxTail' = Step(rxTail) /\ Step(rxTail) \in Slot
      /\ Rx!Decode(rxBuf["Linux"]) = Whole(data[rxTail + 1])
  BY <1>1, <1>2, <1>3, SameOperators, SMTT(30)
<1>5. /\ Held(rxTail, rxHeader, data) # <<>>
      /\ Head(Held(rxTail, rxHeader, data)) = Whole(data[rxTail + 1])
      /\ Held(Step(rxTail), rxHeader, data) = Tail(Held(rxTail, rxHeader, data))
      /\ Filled(Step(rxTail), rxHeader, data, Command)
  BY <1>0, <1>2, <1>3, HeldDrops, SMTT(30)
<1>6. Whole(data[rxTail + 1]) \in Command
  BY <1>0, <1>2, <1>3, Distances DEF Filled
<1>7. rxPc'["Linux"] = "unlock" /\ rxPc'["seL4"] = rxPc["seL4"] /\ rxCnt'["seL4"] = rxCnt["seL4"]
  BY <1>0, <1>1 DEF RxTypes, Zones
<1>8. Writes(rxPc["seL4"], rxMsg["seL4"], rxCnt["seL4"], Step(rxTail), rxHeader, data, Command)
  BY <1>0, <1>2, <1>3, EndsMove, Zenon DEF RxCopies
<1>9. Rx!Blank \in [1 .. BlockSize -> Message \cup {"none"}]
  BY DEF Rx!Blank, Rx!Chunk
<1>10. RxTypes'
  BY <1>0, <1>1, <1>4, <1>7, <1>9, ChannelAssumption, SMTT(30) DEF RxTypes, Zones
<1>11. RxCopies'
  BY <1>1, <1>4, <1>7, <1>8 DEF RxCopies, Reads
<1>12. Rx!Fifo!Get("Linux")
  BY <1>1, <1>4, <1>5, RxContents, Zenon DEF Rx!Fifo!Get, Rx!Fifo!Returns
<1> QED
  BY <1>1, <1>3, <1>4, <1>5, <1>6, <1>10, <1>11, <1>12, SMTT(30) DEF RxQueue, RxFifoStep, Rx!Fifo!Next

(* The call returns.                                                       *)
LEMMA RxUnlock ==
  ASSUME RxQueue, NEW z \in Zones, Rx!Unlock(z)
  PROVE  RxQueue' /\ RxFifoStep
<1>0. RxTypes /\ RxCopies /\ Filled(rxTail, rxHeader, data, Command)
  BY DEF RxQueue
<1>1. /\ rxPc[z] = "unlock" /\ rxPc' = [rxPc EXCEPT ![z] = "idle"]
      /\ rxHeader' = rxHeader /\ rxTail' = rxTail /\ data' = data
      /\ rxMsg' = rxMsg /\ rxCnt' = rxCnt /\ rxBuf' = rxBuf /\ rxResult' = rxResult
  BY DEF Rx!Unlock, Rx!Goto, Rx!locals
<1>2. RxTypes'
  BY <1>0, <1>1 DEF RxTypes, Zones
<1>3. \A y \in Zones : rxPc'[y] \in {"enqueue", "dequeue"} => rxPc'[y] = rxPc[y]
  BY <1>0, <1>1 DEF RxTypes, Zones
<1>4. RxCopies'
  BY <1>0, <1>1, <1>3 DEF RxCopies, Writes, Reads, Zones
<1>5. Rx!Contents' = Rx!Contents
  BY <1>1, RxContents
<1> QED
  BY <1>0, <1>1, <1>2, <1>4, <1>5 DEF RxQueue, RxFifoStep, Rx!Fifo!fifoVars

(* One producer and one consumer need no lock: whatever they interleave,   *)
(* a step of either is a step of the FIFO, or none.                        *)
LEMMA RxOwnStep ==
  ASSUME RxQueue, RxMove
  PROVE  RxQueue' /\ RxFifoStep
BY RxEnqueueCall, RxCopyIn, RxEnqueuePublish, RxReadCall, RxCopyOut, RxReadDone, RxUnlock, Zenon DEF RxMove

(* A step of the other queue that writes, if at all, a slot that is not    *)
(* between the ends, nor the one this queue's writer is at.                *)
LEMMA RxOtherStep ==
  ASSUME RxQueue, UNCHANGED rxOnly, data' \in Regions,
         \/ data' = data
         \/ \E w \in Slot : /\ SameBut(data, data', w) /\ ~Between(rxTail, rxHeader, w)
                            /\ rxPc["seL4"] = "enqueue" => rxHeader # w
  PROVE  RxQueue' /\ RxFifoStep
<1>0. RxTypes /\ RxCopies /\ Filled(rxTail, rxHeader, data, Command)
  BY DEF RxQueue
<1>1. /\ rxHeader' = rxHeader /\ rxTail' = rxTail /\ rxPc' = rxPc /\ rxMsg' = rxMsg
      /\ rxCnt' = rxCnt /\ rxBuf' = rxBuf /\ rxResult' = rxResult
      /\ rxHeader \in Slot /\ rxTail \in Slot
  BY <1>0 DEF rxOnly, RxTypes
<1>2. RxTypes'
  BY <1>0, <1>1 DEF RxTypes
<1>3. CASE data' = data
  BY <1>0, <1>1, <1>2, <1>3, RxContents, SMTT(30) DEF RxQueue, RxCopies, RxFifoStep, Rx!Fifo!fifoVars
<1>4. ASSUME NEW w \in Slot, SameBut(data, data', w), ~Between(rxTail, rxHeader, w),
             rxPc["seL4"] = "enqueue" => rxHeader # w
      PROVE  RxQueue' /\ RxFifoStep
  <2>1. Held(rxTail, rxHeader, data') = Held(rxTail, rxHeader, data) /\ Filled(rxTail, rxHeader, data', Command)
    BY <1>0, <1>1, <1>4, HeldStays
  <2>2. Reads(rxPc["Linux"], rxCnt["Linux"], rxBuf["Linux"], rxTail, rxHeader, data')
    BY <1>0, <1>1, <1>4, WriteElsewhere, Zenon DEF RxCopies
  <2>3. Writes(rxPc["seL4"], rxMsg["seL4"], rxCnt["seL4"], rxTail, rxHeader, data', Command)
    <3>1. CASE rxPc["seL4"] = "enqueue"
      BY <1>0, <1>1, <1>4, <3>1, WriteElsewhere, Zenon DEF RxCopies
    <3>2. CASE rxPc["seL4"] # "enqueue"
      BY <3>2 DEF Writes
    <3> QED
      BY <3>1, <3>2
  <2>4. Rx!Contents' = Rx!Contents
    BY <1>1, <2>1, RxContents
  <2> QED
    BY <1>1, <1>2, <2>1, <2>2, <2>3, <2>4, SMTT(30) DEF RxQueue, RxCopies, RxFifoStep, Rx!Fifo!fifoVars
<1> QED
  BY <1>3, <1>4

-----------------------------------------------------------------------------
(* The tx queue: Linux writes responses, seL4 reads them                    *)

TxTypes ==
  /\ txHeader \in Slot /\ txTail \in Slot /\ data \in Regions
  /\ txPc \in [Zones -> {"idle", "enqueue", "dequeue", "unlock"}]
  /\ txPc["Linux"] # "dequeue" /\ txPc["seL4"] # "enqueue"
  /\ txMsg \in [Zones -> Message \cup {"none"}]
  /\ txCnt \in [Zones -> 1 .. BlockSize + 1]
  /\ txBuf \in [Zones -> [1 .. BlockSize -> Message \cup {"none"}]]
  /\ \A z \in Zones : txPc[z] \in {"idle", "unlock"} => txCnt[z] = 1

TxCopies ==
  /\ Writes(txPc["Linux"], txMsg["Linux"], txCnt["Linux"], txTail, txHeader, data, Answer)
  /\ Reads(txPc["seL4"], txCnt["seL4"], txBuf["seL4"], txTail, txHeader, data)

TxQueue == TxTypes /\ TxCopies /\ Filled(txTail, txHeader, data, Answer)

\* The steps of the two zones on the queue.
TxMove ==
  \/ \E m \in Answer : Tx!EnqueueRoom("Linux", m) \/ Tx!EnqueueFull("Linux", m)
  \/ Tx!CopyIn("Linux") \/ Tx!EnqueuePublish("Linux")
  \/ Tx!ReadEmpty("seL4", "dequeue") \/ Tx!ReadBegin("seL4", "dequeue")
  \/ Tx!CopyOut("seL4") \/ Tx!ReadDone("seL4", "dequeue")
  \/ \E z \in Zones : Tx!Unlock(z)

TxFifoStep == [Tx!Fifo!Next]_(Tx!Fifo!fifoVars)

(* The contents of the queue are what its ring holds.                      *)
LEMMA TxContents ==
  /\ Tx!Contents = Held(txTail, txHeader, data)
  /\ Tx!Contents' = Held(txTail', txHeader', data')
<1>1. \A b : Tx!Decode(b) = Whole(b)
  BY SameOperators
<1>2. Tx!Contents = Held(txTail, txHeader, data)
  BY <1>1, Zenon DEF Tx!Contents, Held, Tx!Length, Dist, Tx!BlockOf, Tx!Wrap, Around
<1>3. Tx!Contents' = Held(txTail', txHeader', data')
  BY <1>1, Zenon DEF Tx!Contents, Held, Tx!Length, Dist, Tx!BlockOf, Tx!Wrap, Around
<1> QED
  BY <1>2, <1>3

(* A call that finds room takes the writer to its copy loop; one that      *)
(* finds the queue full says so.                                           *)
LEMMA TxEnqueueCall ==
  ASSUME TxQueue, NEW m \in Answer, Tx!EnqueueRoom("Linux", m) \/ Tx!EnqueueFull("Linux", m)
  PROVE  TxQueue' /\ TxFifoStep
<1>0. TxTypes /\ TxCopies /\ Filled(txTail, txHeader, data, Answer)
  BY DEF TxQueue
<1>1. /\ txHeader' = txHeader /\ txTail' = txTail /\ data' = data
      /\ txCnt' = txCnt /\ txBuf' = txBuf /\ txPc["Linux"] = "idle"
  BY DEF Tx!EnqueueRoom, Tx!EnqueueFull, Tx!Goto, Tx!locals
<1>2. Tx!Contents' = Tx!Contents
  BY <1>1, TxContents
<1>3. txCnt["Linux"] = 1 /\ m \in Message
  BY <1>0, <1>1 DEF TxTypes, Zones, Message, FromBackend, Answer
<1>4. CASE Tx!EnqueueRoom("Linux", m)
  <2>1. /\ txPc' = [txPc EXCEPT !["Linux"] = "enqueue"] /\ txMsg' = [txMsg EXCEPT !["Linux"] = m]
        /\ txResult' = txResult /\ Tx!Advance(txHeader) # txTail
    BY <1>4 DEF Tx!EnqueueRoom, Tx!Goto, Tx!Full
  <2>2. Step(txHeader) # txTail
    BY <1>0, <2>1, SameOperators, SMTT(30) DEF TxTypes
  <2>3. TxTypes'
    BY <1>0, <1>1, <1>3, <2>1 DEF TxTypes, Zones
  <2>4. /\ txPc'["Linux"] = "enqueue" /\ txMsg'["Linux"] = m /\ txCnt'["Linux"] = 1
        /\ txPc'["seL4"] = txPc["seL4"]
    BY <1>0, <1>1, <1>3, <2>1, SMTT(30) DEF TxTypes, Zones
  <2>5. TxCopies'
    BY <1>0, <1>1, <2>2, <2>4 DEF TxCopies, Writes, Reads
  <2> QED
    BY <1>0, <1>1, <1>2, <2>1, <2>3, <2>5, SMTT(30) DEF TxQueue, TxFifoStep, Tx!Fifo!fifoVars
<1>5. CASE Tx!EnqueueFull("Linux", m)
  <2>1. /\ txPc' = [txPc EXCEPT !["Linux"] = "unlock"] /\ txMsg' = txMsg
        /\ txResult' = [txResult EXCEPT !["Linux"] = "AGAIN"] /\ Tx!Advance(txHeader) = txTail
    BY <1>5 DEF Tx!EnqueueFull, Tx!Goto, Tx!Full, Tx!Returns, Tx!locals
  <2>2. TxTypes'
    BY <1>0, <1>1, <1>3, <2>1, SMTT(30) DEF TxTypes, Zones
  <2>3. txPc'["Linux"] = "unlock" /\ txPc'["seL4"] = txPc["seL4"]
    BY <1>0, <2>1 DEF TxTypes, Zones
  <2>4. TxCopies'
    BY <1>0, <1>1, <2>3 DEF TxCopies, Writes, Reads
  <2>5. Len(Tx!Contents) = Capacity - 1
    <3>1. txHeader \in Slot /\ txTail \in Slot
      BY <1>0 DEF TxTypes
    <3>2. Len(Held(txTail, txHeader, data)) = Dist(txTail, txHeader)
      BY <1>0, <3>1, HeldType
    <3>3. Step(txHeader) = txTail
      BY <2>1, <3>1, SameOperators
    <3> QED
      BY <3>1, <3>2, <3>3, TxContents, Distances, SMTT(30)
  <2>6. Tx!Fifo!PutFull("Linux")
    BY <1>2, <2>1, <2>5, SMTT(30) DEF Tx!Fifo!PutFull, Tx!Fifo!Returns
  <2> QED
    BY <1>0, <1>1, <2>2, <2>4, <2>6, SMTT(30) DEF TxQueue, TxFifoStep, Tx!Fifo!Next
<1> QED
  BY <1>4, <1>5

(* The writer copies into its own slot, which no reader reads.             *)
LEMMA TxCopyIn ==
  ASSUME TxQueue, Tx!CopyIn("Linux")
  PROVE  TxQueue' /\ TxFifoStep /\ SameBut(data, data', txHeader)
<1>0. TxTypes /\ TxCopies /\ Filled(txTail, txHeader, data, Answer)
  BY DEF TxQueue
<1>1. /\ txPc["Linux"] = "enqueue" /\ txCnt["Linux"] <= Size[txMsg["Linux"]]
      /\ data' = [data EXCEPT ![txHeader + 1][txCnt["Linux"]] = txMsg["Linux"]]
      /\ txCnt' = [txCnt EXCEPT !["Linux"] = @ + 1]
      /\ txHeader' = txHeader /\ txTail' = txTail /\ txPc' = txPc
      /\ txMsg' = txMsg /\ txBuf' = txBuf /\ txResult' = txResult
  BY DEF Tx!CopyIn, Tx!BlockOf
<1>2. /\ txHeader \in Slot /\ txTail \in Slot /\ data \in Regions
      /\ Writes("enqueue", txMsg["Linux"], txCnt["Linux"], txTail, txHeader, data, Answer)
  BY <1>0, <1>1 DEF TxTypes, TxCopies
<1>3. txMsg["Linux"] \in Message
  BY <1>2 DEF Writes, Message, FromBackend, Answer
<1>4. txCnt["Linux"] \in 1 .. BlockSize
  BY <1>0, <1>1, <1>3, ChannelAssumption, SMTT(30) DEF TxTypes, Size, Zones
<1>5. /\ Writes("enqueue", txMsg["Linux"], txCnt["Linux"] + 1, txTail, txHeader, data', Answer)
      /\ data' \in Regions /\ SameBut(data, data', txHeader)
  BY <1>1, <1>2, <1>3, <1>4, WriterCopies, Zenon
<1>6. ~Between(txTail, txHeader, txHeader)
  BY <1>2, Distances
<1>7. Held(txTail, txHeader, data') = Held(txTail, txHeader, data) /\ Filled(txTail, txHeader, data', Answer)
  BY <1>0, <1>2, <1>5, <1>6, HeldStays
<1>8. Reads(txPc["seL4"], txCnt["seL4"], txBuf["seL4"], txTail, txHeader, data')
  BY <1>0, <1>2, <1>5, <1>6, WriteElsewhere, ZenonT(30) DEF TxCopies
<1>9. txCnt'["Linux"] = txCnt["Linux"] + 1 /\ txCnt'["seL4"] = txCnt["seL4"] /\ txCnt["Linux"] + 1 \in 1 .. BlockSize + 1
  BY <1>0, <1>1, <1>4, ChannelAssumption, SMTT(30) DEF TxTypes, Zones
<1>10. TxTypes'
  BY <1>0, <1>1, <1>5, <1>9, SMTT(30) DEF TxTypes, Zones
<1>11. TxCopies'
  BY <1>1, <1>5, <1>8, <1>9 DEF TxCopies
<1>12. Tx!Contents' = Tx!Contents
  BY <1>1, <1>7, TxContents, SMTT(30)
<1> QED
  BY <1>1, <1>5, <1>7, <1>10, <1>11, <1>12, SMTT(30) DEF TxQueue, TxFifoStep, Tx!Fifo!fifoVars

(* Moving header appends the message.                                      *)
LEMMA TxEnqueuePublish ==
  ASSUME TxQueue, Tx!EnqueuePublish("Linux")
  PROVE  TxQueue' /\ TxFifoStep /\ Step(txHeader) # txTail /\ txHeader' = Step(txHeader)
<1>0. TxTypes /\ TxCopies /\ Filled(txTail, txHeader, data, Answer)
  BY DEF TxQueue
<1>1. /\ txPc["Linux"] = "enqueue" /\ txPc' = [txPc EXCEPT !["Linux"] = "unlock"]
      /\ txCnt["Linux"] > Size[txMsg["Linux"]]
      /\ txHeader' = Tx!Advance(txHeader)
      /\ txResult' = [txResult EXCEPT !["Linux"] = "OK"]
      /\ txMsg' = [txMsg EXCEPT !["Linux"] = "none"]
      /\ txCnt' = [txCnt EXCEPT !["Linux"] = 1]
      /\ txTail' = txTail /\ data' = data /\ txBuf' = txBuf
  BY DEF Tx!EnqueuePublish, Tx!Goto, Tx!Returns
<1>2. /\ txHeader \in Slot /\ txTail \in Slot /\ txCnt["Linux"] \in 1 .. BlockSize + 1
      /\ Writes("enqueue", txMsg["Linux"], txCnt["Linux"], txTail, txHeader, data, Answer)
  BY <1>0, <1>1 DEF TxTypes, TxCopies, Zones
<1>3. txMsg["Linux"] \in Answer /\ txMsg["Linux"] \in Message /\ Answer \in SUBSET Message
  BY <1>2 DEF Writes, Message, FromBackend, Answer
<1>4. txCnt["Linux"] > BlockSize
  BY <1>1, <1>3 DEF Size
<1>5. Step(txHeader) # txTail /\ Whole(data[txHeader + 1]) = txMsg["Linux"]
  BY <1>2, <1>3, <1>4, WriterDone, Zenon
<1>6. txHeader' = Step(txHeader) /\ Step(txHeader) \in Slot
  BY <1>1, <1>2, SameOperators
<1>7. /\ Held(txTail, Step(txHeader), data) = Append(Held(txTail, txHeader, data), txMsg["Linux"])
      /\ Len(Held(txTail, txHeader, data)) < Capacity - 1
      /\ Filled(txTail, Step(txHeader), data, Answer)
  BY <1>0, <1>2, <1>3, <1>5, HeldGrows
<1>8. txPc'["Linux"] = "unlock" /\ txPc'["seL4"] = txPc["seL4"] /\ txCnt'["seL4"] = txCnt["seL4"]
  BY <1>0, <1>1 DEF TxTypes, Zones
<1>9. Reads(txPc["seL4"], txCnt["seL4"], txBuf["seL4"], txTail, Step(txHeader), data)
  BY <1>0, <1>2, <1>5, EndsMove, ZenonT(30) DEF TxCopies
<1>10. TxTypes'
  BY <1>0, <1>1, <1>6, <1>8, ChannelAssumption, SMTT(30) DEF TxTypes, Zones
<1>11. TxCopies'
  BY <1>1, <1>6, <1>8, <1>9, SMTT(30) DEF TxCopies, Writes
<1>12. Tx!Fifo!Put("Linux")
  BY <1>1, <1>3, <1>6, <1>7, TxContents, SameOperators, SMTT(30) DEF Tx!Fifo!Put, Tx!Fifo!Returns
<1> QED
  BY <1>1, <1>5, <1>6, <1>7, <1>10, <1>11, <1>12, SMTT(30) DEF TxQueue, TxFifoStep, Tx!Fifo!Next

(* A read that finds a message takes the reader to its copy loop; one that *)
(* finds none says so.                                                     *)
LEMMA TxReadCall ==
  ASSUME TxQueue, Tx!ReadEmpty("seL4", "dequeue") \/ Tx!ReadBegin("seL4", "dequeue")
  PROVE  TxQueue' /\ TxFifoStep
<1>0. TxTypes /\ TxCopies /\ Filled(txTail, txHeader, data, Answer)
  BY DEF TxQueue
<1>1. /\ txHeader' = txHeader /\ txTail' = txTail /\ data' = data /\ txPc["seL4"] = "idle"
      /\ txCnt' = txCnt /\ txBuf' = txBuf /\ txMsg' = txMsg
  BY DEF Tx!ReadEmpty, Tx!ReadBegin, Tx!Goto, Tx!locals
<1>2. Tx!Contents' = Tx!Contents
  BY <1>1, TxContents
<1>3. txCnt["seL4"] = 1
  BY <1>0, <1>1 DEF TxTypes, Zones
<1>4. CASE Tx!ReadEmpty("seL4", "dequeue")
  <2>1. /\ txPc' = [txPc EXCEPT !["seL4"] = "unlock"]
        /\ txResult' = [txResult EXCEPT !["seL4"] = "AGAIN"] /\ txTail = txHeader
    BY <1>4 DEF Tx!ReadEmpty, Tx!Goto, Tx!Empty, Tx!Returns
  <2>2. TxTypes'
    BY <1>0, <1>1, <1>3, <2>1 DEF TxTypes, Zones
  <2>3. txPc'["seL4"] = "unlock" /\ txPc'["Linux"] = txPc["Linux"]
    BY <1>0, <2>1, SMTT(30) DEF TxTypes, Zones
  <2>4. TxCopies'
    BY <1>0, <1>1, <2>3 DEF TxCopies, Writes, Reads
  <2>5. txHeader \in Slot /\ txTail \in Slot
    BY <1>0 DEF TxTypes
  <2>6. Tx!Contents = <<>>
    BY <1>0, <2>1, <2>5, TxContents, HeldType
  <2>7. Tx!Fifo!GetEmpty("seL4")
    BY <1>2, <2>1, <2>6 DEF Tx!Fifo!GetEmpty, Tx!Fifo!Returns
  <2> QED
    BY <1>0, <1>1, <2>2, <2>4, <2>7, SMTT(30) DEF TxQueue, TxFifoStep, Tx!Fifo!Next
<1>5. CASE Tx!ReadBegin("seL4", "dequeue")
  <2>1. txPc' = [txPc EXCEPT !["seL4"] = "dequeue"] /\ txResult' = txResult /\ txTail # txHeader
    BY <1>5 DEF Tx!ReadBegin, Tx!Goto, Tx!Empty
  <2>2. TxTypes'
    BY <1>0, <1>1, <1>3, <2>1, SMTT(30) DEF TxTypes, Zones
  <2>3. txPc'["seL4"] = "dequeue" /\ txPc'["Linux"] = txPc["Linux"] /\ txCnt'["seL4"] = 1
    BY <1>0, <1>1, <1>3, <2>1, SMTT(30) DEF TxTypes, Zones
  <2>4. TxCopies'
    BY <1>0, <1>1, <2>1, <2>3 DEF TxCopies, Writes, Reads
  <2> QED
    BY <1>0, <1>1, <1>2, <2>1, <2>2, <2>4, SMTT(30) DEF TxQueue, TxFifoStep, Tx!Fifo!fifoVars
<1> QED
  BY <1>4, <1>5

(* The reader copies the oldest message, which nobody overwrites.          *)
LEMMA TxCopyOut ==
  ASSUME TxQueue, Tx!CopyOut("seL4")
  PROVE  TxQueue' /\ TxFifoStep
<1>0. TxTypes /\ TxCopies /\ Filled(txTail, txHeader, data, Answer)
  BY DEF TxQueue
<1>1. /\ txPc["seL4"] \in {"dequeue", "peek"} /\ txCnt["seL4"] <= BlockSize
      /\ txBuf' = [txBuf EXCEPT !["seL4"][txCnt["seL4"]] = data[txTail + 1][txCnt["seL4"]]]
      /\ txCnt' = [txCnt EXCEPT !["seL4"] = @ + 1]
      /\ txHeader' = txHeader /\ txTail' = txTail /\ data' = data /\ txPc' = txPc
      /\ txMsg' = txMsg /\ txResult' = txResult
  BY DEF Tx!CopyOut, Tx!BlockOf
<1>2. /\ txHeader \in Slot /\ txTail \in Slot /\ data \in Regions /\ txPc["seL4"] = "dequeue"
      /\ txBuf["seL4"] \in [1 .. BlockSize -> Message \cup {"none"}]
      /\ txCnt["seL4"] \in 1 .. BlockSize
  BY <1>0, <1>1, ChannelAssumption, SMTT(30) DEF TxTypes, Zones
<1>3. Reads("dequeue", txCnt["seL4"], txBuf["seL4"], txTail, txHeader, data)
  BY <1>0, <1>2 DEF TxCopies
<1>4. PICK a : a = [txBuf["seL4"] EXCEPT ![txCnt["seL4"]] = data[txTail + 1][txCnt["seL4"]]]
  BY ZenonT(30)
<1>5. /\ Reads("dequeue", txCnt["seL4"] + 1, a, txTail, txHeader, data)
      /\ a \in [1 .. BlockSize -> Message \cup {"none"}]
  BY <1>2, <1>3, <1>4, ReaderCopies, Zenon
<1>6. txBuf' = [txBuf EXCEPT !["seL4"] = a]
  BY <1>0, <1>1, <1>4 DEF TxTypes, Zones
<1>7. /\ txBuf'["seL4"] = a /\ txCnt'["seL4"] = txCnt["seL4"] + 1 /\ txCnt'["Linux"] = txCnt["Linux"]
      /\ txCnt["seL4"] + 1 \in 1 .. BlockSize + 1
  BY <1>0, <1>1, <1>2, <1>6, ChannelAssumption DEF TxTypes, Zones
<1>8. txBuf' \in [Zones -> [1 .. BlockSize -> Message \cup {"none"}]]
  BY <1>0, <1>5, <1>6, ZenonT(30) DEF TxTypes
<1>9. TxTypes'
  BY <1>0, <1>1, <1>2, <1>7, <1>8, SMTT(30) DEF TxTypes, Zones
<1>10. TxCopies'
  BY <1>0, <1>1, <1>2, <1>5, <1>7, SMTT(30) DEF TxCopies
<1>11. Tx!Contents' = Tx!Contents
  BY <1>1, TxContents
<1> QED
  BY <1>0, <1>1, <1>9, <1>10, <1>11, SMTT(30) DEF TxQueue, TxFifoStep, Tx!Fifo!fifoVars

(* Moving tail hands over the oldest message.                              *)
LEMMA TxReadDone ==
  ASSUME TxQueue, Tx!ReadDone("seL4", "dequeue")
  PROVE  /\ TxQueue' /\ TxFifoStep
         /\ txTail # txHeader /\ txTail' = Step(txTail) /\ Tx!Decode(txBuf["seL4"]) \in Answer
<1>0. TxTypes /\ TxCopies /\ Filled(txTail, txHeader, data, Answer)
  BY DEF TxQueue
<1>1. /\ txPc["seL4"] = "dequeue" /\ txPc' = [txPc EXCEPT !["seL4"] = "unlock"]
      /\ txCnt["seL4"] > BlockSize
      /\ txTail' = Tx!Advance(txTail)
      /\ txResult' = [txResult EXCEPT !["seL4"] = Tx!Decode(txBuf["seL4"])]
      /\ txBuf' = [txBuf EXCEPT !["seL4"] = Tx!Blank]
      /\ txCnt' = [txCnt EXCEPT !["seL4"] = 1]
      /\ txHeader' = txHeader /\ data' = data /\ txMsg' = txMsg
  BY DEF Tx!ReadDone, Tx!Goto, Tx!Returns
<1>2. /\ txHeader \in Slot /\ txTail \in Slot /\ data \in Regions
      /\ txBuf["seL4"] \in [1 .. BlockSize -> Message \cup {"none"}]
      /\ txCnt["seL4"] \in 1 .. BlockSize + 1
      /\ Reads("dequeue", txCnt["seL4"], txBuf["seL4"], txTail, txHeader, data)
  BY <1>0, <1>1 DEF TxTypes, TxCopies, Zones
<1>3. txTail # txHeader /\ txBuf["seL4"] = data[txTail + 1]
  BY <1>1, <1>2, ReaderDone, SMTT(30)
<1>4. /\ txTail' = Step(txTail) /\ Step(txTail) \in Slot
      /\ Tx!Decode(txBuf["seL4"]) = Whole(data[txTail + 1])
  BY <1>1, <1>2, <1>3, SameOperators, SMTT(30)
<1>5. /\ Held(txTail, txHeader, data) # <<>>
      /\ Head(Held(txTail, txHeader, data)) = Whole(data[txTail + 1])
      /\ Held(Step(txTail), txHeader, data) = Tail(Held(txTail, txHeader, data))
      /\ Filled(Step(txTail), txHeader, data, Answer)
  BY <1>0, <1>2, <1>3, HeldDrops, SMTT(30)
<1>6. Whole(data[txTail + 1]) \in Answer
  BY <1>0, <1>2, <1>3, Distances, SMTT(30) DEF Filled
<1>7. txPc'["seL4"] = "unlock" /\ txPc'["Linux"] = txPc["Linux"] /\ txCnt'["Linux"] = txCnt["Linux"]
  BY <1>0, <1>1 DEF TxTypes, Zones
<1>8. Writes(txPc["Linux"], txMsg["Linux"], txCnt["Linux"], Step(txTail), txHeader, data, Answer)
  BY <1>0, <1>2, <1>3, EndsMove, Zenon DEF TxCopies
<1>9. Tx!Blank \in [1 .. BlockSize -> Message \cup {"none"}]
  BY DEF Tx!Blank, Tx!Chunk
<1>10. TxTypes'
  BY <1>0, <1>1, <1>4, <1>7, <1>9, ChannelAssumption, SMTT(30) DEF TxTypes, Zones
<1>11. TxCopies'
  BY <1>1, <1>4, <1>7, <1>8 DEF TxCopies, Reads
<1>12. Tx!Fifo!Get("seL4")
  BY <1>1, <1>4, <1>5, TxContents, Zenon DEF Tx!Fifo!Get, Tx!Fifo!Returns
<1> QED
  BY <1>1, <1>3, <1>4, <1>5, <1>6, <1>10, <1>11, <1>12, SMTT(30) DEF TxQueue, TxFifoStep, Tx!Fifo!Next

(* The call returns.                                                       *)
LEMMA TxUnlock ==
  ASSUME TxQueue, NEW z \in Zones, Tx!Unlock(z)
  PROVE  TxQueue' /\ TxFifoStep
<1>0. TxTypes /\ TxCopies /\ Filled(txTail, txHeader, data, Answer)
  BY DEF TxQueue
<1>1. /\ txPc[z] = "unlock" /\ txPc' = [txPc EXCEPT ![z] = "idle"]
      /\ txHeader' = txHeader /\ txTail' = txTail /\ data' = data
      /\ txMsg' = txMsg /\ txCnt' = txCnt /\ txBuf' = txBuf /\ txResult' = txResult
  BY DEF Tx!Unlock, Tx!Goto, Tx!locals
<1>2. TxTypes'
  BY <1>0, <1>1 DEF TxTypes, Zones
<1>3. \A y \in Zones : txPc'[y] \in {"enqueue", "dequeue"} => txPc'[y] = txPc[y]
  BY <1>0, <1>1, SMTT(30) DEF TxTypes, Zones
<1>4. TxCopies'
  BY <1>0, <1>1, <1>3 DEF TxCopies, Writes, Reads, Zones
<1>5. Tx!Contents' = Tx!Contents
  BY <1>1, TxContents
<1> QED
  BY <1>0, <1>1, <1>2, <1>4, <1>5 DEF TxQueue, TxFifoStep, Tx!Fifo!fifoVars

(* One producer and one consumer need no lock: whatever they interleave,   *)
(* a step of either is a step of the FIFO, or none.                        *)
LEMMA TxOwnStep ==
  ASSUME TxQueue, TxMove
  PROVE  TxQueue' /\ TxFifoStep
BY TxEnqueueCall, TxCopyIn, TxEnqueuePublish, TxReadCall, TxCopyOut, TxReadDone, TxUnlock, ZenonT(30) DEF TxMove

(* A step of the other queue that writes, if at all, a slot that is not    *)
(* between the ends, nor the one this queue's writer is at.                *)
LEMMA TxOtherStep ==
  ASSUME TxQueue, UNCHANGED txOnly, data' \in Regions,
         \/ data' = data
         \/ \E w \in Slot : /\ SameBut(data, data', w) /\ ~Between(txTail, txHeader, w)
                            /\ txPc["Linux"] = "enqueue" => txHeader # w
  PROVE  TxQueue' /\ TxFifoStep
<1>0. TxTypes /\ TxCopies /\ Filled(txTail, txHeader, data, Answer)
  BY DEF TxQueue
<1>1. /\ txHeader' = txHeader /\ txTail' = txTail /\ txPc' = txPc /\ txMsg' = txMsg
      /\ txCnt' = txCnt /\ txBuf' = txBuf /\ txResult' = txResult
      /\ txHeader \in Slot /\ txTail \in Slot
  BY <1>0 DEF txOnly, TxTypes
<1>2. TxTypes'
  BY <1>0, <1>1 DEF TxTypes
<1>3. CASE data' = data
  BY <1>0, <1>1, <1>2, <1>3, TxContents, SMTT(30) DEF TxQueue, TxCopies, TxFifoStep, Tx!Fifo!fifoVars
<1>4. ASSUME NEW w \in Slot, SameBut(data, data', w), ~Between(txTail, txHeader, w),
             txPc["Linux"] = "enqueue" => txHeader # w
      PROVE  TxQueue' /\ TxFifoStep
  <2>1. Held(txTail, txHeader, data') = Held(txTail, txHeader, data) /\ Filled(txTail, txHeader, data', Answer)
    BY <1>0, <1>1, <1>4, HeldStays
  <2>2. Reads(txPc["seL4"], txCnt["seL4"], txBuf["seL4"], txTail, txHeader, data')
    BY <1>0, <1>1, <1>4, WriteElsewhere, Zenon DEF TxCopies
  <2>3. Writes(txPc["Linux"], txMsg["Linux"], txCnt["Linux"], txTail, txHeader, data', Answer)
    <3>1. CASE txPc["Linux"] = "enqueue"
      BY <1>0, <1>1, <1>4, <3>1, WriteElsewhere, ZenonT(30) DEF TxCopies
    <3>2. CASE txPc["Linux"] # "enqueue"
      BY <3>2 DEF Writes
    <3> QED
      BY <3>1, <3>2
  <2>4. Tx!Contents' = Tx!Contents
    BY <1>1, <2>1, TxContents
  <2> QED
    BY <1>1, <1>2, <2>1, <2>2, <2>3, <2>4, SMTT(30) DEF TxQueue, TxCopies, TxFifoStep, Tx!Fifo!fifoVars
<1> QED
  BY <1>3, <1>4

-----------------------------------------------------------------------------
(* The two queues                                                          *)

\* From the slot of the next response to the oldest command it is g slots:
\* commands that were read and whose response is under way, or was dropped.
Layout(g) ==
  /\ g \in 0 .. Capacity
  /\ rxTail = Around(txHeader + g)
  /\ Dist(txTail, txHeader) + g + Dist(rxTail, rxHeader)
       + (IF rxPc["seL4"] = "enqueue" THEN 1 ELSE 0) <= outstanding
  /\ pending # "none" \/ txPc["Linux"] = "enqueue" => g > 0

Turns ==
  /\ pending \in Command \cup {"none"}
  /\ outstanding \in 0 .. Window
  /\ \A z \in Zones : rxPc[z] = "idle" \/ txPc[z] = "idle"
  /\ txPc["Linux"] = "enqueue" => pending = "none"

ChannelInv == RxQueue /\ TxQueue /\ Turns /\ \E g : Layout(g)

(* The writers never meet a slot in use by the other queue, nor each       *)
(* other: with at most Capacity commands outstanding there is a slot for   *)
(* every command and its response.                                         *)
LEMMA WritersApart ==
  ASSUME Window <= Capacity, ChannelInv
  PROVE  /\ rxPc["seL4"] = "enqueue" => ~Between(txTail, txHeader, rxHeader)
         /\ txPc["Linux"] = "enqueue" => ~Between(rxTail, rxHeader, txHeader)
         /\ rxPc["seL4"] = "enqueue" /\ txPc["Linux"] = "enqueue" => rxHeader # txHeader
<1>1. PICK g : Layout(g)
  BY SMTT(30) DEF ChannelInv
<1>2. /\ rxHeader \in Slot /\ rxTail \in Slot /\ txHeader \in Slot /\ txTail \in Slot
      /\ outstanding \in Nat /\ outstanding <= Capacity
  BY ChannelAssumption DEF ChannelInv, RxQueue, TxQueue, RxTypes, TxTypes, Turns
<1>3. ASSUME rxPc["seL4"] = "enqueue"
      PROVE  ~Between(txTail, txHeader, rxHeader)
  <2>1. Dist(txTail, txHeader) + g + Dist(rxTail, rxHeader) + 1 <= Capacity
    BY <1>1, <1>2, <1>3, Distances, ChannelAssumption, SMTT(30) DEF Layout
  <2> QED
    BY <1>1, <1>2, <2>1, ChannelAssumption, SMTT(30) DEF Layout, Dist, Between, Around, Slot
<1>4. ASSUME txPc["Linux"] = "enqueue"
      PROVE  ~Between(rxTail, rxHeader, txHeader)
  <2>1. Dist(txTail, txHeader) + g + Dist(rxTail, rxHeader) <= Capacity /\ g > 0
    BY <1>1, <1>2, <1>4, Distances, ChannelAssumption, SMTT(30) DEF Layout
  <2> QED
    BY <1>1, <1>2, <2>1, ChannelAssumption, SMTT(30) DEF Layout, Dist, Between, Around, Slot
<1>5. ASSUME rxPc["seL4"] = "enqueue", txPc["Linux"] = "enqueue"
      PROVE  rxHeader # txHeader
  <2>1. Dist(txTail, txHeader) + g + Dist(rxTail, rxHeader) + 1 <= Capacity /\ g > 0
    BY <1>1, <1>2, <1>5, Distances, ChannelAssumption DEF Layout
  <2> QED
    BY <1>1, <1>2, <2>1, ChannelAssumption, SMTT(30) DEF Layout, Dist, Around, Slot
<1> QED
  BY <1>3, <1>4, <1>5

(* Every step is a step on one of the queues.                              *)
LEMMA StepKinds ==
  ASSUME ChannelInv, Next
  PROVE  (RxMove /\ UNCHANGED txOnly) \/ (TxMove /\ UNCHANGED rxOnly)
<1>0. /\ rxPc["seL4"] \notin {"dequeue", "peek"} /\ rxPc["Linux"] # "enqueue"
      /\ txPc["Linux"] \notin {"dequeue", "peek"} /\ txPc["seL4"] # "enqueue"
      /\ pending \in Command \cup {"none"}
  BY DEF ChannelInv, RxQueue, TxQueue, RxTypes, TxTypes, Turns, Zones
<1>1. ASSUME NEW c \in Command, FrontendCommand(c)
      PROVE  RxMove /\ UNCHANGED txOnly
  BY <1>1, Zenon DEF FrontendCommand, RxMove
<1>2. CASE FrontendPoll
  BY <1>2, Zenon DEF FrontendPoll, TxMove, Tx!ReadCall
<1>3. CASE FrontendGot
  BY <1>3, Zenon DEF FrontendGot, TxMove
<1>4. CASE BackendPoll
  BY <1>4, Zenon DEF BackendPoll, RxMove, Rx!ReadCall
<1>5. CASE BackendGot
  BY <1>5, Zenon DEF BackendGot, RxMove
<1>6. CASE BackendReply
  <2>1. pending \in Command /\ Reply(pending) \in Answer
    BY <1>0, <1>6 DEF BackendReply, Reply, Answer
  <2> QED
    BY <1>6, <2>1, Zenon DEF BackendReply, TxMove
<1>7. ASSUME NEW z \in Zones, RxStep(z), UNCHANGED <<txOnly, pending, outstanding>>
      PROVE  RxMove /\ UNCHANGED txOnly
  <2>1. Rx!CopyIn(z) \/ Rx!EnqueuePublish(z) => z = "seL4"
    BY <1>0 DEF Zones, Rx!CopyIn, Rx!EnqueuePublish, Rx!Goto
  <2>2. Rx!CopyOut(z) => z = "Linux"
    BY <1>0 DEF Zones, Rx!CopyOut
  <2> QED
    BY <1>7, <2>1, <2>2, Zenon DEF RxStep, RxMove
<1>8. ASSUME NEW z \in Zones, TxStep(z), UNCHANGED <<rxOnly, pending, outstanding>>
      PROVE  TxMove /\ UNCHANGED rxOnly
  <2>1. Tx!CopyIn(z) \/ Tx!EnqueuePublish(z) => z = "Linux"
    BY <1>0 DEF Zones, Tx!CopyIn, Tx!EnqueuePublish, Tx!Goto
  <2>2. Tx!CopyOut(z) => z = "seL4"
    BY <1>0 DEF Zones, Tx!CopyOut
  <2> QED
    BY <1>8, <2>1, <2>2, Zenon DEF TxStep, TxMove
<1> QED
  BY <1>1, <1>2, <1>3, <1>4, <1>5, <1>6, <1>7, <1>8, ZenonT(30) DEF Next, Zones

(* A step on one queue leaves the data region as it is, or it copies a     *)
(* chunk to the slot of that queue's writer.                               *)
LEMMA RxData ==
  ASSUME RxQueue, RxMove
  PROVE  data' = data \/ (rxPc["seL4"] = "enqueue" /\ SameBut(data, data', rxHeader))
<1>1. CASE Rx!CopyIn("seL4")
  BY <1>1, RxCopyIn DEF Rx!CopyIn
<1>2. CASE ~Rx!CopyIn("seL4")
  BY <1>2, Zenon DEF RxMove, Rx!EnqueueRoom, Rx!EnqueueFull, Rx!EnqueuePublish, Rx!ReadEmpty, Rx!ReadBegin,
                     Rx!CopyOut, Rx!ReadDone, Rx!Unlock
<1> QED
  BY <1>1, <1>2

LEMMA TxData ==
  ASSUME TxQueue, TxMove
  PROVE  data' = data \/ (txPc["Linux"] = "enqueue" /\ SameBut(data, data', txHeader))
<1>1. CASE Tx!CopyIn("Linux")
  BY <1>1, TxCopyIn DEF Tx!CopyIn
<1>2. CASE ~Tx!CopyIn("Linux")
  BY <1>2, Zenon DEF TxMove, Tx!EnqueueRoom, Tx!EnqueueFull, Tx!EnqueuePublish, Tx!ReadEmpty, Tx!ReadBegin,
                     Tx!CopyOut, Tx!ReadDone, Tx!Unlock
<1> QED
  BY <1>1, <1>2

(* Every step is a step of each FIFO, or none, and leaves both queues in   *)
(* order.                                                                  *)
LEMMA QueuesKept ==
  ASSUME Window <= Capacity, ChannelInv, Next
  PROVE  RxQueue' /\ TxQueue' /\ RxFifoStep /\ TxFifoStep
<1>0. RxQueue /\ TxQueue
  BY DEF ChannelInv
<1>s. rxHeader \in Slot /\ txHeader \in Slot
  BY <1>0 DEF RxQueue, TxQueue, RxTypes, TxTypes
<1>1. CASE RxMove /\ UNCHANGED txOnly
  <2>1. RxQueue' /\ RxFifoStep
    BY <1>0, <1>1, RxOwnStep
  <2>2. data' \in Regions
    BY <2>1 DEF RxQueue, RxTypes
  <2>3. data' = data \/ (rxPc["seL4"] = "enqueue" /\ SameBut(data, data', rxHeader))
    BY <1>0, <1>1, RxData
  <2>4. \/ data' = data
        \/ \E w \in Slot : /\ SameBut(data, data', w) /\ ~Between(txTail, txHeader, w)
                           /\ txPc["Linux"] = "enqueue" => txHeader # w
    BY <1>s, <2>3, WritersApart, Zenon
  <2>5. TxQueue' /\ TxFifoStep
    BY <1>0, <1>1, <2>2, <2>4, TxOtherStep
  <2> QED
    BY <2>1, <2>5
<1>2. CASE TxMove /\ UNCHANGED rxOnly
  <2>1. TxQueue' /\ TxFifoStep
    BY <1>0, <1>2, TxOwnStep
  <2>2. data' \in Regions
    BY <2>1 DEF TxQueue, TxTypes
  <2>3. data' = data \/ (txPc["Linux"] = "enqueue" /\ SameBut(data, data', txHeader))
    BY <1>0, <1>2, TxData
  <2>4. \/ data' = data
        \/ \E w \in Slot : /\ SameBut(data, data', w) /\ ~Between(rxTail, rxHeader, w)
                           /\ rxPc["seL4"] = "enqueue" => rxHeader # w
    BY <1>s, <2>3, WritersApart, Zenon
  <2>5. RxQueue' /\ RxFifoStep
    BY <1>0, <1>2, <2>2, <2>4, RxOtherStep, SMTT(30)
  <2> QED
    BY <2>1, <2>5
<1> QED
  BY <1>1, <1>2, StepKinds

(* A bound that grows by what one summand grows.                           *)
LEMMA Slack ==
  ASSUME NEW x \in Nat, NEW g \in Nat, NEW y \in Nat, NEW a \in Nat, NEW b \in Nat, NEW o \in Nat, NEW p \in Nat,
         x + g + y + a <= o, b + o <= a + p
  PROVE  x + g + y + b <= p
OBVIOUS

(* The ends of the two queues, and what is outstanding, in every step.     *)
LEMMA LayoutKept ==
  ASSUME Window <= Capacity, ChannelInv, Next
  PROVE  Turns' /\ \E g : Layout(g)'
<1>0. RxQueue /\ TxQueue /\ Turns /\ RxTypes /\ TxTypes
  BY DEF ChannelInv, RxQueue, TxQueue
<1>t. /\ rxHeader \in Slot /\ rxTail \in Slot /\ txHeader \in Slot /\ txTail \in Slot
      /\ rxPc \in [Zones -> {"idle", "enqueue", "dequeue", "unlock"}]
      /\ txPc \in [Zones -> {"idle", "enqueue", "dequeue", "unlock"}]
      /\ rxPc["Linux"] # "enqueue" /\ txPc["seL4"] # "enqueue"
      /\ pending \in Command \cup {"none"} /\ outstanding \in 0 .. Window
      /\ \A z \in Zones : rxPc[z] = "idle" \/ txPc[z] = "idle"
      /\ txPc["Linux"] = "enqueue" => pending = "none"
      /\ Window \in Nat /\ Capacity \in Nat \ {0}
  BY <1>0, ChannelAssumption DEF RxTypes, TxTypes, Turns
<1>g. PICK g : Layout(g)
  BY DEF ChannelInv
<1>d. /\ Dist(txTail, txHeader) \in Nat /\ Dist(rxTail, rxHeader) \in Nat /\ g \in 0 .. Capacity
      /\ Dist(txTail, txHeader) + g + Dist(rxTail, rxHeader) <= outstanding
  BY <1>t, <1>g, Distances DEF Layout
<1>u. ASSUME rxHeader' = rxHeader, rxTail' = rxTail, txHeader' = txHeader, txTail' = txTail,
             outstanding' >= outstanding, outstanding' \in 0 .. Window,
             (IF rxPc'["seL4"] = "enqueue" THEN 1 ELSE 0) + outstanding
               <= (IF rxPc["seL4"] = "enqueue" THEN 1 ELSE 0) + outstanding',
             pending' # "none" \/ txPc'["Linux"] = "enqueue" => pending # "none" \/ txPc["Linux"] = "enqueue"
      PROVE  Layout(g)'
  <2>1. Dist(txTail, txHeader)' = Dist(txTail, txHeader) /\ Dist(rxTail, rxHeader)' = Dist(rxTail, rxHeader)
    BY <1>u DEF Dist
  <2>2. /\ rxTail = Around(txHeader + g)
        /\ Dist(txTail, txHeader) + g + Dist(rxTail, rxHeader)
             + (IF rxPc["seL4"] = "enqueue" THEN 1 ELSE 0) <= outstanding
        /\ pending # "none" \/ txPc["Linux"] = "enqueue" => g > 0
    BY <1>g DEF Layout
  <2>3. (rxTail = Around(txHeader + g))'
    BY <1>u, <2>2, Zenon DEF Around
  <2>4. Dist(txTail, txHeader) + g + Dist(rxTail, rxHeader)
          + (IF rxPc'["seL4"] = "enqueue" THEN 1 ELSE 0) <= outstanding'
    <3>1. outstanding \in Nat /\ outstanding' \in Nat /\ g \in Nat
      BY <1>t, <1>d, <1>u
    <3>2. PICK a, b \in Nat : /\ a = (IF rxPc["seL4"] = "enqueue" THEN 1 ELSE 0)
                             /\ b = (IF rxPc'["seL4"] = "enqueue" THEN 1 ELSE 0)
      OBVIOUS
    <3>3. b + outstanding <= a + outstanding'
      BY <1>u, <3>2
    <3>4. Dist(txTail, txHeader) + g + Dist(rxTail, rxHeader) + a <= outstanding
      BY <2>2, <3>2
    <3>5. Dist(txTail, txHeader) + g + Dist(rxTail, rxHeader) + b <= outstanding'
      <4>1. PICK x, y \in Nat : x = Dist(txTail, txHeader) /\ y = Dist(rxTail, rxHeader)
        BY <1>d, Zenon
      <4>2. x + g + y + a <= outstanding
        BY <3>4, <4>1, Zenon
      <4>3. x + g + y + b <= outstanding'
        BY <3>1, <3>3, <4>2, Slack, Zenon
      <4> QED
        BY <4>1, <4>3, Zenon
    <3> QED
      BY <3>2, <3>5, Zenon
  <2>5. (pending # "none" \/ txPc["Linux"] = "enqueue" => g > 0)'
    BY <1>u, <2>2
  <2> QED
    BY <1>d, <2>1, <2>3, <2>4, <2>5, SMTT(30) DEF Layout
<1>1. ASSUME NEW c \in Command, FrontendCommand(c)
      PROVE  Turns' /\ Layout(g)'
  <2>1. /\ rxHeader' = rxHeader /\ rxTail' = rxTail /\ txHeader' = txHeader /\ txTail' = txTail
        /\ txPc' = txPc /\ pending' = pending /\ rxPc["seL4"] = "idle" /\ txPc["seL4"] = "idle"
        /\ outstanding < Window
    BY <1>1 DEF FrontendCommand, Idle, txOnly, Rx!EnqueueRoom, Rx!EnqueueFull
  <2>2. \/ rxPc' = [rxPc EXCEPT !["seL4"] = "enqueue"] /\ outstanding' = outstanding + 1
        \/ rxPc' = [rxPc EXCEPT !["seL4"] = "unlock"] /\ outstanding' = outstanding
    BY <1>1 DEF FrontendCommand, Rx!EnqueueRoom, Rx!EnqueueFull, Rx!Goto
  <2>3. /\ outstanding' >= outstanding /\ outstanding' \in 0 .. Window
        /\ (IF rxPc'["seL4"] = "enqueue" THEN 1 ELSE 0) + outstanding
             <= (IF rxPc["seL4"] = "enqueue" THEN 1 ELSE 0) + outstanding'
    BY <1>t, <2>1, <2>2 DEF Zones
  <2>4. \A z \in Zones : rxPc'[z] = "idle" \/ txPc'[z] = "idle"
    BY <1>t, <2>1, <2>2 DEF Zones
  <2>5. Turns'
    BY <1>t, <2>1, <2>3, <2>4, Zenon DEF Turns
  <2> QED
    BY <1>u, <2>1, <2>3, <2>5, SMTT(30)
<1>2. CASE FrontendPoll
  <2>1. /\ rxHeader' = rxHeader /\ rxTail' = rxTail /\ txHeader' = txHeader /\ txTail' = txTail
        /\ rxPc' = rxPc /\ pending' = pending /\ outstanding' = outstanding /\ rxPc["seL4"] = "idle"
    BY <1>2 DEF FrontendPoll, Idle, rxOnly, Tx!ReadCall, Tx!ReadEmpty, Tx!ReadBegin
  <2>2. \E to \in {"dequeue", "unlock"} : txPc' = [txPc EXCEPT !["seL4"] = to]
    BY <1>2 DEF FrontendPoll, Tx!ReadCall, Tx!ReadEmpty, Tx!ReadBegin, Tx!Goto
  <2>3. txPc'["Linux"] = txPc["Linux"] /\ \A z \in Zones : rxPc'[z] = "idle" \/ txPc'[z] = "idle"
    BY <1>t, <2>1, <2>2 DEF Zones
  <2>4. Turns'
    BY <1>t, <2>1, <2>3, Zenon DEF Turns
  <2> QED
    BY <1>t, <1>u, <2>1, <2>3, <2>4, SMTT(30)
<1>3. CASE FrontendGot
  <2>1. /\ Tx!ReadDone("seL4", "dequeue") /\ rxHeader' = rxHeader /\ rxTail' = rxTail
        /\ rxPc' = rxPc /\ pending' = pending /\ txHeader' = txHeader
        /\ txPc["seL4"] = "dequeue" /\ txPc' = [txPc EXCEPT !["seL4"] = "unlock"]
    BY <1>3 DEF FrontendGot, rxOnly, Tx!ReadDone, Tx!Goto
  <2>2. txTail # txHeader /\ txTail' = Step(txTail) /\ Tx!Decode(txBuf["seL4"]) \in Answer
    BY <1>0, <2>1, TxReadDone, SMTT(30)
  <2>3. Dist(txTail', txHeader) = Dist(txTail, txHeader) - 1 /\ Dist(txTail, txHeader) > 0
    BY <1>t, <1>d, <2>2, Distances, SMTT(30)
  <2>4. outstanding' = outstanding - 1 /\ outstanding > 0
    BY <1>3, <1>t, <1>d, <2>2, <2>3, SMTT(30) DEF FrontendGot, Answer
  <2>5. txPc'["Linux"] = txPc["Linux"] /\ \A z \in Zones : rxPc'[z] = "idle" \/ txPc'[z] = "idle"
    BY <1>t, <2>1 DEF Zones
  <2>6. outstanding' \in 0 .. Window
    BY <1>t, <2>4
  <2>7. Turns'
    BY <1>t, <2>1, <2>5, <2>6, ZenonT(30) DEF Turns
  <2>8. Layout(g)'
    BY <1>g, <1>t, <1>d, <2>1, <2>3, <2>4, <2>5, SMTT(30) DEF Layout, Around
  <2> QED
    BY <2>7, <2>8
<1>4. CASE BackendPoll
  <2>1. /\ rxHeader' = rxHeader /\ rxTail' = rxTail /\ txHeader' = txHeader /\ txTail' = txTail
        /\ txPc' = txPc /\ pending' = pending /\ outstanding' = outstanding /\ txPc["Linux"] = "idle"
    BY <1>4 DEF BackendPoll, Idle, txOnly, Rx!ReadCall, Rx!ReadEmpty, Rx!ReadBegin
  <2>2. \E to \in {"dequeue", "unlock"} : rxPc' = [rxPc EXCEPT !["Linux"] = to]
    BY <1>4 DEF BackendPoll, Rx!ReadCall, Rx!ReadEmpty, Rx!ReadBegin, Rx!Goto
  <2>3. rxPc'["seL4"] = rxPc["seL4"] /\ \A z \in Zones : rxPc'[z] = "idle" \/ txPc'[z] = "idle"
    BY <1>t, <2>1, <2>2 DEF Zones
  <2>4. Turns'
    BY <1>t, <2>1, <2>3, Zenon DEF Turns
  <2> QED
    BY <1>t, <1>u, <2>1, <2>3, <2>4, SMTT(30)
<1>5. CASE BackendGot
  <2>1. /\ Rx!ReadDone("Linux", "dequeue") /\ txHeader' = txHeader /\ txTail' = txTail
        /\ txPc' = txPc /\ outstanding' = outstanding /\ rxHeader' = rxHeader
        /\ rxPc["Linux"] = "dequeue" /\ rxPc' = [rxPc EXCEPT !["Linux"] = "unlock"]
    BY <1>5 DEF BackendGot, txOnly, Rx!ReadDone, Rx!Goto
  <2>2. rxTail # rxHeader /\ rxTail' = Step(rxTail) /\ Rx!Decode(rxBuf["Linux"]) \in Command
    BY <1>0, <2>1, RxReadDone, SMTT(30)
  <2>3. Dist(rxTail', rxHeader) = Dist(rxTail, rxHeader) - 1 /\ Dist(rxTail, rxHeader) > 0
    BY <1>t, <1>d, <2>2, Distances
  <2>4. pending' \in Command
    BY <1>5, <2>2 DEF BackendGot
  <2>5. /\ rxPc'["seL4"] = rxPc["seL4"] /\ txPc["Linux"] = "idle"
        /\ \A z \in Zones : rxPc'[z] = "idle" \/ txPc'[z] = "idle"
    BY <1>t, <2>1 DEF Zones
  <2>6. Turns'
    BY <1>t, <2>1, <2>4, <2>5, ZenonT(30) DEF Turns
  <2>7. g + 1 \in 0 .. Capacity
    BY <1>t, <1>d, <2>3, SMTT(30)
  <2>8. rxTail' = Around(txHeader + (g + 1))
    BY <1>g, <1>t, <2>2, <2>7, SMTT(30) DEF Layout, Around, Step, Slot
  <2>9. Dist(txTail, txHeader) + g + Dist(rxTail, rxHeader)
          + (IF rxPc["seL4"] = "enqueue" THEN 1 ELSE 0) <= outstanding
    BY <1>g, SMTT(30) DEF Layout
  <2>10. Layout(g + 1)'
    BY <1>t, <1>d, <2>1, <2>3, <2>5, <2>7, <2>8, <2>9, SMTT(30) DEF Layout
  <2> QED
    BY <2>6, <2>10
<1>6. CASE BackendReply
  <2>1. /\ rxHeader' = rxHeader /\ rxTail' = rxTail /\ txHeader' = txHeader /\ txTail' = txTail
        /\ rxPc' = rxPc /\ outstanding' = outstanding /\ pending # "none" /\ pending' = "none"
        /\ rxPc["Linux"] = "idle"
    BY <1>6 DEF BackendReply, Idle, rxOnly, Tx!EnqueueRoom, Tx!EnqueueFull
  <2>2. \E to \in {"enqueue", "unlock"} : txPc' = [txPc EXCEPT !["Linux"] = to]
    BY <1>6 DEF BackendReply, Tx!EnqueueRoom, Tx!EnqueueFull, Tx!Goto
  <2>3. \A z \in Zones : rxPc'[z] = "idle" \/ txPc'[z] = "idle"
    BY <1>t, <2>1, <2>2 DEF Zones
  <2>4. Turns'
    BY <1>t, <2>1, <2>3, Zenon DEF Turns
  <2> QED
    BY <1>t, <1>u, <2>1, <2>4, SMTT(30)
<1>7. ASSUME NEW z \in Zones, RxStep(z), UNCHANGED <<txOnly, pending, outstanding>>
      PROVE  Turns' /\ Layout(g)'
  <2>1. txHeader' = txHeader /\ txTail' = txTail /\ txPc' = txPc /\ pending' = pending /\ outstanding' = outstanding
    BY <1>7, SMTT(30) DEF txOnly
  <2>2. rxTail' = rxTail
    BY <1>7, SMTT(30) DEF RxStep, Rx!CopyIn, Rx!EnqueuePublish, Rx!CopyOut, Rx!Unlock
  <2>3. \A y \in Zones : rxPc'[y] = rxPc[y] \/ (rxPc[y] # "idle" /\ rxPc'[y] \in {"idle", "unlock"})
    BY <1>7, <1>t DEF RxStep, Rx!CopyIn, Rx!EnqueuePublish, Rx!CopyOut, Rx!Unlock, Rx!Goto, Zones
  <2>4. Turns'
    BY <1>t, <2>1, <2>3, Zenon DEF Turns
  <2>5. CASE Rx!EnqueuePublish(z)
    <3>1. rxPc["seL4"] = "enqueue" /\ rxPc'["seL4"] = "unlock" /\ z = "seL4"
      BY <1>t, <2>5 DEF Rx!EnqueuePublish, Rx!Goto, Zones
    <3>2. Step(rxHeader) # rxTail /\ rxHeader' = Step(rxHeader)
      BY <1>0, <2>5, <3>1, RxEnqueuePublish, SMTT(30)
    <3>3. Dist(rxTail, rxHeader') = Dist(rxTail, rxHeader) + 1
      BY <1>t, <3>2, Distances, SMTT(30)
    <3>4. Layout(g)'
      BY <1>g, <1>t, <1>d, <2>1, <2>2, <3>1, <3>3, SMTT(30) DEF Layout, Around
    <3> QED
      BY <2>4, <3>4, SMTT(30)
  <2>6. CASE ~Rx!EnqueuePublish(z)
    <3>1. rxHeader' = rxHeader
      BY <1>7, <2>6 DEF RxStep, Rx!CopyIn, Rx!CopyOut, Rx!Unlock
    <3>2. rxPc'["seL4"] = "enqueue" => rxPc["seL4"] = "enqueue"
      BY <2>3 DEF Zones
    <3> QED
      BY <1>t, <1>u, <2>1, <2>2, <2>4, <3>1, <3>2, SMTT(30)
  <2> QED
    BY <2>5, <2>6
<1>8. ASSUME NEW z \in Zones, TxStep(z), UNCHANGED <<rxOnly, pending, outstanding>>
      PROVE  Turns' /\ \E h : Layout(h)'
  <2>1. rxHeader' = rxHeader /\ rxTail' = rxTail /\ rxPc' = rxPc /\ pending' = pending /\ outstanding' = outstanding
    BY <1>8 DEF rxOnly
  <2>2. txTail' = txTail
    BY <1>8 DEF TxStep, Tx!CopyIn, Tx!EnqueuePublish, Tx!CopyOut, Tx!Unlock
  <2>3. \A y \in Zones : txPc'[y] = txPc[y] \/ (txPc[y] # "idle" /\ txPc'[y] \in {"idle", "unlock"})
    BY <1>8, <1>t DEF TxStep, Tx!CopyIn, Tx!EnqueuePublish, Tx!CopyOut, Tx!Unlock, Tx!Goto, Zones
  <2>4. txPc'["Linux"] = "enqueue" => txPc["Linux"] = "enqueue"
    BY <2>3 DEF Zones
  <2>5. Turns'
    BY <1>t, <2>1, <2>3, <2>4, Zenon DEF Turns
  <2>6. CASE Tx!EnqueuePublish(z)
    <3>1. txPc["Linux"] = "enqueue" /\ txPc'["Linux"] = "unlock" /\ z = "Linux" /\ pending = "none"
      BY <1>t, <2>6 DEF Tx!EnqueuePublish, Tx!Goto, Zones
    <3>2. Step(txHeader) # txTail /\ txHeader' = Step(txHeader)
      BY <1>0, <2>6, <3>1, TxEnqueuePublish, SMTT(30)
    <3>3. Dist(txTail, txHeader') = Dist(txTail, txHeader) + 1
      BY <1>t, <3>2, Distances, SMTT(30)
    <3>4. g > 0 /\ g - 1 \in 0 .. Capacity
      BY <1>g, <1>t, <1>d, <3>1, SMTT(30) DEF Layout
    <3>5. rxTail = Around(txHeader' + (g - 1))
      BY <1>g, <1>t, <1>d, <3>2, <3>4, SMTT(30) DEF Layout, Around, Step, Slot
    <3>6. Dist(txTail, txHeader) + g + Dist(rxTail, rxHeader)
            + (IF rxPc["seL4"] = "enqueue" THEN 1 ELSE 0) <= outstanding
      BY <1>g, SMTT(30) DEF Layout
    <3>7. Layout(g - 1)'
      BY <1>t, <1>d, <2>1, <2>2, <3>1, <3>3, <3>4, <3>5, <3>6, SMTT(30) DEF Layout
    <3> QED
      BY <2>5, <3>7
  <2>7. CASE ~Tx!EnqueuePublish(z)
    <3>1. txHeader' = txHeader
      BY <1>8, <2>7 DEF TxStep, Tx!CopyIn, Tx!CopyOut, Tx!Unlock
    <3>2. Layout(g)'
      BY <1>t, <1>u, <2>1, <2>2, <2>4, <3>1, SMTT(30)
    <3> QED
      BY <2>5, <3>2, SMTT(30)
  <2> QED
    BY <2>6, <2>7, SMTT(30)
<1> QED
  BY <1>1, <1>2, <1>3, <1>4, <1>5, <1>6, <1>7, <1>8, ZenonT(30) DEF Next, Zones

(* The queues start empty, and the first response goes to the slot of the  *)
(* first command.                                                          *)
LEMMA ChannelInitially ==
  ASSUME Init
  PROVE  ChannelInv /\ Rx!Fifo!Init /\ Tx!Fifo!Init
<1>0. Capacity \in Nat \ {0} /\ BlockSize \in Nat \ {0} /\ Window \in Nat
  BY ChannelAssumption
<1>1. Rx!Init /\ Tx!Init /\ pending = "none" /\ outstanding = 0
  BY DEF Init
<1>2. data \in Regions /\ 0 \in Slot
  BY <1>0, <1>1 DEF Rx!Init, Rx!Block, Rx!Blank, Rx!Chunk, Regions, Slot
<1>3. RxTypes
  BY <1>0, <1>1, <1>2, SMTT(30) DEF Rx!Init, RxTypes, Rx!Blank, Rx!Chunk, Zones
<1>4. TxTypes
  BY <1>0, <1>1, <1>2 DEF Tx!Init, TxTypes, Tx!Blank, Tx!Chunk, Zones
<1>5. rxHeader = 0 /\ rxTail = 0 /\ txHeader = 0 /\ txTail = 0
  BY <1>1 DEF Rx!Init, Tx!Init
<1>6. /\ rxPc = [z \in Zones |-> "idle"] /\ txPc = [z \in Zones |-> "idle"]
      /\ rxResult = [z \in Zones |-> "OK"] /\ txResult = [z \in Zones |-> "OK"]
  BY <1>1 DEF Rx!Init, Tx!Init, Zones
<1>7. ~\E i \in Slot : Between(0, 0, i)
  BY <1>0 DEF Slot, Between
<1>8. Filled(rxTail, rxHeader, data, Command) /\ Filled(txTail, txHeader, data, Answer)
  BY <1>5, <1>7, SMTT(30) DEF Filled
<1>9. RxCopies /\ TxCopies
  BY <1>6 DEF RxCopies, TxCopies, Writes, Reads, Zones
<1>10. Turns
  BY <1>0, <1>1, <1>6 DEF Turns, Zones
<1>11. Layout(0)
  BY <1>0, <1>1, <1>5, <1>6, SMTT(30) DEF Layout, Around, Dist, Zones
<1>12. Rx!Contents = <<>> /\ Tx!Contents = <<>>
  BY <1>2, <1>5, <1>8, RxContents, TxContents, HeldType, SMTT(30)
<1>13. Rx!Fifo!Init /\ Tx!Fifo!Init
  BY <1>6, <1>12 DEF Rx!Fifo!Init, Tx!Fifo!Init, Zones
<1> QED
  BY <1>3, <1>4, <1>8, <1>9, <1>10, <1>11, <1>13, SMTT(30) DEF ChannelInv, RxQueue, TxQueue

LEMMA ChannelStep ==
  ASSUME Window <= Capacity, ChannelInv, [Next]_vars
  PROVE  ChannelInv' /\ RxFifoStep /\ TxFifoStep
<1>1. CASE Next
  BY <1>1, QueuesKept, LayoutKept, Zenon DEF ChannelInv
<1>2. CASE UNCHANGED vars
  <2>1. UNCHANGED rxOnly /\ UNCHANGED txOnly /\ data' = data /\ pending' = pending /\ outstanding' = outstanding
    BY <1>2, SMTT(30) DEF vars
  <2>2. RxQueue /\ TxQueue /\ data' \in Regions
    BY <2>1 DEF ChannelInv, RxQueue, RxTypes
  <2>3. RxQueue' /\ RxFifoStep
    BY <2>1, <2>2, RxOtherStep
  <2>4. TxQueue' /\ TxFifoStep
    BY <2>1, <2>2, TxOtherStep, SMTT(30)
  <2>5. Turns' /\ \E g : Layout(g)'
    BY <2>1 DEF ChannelInv, Turns, Layout, rxOnly, txOnly
  <2> QED
    BY <2>3, <2>4, <2>5, Zenon DEF ChannelInv
<1> QED
  BY <1>1, <1>2

-----------------------------------------------------------------------------
(* Commands: what the backend reads with rx_queue_get is what the frontend *)
(* sent, each command once and in order, and HYPERAMP_AGAIN is the truth,  *)
(* although the responses are written to the same slots and in the build   *)
(* whose lock does not exclude: as long as the frontend has at most        *)
(* Capacity commands outstanding.                                          *)
THEOREM CommandsAreFifo ==
  ASSUME Window <= Capacity
  PROVE  Spec => RxIsFifo
<1>1. Init => ChannelInv /\ Rx!Fifo!Init
  BY ChannelInitially
<1>2. ChannelInv /\ [Next]_vars => ChannelInv' /\ [Rx!Fifo!Next]_(Rx!Fifo!fifoVars)
  BY ChannelStep DEF RxFifoStep
<1> QED
  BY <1>1, <1>2, PTL DEF Spec, RxIsFifo, Rx!ImplementsFifo, Rx!Fifo!Spec

(* Responses: what the frontend reads is what the backend answered, under  *)
(* the same condition.                                                     *)
THEOREM ResponsesAreFifo ==
  ASSUME Window <= Capacity
  PROVE  Spec => TxIsFifo
<1>1. Init => ChannelInv /\ Tx!Fifo!Init
  BY ChannelInitially
<1>2. ChannelInv /\ [Next]_vars => ChannelInv' /\ [Tx!Fifo!Next]_(Tx!Fifo!fifoVars)
  BY ChannelStep DEF TxFifoStep
<1> QED
  BY <1>1, <1>2, PTL DEF Spec, TxIsFifo, Tx!ImplementsFifo, Tx!Fifo!Spec
=============================================================================
