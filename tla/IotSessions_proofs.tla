------------------------ MODULE IotSessions_proofs ------------------------
(***************************************************************************)
(* Proofs about the IoT sessions for any configuration, any messages and   *)
(* packets, any room in the TX queue and any failures: messages reach the  *)
(* devices in order and within their limits, packets reach the frontend in *)
(* order, and no Modbus request is answered twice.                         *)
(***************************************************************************)
EXTENDS IotSessions, TLAPS

\* y is q with x at its end; y is q without its first element x.
Longer(q, x, y) ==
  /\ DOMAIN y \subseteq Nat /\ DOMAIN q \subseteq DOMAIN y
  /\ \E e \in DOMAIN y : /\ y[e] = x /\ e \notin DOMAIN q
                         /\ \A i \in DOMAIN q : i < e /\ y[i] = q[i]
                         /\ \A i \in DOMAIN y : i \in DOMAIN q \/ i = e

Shorter(q, x, y) ==
  /\ DOMAIN q \subseteq Nat /\ DOMAIN y \subseteq Nat /\ 1 \in DOMAIN q /\ x = q[1]
  /\ \A i \in DOMAIN y : i + 1 \in DOMAIN q /\ y[i] = q[i + 1] /\ 1 < i + 1
  /\ \A i \in DOMAIN q : i = 1 \/ (i - 1 \in DOMAIN y /\ y[i - 1] = q[i])

(* The elements of a sequence with one more at its end.                    *)
LEMMA AppendFacts ==
  ASSUME NEW S, NEW q \in Seq(S), NEW x \in S, NEW y, y = Append(q, x)
  PROVE  y \in Seq(S) /\ Longer(q, x, y)
<1>1. y \in Seq(S) /\ Len(y) = Len(q) + 1 /\ Len(q) \in Nat
  OBVIOUS
<1>2. DOMAIN q = 1 .. Len(q) /\ DOMAIN y = 1 .. Len(q) + 1
  BY <1>1
<1>3. y[Len(q) + 1] = x /\ \A i \in 1 .. Len(q) : y[i] = q[i]
  BY <1>1
<1>4. PICK e : e = Len(q) + 1
  BY Zenon
<1>5. e \in DOMAIN y /\ y[e] = x /\ e \notin DOMAIN q
  BY <1>1, <1>2, <1>3, <1>4
<1>6. \A i \in DOMAIN q : i < e /\ y[i] = q[i]
  BY <1>1, <1>2, <1>3, <1>4
<1>7. \A i \in DOMAIN y : i \in DOMAIN q \/ i = e
  BY <1>1, <1>2, <1>4
<1>8. DOMAIN y \subseteq Nat /\ DOMAIN q \subseteq DOMAIN y
  BY <1>1, <1>2
<1> QED
  BY <1>1, <1>5, <1>6, <1>7, <1>8, Zenon DEF Longer

(* The elements of a sequence without its first.                           *)
LEMMA TailFacts ==
  ASSUME NEW S, NEW q \in Seq(S), q # <<>>, NEW y, y = Tail(q)
  PROVE  y \in Seq(S) /\ Head(q) \in S /\ Shorter(q, Head(q), y)
<1>1. y \in Seq(S) /\ Len(y) = Len(q) - 1 /\ Len(q) \in Nat \ {0}
  OBVIOUS
<1>2. DOMAIN q = 1 .. Len(q) /\ DOMAIN y = 1 .. Len(q) - 1
  BY <1>1
<1>3. Head(q) = q[1] /\ q[1] \in S /\ \A i \in 1 .. Len(q) - 1 : y[i] = q[i + 1]
  BY <1>1
<1>4. \A i \in DOMAIN y : i + 1 \in DOMAIN q /\ y[i] = q[i + 1] /\ 1 < i + 1
  BY <1>1, <1>2, <1>3
<1>5. ASSUME NEW i \in DOMAIN q, i # 1
      PROVE  i - 1 \in DOMAIN y /\ y[i - 1] = q[i]
  <2>1. i - 1 \in 1 .. Len(q) - 1 /\ i - 1 + 1 = i
    BY <1>1, <1>2, <1>5
  <2> QED
    BY <1>2, <1>3, <2>1
<1> QED
  BY <1>1, <1>2, <1>3, <1>4, <1>5 DEF Shorter
-----------------------------------------------------------------------------
RxSet == [type : Type, len : Nat, read : BOOLEAN, n : Nat]
WireSet == [n : Nat, len : Nat]

\* Messages are numbered in the order of the RX queue, up to s; those written
\* to a device have lower numbers than those still in the queue, and fit.
Numbered(q, s) ==
  /\ s \in Nat /\ q \in Seq(RxSet)
  /\ \A i, j \in DOMAIN q : i < j => q[i].n < q[j].n
  /\ \A i \in DOMAIN q : q[i].n \in Nat /\ q[i].n <= s

Fits(t, len) ==
  /\ t = "can" => len - AddrLen["can"] \in 0 .. 8
  /\ t = "bluetooth" => len \in 20 .. 244

Written(t, w, q, s) ==
  /\ w \in Seq(WireSet)
  /\ \A i, j \in DOMAIN w : i < j => w[i].n < w[j].n
  /\ \A i \in DOMAIN w : /\ w[i].n \in Nat /\ w[i].n <= s /\ Fits(t, w[i].len)
                         /\ \A j \in DOMAIN q : w[i].n < q[j].n

DownInv ==
  /\ Numbered(rx_queue, sent)
  /\ wire = [t \in Wired |-> wire[t]]
  /\ \A t \in Wired : Written(t, wire[t], rx_queue, sent)

(* The frontend numbers its messages upwards.                              *)
LEMMA OneMore ==
  ASSUME NEW q, NEW s, Numbered(q, s), NEW r \in RxSet, r.n = s + 1, NEW p, p = Append(q, r)
  PROVE  /\ Numbered(p, s + 1)
         /\ \A t, w : Written(t, w, q, s) => Written(t, w, p, s + 1)
<1>1. q \in Seq(RxSet) /\ s \in Nat /\ s + 1 \in Nat
  BY DEF Numbered
<1>a. p \in Seq(RxSet) /\ Longer(q, r, p)
  BY <1>1, AppendFacts, Zenon
<1>2. p \in Seq(RxSet) /\ DOMAIN p \subseteq Nat /\ DOMAIN q \subseteq DOMAIN p
  BY <1>a, Zenon DEF Longer
<1>3. PICK e \in DOMAIN p : /\ p[e] = r /\ e \notin DOMAIN q
                            /\ \A i \in DOMAIN q : i < e /\ p[i] = q[i]
                            /\ \A i \in DOMAIN p : i \in DOMAIN q \/ i = e
  BY <1>a, Zenon DEF Longer
<1>4. \A i, j \in DOMAIN q : i < j => q[i].n < q[j].n
  BY Zenon DEF Numbered
<1>5. \A i \in DOMAIN q : q[i].n \in Nat /\ q[i].n <= s /\ q[i].n < s + 1
  BY <1>1 DEF Numbered
<1>6. ASSUME NEW i \in DOMAIN p, NEW j \in DOMAIN p, i < j
      PROVE  p[i].n < p[j].n
  <2>1. i # e
    BY <1>2, <1>3, <1>6
  <2>2. i \in DOMAIN q /\ p[i] = q[i]
    BY <1>3, <2>1, Zenon
  <2>3. CASE j = e
    BY <1>3, <1>5, <2>2, <2>3, Zenon
  <2>4. CASE j \in DOMAIN q
    BY <1>3, <1>4, <1>6, <2>2, <2>4, Zenon
  <2> QED
    BY <1>3, <2>3, <2>4, Zenon
<1>7. ASSUME NEW i \in DOMAIN p
      PROVE  p[i].n \in Nat /\ p[i].n <= s + 1
  <2>1. CASE i = e
    BY <1>1, <1>3, <2>1
  <2>2. CASE i \in DOMAIN q
    BY <1>1, <1>3, <1>5, <2>2
  <2> QED
    BY <1>3, <2>1, <2>2, Zenon
<1>8. ASSUME NEW t, NEW w, Written(t, w, q, s)
      PROVE  Written(t, w, p, s + 1)
  <2>1. ASSUME NEW i \in DOMAIN w
        PROVE  w[i].n <= s + 1 /\ \A j \in DOMAIN p : w[i].n < p[j].n
    <3>1. w[i].n \in Nat /\ w[i].n <= s /\ \A j \in DOMAIN q : w[i].n < q[j].n
      BY <1>8, Zenon DEF Written
    <3>2. w[i].n <= s + 1 /\ w[i].n < r.n
      BY <1>1, <3>1
    <3> QED
      BY <1>3, <3>1, <3>2, Zenon
  <2> QED
    BY <1>8, <2>1, Zenon DEF Written
<1> QED
  BY <1>1, <1>2, <1>6, <1>7, <1>8, Zenon DEF Numbered

(* The engine takes the first message and writes it to a device, or not.   *)
LEMMA OneLess ==
  ASSUME NEW q, NEW s, Numbered(q, s), q # <<>>, NEW p, p = Tail(q), NEW m, m = Head(q)
  PROVE  /\ Numbered(p, s) /\ m \in RxSet
         /\ \A t, w : Written(t, w, q, s) => Written(t, w, p, s)
         /\ \A t, w, v : /\ Written(t, w, q, s) /\ Fits(t, m.len)
                         /\ v = Append(w, [n |-> m.n, len |-> m.len])
                         => Written(t, v, p, s)
<1>1. q \in Seq(RxSet) /\ s \in Nat
  BY DEF Numbered
<1>a. p \in Seq(RxSet) /\ m \in RxSet /\ Shorter(q, m, p)
  BY <1>1, TailFacts, Zenon
<1>2. /\ p \in Seq(RxSet) /\ m \in RxSet /\ m = q[1]
      /\ DOMAIN q \subseteq Nat /\ DOMAIN p \subseteq Nat /\ 1 \in DOMAIN q
      /\ \A i \in DOMAIN p : i + 1 \in DOMAIN q /\ p[i] = q[i + 1] /\ 1 < i + 1
  BY <1>a, Zenon DEF Shorter
<1>3. \A i, j \in DOMAIN q : i < j => q[i].n < q[j].n
  BY Zenon DEF Numbered
<1>4. \A i \in DOMAIN q : q[i].n \in Nat /\ q[i].n <= s
  BY Zenon DEF Numbered
<1>5. ASSUME NEW i \in DOMAIN p, NEW j \in DOMAIN p, i < j
      PROVE  p[i].n < p[j].n
  <2>1. i + 1 < j + 1
    BY <1>2, <1>5
  <2> QED
    BY <1>2, <1>3, <2>1, Zenon
<1>6. \A i \in DOMAIN p : p[i].n \in Nat /\ p[i].n <= s /\ m.n < p[i].n
  BY <1>2, <1>3, <1>4, Zenon
<1>7. ASSUME NEW t, NEW w, Written(t, w, q, s)
      PROVE  Written(t, w, p, s)
  BY <1>2, <1>7, Zenon DEF Written
<1>8. ASSUME NEW t, NEW w, NEW v, Written(t, w, q, s), Fits(t, m.len),
             v = Append(w, [n |-> m.n, len |-> m.len])
      PROVE  Written(t, v, p, s)
  <2>1. PICK x : x = [n |-> m.n, len |-> m.len]
    BY Zenon
  <2>2. x \in WireSet /\ x.n = m.n /\ x.len = m.len
    BY <1>2, <2>1 DEF RxSet, WireSet
  <2>3. w \in Seq(WireSet) /\ v = Append(w, x)
    BY <1>8, <2>1, Zenon DEF Written
  <2>a. v \in Seq(WireSet) /\ Longer(w, x, v)
    BY <2>2, <2>3, AppendFacts, Zenon
  <2>4. v \in Seq(WireSet) /\ DOMAIN v \subseteq Nat /\ DOMAIN w \subseteq DOMAIN v
    BY <2>a, Zenon DEF Longer
  <2>5. PICK e \in DOMAIN v : /\ v[e] = x /\ e \notin DOMAIN w
                              /\ \A i \in DOMAIN w : i < e /\ v[i] = w[i]
                              /\ \A i \in DOMAIN v : i \in DOMAIN w \/ i = e
    BY <2>a, Zenon DEF Longer
  <2>6. \A i, j \in DOMAIN w : i < j => w[i].n < w[j].n
    BY <1>8, Zenon DEF Written
  <2>7. \A i \in DOMAIN w : /\ w[i].n \in Nat /\ w[i].n <= s /\ Fits(t, w[i].len) /\ w[i].n < m.n
                            /\ \A j \in DOMAIN p : w[i].n < p[j].n
    BY <1>2, <1>7, <1>8, Zenon DEF Written
  <2>8. ASSUME NEW i \in DOMAIN v, NEW j \in DOMAIN v, i < j
        PROVE  v[i].n < v[j].n
    <3>1. i # e
      BY <2>4, <2>5, <2>8
    <3>2. i \in DOMAIN w /\ v[i] = w[i]
      BY <2>5, <3>1, Zenon
    <3>3. CASE j = e
      BY <2>2, <2>5, <2>7, <3>2, <3>3, Zenon
    <3>4. CASE j \in DOMAIN w
      BY <2>5, <2>6, <2>8, <3>2, <3>4, Zenon
    <3> QED
      BY <2>5, <3>3, <3>4, Zenon
  <2>9. ASSUME NEW i \in DOMAIN v
        PROVE  /\ v[i].n \in Nat /\ v[i].n <= s /\ Fits(t, v[i].len)
               /\ \A j \in DOMAIN p : v[i].n < p[j].n
    <3>1. CASE i = e
      BY <1>2, <1>4, <1>6, <1>8, <2>2, <2>5, <3>1, Zenon
    <3>2. CASE i \in DOMAIN w
      BY <2>5, <2>7, <3>2, Zenon
    <3> QED
      BY <2>5, <3>1, <3>2, Zenon
  <2> QED
    BY <2>4, <2>8, <2>9, Zenon DEF Written
<1> QED
  BY <1>1, <1>2, <1>5, <1>6, <1>7, <1>8, Zenon DEF Numbered
-----------------------------------------------------------------------------
(* Downlink *)

(* A write of the first message of the RX queue to device t.               *)
LEMMA WriteKeepsOrder ==
  ASSUME DownInv, rx_queue # <<>>, rx_queue' = Tail(rx_queue), sent' = sent,
         NEW t \in Wired, Fits(t, Head(rx_queue).len), WriteToDevice(t, Head(rx_queue))
  PROVE  DownInv'
<1>1. Numbered(rx_queue, sent) /\ wire = [x \in Wired |-> wire[x]]
  BY Zenon DEF DownInv
<1>2. PICK m : m = Head(rx_queue)
  BY Zenon
<1>3. /\ Numbered(rx_queue', sent)
      /\ \A x, w : Written(x, w, rx_queue, sent) => Written(x, w, rx_queue', sent)
      /\ \A x, w, v : /\ Written(x, w, rx_queue, sent) /\ Fits(x, m.len)
                      /\ v = Append(w, [n |-> m.n, len |-> m.len])
                      => Written(x, v, rx_queue', sent)
  BY <1>1, <1>2, OneLess, Zenon
<1>4. \A x \in Wired : Written(x, wire[x], rx_queue, sent)
  BY Zenon DEF DownInv
<1>5. CASE wire' = [wire EXCEPT ![t] = Append(@, [n |-> m.n, len |-> m.len])]
  <2>1. PICK v : v = Append(wire[t], [n |-> m.n, len |-> m.len])
    BY Zenon
  <2>2. wire' = [x \in Wired |-> IF x = t THEN v ELSE wire[x]]
    BY <1>1, <1>5, <2>1, Zenon
  <2>3. Written(t, v, rx_queue', sent)
    BY <1>2, <1>3, <1>4, <2>1, Zenon
  <2>4. \A x \in Wired : Written(x, wire'[x], rx_queue', sent)
    BY <1>3, <1>4, <2>2, <2>3, Zenon
  <2>5. wire' = [x \in Wired |-> wire'[x]]
    BY <2>2
  <2> QED
    BY <1>3, <2>4, <2>5, Zenon DEF DownInv
<1>6. CASE wire' = wire
  BY <1>1, <1>3, <1>4, <1>6, Zenon DEF DownInv
<1> QED
  BY <1>2, <1>5, <1>6, Zenon DEF WriteToDevice

(* The first message of the RX queue is handled and not written.           *)
LEMMA DropKeepsOrder ==
  ASSUME DownInv, rx_queue # <<>>, rx_queue' = Tail(rx_queue), sent' = sent, wire' = wire
  PROVE  DownInv'
<1>1. Numbered(rx_queue, sent) /\ wire = [x \in Wired |-> wire[x]]
  BY Zenon DEF DownInv
<1>2. /\ Numbered(rx_queue', sent)
      /\ \A x, w : Written(x, w, rx_queue, sent) => Written(x, w, rx_queue', sent)
  BY <1>1, OneLess, Zenon
<1>3. \A x \in Wired : Written(x, wire[x], rx_queue, sent)
  BY Zenon DEF DownInv
<1> QED
  BY <1>1, <1>2, <1>3, Zenon DEF DownInv

(* What the length checks let through fits.                                *)
LEMMA ChecksSuffice ==
  ASSUME NEW m \in RxSet, LengthValid(m)
  PROVE  /\ m.type = "bluetooth" => Fits("bluetooth", m.len)
         /\ m.type = "can" /\ CanFrame(m) => Fits("can", m.len)
<1>1. m.len \in Nat
  BY DEF RxSet
<1>2. ASSUME m.type = "bluetooth"
      PROVE  Fits("bluetooth", m.len)
  <2>1. AddrLen["bluetooth"] = 20 /\ MaxPayload["bluetooth"] = 244
    BY DEF AddrLen, MaxPayload
  <2>2. "bluetooth" \in DOMAIN MaxPayload
    BY DEF MaxPayload
  <2>3. m.len >= 20 /\ m.len <= 244
    BY <1>2, <2>1, <2>2 DEF LengthValid
  <2> QED
    BY <1>1, <2>3 DEF Fits
<1>3. ASSUME m.type = "can", CanFrame(m)
      PROVE  Fits("can", m.len)
  <2>1. AddrLen["can"] = 7
    BY DEF AddrLen
  <2>2. m.len >= 7 /\ m.len - 7 <= 8
    BY <1>3, <2>1 DEF LengthValid, CanFrame, CAN_MAX_DLEN
  <2> QED
    BY <1>1, <2>1, <2>2 DEF Fits
<1> QED
  BY <1>2, <1>3, Zenon

(* STEP (1) and the frontend keep DownInv.                                 *)
LEMMA MessagesInOrder ==
  ASSUME DownInv
  PROVE  /\ RxMessage => DownInv'
         /\ \A m \in Messages : FrontendSend(m) => DownInv'
<1>1. Numbered(rx_queue, sent) /\ wire = [x \in Wired |-> wire[x]]
  BY Zenon DEF DownInv
<1>2. ASSUME RxMessage
      PROVE  DownInv'
  <2>1. rx_queue # <<>> /\ rx_queue' = Tail(rx_queue) /\ sent' = sent
    BY <1>2 DEF RxMessage, frontVars
  <2>2. PICK m : m = Head(rx_queue)
    BY Zenon
  <2>3. m \in RxSet
    BY <1>1, <2>1, <2>2, OneLess, Zenon
  <2>4. IotMessage(m)
    BY <1>2, <2>2, Zenon DEF RxMessage
  <2>5. CASE wire' = wire
    BY <2>1, <2>5, DropKeepsOrder, Zenon
  <2>6. CASE LengthValid(m) /\ BluetoothMessage(m) /\ wire' # wire
    <3>1. Fits("bluetooth", m.len)
      BY <2>3, <2>6, ChecksSuffice, Zenon DEF BluetoothMessage
    <3>2. WriteToDevice("bluetooth", m)
      BY <2>6, Zenon DEF BluetoothMessage
    <3>3. "bluetooth" \in Wired
      BY Zenon DEF Wired
    <3> QED
      BY <2>1, <2>2, <3>1, <3>2, <3>3, WriteKeepsOrder, Zenon
  <2>7. CASE LengthValid(m) /\ CanMessage(m) /\ wire' # wire
    <3>1. CanFrame(m) /\ WriteToDevice("can", m) /\ m.type = "can"
      BY <2>7, Zenon DEF CanMessage
    <3>2. Fits("can", m.len)
      BY <2>3, <2>7, <3>1, ChecksSuffice, Zenon
    <3>3. "can" \in Wired
      BY Zenon DEF Wired
    <3> QED
      BY <2>1, <2>2, <3>1, <3>2, <3>3, WriteKeepsOrder, Zenon
  <2>8. wire' = wire \/ (LengthValid(m) /\ (BluetoothMessage(m) \/ CanMessage(m)))
    BY <2>4 DEF IotMessage, ModbusMessage, StubMessage
  <2> QED
    BY <2>5, <2>6, <2>7, <2>8, Zenon
<1>3. ASSUME NEW m \in Messages, FrontendSend(m)
      PROVE  DownInv'
  <2>1. PICK r : r = [type |-> m.type, len |-> m.len, read |-> m.read, n |-> sent + 1]
    BY Zenon
  <2>2. sent \in Nat
    BY <1>1 DEF Numbered
  <2>3. m \in [type : Type, len : Nat, read : BOOLEAN]
    BY IotAssumption, Zenon
  <2>4. r \in RxSet /\ r.n = sent + 1
    BY <2>1, <2>2, <2>3 DEF RxSet
  <2>5. rx_queue' = Append(rx_queue, r) /\ sent' = sent + 1 /\ wire' = wire
    BY <1>3, <2>1, Zenon DEF FrontendSend
  <2>6. /\ Numbered(rx_queue', sent + 1)
        /\ \A x, w : Written(x, w, rx_queue, sent) => Written(x, w, rx_queue', sent + 1)
    BY <1>1, <2>4, <2>5, OneMore, Zenon
  <2>7. \A x \in Wired : Written(x, wire[x], rx_queue, sent)
    BY Zenon DEF DownInv
  <2> QED
    BY <1>1, <2>5, <2>6, <2>7, Zenon DEF DownInv
<1> QED
  BY <1>2, <1>3, Zenon

(* The other steps leave the messages alone.                               *)
LEMMA MessagesAlone ==
  ASSUME Next
  PROVE  \/ RxMessage \/ (\E m \in Messages : FrontendSend(m))
         \/ UNCHANGED <<rx_queue, sent, wire>>
<1> USE DEF startVars, devVars, frontVars, LeaveLoop, Stay
<1>1. ParseDevices \/ InitSession \/ StartRunning \/ RxEmpty => UNCHANGED <<rx_queue, sent, wire>>
  BY Zenon DEF ParseDevices, InitSession, StartRunning, RxEmpty
<1>2. \A t \in Wired : PollData(t) \/ PollNothing(t) => UNCHANGED <<rx_queue, sent, wire>>
  BY Zenon DEF PollData, PollNothing
<1>3. /\ PollBluetoothServer \/ ModbusAnswer \/ ModbusNoAnswer => UNCHANGED <<rx_queue, sent, wire>>
      /\ \A t : PollSkip(t) => UNCHANGED <<rx_queue, sent, wire>>
  BY Zenon DEF PollBluetoothServer, ModbusAnswer, ModbusNoAnswer, PollSkip
<1>4. /\ FrontendReceive => UNCHANGED <<rx_queue, sent, wire>>
      /\ \A t \in Wired : Arrive(t) \/ GoDown(t) => UNCHANGED <<rx_queue, sent, wire>>
  BY Zenon DEF FrontendReceive, Arrive, GoDown
<1> QED
  BY <1>1, <1>2, <1>3, <1>4, Zenon DEF Next, Engine

\* Messages reach a device in the order the frontend sent them, each at most
\* once, and only with data that fits into its packet.
THEOREM DownlinkOrderly == Spec => []DownlinkSound
<1>1. Init => DownInv
  <2> SUFFICES ASSUME Init PROVE DownInv
    OBVIOUS
  <2>1. rx_queue = <<>> /\ sent = 0 /\ wire = [t \in Wired |-> <<>>]
    BY DEF Init
  <2>2. Numbered(rx_queue, sent)
    BY <2>1 DEF Numbered
  <2>3. \A t \in Wired : Written(t, wire[t], rx_queue, sent)
    BY <2>1 DEF Written
  <2>4. wire = [t \in Wired |-> wire[t]]
    BY <2>1
  <2> QED
    BY <2>2, <2>3, <2>4, Zenon DEF DownInv
<1>2. DownInv /\ [Next]_vars => DownInv'
  <2> SUFFICES ASSUME DownInv, [Next]_vars PROVE DownInv'
    OBVIOUS
  <2>1. CASE UNCHANGED <<rx_queue, sent, wire>>
    BY <2>1, Zenon DEF DownInv
  <2>2. CASE Next
    BY <2>1, <2>2, MessagesAlone, MessagesInOrder, Zenon
  <2>3. CASE UNCHANGED vars
    BY <2>1, <2>3 DEF vars, frontVars
  <2> QED
    BY <2>2, <2>3
<1>3. DownInv => DownlinkSound
  <2> SUFFICES ASSUME DownInv PROVE DownlinkSound
    OBVIOUS
  <2>1. \A t \in Wired : \A i, j \in DOMAIN wire[t] : i < j => wire[t][i].n < wire[t][j].n
    BY Zenon DEF DownInv, Written
  <2>2. "can" \in Wired /\ "bluetooth" \in Wired
    BY Zenon DEF Wired
  <2>3. \A t \in Wired : \A i \in DOMAIN wire[t] : Fits(t, wire[t][i].len)
    BY Zenon DEF DownInv, Written
  <2> QED
    BY <2>1, <2>2, <2>3, Zenon DEF DownlinkSound, Fits
<1> QED
  BY <1>1, <1>2, <1>3, PTL DEF Spec
-----------------------------------------------------------------------------
(* Uplink *)

TxSet == [type : Type, n : Nat]

\* Element e of the TX queue carries a number for protocol t.
Own(t, e) == e.type = t /\ e.n # 0

\* Numbers grow along what was received (g), what is in the TX queue for
\* protocol t (x) and what waits in the kernel (b), and from one to the next.
Sound(t, g, x, b) ==
  /\ g \in Seq(Nat) /\ x \in Seq(TxSet) /\ b \in Seq(Nat \ {0})
  /\ \A i, j \in DOMAIN g : i < j => g[i] < g[j]
  /\ \A i, j \in DOMAIN x : i < j /\ Own(t, x[i]) /\ Own(t, x[j]) => x[i].n < x[j].n
  /\ \A i, j \in DOMAIN b : i < j => b[i] < b[j]
  /\ \A i \in DOMAIN g : \A j \in DOMAIN x : Own(t, x[j]) => g[i] < x[j].n
  /\ \A i \in DOMAIN g : \A j \in DOMAIN b : g[i] < b[j]
  /\ \A i \in DOMAIN x : \A j \in DOMAIN b : Own(t, x[i]) => x[i].n < b[j]

\* Number k is somewhere on the way.
On(k, t, g, x, b) ==
  \/ \E i \in DOMAIN g : g[i] = k
  \/ \E i \in DOMAIN x : Own(t, x[i]) /\ x[i].n = k
  \/ \E i \in DOMAIN b : b[i] = k

\* All numbers of a sequence, or of the elements for protocol t, lie below n, or above.
Below(g, n) == \A i \in DOMAIN g : g[i] < n
Above(b, n) == \A i \in DOMAIN b : n < b[i]
OwnBelow(t, x, n) == \A i \in DOMAIN x : Own(t, x[i]) => x[i].n < n
OwnAbove(t, x, n) == \A i \in DOMAIN x : Own(t, x[i]) => n < x[i].n

AllBelow(t, g, x, b, n) == \A k : On(k, t, g, x, b) => k < n

\* From g, x, b to p, y, c: the same numbers; n is new; n is gone.
Keeps(t, g, x, b, p, y, c) ==
  Sound(t, p, y, c) /\ \A k : On(k, t, p, y, c) <=> On(k, t, g, x, b)
Gains(t, g, x, b, p, y, c, n) ==
  Sound(t, p, y, c) /\ \A k : On(k, t, p, y, c) <=> On(k, t, g, x, b) \/ k = n
Loses(t, g, x, b, p, y, c, n) ==
  /\ Sound(t, p, y, c) /\ On(n, t, g, x, b)
  /\ \A k : On(k, t, p, y, c) <=> On(k, t, g, x, b) /\ k # n

(* An element of another protocol, or an empty buffer, joins the TX queue. *)
LEMMA JoinOther ==
  ASSUME NEW t, NEW g, NEW x, NEW b, Sound(t, g, x, b),
         NEW e \in TxSet, ~Own(t, e), NEW z, z = Append(x, e)
  PROVE  Sound(t, g, z, b) /\ \A k : On(k, t, g, z, b) <=> On(k, t, g, x, b)
<1>1. x \in Seq(TxSet)
  BY Zenon DEF Sound
<1>2. z \in Seq(TxSet) /\ Longer(x, e, z)
  BY <1>1, AppendFacts, Zenon
<1>3. PICK l \in DOMAIN z : /\ z[l] = e /\ l \notin DOMAIN x
                            /\ \A i \in DOMAIN x : i < l /\ z[i] = x[i]
                            /\ \A i \in DOMAIN z : i \in DOMAIN x \/ i = l
  BY <1>2, Zenon DEF Longer
<1>4. \A i \in DOMAIN z : Own(t, z[i]) => i \in DOMAIN x /\ z[i] = x[i]
  BY <1>3, Zenon
<1>5. \A i \in DOMAIN x : i \in DOMAIN z /\ z[i] = x[i]
  BY <1>2, <1>3, Zenon DEF Longer
<1>6. Sound(t, g, z, b)
  <2>1. \A i, j \in DOMAIN z : i < j /\ Own(t, z[i]) /\ Own(t, z[j]) => z[i].n < z[j].n
    BY <1>4, Zenon DEF Sound
  <2>2. \A i \in DOMAIN g : \A j \in DOMAIN z : Own(t, z[j]) => g[i] < z[j].n
    BY <1>4, Zenon DEF Sound
  <2>3. \A i \in DOMAIN z : \A j \in DOMAIN b : Own(t, z[i]) => z[i].n < b[j]
    BY <1>4, Zenon DEF Sound
  <2> QED
    BY <1>2, <2>1, <2>2, <2>3, Zenon DEF Sound
<1>7. ASSUME NEW k
      PROVE  On(k, t, g, z, b) <=> On(k, t, g, x, b)
  <2>1. (\E i \in DOMAIN z : Own(t, z[i]) /\ z[i].n = k)
          <=> (\E i \in DOMAIN x : Own(t, x[i]) /\ x[i].n = k)
    BY <1>4, <1>5, Zenon
  <2> QED
    BY <2>1, Zenon DEF On
<1> QED
  BY <1>6, <1>7, Zenon

(* An element of the protocol joins the TX queue, between what is ahead of *)
(* it and what still waits.                                                *)
LEMMA JoinOwn ==
  ASSUME NEW t, NEW g, NEW x, NEW b, Sound(t, g, x, b),
         NEW e \in TxSet, Own(t, e), NEW z, z = Append(x, e),
         Below(g, e.n), OwnBelow(t, x, e.n), Above(b, e.n)
  PROVE  Gains(t, g, x, b, g, z, b, e.n)
<1>1. x \in Seq(TxSet)
  BY Zenon DEF Sound
<1>2. z \in Seq(TxSet) /\ Longer(x, e, z)
  BY <1>1, AppendFacts, Zenon
<1>3. PICK l \in DOMAIN z : /\ z[l] = e /\ l \notin DOMAIN x
                            /\ \A i \in DOMAIN x : i < l /\ z[i] = x[i]
                            /\ \A i \in DOMAIN z : i \in DOMAIN x \/ i = l
  BY <1>2, Zenon DEF Longer
<1>4. DOMAIN z \subseteq Nat
  BY <1>2, Zenon DEF Longer
<1>5. \A i \in DOMAIN x : i \in DOMAIN z /\ z[i] = x[i]
  BY <1>2, <1>3, Zenon DEF Longer
<1>6. Sound(t, g, z, b)
  <2>1. ASSUME NEW i \in DOMAIN z, NEW j \in DOMAIN z, i < j, Own(t, z[i]), Own(t, z[j])
        PROVE  z[i].n < z[j].n
    <3>1. i # l
      BY <1>3, <1>4, <2>1
    <3>2. i \in DOMAIN x /\ z[i] = x[i]
      BY <1>3, <3>1, Zenon
    <3>3. CASE j = l
      BY <1>3, <2>1, <3>2, <3>3, Zenon DEF OwnBelow
    <3>4. CASE j \in DOMAIN x
      BY <1>5, <2>1, <3>2, <3>4, Zenon DEF Sound
    <3> QED
      BY <1>3, <3>3, <3>4, Zenon
  <2>2. \A i \in DOMAIN g : \A j \in DOMAIN z : Own(t, z[j]) => g[i] < z[j].n
    BY <1>3, Zenon DEF Sound, Below
  <2>3. \A i \in DOMAIN z : \A j \in DOMAIN b : Own(t, z[i]) => z[i].n < b[j]
    BY <1>3, Zenon DEF Sound, Above
  <2> QED
    BY <1>2, <2>1, <2>2, <2>3, Zenon DEF Sound
<1>7. ASSUME NEW k
      PROVE  On(k, t, g, z, b) <=> On(k, t, g, x, b) \/ k = e.n
  <2>1. (\E i \in DOMAIN z : Own(t, z[i]) /\ z[i].n = k)
          <=> (\E i \in DOMAIN x : Own(t, x[i]) /\ x[i].n = k) \/ k = e.n
    BY <1>3, <1>5, Zenon
  <2> QED
    BY <2>1, Zenon DEF On
<1> QED
  BY <1>6, <1>7, Zenon DEF Gains

(* The first packet leaves the kernel: nothing else has its number.        *)
LEMMA LeaveKernel ==
  ASSUME NEW t, NEW g, NEW x, NEW b, Sound(t, g, x, b), b # <<>>,
         NEW c, c = Tail(b), NEW h, h = Head(b)
  PROVE  /\ Loses(t, g, x, b, g, x, c, h) /\ h \in Nat \ {0}
         /\ Below(g, h) /\ OwnBelow(t, x, h) /\ Above(c, h)
<1>1. b \in Seq(Nat \ {0}) /\ g \in Seq(Nat) /\ x \in Seq(TxSet)
  BY Zenon DEF Sound
<1>2. c \in Seq(Nat \ {0}) /\ h \in Nat \ {0} /\ Shorter(b, h, c)
  BY <1>1, TailFacts, Zenon
<1>3. /\ DOMAIN b \subseteq Nat /\ DOMAIN c \subseteq Nat /\ 1 \in DOMAIN b /\ h = b[1]
      /\ \A i \in DOMAIN c : i + 1 \in DOMAIN b /\ c[i] = b[i + 1] /\ 1 < i + 1
      /\ \A i \in DOMAIN b : i = 1 \/ (i - 1 \in DOMAIN c /\ c[i - 1] = b[i])
  BY <1>2, Zenon DEF Shorter
<1>4. /\ \A i \in DOMAIN g : g[i] < h
      /\ \A i \in DOMAIN x : Own(t, x[i]) => x[i].n < h
      /\ \A i \in DOMAIN c : h < c[i]
  BY <1>3, Zenon DEF Sound
<1>5. Sound(t, g, x, c)
  <2>1. ASSUME NEW i \in DOMAIN c, NEW j \in DOMAIN c, i < j
        PROVE  c[i] < c[j]
    <3>1. i + 1 < j + 1
      BY <1>3, <2>1
    <3> QED
      BY <1>3, <3>1, Zenon DEF Sound
  <2>2. \A i \in DOMAIN g : \A j \in DOMAIN c : g[i] < c[j]
    BY <1>3, Zenon DEF Sound
  <2>3. \A i \in DOMAIN x : \A j \in DOMAIN c : Own(t, x[i]) => x[i].n < c[j]
    BY <1>3, Zenon DEF Sound
  <2> QED
    BY <1>2, <2>1, <2>2, <2>3, Zenon DEF Sound
<1>6. \A i \in DOMAIN g : g[i] # h
  BY <1>1, <1>2, <1>4
<1>7. \A i \in DOMAIN x : Own(t, x[i]) => x[i].n # h
  BY <1>1, <1>2, <1>4 DEF TxSet
<1>8. \A i \in DOMAIN c : c[i] # h
  BY <1>2, <1>4
<1>9. ASSUME NEW k
      PROVE  On(k, t, g, x, c) <=> On(k, t, g, x, b) /\ k # h
  <2>1. ASSUME NEW i \in DOMAIN c, c[i] = k
        PROVE  \E j \in DOMAIN b : b[j] = k
    <3>1. i + 1 \in DOMAIN b /\ b[i + 1] = k
      BY <1>3, <2>1, Zenon
    <3> QED
      BY <3>1, Zenon
  <2>2. ASSUME NEW i \in DOMAIN b, b[i] = k, k # h
        PROVE  \E j \in DOMAIN c : c[j] = k
    <3>1. i # 1
      BY <1>3, <2>2, Zenon
    <3>2. i - 1 \in DOMAIN c /\ c[i - 1] = k
      BY <1>3, <2>2, <3>1, Zenon
    <3> QED
      BY <3>2, Zenon
  <2>3. On(k, t, g, x, c) => k # h
    BY <1>6, <1>7, <1>8, Zenon DEF On
  <2> QED
    BY <2>1, <2>2, <2>3, Zenon DEF On
<1> QED
  BY <1>2, <1>3, <1>4, <1>5, <1>9, Zenon DEF Loses, On, Below, OwnBelow, Above

(* A packet arrives behind everything else.                                *)
LEMMA ReachKernel ==
  ASSUME NEW t, NEW g, NEW x, NEW b, Sound(t, g, x, b), NEW h \in Nat \ {0},
         NEW c, c = Append(b, h), AllBelow(t, g, x, b, h)
  PROVE  Gains(t, g, x, b, g, x, c, h)
<1>1. b \in Seq(Nat \ {0})
  BY Zenon DEF Sound
<1>2. c \in Seq(Nat \ {0}) /\ Longer(b, h, c)
  BY <1>1, AppendFacts, Zenon
<1>3. PICK l \in DOMAIN c : /\ c[l] = h /\ l \notin DOMAIN b
                            /\ \A i \in DOMAIN b : i < l /\ c[i] = b[i]
                            /\ \A i \in DOMAIN c : i \in DOMAIN b \/ i = l
  BY <1>2, Zenon DEF Longer
<1>4. DOMAIN c \subseteq Nat
  BY <1>2, Zenon DEF Longer
<1>5. \A i \in DOMAIN b : i \in DOMAIN c /\ c[i] = b[i]
  BY <1>2, <1>3, Zenon DEF Longer
<1>6. /\ \A i \in DOMAIN g : g[i] < h
      /\ \A i \in DOMAIN x : Own(t, x[i]) => x[i].n < h
      /\ \A i \in DOMAIN b : b[i] < h
  BY Zenon DEF AllBelow, On
<1>7. Sound(t, g, x, c)
  <2>1. ASSUME NEW i \in DOMAIN c, NEW j \in DOMAIN c, i < j
        PROVE  c[i] < c[j]
    <3>1. i # l
      BY <1>3, <1>4, <2>1
    <3>2. i \in DOMAIN b /\ c[i] = b[i]
      BY <1>3, <3>1, Zenon
    <3>3. CASE j = l
      BY <1>3, <1>6, <3>2, <3>3, Zenon
    <3>4. CASE j \in DOMAIN b
      BY <1>5, <2>1, <3>2, <3>4, Zenon DEF Sound
    <3> QED
      BY <1>3, <3>3, <3>4, Zenon
  <2>2. \A i \in DOMAIN g : \A j \in DOMAIN c : g[i] < c[j]
    BY <1>3, <1>6, Zenon DEF Sound
  <2>3. \A i \in DOMAIN x : \A j \in DOMAIN c : Own(t, x[i]) => x[i].n < c[j]
    BY <1>3, <1>6, Zenon DEF Sound
  <2> QED
    BY <1>2, <2>1, <2>2, <2>3, Zenon DEF Sound
<1>8. ASSUME NEW k
      PROVE  On(k, t, g, x, c) <=> On(k, t, g, x, b) \/ k = h
  <2>1. (\E i \in DOMAIN c : c[i] = k) <=> (\E i \in DOMAIN b : b[i] = k) \/ k = h
    BY <1>3, <1>5, Zenon
  <2> QED
    BY <2>1, Zenon DEF On
<1> QED
  BY <1>7, <1>8, Zenon DEF Gains

(* The frontend takes the first element of the TX queue.                   *)
LEMMA LeaveTx ==
  ASSUME NEW t, NEW g, NEW x, NEW b, Sound(t, g, x, b), x # <<>>,
         NEW z, z = Tail(x), NEW e, e = Head(x)
  PROVE  /\ Sound(t, g, z, b) /\ e \in TxSet
         /\ ~Own(t, e) => \A k : On(k, t, g, z, b) <=> On(k, t, g, x, b)
         /\ Own(t, e) => /\ \A k : On(k, t, g, x, b) <=> On(k, t, g, z, b) \/ k = e.n
                         /\ Below(g, e.n) /\ OwnAbove(t, z, e.n) /\ Above(b, e.n)
<1>1. x \in Seq(TxSet)
  BY Zenon DEF Sound
<1>2. z \in Seq(TxSet) /\ e \in TxSet /\ Shorter(x, e, z)
  BY <1>1, TailFacts, Zenon
<1>3. /\ DOMAIN x \subseteq Nat /\ DOMAIN z \subseteq Nat /\ 1 \in DOMAIN x /\ e = x[1]
      /\ \A i \in DOMAIN z : i + 1 \in DOMAIN x /\ z[i] = x[i + 1] /\ 1 < i + 1
      /\ \A i \in DOMAIN x : i = 1 \/ (i - 1 \in DOMAIN z /\ z[i - 1] = x[i])
  BY <1>2, Zenon DEF Shorter
<1>4. Own(t, e) => /\ \A i \in DOMAIN g : g[i] < e.n
                   /\ \A i \in DOMAIN z : Own(t, z[i]) => e.n < z[i].n
                   /\ \A i \in DOMAIN b : e.n < b[i]
  BY <1>3, Zenon DEF Sound
<1>5. Sound(t, g, z, b)
  <2>1. ASSUME NEW i \in DOMAIN z, NEW j \in DOMAIN z, i < j, Own(t, z[i]), Own(t, z[j])
        PROVE  z[i].n < z[j].n
    <3>1. i + 1 < j + 1
      BY <1>3, <2>1
    <3> QED
      BY <1>3, <2>1, <3>1, Zenon DEF Sound
  <2>a. \A i \in DOMAIN z : i + 1 \in DOMAIN x /\ z[i] = x[i + 1]
    BY <1>3, Zenon
  <2>2. \A i \in DOMAIN g : \A j \in DOMAIN z : Own(t, z[j]) => g[i] < z[j].n
    BY <2>a, Zenon DEF Sound
  <2>b. \A i \in DOMAIN x : \A j \in DOMAIN b : Own(t, x[i]) => x[i].n < b[j]
    BY Zenon DEF Sound
  <2>3. \A i \in DOMAIN z : \A j \in DOMAIN b : Own(t, z[i]) => z[i].n < b[j]
    BY <2>a, <2>b, Zenon
  <2> QED
    BY <1>2, <2>1, <2>2, <2>3, Zenon DEF Sound
<1>6. ASSUME NEW k
      PROVE  (\E i \in DOMAIN x : Own(t, x[i]) /\ x[i].n = k)
               <=> (\E i \in DOMAIN z : Own(t, z[i]) /\ z[i].n = k) \/ (Own(t, e) /\ k = e.n)
  <2>1. ASSUME NEW i \in DOMAIN z, Own(t, z[i]), z[i].n = k
        PROVE  \E j \in DOMAIN x : Own(t, x[j]) /\ x[j].n = k
    <3>1. i + 1 \in DOMAIN x /\ Own(t, x[i + 1]) /\ x[i + 1].n = k
      BY <1>3, <2>1, Zenon
    <3> QED
      BY <3>1, Zenon
  <2>2. ASSUME NEW i \in DOMAIN x, Own(t, x[i]), x[i].n = k, i # 1
        PROVE  \E j \in DOMAIN z : Own(t, z[j]) /\ z[j].n = k
    <3>1. i - 1 \in DOMAIN z /\ Own(t, z[i - 1]) /\ z[i - 1].n = k
      BY <1>3, <2>2, Zenon
    <3> QED
      BY <3>1, Zenon
  <2>3. 1 \in DOMAIN x /\ x[1] = e
    BY <1>3, Zenon
  <2> QED
    BY <2>1, <2>2, <2>3, Zenon
<1>7. ASSUME ~Own(t, e), NEW k
      PROVE  On(k, t, g, z, b) <=> On(k, t, g, x, b)
  BY <1>6, <1>7, Zenon DEF On
<1>8. ASSUME Own(t, e), NEW k
      PROVE  On(k, t, g, x, b) <=> On(k, t, g, z, b) \/ k = e.n
  BY <1>6, <1>8, Zenon DEF On
<1> QED
  BY <1>2, <1>4, <1>5, <1>7, <1>8, Zenon DEF Below, OwnAbove, Above

(* What the frontend takes is the next of its protocol.                    *)
LEMMA ReachFrontend ==
  ASSUME NEW t, NEW g, NEW z, NEW b, Sound(t, g, z, b), NEW n \in Nat,
         NEW h, h = Append(g, n),
         Below(g, n), OwnAbove(t, z, n), Above(b, n)
  PROVE  Gains(t, g, z, b, h, z, b, n)
<1>1. g \in Seq(Nat)
  BY Zenon DEF Sound
<1>2. h \in Seq(Nat) /\ Longer(g, n, h)
  BY <1>1, AppendFacts, Zenon
<1>3. PICK l \in DOMAIN h : /\ h[l] = n /\ l \notin DOMAIN g
                            /\ \A i \in DOMAIN g : i < l /\ h[i] = g[i]
                            /\ \A i \in DOMAIN h : i \in DOMAIN g \/ i = l
  BY <1>2, Zenon DEF Longer
<1>4. DOMAIN h \subseteq Nat
  BY <1>2, Zenon DEF Longer
<1>5. \A i \in DOMAIN g : i \in DOMAIN h /\ h[i] = g[i]
  BY <1>2, <1>3, Zenon DEF Longer
<1>6. Sound(t, h, z, b)
  <2>1. ASSUME NEW i \in DOMAIN h, NEW j \in DOMAIN h, i < j
        PROVE  h[i] < h[j]
    <3>1. i # l
      BY <1>3, <1>4, <2>1
    <3>2. i \in DOMAIN g /\ h[i] = g[i]
      BY <1>3, <3>1, Zenon
    <3>3. CASE j = l
      BY <1>3, <3>2, <3>3, Zenon DEF Below
    <3>4. CASE j \in DOMAIN g
      BY <1>5, <2>1, <3>2, <3>4, Zenon DEF Sound
    <3> QED
      BY <1>3, <3>3, <3>4, Zenon
  <2>2. \A i \in DOMAIN h : \A j \in DOMAIN z : Own(t, z[j]) => h[i] < z[j].n
    BY <1>3, Zenon DEF Sound, OwnAbove
  <2>3. \A i \in DOMAIN h : \A j \in DOMAIN b : h[i] < b[j]
    BY <1>3, Zenon DEF Sound, Above
  <2> QED
    BY <1>2, <2>1, <2>2, <2>3, Zenon DEF Sound
<1>7. ASSUME NEW k
      PROVE  On(k, t, h, z, b) <=> On(k, t, g, z, b) \/ k = n
  <2>1. (\E i \in DOMAIN h : h[i] = k) <=> (\E i \in DOMAIN g : g[i] = k) \/ k = n
    BY <1>3, <1>5, Zenon
  <2> QED
    BY <2>1, Zenon DEF On
<1> QED
  BY <1>6, <1>7, Zenon DEF Gains
-----------------------------------------------------------------------------
\* Of the a packets that arrived, those not dropped (d) are on the way.
Covered(t, g, x, b, a, d) ==
  /\ Sound(t, g, x, b)
  /\ a \in Nat
  /\ \A k : On(k, t, g, x, b) <=> k \in 1 .. a /\ k \notin d
  /\ d \subseteq 0 .. a

\* Answers carry the number of a request accepted by then (k requests); one
\* that is pending has not been answered.
Answers(g, x, k, st) ==
  /\ Sound("modbus", g, x, <<>>)
  /\ k \in Nat
  /\ \A n : On(n, "modbus", g, x, <<>>) => n \in Nat /\ n <= k /\ (st = "PENDING" => n < k)

UpInv ==
  /\ got = [t \in Type |-> got[t]]
  /\ inbox = [t \in Wired |-> inbox[t]]
  /\ arrived = [t \in Wired |-> arrived[t]]
  /\ dropped = [t \in Type |-> dropped[t]]
  /\ \A t \in Wired : Covered(t, got[t], tx_queue, inbox[t], arrived[t], dropped[t])
  /\ Answers(got["modbus"], tx_queue, taken, sess_state)

(* The frontend takes an element, for every protocol.                      *)
LEMMA Received ==
  ASSUME NEW t, NEW g, NEW x, NEW b, Sound(t, g, x, b), x # <<>>,
         NEW z, z = Tail(x), NEW e, e = Head(x),
         NEW h, h = IF Own(t, e) THEN Append(g, e.n) ELSE g
  PROVE  Keeps(t, g, x, b, h, z, b)
<1>1. /\ Sound(t, g, z, b) /\ e \in TxSet
      /\ ~Own(t, e) => \A k : On(k, t, g, z, b) <=> On(k, t, g, x, b)
      /\ Own(t, e) => /\ \A k : On(k, t, g, x, b) <=> On(k, t, g, z, b) \/ k = e.n
                      /\ Below(g, e.n) /\ OwnAbove(t, z, e.n) /\ Above(b, e.n)
  BY LeaveTx, Zenon
<1>2. CASE ~Own(t, e)
  BY <1>1, <1>2, Zenon DEF Keeps
<1>3. CASE Own(t, e)
  <2>1. e.n \in Nat
    BY <1>1 DEF TxSet
  <2>2. h = Append(g, e.n)
    BY <1>3, Zenon
  <2>3. Gains(t, g, z, b, h, z, b, e.n)
    BY <1>1, <1>3, <2>1, <2>2, ReachFrontend, Zenon
  <2> QED
    BY <1>1, <1>3, <2>3, Zenon DEF Gains, Keeps
<1> QED
  BY <1>2, <1>3, Zenon

(* A packet is forwarded, or lost.                                         *)
LEMMA PacketMoves ==
  ASSUME NEW t \in Type, NEW g, NEW x, NEW b, NEW a, NEW d, Covered(t, g, x, b, a, d),
         b # <<>>, NEW c, c = Tail(b), NEW h, h = Head(b),
         NEW z, z = Append(x, [type |-> t, n |-> h])
  PROVE  Covered(t, g, z, c, a, d) /\ Covered(t, g, x, c, a, d \cup {h})
<1>1. Sound(t, g, x, b) /\ a \in Nat /\ d \subseteq 0 .. a
  BY Zenon DEF Covered
<1>2. \A k : On(k, t, g, x, b) <=> k \in 1 .. a /\ k \notin d
  BY Zenon DEF Covered
<1>a. /\ Loses(t, g, x, b, g, x, c, h) /\ h \in Nat \ {0}
      /\ Below(g, h) /\ OwnBelow(t, x, h) /\ Above(c, h)
  BY <1>1, LeaveKernel, Zenon
<1>3. /\ Sound(t, g, x, c) /\ h \in Nat \ {0} /\ On(h, t, g, x, b)
      /\ \A k : On(k, t, g, x, c) <=> On(k, t, g, x, b) /\ k # h
  BY <1>a, Zenon DEF Loses
<1>4. PICK e : e = [type |-> t, n |-> h]
  BY Zenon
<1>5. e \in TxSet /\ Own(t, e) /\ e.n = h
  BY <1>3, <1>4 DEF TxSet, Own
<1>6. Sound(t, g, z, c) /\ \A k : On(k, t, g, z, c) <=> On(k, t, g, x, c) \/ k = h
  <2>1. Below(g, e.n) /\ OwnBelow(t, x, e.n) /\ Above(c, e.n)
    BY <1>a, <1>5, Zenon
  <2>2. Gains(t, g, x, c, g, z, c, e.n)
    BY <1>3, <1>4, <1>5, <2>1, JoinOwn, Zenon
  <2> QED
    BY <1>5, <2>2, Zenon DEF Gains
<1>7. \A k : On(k, t, g, z, c) <=> k \in 1 .. a /\ k \notin d
  BY <1>2, <1>3, <1>6, Zenon
<1>8. \A k : On(k, t, g, x, c) <=> k \in 1 .. a /\ k \notin d \cup {h}
  BY <1>2, <1>3, Zenon
<1>9. d \cup {h} \subseteq 0 .. a
  <2>1. h \in 1 .. a
    BY <1>2, <1>3, Zenon
  <2>2. h \in 0 .. a
    BY <1>1, <2>1
  <2> QED
    BY <1>1, <2>2, Zenon
<1> QED
  BY <1>1, <1>3, <1>6, <1>7, <1>8, <1>9, Zenon DEF Covered

(* A packet arrives.                                                       *)
LEMMA PacketArrives ==
  ASSUME NEW t, NEW g, NEW x, NEW b, NEW a, NEW d, Covered(t, g, x, b, a, d),
         NEW c, c = Append(b, a + 1)
  PROVE  Covered(t, g, x, c, a + 1, d)
<1>1. Sound(t, g, x, b) /\ a \in Nat /\ d \subseteq 0 .. a
  BY Zenon DEF Covered
<1>2. \A k : On(k, t, g, x, b) <=> k \in 1 .. a /\ k \notin d
  BY Zenon DEF Covered
<1>3. PICK h : h = a + 1
  BY Zenon
<1>4. h \in Nat \ {0} /\ (\A k \in 1 .. a : k < h) /\ 1 .. a + 1 = (1 .. a) \cup {h}
  BY <1>1, <1>3
<1>5. h \notin d
  BY <1>1, <1>4
<1>6. Sound(t, g, x, c) /\ \A k : On(k, t, g, x, c) <=> On(k, t, g, x, b) \/ k = h
  <2>1. AllBelow(t, g, x, b, h)
    BY <1>2, <1>4, Zenon DEF AllBelow
  <2>2. Gains(t, g, x, b, g, x, c, h)
    BY <1>1, <1>3, <1>4, <2>1, ReachKernel, Zenon
  <2> QED
    BY <2>2, Zenon DEF Gains
<1>7. \A k : On(k, t, g, x, c) <=> k \in 1 .. a + 1 /\ k \notin d
  BY <1>2, <1>4, <1>5, <1>6, Zenon
<1>8. d \subseteq 0 .. a + 1 /\ a + 1 \in Nat
  BY <1>1
<1> QED
  BY <1>6, <1>7, <1>8, Zenon DEF Covered

(* The TX queue takes an element that says nothing of protocol t.          *)
LEMMA OthersUnmoved ==
  ASSUME NEW e \in TxSet, NEW x, NEW z, z = Append(x, e)
  PROVE  /\ \A t, g, b, a, d : Covered(t, g, x, b, a, d) /\ ~Own(t, e) => Covered(t, g, z, b, a, d)
         /\ \A g, k, st : Answers(g, x, k, st) /\ ~Own("modbus", e) => Answers(g, z, k, st)
<1>1. ASSUME NEW t, NEW g, NEW b, NEW a, NEW d, Covered(t, g, x, b, a, d), ~Own(t, e)
      PROVE  Covered(t, g, z, b, a, d)
  <2>1. Sound(t, g, x, b)
    BY <1>1, Zenon DEF Covered
  <2>2. Sound(t, g, z, b) /\ \A k : On(k, t, g, z, b) <=> On(k, t, g, x, b)
    BY <1>1, <2>1, JoinOther, Zenon
  <2> QED
    BY <1>1, <2>2, Zenon DEF Covered
<1>2. ASSUME NEW g, NEW k, NEW st, Answers(g, x, k, st), ~Own("modbus", e)
      PROVE  Answers(g, z, k, st)
  <2>1. Sound("modbus", g, x, <<>>)
    BY <1>2, Zenon DEF Answers
  <2>2. Sound("modbus", g, z, <<>>)
          /\ \A n : On(n, "modbus", g, z, <<>>) <=> On(n, "modbus", g, x, <<>>)
    BY <1>2, <2>1, JoinOther, Zenon
  <2> QED
    BY <1>2, <2>2, Zenon DEF Answers
<1> QED
  BY <1>1, <1>2, Zenon

(* The register is read for the request that is pending.                   *)
LEMMA AnswerJoins ==
  ASSUME NEW g, NEW x, NEW k, Answers(g, x, k, "PENDING"),
         NEW z, z = Append(x, [type |-> "modbus", n |-> k])
  PROVE  Answers(g, z, k, "IDLE") /\ Answers(g, x, k, "IDLE")
<1>1. Sound("modbus", g, x, <<>>) /\ k \in Nat
  BY Zenon DEF Answers
<1>2. \A n : On(n, "modbus", g, x, <<>>) => n \in Nat /\ n <= k /\ n < k
  BY Zenon DEF Answers
<1>3. Answers(g, x, k, "IDLE")
  BY <1>1, <1>2, Zenon DEF Answers
<1>4. PICK e : e = [type |-> "modbus", n |-> k]
  BY Zenon
<1>5. e \in TxSet /\ e.n = k /\ e.type = "modbus"
  BY <1>1, <1>4 DEF TxSet, Type
<1>6. CASE k = 0
  <2>1. ~Own("modbus", e)
    BY <1>5, <1>6, Zenon DEF Own
  <2> QED
    BY <1>3, <1>4, <1>5, <2>1, OthersUnmoved, Zenon
<1>7. CASE k # 0
  <2>1. Own("modbus", e)
    BY <1>5, <1>7, Zenon DEF Own
  <2>2. Below(g, e.n) /\ OwnBelow("modbus", x, e.n)
    BY <1>2, <1>5, Zenon DEF On, Below, OwnBelow
  <2>3. Above(<<>>, e.n)
    BY DEF Above
  <2>4. Gains("modbus", g, x, <<>>, g, z, <<>>, e.n)
    BY <1>1, <1>4, <1>5, <2>1, <2>2, <2>3, JoinOwn, Zenon
  <2>5. k <= k
    BY <1>1
  <2>6. "IDLE" # "PENDING"
    OBVIOUS
  <2> QED
    BY <1>1, <1>2, <1>3, <1>5, <2>4, <2>5, <2>6, Zenon DEF Answers, Gains
<1> QED
  BY <1>6, <1>7, Zenon

(* A read request is accepted.                                             *)
LEMMA RequestJoins ==
  ASSUME NEW g, NEW x, NEW k, NEW st, Answers(g, x, k, st)
  PROVE  Answers(g, x, k + 1, "PENDING")
<1>1. Sound("modbus", g, x, <<>>) /\ k \in Nat
  BY Zenon DEF Answers
<1>2. \A n : On(n, "modbus", g, x, <<>>) => n \in Nat /\ n <= k
  BY Zenon DEF Answers
<1>3. k + 1 \in Nat /\ \A n \in Nat : n <= k => n <= k + 1 /\ n < k + 1
  BY <1>1
<1> QED
  BY <1>1, <1>2, <1>3, Zenon DEF Answers
-----------------------------------------------------------------------------
(* What a step does to the way up *)

(* The protocols and the variables of UpInv.                               *)
LEMMA Protocols ==
  /\ Wired \subseteq Type /\ "modbus" \in Type /\ "modbus" \notin Wired
  /\ "bluetooth" \in Wired /\ "can" \in Wired
BY DEF Wired, Type

(* A packet of device t is forwarded, or lost.                             *)
LEMMA PollKeepsOrder ==
  ASSUME UpInv, NEW t \in Wired, inbox[t] # <<>>,
         inbox' = [inbox EXCEPT ![t] = Tail(@)],
         UNCHANGED <<got, arrived, taken, sess_state>>,
         \/ Forward(t, Head(inbox[t]))
         \/ dropped' = [dropped EXCEPT ![t] = @ \cup {Head(inbox[t])}] /\ UNCHANGED tx_queue
  PROVE  UpInv'
<1>1. /\ got = [u \in Type |-> got[u]] /\ inbox = [u \in Wired |-> inbox[u]]
      /\ arrived = [u \in Wired |-> arrived[u]] /\ dropped = [u \in Type |-> dropped[u]]
  BY Zenon DEF UpInv
<1>2. /\ \A u \in Wired : Covered(u, got[u], tx_queue, inbox[u], arrived[u], dropped[u])
      /\ Answers(got["modbus"], tx_queue, taken, sess_state)
  BY Zenon DEF UpInv
<1>3. PICK h : h = Head(inbox[t])
  BY Zenon
<1>4. PICK c : c = Tail(inbox[t])
  BY Zenon
<1>5. PICK e : e = [type |-> t, n |-> h]
  BY Zenon
<1>6. PICK z : z = Append(tx_queue, e)
  BY Zenon
<1>7. inbox' = [u \in Wired |-> IF u = t THEN c ELSE inbox[u]]
  BY <1>1, <1>4, Zenon
<1>8. /\ Covered(t, got[t], z, c, arrived[t], dropped[t])
      /\ Covered(t, got[t], tx_queue, c, arrived[t], dropped[t] \cup {h})
  BY <1>2, <1>3, <1>4, <1>5, <1>6, PacketMoves, Protocols, Zenon
<1>9. inbox' = [u \in Wired |-> inbox'[u]]
  BY <1>7, Zenon
<1>10. CASE tx_queue' = z /\ dropped' = dropped
  <2>1. h \in Nat
    BY <1>2, <1>3, LeaveKernel, Zenon DEF Covered
  <2>2. e \in TxSet /\ e.type = t
    BY <1>5, <2>1, Protocols DEF TxSet
  <2>3. \A u : u # t => ~Own(u, e)
    BY <2>2, Zenon DEF Own
  <2>4. /\ \A u \in Wired : u # t => Covered(u, got[u], z, inbox[u], arrived[u], dropped[u])
        /\ Answers(got["modbus"], z, taken, sess_state)
    BY <1>2, <1>6, <2>2, <2>3, OthersUnmoved, Protocols, Zenon
  <2>5. \A u \in Wired : Covered(u, got[u], z, inbox'[u], arrived[u], dropped[u])
    BY <1>7, <1>8, <2>4, Zenon
  <2> QED
    BY <1>1, <1>9, <1>10, <2>4, <2>5, Zenon DEF UpInv
<1>11. CASE dropped' = [dropped EXCEPT ![t] = @ \cup {h}] /\ tx_queue' = tx_queue
  <2>1. dropped' = [u \in Type |-> IF u = t THEN dropped[t] \cup {h} ELSE dropped[u]]
    BY <1>1, <1>11, Zenon
  <2>2. dropped' = [u \in Type |-> dropped'[u]]
    BY <2>1
  <2>3. \A u \in Wired : Covered(u, got[u], tx_queue, inbox'[u], arrived[u], dropped'[u])
    BY <1>2, <1>7, <1>8, <2>1, Protocols, Zenon
  <2> QED
    BY <1>1, <1>2, <1>9, <1>11, <2>2, <2>3, Zenon DEF UpInv
<1> QED
  BY <1>3, <1>5, <1>6, <1>10, <1>11, Zenon DEF Forward

(* An empty buffer is forwarded, or lost.                                  *)
LEMMA EmptyKeepsOrder ==
  ASSUME UpInv, Forward("bluetooth", 0), UNCHANGED <<got, inbox, arrived, taken, sess_state>>
  PROVE  UpInv'
<1>1. /\ got = [u \in Type |-> got[u]] /\ inbox = [u \in Wired |-> inbox[u]]
      /\ arrived = [u \in Wired |-> arrived[u]] /\ dropped = [u \in Type |-> dropped[u]]
  BY Zenon DEF UpInv
<1>2. /\ \A u \in Wired : Covered(u, got[u], tx_queue, inbox[u], arrived[u], dropped[u])
      /\ Answers(got["modbus"], tx_queue, taken, sess_state)
  BY Zenon DEF UpInv
<1>3. PICK e : e = [type |-> "bluetooth", n |-> 0]
  BY Zenon
<1>4. e \in TxSet /\ e.n = 0
  BY <1>3 DEF TxSet, Type, Wired
<1>5. \A u : ~Own(u, e)
  BY <1>4, Zenon DEF Own
<1>6. CASE tx_queue' = Append(tx_queue, e) /\ dropped' = dropped
  <2>1. PICK z : z = Append(tx_queue, e)
    BY Zenon
  <2>2. /\ \A u \in Wired : Covered(u, got[u], z, inbox[u], arrived[u], dropped[u])
        /\ Answers(got["modbus"], z, taken, sess_state)
    BY <1>2, <1>4, <1>5, <2>1, OthersUnmoved, Zenon
  <2> QED
    BY <1>1, <1>6, <2>1, <2>2, Zenon DEF UpInv
<1>7. CASE dropped' = [dropped EXCEPT !["bluetooth"] = @ \cup {0}] /\ tx_queue' = tx_queue
  <2>1. dropped' = [u \in Type |-> IF u = "bluetooth" THEN dropped[u] \cup {0} ELSE dropped[u]]
    BY <1>1, <1>7, Zenon
  <2>2. dropped' = [u \in Type |-> dropped'[u]]
    BY <2>1
  <2>3. ASSUME NEW u \in Wired
        PROVE  Covered(u, got[u], tx_queue, inbox[u], arrived[u], dropped'[u])
    <3>1. Covered(u, got[u], tx_queue, inbox[u], arrived[u], dropped[u])
      BY <1>2, Zenon
    <3>2. CASE dropped'[u] = dropped[u]
      BY <3>1, <3>2, Zenon
    <3>3. CASE dropped'[u] = dropped[u] \cup {0}
      <4>1. arrived[u] \in Nat
        BY <3>1, Zenon DEF Covered
      <4>2. 0 \in 0 .. arrived[u] /\ 0 \notin 1 .. arrived[u]
        BY <4>1
      <4> QED
        BY <3>1, <3>3, <4>1, <4>2, Zenon DEF Covered
    <3> QED
      BY <2>1, <3>2, <3>3, Protocols, Zenon
  <2> QED
    BY <1>1, <1>2, <1>7, <2>2, <2>3, Zenon DEF UpInv
<1> QED
  BY <1>3, <1>6, <1>7, Zenon DEF Forward

(* The answer to what is pending is forwarded, or lost.                    *)
LEMMA AnswerKeepsOrder ==
  ASSUME UpInv, sess_state = "PENDING", sess_state' = "IDLE", Forward("modbus", taken),
         UNCHANGED <<got, inbox, arrived, taken>>
  PROVE  UpInv'
<1>1. /\ got = [u \in Type |-> got[u]] /\ inbox = [u \in Wired |-> inbox[u]]
      /\ arrived = [u \in Wired |-> arrived[u]] /\ dropped = [u \in Type |-> dropped[u]]
  BY Zenon DEF UpInv
<1>2. /\ \A u \in Wired : Covered(u, got[u], tx_queue, inbox[u], arrived[u], dropped[u])
      /\ Answers(got["modbus"], tx_queue, taken, "PENDING")
  BY Zenon DEF UpInv
<1>3. PICK e : e = [type |-> "modbus", n |-> taken]
  BY Zenon
<1>4. PICK z : z = Append(tx_queue, e)
  BY Zenon
<1>5. /\ Answers(got["modbus"], z, taken, "IDLE")
      /\ Answers(got["modbus"], tx_queue, taken, "IDLE")
  BY <1>2, <1>3, <1>4, AnswerJoins, Zenon
<1>6. CASE tx_queue' = z /\ dropped' = dropped
  <2>1. taken \in Nat
    BY <1>2, Zenon DEF Answers
  <2>2. e \in TxSet /\ e.type = "modbus"
    BY <1>3, <2>1, Protocols DEF TxSet
  <2>3. \A u \in Wired : ~Own(u, e)
    BY <2>2, Protocols, Zenon DEF Own
  <2>4. \A u \in Wired : Covered(u, got[u], z, inbox[u], arrived[u], dropped[u])
    BY <1>2, <1>4, <2>2, <2>3, OthersUnmoved, Zenon
  <2> QED
    BY <1>1, <1>5, <1>6, <2>4, Zenon DEF UpInv
<1>7. CASE dropped' = [dropped EXCEPT !["modbus"] = @ \cup {taken}] /\ tx_queue' = tx_queue
  <2>1. /\ dropped' = [u \in Type |-> dropped'[u]]
        /\ \A u \in Type : u # "modbus" => dropped'[u] = dropped[u]
    BY <1>1, <1>7, Zenon
  <2>2. \A u \in Wired : dropped'[u] = dropped[u]
    BY <2>1, Protocols, Zenon
  <2> QED
    BY <1>1, <1>2, <1>5, <1>7, <2>1, <2>2, Zenon DEF UpInv
<1> QED
  BY <1>3, <1>4, <1>6, <1>7, Zenon DEF Forward

(* The frontend takes the first element of the TX queue.                   *)
LEMMA ReceiveKeepsOrder ==
  ASSUME UpInv, FrontendReceive
  PROVE  UpInv'
<1>1. /\ got = [u \in Type |-> got[u]] /\ inbox = [u \in Wired |-> inbox[u]]
      /\ arrived = [u \in Wired |-> arrived[u]] /\ dropped = [u \in Type |-> dropped[u]]
  BY Zenon DEF UpInv
<1>2. /\ \A u \in Wired : Covered(u, got[u], tx_queue, inbox[u], arrived[u], dropped[u])
      /\ Answers(got["modbus"], tx_queue, taken, sess_state)
  BY Zenon DEF UpInv
<1>3. PICK e : e = Head(tx_queue)
  BY Zenon
<1>4. /\ tx_queue # <<>> /\ tx_queue' = Tail(tx_queue)
      /\ got' = IF e.n = 0 THEN got ELSE [got EXCEPT ![e.type] = Append(@, e.n)]
      /\ UNCHANGED <<inbox, arrived, dropped, taken, sess_state>>
  BY <1>3, Zenon DEF FrontendReceive, devVars
<1>5. /\ got' = [u \in Type |-> got'[u]]
      /\ \A u \in Type : got'[u] = IF Own(u, e) THEN Append(got[u], e.n) ELSE got[u]
  <2>1. CASE e.n = 0
    BY <1>1, <1>4, <2>1, Zenon DEF Own
  <2>2. CASE e.n # 0
    <3>1. got' = [u \in Type |-> IF u = e.type THEN Append(got[u], e.n) ELSE got[u]]
      BY <1>1, <1>4, <2>2, Zenon
    <3> QED
      BY <2>2, <3>1, Zenon DEF Own
  <2> QED
    BY <2>1, <2>2, Zenon
<1>6. ASSUME NEW u \in Wired
      PROVE  Covered(u, got'[u], tx_queue', inbox[u], arrived[u], dropped[u])
  <2>1. Covered(u, got[u], tx_queue, inbox[u], arrived[u], dropped[u])
    BY <1>2, Zenon
  <2>2. Sound(u, got[u], tx_queue, inbox[u]) /\ u \in Type
    BY <2>1, Protocols, Zenon DEF Covered
  <2>3. Keeps(u, got[u], tx_queue, inbox[u], got'[u], tx_queue', inbox[u])
    BY <1>3, <1>4, <1>5, <2>2, Received, Zenon
  <2> QED
    BY <2>1, <2>3, Zenon DEF Covered, Keeps
<1>7. Answers(got'["modbus"], tx_queue', taken, sess_state)
  <2>1. Sound("modbus", got["modbus"], tx_queue, <<>>) /\ "modbus" \in Type
    BY <1>2, Protocols, Zenon DEF Answers
  <2>2. Keeps("modbus", got["modbus"], tx_queue, <<>>, got'["modbus"], tx_queue', <<>>)
    BY <1>3, <1>4, <1>5, <2>1, Received, Zenon
  <2> QED
    BY <1>2, <2>2, Zenon DEF Answers, Keeps
<1> QED
  BY <1>1, <1>4, <1>5, <1>6, <1>7, Zenon DEF UpInv

(* A packet arrives from device t.                                         *)
LEMMA ArriveKeepsOrder ==
  ASSUME UpInv, NEW t \in Wired, Arrive(t)
  PROVE  UpInv'
<1>1. /\ got = [u \in Type |-> got[u]] /\ inbox = [u \in Wired |-> inbox[u]]
      /\ arrived = [u \in Wired |-> arrived[u]] /\ dropped = [u \in Type |-> dropped[u]]
  BY Zenon DEF UpInv
<1>2. /\ \A u \in Wired : Covered(u, got[u], tx_queue, inbox[u], arrived[u], dropped[u])
      /\ Answers(got["modbus"], tx_queue, taken, sess_state)
  BY Zenon DEF UpInv
<1>3. PICK c : c = Append(inbox[t], arrived[t] + 1)
  BY Zenon
<1>4. /\ inbox' = [u \in Wired |-> IF u = t THEN c ELSE inbox[u]]
      /\ arrived' = [u \in Wired |-> IF u = t THEN arrived[t] + 1 ELSE arrived[u]]
  BY <1>1, <1>3, Zenon DEF Arrive
<1>5. UNCHANGED <<got, dropped, tx_queue, taken, sess_state>>
  BY Zenon DEF Arrive
<1>6. inbox' = [u \in Wired |-> inbox'[u]] /\ arrived' = [u \in Wired |-> arrived'[u]]
  BY <1>4
<1>7. Covered(t, got[t], tx_queue, c, arrived[t] + 1, dropped[t])
  BY <1>2, <1>3, PacketArrives, Zenon
<1>8. \A u \in Wired : Covered(u, got[u], tx_queue, inbox'[u], arrived'[u], dropped[u])
  BY <1>2, <1>4, <1>7, Zenon
<1> QED
  BY <1>1, <1>2, <1>5, <1>6, <1>8, Zenon DEF UpInv

upVars == <<got, tx_queue, inbox, arrived, dropped, taken, sess_state>>

(* A message of the frontend is at most a read request for Modbus.         *)
LEMMA MessageKeepsOrder ==
  ASSUME UpInv, RxMessage
  PROVE  UpInv'
<1>1. UNCHANGED <<got, tx_queue, inbox, arrived, dropped>>
  BY Zenon DEF RxMessage, devVars
<1>2. CASE sess_state' = "PENDING" /\ taken' = taken + 1
  <2>1. Answers(got["modbus"], tx_queue, taken, sess_state)
    BY Zenon DEF UpInv
  <2>2. Answers(got["modbus"], tx_queue, taken + 1, "PENDING")
    BY <2>1, RequestJoins, Zenon
  <2> QED
    BY <1>1, <1>2, <2>2, Zenon DEF UpInv
<1>3. CASE UNCHANGED <<sess_state, taken>>
  BY <1>1, <1>3, Zenon DEF UpInv
<1>4. IotMessage(Head(rx_queue))
  BY Zenon DEF RxMessage
<1>5. (sess_state' = "PENDING" /\ taken' = taken + 1) \/ UNCHANGED <<sess_state, taken>>
  BY <1>4, Zenon DEF IotMessage, BluetoothMessage, CanMessage, ModbusMessage, ModbusSend, StubMessage
<1> QED
  BY <1>2, <1>3, <1>5, Zenon

(* Every step keeps UpInv.                                                 *)
LEMMA UpStep ==
  ASSUME UpInv, Next
  PROVE  UpInv'
<1>1. ASSUME UNCHANGED upVars
      PROVE  UpInv'
  BY <1>1, Zenon DEF UpInv, upVars
<1>2. ASSUME ParseDevices \/ InitSession \/ StartRunning \/ RxEmpty
      PROVE  UpInv'
  <2>1. UNCHANGED upVars
    BY <1>2, Zenon DEF ParseDevices, InitSession, StartRunning, RxEmpty, devVars, upVars
  <2> QED
    BY <1>1, <2>1, Zenon
<1>3. ASSUME NEW t \in Wired, PollData(t)
      PROVE  UpInv'
  <2>1. /\ inbox[t] # <<>> /\ inbox' = [inbox EXCEPT ![t] = Tail(@)]
        /\ UNCHANGED <<got, arrived, taken, sess_state>>
        /\ \/ Forward(t, Head(inbox[t]))
           \/ dropped' = [dropped EXCEPT ![t] = @ \cup {Head(inbox[t])}] /\ UNCHANGED tx_queue
    BY <1>3, Zenon DEF PollData, Stay, LeaveLoop
  <2> QED
    BY <2>1, PollKeepsOrder, Zenon
<1>4. ASSUME NEW t, PollNothing(t) \/ PollSkip(t)
      PROVE  UpInv'
  <2>1. UNCHANGED upVars
    BY <1>4, Zenon DEF PollNothing, PollSkip, LeaveLoop, upVars
  <2> QED
    BY <1>1, <2>1, Zenon
<1>5. ASSUME PollBluetoothServer
      PROVE  UpInv'
  BY <1>5, EmptyKeepsOrder, Zenon DEF PollBluetoothServer, Stay
<1>6. ASSUME ModbusAnswer
      PROVE  UpInv'
  BY <1>6, AnswerKeepsOrder, Zenon DEF ModbusAnswer, Stay
<1>7. ASSUME ModbusNoAnswer
      PROVE  UpInv'
  <2>1. UNCHANGED upVars
    BY <1>7, Zenon DEF ModbusNoAnswer, LeaveLoop, upVars
  <2> QED
    BY <1>1, <2>1, Zenon
<1>8. ASSUME NEW m \in Messages, FrontendSend(m)
      PROVE  UpInv'
  <2>1. UNCHANGED upVars
    BY <1>8, Zenon DEF FrontendSend, devVars, upVars
  <2> QED
    BY <1>1, <2>1, Zenon
<1>9. ASSUME NEW t \in Wired, Arrive(t) \/ GoDown(t)
      PROVE  UpInv'
  <2>1. CASE GoDown(t)
    <3>1. UNCHANGED upVars
      BY <2>1, Zenon DEF GoDown, upVars
    <3> QED
      BY <1>1, <3>1, Zenon
  <2> QED
    BY <1>9, <2>1, ArriveKeepsOrder, Zenon
<1> QED
  BY <1>2, <1>3, <1>4, <1>5, <1>6, <1>7, <1>8, <1>9, MessageKeepsOrder, ReceiveKeepsOrder, Zenon
     DEF Next, Engine

(* The invariant of the way up.                                            *)
LEMMA UpInvariant == Spec => []UpInv
<1>1. Init => UpInv
  <2> SUFFICES ASSUME Init PROVE UpInv
    OBVIOUS
  <2>1. /\ got = [t \in Type |-> <<>>] /\ inbox = [t \in Wired |-> <<>>] /\ tx_queue = <<>>
        /\ arrived = [t \in Wired |-> 0] /\ dropped = [t \in Type |-> {}]
        /\ taken = 0 /\ sess_state = "IDLE"
    BY Zenon DEF Init
  <2>2. /\ got = [t \in Type |-> got[t]] /\ inbox = [t \in Wired |-> inbox[t]]
        /\ arrived = [t \in Wired |-> arrived[t]] /\ dropped = [t \in Type |-> dropped[t]]
    BY <2>1
  <2>3. \A t : Sound(t, <<>>, <<>>, <<>>) /\ \A k : ~On(k, t, <<>>, <<>>, <<>>)
    BY DEF Sound, On
  <2>4. Answers(<<>>, <<>>, 0, "IDLE")
    BY <2>3, Zenon DEF Answers
  <2>5. \A t : Covered(t, <<>>, <<>>, <<>>, 0, {})
    BY <2>3 DEF Covered
  <2> QED
    BY <2>1, <2>2, <2>4, <2>5, Protocols, Zenon DEF UpInv
<1>2. UpInv /\ [Next]_vars => UpInv'
  <2> SUFFICES ASSUME UpInv, [Next]_vars PROVE UpInv'
    OBVIOUS
  <2>1. CASE UNCHANGED vars
    BY <2>1, Zenon DEF vars, devVars, UpInv
  <2> QED
    BY <2>1, UpStep, Zenon
<1> QED
  BY <1>1, <1>2, PTL DEF Spec

(* What the positions of Sound say of the trail.                           *)
LEMMA TrailInOrder ==
  ASSUME NEW t, NEW b, b = IF t \in Wired THEN inbox[t] ELSE <<>>,
         Sound(t, got[t], tx_queue, b)
  PROVE  InOrder(t) /\ \A k : (\E p \in Trail(t) : p[3] = k) <=> On(k, t, got[t], tx_queue, b)
<1>1. ASSUME NEW p \in Trail(t)
      PROVE  \/ \E i \in DOMAIN got[t] : p = <<1, i, got[t][i]>>
             \/ \E i \in DOMAIN tx_queue : Own(t, tx_queue[i]) /\ p = <<2, i, tx_queue[i].n>>
             \/ \E i \in DOMAIN b : p = <<3, i, b[i]>>
  BY <1>1 DEF Trail, Own
<1>2. /\ \A i \in DOMAIN got[t] : <<1, i, got[t][i]>> \in Trail(t)
      /\ \A i \in DOMAIN tx_queue : Own(t, tx_queue[i]) => <<2, i, tx_queue[i].n>> \in Trail(t)
      /\ \A i \in DOMAIN b : <<3, i, b[i]>> \in Trail(t)
  BY DEF Trail, Own
<1>3. \A x, y, z : <<x, y, z>>[1] = x /\ <<x, y, z>>[2] = y /\ <<x, y, z>>[3] = z
  OBVIOUS
<1>4. ASSUME NEW p \in Trail(t)
      PROVE  \/ p[1] = 1 /\ p[2] \in DOMAIN got[t] /\ p[3] = got[t][p[2]]
             \/ p[1] = 2 /\ p[2] \in DOMAIN tx_queue /\ p[3] = tx_queue[p[2]].n /\ Own(t, tx_queue[p[2]])
             \/ p[1] = 3 /\ p[2] \in DOMAIN b /\ p[3] = b[p[2]]
  <2>1. ASSUME NEW x, NEW y, NEW z, p = <<x, y, z>>
        PROVE  p[1] = x /\ p[2] = y /\ p[3] = z
    BY <2>1
  <2>2. ASSUME NEW i \in DOMAIN got[t], p = <<1, i, got[t][i]>>
        PROVE  p[1] = 1 /\ p[2] \in DOMAIN got[t] /\ p[3] = got[t][p[2]]
    BY <2>1, <2>2, Zenon
  <2>3. ASSUME NEW i \in DOMAIN tx_queue, Own(t, tx_queue[i]), p = <<2, i, tx_queue[i].n>>
        PROVE  /\ p[1] = 2 /\ p[2] \in DOMAIN tx_queue
               /\ p[3] = tx_queue[p[2]].n /\ Own(t, tx_queue[p[2]])
    BY <2>1, <2>3, Zenon
  <2>4. ASSUME NEW i \in DOMAIN b, p = <<3, i, b[i]>>
        PROVE  p[1] = 3 /\ p[2] \in DOMAIN b /\ p[3] = b[p[2]]
    BY <2>1, <2>4, Zenon
  <2> QED
    BY <1>1, <2>2, <2>3, <2>4, Zenon
<1>5. ASSUME NEW p \in Trail(t), NEW q \in Trail(t), Ahead(p, q)
      PROVE  p[3] < q[3]
  <2>1. \/ p[1] = q[1] /\ p[2] < q[2]
        \/ p[1] = 1 /\ q[1] = 2
        \/ p[1] = 1 /\ q[1] = 3
        \/ p[1] = 2 /\ q[1] = 3
    <3>1. p[1] \in {1, 2, 3} /\ q[1] \in {1, 2, 3}
      BY <1>4, Zenon
    <3> QED
      BY <1>5, <3>1 DEF Ahead
  <2>2. 1 # 2 /\ 1 # 3 /\ 2 # 3
    OBVIOUS
  <2>3. CASE p[1] = q[1] /\ p[2] < q[2]
    BY <1>4, <2>2, <2>3, Zenon DEF Sound
  <2>4. CASE p[1] = 1 /\ q[1] = 2
    BY <1>4, <2>2, <2>4, Zenon DEF Sound
  <2>5. CASE p[1] = 1 /\ q[1] = 3
    BY <1>4, <2>2, <2>5, Zenon DEF Sound
  <2>6. CASE p[1] = 2 /\ q[1] = 3
    BY <1>4, <2>2, <2>6, Zenon DEF Sound
  <2> QED
    BY <2>1, <2>3, <2>4, <2>5, <2>6, Zenon
<1>6. ASSUME NEW k
      PROVE  (\E p \in Trail(t) : p[3] = k) <=> On(k, t, got[t], tx_queue, b)
  <2>1. ASSUME NEW p \in Trail(t), p[3] = k
        PROVE  On(k, t, got[t], tx_queue, b)
    BY <1>4, <2>1, Zenon DEF On
  <2>2. ASSUME On(k, t, got[t], tx_queue, b)
        PROVE  \E p \in Trail(t) : p[3] = k
    <3>1. CASE \E i \in DOMAIN got[t] : got[t][i] = k
      BY <1>2, <1>3, <3>1, Zenon
    <3>2. CASE \E i \in DOMAIN tx_queue : Own(t, tx_queue[i]) /\ tx_queue[i].n = k
      BY <1>2, <1>3, <3>2, Zenon
    <3>3. CASE \E i \in DOMAIN b : b[i] = k
      BY <1>2, <1>3, <3>3, Zenon
    <3> QED
      BY <2>2, <3>1, <3>2, <3>3, Zenon DEF On
  <2> QED
    BY <2>1, <2>2, Zenon
<1> QED
  BY <1>5, <1>6, Zenon DEF InOrder

\* Packets of a device reach the frontend in the order they arrived, each
\* once; those missing met a full TX queue or their sender had hung up.
THEOREM UplinkOrderly == Spec => []UplinkInOrder
<1>1. UpInv => UplinkInOrder
  <2> SUFFICES ASSUME UpInv, NEW t \in Wired
               PROVE  InOrder(t) /\ {p[3] : p \in Trail(t)} = (1 .. arrived[t]) \ dropped[t]
    BY Zenon DEF UplinkInOrder
  <2>1. Covered(t, got[t], tx_queue, inbox[t], arrived[t], dropped[t])
    BY Zenon DEF UpInv
  <2>2. PICK b : b = inbox[t]
    BY Zenon
  <2>3. Sound(t, got[t], tx_queue, b)
    BY <2>1, <2>2, Zenon DEF Covered
  <2>4. InOrder(t) /\ \A k : (\E p \in Trail(t) : p[3] = k) <=> On(k, t, got[t], tx_queue, b)
    BY <2>2, <2>3, TrailInOrder, Zenon
  <2>5. \A k : On(k, t, got[t], tx_queue, b) <=> k \in 1 .. arrived[t] /\ k \notin dropped[t]
    BY <2>1, <2>2, Zenon DEF Covered
  <2>6. \A k : k \in {p[3] : p \in Trail(t)} <=> k \in (1 .. arrived[t]) \ dropped[t]
    BY <2>4, <2>5, Zenon
  <2> QED
    BY <2>4, <2>6, Zenon
<1> QED
  BY <1>1, UpInvariant, PTL

\* No Modbus request is answered twice and nothing is answered unasked.
THEOREM AnswersOnce == Spec => []OneAnswerPerRequest
<1>1. UpInv => OneAnswerPerRequest
  <2> SUFFICES ASSUME UpInv PROVE OneAnswerPerRequest
    OBVIOUS
  <2>1. Answers(got["modbus"], tx_queue, taken, sess_state)
    BY Zenon DEF UpInv
  <2>2. Sound("modbus", got["modbus"], tx_queue, <<>>)
    BY <2>1, Zenon DEF Answers
  <2>3. /\ InOrder("modbus")
        /\ \A k : (\E p \in Trail("modbus") : p[3] = k) <=> On(k, "modbus", got["modbus"], tx_queue, <<>>)
    BY <2>2, TrailInOrder, Protocols, Zenon
  <2>4. \A k : On(k, "modbus", got["modbus"], tx_queue, <<>>) => k <= taken
    BY <2>1, Zenon DEF Answers
  <2> QED
    BY <2>3, <2>4, Zenon DEF OneAnswerPerRequest
<1> QED
  BY <1>1, UpInvariant, PTL
=============================================================================
