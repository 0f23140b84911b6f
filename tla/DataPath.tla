------------------------------ MODULE DataPath ------------------------------
(***************************************************************************)
(* The loop of engine_run_hyperamp and the two data paths it drives: from  *)
(* the RX queue to the sockets (f2b) and from the sockets to the TX queue  *)
(* (b2f), for sessions that have been created.  A step of the loop is one  *)
(* message of STEP (1), one session of STEP (2) or (4), one event of STEP  *)
(* (3); the frontend and the peers act between any two of them.            *)
(*                                                                         *)
(* Payload is abstracted to units.  The n-th unit of a stream is the       *)
(* number n, so that loss, duplication and reordering show in the numbers. *)
(* The zones' queues are the FIFOs of module BoundedFifo.  There are fewer *)
(* sessions than MAX_EVENTS.  STEP (5), the IoT devices, is left out.      *)
(***************************************************************************)
EXTENDS Integers, Sequences, Functions

CONSTANTS
  Tcp, Udp,     \* the sessions, by proto_type
  SegLen,       \* units of a data message of the frontend
  SndBuf,       \* SO_SNDBUF in units
  ReadMax,      \* PROXY_MSG_MAX_SIZE in units
  Arrival,      \* units that reach a socket at a time
  Dirty,        \* sessions in whose memory malloc may have left bits set
  ShortSend,    \* send() on a TCP socket may take a part of a segment
  AllocFails,   \* directions, "f2b" and "b2f", in which malloc may fail
  Failure,      \* what may happen to a connection: "fin", "reset", "broken"
  RxRoom, TxRoom,           \* messages the zones' queues can hold
  MaxMessage, MaxArrived    \* bounds: messages, and units, in all

Session == Tcp \cup Udp

ASSUME DataAssumption ==
  /\ Tcp \cap Udp = {}
  /\ {SegLen, ReadMax, RxRoom, TxRoom} \subseteq Nat \ {0}
  /\ {SndBuf, MaxMessage, MaxArrived} \cup Arrival \subseteq Nat
  /\ Dirty \subseteq Session /\ ShortSend \in BOOLEAN
  /\ AllocFails \subseteq {"f2b", "b2f"} /\ Failure \subseteq {"fin", "reset", "broken"}

VARIABLES
  loop,        \* the STEP the engine is in; "killed" and "corrupt" end it
  todo,        \* sessions TAILQ_FOREACH_SAFE has still to visit
  ready,       \* events of epoll_wait not yet handled
  alive,       \* the sessions in the pool
  msg_f2b, msg_b2f,         \* segments of each session
  queue_f2b, queue_b2f,     \* active sessions
  state_f2b, state_b2f,     \* low bit: "linked to queue"
  stray,       \* sessions created with such a bit set (to state properties)
  rx_queue, tx_queue,
  open,        \* sessions the frontend has not closed
  produced,    \* messages the frontend has sent to each session
  got,         \* units the frontend has received from it
  sent,        \* units send() has accepted on each socket
  inq,         \* receive queue of each socket: what arrived, not yet read
  arrived,     \* units that have arrived
  peer         \* "up"; "fin": the peer has closed its side; "reset": the
               \* connection failed; "broken": it failed after a fin

queues == <<msg_f2b, msg_b2f, queue_f2b, queue_b2f, state_f2b, state_b2f>>
frontVars == <<open, produced, got>>
sockVars == <<sent, inq, arrived, peer>>
vars == <<loop, todo, ready, alive, queues, stray, rx_queue, tx_queue, frontVars, sockVars>>

Message(t, s, data) == [type |-> t, sess |-> s, data |-> data]
Units(from, n) == [i \in 1 .. n |-> from + i]
\* the sequences of q, one after the other
Flatten(q) ==
  LET flat[k \in 0 .. Len(q)] == IF k = 0 THEN <<>> ELSE flat[k - 1] \o q[k]
  IN  flat[Len(q)]
\* TAILQ_REMOVE of the entry of session s, if it has one
Without(q, s) ==
  LET i == CHOOSE i \in DOMAIN q : q[i] = s
  IN  IF s \in Range(q) THEN SubSeq(q, 1, i - 1) \o SubSeq(q, i + 1, Len(q)) ELSE q

\* state_f2b and state_b2f of new sessions: create_sess_active masks what
\* malloc returned and sets nothing.
Uninitialised == {state \in [Session -> {0, 1}] : \A s \in Session \ Dirty : state[s] = 0}

Init ==
  /\ loop = "rx" /\ todo = <<>> /\ ready = {}
  /\ alive = Session
  /\ msg_f2b = [s \in Session |-> <<>>] /\ msg_b2f = [s \in Session |-> <<>>]
  /\ queue_f2b = <<>> /\ queue_b2f = <<>>
  /\ state_f2b \in Uninitialised /\ state_b2f \in Uninitialised
  /\ stray = {s \in Session : state_f2b[s] = 1 \/ state_b2f[s] = 1}
  /\ rx_queue = <<>> /\ tx_queue = <<>>
  /\ open = Session
  /\ produced = [s \in Session |-> 0] /\ got = [s \in Session |-> <<>>]
  /\ sent = [s \in Session |-> <<>>] /\ inq = [s \in Session |-> <<>>]
  /\ arrived = [s \in Session |-> 0] /\ peer = [s \in Session |-> "up"]
-----------------------------------------------------------------------------
\* BACKEND_SESS_LINK_TO_QUEUE, for either direction.
LinkAlways(s, queue, state) == Append(queue, s)
Link(s, queue, state) == IF state[s] = 0 THEN Append(queue, s) ELSE queue

LinkF2bForgotten(s) == UNCHANGED <<queue_f2b, state_f2b>>
LinkF2b(s) ==
  /\ queue_f2b' = Link(s, queue_f2b, state_f2b)
  /\ state_f2b' = [state_f2b EXCEPT ![s] = 1]

LinkB2fForgotten(s) == UNCHANGED <<queue_b2f, state_b2f>>
LinkB2f(s) ==
  /\ queue_b2f' = Link(s, queue_b2f, state_b2f)
  /\ state_b2f' = [state_b2f EXCEPT ![s] = 1]

\* high_speed_delete_sess, its part of the data path: both queues are left,
\* the segments freed, a close message sent when the TX queue has room.
\* UNLINK believes the bit: a set bit without a link is TAILQ_REMOVE through
\* uninitialised pointers.
UnlinkF2bOnly(s) ==
  /\ queue_f2b' = Without(queue_f2b, s)
  /\ UNCHANGED queue_b2f
Unlink(s) ==
  /\ queue_f2b' = Without(queue_f2b, s)
  /\ queue_b2f' = Without(queue_b2f, s)

CloseNotice(s) ==
  tx_queue' = IF Len(tx_queue) < TxRoom THEN Append(tx_queue, Message("close", s, <<>>))
                                        ELSE tx_queue

DeleteSess(s) ==
  /\ Unlink(s)
  /\ alive' = alive \ {s}
  /\ msg_f2b' = [msg_f2b EXCEPT ![s] = <<>>]
  /\ msg_b2f' = [msg_b2f EXCEPT ![s] = <<>>]
  /\ state_f2b' = [state_f2b EXCEPT ![s] = 0]
  /\ state_b2f' = [state_b2f EXCEPT ![s] = 0]
  /\ CloseNotice(s)

LinkLies(s) ==
  \/ state_f2b[s] = 1 /\ s \notin Range(queue_f2b)
  \/ state_b2f[s] = 1 /\ s \notin Range(queue_b2f)
-----------------------------------------------------------------------------
(* STEP (1): backend_engine_hyperamp_rx_queue_get until it says AGAIN.     *)

\* backend_proxy_data_msg_process; the error of a message without a session,
\* or without memory for its segment, is ignored.
RxData(m) ==
  /\ m.type = "data"
  /\ \/ /\ m.sess \in alive
        /\ msg_f2b' = [msg_f2b EXCEPT ![m.sess] = Append(@, m.data)]
        /\ LinkF2b(m.sess)
     \/ /\ m.sess \notin alive \/ "f2b" \in AllocFails
        /\ UNCHANGED <<msg_f2b, queue_f2b, state_f2b>>
  /\ UNCHANGED <<loop, alive, msg_b2f, queue_b2f, state_b2f, tx_queue>>

\* __backend_proxy_sess_msg_process_close_ver1
RxClose(m) ==
  /\ m.type = "close"
  /\ \/ m.sess \notin alive /\ UNCHANGED <<loop, alive, queues, tx_queue>>
     \/ m.sess \in alive /\ ~LinkLies(m.sess) /\ DeleteSess(m.sess) /\ UNCHANGED loop
     \/ m.sess \in alive /\ LinkLies(m.sess) /\ loop' = "corrupt"
        /\ UNCHANGED <<alive, queues, tx_queue>>

RxMessage ==
  /\ loop = "rx" /\ rx_queue # <<>>
  /\ rx_queue' = Tail(rx_queue)
  /\ RxData(Head(rx_queue)) \/ RxClose(Head(rx_queue))
  /\ UNCHANGED <<todo, ready, frontVars, sockVars>>

\* AGAIN: on to STEP (2).
RxEmpty ==
  /\ loop = "rx" /\ rx_queue = <<>>
  /\ loop' = "f2b" /\ todo' = queue_f2b
  /\ UNCHANGED <<ready, alive, queues, rx_queue, tx_queue, frontVars, sockVars>>
-----------------------------------------------------------------------------
(* STEP (2): high_speed_data_process_f2b for each session of queue_f2b.    *)

\* The first Len(n) segments go through send(), which takes n[i] units of
\* the i-th; buf_size, SO_SNDBUF at first, has room for each whole segment.
RoomFor(n, i) == SndBuf - SumFunction(SubSeq(n, 1, i - 1)) > SegLen
Sends(s, n) ==
  /\ \A i \in 1 .. Len(n) :
       RoomFor(n, i) /\ (n[i] = SegLen \/ (ShortSend /\ s \in Tcp))
  /\ n # <<>> => peer[s] \in {"up", "fin"}
  /\ sent' = [sent EXCEPT ![s] =
       @ \o Flatten([i \in 1 .. Len(n) |-> SubSeq(msg_f2b[s][i], 1, n[i])])]

\* All segments are sent: the session is detached.
SendOk(s, n) ==
  /\ Len(n) = Len(msg_f2b[s])
  /\ msg_f2b' = [msg_f2b EXCEPT ![s] = <<>>]
  /\ queue_f2b' = Without(queue_f2b, s)
  /\ state_f2b' = [state_f2b EXCEPT ![s] = 0]
  /\ UNCHANGED <<loop, alive, msg_b2f, queue_b2f, state_b2f, tx_queue>>

\* buf_size is used up: BACKEND_PROXY_PROCESS_AGAIN, the session stays.
SendAgainKeeps(s, n) ==
  /\ Len(n) < Len(msg_f2b[s]) /\ ~RoomFor(n, Len(n) + 1)
  /\ UNCHANGED <<loop, alive, queues, tx_queue>>
SendAgainDetaches(s, n) ==
  /\ Len(n) < Len(msg_f2b[s]) /\ ~RoomFor(n, Len(n) + 1)
  /\ msg_f2b' = [msg_f2b EXCEPT ![s] = SubSeq(@, Len(n) + 1, Len(@))]
  /\ queue_f2b' = Without(queue_f2b, s)
  /\ state_f2b' = [state_f2b EXCEPT ![s] = 0]
  /\ UNCHANGED <<loop, alive, msg_b2f, queue_b2f, state_b2f, tx_queue>>
SendAgain(s, n) ==
  /\ Len(n) < Len(msg_f2b[s]) /\ ~RoomFor(n, Len(n) + 1)
  /\ msg_f2b' = [msg_f2b EXCEPT ![s] = SubSeq(@, Len(n) + 1, Len(@))]
  /\ UNCHANGED <<loop, alive, msg_b2f, queue_f2b, queue_b2f, state_f2b, state_b2f, tx_queue>>

\* send() returns -1: the connection failed, or the socket, which does not
\* block, has no room (EAGAIN).  After a fin and a reset the error is EPIPE,
\* with SIGPIPE at its default action.
SendError(s, n) ==
  /\ Len(n) < Len(msg_f2b[s]) /\ RoomFor(n, Len(n) + 1)
  /\ \/ peer[s] # "broken" /\ ~LinkLies(s) /\ DeleteSess(s) /\ UNCHANGED loop
     \/ /\ \/ peer[s] # "broken" /\ LinkLies(s) /\ loop' = "corrupt"
           \/ peer[s] = "broken" /\ loop' = "killed"
        /\ msg_f2b' = [msg_f2b EXCEPT ![s] = SubSeq(@, Len(n) + 1, Len(@))]
        /\ UNCHANGED <<alive, msg_b2f, queue_f2b, queue_b2f, state_f2b, state_b2f, tx_queue>>

Counts(s) == UNION {[1 .. k -> 1 .. SegLen] : k \in 0 .. Len(msg_f2b[s])}

DataProcessF2b ==
  /\ loop = "f2b" /\ todo # <<>>
  /\ todo' = Tail(todo)
  /\ LET s == Head(todo)
     IN  \E n \in Counts(s) :
           Sends(s, n) /\ (SendOk(s, n) \/ SendAgain(s, n) \/ SendError(s, n))
  /\ UNCHANGED <<ready, rx_queue, frontVars, inq, arrived, peer>>
-----------------------------------------------------------------------------
(* STEP (3): poller_run and high_speed_data_process_nns.                   *)

Event(s) == [sess |-> s, hup |-> peer[s] \in {"reset", "broken"}]

\* STEP (2) is over; epoll_wait reports what is ready now.
Poll ==
  /\ loop = "f2b" /\ todo = <<>>
  /\ loop' = "nns"
  /\ ready' = {Event(s) : s \in {t \in alive : inq[t] # <<>> \/ peer[t] # "up"}}
  /\ UNCHANGED <<todo, alive, queues, rx_queue, tx_queue, frontVars, sockVars>>

\* EPOLLERR or EPOLLHUP: skipped.
NnsSkip(e) ==
  /\ e.hup
  /\ UNCHANGED <<msg_b2f, queue_b2f, state_b2f, inq>>

CutStopsEarly(stream, max) ==
  [i \in 1 .. (Len(stream) - 1) \div max |-> SubSeq(stream, (i - 1) * max + 1, i * max)]
Cut(stream, max) ==
  [i \in 1 .. (Len(stream) + max - 1) \div max |->
     SubSeq(stream, (i - 1) * max + 1, IF i * max < Len(stream) THEN i * max ELSE Len(stream))]

\* TCP: the bytes SIOCINQ counts are read in pieces of ReadMax.  When malloc
\* fails the rest stays in the socket and the session is not linked.
NnsTcp(e) ==
  LET s == e.sess
      pieces == Cut(Flatten(inq[s]), ReadMax)
  IN  /\ ~e.hup /\ s \in Tcp
      /\ \E k \in 0 .. Len(pieces) :
           /\ k < Len(pieces) => "b2f" \in AllocFails
           /\ msg_b2f' = [msg_b2f EXCEPT ![s] = @ \o SubSeq(pieces, 1, k)]
           /\ inq' = [inq EXCEPT ![s] = SubSeq(pieces, k + 1, Len(pieces))]
           /\ IF k = Len(pieces) THEN LinkB2f(s) ELSE UNCHANGED <<queue_b2f, state_b2f>>

\* UDP: read() takes one datagram and drops what exceeds ReadMax.
Taken(q) ==
  [i \in 1 .. Len(q) |-> IF Len(q[i]) < ReadMax THEN q[i] ELSE SubSeq(q[i], 1, ReadMax)]

\* The numbers of datagrams that use up the count SIOCINQ gave: the length of
\* the first one.
Enough(q) ==
  LET used[k \in 0 .. Len(q)] == IF k = 0 THEN 0 ELSE used[k - 1] + Len(Taken(q)[k])
  IN  {k \in 0 .. Len(q) : used[k] >= Len(q[1])}

\* The loop goes on until the count is used up, or read() fails because no
\* datagram is left.
Rounds(q) ==
  IF Enough(q) = {} THEN Len(q) ELSE CHOOSE i \in Enough(q) : \A j \in Enough(q) : i <= j

NnsUdp(e) ==
  LET s == e.sess
      k == Rounds(inq[s])
  IN  /\ ~e.hup /\ s \in Udp
      /\ inq[s] # <<>>
      /\ \E j \in 0 .. k :
           /\ j < k => "b2f" \in AllocFails
           /\ msg_b2f' = [msg_b2f EXCEPT ![s] = @ \o SubSeq(Taken(inq[s]), 1, j)]
           /\ inq' = [inq EXCEPT ![s] = SubSeq(@, j + 1, Len(@))]
           /\ IF j = k /\ Enough(inq[s]) # {} THEN LinkB2f(s) ELSE UNCHANGED <<queue_b2f, state_b2f>>

DataProcessNns ==
  /\ loop = "nns"
  /\ \E e \in ready :
       /\ ready' = ready \ {e}
       /\ NnsSkip(e) \/ NnsTcp(e) \/ NnsUdp(e)
  /\ UNCHANGED <<loop, todo, alive, msg_f2b, queue_f2b, state_f2b, rx_queue, tx_queue,
                 frontVars, sent, arrived, peer>>

NnsDone ==
  /\ loop = "nns" /\ ready = {}
  /\ loop' = "b2f" /\ todo' = queue_b2f
  /\ UNCHANGED <<ready, alive, queues, rx_queue, tx_queue, frontVars, sockVars>>
-----------------------------------------------------------------------------
(* STEP (4): high_speed_data_process_b2f for each session of queue_b2f,    *)
(* until the TX queue is full.  The frontend may make room between two     *)
(* puts; that it does so only between two steps leaves out no order.       *)

DataProcessB2f ==
  LET s == Head(todo)
      q == msg_b2f[s]
      room == TxRoom - Len(tx_queue)
      k == IF Len(q) < room THEN Len(q) ELSE room
  IN  /\ loop = "b2f" /\ todo # <<>>
      /\ tx_queue' = tx_queue \o [i \in 1 .. k |-> Message("data", s, q[i])]
      /\ msg_b2f' = [msg_b2f EXCEPT ![s] = SubSeq(q, k + 1, Len(q))]
      /\ IF k = Len(q)
         THEN /\ queue_b2f' = Without(queue_b2f, s)
              /\ state_b2f' = [state_b2f EXCEPT ![s] = 0]
              /\ todo' = Tail(todo)
         ELSE todo' = <<>> /\ UNCHANGED <<queue_b2f, state_b2f>>
      /\ UNCHANGED <<loop, ready, alive, msg_f2b, queue_f2b, state_f2b, rx_queue,
                     frontVars, sockVars>>

\* Back to STEP (1).
B2fDone ==
  /\ loop = "b2f" /\ todo = <<>>
  /\ loop' = "rx"
  /\ UNCHANGED <<todo, ready, alive, queues, rx_queue, tx_queue, frontVars, sockVars>>

Engine ==
  \/ RxMessage \/ RxEmpty \/ DataProcessF2b \/ Poll
  \/ DataProcessNns \/ NnsDone \/ DataProcessB2f \/ B2fDone
-----------------------------------------------------------------------------
(* External: the frontend, and the peers with the kernel's sockets.        *)

engineVars == <<loop, todo, ready, alive, queues>>

FrontendSends(s) ==
  /\ s \in open /\ SumFunction(produced) < MaxMessage /\ Len(rx_queue) < RxRoom
  /\ rx_queue' = Append(rx_queue, Message("data", s, Units(produced[s] * SegLen, SegLen)))
  /\ produced' = [produced EXCEPT ![s] = @ + 1]
  /\ UNCHANGED <<engineVars, tx_queue, open, got, sockVars>>

FrontendCloses(s) ==
  /\ s \in open /\ Len(rx_queue) < RxRoom
  /\ rx_queue' = Append(rx_queue, Message("close", s, <<>>))
  /\ open' = open \ {s}
  /\ UNCHANGED <<engineVars, tx_queue, produced, got, sockVars>>

FrontendReads ==
  LET m == Head(tx_queue)
  IN  /\ tx_queue # <<>>
      /\ tx_queue' = Tail(tx_queue)
      /\ got' = [got EXCEPT ![m.sess] = @ \o m.data]
      /\ UNCHANGED <<engineVars, rx_queue, open, produced, sockVars>>

PeerSends(s, n) ==
  /\ s \in alive /\ peer[s] = "up" /\ SumFunction(arrived) + n <= MaxArrived
  /\ inq' = [inq EXCEPT ![s] = Append(@, Units(arrived[s], n))]
  /\ arrived' = [arrived EXCEPT ![s] = @ + n]
  /\ UNCHANGED <<engineVars, rx_queue, tx_queue, frontVars, sent, peer>>

PeerFails(s, how) ==
  /\ s \in alive
  /\ \/ how = "fin" /\ s \in Tcp /\ peer[s] = "up"
     \/ how = "reset" /\ peer[s] = "up"
     \/ how = "broken" /\ peer[s] = "fin"
  /\ peer' = [peer EXCEPT ![s] = how]
  /\ UNCHANGED <<engineVars, rx_queue, tx_queue, frontVars, sent, inq, arrived>>

Next ==
  /\ \/ Engine
     \/ \E s \in Session : FrontendSends(s) \/ FrontendCloses(s)
     \/ FrontendReads
     \/ \E s \in Session, n \in Arrival : PeerSends(s, n)
     \/ \E s \in Session, how \in Failure : PeerFails(s, how)
  /\ UNCHANGED stray

\* The engine's loop runs and the frontend keeps polling its queue.
Fairness == WF_vars(Engine /\ UNCHANGED stray) /\ WF_vars(FrontendReads /\ UNCHANGED stray)

Spec == Init /\ [][Next]_vars /\ Fairness
-----------------------------------------------------------------------------
(***************************************************************************)
(* The variables have their types, and the queues between the zones stay   *)
(* within their room: delete_sess, too, puts no message into a full queue. *)
(***************************************************************************)
TypeOK ==
  /\ loop \in {"rx", "f2b", "nns", "b2f", "killed", "corrupt"}
  /\ alive \subseteq Session /\ open \subseteq Session
  /\ \A q \in {todo, queue_f2b, queue_b2f} : Range(q) \subseteq Session
  /\ \A e \in ready : e.sess \in Session /\ e.hup \in BOOLEAN
  /\ {state_f2b, state_b2f} \subseteq [Session -> {0, 1}]
  /\ \A m \in Range(rx_queue) \cup Range(tx_queue) :
       m.type \in {"data", "close"} /\ m.sess \in Session
  /\ Len(rx_queue) <= RxRoom /\ Len(tx_queue) <= TxRoom
  /\ produced \in [Session -> 0 .. MaxMessage] /\ arrived \in [Session -> 0 .. MaxArrived]
  /\ peer \in [Session -> {"up", "fin", "reset", "broken"}]

InTransit(queue, s) ==
  Flatten([i \in DOMAIN queue |-> IF queue[i].sess = s THEN queue[i].data ELSE <<>>])

(***************************************************************************)
(* What the frontend sends to a session that lives is given to its socket  *)
(* whole, once and in order: sent, queued in the session and under way,    *)
(* in that order, it is exactly what was produced (data_msg_process, STEP  *)
(* (2), and the AGAIN path between them), as long as segments can be       *)
(* allocated for it.                                                       *)
(***************************************************************************)
F2bInOrder ==
  \A s \in alive :
    sent[s] \o Flatten(msg_f2b[s]) \o InTransit(rx_queue, s)
      = Units(0, produced[s] * SegLen)

(***************************************************************************)
(* What a peer sends reaches the frontend whole, once and in order, across *)
(* poller_run, the session's queue and a TX queue that fills up.           *)
(***************************************************************************)
B2fInOrder ==
  \A s \in alive :
    got[s] \o InTransit(tx_queue, s) \o Flatten(msg_b2f[s]) \o Flatten(inq[s])
      = Units(0, arrived[s])

(***************************************************************************)
(* session.h:101-106: the low bit of state_f2b and state_b2f "means the    *)
(* entries node of the current session is linked to the queue", unless the *)
(* bit was there before the session; and a session is linked once at most. *)
(***************************************************************************)
LinkStateTrue ==
  /\ \A s \in alive \ stray :
       /\ state_f2b[s] = 1 <=> s \in Range(queue_f2b)
       /\ state_b2f[s] = 1 <=> s \in Range(queue_b2f)
  /\ IsInjective(queue_f2b) /\ IsInjective(queue_b2f)

(***************************************************************************)
(* The loops over queue_f2b, queue_b2f and the epoll events only visit     *)
(* sessions that have not been freed, whatever was deleted while they were *)
(* linked: delete_sess leaves no pointer behind.                           *)
(***************************************************************************)
VisitsLiveSessions ==
  Range(todo) \cup Range(queue_f2b) \cup Range(queue_b2f) \cup {e.sess : e \in ready}
    \subseteq alive

(***************************************************************************)
(* A segment in a session's queue is not forgotten: the session is linked  *)
(* to the active queue, or its socket holds unread data, so that the next  *)
(* poller_run links it ("Should retry next time").  Sessions created with  *)
(* a stray link bit are the exception.                                     *)
(***************************************************************************)
ForgottenF2b == {s \in alive : msg_f2b[s] # <<>> /\ s \notin Range(queue_f2b)}
ForgottenB2f ==
  {s \in alive : msg_b2f[s] # <<>> /\ s \notin Range(queue_b2f) /\ inq[s] = <<>>}
Forgotten == ForgottenF2b \cup ForgottenB2f

NothingForgotten == Forgotten \subseteq stray

(***************************************************************************)
(* backend_proto.c:779: the engine "will process all sessions in queue_f2b *)
(* and forward all data messages in each msg_f2b queue", without the       *)
(* exception.                                                              *)
(***************************************************************************)
AllSessionsServed == Forgotten = {}

(***************************************************************************)
(* Data the frontend sent is given to the socket sooner or later, unless   *)
(* the session is deleted; data of a peer whose connection has not failed  *)
(* reaches the frontend.                                                   *)
(***************************************************************************)
F2bForwarded ==
  \A s \in Session : []<>(s \notin alive \/ Len(sent[s]) = produced[s] * SegLen)

B2fForwarded ==
  \A s \in Session :
    []<>(s \notin alive \/ peer[s] \in {"reset", "broken"} \/ Len(got[s]) = arrived[s])

(***************************************************************************)
(* session_pool.c:1030: a send buffer without room makes data_process_f2b  *)
(* "return BACKEND_PROXY_PROCESS_AGAIN to indicate a retry is needed": a   *)
(* session goes only when the frontend closes it or its connection fails.  *)
(***************************************************************************)
FullBufferIsRetried == \A s \in Session \ alive : s \notin open \/ peer[s] # "up"

(***************************************************************************)
(* engine.c:3215: "If a socket close event is detected (e.g., TCP four-way *)
(* handshake), construct a session close message".                         *)
(***************************************************************************)
PeerCloseEndsSession == \A s \in Tcp : peer[s] = "fin" ~> s \notin alive

(***************************************************************************)
(* session_pool.c:1028: "If send() fails, log an error, and return         *)
(* BACKEND_PROXY_PROCESS_ERROR": a failed send costs its session, not the  *)
(* engine.                                                                 *)
(***************************************************************************)
EngineSurvives == loop # "killed"
=============================================================================
