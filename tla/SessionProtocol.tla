-------------------------- MODULE SessionProtocol --------------------------
(***************************************************************************)
(* The session protocol of the two zones: a frontend that opens and closes *)
(* sessions, the RX queue with its commands, the backend's session pool,   *)
(* and the TX queue with its answers.                                      *)
(*                                                                         *)
(* The frontend is not in this repository.  It is modelled from what the   *)
(* backend's code expects of it: a create command carries the frontend id  *)
(* and BACKEND_HANDOVER_SESSION_ID, its response brings the backend id,    *)
(* which close commands carry from then on; a close response is matched by *)
(* the frontend id.  It opens a session of an id only when the id has      *)
(* none, and acts on no response twice.                                    *)
(***************************************************************************)
EXTENDS SessionPool

CONSTANT RxRoom   \* messages the RX queue can hold

ASSUME RxAssumption == RxRoom \in Nat \ {0}

VARIABLES
  rx_queue,   \* commands on their way to the backend
  view,       \* the frontend's state of each of its ids
  bid,        \* the backend id it knows for it, HANDOVER when none
  queue_f2b,  \* ids of the sessions linked to queue_f2b: they have data to send
  lost        \* frontend ids a full TX queue has cost a message (to state
              \* properties; no code knows it)

frontVars == <<view, bid>>
protoVars == <<vars, rx_queue, frontVars, queue_f2b, lost>>

Command(t, f, b, want) == [type |-> t, front |-> f, back |-> b, want |-> want]

ProtoInit ==
  /\ Init
  /\ rx_queue = <<>>
  /\ view = [f \in FrontId |-> "closed"]
  /\ bid = [f \in FrontId |-> HANDOVER]
  /\ queue_f2b = {}
  /\ lost = {}

FrontendSends(f, from, to, c) ==
  /\ view[f] = from
  /\ view' = [view EXCEPT ![f] = to]
  /\ Len(rx_queue) < RxRoom
  /\ rx_queue' = Append(rx_queue, c)
  /\ UNCHANGED <<vars, bid, queue_f2b, lost>>

FrontendCreate(f, want) ==
  FrontendSends(f, "closed", "opening", Command("create", f, HANDOVER, want))

FrontendClose(f) ==
  FrontendSends(f, "open", "closing", Command("close", f, bid[f], AUTO))

FrontendData(f) ==
  FrontendSends(f, "open", "open", Command("data", f, bid[f], AUTO))

\* The next message of the TX queue: a created session is open; a failed
\* create, and a close, asked for or not, leaves the id closed.
FrontendReceive ==
  LET m == Head(tx_queue)
      opened == m.type = "create" /\ m.ok
  IN  /\ FrontendTakes
      /\ view' = [view EXCEPT ![m.front] = IF opened THEN "open" ELSE "closed"]
      /\ bid' = [bid EXCEPT ![m.front] = IF opened THEN m.back ELSE HANDOVER]
      /\ UNCHANGED <<rx_queue, queue_f2b, lost>>

\* backend_proxy_data_msg_process: only the backend id counts.
DataMessage(b) ==
  \/ /\ Idle /\ b \notin Dangling
     /\ queue_f2b' = IF b \in Live THEN queue_f2b \cup {b} ELSE queue_f2b
     /\ UNCHANGED vars
  \/ SearchCorrupts /\ UNCHANGED queue_f2b

\* The last word to frontend id f, when the TX queue is full.
LastWord(f) == lost' = IF Len(tx_queue) >= TxRoom THEN lost \cup {f} ELSE lost

\* STEP (1) of engine_run_hyperamp: the next message is taken and processed
\* by backend_proxy_sess_msg_process_ver1 or backend_proxy_data_msg_process.
BackendHandles ==
  LET c == Head(rx_queue)
  IN  /\ rx_queue # <<>>
      /\ rx_queue' = Tail(rx_queue)
      /\ \/ /\ c.type = "create" /\ CreateActive(c.front, c.want) /\ UNCHANGED queue_f2b
            /\ IF reclaiming' = {} THEN LastWord(c.front) ELSE UNCHANGED lost
         \/ /\ c.type = "close" /\ Close(c.front, c.back) /\ queue_f2b' = queue_f2b \ {c.back}
            /\ IF sess' = sess THEN UNCHANGED lost
               ELSE \E s \in sess \ sess' : LastWord(s.front)
         \/ c.type = "data" /\ DataMessage(c.back) /\ UNCHANGED lost
      /\ UNCHANGED frontVars

BackendReclaims ==
  /\ \E r \in reclaiming : Reclaim(r) /\ LastWord(r.front)
  /\ UNCHANGED <<rx_queue, frontVars, queue_f2b>>

\* STEP (2) for one session of queue_f2b: its data is sent, or the send
\* fails and the session is deleted.  A send that leaves data behind
\* (BACKEND_PROXY_PROCESS_AGAIN) changes nothing here.  STEP (2) starts when
\* STEP (1) has found the RX queue empty, but the frontend may refill the
\* queue before the sends are done; the model lets them happen any time.
BackendSends(s) ==
  /\ s.id \in queue_f2b
  /\ queue_f2b' = queue_f2b \ {s.id}
  /\ \/ Idle /\ UNCHANGED <<vars, lost>>
     \/ SocketError(s) /\ LastWord(s.front)
  /\ UNCHANGED <<rx_queue, frontVars>>

ProtoNext ==
  \/ \E f \in FrontId, want \in Want : FrontendCreate(f, want)
  \/ \E f \in FrontId : FrontendClose(f) \/ FrontendData(f)
  \/ FrontendReceive
  \/ BackendHandles
  \/ BackendReclaims
  \/ \E s \in sess : BackendSends(s)

\* The engine loop keeps taking commands and the frontend keeps polling; an
\* application need not open or close anything, sockets need not fail.
ProtoFairness ==
  /\ WF_protoVars(BackendHandles) /\ WF_protoVars(BackendReclaims)
  /\ WF_protoVars(FrontendReceive)

ProtoSpec == ProtoInit /\ [][ProtoNext]_protoVars /\ ProtoFairness
-----------------------------------------------------------------------------
Quiet == rx_queue = <<>> /\ tx_queue = <<>> /\ reclaiming = {}

Opened == {[front |-> f, id |-> bid[f]] : f \in {g \in FrontId : view[g] = "open"}}
Pooled == {[front |-> s.front, id |-> s.id] : s \in sess}

\* Frontend ids with a session at one end that the other does not have.
Unmatched ==
  IF Quiet /\ engine = "run"
  THEN {p.front : p \in (Opened \ Pooled) \cup (Pooled \ Opened)} ELSE {}

(***************************************************************************)
(* When no message is under way, the frontend's open sessions and those of *)
(* the pool name each other, whatever sockets failed and commands crossed, *)
(* but for frontend ids that lost a message to a full TX queue: the loss   *)
(* of one id never unsettles another.                                      *)
(***************************************************************************)
OneToOne == Unmatched \subseteq lost

(***************************************************************************)
(* README.md:9: the backend's sessions correspond one to one to the        *)
(* frontend's, full queue or not.                                          *)
(***************************************************************************)
AlwaysOneToOne == Unmatched = {}

(***************************************************************************)
(* However many responses a full TX queue loses, the pool never holds two  *)
(* sessions of one frontend id: the frontend does not create again before  *)
(* it has learnt that the session is gone, and a create the backend undid  *)
(* leaves no session behind.                                               *)
(***************************************************************************)
OneSessionPerFrontend == \A s, t \in sess : s.front = t.front => s = t

\* Frontend ids whose message, next in the RX queue, names a session of
\* another one.
Misdirected ==
  IF rx_queue # <<>> /\ \E s \in sess : s.id = Head(rx_queue).back /\ s.front # Head(rx_queue).front
  THEN {Head(rx_queue).front} ELSE {}

(***************************************************************************)
(* A session is looked up by the backend id of a message alone.  A message *)
(* of a frontend id that lost no notice still finds its own session or     *)
(* none: the id has not gone to another frontend id since it was sent.     *)
(***************************************************************************)
MessagesHitOwnSession == Misdirected \subseteq lost

(***************************************************************************)
(* backend_proto.c:678: the close handler "validates the session           *)
(* identifiers": no message ever acts on the session of another id.        *)
(***************************************************************************)
NoMessageMisdirected == Misdirected = {}

(***************************************************************************)
(* Every create and every close command of the frontend is answered, by    *)
(* its own response or by the close of a session whose socket failed while *)
(* the command was under way: the frontend does not wait forever, unless   *)
(* it lost a message or the engine has ended.                              *)
(***************************************************************************)
CommandsAnswered ==
  \A f \in FrontId : view[f] \in {"opening", "closing"} ~>
    (view[f] \in {"open", "closed"} \/ f \in lost \/ engine # "run")
=============================================================================
