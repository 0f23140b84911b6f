---------------------------- MODULE SessionPool ----------------------------
(***************************************************************************)
(* The session pool of session_pool.c with what its operations touch: the  *)
(* id queue, the hash table, the session nodes of the devices and the TX   *)
(* queue that carries the responses.  The engine is single-threaded, so an *)
(* operation is one step; only the frontend, which empties the TX queue,   *)
(* can act in the middle of one, and the code tells the difference in one  *)
(* place: between the two sends of a create whose first response did not   *)
(* fit (variable reclaiming).                                              *)
(*                                                                         *)
(* high_speed_create_sess_active does not assign new_sess->dev_id, so the  *)
(* field of a new session holds what malloc left there: any member of      *)
(* HeapDev.  malloc itself succeeds.  Positions and dev_ids of the devices *)
(* coincide, as in hs_net_dev.ini.  sess_num is a statistic no code reads  *)
(* and is left out; passive sessions are left out because engine_init      *)
(* opens no listening socket, so nothing calls their create function.      *)
(***************************************************************************)
EXTENDS RoundRobin, Sequences, FiniteSets, Functions

CONSTANTS
  DevNum,     \* eng->dev_num
  Active,     \* devices whose dev_status is HS_NET_DEV_ACTIVE
  NodeNum,    \* MAX_SESS_NODE_NUM
  IdNum,      \* number of backend session ids, 1024 in fill_id_queue
  FrontId,    \* frontend session ids
  Want,       \* dev_id values of the create commands
  HeapDev,    \* values of an uninitialised dev_id
  TxRoom      \* messages the TX queue can hold

ASSUME DevNumAssumption == DevNum \in 0 .. 16   \* MAX_HS_DEV_NUM

Pos == 0 .. DevNum - 1

ASSUME PoolAssumption ==
  /\ Active \subseteq Pos
  /\ NodeNum \in Nat /\ IdNum \in Nat /\ TxRoom \in Nat
  /\ Want \subseteq Nat /\ HeapDev \subseteq Int

VARIABLES
  id_queue,     \* free backend session ids, a FIFO
  sess,         \* the allocated session objects
  htable,       \* ids in the hash table
  free_nodes,   \* length of each device's free_node_queue
  last_pos,     \* of the round robin selector
  reclaiming,   \* the create that is being undone, if any
  tx_queue,
  engine        \* "run"; "abort": an assertion or a null pointer ended the
                \* process; "corrupt": freed or foreign memory was used

poolVars == <<id_queue, sess, htable, free_nodes, last_pos, reclaiming, engine>>
vars == <<poolVars, tx_queue>>

Id == 1 .. IdNum
AUTO == 255       \* DEV_ID_AUTO_HANDOVER
HANDOVER == 0     \* stands for BACKEND_HANDOVER_SESSION_ID, 0xFFFF
MaxDev == 0 .. 15 \* the entries of hs_net_dev: MAX_HS_DEV_NUM

Live == {s.id : s \in sess}
\* Hash table entries whose session object has been freed.
Dangling == htable \ (Live \cup {r.id : r \in reclaiming})

Response(t, ok, f, b) == [type |-> t, ok |-> ok, front |-> f, back |-> b]
CreateFailed(f) == Response("create", FALSE, f, HANDOVER)

\* build_proxy_general_message with MEMORY_ALLOC_AMPQUEUE; the callers of
\* the standalone sender ignore a full queue.
Deliver(m) == tx_queue' = IF Len(tx_queue) < TxRoom THEN Append(tx_queue, m) ELSE tx_queue

\* high_speed_init_pool, engine_init_hs_net_dev
Init ==
  /\ id_queue = [i \in Id |-> i]
  /\ sess = {}
  /\ htable = {}
  /\ free_nodes = [d \in Pos |-> NodeNum]
  /\ last_pos = -1
  /\ reclaiming = {}
  /\ tx_queue = <<>>
  /\ engine = "run"

Idle == engine = "run" /\ reclaiming = {}

\* release_id: to the end of the queue.
ReleaseIdToFront(i) == id_queue' = <<i>> \o id_queue
ReleaseId(i) == id_queue' = Append(id_queue, i)

\* high_speed_insert_sess; the ids are distinct, so HASH_FIND finds none.
InsertSessReplaces(i) == htable' = {i}
InsertSess(i) == htable' = htable \cup {i}

\* HIGH_SPEED_NET_DEV_POP_FREE_SESSION_NODE finds a node.
NodeAvailable(d) == free_nodes[d] > 0
-----------------------------------------------------------------------------
(***************************************************************************)
(* high_speed_create_sess_active, one action per way out.                  *)
(***************************************************************************)

\* allocate_id returns 0.
CreateNoId(f) ==
  /\ Idle /\ id_queue = <<>>
  /\ Deliver(CreateFailed(f))
  /\ UNCHANGED poolVars

\* A failed create gives the id it took back.
RecycleIdLost == id_queue' = Tail(id_queue)
RecycleId == id_queue' = Append(Tail(id_queue), Head(id_queue))

\* No device at all, or the selector finds none.
CreateNoDevice(f, want) ==
  LET w == RoundRobinWalk(DevNum, Active, last_pos)
  IN  /\ Idle /\ id_queue # <<>>
      /\ DevNum = 0 \/ (want = AUTO /\ ~w.found)
      /\ last_pos' = w.pos
      /\ RecycleId
      /\ Deliver(CreateFailed(f))
      /\ UNCHANGED <<sess, htable, free_nodes, reclaiming, engine>>

\* An id is taken and the command, or the selector, names device d.
Selected(want, d) ==
  LET w == RoundRobinWalk(DevNum, Active, last_pos)
  IN  /\ Idle /\ id_queue # <<>> /\ DevNum > 0
      /\ IF want = AUTO
         THEN w.found /\ d = w.pos /\ last_pos' = w.pos
         ELSE d = want /\ UNCHANGED last_pos

\* GET_NS_ID asserts that d is an active device.
CreateAsserts(f, want, d) ==
  /\ Selected(want, d) /\ d \notin Active
  /\ engine' = "abort"
  /\ UNCHANGED <<id_queue, sess, htable, free_nodes, reclaiming, tx_queue>>

\* The socket cannot be created, connected or registered with epoll, or the
\* device has no free session node.  A node that was taken is put back.
CreateRefusedSilently(f, want, d) ==
  /\ Selected(want, d) /\ d \in Active
  /\ RecycleId
  /\ UNCHANGED <<sess, htable, free_nodes, reclaiming, tx_queue, engine>>
CreateRefused(f, want, d) ==
  /\ Selected(want, d) /\ d \in Active
  /\ RecycleId
  /\ Deliver(CreateFailed(f))
  /\ UNCHANGED <<sess, htable, free_nodes, reclaiming, engine>>

\* HASH_ADD appends to a freed session, the last one linked.
CreateCorrupts(f, want, d) ==
  /\ Selected(want, d) /\ d \in Active /\ NodeAvailable(d)
  /\ Dangling # {}
  /\ engine' = "corrupt"
  /\ UNCHANGED <<id_queue, sess, htable, free_nodes, reclaiming, tx_queue>>

\* insert_sess has added the session and the response does not fit: the node
\* goes back (recycle_sess_node), the table entry stays.
CreateUnsent(f, want, d) ==
  /\ Selected(want, d) /\ d \in Active /\ NodeAvailable(d)
  /\ Dangling = {}
  /\ Len(tx_queue) >= TxRoom
  /\ InsertSess(Head(id_queue))
  /\ reclaiming' = {[id |-> Head(id_queue), front |-> f]}
  /\ id_queue' = Tail(id_queue)
  /\ UNCHANGED <<sess, free_nodes, tx_queue, engine>>

\* create_sess_error after CreateUnsent: a second response, free, release_id.
ReclaimKeepsSession(r) ==
  /\ engine = "run"
  /\ Deliver(CreateFailed(r.front))
  /\ reclaiming' = {}
  /\ \E d \in Active, g \in HeapDev :
       sess' = sess \cup {[id |-> r.id, front |-> r.front, dev |-> d, dev_id |-> g]}
  /\ UNCHANGED <<id_queue, htable, free_nodes, last_pos, engine>>
Reclaim(r) ==
  /\ engine = "run"
  /\ Deliver(CreateFailed(r.front))
  /\ reclaiming' = {}
  /\ ReleaseId(r.id)
  /\ UNCHANGED <<sess, htable, free_nodes, last_pos, engine>>

CreateOk(f, want, d, garbage) ==
  /\ Selected(want, d) /\ d \in Active /\ NodeAvailable(d)
  /\ Dangling = {}
  /\ Len(tx_queue) < TxRoom
  /\ sess' = sess \cup {[id |-> Head(id_queue), front |-> f, dev |-> d, dev_id |-> garbage]}
  /\ InsertSess(Head(id_queue))
  /\ id_queue' = Tail(id_queue)
  /\ free_nodes' = [free_nodes EXCEPT ![d] = @ - 1]
  /\ Deliver(Response("create", TRUE, f, Head(id_queue)))
  /\ UNCHANGED <<reclaiming, engine>>

CreateDev(f, want, d) ==
  \/ CreateAsserts(f, want, d)
  \/ CreateRefused(f, want, d)
  \/ CreateCorrupts(f, want, d)
  \/ CreateUnsent(f, want, d)
  \/ \E garbage \in HeapDev : CreateOk(f, want, d, garbage)

CreateActive(f, want) ==
  \/ CreateNoId(f)
  \/ CreateNoDevice(f, want)
  \/ \E d \in Pos \cup {want} : CreateDev(f, want, d)
-----------------------------------------------------------------------------
(***************************************************************************)
(* high_speed_delete_sess.  The node is unlinked and recycled through the  *)
(* device that sess->dev_id names, which need not be the device it came    *)
(* from; out of range, it stays in its device's queue.                     *)
(***************************************************************************)
RecycleNodeTwice(s) ==
  s.dev_id \in Pos /\ free_nodes' = [free_nodes EXCEPT ![s.dev_id] = @ + 2]
RecycleNode(s) ==
  \/ s.dev_id \notin MaxDev /\ UNCHANGED free_nodes
  \/ s.dev_id \in Pos /\ free_nodes' = [free_nodes EXCEPT ![s.dev_id] = @ + 1]

\* The response, sent also when the socket failed and nobody asked.
CloseNoticeMissing(s) == UNCHANGED tx_queue
CloseNotice(s) == Deliver(Response("close", TRUE, s.front, HANDOVER))

DeleteSess(s) ==
  /\ Idle
  /\ sess' = sess \ {s}
  /\ htable' = htable \ {s.id}
  /\ ReleaseId(s.id)
  /\ RecycleNode(s)
  /\ CloseNotice(s)
  /\ UNCHANGED <<last_pos, reclaiming, engine>>

\* What may go wrong: HASH_DEL next to a freed entry; TAILQ_REMOVE with
\* another device's list head, which breaks both lists when the node was the
\* last of its own; the list heads of an entry without a device are null.
DeleteFaults(s) ==
  /\ Idle
  /\ \/ Dangling # {} /\ engine' = "corrupt"
     \/ s.dev_id \in Pos \ {s.dev} /\ engine' = "corrupt"
     \/ s.dev_id \in MaxDev \ Pos /\ engine' = "abort"
  /\ UNCHANGED <<id_queue, sess, htable, free_nodes, last_pos, reclaiming, tx_queue>>

Delete(s) == DeleteSess(s) \/ DeleteFaults(s)

\* __backend_proxy_sess_msg_process_close_ver1: only the backend id counts,
\* and an unknown one is not answered.
CloseFound(f, b) == \E s \in sess : s.id = b /\ Delete(s)

CloseNotFound(f, b) ==
  /\ Idle /\ b \notin htable
  /\ UNCHANGED vars

\* high_speed_search_sess: HASH_FIND meets a freed session in the bucket.
SearchCorrupts ==
  /\ Idle /\ Dangling # {}
  /\ engine' = "corrupt"
  /\ UNCHANGED <<id_queue, sess, htable, free_nodes, last_pos, reclaiming, tx_queue>>

Close(f, b) == CloseFound(f, b) \/ CloseNotFound(f, b) \/ SearchCorrupts

\* STEP (2) of engine_run_hyperamp: data_process_f2b returns an error.
SocketError(s) == Delete(s)

\* External: the frontend takes the next response from the TX queue.
FrontendTakes ==
  /\ tx_queue # <<>>
  /\ tx_queue' = Tail(tx_queue)
  /\ UNCHANGED poolVars

Next ==
  \/ \E f \in FrontId, want \in Want : CreateActive(f, want)
  \/ \E f \in FrontId, b \in Id : Close(f, b)
  \/ \E s \in sess : SocketError(s)
  \/ \E r \in reclaiming : Reclaim(r)
  \/ FrontendTakes

Spec == Init /\ [][Next]_vars
-----------------------------------------------------------------------------
Session == [id : Id, front : FrontId, dev : Active, dev_id : HeapDev]

TypeOK ==
  /\ id_queue \in Seq(Id)
  /\ sess \subseteq Session
  /\ htable \subseteq Id
  /\ free_nodes \in [Pos -> Nat]
  /\ last_pos \in Pos \cup {-1}
  /\ reclaiming \subseteq [id : Id, front : FrontId]
  /\ tx_queue \in Seq([type : {"create", "close"}, ok : BOOLEAN, front : FrontId, back : Id \cup {HANDOVER}])
  /\ engine \in {"run", "abort", "corrupt"}

(***************************************************************************)
(* Whatever create and delete go through, a backend session id is in       *)
(* exactly one place: once in the id queue, or held by one session object, *)
(* or held by the create that is being undone.  So allocate_id never hands *)
(* out an id in use and no id is lost.                                     *)
(***************************************************************************)
Held == {r.id : r \in reclaiming}

IdsConserved ==
  /\ IsInjective(id_queue)
  /\ \A s, t \in sess : s.id = t.id => s = t
  /\ \A r, q \in reclaiming : r = q
  /\ Range(id_queue) \cap (Live \cup Held) = {}
  /\ Live \cap Held = {}
  /\ Id = Range(id_queue) \cup Live \cup Held

(***************************************************************************)
(* Every session object that create left allocated is in the hash table,   *)
(* where a close command or a data message can find it.                    *)
(***************************************************************************)
SessionsReachable == Live \subseteq htable

(***************************************************************************)
(* Session nodes never multiply: however deletions move them between the   *)
(* devices' lists, free nodes and sessions together are at most the nodes  *)
(* engine_init_hs_net_dev allocated.  A free node is named by its device   *)
(* and its place in the device's queue.                                    *)
(***************************************************************************)
FreeNodes == UNION {{d} \X (1 .. free_nodes[d]) : d \in Pos}

NodesBounded == Cardinality(FreeNodes) + Cardinality(sess) <= NodeNum * DevNum

(***************************************************************************)
(* dev.h:126: GET_NS_ID asserts that the device of a create command "is    *)
(* active"; the engine never ends there.                                   *)
(***************************************************************************)
NoAssertionFails == engine # "abort"

(***************************************************************************)
(* session_pool.c:673: a create that fails does "Reclaim resources": once  *)
(* it returns, the hash table holds live sessions only.                    *)
(***************************************************************************)
FailedCreateReclaimed == Dangling = {}

(***************************************************************************)
(* session_pool.c:898: deletion does "Release resources, including session *)
(* objects, backend session ID, socket, session node": each device has all *)
(* its nodes, free or bound to one of its sessions.                        *)
(***************************************************************************)
NodesReleased ==
  engine = "run" =>
    \A d \in Pos : free_nodes[d] + Cardinality({s \in sess : s.dev = d}) = NodeNum
=============================================================================
