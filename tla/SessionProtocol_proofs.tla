----------------------- MODULE SessionProtocol_proofs -----------------------
(***************************************************************************)
(* Proofs about the session pool and the protocol on top of it, for any    *)
(* number of frontend ids, backend ids, devices and nodes, any content of  *)
(* uninitialised memory and any room in the two queues.                    *)
(*                                                                         *)
(* The pool, used by anyone: backend ids are conserved, and every live     *)
(* session is in the hash table.  The protocol: it uses the pool as its    *)
(* operations allow, a frontend id has one session at most, and the two    *)
(* ends agree when nothing is under way.                                   *)
(***************************************************************************)
EXTENDS SessionProtocol, TLAPS

(* allocate_id takes the head of a queue without duplicates: the rest is   *)
(* without duplicates and holds every other id.                            *)
LEMMA TakeHead ==
  ASSUME NEW S, NEW q \in Seq(S), q # <<>>, IsInjective(q)
  PROVE  /\ Tail(q) \in Seq(S) /\ IsInjective(Tail(q))
         /\ Head(q) \in S /\ Head(q) \in Range(q)
         /\ Range(Tail(q)) = Range(q) \ {Head(q)}
<1> USE DEF IsInjective, Range
<1>1. /\ Tail(q) \in Seq(S) /\ Len(Tail(q)) = Len(q) - 1 /\ Len(q) \in Nat \ {0}
      /\ \A i \in 1 .. Len(q) - 1 : Tail(q)[i] = q[i + 1]
  OBVIOUS
<1>2. DOMAIN q = 1 .. Len(q) /\ DOMAIN Tail(q) = 1 .. Len(q) - 1
  BY <1>1
<1>3. Head(q) = q[1] /\ q[1] \in S
  BY <1>1
<1>4. IsInjective(Tail(q))
  BY <1>1, <1>2
<1>5. ASSUME NEW i \in 1 .. Len(q), q[i] # q[1]
      PROVE  \E j \in 1 .. Len(q) - 1 : Tail(q)[j] = q[i]
  <2>1. i - 1 \in 1 .. Len(q) - 1 /\ Tail(q)[i - 1] = q[i]
    BY <1>1, <1>5
  <2> QED
    BY <2>1
<1>6. ASSUME NEW x \in Range(Tail(q))
      PROVE  x \in Range(q) /\ x # q[1]
  <2>1. PICK j \in 1 .. Len(q) - 1 : Tail(q)[j] = x
    BY <1>2
  <2>2. j + 1 \in DOMAIN q /\ q[j + 1] = x /\ 1 \in DOMAIN q /\ j + 1 # 1
    BY <1>1, <1>2, <2>1
  <2> QED
    BY <2>2
<1>7. ASSUME NEW x \in Range(q), x # q[1]
      PROVE  x \in Range(Tail(q))
  <2>1. PICK i \in 1 .. Len(q) : q[i] = x
    BY <1>2
  <2>2. PICK j \in 1 .. Len(q) - 1 : Tail(q)[j] = q[i]
    BY <1>5, <1>7, <2>1
  <2> QED
    BY <1>2, <2>1, <2>2, Zenon
<1>8. Range(Tail(q)) = Range(q) \ {q[1]}
  BY <1>6, <1>7
<1>9. q[1] \in Range(q)
  BY <1>1, <1>2
<1> QED
  <2> HIDE DEF Range, IsInjective
  <2> QED
    BY <1>1, <1>3, <1>4, <1>8, <1>9

(* release_id appends an id that the queue does not hold.                  *)
LEMMA AddTail ==
  ASSUME NEW S, NEW q \in Seq(S), IsInjective(q), NEW x \in S, x \notin Range(q)
  PROVE  /\ Append(q, x) \in Seq(S) /\ IsInjective(Append(q, x))
         /\ Range(Append(q, x)) = Range(q) \cup {x}
<1> USE DEF IsInjective, Range
<1>1. /\ Append(q, x) \in Seq(S) /\ Len(q) \in Nat
      /\ DOMAIN q = 1 .. Len(q) /\ DOMAIN Append(q, x) = 1 .. Len(q) + 1
      /\ \A i \in 1 .. Len(q) : Append(q, x)[i] = q[i]
      /\ Append(q, x)[Len(q) + 1] = x
  OBVIOUS
<1>2. \A i \in 1 .. Len(q) : q[i] # x
  BY <1>1
<1>3. IsInjective(Append(q, x))
  BY <1>1, <1>2
<1>4. Range(Append(q, x)) = Range(q) \cup {x}
  BY <1>1
<1> QED
  BY <1>1, <1>3, <1>4
-----------------------------------------------------------------------------
IdInv == id_queue \in Seq(Id) /\ IdsConserved

\* What a step does to the places an id can be in.
Kept == UNCHANGED <<id_queue, sess, reclaiming>>
Rotated == RecycleId /\ id_queue # <<>> /\ UNCHANGED <<sess, reclaiming>>
Taken(S, R) ==
  /\ id_queue # <<>> /\ reclaiming = {}
  /\ id_queue' = Tail(id_queue)
  /\ sess' = sess \cup S
  /\ reclaiming' = R
Undone ==
  \E r \in reclaiming : ReleaseId(r.id) /\ reclaiming' = {} /\ UNCHANGED sess
Deleted ==
  \E s \in sess : /\ ReleaseId(s.id) /\ sess' = sess \ {s}
                  /\ reclaiming = {} /\ UNCHANGED reclaiming
Created ==
  \E s : s.id = Head(id_queue) /\ Taken({s}, {})
Stalled ==
  \E r : r.id = Head(id_queue) /\ Taken({}, {r})

(* Every step of the pool does one of six things to the id queue, the      *)
(* sessions and the create that is being undone.                           *)
LEMMA StepKinds ==
  ASSUME [Next]_vars
  PROVE  Kept \/ Rotated \/ Created \/ Stalled \/ Undone \/ Deleted
<1> USE DEF Kept, Idle, Selected
<1>1. ASSUME NEW f, CreateNoId(f)
      PROVE  Kept
  BY <1>1 DEF CreateNoId, poolVars
<1>2. ASSUME NEW f, NEW want, CreateNoDevice(f, want)
      PROVE  Rotated
  BY <1>2 DEF CreateNoDevice, Rotated
<1>3. ASSUME NEW f, NEW want, NEW d, CreateAsserts(f, want, d) \/ CreateCorrupts(f, want, d)
      PROVE  Kept
  BY <1>3 DEF CreateAsserts, CreateCorrupts
<1>4. ASSUME NEW f, NEW want, NEW d, CreateRefused(f, want, d)
      PROVE  Rotated
  BY <1>4 DEF CreateRefused, Rotated
<1>5. ASSUME NEW f, NEW want, NEW d, CreateUnsent(f, want, d)
      PROVE  Stalled
  <2> DEFINE r == [id |-> Head(id_queue), front |-> f]
  <2>1. r.id = Head(id_queue) /\ Taken({}, {r})
    BY <1>5 DEF CreateUnsent, Taken
  <2> QED
    BY <2>1, Zenon DEF Stalled
<1>6. ASSUME NEW f, NEW want, NEW d, NEW g, CreateOk(f, want, d, g)
      PROVE  Created
  <2> DEFINE s == [id |-> Head(id_queue), front |-> f, dev |-> d, dev_id |-> g]
  <2>1. s.id = Head(id_queue) /\ Taken({s}, {})
    BY <1>6 DEF CreateOk, Taken
  <2> QED
    BY <2>1, Zenon DEF Created
<1>7. ASSUME NEW r \in reclaiming, Reclaim(r)
      PROVE  Undone
  BY <1>7 DEF Reclaim, Undone
<1>8. ASSUME NEW s \in sess, DeleteSess(s)
      PROVE  Deleted
  BY <1>8 DEF DeleteSess, Deleted
<1>9. ASSUME NEW s, DeleteFaults(s)
      PROVE  Kept
  BY <1>9 DEF DeleteFaults
<1>10. ASSUME NEW f, NEW b, CloseNotFound(f, b) \/ SearchCorrupts \/ FrontendTakes
       PROVE  Kept
  BY <1>10 DEF CloseNotFound, SearchCorrupts, FrontendTakes, vars, poolVars
<1>11. CASE UNCHANGED vars
  BY <1>11 DEF vars, poolVars
<1> HIDE DEF Kept, Idle, Selected
<1>12. CASE Next
  BY <1>1, <1>2, <1>3, <1>4, <1>5, <1>6, <1>7, <1>8, <1>9, <1>10, <1>12
     DEF Next, CreateActive, CreateDev, Close, CloseFound, SocketError, Delete
<1> QED
  BY <1>11, <1>12
-----------------------------------------------------------------------------
(* Each of the six keeps every backend id in exactly one place.            *)
LEMMA IdInvPreserved ==
  ASSUME IdInv, [Next]_vars
  PROVE  IdInv'
<1> USE DEF IdInv, IdsConserved, Live, Held
<1>1. CASE Kept
  BY <1>1, Zenon DEF Kept
<1>2. CASE Rotated
  <2> DEFINE q == Tail(id_queue)
             h == Head(id_queue)
  <2>1. /\ q \in Seq(Id) /\ IsInjective(q) /\ h \in Id /\ h \in Range(id_queue)
        /\ Range(q) = Range(id_queue) \ {h}
    BY <1>2, TakeHead DEF Rotated
  <2> HIDE DEF q, h
  <2>2. /\ Append(q, h) \in Seq(Id) /\ IsInjective(Append(q, h))
        /\ Range(Append(q, h)) = Range(q) \cup {h}
    BY <2>1, AddTail
  <2>3. id_queue' = Append(q, h) /\ sess' = sess /\ reclaiming' = reclaiming
    BY <1>2 DEF Rotated, RecycleId, q, h
  <2>4. Range(id_queue') = Range(id_queue) /\ id_queue' \in Seq(Id) /\ IsInjective(id_queue')
    <3>1. Range(Append(q, h)) = Range(id_queue)
      <4>1. \A A, x : x \in A => (A \ {x}) \cup {x} = A
        OBVIOUS
      <4> QED
        BY <2>1, <2>2, <4>1, Zenon
    <3> QED
      BY <2>2, <2>3, <3>1, Zenon
  <2>5. Live' = Live /\ Held' = Held
    BY <2>3
  <2> QED
    BY <2>3, <2>4, <2>5, Zenon
<1>3. CASE Created
  <2>1. PICK s : s.id = Head(id_queue) /\ Taken({s}, {})
    BY <1>3, Zenon DEF Created
  <2>2. /\ id_queue' \in Seq(Id) /\ IsInjective(id_queue')
        /\ s.id \in Range(id_queue) /\ Range(id_queue') = Range(id_queue) \ {s.id}
    BY <2>1, TakeHead DEF Taken
  <2>3. sess' = sess \cup {s} /\ reclaiming' = {} /\ reclaiming = {}
    BY <2>1 DEF Taken
  <2>4. Live' = Live \cup {s.id} /\ Held' = {} /\ Held = {}
    BY <2>3
  <2>5. \A t \in sess : t.id # s.id
    BY <2>2
  <2> QED
    BY <2>2, <2>3, <2>4, <2>5
<1>4. CASE Stalled
  <2>1. PICK r : r.id = Head(id_queue) /\ Taken({}, {r})
    BY <1>4, Zenon DEF Stalled
  <2>2. /\ id_queue' \in Seq(Id) /\ IsInjective(id_queue')
        /\ r.id \in Range(id_queue) /\ Range(id_queue') = Range(id_queue) \ {r.id}
    BY <2>1, TakeHead DEF Taken
  <2>3. sess' = sess /\ reclaiming' = {r} /\ reclaiming = {}
    BY <2>1 DEF Taken
  <2>4. Live' = Live /\ Held' = {r.id} /\ Held = {}
    BY <2>3
  <2> QED
    BY <2>2, <2>3, <2>4
<1>5. CASE Undone
  <2>1. PICK r \in reclaiming : /\ id_queue' = Append(id_queue, r.id)
                               /\ reclaiming' = {} /\ sess' = sess
    BY <1>5 DEF Undone, ReleaseId
  <2>2. Held = {r.id} /\ Held' = {} /\ Live' = Live /\ r.id \in Id
    BY <2>1
  <2>3. /\ id_queue' \in Seq(Id) /\ IsInjective(id_queue')
        /\ Range(id_queue') = Range(id_queue) \cup {r.id}
    BY <2>1, <2>2, AddTail
  <2> QED
    BY <2>1, <2>2, <2>3, SMTT(30)
<1>6. CASE Deleted
  <2>1. PICK s \in sess : /\ id_queue' = Append(id_queue, s.id) /\ sess' = sess \ {s}
                         /\ reclaiming = {} /\ reclaiming' = {}
    BY <1>6 DEF Deleted, ReleaseId
  <2>2. /\ Held = {} /\ Held' = {} /\ Live' = Live \ {s.id}
        /\ s.id \in Live /\ s.id \in Id
    BY <2>1
  <2>3. /\ id_queue' \in Seq(Id) /\ IsInjective(id_queue')
        /\ Range(id_queue') = Range(id_queue) \cup {s.id}
    BY <2>1, <2>2, AddTail
  <2> QED
    BY <2>1, <2>2, <2>3
<1> QED
  BY <1>1, <1>2, <1>3, <1>4, <1>5, <1>6, StepKinds, Zenon

(* fill_id_queue puts each id into the queue once.                         *)
LEMMA IdInvInitial == Init => IdInv
<1> SUFFICES ASSUME Init
             PROVE  IdInv
  OBVIOUS
<1>1. IdNum \in Nat /\ Id = 1 .. IdNum
  BY PoolAssumption DEF Id
<1>2. id_queue = [i \in 1 .. IdNum |-> i]
  BY <1>1 DEF Init
<1>3. id_queue \in Seq(Id) /\ IsInjective(id_queue) /\ Range(id_queue) = Id
  BY <1>1, <1>2 DEF IsInjective, Range
<1>4. Live = {} /\ Held = {} /\ sess = {} /\ reclaiming = {}
  BY DEF Init, Live, Held
<1> QED
  BY <1>3, <1>4 DEF IdInv, IdsConserved

(* Whatever creates, failed creates, undone creates and deletes do, every  *)
(* backend session id is in exactly one place: allocate_id hands out no id *)
(* in use and release_id loses none.                                       *)
THEOREM BackendIdsConserved == Spec => []IdsConserved
<1>1. Init => IdInv
  BY IdInvInitial
<1>2. IdInv /\ [Next]_vars => IdInv'
  BY IdInvPreserved
<1>3. IdInv => IdsConserved
  BY DEF IdInv
<1> QED
  BY <1>1, <1>2, <1>3, PTL DEF Spec
-----------------------------------------------------------------------------
ReachInv == IdInv /\ SessionsReachable

(* A step that adds a session adds its id to the hash table, and a step    *)
(* that takes an id out of the table deletes the one session that has it.  *)
LEMMA ReachInvPreserved ==
  ASSUME ReachInv, [Next]_vars
  PROVE  ReachInv'
<1> USE DEF ReachInv, SessionsReachable
<1>1. IdInv'
  BY IdInvPreserved
<1>2. ASSUME NEW f, NEW want, NEW d, NEW g, CreateOk(f, want, d, g)
      PROVE  SessionsReachable'
  BY <1>2 DEF CreateOk, InsertSess, Live
<1>3. ASSUME NEW f, NEW want, NEW d, CreateUnsent(f, want, d)
      PROVE  SessionsReachable'
  BY <1>3 DEF CreateUnsent, InsertSess, Live
<1>4. ASSUME NEW s \in sess, DeleteSess(s)
      PROVE  SessionsReachable'
  <2>1. \A t \in sess : t.id = s.id => t = s
    BY DEF IdInv, IdsConserved
  <2>2. sess' = sess \ {s} /\ htable' = htable \ {s.id}
    BY <1>4 DEF DeleteSess
  <2> QED
    BY <2>1, <2>2 DEF Live
<1>5. ASSUME UNCHANGED <<sess, htable>>
      PROVE  SessionsReachable'
  BY <1>5 DEF Live
<1>6. ASSUME NEW f, NEW want, CreateNoId(f) \/ CreateNoDevice(f, want)
      PROVE  UNCHANGED <<sess, htable>>
  BY <1>6 DEF CreateNoId, CreateNoDevice, poolVars
<1>7. ASSUME NEW f, NEW want, NEW d,
             CreateAsserts(f, want, d) \/ CreateRefused(f, want, d) \/ CreateCorrupts(f, want, d)
      PROVE  UNCHANGED <<sess, htable>>
  BY <1>7 DEF CreateAsserts, CreateRefused, CreateCorrupts
<1>8. ASSUME NEW r, NEW s, Reclaim(r) \/ DeleteFaults(s)
      PROVE  UNCHANGED <<sess, htable>>
  BY <1>8 DEF Reclaim, DeleteFaults
<1>9. ASSUME NEW f, NEW b, CloseNotFound(f, b) \/ SearchCorrupts \/ FrontendTakes
      PROVE  UNCHANGED <<sess, htable>>
  BY <1>9 DEF CloseNotFound, SearchCorrupts, FrontendTakes, vars, poolVars
<1>10. CASE UNCHANGED vars
  BY <1>1, <1>5, <1>10 DEF vars, poolVars
<1> HIDE DEF SessionsReachable
<1>11. CASE Next
  BY <1>1, <1>2, <1>3, <1>4, <1>5, <1>6, <1>7, <1>8, <1>9, <1>11
     DEF Next, CreateActive, CreateDev, Close, CloseFound, SocketError, Delete
<1> QED
  BY <1>10, <1>11

(* Every allocated session is in the hash table, where close commands and  *)
(* data messages look it up.                                               *)
THEOREM LiveSessionsReachable == Spec => []SessionsReachable
<1>1. Init => ReachInv
  BY IdInvInitial DEF ReachInv, SessionsReachable, Init, Live
<1>2. ReachInv /\ [Next]_vars => ReachInv'
  BY ReachInvPreserved
<1>3. ReachInv => SessionsReachable
  BY DEF ReachInv
<1> QED
  BY <1>1, <1>2, <1>3, PTL DEF Spec
-----------------------------------------------------------------------------
\* A message of the TX queue says that a session is open, or that a frontend
\* id has none (any more).
Opening(m) == m.type = "create" /\ m.ok

\* What is under way for frontend id f: a create command, a close command for
\* backend id b, a session, a create that is being undone, a message of the
\* TX queue, one that brings backend id b, the last one.
Asked(f) == \E i \in DOMAIN rx_queue : rx_queue[i].type = "create" /\ rx_queue[i].front = f
ToClose(f, b) ==
  \E i \in DOMAIN rx_queue :
    rx_queue[i].type = "close" /\ rx_queue[i].front = f /\ rx_queue[i].back = b
HasSess(f) == \E s \in sess : s.front = f
Undoing(f) == \E r \in reclaiming : r.front = f
Told(f) == \E k \in DOMAIN tx_queue : tx_queue[k].front = f
ToldOpen(f, b) ==
  \E k \in DOMAIN tx_queue :
    Opening(tx_queue[k]) /\ tx_queue[k].front = f /\ tx_queue[k].back = b
ToldEnd(f) == \E k \in DOMAIN tx_queue : ~Opening(tx_queue[k]) /\ tx_queue[k].front = f

CommandSet ==
  [type : {"create"}, front : FrontId, back : {HANDOVER}, want : Want]
    \cup [type : {"close", "data"}, front : FrontId, back : Id, want : {AUTO}]
ResponseSet ==
  [type : {"create"}, ok : {TRUE}, front : FrontId, back : Id]
    \cup [type : {"create"}, ok : {FALSE}, front : FrontId, back : {HANDOVER}]
    \cup [type : {"close"}, ok : {TRUE}, front : FrontId, back : {HANDOVER}]

Types ==
  /\ rx_queue \in Seq(CommandSet)
  /\ tx_queue \in Seq(ResponseSet)
  /\ \A s \in sess : s.front \in FrontId /\ s.id \in Id
  /\ \A r \in reclaiming : r.front \in FrontId /\ r.id \in Id
  /\ view \in [FrontId -> {"closed", "opening", "open", "closing"}]
  /\ bid \in [FrontId -> Id \cup {HANDOVER}]
  /\ \A f \in FrontId : view[f] \in {"open", "closing"} => bid[f] \in Id
  /\ lost \subseteq FrontId

\* A frontend id has one create command under way, or one session, or one
\* create being undone, and has then not been told the end.
OneCreate ==
  \A i, j \in DOMAIN rx_queue :
    /\ rx_queue[i].type = "create" /\ rx_queue[j].type = "create"
    /\ rx_queue[i].front = rx_queue[j].front
    => i = j
Phases ==
  \A f \in FrontId :
    /\ ~(Asked(f) /\ HasSess(f)) /\ ~(Asked(f) /\ Undoing(f)) /\ ~(HasSess(f) /\ Undoing(f))
    /\ Asked(f) \/ Undoing(f) => view[f] = "opening" /\ ~Told(f)
    /\ HasSess(f) => view[f] # "closed" /\ ~ToldEnd(f)
    /\ Told(f) => view[f] # "closed"

\* At most two messages of a frontend id are in the TX queue: that its
\* session is open, then that it has ended.
TxOrder ==
  \A k, l \in DOMAIN tx_queue : k < l /\ tx_queue[k].front = tx_queue[l].front
                                  => Opening(tx_queue[k]) /\ ~Opening(tx_queue[l])

\* The frontend knows its session, or is about to.
Known ==
  /\ \A f \in FrontId, b \in Id : ToldOpen(f, b) => view[f] = "opening"
  /\ \A s \in sess : IF view[s.front] = "opening" THEN ToldOpen(s.front, s.id)
                     ELSE bid[s.front] = s.id

\* It takes a session for open, and waits for its end, for a reason.
Waits ==
  \A f \in FrontId :
    /\ view[f] \in {"open", "closing"} \/ Told(f) => HasSess(f) \/ ToldEnd(f) \/ f \in lost
    /\ engine = "run" /\ view[f] = "closing" /\ HasSess(f) => ToClose(f, bid[f])

LifeInv ==
  /\ IdInv /\ SessionsReachable /\ OneSessionPerFrontend
  /\ Types /\ OneCreate /\ Phases /\ TxOrder /\ Known /\ Waits
-----------------------------------------------------------------------------
\* What a step of the backend does to the state the invariant speaks of.
\* It takes a message of the RX queue, it says m or loses it, ...
Takes == rx_queue # <<>> /\ rx_queue' = Tail(rx_queue)
Says(m) ==
  IF Len(tx_queue) < TxRoom
  THEN tx_queue' = Append(tx_queue, m) /\ lost' = lost
  ELSE tx_queue' = tx_queue /\ lost' = lost \cup {m.front}

Refuses ==
  /\ Takes /\ Head(rx_queue).type = "create"
  /\ Says(CreateFailed(Head(rx_queue).front))
  /\ IF id_queue = <<>> THEN id_queue' = id_queue ELSE RecycleId
  /\ UNCHANGED <<sess, reclaiming, engine, frontVars>>
Grants(s) ==
  /\ Takes /\ Head(rx_queue).type = "create"
  /\ s.id = Head(id_queue) /\ s.front = Head(rx_queue).front
  /\ Taken({s}, {})
  /\ tx_queue' = Append(tx_queue, Response("create", TRUE, s.front, s.id))
  /\ UNCHANGED <<lost, engine, frontVars>>
Stalls(r) ==
  /\ Takes /\ Head(rx_queue).type = "create"
  /\ r.id = Head(id_queue) /\ r.front = Head(rx_queue).front
  /\ Taken({}, {r})
  /\ UNCHANGED <<tx_queue, lost, engine, frontVars>>
Undoes(r) ==
  /\ Says(CreateFailed(r.front))
  /\ ReleaseId(r.id) /\ reclaiming' = {}
  /\ UNCHANGED <<rx_queue, sess, engine, frontVars>>
Ends(s) ==
  /\ \/ Takes /\ Head(rx_queue).type = "close" /\ Head(rx_queue).back = s.id
     \/ UNCHANGED rx_queue
  /\ Says(Response("close", TRUE, s.front, HANDOVER))
  /\ ReleaseId(s.id) /\ sess' = sess \ {s}
  /\ reclaiming = {} /\ UNCHANGED <<reclaiming, engine, frontVars>>
Passes ==
  /\ Takes /\ Head(rx_queue).type # "create"
  /\ Head(rx_queue).type = "close" => \A s \in sess : s.id # Head(rx_queue).back
  /\ UNCHANGED <<id_queue, sess, reclaiming, tx_queue, lost, engine, frontVars>>
Halts ==
  /\ engine' # "run"
  /\ Takes \/ UNCHANGED rx_queue
  /\ lost \subseteq lost' /\ lost' \subseteq FrontId
  /\ UNCHANGED <<id_queue, sess, reclaiming, tx_queue, frontVars>>
Rests ==
  UNCHANGED <<rx_queue, id_queue, sess, reclaiming, tx_queue, lost, engine, frontVars>>

FrontendActs ==
  \/ \E f \in FrontId, want \in Want : FrontendCreate(f, want)
  \/ \E f \in FrontId : FrontendClose(f) \/ FrontendData(f)
  \/ FrontendReceive

BackendActs ==
  \/ Refuses \/ Passes \/ Halts \/ Rests
  \/ \E s \in sess : Ends(s)
  \/ \E s : Grants(s)
  \/ \E r : Stalls(r)
  \/ \E r \in reclaiming : Undoes(r)

(* The first message of the RX queue, and the rest of the queue.           *)
LEMMA TailFacts ==
  ASSUME NEW S, NEW q \in Seq(S), q # <<>>
  PROVE  /\ Tail(q) \in Seq(S) /\ Head(q) = q[1] /\ q[1] \in S
         /\ 1 \in DOMAIN q /\ DOMAIN q \subseteq Nat \ {0} /\ DOMAIN Tail(q) \subseteq Nat \ {0}
         /\ \A i \in DOMAIN Tail(q) : i + 1 \in DOMAIN q /\ Tail(q)[i] = q[i + 1]
         /\ \A i \in DOMAIN q : i # 1 => i - 1 \in DOMAIN Tail(q) /\ Tail(q)[i - 1] = q[i]
OBVIOUS

(* A message at the end of a queue.                                        *)
LEMMA AppendFacts ==
  ASSUME NEW S, NEW q \in Seq(S), NEW x \in S
  PROVE  /\ Append(q, x) \in Seq(S) /\ DOMAIN q = 1 .. Len(q) /\ Len(q) \in Nat
         /\ DOMAIN Append(q, x) = (DOMAIN q) \cup {Len(q) + 1}
         /\ Len(q) + 1 \notin DOMAIN q
         /\ Append(q, x)[Len(q) + 1] = x
         /\ \A i \in DOMAIN q : Append(q, x)[i] = q[i] /\ i < Len(q) + 1
OBVIOUS

(* A response that opens a session brings a backend id.                    *)
LEMMA ResponseFields ==
  \A x \in ResponseSet : x.front \in FrontId /\ (Opening(x) => x.back \in Id)
BY Zenon DEF ResponseSet, Opening

(* The command the backend takes next is one the frontend sent.            *)
LEMMA HeadCommand ==
  ASSUME Types, rx_queue # <<>>
  PROVE  /\ Head(rx_queue) \in CommandSet /\ Head(rx_queue).front \in FrontId
         /\ Head(rx_queue).type \in {"create", "close", "data"}
         /\ IF Head(rx_queue).type = "create"
            THEN Head(rx_queue).want \in Want /\ Head(rx_queue).back = HANDOVER
            ELSE Head(rx_queue).back \in Id
<1>1. Head(rx_queue) \in CommandSet
  BY TailFacts DEF Types
<1> QED
  BY <1>1, Zenon DEF CommandSet
-----------------------------------------------------------------------------
(* What the last word to a frontend id does to the TX queue, full or not.  *)
LEMMA LastWordSays ==
  ASSUME Types, NEW m, Deliver(m), LastWord(m.front)
  PROVE  Says(m)
<1>1. Len(tx_queue) \in Nat /\ TxRoom \in Nat
  BY PoolAssumption DEF Types
<1> QED
  BY <1>1 DEF Deliver, LastWord, Says

(* A create command is refused, granted or stalls, or ends the process.    *)
LEMMA CreateKinds ==
  ASSUME LifeInv, Takes, Head(rx_queue).type = "create", UNCHANGED frontVars,
         CreateActive(Head(rx_queue).front, Head(rx_queue).want),
         IF reclaiming' = {} THEN LastWord(Head(rx_queue).front) ELSE UNCHANGED lost
  PROVE  BackendActs
<1> DEFINE f == Head(rx_queue).front
           want == Head(rx_queue).want
<1>0. Types /\ f \in FrontId /\ lost \subseteq FrontId
  BY HeadCommand, Zenon DEF LifeInv, Takes, Types
<1>1. CreateFailed(f).front = f
  BY Zenon DEF CreateFailed, Response
<1>2. ASSUME NEW w, CreateNoId(f) \/ CreateNoDevice(f, w)
      PROVE  Refuses
  <2>1. reclaiming' = {} /\ Deliver(CreateFailed(f))
    BY <1>2, Zenon DEF CreateNoId, CreateNoDevice, Idle, poolVars
  <2>2. Says(CreateFailed(f))
    BY <1>0, <1>1, <2>1, LastWordSays, Zenon
  <2> QED
    BY <1>2, <2>2, Zenon DEF CreateNoId, CreateNoDevice, Refuses, poolVars
<1>3. ASSUME NEW d, CreateRefused(f, want, d)
      PROVE  Refuses
  <2>1. reclaiming' = {} /\ Deliver(CreateFailed(f))
    BY <1>3, Zenon DEF CreateRefused, Selected, Idle
  <2>2. Says(CreateFailed(f))
    BY <1>0, <1>1, <2>1, LastWordSays, Zenon
  <2> QED
    BY <1>3, <2>2, Zenon DEF CreateRefused, Selected, Refuses
<1>4. ASSUME NEW d, CreateAsserts(f, want, d) \/ CreateCorrupts(f, want, d)
      PROVE  Halts
  <2>1. lost \subseteq lost' /\ lost' \subseteq FrontId
    BY <1>0, Zenon DEF LastWord
  <2> QED
    BY <1>4, <2>1, Zenon DEF CreateAsserts, CreateCorrupts, Halts
<1>5. ASSUME NEW d, CreateUnsent(f, want, d)
      PROVE  \E r : Stalls(r)
  <2> DEFINE r == [id |-> Head(id_queue), front |-> f]
  <2>1. Taken({}, {r}) /\ UNCHANGED <<tx_queue, engine>>
    BY <1>5, Zenon DEF CreateUnsent, Selected, Idle, Taken
  <2>2. lost' = lost
    BY <2>1, Zenon DEF Taken
  <2>3. Stalls(r)
    BY <2>1, <2>2, Zenon DEF Stalls
  <2> QED
    BY <2>3, Zenon
<1>6. ASSUME NEW d, NEW g, CreateOk(f, want, d, g)
      PROVE  \E s : Grants(s)
  <2> DEFINE s == [id |-> Head(id_queue), front |-> f, dev |-> d, dev_id |-> g]
  <2>1. Taken({s}, {}) /\ UNCHANGED engine /\ Len(tx_queue) < TxRoom
    BY <1>6, Zenon DEF CreateOk, Selected, Idle, Taken
  <2>2. tx_queue' = Append(tx_queue, Response("create", TRUE, s.front, s.id))
    BY <1>6, <2>1, Zenon DEF CreateOk, Deliver
  <2>3. ~(Len(tx_queue) >= TxRoom)
    BY <1>0, <2>1, PoolAssumption DEF Types
  <2>4. lost' = lost
    BY <2>1, <2>3, Zenon DEF Taken, LastWord
  <2>5. Grants(s)
    BY <2>1, <2>2, <2>4, Zenon DEF Grants
  <2> QED
    BY <2>5, Zenon
<1> QED
  BY <1>2, <1>3, <1>4, <1>5, <1>6, Zenon DEF CreateActive, CreateDev, BackendActs

(* A deletion ends the session, or the process.                            *)
LEMMA DeleteKinds ==
  ASSUME LifeInv, NEW s \in sess, DeleteSess(s), LastWord(s.front), UNCHANGED frontVars,
         \/ Takes /\ Head(rx_queue).type = "close" /\ Head(rx_queue).back = s.id
         \/ UNCHANGED rx_queue
  PROVE  Ends(s)
<1> DEFINE m == Response("close", TRUE, s.front, HANDOVER)
<1>1. m.front = s.front /\ Types
  BY Zenon DEF Response, LifeInv
<1>2. Deliver(m)
  BY Zenon DEF DeleteSess, CloseNotice
<1>3. Says(m)
  BY <1>1, <1>2, LastWordSays, Zenon
<1> QED
  BY <1>3, Zenon DEF Ends, DeleteSess, Idle

(* Every step of the backend is one of the kinds above.                    *)
LEMMA BackendKinds ==
  ASSUME LifeInv, [ProtoNext]_protoVars
  PROVE  FrontendActs \/ BackendActs
<1>0. Types /\ lost \subseteq FrontId
  BY Zenon DEF LifeInv, Types
<1>1. ASSUME BackendHandles
      PROVE  BackendActs
  <2> DEFINE c == Head(rx_queue)
  <2>1. Takes /\ UNCHANGED frontVars
    BY <1>1, Zenon DEF BackendHandles, Takes
  <2>2. CASE c.type = "create"
    BY <1>1, <2>1, <2>2, CreateKinds, Zenon DEF BackendHandles
  <2>3. CASE c.type = "close"
    <3>1. /\ Close(c.front, c.back)
          /\ IF sess' = sess THEN UNCHANGED lost
             ELSE \E s \in sess \ sess' : LastWord(s.front)
      BY <1>1, <2>3, Zenon DEF BackendHandles
    <3>2. ASSUME NEW s \in sess, s.id = c.back, DeleteSess(s)
          PROVE  Ends(s)
      <4>1. sess \ sess' = {s} /\ sess' # sess
        BY <3>2, Zenon DEF DeleteSess
      <4>2. LastWord(s.front)
        BY <3>1, <4>1, Zenon
      <4> QED
        BY <2>1, <2>3, <3>2, <4>2, DeleteKinds, Zenon
    <3>3. ASSUME NEW s, DeleteFaults(s) \/ SearchCorrupts
          PROVE  Halts
      <4>1. /\ UNCHANGED <<id_queue, sess, reclaiming, tx_queue>> /\ engine' # "run"
        BY <3>3, Zenon DEF DeleteFaults, SearchCorrupts
      <4> QED
        BY <1>0, <2>1, <3>1, <4>1, Zenon DEF Halts
    <3>4. ASSUME CloseNotFound(c.front, c.back)
          PROVE  Passes
      <4>1. UNCHANGED <<id_queue, sess, reclaiming, tx_queue, engine>>
        BY <3>4, Zenon DEF CloseNotFound, vars, poolVars
      <4>2. \A s \in sess : s.id # c.back
        BY <3>4, Zenon DEF CloseNotFound, LifeInv, SessionsReachable, Live
      <4> QED
        BY <2>1, <2>3, <3>1, <4>1, <4>2, Zenon DEF Passes
    <3> QED
      BY <3>1, <3>2, <3>3, <3>4, Zenon DEF Close, CloseFound, Delete, BackendActs
  <2>4. CASE c.type = "data"
    <3>1. DataMessage(c.back) /\ UNCHANGED lost
      BY <1>1, <2>4, Zenon DEF BackendHandles
    <3>2. CASE UNCHANGED vars
      BY <2>1, <2>4, <3>1, <3>2, Zenon DEF Passes, BackendActs, vars, poolVars
    <3>3. CASE SearchCorrupts
      BY <1>0, <2>1, <3>1, <3>3, Zenon DEF Halts, BackendActs, SearchCorrupts
    <3> QED
      BY <3>1, <3>2, <3>3, Zenon DEF DataMessage
  <2> QED
    BY <1>1, <2>2, <2>3, <2>4, Zenon DEF BackendHandles
<1>2. ASSUME NEW r \in reclaiming, Reclaim(r), LastWord(r.front),
             UNCHANGED <<rx_queue, frontVars>>
      PROVE  Undoes(r)
  <2>1. CreateFailed(r.front).front = r.front
    BY Zenon DEF CreateFailed, Response
  <2>2. Says(CreateFailed(r.front))
    BY <1>0, <1>2, <2>1, LastWordSays, Zenon DEF Reclaim
  <2> QED
    BY <1>2, <2>2, Zenon DEF Undoes, Reclaim
<1>3. ASSUME NEW s \in sess, BackendSends(s)
      PROVE  BackendActs
  <2>1. UNCHANGED <<rx_queue, frontVars>>
    BY <1>3, Zenon DEF BackendSends
  <2>2. CASE UNCHANGED <<vars, lost>>
    BY <2>1, <2>2, Zenon DEF Rests, BackendActs, vars, poolVars
  <2>3. CASE Delete(s) /\ LastWord(s.front)
    <3>1. CASE DeleteSess(s)
      BY <2>1, <2>3, <3>1, DeleteKinds, Zenon DEF BackendActs
    <3>2. CASE DeleteFaults(s)
      <4>1. lost \subseteq lost' /\ lost' \subseteq FrontId
        BY <1>0, <2>3, Zenon DEF LastWord, Types
      <4> QED
        BY <2>1, <3>2, <4>1, Zenon DEF DeleteFaults, Halts, BackendActs
    <3> QED
      BY <2>3, <3>1, <3>2, Zenon DEF Delete
  <2> QED
    BY <1>3, <2>2, <2>3, Zenon DEF BackendSends, SocketError
<1>4. ASSUME UNCHANGED protoVars
      PROVE  BackendActs
  BY <1>4, Zenon DEF protoVars, vars, poolVars, Rests, BackendActs
<1> QED
  BY <1>1, <1>2, <1>3, <1>4, Zenon DEF ProtoNext, BackendReclaims, FrontendActs, BackendActs

(* The protocol uses the pool as its operations allow: each of its steps   *)
(* is a step of the pool or leaves the pool alone.                         *)
LEMMA PoolStep ==
  ASSUME Types, [ProtoNext]_protoVars
  PROVE  [Next]_vars
<1>1. ASSUME NEW f, NEW from, NEW to, NEW c, FrontendSends(f, from, to, c)
      PROVE  UNCHANGED vars
  BY <1>1, Zenon DEF FrontendSends
<1>2. CASE FrontendReceive
  BY <1>2, Zenon DEF FrontendReceive, Next
<1>3. CASE BackendHandles
  <2> DEFINE c == Head(rx_queue)
  <2>0. rx_queue # <<>>
    BY <1>3, Zenon DEF BackendHandles
  <2>1. CASE c.type = "create"
    <3>1. CreateActive(c.front, c.want) /\ c.front \in FrontId /\ c.want \in Want
      BY <1>3, <2>0, <2>1, HeadCommand, Zenon DEF BackendHandles
    <3> QED
      BY <3>1, Zenon DEF Next
  <2>2. CASE c.type # "create"
    <3>1. c.front \in FrontId /\ c.back \in Id
      BY <2>0, <2>2, HeadCommand, Zenon
    <3>2. Close(c.front, c.back) \/ DataMessage(c.back)
      BY <1>3, <2>2, Zenon DEF BackendHandles
    <3> QED
      BY <3>1, <3>2, Zenon DEF Next, Close, DataMessage
  <2> QED
    BY <2>1, <2>2, Zenon
<1>4. CASE BackendReclaims
  BY <1>4, Zenon DEF BackendReclaims, Next
<1>5. ASSUME NEW s \in sess, BackendSends(s)
      PROVE  [Next]_vars
  BY <1>5, Zenon DEF BackendSends, Next
<1>6. CASE UNCHANGED protoVars
  BY <1>6, Zenon DEF protoVars
<1> QED
  BY <1>1, <1>2, <1>3, <1>4, <1>5, <1>6, Zenon
     DEF ProtoNext, FrontendCreate, FrontendClose, FrontendData
-----------------------------------------------------------------------------
(* What the frontend's next command changes of what is under way.          *)
LEMMA RxSent ==
  ASSUME Types, NEW c \in CommandSet, rx_queue' = Append(rx_queue, c)
  PROVE  /\ rx_queue' \in Seq(CommandSet)
         /\ \A g : Asked(g)' <=> Asked(g) \/ (c.type = "create" /\ g = c.front)
         /\ \A g, b : ToClose(g, b) => ToClose(g, b)'
         /\ c.type = "close" => ToClose(c.front, c.back)'
         /\ OneCreate /\ (c.type = "create" => ~Asked(c.front)) => OneCreate'
<1>1. rx_queue \in Seq(CommandSet)
  BY Zenon DEF Types
<1>2. /\ rx_queue' \in Seq(CommandSet)
      /\ DOMAIN rx_queue' = (DOMAIN rx_queue) \cup {Len(rx_queue) + 1}
      /\ Len(rx_queue) + 1 \notin DOMAIN rx_queue
      /\ rx_queue'[Len(rx_queue) + 1] = c
      /\ \A i \in DOMAIN rx_queue : rx_queue'[i] = rx_queue[i]
  BY <1>1, AppendFacts
<1>3. /\ \A g : Asked(g)' <=> Asked(g) \/ (c.type = "create" /\ g = c.front)
  BY <1>2, Zenon DEF Asked
<1>4. /\ \A g, b : ToClose(g, b) => ToClose(g, b)'
      /\ c.type = "close" => ToClose(c.front, c.back)'
  BY <1>2, Zenon DEF ToClose
<1>5. OneCreate /\ (c.type = "create" => ~Asked(c.front)) => OneCreate'
  BY <1>2 DEF OneCreate, Asked
<1> QED
  BY <1>2, <1>3, <1>4, <1>5, Zenon

(* What the backend's taking a command changes of what is under way.       *)
LEMMA RxTaken ==
  ASSUME Types, OneCreate, Takes
  PROVE  /\ rx_queue' \in Seq(CommandSet)
         /\ \A g : Asked(g)' <=>
                     Asked(g) /\ ~(Head(rx_queue).type = "create" /\ g = Head(rx_queue).front)
         /\ Head(rx_queue).type = "create" => Asked(Head(rx_queue).front)
         /\ \A g, b : /\ ToClose(g, b)
                      /\ ~(Head(rx_queue).type = "close" /\ Head(rx_queue).front = g
                             /\ Head(rx_queue).back = b)
                      => ToClose(g, b)'
         /\ OneCreate'
<1> DEFINE c == Head(rx_queue)
<1>1. /\ rx_queue' \in Seq(CommandSet) /\ c = rx_queue[1]
      /\ 1 \in DOMAIN rx_queue /\ DOMAIN rx_queue \subseteq Nat \ {0}
      /\ DOMAIN rx_queue' \subseteq Nat \ {0}
      /\ \A i \in DOMAIN rx_queue' : i + 1 \in DOMAIN rx_queue /\ rx_queue'[i] = rx_queue[i + 1]
      /\ \A i \in DOMAIN rx_queue :
           i # 1 => i - 1 \in DOMAIN rx_queue' /\ rx_queue'[i - 1] = rx_queue[i]
  BY TailFacts DEF Types, Takes
<1> HIDE DEF c
<1>2. ASSUME NEW g, Asked(g)'
      PROVE  Asked(g) /\ ~(c.type = "create" /\ g = c.front)
  <2>1. PICK i \in DOMAIN rx_queue' : rx_queue'[i].type = "create" /\ rx_queue'[i].front = g
    BY <1>2, Zenon DEF Asked
  <2>2. /\ i + 1 \in DOMAIN rx_queue /\ rx_queue[i + 1].type = "create"
        /\ rx_queue[i + 1].front = g /\ i + 1 # 1
    BY <1>1, <2>1
  <2> QED
    BY <1>1, <2>2, Zenon DEF Asked, OneCreate
<1>3. ASSUME NEW g, Asked(g), ~(c.type = "create" /\ g = c.front)
      PROVE  Asked(g)'
  BY <1>1, <1>3, Zenon DEF Asked
<1>4. \A g : Asked(g)' <=> Asked(g) /\ ~(c.type = "create" /\ g = c.front)
  BY <1>2, <1>3, Zenon
<1>5. c.type = "create" => Asked(c.front)
  BY <1>1, Zenon DEF Asked
<1>6. \A g, b : ToClose(g, b) /\ ~(c.type = "close" /\ c.front = g /\ c.back = b)
                  => ToClose(g, b)'
  BY <1>1 DEF ToClose
<1>7. OneCreate'
  <2> SUFFICES ASSUME NEW i \in DOMAIN rx_queue', NEW j \in DOMAIN rx_queue',
                      rx_queue'[i].type = "create", rx_queue'[j].type = "create",
                      rx_queue'[i].front = rx_queue'[j].front
               PROVE  i = j
    BY Zenon DEF OneCreate
  <2>1. /\ i + 1 \in DOMAIN rx_queue /\ rx_queue'[i] = rx_queue[i + 1] /\ i \in Nat
        /\ j + 1 \in DOMAIN rx_queue /\ rx_queue'[j] = rx_queue[j + 1] /\ j \in Nat
    BY <1>1, Zenon
  <2>2. i + 1 = j + 1
    BY <2>1, Zenon DEF OneCreate
  <2> QED
    BY <2>1, <2>2
<1> QED
  BY <1>1, <1>4, <1>5, <1>6, <1>7, Zenon DEF c

(* What a message at the end of the TX queue changes.                      *)
LEMMA TxSaid ==
  ASSUME Types, NEW m \in ResponseSet, tx_queue' = Append(tx_queue, m)
  PROVE  /\ tx_queue' \in Seq(ResponseSet)
         /\ \A g : Told(g)' <=> Told(g) \/ g = m.front
         /\ \A g : ToldEnd(g)' <=> ToldEnd(g) \/ (~Opening(m) /\ g = m.front)
         /\ \A g, b : ToldOpen(g, b)' <=>
                        ToldOpen(g, b) \/ (Opening(m) /\ g = m.front /\ b = m.back)
         /\ TxOrder /\ (IF Opening(m) THEN ~Told(m.front) ELSE ~ToldEnd(m.front)) => TxOrder'
<1>1. tx_queue \in Seq(ResponseSet)
  BY Zenon DEF Types
<1>2. /\ tx_queue' \in Seq(ResponseSet) /\ Len(tx_queue) \in Nat
      /\ DOMAIN tx_queue' = (DOMAIN tx_queue) \cup {Len(tx_queue) + 1}
      /\ DOMAIN tx_queue = 1 .. Len(tx_queue)
      /\ tx_queue'[Len(tx_queue) + 1] = m
      /\ \A i \in DOMAIN tx_queue : tx_queue'[i] = tx_queue[i] /\ i < Len(tx_queue) + 1
  BY <1>1, AppendFacts
<1>3. \A g : Told(g)' <=> Told(g) \/ g = m.front
  BY <1>2, Zenon DEF Told
<1>4. \A g : ToldEnd(g)' <=> ToldEnd(g) \/ (~Opening(m) /\ g = m.front)
  BY <1>2, Zenon DEF ToldEnd, Opening
<1>5. \A g, b : ToldOpen(g, b)' <=>
                  ToldOpen(g, b) \/ (Opening(m) /\ g = m.front /\ b = m.back)
  BY <1>2 DEF ToldOpen, Opening
<1>6. ASSUME TxOrder, IF Opening(m) THEN ~Told(m.front) ELSE ~ToldEnd(m.front)
      PROVE  TxOrder'
  <2> SUFFICES ASSUME NEW k \in DOMAIN tx_queue', NEW l \in DOMAIN tx_queue', k < l,
                      tx_queue'[k].front = tx_queue'[l].front
               PROVE  Opening(tx_queue'[k]) /\ ~Opening(tx_queue'[l])
    BY Zenon DEF TxOrder, Opening
  <2>1. k \in DOMAIN tx_queue /\ tx_queue'[k] = tx_queue[k]
    BY <1>2
  <2>2. CASE l \in DOMAIN tx_queue
    BY <1>2, <1>6, <2>1, <2>2, Zenon DEF TxOrder
  <2>3. CASE l = Len(tx_queue) + 1
    BY <1>2, <1>6, <2>1, <2>3, Zenon DEF Told, ToldEnd
  <2> QED
    BY <1>2, <2>2, <2>3, Zenon
<1> QED
  BY <1>2, <1>3, <1>4, <1>5, <1>6, Zenon

(* What the frontend's reading a message changes: of its frontend id, only *)
(* the end may be left to be told, and only after an opening.              *)
LEMMA TxRead ==
  ASSUME Types, TxOrder, tx_queue # <<>>, tx_queue' = Tail(tx_queue),
         NEW m, m = Head(tx_queue)
  PROVE  /\ tx_queue' \in Seq(ResponseSet) /\ m \in ResponseSet /\ Told(m.front)
         /\ Opening(m) => ToldOpen(m.front, m.back)
         /\ ~Opening(m) => ToldEnd(m.front) /\ ~Told(m.front)'
         /\ \A g : g # m.front => (Told(g)' <=> Told(g))
         /\ \A g : g # m.front \/ Opening(m) => (ToldEnd(g)' <=> ToldEnd(g))
         /\ \A g, b : ToldOpen(g, b)' <=> ToldOpen(g, b) /\ g # m.front
         /\ Told(m.front)' => ToldEnd(m.front)'
         /\ TxOrder'
<1>1. /\ tx_queue' \in Seq(ResponseSet) /\ m = tx_queue[1] /\ m \in ResponseSet
      /\ 1 \in DOMAIN tx_queue /\ DOMAIN tx_queue \subseteq Nat \ {0}
      /\ DOMAIN tx_queue' \subseteq Nat \ {0}
      /\ \A i \in DOMAIN tx_queue' : i + 1 \in DOMAIN tx_queue /\ tx_queue'[i] = tx_queue[i + 1]
      /\ \A i \in DOMAIN tx_queue :
           i # 1 => i - 1 \in DOMAIN tx_queue' /\ tx_queue'[i - 1] = tx_queue[i]
  BY TailFacts DEF Types
<1>2. ASSUME NEW i \in DOMAIN tx_queue', tx_queue'[i].front = m.front
      PROVE  Opening(m) /\ ~Opening(tx_queue'[i])
  <2>1. 1 < i + 1
    BY <1>1
  <2> QED
    BY <1>1, <1>2, <2>1 DEF TxOrder
<1>3. Told(m.front) /\ (Opening(m) => ToldOpen(m.front, m.back)) /\ (~Opening(m) => ToldEnd(m.front))
  BY <1>1, Zenon DEF Told, ToldOpen, ToldEnd
<1>4. (~Opening(m) => ~Told(m.front)') /\ (Told(m.front)' => ToldEnd(m.front)')
  <2>1. (~Opening(m) => ~\E i \in DOMAIN tx_queue' : tx_queue'[i].front = m.front)
    BY <1>2, Zenon
  <2>2. (\E i \in DOMAIN tx_queue' : tx_queue'[i].front = m.front) =>
          \E i \in DOMAIN tx_queue' : ~Opening(tx_queue'[i]) /\ tx_queue'[i].front = m.front
    BY <1>2, Zenon
  <2> QED
    BY <2>1, <2>2, Zenon DEF Told, ToldEnd, Opening
<1>5. /\ \A i \in DOMAIN tx_queue : tx_queue[i] # m =>
           \E j \in DOMAIN tx_queue' : tx_queue'[j] = tx_queue[i]
      /\ \A j \in DOMAIN tx_queue' : \E i \in DOMAIN tx_queue : tx_queue[i] = tx_queue'[j]
  BY <1>1, Zenon
<1>6. \A g : g # m.front => (Told(g)' <=> Told(g))
  BY <1>5 DEF Told
<1>7. \A g : g # m.front \/ Opening(m) => (ToldEnd(g)' <=> ToldEnd(g))
  BY <1>5 DEF ToldEnd, Opening
<1>8. \A g, b : ToldOpen(g, b)' <=> ToldOpen(g, b) /\ g # m.front
  <2>1. ASSUME NEW g, NEW b, ToldOpen(g, b)'
        PROVE  ToldOpen(g, b) /\ g # m.front
    <3>1. PICK i \in DOMAIN tx_queue' : /\ Opening(tx_queue'[i]) /\ tx_queue'[i].front = g
                                        /\ tx_queue'[i].back = b
      BY <2>1, Zenon DEF ToldOpen, Opening
    <3> QED
      BY <1>1, <1>2, <3>1, Zenon DEF ToldOpen
  <2>2. ASSUME NEW g, NEW b, ToldOpen(g, b), g # m.front
        PROVE  ToldOpen(g, b)'
    BY <1>5, <2>2 DEF ToldOpen, Opening
  <2> QED
    BY <2>1, <2>2, Zenon
<1>9. TxOrder'
  <2> SUFFICES ASSUME NEW k \in DOMAIN tx_queue', NEW l \in DOMAIN tx_queue', k < l,
                      tx_queue'[k].front = tx_queue'[l].front
               PROVE  Opening(tx_queue'[k]) /\ ~Opening(tx_queue'[l])
    BY Zenon DEF TxOrder, Opening
  <2>1. /\ k + 1 \in DOMAIN tx_queue /\ tx_queue'[k] = tx_queue[k + 1]
        /\ l + 1 \in DOMAIN tx_queue /\ tx_queue'[l] = tx_queue[l + 1] /\ k + 1 < l + 1
    BY <1>1
  <2> QED
    BY <2>1, Zenon DEF TxOrder
<1> QED
  BY <1>1, <1>3, <1>4, <1>6, <1>7, <1>8, <1>9, Zenon
-----------------------------------------------------------------------------
Life == OneSessionPerFrontend /\ Types /\ OneCreate /\ Phases /\ TxOrder /\ Known /\ Waits

\* Nothing changes of the sessions, or of the TX queue.
SessKept == UNCHANGED <<sess, reclaiming>>
TxKept == UNCHANGED <<tx_queue>>

(* What depends on one part of the state changes with that part only.      *)
LEMMA PartsKept ==
  /\ SessKept => /\ \A g : (HasSess(g)' <=> HasSess(g)) /\ (Undoing(g)' <=> Undoing(g))
                 /\ OneSessionPerFrontend' <=> OneSessionPerFrontend
  /\ TxKept => /\ \A g : (Told(g)' <=> Told(g)) /\ (ToldEnd(g)' <=> ToldEnd(g))
               /\ \A g, b : ToldOpen(g, b)' <=> ToldOpen(g, b)
               /\ TxOrder' <=> TxOrder
  /\ UNCHANGED rx_queue => /\ \A g : Asked(g)' <=> Asked(g)
                           /\ \A g, b : ToClose(g, b)' <=> ToClose(g, b)
                           /\ OneCreate' <=> OneCreate
<1>1. SessKept => /\ \A g : (HasSess(g)' <=> HasSess(g)) /\ (Undoing(g)' <=> Undoing(g))
                  /\ OneSessionPerFrontend' <=> OneSessionPerFrontend
  BY Zenon DEF SessKept, HasSess, Undoing, OneSessionPerFrontend
<1>2. TxKept => /\ \A g : (Told(g)' <=> Told(g)) /\ (ToldEnd(g)' <=> ToldEnd(g))
                /\ \A g, b : ToldOpen(g, b)' <=> ToldOpen(g, b)
                /\ TxOrder' <=> TxOrder
  BY Zenon DEF TxKept, Told, ToldEnd, ToldOpen, TxOrder, Opening
<1>3. UNCHANGED rx_queue => /\ \A g : Asked(g)' <=> Asked(g)
                            /\ \A g, b : ToClose(g, b)' <=> ToClose(g, b)
                            /\ OneCreate' <=> OneCreate
  BY Zenon DEF Asked, ToClose, OneCreate
<1> QED
  BY <1>1, <1>2, <1>3, Zenon

(* The frontend creates a session of an id that has none.                  *)
LEMMA LifeAsked ==
  ASSUME Life, NEW f \in FrontId, NEW want \in Want, FrontendCreate(f, want)
  PROVE  Life'
<1> DEFINE c == Command("create", f, HANDOVER, want)
<1>1. /\ view[f] = "closed" /\ view' = [view EXCEPT ![f] = "opening"] /\ bid' = bid
      /\ rx_queue' = Append(rx_queue, c) /\ lost' = lost /\ engine' = engine
      /\ SessKept /\ TxKept
  BY Zenon DEF FrontendCreate, FrontendSends, SessKept, TxKept, vars, poolVars
<1>2. c \in CommandSet /\ c.type = "create" /\ c.front = f
  BY Zenon DEF Command, CommandSet
<1> HIDE DEF c
<1>3. ~Asked(f) /\ ~HasSess(f) /\ ~Undoing(f) /\ ~Told(f)
  BY <1>1, Zenon DEF Life, Phases
<1>4. /\ rx_queue' \in Seq(CommandSet) /\ OneCreate'
      /\ \A g : Asked(g)' <=> Asked(g) \/ g = f
      /\ \A g, b : ToClose(g, b) => ToClose(g, b)'
  BY <1>1, <1>2, <1>3, RxSent, Zenon DEF Life
<1>5. /\ view' \in [FrontId -> {"closed", "opening", "open", "closing"}]
      /\ \A g \in FrontId : view'[g] = IF g = f THEN "opening" ELSE view[g]
  BY <1>1, Zenon DEF Life, Types
<1>6. Types'
  BY <1>1, <1>4, <1>5, Zenon DEF Life, Types, SessKept, TxKept
<1>7. Phases'
  BY <1>3, <1>4, <1>5, <1>1, PartsKept, Zenon DEF Life, Phases
<1>8. Known'
  <2>1. \A s \in sess : s.front # f
    BY <1>3, Zenon DEF HasSess
  <2>2. ASSUME NEW s \in sess
        PROVE  IF view'[s.front] = "opening" THEN ToldOpen(s.front, s.id)
               ELSE bid'[s.front] = s.id
    BY <1>1, <1>5, <2>1, Zenon DEF Life, Known, Types
  <2>3. ASSUME NEW g \in FrontId, NEW b \in Id, ToldOpen(g, b)
        PROVE  view'[g] = "opening"
    BY <1>5, <2>3, Zenon DEF Life, Known
  <2> QED
    BY <1>1, <2>2, <2>3, Zenon DEF Known, SessKept, TxKept, ToldOpen
<1>9. Waits'
  BY <1>1, <1>3, <1>4, <1>5, PartsKept, Zenon DEF Life, Waits
<1> QED
  BY <1>1, <1>4, <1>6, <1>7, <1>8, <1>9, PartsKept, Zenon DEF Life

(* The frontend sends data or closes a session it takes for open.          *)
LEMMA LifeUsed ==
  ASSUME Life, NEW f \in FrontId, FrontendClose(f) \/ FrontendData(f)
  PROVE  Life'
<1>1. PICK to \in {"open", "closing"},
           c \in {Command("data", f, bid[f], AUTO), Command("close", f, bid[f], AUTO)} :
        /\ view[f] = "open" /\ view' = [view EXCEPT ![f] = to] /\ bid' = bid
        /\ rx_queue' = Append(rx_queue, c) /\ lost' = lost /\ engine' = engine
        /\ SessKept /\ TxKept
        /\ \/ to = "open" /\ c = Command("data", f, bid[f], AUTO)
           \/ to = "closing" /\ c = Command("close", f, bid[f], AUTO)
  BY Zenon DEF FrontendClose, FrontendData, FrontendSends, SessKept, TxKept, vars, poolVars
<1>2. bid[f] \in Id
  BY <1>1, Zenon DEF Life, Types
<1>3. /\ c \in CommandSet /\ c.type # "create" /\ c.front = f /\ c.back = bid[f]
      /\ to = "closing" => c.type = "close"
  BY <1>1, <1>2, SMTT(30) DEF Command, CommandSet
<1>4. /\ rx_queue' \in Seq(CommandSet) /\ OneCreate'
      /\ \A g : Asked(g)' <=> Asked(g)
      /\ \A g, b : ToClose(g, b) => ToClose(g, b)'
      /\ c.type = "close" => ToClose(f, c.back)'
  BY <1>1, <1>3, RxSent, Zenon DEF Life
<1>5. /\ view' \in [FrontId -> {"closed", "opening", "open", "closing"}]
      /\ \A g \in FrontId : view'[g] = IF g = f THEN to ELSE view[g]
  BY <1>1, Zenon DEF Life, Types
<1>6. Types'
  BY <1>1, <1>2, <1>4, <1>5, Zenon DEF Life, Types, SessKept, TxKept
<1>7. Phases'
  BY <1>1, <1>4, <1>5, PartsKept, Zenon DEF Life, Phases
<1>8. Known'
  <2>1. ASSUME NEW s \in sess
        PROVE  IF view'[s.front] = "opening" THEN ToldOpen(s.front, s.id)
               ELSE bid'[s.front] = s.id
    BY <1>1, <1>5, Zenon DEF Life, Known, Types
  <2>2. ASSUME NEW g \in FrontId, NEW b \in Id, ToldOpen(g, b)
        PROVE  view'[g] = "opening"
    BY <1>1, <1>5, <2>2, Zenon DEF Life, Known
  <2> QED
    BY <1>1, <2>1, <2>2, Zenon DEF Known, SessKept, TxKept, ToldOpen
<1>9. Waits'
  <2> SUFFICES ASSUME NEW g \in FrontId
               PROVE  /\ view'[g] \in {"open", "closing"} \/ Told(g)' =>
                           HasSess(g)' \/ ToldEnd(g)' \/ g \in lost'
                      /\ engine' = "run" /\ view'[g] = "closing" /\ HasSess(g)' =>
                           \E i \in DOMAIN rx_queue' : /\ rx_queue'[i].type = "close"
                                                       /\ rx_queue'[i].front = g
                                                       /\ rx_queue'[i].back = bid[g]
    BY <1>1 DEF Waits, ToClose
  <2>1. view'[g] \in {"open", "closing"} \/ Told(g)' => HasSess(g)' \/ ToldEnd(g)' \/ g \in lost'
    BY <1>1, <1>5, PartsKept, Zenon DEF Life, Waits
  <2>2. CASE g = f /\ to = "closing"
    <3>1. ToClose(f, c.back)'
      BY <1>3, <1>4, <2>2, Zenon
    <3>2. \E i \in DOMAIN rx_queue' : /\ rx_queue'[i].type = "close"
                                     /\ rx_queue'[i].front = f /\ rx_queue'[i].back = c.back
      BY <3>1, Zenon DEF ToClose
    <3> QED
      BY <1>3, <2>1, <2>2, <3>2, Zenon
  <2>3. CASE ~(g = f /\ to = "closing")
    <3>1. ASSUME engine' = "run", view'[g] = "closing", HasSess(g)'
          PROVE  ToClose(g, bid[g])
      BY <1>1, <1>5, <2>3, <3>1, PartsKept, Zenon DEF Life, Waits
    <3>2. \A b : ToClose(g, b) => \E i \in DOMAIN rx_queue' : /\ rx_queue'[i].type = "close"
                                                             /\ rx_queue'[i].front = g
                                                             /\ rx_queue'[i].back = b
      <4> SUFFICES ASSUME NEW b, ToClose(g, b)
                   PROVE  \E i \in DOMAIN rx_queue' : /\ rx_queue'[i].type = "close"
                                                      /\ rx_queue'[i].front = g
                                                      /\ rx_queue'[i].back = b
        BY Zenon
      <4>1. ToClose(g, b)'
        BY <1>4, Zenon
      <4> QED
        BY <4>1, Zenon DEF ToClose
    <3> QED
      BY <2>1, <3>1, <3>2, Zenon
  <2> QED
    BY <2>2, <2>3, Zenon
<1> QED
  BY <1>1, <1>4, <1>6, <1>7, <1>8, <1>9, PartsKept, ZenonT(60) DEF Life

(* The TX queue holds one message at most that opens a session of f.       *)
LEMMA OneOpening ==
  ASSUME Types, TxOrder, NEW f, NEW b, NEW d, ToldOpen(f, b), ToldOpen(f, d)
  PROVE  b = d
<1>1. PICK k \in DOMAIN tx_queue :
        Opening(tx_queue[k]) /\ tx_queue[k].front = f /\ tx_queue[k].back = b
  BY Zenon DEF ToldOpen
<1>2. PICK l \in DOMAIN tx_queue :
        Opening(tx_queue[l]) /\ tx_queue[l].front = f /\ tx_queue[l].back = d
  BY Zenon DEF ToldOpen
<1>3. ~(k < l) /\ ~(l < k) /\ k \in Nat /\ l \in Nat
  BY <1>1, <1>2 DEF TxOrder, Types
<1>4. k = l
  BY <1>3
<1> QED
  BY <1>1, <1>2, <1>4, Zenon

(* The frontend reads a message.                                           *)
LEMMA LifeRead ==
  ASSUME Life, FrontendReceive
  PROVE  Life'
<1>0. PICK m : m = Head(tx_queue)
  BY Zenon
<1> DEFINE f == m.front
<1>1. /\ tx_queue # <<>> /\ tx_queue' = Tail(tx_queue)
      /\ view' = [view EXCEPT ![f] = IF Opening(m) THEN "open" ELSE "closed"]
      /\ bid' = [bid EXCEPT ![f] = IF Opening(m) THEN m.back ELSE HANDOVER]
      /\ rx_queue' = rx_queue /\ lost' = lost /\ engine' = engine /\ SessKept
  BY <1>0, Zenon DEF FrontendReceive, FrontendTakes, SessKept, poolVars, Opening
<1>2. /\ tx_queue' \in Seq(ResponseSet) /\ m \in ResponseSet /\ Told(f)
      /\ Opening(m) => ToldOpen(f, m.back)
      /\ ~Opening(m) => ToldEnd(f) /\ ~Told(f)'
      /\ \A g : g # f => (Told(g)' <=> Told(g))
      /\ \A g : g # f \/ Opening(m) => (ToldEnd(g)' <=> ToldEnd(g))
      /\ \A g, b : ToldOpen(g, b)' <=> ToldOpen(g, b) /\ g # f
      /\ Told(f)' => ToldEnd(f)'
      /\ TxOrder'
  BY <1>0, <1>1, TxRead, Zenon DEF Life
<1>3. f \in FrontId /\ m.back \in Id \cup {HANDOVER} /\ (Opening(m) => m.back \in Id)
  BY <1>2, Zenon DEF ResponseSet, Opening
<1> HIDE DEF f
<1>4. /\ view' \in [FrontId -> {"closed", "opening", "open", "closing"}]
      /\ bid' \in [FrontId -> Id \cup {HANDOVER}]
      /\ \A g \in FrontId : g # f => view'[g] = view[g] /\ bid'[g] = bid[g]
      /\ view'[f] = IF Opening(m) THEN "open" ELSE "closed"
      /\ bid'[f] = IF Opening(m) THEN m.back ELSE HANDOVER
  BY <1>1, <1>3, Zenon DEF Life, Types
<1>5. Types'
  BY <1>1, <1>2, <1>3, <1>4, Zenon DEF Life, Types, SessKept
<1>6. ~Asked(f) /\ ~Undoing(f) /\ (~Opening(m) => ~HasSess(f))
  BY <1>2, <1>3, Zenon DEF Life, Phases
<1>7. Phases'
  <2> SUFFICES ASSUME NEW g \in FrontId
               PROVE  /\ ~(Asked(g)' /\ HasSess(g)') /\ ~(Asked(g)' /\ Undoing(g)')
                      /\ ~(HasSess(g)' /\ Undoing(g)')
                      /\ Asked(g)' \/ Undoing(g)' => view'[g] = "opening" /\ ~Told(g)'
                      /\ HasSess(g)' => view'[g] # "closed" /\ ~ToldEnd(g)'
                      /\ Told(g)' => view'[g] # "closed"
    BY Zenon DEF Phases
  <2>1. /\ (Asked(g)' <=> Asked(g)) /\ (HasSess(g)' <=> HasSess(g))
        /\ (Undoing(g)' <=> Undoing(g))
    BY <1>1, PartsKept, Zenon
  <2>2. CASE g = f
    BY <1>2, <1>4, <1>6, <2>1, <2>2, ZenonT(60) DEF Life, Phases
  <2>3. CASE g # f
    BY <1>2, <1>4, <2>1, <2>3, Zenon DEF Life, Phases
  <2> QED
    BY <2>2, <2>3, Zenon
<1>8. Known'
  <2>1. ASSUME NEW s \in sess
        PROVE  IF view'[s.front] = "opening" THEN ToldOpen(s.front, s.id) /\ s.front # f
               ELSE bid'[s.front] = s.id
    <3>1. s.front \in FrontId /\ s.id \in Id /\ HasSess(s.front)
      BY Zenon DEF Life, Types, HasSess
    <3>2. CASE s.front # f
      BY <1>4, <3>1, <3>2, Zenon DEF Life, Known
    <3>3. CASE s.front = f
      <4>1. Opening(m) /\ view[f] = "opening" /\ ToldOpen(f, m.back) /\ ToldOpen(f, s.id)
        BY <1>2, <1>3, <1>6, <3>1, <3>3, Zenon DEF Life, Known
      <4>2. m.back = s.id
        BY <4>1, OneOpening, Zenon DEF Life
      <4> QED
        BY <1>4, <3>3, <4>1, <4>2, Zenon
    <3> QED
      BY <3>2, <3>3, Zenon
  <2>2. \A g \in FrontId, b \in Id : ToldOpen(g, b) /\ g # f => view'[g] = "opening"
    BY <1>4, Zenon DEF Life, Known
  <2>3. \A g \in FrontId, b \in Id : ToldOpen(g, b)' => view'[g] = "opening"
    BY <1>2, <2>2, Zenon
  <2>4. \A s \in sess' : IF view'[s.front] = "opening" THEN ToldOpen(s.front, s.id)'
                         ELSE bid'[s.front] = s.id
    BY <1>1, <1>2, <2>1, Zenon DEF SessKept
  <2> QED
    BY <2>3, <2>4, Zenon DEF Known
<1>9. Waits'
  <2> SUFFICES ASSUME NEW g \in FrontId
               PROVE  /\ view'[g] \in {"open", "closing"} \/ Told(g)' =>
                           HasSess(g)' \/ ToldEnd(g)' \/ g \in lost'
                      /\ engine' = "run" /\ view'[g] = "closing" /\ HasSess(g)' =>
                           ToClose(g, bid[g]) /\ bid'[g] = bid[g]
    BY <1>1 DEF Waits, ToClose
  <2>1. HasSess(g)' <=> HasSess(g)
    BY <1>1, PartsKept, Zenon
  <2>2. CASE g = f
    BY <1>1, <1>2, <1>4, <2>1, <2>2, Zenon DEF Life, Waits
  <2>3. CASE g # f
    BY <1>1, <1>2, <1>4, <2>1, <2>3, Zenon DEF Life, Waits
  <2> QED
    BY <2>2, <2>3, Zenon
<1> QED
  BY <1>1, <1>2, <1>5, <1>7, <1>8, <1>9, PartsKept, Zenon DEF Life

(* The backend tells a frontend id the end of its session or of its create *)
(* command, or loses the message.                                          *)
LEMMA EndSaid ==
  ASSUME Types, TxOrder, NEW m \in ResponseSet, ~Opening(m), ~ToldEnd(m.front), Says(m)
  PROVE  /\ tx_queue' \in Seq(ResponseSet) /\ TxOrder'
         /\ lost \subseteq lost' /\ lost' \subseteq FrontId
         /\ ToldEnd(m.front)' \/ m.front \in lost'
         /\ \A g : (Told(g) => Told(g)') /\ (Told(g)' => Told(g) \/ ToldEnd(g)')
         /\ \A g : ToldEnd(g) => ToldEnd(g)'
         /\ \A g : g # m.front => (Told(g)' <=> Told(g)) /\ (ToldEnd(g)' <=> ToldEnd(g))
         /\ \A g, b : ToldOpen(g, b)' <=> ToldOpen(g, b)
<1>0. m.front \in FrontId
  BY Zenon DEF ResponseSet
<1>1. CASE tx_queue' = Append(tx_queue, m) /\ lost' = lost
  <2>1. /\ tx_queue' \in Seq(ResponseSet) /\ TxOrder'
        /\ \A g : Told(g)' <=> Told(g) \/ g = m.front
        /\ \A g : ToldEnd(g)' <=> ToldEnd(g) \/ g = m.front
        /\ \A g, b : ToldOpen(g, b)' <=> ToldOpen(g, b)
    BY <1>1, TxSaid, Zenon
  <2> QED
    BY <1>1, <2>1, Zenon DEF Types
<1>2. CASE tx_queue' = tx_queue /\ lost' = lost \cup {m.front}
  BY <1>0, <1>2, PartsKept DEF Types, TxKept
<1> QED
  BY <1>1, <1>2, Zenon DEF Says

(* What a failed create and a deletion say.                                *)
LEMMA EndMessages ==
  ASSUME NEW f \in FrontId, NEW m,
         m = CreateFailed(f) \/ m = Response("close", TRUE, f, HANDOVER)
  PROVE  m \in ResponseSet /\ ~Opening(m) /\ m.front = f
<1>1. CASE m = CreateFailed(f)
  <2>1. m.ok = FALSE /\ m.front = f /\ m \in ResponseSet
    BY <1>1, Zenon DEF CreateFailed, Response, ResponseSet
  <2> QED
    BY <2>1, Zenon DEF Opening
<1>2. CASE m = Response("close", TRUE, f, HANDOVER)
  <2>1. m.type = "close" /\ m.front = f /\ m \in ResponseSet
    BY <1>2, Zenon DEF Response, ResponseSet
  <2> QED
    BY <2>1, Zenon DEF Opening
<1> QED
  BY <1>1, <1>2, ZenonT(60)

(* A create command is refused, or a create that stalled is given up.      *)
LEMMA LifeRefused ==
  ASSUME Life, NEW f \in FrontId, Says(CreateFailed(f)),
         UNCHANGED <<sess, view, bid, engine>>,
         \/ Takes /\ Head(rx_queue).type = "create" /\ Head(rx_queue).front = f
            /\ UNCHANGED reclaiming
         \/ Undoing(f) /\ reclaiming' = {} /\ UNCHANGED rx_queue
  PROVE  Life'
<1>1. /\ rx_queue' \in Seq(CommandSet) /\ OneCreate'
      /\ \A g : Asked(g)' => Asked(g)
      /\ \A g, b : ToClose(g, b) => ToClose(g, b)'
      /\ ~Asked(f)' /\ (Asked(f) \/ Undoing(f))
      /\ \A g : Undoing(g)' => Undoing(g)
      /\ ~Undoing(f)'
      /\ \A r \in reclaiming' : r \in reclaiming
  <2>1. CASE Takes /\ Head(rx_queue).type = "create" /\ Head(rx_queue).front = f
             /\ UNCHANGED reclaiming
    <3>1. /\ rx_queue' \in Seq(CommandSet) /\ OneCreate'
          /\ \A g : Asked(g)' => Asked(g)
          /\ \A g, b : ToClose(g, b) => ToClose(g, b)'
          /\ ~Asked(f)' /\ Asked(f)
      BY <2>1, RxTaken, Zenon DEF Life
    <3>2. \A g : Undoing(g)' <=> Undoing(g)
      BY <2>1, Zenon DEF Undoing
    <3>3. ~Undoing(f)
      BY <3>1, Zenon DEF Life, Phases
    <3> QED
      BY <2>1, <3>1, <3>2, <3>3, Zenon
  <2>2. CASE Undoing(f) /\ reclaiming' = {} /\ UNCHANGED rx_queue
    <3>1. /\ rx_queue' \in Seq(CommandSet) /\ OneCreate'
          /\ \A g : Asked(g)' => Asked(g)
          /\ \A g, b : ToClose(g, b) => ToClose(g, b)'
      BY <2>2, PartsKept, Zenon DEF Life, Types
    <3>2. \A g : ~Undoing(g)'
      BY <2>2, Zenon DEF Undoing
    <3>3. ~Asked(f)
      BY <2>2, ZenonT(60) DEF Life, Phases
    <3> QED
      BY <2>2, <3>1, <3>2, <3>3, Zenon
  <2> QED
    BY <2>1, <2>2, Zenon
<1>2. view[f] = "opening" /\ ~Told(f) /\ ~ToldEnd(f) /\ ~HasSess(f)
  BY <1>1, ZenonT(60) DEF Life, Phases, Told, ToldEnd
<1>3. /\ tx_queue' \in Seq(ResponseSet) /\ TxOrder'
      /\ lost \subseteq lost' /\ lost' \subseteq FrontId
      /\ ToldEnd(f)' \/ f \in lost'
      /\ \A g : (Told(g) => Told(g)') /\ (Told(g)' => Told(g) \/ ToldEnd(g)')
      /\ \A g : ToldEnd(g) => ToldEnd(g)'
      /\ \A g : g # f => (Told(g)' <=> Told(g)) /\ (ToldEnd(g)' <=> ToldEnd(g))
      /\ \A g, b : ToldOpen(g, b)' <=> ToldOpen(g, b)
  <2> DEFINE m == CreateFailed(f)
  <2>1. m \in ResponseSet /\ ~Opening(m) /\ m.front = f
    BY EndMessages, ZenonT(60)
  <2> HIDE DEF m
  <2>2. Says(m)
    BY Zenon DEF m
  <2>3. ~ToldEnd(m.front)
    BY <1>2, <2>1, Zenon
  <2> QED
    BY <2>1, <2>2, <2>3, EndSaid, Zenon DEF Life
<1>4. /\ \A g : HasSess(g)' <=> HasSess(g)
      /\ OneSessionPerFrontend'
  BY Zenon DEF HasSess, Life, OneSessionPerFrontend
<1>5. Types'
  BY <1>1, <1>3, Zenon DEF Life, Types
<1>6. Phases'
  <2> SUFFICES ASSUME NEW g \in FrontId
               PROVE  /\ ~(Asked(g)' /\ HasSess(g)') /\ ~(Asked(g)' /\ Undoing(g)')
                      /\ ~(HasSess(g)' /\ Undoing(g)')
                      /\ Asked(g)' \/ Undoing(g)' => view'[g] = "opening" /\ ~Told(g)'
                      /\ HasSess(g)' => view'[g] # "closed" /\ ~ToldEnd(g)'
                      /\ Told(g)' => view'[g] # "closed"
    BY Zenon DEF Phases
  <2>1. CASE g = f
    BY <1>1, <1>2, <1>4, <2>1, Zenon
  <2>2. CASE g # f
    BY <1>1, <1>3, <1>4, <2>2, ZenonT(60) DEF Life, Phases
  <2> QED
    BY <2>1, <2>2, ZenonT(60)
<1>7. Known'
  BY <1>3, ZenonT(60) DEF Life, Known
<1>8. Waits'
  BY <1>1, <1>2, <1>3, <1>4, Zenon DEF Life, Waits
<1> QED
  BY <1>1, <1>3, <1>4, <1>5, <1>6, <1>7, <1>8, Zenon DEF Life

(* A create command is granted: the session, and the message that opens it.*)
LEMMA LifeGranted ==
  ASSUME Life, NEW s, s.id \in Id, Grants(s)
  PROVE  Life'
<1> DEFINE f == s.front
           m == Response("create", TRUE, f, s.id)
<1>1. /\ Takes /\ Head(rx_queue).type = "create" /\ Head(rx_queue).front = f
      /\ sess' = sess \cup {s} /\ reclaiming' = {} /\ reclaiming = {}
      /\ tx_queue' = Append(tx_queue, m)
      /\ lost' = lost /\ engine' = engine /\ view' = view /\ bid' = bid
  BY Zenon DEF Grants, Taken, frontVars
<1>2. f \in FrontId
  BY <1>1, HeadCommand, Zenon DEF Life, Takes
<1>3. m \in ResponseSet /\ Opening(m) /\ m.front = f /\ m.back = s.id
  BY <1>2, Zenon DEF Response, ResponseSet, Opening
<1> HIDE DEF f, m
<1>4. /\ rx_queue' \in Seq(CommandSet) /\ OneCreate'
      /\ \A g : Asked(g)' <=> Asked(g) /\ g # f
      /\ Asked(f)
      /\ \A g, b : ToClose(g, b) => ToClose(g, b)'
  BY <1>1, RxTaken, Zenon DEF Life
<1>5. view[f] = "opening" /\ ~Told(f) /\ ~ToldEnd(f) /\ ~HasSess(f)
  BY <1>2, <1>4, Zenon DEF Life, Phases, Told, ToldEnd
<1>6. /\ tx_queue' \in Seq(ResponseSet) /\ TxOrder'
      /\ \A g : Told(g)' <=> Told(g) \/ g = f
      /\ \A g : ToldEnd(g)' <=> ToldEnd(g)
      /\ \A g, b : ToldOpen(g, b)' <=> ToldOpen(g, b) \/ (g = f /\ b = s.id)
  BY <1>1, <1>3, <1>5, TxSaid DEF Life
<1>7. \A g : (HasSess(g)' <=> HasSess(g) \/ g = f) /\ ~Undoing(g)'
  BY <1>1, Zenon DEF HasSess, Undoing, f
<1>8. OneSessionPerFrontend'
  <2>1. \A t \in sess : t.front # s.front
    BY <1>5, Zenon DEF HasSess, f
  <2> QED
    BY <1>1, <2>1, Zenon DEF Life, OneSessionPerFrontend
<1>9. Types'
  BY <1>1, <1>2, <1>4, <1>6, ZenonT(60) DEF Life, Types, f
<1>10. Phases'
  BY <1>1, <1>4, <1>5, <1>6, <1>7, Zenon DEF Life, Phases
<1>11. Known'
  <2>1. \A g \in FrontId, b \in Id : ToldOpen(g, b)' => view'[g] = "opening"
    BY <1>1, <1>5, <1>6, Zenon DEF Life, Known
  <2>2. ASSUME NEW t \in sess'
        PROVE  IF view'[t.front] = "opening" THEN ToldOpen(t.front, t.id)'
               ELSE bid'[t.front] = t.id
    <3>1. CASE t \in sess
      BY <1>1, <1>6, <3>1, Zenon DEF Life, Known
    <3>2. CASE t = s
      BY <1>1, <1>5, <1>6, <3>2, Zenon DEF f
    <3> QED
      BY <1>1, <3>1, <3>2, Zenon
  <2> QED
    BY <2>1, <2>2, Zenon DEF Known
<1>12. Waits'
  BY <1>1, <1>4, <1>5, <1>6, <1>7, Zenon DEF Life, Waits
<1> QED
  BY <1>4, <1>6, <1>8, <1>9, <1>10, <1>11, <1>12, Zenon DEF Life

(* A create command stalls: its response finds no room.                    *)
LEMMA LifeStalled ==
  ASSUME Life, NEW r, r.id \in Id, Stalls(r)
  PROVE  Life'
<1> DEFINE f == r.front
<1>1. /\ Takes /\ Head(rx_queue).type = "create" /\ Head(rx_queue).front = f
      /\ sess' = sess /\ reclaiming' = {r} /\ reclaiming = {} /\ TxKept
      /\ lost' = lost /\ engine' = engine /\ view' = view /\ bid' = bid
  BY Zenon DEF Stalls, Taken, frontVars, TxKept
<1>2. f \in FrontId
  BY <1>1, HeadCommand, Zenon DEF Life, Takes
<1> HIDE DEF f
<1>3. /\ rx_queue' \in Seq(CommandSet) /\ OneCreate'
      /\ \A g : Asked(g)' <=> Asked(g) /\ g # f
      /\ Asked(f)
      /\ \A g, b : ToClose(g, b) => ToClose(g, b)'
  BY <1>1, RxTaken, Zenon DEF Life
<1>4. \A g : (HasSess(g)' <=> HasSess(g)) /\ (Undoing(g)' <=> g = f)
  BY <1>1, Zenon DEF HasSess, Undoing, f
<1>5. /\ OneSessionPerFrontend' /\ TxOrder'
      /\ \A g : (Told(g)' <=> Told(g)) /\ (ToldEnd(g)' <=> ToldEnd(g))
      /\ \A g, b : ToldOpen(g, b)' <=> ToldOpen(g, b)
  BY <1>1, PartsKept, Zenon DEF Life, OneSessionPerFrontend
<1>6. Types'
  BY <1>1, <1>2, <1>3, Zenon DEF Life, Types, TxKept, f
<1>7. Phases'
  BY <1>1, <1>2, <1>3, <1>4, <1>5, ZenonT(60) DEF Life, Phases
<1>8. Known'
  BY <1>1, <1>5, ZenonT(60) DEF Life, Known
<1>9. Waits'
  BY <1>1, <1>3, <1>4, <1>5, Zenon DEF Life, Waits
<1> QED
  BY <1>3, <1>5, <1>6, <1>7, <1>8, <1>9, Zenon DEF Life

(* A session ends, on a close command or because its socket failed.        *)
LEMMA LifeEnded ==
  ASSUME Life, NEW s \in sess, \A t \in sess : t.id = s.id => t = s, Ends(s)
  PROVE  Life'
<1> DEFINE f == s.front
           m == Response("close", TRUE, f, HANDOVER)
<1>1. /\ sess' = sess \ {s} /\ reclaiming' = {} /\ reclaiming = {} /\ Says(m)
      /\ engine' = engine /\ view' = view /\ bid' = bid
  BY Zenon DEF Ends, frontVars
<1>2. f \in FrontId /\ HasSess(f) /\ \A t \in sess : t # s => t.front # f
  BY Zenon DEF Life, Types, HasSess, OneSessionPerFrontend
<1>3. m \in ResponseSet /\ ~Opening(m) /\ m.front = f
  BY <1>2, EndMessages, ZenonT(60)
<1> HIDE DEF f, m
<1>4. /\ rx_queue' \in Seq(CommandSet) /\ OneCreate'
      /\ \A g : Asked(g)' <=> Asked(g)
      /\ \A g, b : ToClose(g, b) /\ b # s.id => ToClose(g, b)'
  <2>1. CASE Takes /\ Head(rx_queue).type = "close" /\ Head(rx_queue).back = s.id
    BY <2>1, RxTaken, Zenon DEF Life
  <2>2. CASE UNCHANGED rx_queue
    BY <2>2, PartsKept, Zenon DEF Life, Types
  <2> QED
    BY <2>1, <2>2, Zenon DEF Ends
<1>5. ~ToldEnd(f) /\ view[f] # "closed" /\ ~Asked(f)
  BY <1>2, Zenon DEF Life, Phases
<1>6. /\ tx_queue' \in Seq(ResponseSet) /\ TxOrder'
      /\ lost \subseteq lost' /\ lost' \subseteq FrontId
      /\ ToldEnd(f)' \/ f \in lost'
      /\ \A g : (Told(g) => Told(g)') /\ (Told(g)' => Told(g) \/ ToldEnd(g)')
      /\ \A g : ToldEnd(g) => ToldEnd(g)'
      /\ \A g : g # f => (Told(g)' <=> Told(g)) /\ (ToldEnd(g)' <=> ToldEnd(g))
      /\ \A g, b : ToldOpen(g, b)' <=> ToldOpen(g, b)
  BY <1>1, <1>3, <1>5, EndSaid, ZenonT(60) DEF Life
<1>7. \A g : (HasSess(g)' <=> HasSess(g) /\ g # f) /\ ~Undoing(g)'
  BY <1>1, <1>2, Zenon DEF HasSess, Undoing, f
<1>8. OneSessionPerFrontend'
  BY <1>1, Zenon DEF Life, OneSessionPerFrontend
<1>9. Types'
  BY <1>1, <1>4, <1>6, Zenon DEF Life, Types
<1>10. Phases'
  <2> SUFFICES ASSUME NEW g \in FrontId
               PROVE  /\ ~(Asked(g)' /\ HasSess(g)') /\ ~(Asked(g)' /\ Undoing(g)')
                      /\ ~(HasSess(g)' /\ Undoing(g)')
                      /\ Asked(g)' \/ Undoing(g)' => view'[g] = "opening" /\ ~Told(g)'
                      /\ HasSess(g)' => view'[g] # "closed" /\ ~ToldEnd(g)'
                      /\ Told(g)' => view'[g] # "closed"
    BY Zenon DEF Phases
  <2>1. CASE g = f
    BY <1>1, <1>4, <1>5, <1>7, <2>1, Zenon
  <2>2. CASE g # f
    BY <1>1, <1>4, <1>6, <1>7, <2>2, Zenon DEF Life, Phases
  <2> QED
    BY <2>1, <2>2, Zenon
<1>11. Known'
  BY <1>1, <1>6, ZenonT(60) DEF Life, Known
<1>12. Waits'
  <2> SUFFICES ASSUME NEW g \in FrontId
               PROVE  /\ view[g] \in {"open", "closing"} \/ Told(g)' =>
                           HasSess(g)' \/ ToldEnd(g)' \/ g \in lost'
                      /\ engine = "run" /\ view[g] = "closing" /\ HasSess(g)' =>
                           ToClose(g, bid[g]) /\ bid[g] # s.id
    <3> HIDE DEF Life
    <3>1. \A g \in FrontId : ToClose(g, bid[g]) /\ bid[g] # s.id =>
             \E i \in DOMAIN rx_queue' : /\ rx_queue'[i].type = "close"
                                         /\ rx_queue'[i].front = g /\ rx_queue'[i].back = bid[g]
      <4> SUFFICES ASSUME NEW g \in FrontId, NEW b, ToClose(g, b), b # s.id
                   PROVE  \E i \in DOMAIN rx_queue' : /\ rx_queue'[i].type = "close"
                                                      /\ rx_queue'[i].front = g
                                                      /\ rx_queue'[i].back = b
        BY ZenonT(60)
      <4>1. ToClose(g, b)'
        BY <1>4, Zenon
      <4> QED
        BY <4>1, Zenon DEF ToClose
    <3> QED
      BY <1>1, <3>1, ZenonT(60) DEF Waits, ToClose
  <2>1. CASE g = f
    BY <1>6, <1>7, <2>1, Zenon
  <2>2. CASE g # f
    <3>1. view[g] \in {"open", "closing"} \/ Told(g)' =>
            HasSess(g)' \/ ToldEnd(g)' \/ g \in lost'
      BY <1>6, <1>7, <2>2, Zenon DEF Life, Waits
    <3>2. ASSUME engine = "run", view[g] = "closing", HasSess(g)'
          PROVE  ToClose(g, bid[g]) /\ bid[g] # s.id
      <4>1. PICK t \in sess : t.front = g
        BY <1>7, <3>2, Zenon DEF HasSess
      <4>2. t # s /\ t.id # s.id /\ bid[g] = t.id
        BY <2>2, <3>2, <4>1, Zenon DEF Life, Known, f
      <4> QED
        BY <1>7, <3>2, <4>2, Zenon DEF Life, Waits
    <3> QED
      BY <3>1, <3>2, Zenon
  <2> QED
    BY <2>1, <2>2, ZenonT(60)
<1> QED
  BY <1>4, <1>6, <1>8, <1>9, <1>10, <1>11, <1>12, Zenon DEF Life

(* A message that changes nothing is taken, or the process ends.           *)
LEMMA LifePassed ==
  ASSUME Life, Passes \/ Halts \/ Rests
  PROVE  Life'
<1>1. /\ SessKept /\ TxKept /\ view' = view /\ bid' = bid
      /\ lost \subseteq lost' /\ lost' \subseteq FrontId
      /\ Takes \/ UNCHANGED rx_queue
  BY Zenon DEF Passes, Halts, Rests, SessKept, TxKept, frontVars, Life, Types
<1>2. /\ rx_queue' \in Seq(CommandSet) /\ OneCreate'
      /\ \A g : Asked(g)' => Asked(g)
  BY <1>1, RxTaken, PartsKept DEF Life, Types
<1>3. /\ OneSessionPerFrontend' /\ TxOrder'
      /\ \A g : (Told(g)' <=> Told(g)) /\ (ToldEnd(g)' <=> ToldEnd(g))
      /\ \A g, b : ToldOpen(g, b)' <=> ToldOpen(g, b)
      /\ \A g : (HasSess(g)' <=> HasSess(g)) /\ (Undoing(g)' <=> Undoing(g))
  BY <1>1, PartsKept, Zenon DEF Life
<1>4. ASSUME NEW g \in FrontId, engine' = "run", view[g] = "closing", HasSess(g)
      PROVE  \E i \in DOMAIN rx_queue' : /\ rx_queue'[i].type = "close"
                                         /\ rx_queue'[i].front = g /\ rx_queue'[i].back = bid[g]
  <2>1. PICK b : b = bid[g]
    BY Zenon
  <2>2. engine = "run" /\ ToClose(g, b)
    BY <1>4, <2>1, Zenon DEF Passes, Halts, Rests, Life, Waits
  <2>3. ToClose(g, b)'
    <3>1. CASE Passes
      <4>1. PICK s \in sess : s.front = g
        BY <1>4, Zenon DEF HasSess
      <4>2. s.id = b
        BY <1>4, <2>1, <4>1, Zenon DEF Life, Known
      <4>3. ~(Head(rx_queue).type = "close" /\ Head(rx_queue).back = b)
        BY <3>1, <4>2, Zenon DEF Passes
      <4> QED
        BY <2>2, <3>1, <4>3, RxTaken, Zenon DEF Passes, Life
    <3>2. CASE Rests
      BY <2>2, <3>2, PartsKept, Zenon DEF Rests
    <3> QED
      BY <1>4, <3>1, <3>2, Zenon DEF Halts
  <2> QED
    BY <2>1, <2>3, Zenon DEF ToClose
<1>5. Types'
  BY <1>1, <1>2, Zenon DEF Life, Types, SessKept, TxKept
<1>6. Phases'
  BY <1>1, <1>2, <1>3, Zenon DEF Life, Phases
<1>7. Known'
  BY <1>1, <1>3, Zenon DEF Life, Known, SessKept
<1>8. Waits'
  <2>1. \A g \in FrontId : view'[g] \in {"open", "closing"} \/ Told(g)' =>
                             HasSess(g)' \/ ToldEnd(g)' \/ g \in lost'
    BY <1>1, <1>3, Zenon DEF Life, Waits
  <2>2. \A g \in FrontId :
          engine' = "run" /\ view'[g] = "closing" /\ HasSess(g)' =>
            \E i \in DOMAIN rx_queue' : /\ rx_queue'[i].type = "close"
                                        /\ rx_queue'[i].front = g /\ rx_queue'[i].back = bid'[g]
    BY <1>1, <1>3, <1>4, Zenon
  <2> QED
    BY <2>1, <2>2, Zenon DEF Waits, ToClose
<1> QED
  BY <1>2, <1>3, <1>5, <1>6, <1>7, <1>8, Zenon DEF Life
-----------------------------------------------------------------------------
(* Every step of the protocol keeps the invariant.                         *)
LEMMA LifeInvPreserved ==
  ASSUME LifeInv, [ProtoNext]_protoVars
  PROVE  LifeInv'
<1>1. IdInv /\ SessionsReachable /\ Life /\ Types
  BY Zenon DEF LifeInv, Life
<1>2. IdInv' /\ SessionsReachable'
  BY <1>1, PoolStep, ReachInvPreserved, Zenon DEF ReachInv
<1>3. id_queue \in Seq(Id) /\ \A s, t \in sess : s.id = t.id => s = t
  BY <1>1, Zenon DEF IdInv, IdsConserved
<1>4. ASSUME FrontendActs
      PROVE  Life'
  BY <1>1, <1>4, LifeAsked, LifeUsed, LifeRead, Zenon DEF FrontendActs
<1>5. ASSUME Refuses
      PROVE  Life'
  BY <1>1, <1>5, HeadCommand, LifeRefused, Zenon DEF Refuses, Takes, frontVars
<1>6. ASSUME NEW r \in reclaiming, Undoes(r)
      PROVE  Life'
  <2>1. r.front \in FrontId /\ Undoing(r.front)
    BY <1>1, Zenon DEF Types, Undoing
  <2> QED
    BY <1>1, <1>6, <2>1, LifeRefused, Zenon DEF Undoes, frontVars
<1>7. ASSUME NEW s, Grants(s) \/ Stalls(s)
      PROVE  Life'
  <2>1. id_queue # <<>> /\ s.id = Head(id_queue)
    BY <1>7, Zenon DEF Grants, Stalls, Taken
  <2>2. s.id \in Id
    BY <1>3, <2>1, TailFacts
  <2> QED
    BY <1>1, <1>7, <2>2, LifeGranted, LifeStalled, Zenon
<1>8. ASSUME NEW s \in sess, Ends(s)
      PROVE  Life'
  BY <1>1, <1>3, <1>8, LifeEnded, Zenon
<1>9. ASSUME Passes \/ Halts \/ Rests
      PROVE  Life'
  BY <1>1, <1>9, LifePassed, Zenon
<1>10. Life'
  BY <1>4, <1>5, <1>6, <1>7, <1>8, <1>9, BackendKinds, Zenon DEF BackendActs
<1> QED
  BY <1>2, <1>10, Zenon DEF LifeInv, Life

(* It holds at the start, with no message and no session.                  *)
LEMMA LifeInvInitial == ProtoInit => LifeInv
<1> SUFFICES ASSUME ProtoInit
             PROVE  LifeInv
  BY Zenon
<1>1. IdInv /\ SessionsReachable /\ OneSessionPerFrontend
  BY IdInvInitial, Zenon DEF ProtoInit, Init, SessionsReachable, OneSessionPerFrontend, Live
<1>2. /\ rx_queue = <<>> /\ tx_queue = <<>> /\ sess = {} /\ reclaiming = {} /\ lost = {}
      /\ view = [f \in FrontId |-> "closed"] /\ bid = [f \in FrontId |-> HANDOVER]
  BY Zenon DEF ProtoInit, Init
<1>3. \A f, b : /\ ~Asked(f) /\ ~ToClose(f, b) /\ ~HasSess(f) /\ ~Undoing(f)
                /\ ~Told(f) /\ ~ToldOpen(f, b) /\ ~ToldEnd(f)
  BY <1>2 DEF Asked, ToClose, HasSess, Undoing, Told, ToldOpen, ToldEnd
<1>4. OneCreate /\ TxOrder
  BY <1>2, SMTT(30) DEF OneCreate, TxOrder
<1>5. Types
  BY <1>2, SMTT(30) DEF Types
<1>6. Phases /\ Known /\ Waits
  BY <1>2, <1>3, Zenon DEF Phases, Known, Waits
<1> QED
  BY <1>1, <1>4, <1>5, <1>6, Zenon DEF LifeInv

(* The protocol keeps LifeInv, whatever the sizes.                         *)
LEMMA LifeInvHolds == ProtoSpec => []LifeInv
<1>1. LifeInv /\ [ProtoNext]_protoVars => LifeInv'
  BY LifeInvPreserved, Zenon
<1> QED
  BY <1>1, LifeInvInitial, PTL DEF ProtoSpec

(* The protocol implements the session pool's specification: whatever the  *)
(* frontend sends, however commands, socket failures and full queues fall, *)
(* the backend's handlers go through steps the pool's operations allow, so *)
(* what is proved of the pool (BackendIdsConserved, LiveSessionsReachable) *)
(* holds in the protocol.                                                  *)
THEOREM ProtocolImplementsPool == ProtoSpec => Spec
<1>1. LifeInv /\ [ProtoNext]_protoVars => [Next]_vars
  BY PoolStep, Zenon DEF LifeInv
<1>2. ProtoInit => Init
  BY Zenon DEF ProtoInit
<1> QED
  BY <1>1, <1>2, LifeInvHolds, PTL DEF ProtoSpec, Spec

(* However many responses a full TX queue loses, and whenever a create is  *)
(* undone in between, the pool never holds two sessions of a frontend id.  *)
THEOREM OneSessionAtMost == ProtoSpec => []OneSessionPerFrontend
<1>1. LifeInv => OneSessionPerFrontend
  BY Zenon DEF LifeInv
<1> QED
  BY <1>1, LifeInvHolds, PTL

(* When no message is under way the frontend's open sessions and those of  *)
(* the pool name each other, but for frontend ids that lost a message to a *)
(* full TX queue.                                                          *)
THEOREM EndsAgree == ProtoSpec => []OneToOne
<1>1. ASSUME LifeInv
      PROVE  OneToOne
  <2> SUFFICES ASSUME Quiet, engine = "run", NEW f, f \notin lost
               PROVE  /\ ~\E p \in Opened \ Pooled : p.front = f
                      /\ ~\E p \in Pooled \ Opened : p.front = f
    BY Zenon DEF OneToOne, Unmatched
  <2>1. /\ Types /\ Phases /\ Known /\ Waits
    BY <1>1, Zenon DEF LifeInv
  <2>2. \A g, b : ~ToClose(g, b) /\ ~Told(g) /\ ~ToldOpen(g, b) /\ ~ToldEnd(g)
    BY SMTT(30) DEF Quiet, ToClose, Told, ToldOpen, ToldEnd
  <2>3. ASSUME NEW p \in Opened, p.front = f
        PROVE  p \in Pooled
    <3>1. p = [front |-> f, id |-> bid[f]] /\ f \in FrontId /\ view[f] = "open"
      BY <2>3, SMTT(30) DEF Opened
    <3>2. HasSess(f)
      BY <2>1, <2>2, <3>1, Zenon DEF Waits
    <3>3. PICK s \in sess : s.front = f
      BY <3>2, Zenon DEF HasSess
    <3>4. bid[f] = s.id
      BY <2>1, <3>1, <3>3, Zenon DEF Known
    <3> QED
      BY <3>1, <3>3, <3>4, Zenon DEF Pooled
  <2>4. ASSUME NEW p \in Pooled, p.front = f
        PROVE  p \in Opened
    <3>1. PICK s \in sess : p = [front |-> s.front, id |-> s.id]
      BY Zenon DEF Pooled
    <3>2. s.front = f /\ f \in FrontId /\ HasSess(f)
      BY <2>1, <2>4, <3>1, Zenon DEF Types, HasSess
    <3>3. view[f] \in {"opening", "open", "closing"}
      BY <2>1, <3>2, Zenon DEF Types, Phases
    <3>4. view[f] # "opening" /\ bid[f] = s.id
      BY <2>1, <2>2, <3>2, Zenon DEF Known
    <3>5. view[f] # "closing"
      BY <2>1, <2>2, <3>2, Zenon DEF Waits
    <3> QED
      BY <3>1, <3>2, <3>3, <3>4, <3>5, Zenon DEF Opened
  <2> QED
    BY <2>3, <2>4, Zenon
<1>2. LifeInv => OneToOne
  BY <1>1, Zenon
<1> QED
  BY <1>2, LifeInvHolds, PTL

-----------------------------------------------------------------------------
(***************************************************************************)
(* The results that count.  Session nodes do not multiply.  With at least  *)
(* as many backend ids as frontend ids, no message of a frontend id that   *)
(* lost no notice meets the session of another frontend id: the FIFO of    *)
(* free ids keeps a released id unused for long enough.                    *)
(***************************************************************************)
INSTANCE FiniteSetTheorems


\* The counts exist, and add up to at most the nodes of the devices.
NodeInv ==
  /\ free_nodes \in [Pos -> Nat]
  /\ IsFiniteSet(FreeNodes) /\ IsFiniteSet(sess)
  /\ NodesBounded

(* A node more or less in the free queue of a device.                      *)
LEMMA FreeNodesMove ==
  ASSUME free_nodes \in [Pos -> Nat], NEW d \in Pos, IsFiniteSet(FreeNodes)
  PROVE  /\ free_nodes' = [free_nodes EXCEPT ![d] = @ + 1] =>
              /\ free_nodes' \in [Pos -> Nat] /\ IsFiniteSet(FreeNodes')
              /\ Cardinality(FreeNodes') = Cardinality(FreeNodes) + 1
         /\ free_nodes[d] > 0 /\ free_nodes' = [free_nodes EXCEPT ![d] = @ - 1] =>
              /\ free_nodes' \in [Pos -> Nat] /\ IsFiniteSet(FreeNodes')
              /\ Cardinality(FreeNodes') = Cardinality(FreeNodes) - 1
<1>1. ASSUME free_nodes' = [free_nodes EXCEPT ![d] = @ + 1]
      PROVE  /\ free_nodes' \in [Pos -> Nat] /\ IsFiniteSet(FreeNodes')
             /\ Cardinality(FreeNodes') = Cardinality(FreeNodes) + 1
  <2>1. PICK n : n = <<d, free_nodes[d] + 1>>
    BY Zenon
  <2>2. FreeNodes' = FreeNodes \cup {n} /\ n \notin FreeNodes
    BY <1>1, <2>1 DEF FreeNodes
  <2>3. free_nodes' \in [Pos -> Nat]
    BY <1>1
  <2> QED
    BY <2>2, <2>3, FS_AddElement
<1>2. ASSUME free_nodes[d] > 0, free_nodes' = [free_nodes EXCEPT ![d] = @ - 1]
      PROVE  /\ free_nodes' \in [Pos -> Nat] /\ IsFiniteSet(FreeNodes')
             /\ Cardinality(FreeNodes') = Cardinality(FreeNodes) - 1
  <2>1. PICK n : n = <<d, free_nodes[d]>>
    BY Zenon
  <2>2. FreeNodes' = FreeNodes \ {n} /\ n \in FreeNodes
    BY <1>2, <2>1 DEF FreeNodes
  <2>3. free_nodes' \in [Pos -> Nat]
    BY <1>2
  <2> QED
    BY <2>2, <2>3, FS_RemoveElement
<1> QED
  BY <1>1, <1>2, Zenon

(* Every step of the pool moves at most one node.                          *)
LEMMA NodeInvPreserved ==
  ASSUME NodeInv, [Next]_vars
  PROVE  NodeInv'
<1>0. PICK total : total = NodeNum * DevNum
  BY Zenon
<1>1. /\ free_nodes \in [Pos -> Nat] /\ IsFiniteSet(FreeNodes) /\ IsFiniteSet(sess)
      /\ Cardinality(FreeNodes) \in Nat /\ Cardinality(sess) \in Nat
      /\ Cardinality(FreeNodes) + Cardinality(sess) <= total
  BY <1>0, FS_CardinalityType, Zenon DEF NodeInv, NodesBounded
<1>2. ASSUME /\ free_nodes' \in [Pos -> Nat] /\ IsFiniteSet(FreeNodes') /\ IsFiniteSet(sess')
             /\ Cardinality(FreeNodes') + Cardinality(sess') <= total
      PROVE  NodeInv'
  BY <1>0, <1>2, Zenon DEF NodeInv, NodesBounded
<1>3. total \in Nat
  BY <1>0, DevNumAssumption, PoolAssumption
<1>4. ASSUME NEW f, NEW want, NEW d, NEW g, CreateOk(f, want, d, g)
      PROVE  NodeInv'
  <2>1. PICK s : sess' = sess \cup {s}
    BY <1>4, Zenon DEF CreateOk
  <2>2. d \in Pos /\ free_nodes[d] > 0 /\ free_nodes' = [free_nodes EXCEPT ![d] = @ - 1]
    BY <1>4, PoolAssumption, Zenon DEF CreateOk, NodeAvailable
  <2>3. IsFiniteSet(sess') /\ Cardinality(sess') \in Nat /\ Cardinality(sess') <= Cardinality(sess) + 1
    <3>1. IsFiniteSet(sess') /\ Cardinality(sess') \in {Cardinality(sess), Cardinality(sess) + 1}
      BY <1>1, <2>1, FS_AddElement, Zenon
    <3> QED
      BY <1>1, <3>1
  <2>4. /\ free_nodes' \in [Pos -> Nat] /\ IsFiniteSet(FreeNodes')
        /\ Cardinality(FreeNodes') = Cardinality(FreeNodes) - 1
    BY <1>1, <2>2, FreeNodesMove, Zenon
  <2>5. Cardinality(FreeNodes') + Cardinality(sess') <= total
    BY <1>1, <1>3, <2>3, <2>4
  <2> QED
    BY <1>2, <2>3, <2>4, <2>5, Zenon
<1>5. ASSUME NEW s \in sess, DeleteSess(s)
      PROVE  NodeInv'
  <2>1. IsFiniteSet(sess') /\ Cardinality(sess') = Cardinality(sess) - 1
    BY <1>1, <1>5, FS_RemoveElement DEF DeleteSess
  <2>2. CASE UNCHANGED free_nodes
    <3>1. FreeNodes' = FreeNodes
      BY <2>2 DEF FreeNodes
    <3>2. Cardinality(FreeNodes') + Cardinality(sess') <= total
      BY <1>1, <1>3, <2>1, <3>1
    <3> QED
      BY <1>1, <1>2, <2>1, <2>2, <3>1, <3>2, Zenon
  <2>3. CASE s.dev_id \in Pos /\ free_nodes' = [free_nodes EXCEPT ![s.dev_id] = @ + 1]
    <3>1. /\ free_nodes' \in [Pos -> Nat] /\ IsFiniteSet(FreeNodes')
          /\ Cardinality(FreeNodes') = Cardinality(FreeNodes) + 1
      BY <1>1, <2>3, FreeNodesMove, Zenon
    <3>2. Cardinality(FreeNodes') + Cardinality(sess') <= total
      BY <1>1, <1>3, <2>1, <3>1
    <3> QED
      BY <1>2, <2>1, <3>1, <3>2, Zenon
  <2> QED
    BY <1>5, <2>2, <2>3, Zenon DEF DeleteSess, RecycleNode
<1>6. ASSUME UNCHANGED <<sess, free_nodes>>
      PROVE  NodeInv'
  BY <1>6, Zenon DEF NodeInv, NodesBounded, FreeNodes
<1>7. ASSUME NEW f, NEW want, CreateNoId(f) \/ CreateNoDevice(f, want)
      PROVE  UNCHANGED <<sess, free_nodes>>
  BY <1>7 DEF CreateNoId, CreateNoDevice, poolVars
<1>8. ASSUME NEW f, NEW want, NEW d,
             \/ CreateAsserts(f, want, d) \/ CreateRefused(f, want, d)
             \/ CreateCorrupts(f, want, d) \/ CreateUnsent(f, want, d)
      PROVE  UNCHANGED <<sess, free_nodes>>
  BY <1>8 DEF CreateAsserts, CreateRefused, CreateCorrupts, CreateUnsent
<1>9. ASSUME NEW r, NEW s, Reclaim(r) \/ DeleteFaults(s)
      PROVE  UNCHANGED <<sess, free_nodes>>
  BY <1>9 DEF Reclaim, DeleteFaults
<1>10. ASSUME NEW f, NEW b, CloseNotFound(f, b) \/ SearchCorrupts \/ FrontendTakes
       PROVE  UNCHANGED <<sess, free_nodes>>
  BY <1>10 DEF CloseNotFound, SearchCorrupts, FrontendTakes, vars, poolVars
<1>11. CASE UNCHANGED vars
  BY <1>6, <1>11 DEF vars, poolVars
<1>12. CASE Next
  BY <1>4, <1>5, <1>6, <1>7, <1>8, <1>9, <1>10, <1>12, Zenon
     DEF Next, CreateActive, CreateDev, Close, CloseFound, SocketError, Delete
<1> QED
  BY <1>11, <1>12, Zenon

(* engine_init_hs_net_dev gives every device NodeNum nodes, all free.      *)
LEMMA NodeInvInitial == Init => NodeInv
<1> SUFFICES ASSUME Init
             PROVE  NodeInv
  OBVIOUS
<1>1. NodeNum \in Nat /\ DevNum \in Nat
  BY DevNumAssumption, PoolAssumption
<1>2. free_nodes = [d \in Pos |-> NodeNum] /\ sess = {}
  BY DEF Init
<1>3. FreeNodes = Pos \X (1 .. NodeNum)
  BY <1>2 DEF FreeNodes
<1>4. IsFiniteSet(Pos) /\ Cardinality(Pos) = DevNum
  BY <1>1, FS_Interval DEF Pos
<1>5. IsFiniteSet(1 .. NodeNum) /\ Cardinality(1 .. NodeNum) = NodeNum
  BY <1>1, FS_Interval
<1>6. IsFiniteSet(FreeNodes) /\ Cardinality(FreeNodes) = DevNum * NodeNum
  BY <1>3, <1>4, <1>5, FS_Product, Zenon
<1>7. IsFiniteSet(sess) /\ Cardinality(sess) = 0
  BY <1>2, FS_EmptySet
<1>8. DevNum * NodeNum = NodeNum * DevNum /\ DevNum * NodeNum \in Nat
  BY <1>1
<1>9. NodesBounded
  BY <1>6, <1>7, <1>8 DEF NodesBounded
<1> QED
  BY <1>1, <1>2, <1>6, <1>7, <1>9 DEF NodeInv

(* However deletions move the nodes between the devices, free nodes and    *)
(* sessions together are never more than the nodes that were allocated.    *)
THEOREM NodesNeverMultiply == Spec => []NodesBounded
<1>1. Init => NodeInv
  BY NodeInvInitial
<1>2. NodeInv /\ [Next]_vars => NodeInv'
  BY NodeInvPreserved
<1>3. NodeInv => NodesBounded
  BY DEF NodeInv
<1> QED
  BY <1>1, <1>2, <1>3, PTL DEF Spec
-----------------------------------------------------------------------------
\* Frontend ids whose create comes before message i of the RX queue, and
\* those who may have one processed before the frontend reads message k of
\* the TX queue.
Ahead(i) ==
  {g \in FrontId : \E j \in DOMAIN rx_queue :
     j < i /\ rx_queue[j].type = "create" /\ rx_queue[j].front = g}
Rivals(k) ==
  {g \in FrontId :
     \/ Asked(g) \/ view[g] = "closed"
     \/ \E l \in DOMAIN tx_queue : l < k /\ ~Opening(tx_queue[l]) /\ tx_queue[l].front = g}

\* In the id queue q, b is behind an id for each member of S.
Behind(q, b, S) == \E p \in DOMAIN q : q[p] = b /\ p > Cardinality(S)

\* The backend id of a session that has ended is not handed out before the
\* frontend has read that it ended, in message k of the TX queue,
RestOf(k) ==
  LET f == tx_queue[k].front
  IN  ~Opening(tx_queue[k]) /\ f \notin lost =>
        /\ view[f] \in {"open", "closing"} => Behind(id_queue, bid[f], Rivals(k))
        /\ \A l \in DOMAIN tx_queue :
             l < k /\ tx_queue[l].front = f => Behind(id_queue, tx_queue[l].back, Rivals(k))

\* nor before message i of the RX queue, which names it, has been processed.
MeantFor(i) ==
  LET c == rx_queue[i]
      f == c.front
  IN  c.type # "create" /\ f \notin lost =>
        \/ view[f] \in {"open", "closing"} /\ bid[f] = c.back /\ (HasSess(f) \/ ToldEnd(f))
        \/ Behind(id_queue, c.back, Ahead(i))

Resting == \A k \in DOMAIN tx_queue : RestOf(k)
Addressed == \A i \in DOMAIN rx_queue : MeantFor(i)

RestInv == LifeInv /\ Resting /\ Addressed
-----------------------------------------------------------------------------
(* An id keeps its distance from the head of the id queue when ids are     *)
(* appended,                                                               *)
LEMMA BehindStays ==
  ASSUME NEW q \in Seq(Id), NEW b, NEW S, IsFiniteSet(S), Behind(q, b, S),
         NEW T, T \subseteq S, NEW r, r = q \/ \E x \in Id : r = Append(q, x)
  PROVE  Behind(r, b, T)
<1>1. PICK p \in DOMAIN q : q[p] = b /\ p > Cardinality(S)
  BY DEF Behind
<1>2. p \in DOMAIN r /\ r[p] = b
  <2>1. CASE r = q
    BY <1>1, <2>1
  <2>2. ASSUME NEW x \in Id, r = Append(q, x)
        PROVE  p \in DOMAIN r /\ r[p] = b
    BY <1>1, <2>2, AppendFacts
  <2> QED
    BY <2>1, <2>2
<1>3. Cardinality(T) <= Cardinality(S) /\ Cardinality(T) \in Nat /\ Cardinality(S) \in Nat
  BY FS_Subset, FS_CardinalityType
<1>4. p \in Nat
  BY <1>1
<1> QED
  BY <1>1, <1>2, <1>3, <1>4 DEF Behind

(* and loses one place when the head is taken, recycled or not: it is not  *)
(* the head itself.                                                        *)
LEMMA BehindAdvances ==
  ASSUME NEW q \in Seq(Id), NEW b, NEW S, IsFiniteSet(S), Behind(q, b, S),
         NEW g \in S, NEW T, T \subseteq S \ {g},
         NEW r, q # <<>> => r = Tail(q) \/ r = Append(Tail(q), Head(q))
  PROVE  Behind(r, b, T)
<1>1. PICK p \in DOMAIN q : q[p] = b /\ p > Cardinality(S)
  BY DEF Behind
<1>2. /\ Cardinality(S \ {g}) = Cardinality(S) - 1 /\ IsFiniteSet(S \ {g})
      /\ Cardinality(S) \in Nat /\ Cardinality(S \ {g}) \in Nat
  BY FS_RemoveElement, FS_CardinalityType
<1>3. Cardinality(T) <= Cardinality(S) - 1 /\ Cardinality(T) \in Nat
  <2>1. Cardinality(T) <= Cardinality(S \ {g}) /\ IsFiniteSet(T)
    BY <1>2, FS_Subset
  <2> QED
    BY <1>2, <2>1, FS_CardinalityType
<1>4. p \in Nat /\ p # 1 /\ q # <<>>
  BY <1>1, <1>2
<1>5. /\ p - 1 \in DOMAIN Tail(q) /\ Tail(q)[p - 1] = b /\ Tail(q) \in Seq(Id)
      /\ Head(q) \in Id
  BY <1>1, <1>4, TailFacts
<1>6. p - 1 \in DOMAIN r /\ r[p - 1] = b
  <2>1. CASE r = Tail(q)
    BY <1>5, <2>1
  <2>2. CASE r = Append(Tail(q), Head(q))
    BY <1>5, <2>2, AppendFacts
  <2> QED
    BY <1>4, <2>1, <2>2
<1> QED
  BY <1>1, <1>2, <1>3, <1>4, <1>6 DEF Behind

(* The counting argument: with as many backend ids as frontend ids, there  *)
(* is a free id for each frontend id that has no session.                  *)
LEMMA FreeIds ==
  ASSUME IdInv, OneSessionPerFrontend, Types, reclaiming = {},
         IsFiniteSet(FrontId), Cardinality(FrontId) <= IdNum
  PROVE  Cardinality({g \in FrontId : ~HasSess(g)}) <= Len(id_queue)
<1> DEFINE Without == {g \in FrontId : ~HasSess(g)}
           With == {g \in FrontId : HasSess(g)}
           h == [b \in Live |-> CHOOSE g \in With : \E s \in sess : s.id = b /\ s.front = g]
<1>1. /\ IsFiniteSet(With) /\ IsFiniteSet(Without)
      /\ Cardinality(With) \in Nat /\ Cardinality(Without) \in Nat
      /\ Cardinality(FrontId) \in Nat
  BY FS_Subset, FS_CardinalityType
<1>2. Cardinality(Without) = Cardinality(FrontId) - Cardinality(With)
  <2>1. Without = FrontId \ With /\ FrontId \cap With = With
    BY DEF HasSess
  <2> QED
    BY <2>1, FS_Difference
<1>3. Live \subseteq Id /\ Id = Range(id_queue) \cup Live
  BY DEF IdInv, IdsConserved, Held
<1>4. /\ IsFiniteSet(Id) /\ Cardinality(Id) = IdNum /\ IdNum \in Nat
  <2>1. IdNum \in Nat
    BY PoolAssumption
  <2> QED
    BY <2>1, FS_Interval DEF Id
<1>5. h \in Injection(Live, With)
  <2>1. ASSUME NEW b \in Live
        PROVE  h[b] \in With /\ \E s \in sess : s.id = b /\ s.front = h[b]
    <3>1. PICK s \in sess : s.id = b
      BY DEF Live
    <3>2. s.front \in With
      BY <3>1 DEF Types, HasSess
    <3>3. \E g \in With : \E t \in sess : t.id = b /\ t.front = g
      BY <3>1, <3>2
    <3> QED
      BY <3>3
  <2>2. ASSUME NEW b \in Live, NEW c \in Live, h[b] = h[c]
        PROVE  b = c
    <3> HIDE DEF h
    <3>1. PICK s \in sess : s.id = b /\ s.front = h[b]
      BY <2>1
    <3>2. PICK t \in sess : t.id = c /\ t.front = h[c]
      BY <2>1
    <3> QED
      BY <2>2, <3>1, <3>2 DEF OneSessionPerFrontend
  <2>3. h \in [Live -> With]
    BY <2>1
  <2> HIDE DEF h
  <2> QED
    BY <2>2, <2>3 DEF Injection, IsInjective
<1>6. IsFiniteSet(Live) /\ Cardinality(Live) \in Nat /\ Cardinality(Live) <= Cardinality(With)
  <2> HIDE DEF h, With
  <2> QED
    BY <1>1, <1>5, FS_Injection, FS_CardinalityType
<1>7. /\ IsFiniteSet(Range(id_queue)) /\ Cardinality(Range(id_queue)) \in Nat
      /\ Cardinality(Range(id_queue)) <= Len(id_queue) /\ Len(id_queue) \in Nat
  <2>1. id_queue \in Seq(Id) /\ Len(id_queue) \in Nat /\ DOMAIN id_queue = 1 .. Len(id_queue)
    BY DEF IdInv
  <2>2. id_queue \in Surjection(1 .. Len(id_queue), Range(id_queue))
    BY <2>1 DEF Surjection, Range
  <2>3. IsFiniteSet(1 .. Len(id_queue)) /\ Cardinality(1 .. Len(id_queue)) = Len(id_queue)
    BY <2>1, FS_Interval, SMTT(30)
  <2> QED
    BY <2>1, <2>2, <2>3, FS_Surjection, FS_CardinalityType
<1>8. IdNum <= Cardinality(Range(id_queue)) + Cardinality(Live)
  <2>1. Cardinality(Id) = Cardinality(Range(id_queue)) + Cardinality(Live)
                            - Cardinality(Range(id_queue) \cap Live)
    BY <1>3, <1>6, <1>7, FS_Union
  <2>2. Cardinality(Range(id_queue) \cap Live) \in Nat
    BY <1>7, FS_Intersection, FS_CardinalityType, Zenon
  <2> QED
    BY <1>4, <1>6, <1>7, <2>1, <2>2
<1> HIDE DEF With, Without
<1>9. Cardinality(Without) <= Len(id_queue)
  BY <1>1, <1>2, <1>4, <1>6, <1>7, <1>8
<1> QED
  BY <1>9 DEF Without
-----------------------------------------------------------------------------
\* The backend takes a create command and an id for it, or it takes none and
\* may give one back.
TakesId ==
  /\ Takes /\ Head(rx_queue).type = "create"
  /\ id_queue # <<>> => id_queue' = Tail(id_queue) \/ RecycleId
TakesNoId ==
  /\ Takes \/ UNCHANGED rx_queue
  /\ id_queue' = id_queue \/ \E x \in Id : ReleaseId(x)

(* Either way the ids that may be asked for before a message of the TX     *)
(* queue is read stay enough ahead of the ids that rest.                   *)
LEMMA RivalsMove ==
  ASSUME LifeInv, IsFiniteSet(FrontId), TakesId \/ TakesNoId, view' = view,
         tx_queue' = tx_queue \/ \E m \in ResponseSet : tx_queue' = Append(tx_queue, m),
         NEW k \in DOMAIN tx_queue, NEW b, Behind(id_queue, b, Rivals(k))
  PROVE  Behind(id_queue, b, Rivals(k))'
<1>1. id_queue \in Seq(Id) /\ Types /\ OneCreate /\ Phases
  BY DEF LifeInv, IdInv
<1>2. IsFiniteSet(Rivals(k))
  BY FS_Subset DEF Rivals
<1>3. \A l \in DOMAIN tx_queue' : l < k => l \in DOMAIN tx_queue /\ tx_queue'[l] = tx_queue[l]
  <2>1. CASE tx_queue' = tx_queue
    BY <2>1
  <2>2. ASSUME NEW m \in ResponseSet, tx_queue' = Append(tx_queue, m)
        PROVE  \A l \in DOMAIN tx_queue' :
                 l < k => l \in DOMAIN tx_queue /\ tx_queue'[l] = tx_queue[l]
    BY <1>1, <2>2, AppendFacts, SMTT(30) DEF Types
  <2> QED
    BY <2>1, <2>2
<1>4. \A g : Asked(g)' => Asked(g)
  BY <1>1, RxTaken, PartsKept DEF TakesId, TakesNoId
<1>5. Rivals(k)' \subseteq Rivals(k)
  <2> SUFFICES ASSUME NEW g \in FrontId,
                      \/ Asked(g)' \/ view'[g] = "closed"
                      \/ \E l \in DOMAIN tx_queue' :
                           l < k /\ ~Opening(tx_queue'[l]) /\ tx_queue'[l].front = g
               PROVE  g \in Rivals(k)
    BY DEF Rivals, Opening
  <2> QED
    BY <1>3, <1>4 DEF Rivals
<1>6. PICK T : T = Rivals(k)'
  OBVIOUS
<1>7. CASE TakesNoId
  <2>1. id_queue' = id_queue \/ \E x \in Id : id_queue' = Append(id_queue, x)
    BY <1>7 DEF TakesNoId, ReleaseId
  <2>2. Behind(id_queue', b, T)
    BY <1>1, <1>2, <1>5, <1>6, <2>1, BehindStays, Zenon
  <2> QED
    BY <1>6, <2>2 DEF Behind
<1>8. CASE TakesId
  <2>0. PICK f : f = Head(rx_queue).front
    OBVIOUS
  <2>1. Asked(f) /\ ~Asked(f)' /\ f \in FrontId
    BY <1>1, <1>8, <2>0, RxTaken, HeadCommand, Zenon DEF TakesId, Takes
  <2>2. view'[f] = "opening" /\ ~Told(f)
    BY <1>1, <2>1 DEF Phases
  <2>3. f \in Rivals(k)
    BY <2>1 DEF Rivals
  <2>4. f \notin Rivals(k)'
    <3>1. ~\E l \in DOMAIN tx_queue' : l < k /\ tx_queue'[l].front = f
      BY <1>3, <2>2 DEF Told
    <3> QED
      BY <2>1, <2>2, <3>1 DEF Rivals
  <2>5. T \subseteq Rivals(k) \ {f}
    BY <1>5, <1>6, <2>4
  <2>6. id_queue # <<>> => \/ id_queue' = Tail(id_queue)
                           \/ id_queue' = Append(Tail(id_queue), Head(id_queue))
    BY <1>8 DEF TakesId, RecycleId
  <2>7. Behind(id_queue', b, T)
    BY <1>1, <1>2, <2>3, <2>5, <2>6, BehindAdvances, SMTT(30)
  <2> QED
    BY <1>6, <2>7 DEF Behind
<1> QED
  BY <1>7, <1>8

(* The same of the creates that come before a message of the RX queue.     *)
LEMMA AheadMoves ==
  ASSUME LifeInv, IsFiniteSet(FrontId), TakesId \/ TakesNoId,
         NEW i \in DOMAIN rx_queue', NEW j \in DOMAIN rx_queue,
         IF Takes THEN j = i + 1 ELSE j = i,
         NEW b, Behind(id_queue, b, Ahead(j))
  PROVE  Behind(id_queue, b, Ahead(i))'
<1>1. id_queue \in Seq(Id) /\ Types /\ OneCreate
  BY DEF LifeInv, IdInv
<1>2. IsFiniteSet(Ahead(j))
  BY FS_Subset DEF Ahead
<1>3. PICK T : T = Ahead(i)'
  OBVIOUS
<1>4. ASSUME Takes
      PROVE  /\ Head(rx_queue) = rx_queue[1] /\ 1 \in DOMAIN rx_queue /\ 1 < j
             /\ \A l \in DOMAIN rx_queue' :
                  /\ l + 1 \in DOMAIN rx_queue /\ rx_queue'[l] = rx_queue[l + 1]
                  /\ l < i => l + 1 < j
  <2>1. rx_queue \in Seq(CommandSet) /\ rx_queue # <<>> /\ rx_queue' = Tail(rx_queue)
    BY <1>1, <1>4 DEF Types, Takes
  <2>2. /\ Head(rx_queue) = rx_queue[1] /\ 1 \in DOMAIN rx_queue
        /\ DOMAIN rx_queue' \subseteq Nat \ {0} /\ j = i + 1
        /\ \A l \in DOMAIN rx_queue' :
             l + 1 \in DOMAIN rx_queue /\ rx_queue'[l] = rx_queue[l + 1]
    BY <1>4, <2>1, TailFacts
  <2> QED
    BY <2>2
<1>5. ASSUME NEW g, g \in Ahead(i)'
      PROVE  g \in Ahead(j) /\ Asked(g)'
  <2>1. PICK l \in DOMAIN rx_queue' :
          l < i /\ rx_queue'[l].type = "create" /\ rx_queue'[l].front = g
    BY <1>5 DEF Ahead
  <2>2. g \in FrontId /\ Asked(g)'
    BY <1>5, <2>1 DEF Ahead, Asked
  <2>3. CASE Takes
    BY <1>4, <2>1, <2>2, <2>3 DEF Ahead
  <2>4. CASE ~Takes
    BY <2>1, <2>2, <2>4 DEF Ahead, TakesId, TakesNoId
  <2> QED
    BY <2>2, <2>3, <2>4
<1>6. CASE TakesNoId
  <2>1. id_queue' = id_queue \/ \E x \in Id : id_queue' = Append(id_queue, x)
    BY <1>6 DEF TakesNoId, ReleaseId
  <2>2. Behind(id_queue', b, T)
    BY <1>1, <1>2, <1>3, <1>5, <2>1, BehindStays, Zenon
  <2> QED
    BY <1>3, <2>2 DEF Behind
<1>7. CASE TakesId
  <2>0. PICK f : f = Head(rx_queue).front
    OBVIOUS
  <2>1. ~Asked(f)' /\ f \in FrontId
    BY <1>1, <1>7, <2>0, RxTaken, HeadCommand, SMTT(30) DEF TakesId, Takes
  <2>2. f \in Ahead(j)
    BY <1>4, <1>7, <2>0, <2>1 DEF Ahead, TakesId
  <2>3. T \subseteq Ahead(j) \ {f}
    BY <1>3, <1>5, <2>1
  <2>4. id_queue # <<>> => \/ id_queue' = Tail(id_queue)
                           \/ id_queue' = Append(Tail(id_queue), Head(id_queue))
    BY <1>7 DEF TakesId, RecycleId
  <2>5. Behind(id_queue', b, T)
    BY <1>1, <1>2, <2>2, <2>3, <2>4, BehindAdvances, SMTT(30)
  <2> QED
    BY <1>3, <2>5 DEF Behind
<1> QED
  BY <1>6, <1>7

(* A step of the backend keeps every released id at rest, provided it does *)
(* for the message it says.                                                *)
LEMMA RestKept ==
  ASSUME RestInv, IsFiniteSet(FrontId), TakesId \/ TakesNoId,
         view' = view, bid' = bid, lost \subseteq lost',
         \A f \in FrontId : f \notin lost' /\ (HasSess(f) \/ ToldEnd(f)) =>
                             HasSess(f)' \/ ToldEnd(f)',
         NEW n, n = Len(tx_queue) + 1,
         \/ tx_queue' = tx_queue
         \/ \E m \in ResponseSet : tx_queue' = Append(tx_queue, m) /\ RestOf(n)'
  PROVE  Resting' /\ Addressed'
<1>1. LifeInv /\ Resting /\ Addressed /\ Types
  BY DEF RestInv, LifeInv
<1>2. \/ tx_queue' = tx_queue
      \/ \E m \in ResponseSet : tx_queue' = Append(tx_queue, m)
  OBVIOUS
<1>3. \A k \in DOMAIN tx_queue : tx_queue'[k] = tx_queue[k]
  BY <1>1, <1>2, AppendFacts DEF Types
<1>4. \A k \in DOMAIN tx_queue' : k \in DOMAIN tx_queue \/ (k = n /\ RestOf(n)')
  <2>1. CASE tx_queue' = tx_queue
    BY <2>1
  <2>2. ASSUME NEW m \in ResponseSet, tx_queue' = Append(tx_queue, m), RestOf(n)'
        PROVE  \A k \in DOMAIN tx_queue' : k \in DOMAIN tx_queue \/ (k = n /\ RestOf(n)')
    BY <1>1, <2>2, AppendFacts DEF Types
  <2> QED
    BY <2>1, <2>2
<1>5. ASSUME NEW k \in DOMAIN tx_queue
      PROVE  RestOf(k)'
  <2>1. \A b : Behind(id_queue, b, Rivals(k)) => Behind(id_queue, b, Rivals(k))'
    BY <1>1, <1>2, RivalsMove
  <2>2. PICK f, T : f = tx_queue[k].front /\ T = Rivals(k)'
    OBVIOUS
  <2>3. \A b : Behind(id_queue, b, Rivals(k)) => Behind(id_queue', b, T)
    BY <2>1, <2>2 DEF Behind
  <2>4. ASSUME ~Opening(tx_queue[k]), f \notin lost'
        PROVE  /\ view[f] \in {"open", "closing"} => Behind(id_queue', bid[f], T)
               /\ \A l \in DOMAIN tx_queue :
                    l < k /\ tx_queue[l].front = f => Behind(id_queue', tx_queue[l].back, T)
    BY <1>1, <2>2, <2>3, <2>4, Zenon DEF Resting, RestOf
  <2>5. \A l \in DOMAIN tx_queue' : l < k => l \in DOMAIN tx_queue
    <3>1. k \in 1 .. Len(tx_queue) /\ Len(tx_queue) \in Nat
      BY <1>1 DEF Types
    <3> QED
      BY <1>4, <3>1
  <2>6. tx_queue'[k] = tx_queue[k]
    BY <1>3, SMTT(30)
  <2>7. ASSUME ~Opening(tx_queue'[k]), f \notin lost'
        PROVE  /\ view'[f] \in {"open", "closing"} => Behind(id_queue', bid'[f], T)
               /\ \A l \in DOMAIN tx_queue' :
                    l < k /\ tx_queue'[l].front = f => Behind(id_queue', tx_queue'[l].back, T)
    BY <1>3, <2>4, <2>5, <2>6, <2>7, SMTT(30)
  <2> QED
    BY <2>2, <2>6, <2>7, Zenon DEF RestOf, Opening, Behind
<1>6. Resting'
  BY <1>4, <1>5 DEF Resting
<1>7. ASSUME NEW i \in DOMAIN rx_queue'
      PROVE  MeantFor(i)'
  <2>1. PICK j \in DOMAIN rx_queue : /\ IF Takes THEN j = i + 1 ELSE j = i
                                     /\ rx_queue'[i] = rx_queue[j]
    <3>1. CASE Takes
      BY <1>1, <3>1, TailFacts DEF Types, Takes
    <3>2. CASE ~Takes
      BY <3>2 DEF TakesId, TakesNoId
    <3> QED
      BY <3>1, <3>2, SMTT(30)
  <2>2. \A b : Behind(id_queue, b, Ahead(j)) => Behind(id_queue, b, Ahead(i))'
    BY <1>1, <2>1, AheadMoves
  <2>3. PICK c, T : c = rx_queue[j] /\ T = Ahead(i)'
    OBVIOUS
  <2>4. \A b : Behind(id_queue, b, Ahead(j)) => Behind(id_queue', b, T)
    BY <2>2, <2>3 DEF Behind
  <2>5. c.front \in FrontId /\ c = rx_queue'[i]
    BY <1>1, <2>1, <2>3, SMTT(30) DEF Types, CommandSet
  <2>6. ASSUME c.type # "create", c.front \notin lost'
        PROVE  \/ /\ view'[c.front] \in {"open", "closing"} /\ bid'[c.front] = c.back
                  /\ HasSess(c.front)' \/ ToldEnd(c.front)'
               \/ Behind(id_queue', c.back, T)
    <3>1. \/ /\ view[c.front] \in {"open", "closing"} /\ bid[c.front] = c.back
             /\ HasSess(c.front) \/ ToldEnd(c.front)
          \/ Behind(id_queue, c.back, Ahead(j))
      BY <1>1, <2>3, <2>6, Zenon DEF Addressed, MeantFor
    <3> QED
      BY <2>4, <2>5, <2>6, <3>1, SMTT(30)
  <2> QED
    BY <2>3, <2>5, <2>6, Zenon DEF MeantFor, Behind, HasSess, ToldEnd, Opening
<1>8. Addressed'
  BY <1>7 DEF Addressed
<1> QED
  BY <1>6, <1>8

(* The id of a deleted session goes behind one free id for every frontend  *)
(* id that may ask for one.                                                *)
LEMMA RestEnded ==
  ASSUME RestInv, IsFiniteSet(FrontId), Cardinality(FrontId) <= IdNum,
         NEW s \in sess, Ends(s)
  PROVE  Resting' /\ Addressed'
<1> DEFINE f == s.front
           m == Response("close", TRUE, f, HANDOVER)
<1>1. /\ sess' = sess \ {s} /\ reclaiming = {} /\ Says(m)
      /\ id_queue' = Append(id_queue, s.id) /\ view' = view /\ bid' = bid
      /\ (Takes /\ Head(rx_queue).type = "close") \/ UNCHANGED rx_queue
  BY Zenon DEF Ends, frontVars, ReleaseId
<1>2. /\ LifeInv /\ Types /\ OneCreate /\ Phases /\ TxOrder /\ Known /\ IdInv
      /\ OneSessionPerFrontend /\ id_queue \in Seq(Id)
  BY DEF RestInv, LifeInv, IdInv
<1>3. f \in FrontId /\ s.id \in Id /\ HasSess(f)
  BY <1>2 DEF Types, HasSess
<1>4. m \in ResponseSet /\ ~Opening(m) /\ m.front = f
  BY <1>3, EndMessages, Zenon
<1> HIDE DEF f, m
<1>5. TakesNoId
  BY <1>1, <1>3 DEF TakesNoId, ReleaseId
<1>6. ~ToldEnd(f)
  BY <1>2, <1>3 DEF Phases
<1>7. /\ lost \subseteq lost' /\ (ToldEnd(f)' \/ f \in lost')
      /\ \A g : ToldEnd(g) => ToldEnd(g)'
  BY <1>1, <1>2, <1>4, <1>6, EndSaid, Zenon
<1>8. \A g \in FrontId : g \notin lost' /\ (HasSess(g) \/ ToldEnd(g)) =>
                           HasSess(g)' \/ ToldEnd(g)'
  <2>1. \A g : g # f /\ HasSess(g) => HasSess(g)'
    BY <1>1 DEF HasSess, f
  <2> QED
    BY <1>7, <2>1
<1>9. PICK n : n = Len(tx_queue) + 1
  OBVIOUS
<1>10. ASSUME tx_queue' = Append(tx_queue, m)
       PROVE  RestOf(n)'
  <2>1. /\ tx_queue'[n] = m
        /\ \A l \in DOMAIN tx_queue' :
             l < n => l \in DOMAIN tx_queue /\ tx_queue'[l] = tx_queue[l]
    BY <1>2, <1>4, <1>9, <1>10, AppendFacts DEF Types
  <2>2. PICK T : T = Rivals(n)'
    OBVIOUS
  <2>3. \A g : Asked(g)' => Asked(g)
    BY <1>1, <1>2, RxTaken, PartsKept, Zenon
  <2>4. T \subseteq {g \in FrontId : ~HasSess(g)}
    <3> SUFFICES ASSUME NEW g \in FrontId,
                        \/ Asked(g)' \/ view'[g] = "closed"
                        \/ \E l \in DOMAIN tx_queue' :
                             l < n /\ ~Opening(tx_queue'[l]) /\ tx_queue'[l].front = g
                 PROVE  ~HasSess(g)
      BY <2>2, Zenon DEF Rivals, Opening
    <3>1. Asked(g) \/ view[g] = "closed" \/ ToldEnd(g)
      BY <1>1, <2>1, <2>3, Zenon DEF ToldEnd
    <3> QED
      BY <1>2, <3>1, Zenon DEF Phases
  <2>5. Cardinality(T) <= Len(id_queue) /\ Cardinality(T) \in Nat
    <3>1. IsFiniteSet({g \in FrontId : ~HasSess(g)})
      BY FS_Subset
    <3>2. /\ Cardinality(T) <= Cardinality({g \in FrontId : ~HasSess(g)})
          /\ Cardinality(T) \in Nat /\ Cardinality({g \in FrontId : ~HasSess(g)}) \in Nat
      BY <2>4, <3>1, FS_Subset, FS_CardinalityType, Zenon
    <3>3. Cardinality({g \in FrontId : ~HasSess(g)}) <= Len(id_queue)
      BY <1>1, <1>2, FreeIds, Zenon
    <3> QED
      BY <1>2, <3>2, <3>3
  <2>6. Behind(id_queue', s.id, T)
    <3>1. /\ Len(id_queue) + 1 \in DOMAIN id_queue' /\ id_queue'[Len(id_queue) + 1] = s.id
          /\ Len(id_queue) \in Nat
      BY <1>1, <1>2, <1>3, AppendFacts, SMTT(30)
    <3> QED
      BY <2>5, <3>1, SMTT(30) DEF Behind
  <2>7. view'[f] \in {"open", "closing"} => bid'[f] = s.id
    BY <1>1, <1>2, Zenon DEF Known, f
  <2>8. ASSUME NEW l \in DOMAIN tx_queue', l < n, tx_queue'[l].front = f
        PROVE  tx_queue'[l].back = s.id
    <3>1. l \in DOMAIN tx_queue /\ tx_queue'[l] = tx_queue[l] /\ tx_queue[l].front = f
      BY <2>1, <2>8, SMTT(30)
    <3>2. Opening(tx_queue[l])
      BY <1>6, <3>1, SMTT(30) DEF ToldEnd
    <3>3. tx_queue[l].back \in Id /\ ToldOpen(f, tx_queue[l].back)
      <4>1. tx_queue[l] \in ResponseSet
        BY <1>2, <3>1, SMTT(30) DEF Types
      <4> QED
        BY <3>1, <3>2, <4>1, ResponseFields, Zenon DEF ToldOpen
    <3>4. ToldOpen(f, s.id)
      BY <1>2, <1>3, <3>3, Zenon DEF Known, f
    <3> QED
      BY <1>2, <3>1, <3>3, <3>4, OneOpening, Zenon
  <2> QED
    BY <1>4, <2>1, <2>2, <2>6, <2>7, <2>8, ZenonT(60) DEF RestOf, Behind
<1>11. \/ tx_queue' = tx_queue
       \/ \E x \in ResponseSet : tx_queue' = Append(tx_queue, x) /\ RestOf(n)'
  BY <1>1, <1>4, <1>10, SMTT(30) DEF Says
<1> QED
  BY <1>1, <1>5, <1>7, <1>8, <1>9, <1>11, RestKept, SMTT(30)

(* A failed create has no backend id to tell.                              *)
LEMMA RestRefused ==
  ASSUME RestInv, IsFiniteSet(FrontId), NEW f \in FrontId, Says(CreateFailed(f)),
         UNCHANGED <<sess, view, bid>>, TakesId \/ TakesNoId, Asked(f) \/ Undoing(f)
  PROVE  Resting' /\ Addressed'
<1> DEFINE m == CreateFailed(f)
<1>1. Types /\ TxOrder /\ Phases
  BY DEF RestInv, LifeInv
<1>2. m \in ResponseSet /\ ~Opening(m) /\ m.front = f /\ Says(m)
  BY EndMessages, Zenon
<1> HIDE DEF m
<1>3. view[f] = "opening" /\ ~Told(f) /\ ~ToldEnd(f)
  BY <1>1 DEF Phases, Told, ToldEnd
<1>4. lost \subseteq lost' /\ \A g : ToldEnd(g) => ToldEnd(g)'
  BY <1>1, <1>2, <1>3, EndSaid, Zenon
<1>5. \A g : HasSess(g) => HasSess(g)'
  BY DEF HasSess
<1>6. PICK n : n = Len(tx_queue) + 1
  OBVIOUS
<1>7. ASSUME tx_queue' = Append(tx_queue, m)
      PROVE  RestOf(n)'
  <2>1. /\ tx_queue'[n] = m
        /\ \A l \in DOMAIN tx_queue' :
             l < n => l \in DOMAIN tx_queue /\ tx_queue'[l] = tx_queue[l]
    BY <1>1, <1>2, <1>6, <1>7, AppendFacts, SMTT(30) DEF Types
  <2>2. ~\E l \in DOMAIN tx_queue' : l < n /\ tx_queue'[l].front = f
    BY <1>3, <2>1 DEF Told
  <2> QED
    BY <1>2, <1>3, <2>1, <2>2, Zenon DEF RestOf
<1>8. \/ tx_queue' = tx_queue
      \/ \E x \in ResponseSet : tx_queue' = Append(tx_queue, x) /\ RestOf(n)'
  BY <1>2, <1>7 DEF Says
<1> QED
  BY <1>4, <1>5, <1>6, <1>8, RestKept, SMTT(30)

(* The frontend's commands: a create makes no new rival, and a message for *)
(* a session that is open goes to that session or to an id at rest.        *)
LEMMA RestSent ==
  ASSUME RestInv, NEW f \in FrontId, NEW from, NEW to, NEW c,
         FrontendSends(f, from, to, c), c \in CommandSet, c.front = f,
         \/ from = "closed" /\ to = "opening" /\ c.type = "create"
         \/ /\ from = "open" /\ to \in {"open", "closing"} /\ c.type # "create"
            /\ c.back = bid[f]
  PROVE  Resting' /\ Addressed'
<1>1. /\ view[f] = from /\ view' = [view EXCEPT ![f] = to] /\ bid' = bid
      /\ rx_queue' = Append(rx_queue, c) /\ lost' = lost /\ id_queue' = id_queue
      /\ tx_queue' = tx_queue /\ SessKept /\ TxKept
  BY DEF FrontendSends, SessKept, TxKept, vars, poolVars
<1>2. Types /\ Phases /\ Waits /\ Resting /\ Addressed
  BY DEF RestInv, LifeInv
<1>3. \A g \in FrontId : view'[g] = IF g = f THEN to ELSE view[g]
  BY <1>1, <1>2, Zenon DEF Types
<1>4. \A g : Asked(g)' <=> Asked(g) \/ (c.type = "create" /\ g = f)
  BY <1>1, <1>2, RxSent, Zenon
<1>5. \A k : Rivals(k)' = Rivals(k)
  <2> SUFFICES ASSUME NEW k, NEW g \in FrontId
               PROVE  Asked(g)' \/ view'[g] = "closed" <=> Asked(g) \/ view[g] = "closed"
    BY <1>1 DEF Rivals, Opening
  <2> QED
    BY <1>1, <1>3, <1>4, Zenon
<1>6. Resting'
  <2> SUFFICES ASSUME NEW k \in DOMAIN tx_queue
               PROVE  RestOf(k)'
    BY <1>1, SMTT(30) DEF Resting
  <2>1. tx_queue[k].front \in FrontId /\ view[tx_queue[k].front] # "closed"
    <3>1. tx_queue[k] \in ResponseSet /\ Told(tx_queue[k].front)
      BY <1>2 DEF Types, Told
    <3> QED
      BY <1>2, <3>1, ResponseFields, Zenon DEF Phases
  <2>2. view'[tx_queue[k].front] \in {"open", "closing"} => view[tx_queue[k].front] \in {"open", "closing"}
    BY <1>1, <1>3, <2>1, Zenon
  <2> QED
    BY <1>1, <1>2, <1>5, <2>2, Zenon DEF Resting, RestOf, Opening
<1>7. /\ DOMAIN rx_queue' = (DOMAIN rx_queue) \cup {Len(rx_queue) + 1}
      /\ rx_queue'[Len(rx_queue) + 1] = c
      /\ \A i \in DOMAIN rx_queue : rx_queue'[i] = rx_queue[i] /\ i < Len(rx_queue) + 1
      /\ \A i \in DOMAIN rx_queue : i \in Nat
      /\ Len(rx_queue) \in Nat
  BY <1>1, <1>2, AppendFacts, SMTT(30) DEF Types
<1>8. \A g : (HasSess(g)' <=> HasSess(g)) /\ (ToldEnd(g)' <=> ToldEnd(g))
  BY <1>1, PartsKept, Zenon
<1>9. ASSUME NEW i \in DOMAIN rx_queue
      PROVE  MeantFor(i)'
  <2>1. Ahead(i)' = Ahead(i)
    <3>1. \A j \in DOMAIN rx_queue' : j < i => j \in DOMAIN rx_queue
      BY <1>7
    <3> QED
      BY <1>7, <3>1, Zenon DEF Ahead
  <2>2. PICK d : d = rx_queue[i]
    BY SMTT(30)
  <2>3. rx_queue'[i] = d /\ d.front \in FrontId
    BY <1>2, <1>7, <2>2, SMTT(30) DEF Types, CommandSet
  <2>4. view[d.front] \in {"open", "closing"} => view'[d.front] \in {"open", "closing"}
    BY <1>1, <1>3, <2>3
  <2>5. d.type # "create" /\ d.front \notin lost =>
          \/ /\ view[d.front] \in {"open", "closing"} /\ bid[d.front] = d.back
             /\ HasSess(d.front) \/ ToldEnd(d.front)
          \/ Behind(id_queue, d.back, Ahead(i))
    BY <1>2, <2>2, Zenon DEF Addressed, MeantFor
  <2>6. d.type # "create" /\ d.front \notin lost' =>
          \/ /\ view'[d.front] \in {"open", "closing"} /\ bid'[d.front] = d.back
             /\ HasSess(d.front)' \/ ToldEnd(d.front)'
          \/ Behind(id_queue, d.back, Ahead(i))
    BY <1>1, <1>8, <2>4, <2>5, Zenon
  <2> QED
    BY <1>1, <2>1, <2>3, <2>6, Zenon DEF MeantFor, Behind, HasSess, ToldEnd, Opening
<1>10. PICK n : n = Len(rx_queue) + 1
  OBVIOUS
<1>11. MeantFor(n)'
  <2>1. rx_queue'[n] = c
    BY <1>7, <1>10
  <2>2. ASSUME c.type # "create", f \notin lost
        PROVE  /\ view'[f] \in {"open", "closing"} /\ bid'[f] = c.back
               /\ HasSess(f)' \/ ToldEnd(f)'
    BY <1>1, <1>2, <1>3, <1>8, <2>2, Zenon DEF Waits
  <2> QED
    BY <1>1, <2>1, <2>2, Zenon DEF MeantFor, HasSess, ToldEnd, Opening
<1>12. Addressed'
  BY <1>7, <1>9, <1>10, <1>11, Zenon DEF Addressed
<1> QED
  BY <1>6, <1>12

(* The frontend reads a message: an end makes its id a rival, and what the *)
(* id has still in the RX queue names an id that no create there can get.  *)
LEMMA RestRead ==
  ASSUME RestInv, IsFiniteSet(FrontId), FrontendReceive
  PROVE  Resting' /\ Addressed'
<1>0. PICK m, f : m = Head(tx_queue) /\ f = m.front
  OBVIOUS
<1>1. /\ tx_queue # <<>> /\ tx_queue' = Tail(tx_queue)
      /\ view' = [view EXCEPT ![f] = IF Opening(m) THEN "open" ELSE "closed"]
      /\ bid' = [bid EXCEPT ![f] = IF Opening(m) THEN m.back ELSE HANDOVER]
      /\ rx_queue' = rx_queue /\ lost' = lost /\ id_queue' = id_queue /\ SessKept
  BY <1>0, Zenon DEF FrontendReceive, FrontendTakes, SessKept, poolVars, Opening
<1>2. /\ Types /\ Phases /\ TxOrder /\ Known /\ Resting /\ Addressed
      /\ id_queue \in Seq(Id)
  BY DEF RestInv, LifeInv, IdInv
<1>3. /\ m = tx_queue[1] /\ m \in ResponseSet
      /\ 1 \in DOMAIN tx_queue /\ DOMAIN tx_queue \subseteq Nat \ {0}
      /\ DOMAIN tx_queue' \subseteq Nat \ {0}
      /\ \A i \in DOMAIN tx_queue' : i + 1 \in DOMAIN tx_queue /\ tx_queue'[i] = tx_queue[i + 1]
      /\ \A i \in DOMAIN tx_queue :
           i # 1 => i - 1 \in DOMAIN tx_queue' /\ tx_queue'[i - 1] = tx_queue[i]
  BY <1>0, <1>1, <1>2, TailFacts, SMTT(30) DEF Types
<1>4. f \in FrontId /\ Told(f) /\ view[f] # "closed"
  <2>1. f \in FrontId
    BY <1>0, <1>3, Zenon DEF ResponseSet
  <2>2. Told(f)
    BY <1>0, <1>3, <2>1, Zenon DEF Told
  <2> QED
    BY <1>2, <2>1, <2>2, Zenon DEF Phases
<1>5. /\ \A g \in FrontId : g # f => view'[g] = view[g] /\ bid'[g] = bid[g]
      /\ view'[f] = IF Opening(m) THEN "open" ELSE "closed"
      /\ bid'[f] = IF Opening(m) THEN m.back ELSE HANDOVER
  BY <1>1, <1>2, <1>4, Zenon DEF Types
<1>6. ASSUME NEW k \in DOMAIN tx_queue'
      PROVE  Rivals(k)' \subseteq Rivals(k + 1)
  <2> SUFFICES ASSUME NEW g \in FrontId,
                      \/ Asked(g)' \/ view'[g] = "closed"
                      \/ \E l \in DOMAIN tx_queue' :
                           l < k /\ ~Opening(tx_queue'[l]) /\ tx_queue'[l].front = g
               PROVE  g \in Rivals(k + 1)
    BY DEF Rivals, Opening
  <2>1. CASE Asked(g)'
    BY <1>1, <2>1, PartsKept, Zenon DEF Rivals
  <2>2. CASE view'[g] = "closed"
    <3>1. CASE g = f
      <4>1. 1 < k + 1
        BY <1>3
      <4>2. ~Opening(m)
        BY <1>5, <2>2, <3>1
      <4> QED
        BY <1>0, <1>3, <3>1, <4>1, <4>2, Zenon DEF Rivals
    <3>2. CASE g # f
      BY <1>5, <2>2, <3>2, Zenon DEF Rivals
    <3> QED
      BY <3>1, <3>2
  <2>3. ASSUME NEW l \in DOMAIN tx_queue', l < k, ~Opening(tx_queue'[l]), tx_queue'[l].front = g
        PROVE  g \in Rivals(k + 1)
    <3>1. l + 1 \in DOMAIN tx_queue /\ tx_queue'[l] = tx_queue[l + 1] /\ l + 1 < k + 1
      BY <1>3, <2>3
    <3> QED
      BY <2>3, <3>1, Zenon DEF Rivals
  <2> QED
    BY <2>1, <2>2, <2>3, Zenon
<1>7. ASSUME NEW k \in DOMAIN tx_queue'
      PROVE  RestOf(k)'
  <2>1. PICK T, g : T = Rivals(k)' /\ g = tx_queue'[k].front
    OBVIOUS
  <2>2. /\ k + 1 \in DOMAIN tx_queue /\ tx_queue'[k] = tx_queue[k + 1] /\ k \in Nat /\ 1 < k + 1
    BY <1>3
  <2>3. \A b : Behind(id_queue, b, Rivals(k + 1)) => Behind(id_queue', b, T)
    <3>1. T \subseteq Rivals(k + 1)
      BY <1>6, <2>1
    <3>2. IsFiniteSet(Rivals(k + 1))
      BY FS_Subset DEF Rivals
    <3> QED
      BY <1>1, <1>2, <3>1, <3>2, BehindStays
  <2>4. g \in FrontId
    <3>1. tx_queue[k + 1] \in ResponseSet
      BY <1>2, <2>2 DEF Types
    <3> QED
      BY <2>1, <2>2, <3>1, ResponseFields
  <2>5. ASSUME ~Opening(tx_queue[k + 1]), g \notin lost
        PROVE  /\ view'[g] \in {"open", "closing"} => Behind(id_queue', bid'[g], T)
               /\ \A l \in DOMAIN tx_queue' :
                    l < k /\ tx_queue'[l].front = g => Behind(id_queue', tx_queue'[l].back, T)
    <3>1. /\ view[g] \in {"open", "closing"} => Behind(id_queue, bid[g], Rivals(k + 1))
          /\ \A l \in DOMAIN tx_queue :
               l < k + 1 /\ tx_queue[l].front = g =>
                 Behind(id_queue, tx_queue[l].back, Rivals(k + 1))
      BY <1>2, <2>1, <2>2, <2>5, Zenon DEF Resting, RestOf
    <3>2. view'[g] \in {"open", "closing"} => Behind(id_queue', bid'[g], T)
      <4>1. CASE g = f
        <5>1. Opening(m)
          BY <1>0, <1>2, <1>3, <2>1, <2>2, <4>1, SMTT(30) DEF TxOrder
        <5>2. Behind(id_queue, m.back, Rivals(k + 1))
          BY <1>0, <1>3, <2>2, <3>1, <4>1, Zenon
        <5> QED
          BY <1>5, <2>3, <4>1, <5>1, <5>2, ZenonT(60)
      <4>2. CASE g # f
        BY <1>5, <2>3, <2>4, <3>1, <4>2, Zenon
      <4> QED
        BY <4>1, <4>2
    <3>3. ASSUME NEW l \in DOMAIN tx_queue', l < k, tx_queue'[l].front = g
          PROVE  Behind(id_queue', tx_queue'[l].back, T)
      <4>1. l + 1 \in DOMAIN tx_queue /\ tx_queue'[l] = tx_queue[l + 1] /\ l + 1 < k + 1
        BY <1>3, <3>3
      <4> QED
        BY <2>3, <3>1, <3>3, <4>1, ZenonT(60)
    <3> QED
      BY <3>2, <3>3, Zenon
  <2> QED
    BY <1>1, <2>1, <2>2, <2>5, Zenon DEF RestOf, Opening, Behind
<1>8. ASSUME NEW i \in DOMAIN rx_queue
      PROVE  MeantFor(i)'
  <2>1. PICK c, T : c = rx_queue[i] /\ T = Ahead(i)
    OBVIOUS
  <2>2. Ahead(i)' = T
    BY <1>1, <2>1, Zenon DEF Ahead
  <2>3. c.front \in FrontId
    BY <1>2, <2>1, SMTT(30) DEF Types, CommandSet
  <2>4. ASSUME c.type # "create", c.front \notin lost
        PROVE  \/ /\ view'[c.front] \in {"open", "closing"} /\ bid'[c.front] = c.back
                  /\ HasSess(c.front)' \/ ToldEnd(c.front)'
               \/ Behind(id_queue, c.back, T)
    <3>1. \/ /\ view[c.front] \in {"open", "closing"} /\ bid[c.front] = c.back
             /\ HasSess(c.front) \/ ToldEnd(c.front)
          \/ Behind(id_queue, c.back, T)
      BY <1>2, <2>1, <2>4, Zenon DEF Addressed, MeantFor
    <3>2. CASE c.front # f
      <4>1. (HasSess(c.front)' <=> HasSess(c.front)) /\ (ToldEnd(c.front)' <=> ToldEnd(c.front))
        BY <1>0, <1>1, <1>2, <3>2, TxRead, PartsKept, Zenon
      <4> QED
        BY <1>5, <2>3, <3>1, <3>2, <4>1, Zenon
    <3>3. CASE c.front = f /\ view[f] \in {"open", "closing"} /\ bid[f] = c.back
      <4>1. ~Opening(m)
        <5>1. Opening(m) => ToldOpen(f, m.back)
          BY <1>0, <1>3 DEF ToldOpen
        <5> QED
          BY <1>2, <1>3, <1>4, <3>3, <5>1, ResponseFields, ZenonT(60) DEF Known
      <4>2. Behind(id_queue, c.back, Rivals(1))
        BY <1>0, <1>2, <1>3, <2>4, <3>3, <4>1, Zenon DEF Resting, RestOf
      <4>3. T \subseteq Rivals(1) /\ IsFiniteSet(Rivals(1))
        BY <2>1, FS_Subset, Zenon DEF Ahead, Rivals, Asked
      <4> QED
        BY <1>2, <4>2, <4>3, BehindStays, Zenon
    <3> QED
      BY <3>1, <3>2, <3>3, Zenon
  <2> QED
    BY <1>1, <2>1, <2>2, <2>4, Zenon DEF MeantFor, Behind, HasSess, ToldEnd, Opening
<1>9. Resting' /\ Addressed'
  BY <1>1, <1>7, <1>8, SMTT(30) DEF Resting, Addressed
<1> QED
  BY <1>9
-----------------------------------------------------------------------------
(* With at least as many backend ids as frontend ids, every step of the    *)
(* protocol keeps released ids at rest.                                    *)
LEMMA RestInvPreserved ==
  ASSUME RestInv, IsFiniteSet(FrontId), Cardinality(FrontId) <= IdNum,
         [ProtoNext]_protoVars
  PROVE  RestInv'
<1>1. LifeInv /\ LifeInv' /\ Types /\ OneCreate
  BY LifeInvPreserved DEF RestInv, LifeInv
<1> DEFINE Goal == Resting' /\ Addressed'
<1>2. ASSUME NEW f \in FrontId, NEW want \in Want, FrontendCreate(f, want)
      PROVE  Goal
  <2> DEFINE c == Command("create", f, HANDOVER, want)
  <2>1. c \in CommandSet /\ c.type = "create" /\ c.front = f
    BY Zenon DEF Command, CommandSet
  <2> HIDE DEF c
  <2>2. FrontendSends(f, "closed", "opening", c)
    BY <1>2 DEF FrontendCreate, c
  <2> QED
    BY <2>1, <2>2, RestSent
<1>3. ASSUME NEW f \in FrontId, FrontendClose(f) \/ FrontendData(f)
      PROVE  Goal
  <2>1. PICK to \in {"open", "closing"},
             c \in {Command("data", f, bid[f], AUTO), Command("close", f, bid[f], AUTO)} :
          FrontendSends(f, "open", to, c)
    BY <1>3 DEF FrontendClose, FrontendData
  <2>2. bid[f] \in Id
    BY <1>1, <2>1, Zenon DEF Types, FrontendSends
  <2>3. c \in CommandSet /\ c.type # "create" /\ c.front = f /\ c.back = bid[f]
    BY <2>1, <2>2, SMTT(30) DEF Command, CommandSet
  <2> QED
    BY <2>1, <2>3, RestSent, Zenon
<1>4. ASSUME FrontendReceive
      PROVE  Goal
  BY <1>4, RestRead, SMTT(30)
<1>5. ASSUME Refuses
      PROVE  Goal
  <2>1. PICK f : f = Head(rx_queue).front
    OBVIOUS
  <2>2. Asked(f) /\ f \in FrontId
    BY <1>1, <1>5, <2>1, RxTaken, HeadCommand, ZenonT(60) DEF Refuses, Takes
  <2>3. TakesId /\ Says(CreateFailed(f)) /\ UNCHANGED <<sess, view, bid>>
    BY <1>5, <2>1 DEF Refuses, TakesId, frontVars
  <2> QED
    BY <2>2, <2>3, RestRefused
<1>6. ASSUME NEW r \in reclaiming, Undoes(r)
      PROVE  Goal
  <2>1. r.front \in FrontId /\ r.id \in Id /\ Undoing(r.front)
    BY <1>1 DEF Types, Undoing
  <2>2. TakesNoId /\ Says(CreateFailed(r.front)) /\ UNCHANGED <<sess, view, bid>>
    BY <1>6, <2>1 DEF Undoes, TakesNoId, frontVars
  <2> QED
    BY <2>1, <2>2, RestRefused, Zenon
<1>7. ASSUME NEW s, Grants(s)
      PROVE  Goal
  <2> DEFINE m == Response("create", TRUE, s.front, s.id)
  <2>1. /\ Takes /\ Head(rx_queue).type = "create" /\ s.front = Head(rx_queue).front
        /\ s.id = Head(id_queue) /\ id_queue # <<>> /\ id_queue' = Tail(id_queue)
        /\ sess' = sess \cup {s} /\ tx_queue' = Append(tx_queue, m)
        /\ view' = view /\ bid' = bid /\ lost' = lost
    BY <1>7, Zenon DEF Grants, Taken, frontVars
  <2>2. s.front \in FrontId
    BY <1>1, <2>1, HeadCommand, Zenon DEF Takes
  <2>3. s.id \in Id
    BY <1>1, <2>1, TailFacts, SMTT(30) DEF LifeInv, IdInv
  <2>4. m \in ResponseSet /\ Opening(m)
    BY <2>2, <2>3, Zenon DEF Response, ResponseSet, Opening
  <2> HIDE DEF m
  <2>5. TakesId
    BY <2>1 DEF TakesId
  <2>6. \A f : HasSess(f) \/ ToldEnd(f) => HasSess(f)' \/ ToldEnd(f)'
    BY <1>1, <2>1, <2>4, TxSaid, Zenon DEF HasSess
  <2>7. PICK n : n = Len(tx_queue) + 1
    BY SMTT(30)
  <2>8. tx_queue'[n] = m
    BY <1>1, <2>1, <2>4, <2>7, AppendFacts, SMTT(30) DEF Types
  <2>9. RestOf(n)'
    BY <2>4, <2>8 DEF RestOf, Opening
  <2> QED
    BY <2>1, <2>4, <2>5, <2>6, <2>7, <2>9, RestKept, Zenon
<1>8. ASSUME NEW r, Stalls(r) \/ Passes \/ Halts \/ Rests
      PROVE  Goal
  <2>1. /\ sess' = sess /\ tx_queue' = tx_queue /\ view' = view /\ bid' = bid
        /\ lost \subseteq lost'
    BY <1>8, Zenon DEF Stalls, Passes, Halts, Rests, Taken, frontVars
  <2>2. TakesId \/ TakesNoId
    BY <1>8, Zenon DEF Stalls, Passes, Halts, Rests, Taken, TakesId, TakesNoId
  <2>3. \A f : HasSess(f) \/ ToldEnd(f) => HasSess(f)' \/ ToldEnd(f)'
    BY <2>1 DEF HasSess, ToldEnd, Opening
  <2> QED
    BY <2>1, <2>2, <2>3, RestKept
<1>9. ASSUME NEW s \in sess, Ends(s)
      PROVE  Goal
  BY <1>9, RestEnded
<1>10. Goal
  <2> HIDE DEF Goal
  <2> QED
    BY <1>1, <1>2, <1>3, <1>4, <1>5, <1>6, <1>7, <1>8, <1>9, BackendKinds, Zenon
       DEF FrontendActs, BackendActs
<1> QED
  BY <1>1, <1>10 DEF RestInv

(* A session is looked up by the backend id of a message alone.  Provided  *)
(* there are at least as many backend ids as frontend ids in use, a data   *)
(* or close message still reaches its own frontend id's session or none,   *)
(* whatever closes, failures and creates cross it on the way, but for      *)
(* frontend ids that lost a notice to a full TX queue.  (With fewer ids it *)
(* fails: the id of a closed session can be handed out again at once.)     *)
THEOREM MessagesReachTheirOwn ==
  ASSUME IsFiniteSet(FrontId), Cardinality(FrontId) <= IdNum
  PROVE  ProtoSpec => []MessagesHitOwnSession
<1>1. ProtoInit => RestInv
  <2> SUFFICES ASSUME ProtoInit
               PROVE  RestInv
    OBVIOUS
  <2>1. rx_queue = <<>> /\ tx_queue = <<>>
    BY DEF ProtoInit, Init
  <2> QED
    BY <2>1, LifeInvInitial DEF RestInv, Resting, Addressed
<1>2. RestInv /\ [ProtoNext]_protoVars => RestInv'
  BY RestInvPreserved
<1>3. ASSUME RestInv
      PROVE  MessagesHitOwnSession
  <2> SUFFICES ASSUME rx_queue # <<>>, NEW s \in sess, s.id = Head(rx_queue).back,
                      s.front # Head(rx_queue).front, Head(rx_queue).front \notin lost
               PROVE  FALSE
    BY DEF MessagesHitOwnSession, Misdirected
  <2>1. PICK c : c = Head(rx_queue)
    OBVIOUS
  <2>2. /\ IdsConserved /\ Types /\ Known /\ Resting /\ Addressed /\ Phases
        /\ id_queue \in Seq(Id)
    BY <1>3 DEF RestInv, LifeInv, IdInv
  <2>3. s.id \in Id /\ c.front \in FrontId /\ c.type # "create"
    <3>1. s.id \in Id /\ HANDOVER \notin Id
      BY <2>2, PoolAssumption, SMTT(30) DEF Types, HANDOVER, Id
    <3> QED
      BY <2>1, <2>2, <3>1, HeadCommand, Zenon
  <2>4. \A b, S : Behind(id_queue, b, S) => b # s.id
    BY <2>2, Zenon DEF Behind, IdsConserved, Live, Range
  <2>5. 1 \in DOMAIN rx_queue /\ rx_queue[1] = c
    BY <2>1, <2>2, TailFacts, Zenon DEF Types
  <2>6. /\ view[c.front] \in {"open", "closing"} /\ bid[c.front] = c.back
        /\ HasSess(c.front) \/ ToldEnd(c.front)
    BY <2>1, <2>2, <2>3, <2>4, <2>5, Zenon DEF Addressed, MeantFor
  <2>7. CASE HasSess(c.front)
    <3>1. PICK t \in sess : t.front = c.front
      BY <2>7 DEF HasSess
    <3>2. t.id = s.id
      BY <2>1, <2>2, <2>6, <3>1, Zenon DEF Known
    <3> QED
      BY <2>1, <2>2, <3>1, <3>2, Zenon DEF IdsConserved
  <2>8. CASE ToldEnd(c.front)
    <3>1. PICK k \in DOMAIN tx_queue : ~Opening(tx_queue[k]) /\ tx_queue[k].front = c.front
      BY <2>8 DEF ToldEnd
    <3>2. Behind(id_queue, bid[c.front], Rivals(k))
      BY <2>1, <2>2, <2>6, <3>1, Zenon DEF Resting, RestOf
    <3> QED
      BY <2>1, <2>4, <2>6, <3>2, ZenonT(60)
  <2> QED
    BY <2>6, <2>7, <2>8, Zenon
<1>4. RestInv => MessagesHitOwnSession
  BY <1>3
<1> QED
  BY <1>1, <1>2, <1>4, PTL DEF ProtoSpec
=============================================================================
