---------------------------- MODULE EngineStart ----------------------------
(***************************************************************************)
(* The backend process from main to its end: engine_init with the reading  *)
(* of hs_net_dev.ini, engine_run_hyperamp with the device selector and the *)
(* session nodes of the devices, engine_destory.                           *)
(*                                                                         *)
(* Every malloc, the opening of a namespace, epoll_create, the mapping of  *)
(* the shared memory and the IoT initialisation may fail, at most          *)
(* FailBound times in a run.                                               *)
(* The name length and the tcp_listening_port of a device are left out;    *)
(* what a session does besides taking a node is in SessionPool.            *)
(***************************************************************************)
EXTENDS IniFile, RoundRobin

CONSTANTS
  Files,       \* contents hs_net_dev.ini may have: sequences of lines
  MaxDev,      \* MAX_HS_DEV_NUM
  NodeNum,     \* MAX_SESS_NODE_NUM
  FailBound,   \* allocations and system calls that fail
  HeapDev      \* the uninitialised dev_id of a session: "own" or "invalid"

ASSUME StartAssumption == MaxDev \in Nat /\ NodeNum \in Nat

VARIABLES
  pc, fails,
  file, line, section, errs, lost,   \* iniparser_load; lost: lines dropped for want of memory
  ini,         \* the dictionary, or NULL
  cnt,         \* the loop of engine_init_hs_net_dev
  hs_net_dev,  \* the devices of the set
  eng,         \* the engine's fields
  heap,        \* live blocks other than the nodes
  nodes,       \* live session nodes
  fds, netns,  \* open descriptors; netns: the devices with an open namespace
  misuse,      \* a freed block is freed again or read
  last_pos, result

reading == <<file, line, section, errs, lost, ini>>
selector == <<last_pos, result>>
open == <<fds, netns>>
memory == <<heap, nodes, misuse>>
vars == <<pc, fails, reading, cnt, hs_net_dev, eng, memory, open, selector>>

NULL == [size |-> 0]
ERROR == -1
NONE == -2
Dev == 0 .. MaxDev - 1
Absent == <<Line("absent", "", "")>>

NoDevice == [name |-> "", dev_id |-> 0, active |-> FALSE, free |-> {}, used |-> {}, stale |-> {}]
NoEngine == [dev_set |-> FALSE, dev_num |-> 0, active_mask |-> {}, sess_pool |-> FALSE,
             mem_pool |-> FALSE, epfd |-> "fd0", queues |-> FALSE]

Init ==
  /\ pc = "set" /\ fails = 0
  /\ file \in Files /\ line = 1 /\ section = "" /\ errs = 0 /\ lost = {} /\ ini = NULL
  /\ cnt = 0 /\ hs_net_dev = [d \in Dev |-> NoDevice] /\ eng = NoEngine
  /\ heap = {} /\ nodes = {} /\ fds = {"fd0"} /\ netns = {} /\ misuse = FALSE
  /\ last_pos = -1 /\ result = NONE

Fails == fails < FailBound /\ fails' = fails + 1
Works == UNCHANGED fails

Free(blocks, ns) ==
  /\ heap' = heap \ blocks /\ nodes' = nodes \ ns
  /\ misuse' = (misuse \/ ~(blocks \subseteq heap) \/ ~(ns \subseteq nodes))
-----------------------------------------------------------------------------
\* engine_init_hs_net_dev: the device set
MallocSet ==
  /\ pc = "set"
  /\ \/ Works /\ heap' = heap \cup {"set"} /\ pc' = "open"
     \/ Fails /\ UNCHANGED heap /\ pc' = "hs_net_error"
  /\ UNCHANGED <<reading, cnt, hs_net_dev, eng, open, nodes, misuse, selector>>

\* iniparser_load: fopen, dictionary_new.  Without a dictionary there are no
\* devices and no error.
OpenIni ==
  /\ pc = "open"
  /\ \/ /\ file # Absent /\ Works
        /\ ini' = DictNew /\ heap' = heap \cup {"ini"} /\ pc' = "lines"
     \/ /\ IF file = Absent THEN Works ELSE Fails
        /\ UNCHANGED <<ini, heap>> /\ pc' = "assign"
  /\ UNCHANGED <<file, line, section, errs, lost, cnt, hs_net_dev, eng, open, nodes, misuse, selector>>

\* The allocations of dictionary_set that can fail, of a line with key k
Failures(k, isvalue) ==
  {"none"} \cup (IF fails = FailBound THEN {} ELSE
     (IF isvalue THEN {"val"} ELSE {})
     \cup (IF Holding(ini, k) = {} THEN {"key"} ELSE {})
     \cup (IF GrowNeeded(ini, k) THEN {"grow"} ELSE {}))

\* A section or value line: dictionary_set, and the break when it fails
StoreLine(k, v, isvalue) ==
  \E fail \in Failures(k, isvalue) :
    /\ fails' = IF fail = "none" THEN fails ELSE fails + 1
    /\ ini' = DictSet(ini, k, v, fail)
    /\ line' = IF fail = "grow" THEN Len(file) + 1 ELSE line + 1
    /\ lost' = CASE fail = "grow" -> lost \cup (line .. Len(file))
                 [] fail = "key" -> lost \cup {line}
                 [] OTHER -> lost

SectionLine ==
  /\ pc = "lines" /\ line <= Len(file) /\ file[line].type = "section"
  /\ section' = file[line].a
  /\ StoreLine(<<file[line].a, "">>, NoVal, FALSE)
  /\ UNCHANGED <<pc, file, errs, cnt, hs_net_dev, eng, memory, open, selector>>

ValueLine ==
  /\ pc = "lines" /\ line <= Len(file) /\ file[line].type = "value"
  /\ StoreLine(<<section, file[line].a>>, file[line].b, TRUE)
  /\ UNCHANGED <<pc, file, section, errs, cnt, hs_net_dev, eng, memory, open, selector>>

\* A comment, an empty line, or a syntax error
OtherLine ==
  /\ pc = "lines" /\ line <= Len(file) /\ file[line].type \in {"comment", "error"}
  /\ errs' = IF file[line].type = "error" THEN errs + 1 ELSE errs
  /\ line' = line + 1
  /\ UNCHANGED <<pc, fails, file, section, lost, ini, cnt, hs_net_dev, eng, memory, open, selector>>

\* The end of iniparser_load: a line that is too long, or the end of the file
LoadFails ==
  /\ pc = "lines"
  /\ IF line <= Len(file) THEN file[line].type = "long" ELSE errs > 0
  /\ ini' = NULL /\ Free({"ini"}, {}) /\ pc' = "assign"
  /\ UNCHANGED <<fails, file, line, section, errs, lost, cnt, hs_net_dev, eng, open, selector>>

\* iniparser_getnsec and its checks
LoadDone ==
  /\ pc = "lines" /\ line > Len(file) /\ errs = 0
  /\ IF GetNSec(ini) \in 1 .. MaxDev
     THEN eng' = [eng EXCEPT !.active_mask = {}] /\ pc' = "device"
     ELSE UNCHANGED eng /\ pc' = "hs_net_error"
  /\ UNCHANGED <<fails, reading, cnt, hs_net_dev, memory, open, selector>>
-----------------------------------------------------------------------------
\* The items of a device up to dev_status, in the order they are checked
Items == <<"ip_addr", "dev_id", "dev_type", "dev_status">>

Valid(s, item) ==
  IF item = "ip_addr" THEN GetString(ini, <<s, item>>) = "ip"
  ELSE LET v == GetInt(ini, <<s, item>>)
       IN  /\ ~GetIntCrashes(ini, <<s, item>>)
           /\ CASE item = "dev_id" -> v # -1
                [] item = "dev_type" -> v \in 0 .. 4
                [] item = "dev_status" -> v \in {0, 1}

FirstBad(s) ==
  LET bad == {i \in DOMAIN Items : ~Valid(s, Items[i])}
  IN  IF bad = {} THEN 0 ELSE CHOOSE i \in bad : \A j \in bad : i <= j

CheckCrashes(s) ==
  FirstBad(s) > 1 /\ GetIntCrashes(ini, <<s, Items[FirstBad(s)]>>)

\* Mutant: the bit is set for every device.
ActiveBitAlways(active) == {cnt}

\* eng->active_mask |= 1u << cnt
ActiveBit(active) == IF active THEN {cnt} ELSE {}

\* One turn of the device loop up to the namespace: the bit of active_mask is
\* set before the namespace is looked at.
ReadDevice ==
  /\ pc = "device" /\ cnt < GetNSec(ini)
  /\ LET s == GetSecName(ini, cnt)
         active == GetInt(ini, <<s, "dev_status">>) = 1
     IN  IF FirstBad(s) # 0
         THEN /\ pc' = IF CheckCrashes(s) THEN "crashed" ELSE "hs_net_error"
              /\ UNCHANGED <<hs_net_dev, eng>>
         ELSE /\ eng' = [eng EXCEPT !.active_mask = @ \cup ActiveBit(active)]
              /\ hs_net_dev' = [hs_net_dev EXCEPT ![cnt] =
                   [@ EXCEPT !.name = s, !.dev_id = GetInt(ini, <<s, "dev_id">>),
                             !.active = active]]
              /\ pc' = IF GetString(ini, <<s, "ns_name">>) = NoVal
                       THEN "hs_net_error" ELSE "netns"
  /\ UNCHANGED <<fails, reading, cnt, memory, open, selector>>

\* open_named_netns
OpenNetns ==
  /\ pc = "netns"
  /\ \/ /\ Works
        /\ netns' = netns \cup {cnt} /\ pc' = "nodes"
     \/ Fails /\ UNCHANGED netns /\ pc' = "hs_net_error"
  /\ UNCHANGED <<reading, cnt, hs_net_dev, eng, memory, fds, selector>>

\* A failed malloc of a node frees the nodes of this device.
MallocNode ==
  /\ pc = "nodes"
  /\ LET free == hs_net_dev[cnt].free
         node == <<cnt, Cardinality(free)>>
     IN  \/ /\ Works /\ Cardinality(free) < NodeNum
            /\ nodes' = nodes \cup {node}
            /\ hs_net_dev' = [hs_net_dev EXCEPT ![cnt].free = @ \cup {node}]
            /\ UNCHANGED <<cnt, heap, misuse, pc>>
         \/ /\ Fails /\ Cardinality(free) < NodeNum
            /\ Free({}, free)
            /\ hs_net_dev' = [hs_net_dev EXCEPT ![cnt].free = {}]
            /\ UNCHANGED cnt /\ pc' = "hs_net_error"
         \/ /\ Works /\ Cardinality(free) = NodeNum
            /\ cnt' = cnt + 1 /\ pc' = "device"
            /\ UNCHANGED <<memory, hs_net_dev>>
  /\ UNCHANGED <<reading, eng, open, selector>>

IniBlock == IF ini = NULL THEN {} ELSE {"ini"}

\* After the last device, or without a dictionary: the engine owns the set.
AssignSet ==
  /\ pc = "assign" \/ (pc = "device" /\ cnt = GetNSec(ini))
  /\ eng' = [eng EXCEPT !.dev_set = TRUE, !.dev_num = cnt]
  /\ Free(IniBlock, {}) /\ ini' = NULL
  /\ pc' = "sess_pool"
  /\ UNCHANGED <<fails, file, line, section, errs, lost, cnt, hs_net_dev, open, selector>>

\* hs_net_error: the nodes of the devices before cnt, the set, the dictionary
HsNetError ==
  /\ pc = "hs_net_error"
  /\ Free(IniBlock \cup ({"set"} \cap heap), UNION {hs_net_dev[d].free : d \in 0 .. cnt - 1})
  /\ hs_net_dev' = [d \in Dev |-> NoDevice] /\ ini' = NULL
  /\ pc' = "run"
  /\ UNCHANGED <<fails, file, line, section, errs, lost, cnt, eng, open, selector>>
-----------------------------------------------------------------------------
\* engine_init after the devices; an error ends it and main goes on.
InitSessPool ==
  /\ pc = "sess_pool"
  /\ \/ /\ Works /\ heap' = heap \cup {"sess_pool"}
        /\ eng' = [eng EXCEPT !.sess_pool = TRUE] /\ pc' = "mem_pool"
     \/ Fails /\ UNCHANGED <<heap, eng>> /\ pc' = "run"
  /\ UNCHANGED <<reading, cnt, hs_net_dev, open, nodes, misuse, selector>>

InitMemPool ==
  /\ pc = "mem_pool"
  /\ \/ /\ Works /\ heap' = heap \cup {"mem_pool"}
        /\ eng' = [eng EXCEPT !.mem_pool = TRUE] /\ pc' = "mem_pool_lock"
     \/ Fails /\ UNCHANGED <<heap, eng>> /\ pc' = "run"
  /\ UNCHANGED <<reading, cnt, hs_net_dev, open, nodes, misuse, selector>>

InitMemPoolLock ==
  /\ pc = "mem_pool_lock"
  /\ \/ Works /\ heap' = heap \cup {"mem_pool_lock"} /\ pc' = "poller"
     \/ Fails /\ UNCHANGED heap /\ pc' = "run"
  /\ UNCHANGED <<reading, cnt, hs_net_dev, eng, open, nodes, misuse, selector>>

InitPoller ==
  /\ pc = "poller"
  /\ \/ /\ Works /\ fds' = fds \cup {"epoll"}
        /\ eng' = [eng EXCEPT !.epfd = "epoll"] /\ pc' = "queues"
     \/ /\ Fails /\ UNCHANGED fds
        /\ eng' = [eng EXCEPT !.epfd = "-1"] /\ pc' = "run"
  /\ UNCHANGED <<reading, cnt, hs_net_dev, memory, netns, selector>>

InitHyperampQueue ==
  /\ pc = "queues"
  /\ \/ Works /\ eng' = [eng EXCEPT !.queues = TRUE] /\ pc' = "iot"
     \/ Fails /\ UNCHANGED eng /\ pc' = "run"
  /\ UNCHANGED <<reading, cnt, hs_net_dev, memory, open, selector>>

InitIot ==
  /\ pc = "iot" /\ (Works \/ Fails)
  /\ pc' = "run"
  /\ UNCHANGED <<reading, cnt, hs_net_dev, eng, memory, open, selector>>

\* Mutant: the loop is entered without looking at the queues and the pool.
RunUnchecked ==
  /\ pc = "run"
  /\ pc' = "loop"
  /\ UNCHANGED <<fails, reading, cnt, hs_net_dev, eng, memory, open, selector>>

\* The checks of engine_run_hyperamp before its loop
Run ==
  /\ pc = "run"
  /\ pc' = IF eng.queues /\ eng.sess_pool THEN "loop" ELSE "destory"
  /\ UNCHANGED <<fails, reading, cnt, hs_net_dev, eng, memory, open, selector>>
-----------------------------------------------------------------------------
\* A node of a device goes to a session; the session gives it back, or is
\* freed without giving it back.
TakeNode(dev, node) == [dev EXCEPT !.free = @ \ {node}, !.used = @ \cup {node}]
GiveNode(dev, node) == [dev EXCEPT !.used = @ \ {node}, !.free = @ \cup {node}]
StrandNode(dev, node) == [dev EXCEPT !.stale = @ \cup {node}]

(***************************************************************************)
(* A create command that leaves the choice to the engine:                  *)
(* choose_hs_net_dev, the assertions of GET_NS_ID on the dev_id it gives,  *)
(* and a node of that device.                                              *)
(***************************************************************************)
Choose ==
  LET w == RoundRobinWalk(eng.dev_num, eng.active_mask, last_pos)
      id == hs_net_dev[w.pos].dev_id
  IN  /\ last_pos' = w.pos
      /\ result' = IF w.found /\ id < eng.dev_num THEN id ELSE ERROR

CreateSess ==
  /\ pc = "loop"
  /\ Choose
  /\ IF result' = ERROR
     THEN UNCHANGED <<pc, hs_net_dev>>
     ELSE IF ~hs_net_dev[result'].active
     THEN pc' = "aborted" /\ UNCHANGED hs_net_dev
     ELSE /\ UNCHANGED pc
          /\ LET free == hs_net_dev[result'].free
                 node == CHOOSE n \in free : TRUE
             IN  hs_net_dev' = IF free = {} THEN hs_net_dev
                               ELSE [hs_net_dev EXCEPT ![result'] = TakeNode(@, node)]
  /\ UNCHANGED <<fails, reading, cnt, eng, memory, open>>

\* high_speed_delete_sess: with an invalid dev_id the node stays in its queue
\* and keeps the pointer to the freed session.
DeleteSess(d, node) ==
  /\ pc = "loop" /\ node \in hs_net_dev[d].used \ hs_net_dev[d].stale
  /\ \E dev \in HeapDev :
       hs_net_dev' = [hs_net_dev EXCEPT ![d] =
         IF dev = "own" THEN GiveNode(@, node) ELSE StrandNode(@, node)]
  /\ UNCHANGED <<pc, fails, reading, cnt, eng, memory, open, selector>>

\* The RX queue reports an error and engine_run_hyperamp returns.
LeaveLoop ==
  /\ pc = "loop" /\ pc' = "destory"
  /\ UNCHANGED <<fails, reading, cnt, hs_net_dev, eng, memory, open, selector>>

(***************************************************************************)
(* engine_destory.  delete_sess is called with the link flag cleared, so   *)
(* it does not put the node back in the free queue before the node is      *)
(* freed.  The sessions are read through their nodes.                      *)
(***************************************************************************)
Devices == 0 .. eng.dev_num - 1

\* Mutant: the used queues are not walked at shutdown.
UsedForgotten == {}

Used == UNION {hs_net_dev[d].used : d \in Devices}
Stale == UNION {hs_net_dev[d].stale : d \in Devices}

\* Mutant: delete_sess puts the node back in the free queue at shutdown.
FreeQueueRecycled == UNION {hs_net_dev[d].free \cup hs_net_dev[d].used : d \in Devices}

FreeQueue == UNION {hs_net_dev[d].free : d \in Devices}

Destory ==
  /\ pc = "destory"
  /\ IF eng.dev_set /\ eng.sess_pool
     THEN /\ nodes' = nodes \ (Used \cup FreeQueue)
          /\ misuse' = (misuse \/ Stale # {} \/ Used \cap FreeQueue # {})
          /\ fds' = fds \ {eng.epfd}
          /\ hs_net_dev' = [d \in Dev |-> NoDevice]
     ELSE UNCHANGED <<nodes, misuse, fds, hs_net_dev>>
  /\ pc' = "done" /\ eng' = NoEngine
  /\ UNCHANGED <<fails, reading, cnt, heap, netns, selector>>

Next ==
  \/ MallocSet \/ OpenIni \/ SectionLine \/ ValueLine \/ OtherLine \/ LoadFails \/ LoadDone
  \/ ReadDevice \/ OpenNetns \/ MallocNode \/ AssignSet \/ HsNetError
  \/ InitSessPool \/ InitMemPool \/ InitMemPoolLock \/ InitPoller \/ InitHyperampQueue
  \/ InitIot \/ Run
  \/ CreateSess \/ (\E d \in Dev : \E node \in hs_net_dev[d].used : DeleteSess(d, node))
  \/ LeaveLoop \/ Destory

\* Create commands keep arriving while the engine is in its loop.
Spec == Init /\ [][Next]_vars /\ WF_vars(CreateSess)
-----------------------------------------------------------------------------
Node == Dev \X (0 .. NodeNum - 1)

TypeOK ==
  /\ line \in 1 .. Len(file) + 1 /\ errs \in 0 .. Len(file) /\ fails \in 0 .. FailBound
  /\ lost \subseteq 1 .. Len(file)
  /\ cnt \in 0 .. MaxDev
  /\ heap \subseteq {"set", "ini", "sess_pool", "mem_pool", "mem_pool_lock"}
  /\ nodes \subseteq Node /\ fds \subseteq {"fd0", "epoll"} /\ netns \subseteq Dev
  /\ eng.active_mask \subseteq Dev /\ eng.dev_num \in 0 .. MaxDev
  /\ last_pos \in Dev \cup {-1} /\ result \in Dev \cup {NONE, ERROR}

(***************************************************************************)
(* The devices the engine runs with are those hs_net_dev.ini describes,    *)
(* however the dictionary grew and collided on the way: one per section,   *)
(* in the order the sections first appear, each with the last value given  *)
(* for an item.  A failed allocation of the reader can only make it ignore *)
(* lines (engine_init_hs_net_dev, iniparser_load, dictionary_set).         *)
(***************************************************************************)
DevicesAsConfigured ==
  eng.dev_set /\ eng.dev_num > 0 =>
    LET lines == DOMAIN file \ lost
        secs == NewSections(file, lines)
    IN  /\ eng.dev_num = Cardinality(secs)
        /\ \A i \in secs :
             LET dev == hs_net_dev[Cardinality({j \in secs : j < i})]
                 id == Setting(file, lines, file[i].a, "dev_id")
                 status == Setting(file, lines, file[i].a, "dev_status")
             IN  /\ dev.name = file[i].a
                 /\ id # NoVal /\ dev.dev_id = Strtol(id)
                 /\ status # NoVal /\ dev.active = (Strtol(status) = 1)

(***************************************************************************)
(* Whatever fails in engine_init_hs_net_dev, and wherever sessions have    *)
(* moved the nodes, a live node is in the queue of exactly one device of a *)
(* live set: nothing leaks, nothing is freed twice, no freed session is    *)
(* read at the end.                                                        *)
(***************************************************************************)
NodesOwned ==
  /\ ~misuse
  /\ pc # "done" =>
       nodes = UNION {hs_net_dev[d].free \cup hs_net_dev[d].used : d \in Dev}
  /\ \A d \in Dev : hs_net_dev[d].free \cap hs_net_dev[d].used = {}

(***************************************************************************)
(* engine_init returns nothing, so main runs the engine even after an      *)
(* error.  The tests at the head of engine_run_hyperamp are enough: the    *)
(* loop is entered only with every block and descriptor it uses, the mask  *)
(* agrees with the devices, and each device has its namespace and its      *)
(* nodes.                                                                  *)
(***************************************************************************)
LoopReady ==
  pc = "loop" =>
    /\ {"set", "sess_pool", "mem_pool", "mem_pool_lock"} \subseteq heap
    /\ eng.epfd \in fds \ {"fd0"}
    /\ eng.active_mask = {d \in Devices : hs_net_dev[d].active}
    /\ \A d \in Devices :
         /\ d \in netns
         /\ Cardinality(hs_net_dev[d].free \cup hs_net_dev[d].used) = NodeNum

(***************************************************************************)
(* engine_destory after a loop that ran: every node is freed and the epoll *)
(* descriptor is closed.                                                   *)
(***************************************************************************)
ShutdownReleases ==
  pc = "done" /\ "mem_pool_lock" \in heap => nodes = {} /\ "epoll" \notin fds

(***************************************************************************)
(* choose_dev_round_robin shares the load: while the loop runs with every  *)
(* device active and every dev_id in bounds, each position is chosen again *)
(* and again.                                                              *)
(***************************************************************************)
AllUsable ==
  \A d \in Devices : hs_net_dev[d].active /\ hs_net_dev[d].dev_id < eng.dev_num

EveryDeviceServed ==
  \A p \in Dev : <>[](pc = "loop" /\ AllUsable /\ p < eng.dev_num)
                    => []<>(last_pos = p /\ result = hs_net_dev[p].dev_id)

(***************************************************************************)
(* The assertion of GET_NS_ID, "device is not active", dev.h:126: a device *)
(* the engine chose itself passes it.                                      *)
(***************************************************************************)
ChosenDeviceActive == pc # "aborted"

(***************************************************************************)
(* engine.c:276: choose_dev_round_robin fails "because no active           *)
(* high-speed network device is found": with usable dev_ids it returns an  *)
(* error only when no device is active.                                    *)
(***************************************************************************)
FailsOnlyWithoutActive ==
  pc = "loop" /\ result = ERROR /\ (\A d \in Devices : hs_net_dev[d].dev_id < eng.dev_num)
    => eng.active_mask = {}

(***************************************************************************)
(* engine_destory_hs_net_dev closes "the epoll instance (epfd) used for    *)
(* I/O polling" (engine.c:3501) and no other descriptor.                   *)
(***************************************************************************)
ClosesOnlyItsOwn == "fd0" \in fds
=============================================================================
