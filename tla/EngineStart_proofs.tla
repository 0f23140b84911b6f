------------------------- MODULE EngineStart_proofs -------------------------
(***************************************************************************)
(* Proofs about the life of the backend process for any configuration      *)
(* file, any number of devices and nodes, and any failures: the nodes have *)
(* one owner, the loop starts with all it needs, the end gives it back.    *)
(***************************************************************************)
EXTENDS EngineStart, FiniteSetTheorems, WellFoundedInduction, TLAPS

\* Where the engine is: reading the file, in the device loop, or past it.
Reading == {"set", "open", "lines", "assign"}
Looping == {"device", "netns", "nodes"}
Owning == {"sess_pool", "mem_pool", "mem_pool_lock", "poller", "queues", "iot", "loop", "aborted"}

\* A device has its fields, and the set its devices.
DeviceWith(n, i, a, f, u, t) ==
  [name : {n}, dev_id : {i}, active : {a}, free : {f}, used : {u}, stale : {t}]
Fields(r) == r \in DeviceWith(r.name, r.dev_id, r.active, r.free, r.used, r.stale)
IsSet(f) == f = [d \in Dev |-> f[d]] /\ \A d \in Dev : Fields(f[d])

Shapes ==
  /\ cnt \in 0 .. MaxDev
  /\ IsSet(hs_net_dev)
  /\ eng \in [dev_set : BOOLEAN, dev_num : 0 .. MaxDev, active_mask : SUBSET Dev,
              sess_pool : BOOLEAN, mem_pool : BOOLEAN, epfd : {"fd0", "-1", "epoll"}, queues : BOOLEAN]

\* The loop over the devices stays within the set.
Counted ==
  /\ pc \in Reading => cnt = 0
  /\ pc \in Looping => GetNSec(ini) \in 1 .. MaxDev
  /\ pc \in {"netns", "nodes"} => cnt < GetNSec(ini)

\* What is allocated and open, from where the engine is.
Blocks ==
  /\ pc \in {"open", "lines", "assign"} \cup Looping => "set" \in heap
  /\ pc = "lines" \/ ini # NULL => "ini" \in heap
  /\ eng.dev_set => "set" \in heap /\ eng.dev_num = cnt /\ pc \in Owning \cup {"run", "destory"}
  /\ eng.sess_pool => eng.dev_set /\ "sess_pool" \in heap
  /\ pc \in Owning => eng.dev_set
  /\ pc \in Owning \ {"sess_pool"} => eng.sess_pool
  /\ pc \in Owning \ {"sess_pool", "mem_pool"} => "mem_pool" \in heap
  /\ pc \in {"poller", "queues", "iot", "loop"} => "mem_pool_lock" \in heap
  /\ pc \in {"queues", "iot", "loop"} \/ eng.queues =>
       /\ {"mem_pool", "mem_pool_lock"} \subseteq heap
       /\ eng.epfd = "epoll" /\ "epoll" \in fds
  /\ pc # "done" =>
       /\ "mem_pool_lock" \in heap => eng.sess_pool
       /\ "epoll" \in fds =>
            eng.epfd = "epoll" /\ pc \in {"queues", "iot", "run", "loop", "aborted", "destory"}
  /\ pc = "done" /\ "mem_pool_lock" \in heap => nodes = {} /\ "epoll" \notin fds

Block(d) == {d} \X (0 .. NodeNum - 1)
Owned(d) == hs_net_dev[d].free \cup hs_net_dev[d].used
Bare == pc \in {"run", "destory"} /\ ~eng.dev_set

\* Which nodes each device has.
Filled ==
  pc # "done" =>
    \A d \in Dev :
      /\ Bare \/ d > cnt \/ (d = cnt /\ pc # "nodes") => Owned(d) = {}
      /\ ~Bare /\ d < cnt => Owned(d) = Block(d)
      /\ d = cnt /\ pc = "nodes" => \E k \in 0 .. NodeNum : Owned(d) = {d} \X (0 .. k - 1)

Queues ==
  /\ pc # "done" => nodes = UNION {Owned(d) : d \in Dev}
  /\ \A d \in Dev : /\ hs_net_dev[d].free \cap hs_net_dev[d].used = {}
                    /\ pc \notin {"loop", "destory", "aborted", "done"} => hs_net_dev[d].used = {}

\* The mask agrees with the devices, which have a namespace each.
Masked ==
  pc \in Reading \cup Looping \/ eng.dev_set =>
    /\ eng.active_mask = {d \in Dev : hs_net_dev[d].active}
    /\ \A d \in Dev : hs_net_dev[d].active => d < cnt \/ (d = cnt /\ pc \in {"netns", "nodes"})
    /\ \A d \in Dev : d < cnt \/ (d = cnt /\ pc = "nodes") => d \in netns

StartInv == Shapes /\ Counted /\ Blocks /\ Filled /\ Queues /\ Masked
-----------------------------------------------------------------------------
(* A device of the set is replaced.                                        *)
LEMMA DeviceReplaced ==
  ASSUME IsSet(hs_net_dev), NEW k \in Dev, NEW r, Fields(r),
         hs_net_dev' = [hs_net_dev EXCEPT ![k] = r]
  PROVE  /\ IsSet(hs_net_dev') /\ hs_net_dev'[k] = r
         /\ \A d \in Dev : d # k => hs_net_dev'[d] = hs_net_dev[d]
<1>1. hs_net_dev'[k] = r /\ \A d \in Dev : d # k => hs_net_dev'[d] = hs_net_dev[d]
  BY DEF IsSet
<1>2. hs_net_dev' = [d \in Dev |-> hs_net_dev'[d]]
  BY DEF IsSet
<1>3. ASSUME NEW d \in Dev
      PROVE  Fields(hs_net_dev'[d])
  <2>1. CASE d = k
    BY <1>1, <2>1, Zenon
  <2>2. CASE d # k
    <3>1. hs_net_dev'[d] = hs_net_dev[d] /\ Fields(hs_net_dev[d])
      BY <1>1, <2>2, Zenon DEF IsSet
    <3> QED
      BY <3>1, Zenon
  <2> QED
    BY <2>1, <2>2, Zenon
<1> QED
  BY <1>1, <1>2, <1>3, Zenon DEF IsSet

(* What reading and allocating write into a device.                        *)
LEMMA DeviceWrites ==
  ASSUME NEW r, Fields(r), NEW n, NEW i, NEW a, NEW f
  PROVE  /\ [r EXCEPT !.name = n, !.dev_id = i, !.active = a]
              \in DeviceWith(n, i, a, r.free, r.used, r.stale)
         /\ [r EXCEPT !.free = f] \in DeviceWith(r.name, r.dev_id, r.active, f, r.used, r.stale)
BY Zenon DEF Fields, DeviceWith

(* And what is read from it.                                               *)
LEMMA DeviceFields ==
  ASSUME NEW n, NEW i, NEW a, NEW f, NEW u, NEW t, NEW r, r \in DeviceWith(n, i, a, f, u, t)
  PROVE  /\ Fields(r)
         /\ r.name = n /\ r.dev_id = i /\ r.active = a /\ r.free = f /\ r.used = u /\ r.stale = t
BY DEF DeviceWith, Fields
-----------------------------------------------------------------------------
(* The device set is allocated, or the error exit is taken.                *)
LEMMA MallocSetStep ==
  ASSUME StartInv, MallocSet
  PROVE  StartInv'
<1> USE DEF StartInv, MallocSet, Works, Fails, reading, open, memory, selector, Reading, Looping, Owning
<1>1. Shapes'
  BY StartAssumption DEF Shapes, IsSet
<1>2. Counted'
  BY StartAssumption DEF Shapes, Counted
<1>3. Blocks'
  BY StartAssumption DEF Blocks, Counted
<1>4. Filled'
  BY StartAssumption DEF Filled, Counted, Blocks, Bare, Owned, Block
<1>5. Queues'
  BY StartAssumption DEF Queues, Owned
<1>6. Masked'
  BY StartAssumption DEF Masked, Counted, Blocks, Queues
<1> QED
  BY <1>1, <1>2, <1>3, <1>4, <1>5, <1>6, Zenon DEF StartInv

(* The file is opened with an empty dictionary, or there is none.          *)
LEMMA OpenIniStep ==
  ASSUME StartInv, OpenIni
  PROVE  StartInv'
<1> USE DEF StartInv, OpenIni, Works, Fails, reading, open, memory, selector, Reading, Looping, Owning
<1>1. Shapes'
  BY StartAssumption DEF Shapes, IsSet
<1>2. Counted'
  BY StartAssumption DEF Shapes, Counted
<1>3. Blocks'
  BY StartAssumption DEF Blocks, Counted
<1>4. Filled'
  BY StartAssumption DEF Filled, Counted, Blocks, Bare, Owned, Block
<1>5. Queues'
  BY StartAssumption DEF Queues, Owned
<1>6. Masked'
  BY StartAssumption DEF Masked, Counted, Blocks, Queues
<1> QED
  BY <1>1, <1>2, <1>3, <1>4, <1>5, <1>6, Zenon DEF StartInv

(* Reading a section line touches neither devices nor blocks.              *)
LEMMA SectionLineStep ==
  ASSUME StartInv, SectionLine
  PROVE  StartInv'
<1> USE DEF StartInv, SectionLine, Works, Fails, reading, open, memory, selector, StoreLine, Reading, Looping, Owning
<1>1. Shapes'
  BY StartAssumption, Zenon DEF Shapes, IsSet
<1>2. Counted'
  BY StartAssumption, Zenon DEF Shapes, Counted
<1>3. Blocks'
  BY StartAssumption, Zenon DEF Blocks, Counted
<1>4. Filled'
  BY StartAssumption, Zenon DEF Filled, Counted, Blocks, Bare, Owned, Block
<1>5. Queues'
  BY StartAssumption, Zenon DEF Queues, Owned
<1>6. Masked'
  BY StartAssumption, Zenon DEF Masked, Counted, Blocks, Queues
<1> QED
  BY <1>1, <1>2, <1>3, <1>4, <1>5, <1>6, Zenon DEF StartInv

(* Nor does reading a value line.                                          *)
LEMMA ValueLineStep ==
  ASSUME StartInv, ValueLine
  PROVE  StartInv'
<1> USE DEF StartInv, ValueLine, Works, Fails, reading, open, memory, selector, StoreLine, Reading, Looping, Owning
<1>1. Shapes'
  BY StartAssumption DEF Shapes, IsSet
<1>2. Counted'
  BY StartAssumption DEF Shapes, Counted
<1>3. Blocks'
  BY StartAssumption DEF Blocks, Counted
<1>4. Filled'
  BY StartAssumption DEF Filled, Counted, Blocks, Bare, Owned, Block
<1>5. Queues'
  BY StartAssumption DEF Queues, Owned
<1>6. Masked'
  BY StartAssumption DEF Masked, Counted, Blocks, Queues
<1> QED
  BY <1>1, <1>2, <1>3, <1>4, <1>5, <1>6, Zenon DEF StartInv

(* Nor does reading any other line.                                        *)
LEMMA OtherLineStep ==
  ASSUME StartInv, OtherLine
  PROVE  StartInv'
<1> USE DEF StartInv, OtherLine, Works, Fails, reading, open, memory, selector, Reading, Looping, Owning
<1>1. Shapes'
  BY StartAssumption DEF Shapes, IsSet
<1>2. Counted'
  BY StartAssumption DEF Shapes, Counted
<1>3. Blocks'
  BY StartAssumption DEF Blocks, Counted
<1>4. Filled'
  BY StartAssumption DEF Filled, Counted, Blocks, Bare, Owned, Block
<1>5. Queues'
  BY StartAssumption DEF Queues, Owned
<1>6. Masked'
  BY StartAssumption DEF Masked, Counted, Blocks, Queues
<1> QED
  BY <1>1, <1>2, <1>3, <1>4, <1>5, <1>6, Zenon DEF StartInv

(* A file that cannot be read leaves no dictionary.                        *)
LEMMA LoadFailsStep ==
  ASSUME StartInv, LoadFails
  PROVE  StartInv'
<1> USE DEF StartInv, LoadFails, Works, Fails, reading, open, memory, selector, Free, Reading, Looping, Owning
<1>1. Shapes'
  BY StartAssumption DEF Shapes, IsSet
<1>2. Counted'
  BY StartAssumption DEF Shapes, Counted
<1>3. Blocks'
  BY StartAssumption DEF Blocks, Counted
<1>4. Filled'
  BY StartAssumption DEF Filled, Counted, Blocks, Bare, Owned, Block
<1>5. Queues'
  BY StartAssumption DEF Queues, Owned
<1>6. Masked'
  BY StartAssumption DEF Masked, Counted, Blocks, Queues
<1> QED
  BY <1>1, <1>2, <1>3, <1>4, <1>5, <1>6, Zenon DEF StartInv

(* A file that was read gives a number of devices that fits the set.       *)
LEMMA LoadDoneStep ==
  ASSUME StartInv, LoadDone
  PROVE  StartInv'
<1> USE DEF StartInv, LoadDone, Works, Fails, reading, open, memory, selector, Reading, Looping, Owning
<1>0. /\ eng'.dev_set = eng.dev_set /\ eng'.dev_num = eng.dev_num /\ eng'.sess_pool = eng.sess_pool
      /\ eng'.mem_pool = eng.mem_pool /\ eng'.epfd = eng.epfd /\ eng'.queues = eng.queues
      /\ pc' = "device" => eng'.active_mask = {}
  BY DEF Shapes
<1>1. Shapes'
  BY <1>0, StartAssumption DEF Shapes, IsSet
<1>2. Counted'
  BY <1>0, StartAssumption DEF Shapes, Counted
<1>3. Blocks'
  BY <1>0, StartAssumption DEF Blocks, Counted
<1>4. Filled'
  BY <1>0, StartAssumption DEF Filled, Counted, Blocks, Bare, Owned, Block
<1>5. Queues'
  BY <1>0, StartAssumption DEF Queues, Owned
<1>6. Masked'
  <2>1. \A d \in Dev : ~hs_net_dev[d].active
    BY DEF Masked, Counted, Dev
  <2> QED
    BY <1>0, <2>1 DEF Masked, Counted, Blocks
<1> QED
  BY <1>1, <1>2, <1>3, <1>4, <1>5, <1>6, Zenon DEF StartInv

(* A device gets its namespace.                                            *)
LEMMA OpenNetnsStep ==
  ASSUME StartInv, OpenNetns
  PROVE  StartInv'
<1> USE DEF StartInv, OpenNetns, Works, Fails, reading, open, memory, selector, Reading, Looping, Owning
<1>1. Shapes'
  BY StartAssumption DEF Shapes, IsSet
<1>2. Counted'
  BY StartAssumption DEF Shapes, Counted
<1>3. Blocks'
  BY StartAssumption DEF Blocks, Counted
<1>4. Filled'
  BY StartAssumption DEF Filled, Counted, Blocks, Bare, Owned, Block
<1>5. Queues'
  BY StartAssumption DEF Queues, Owned
<1>6. Masked'
  BY StartAssumption DEF Masked, Counted, Blocks, Queues
<1> QED
  BY <1>1, <1>2, <1>3, <1>4, <1>5, <1>6, Zenon DEF StartInv

(* The engine takes the set when every device of it is complete.           *)
LEMMA AssignSetStep ==
  ASSUME StartInv, AssignSet
  PROVE  StartInv'
<1> USE DEF StartInv, AssignSet, Works, Fails, reading, open, memory, selector, Free, IniBlock, Reading, Looping, Owning
<1>0. /\ eng'.active_mask = eng.active_mask /\ eng'.sess_pool = eng.sess_pool /\ eng'.mem_pool = eng.mem_pool
      /\ eng'.epfd = eng.epfd /\ eng'.queues = eng.queues
      /\ eng'.dev_set = TRUE
      /\ eng'.dev_num = cnt
  BY DEF Shapes
<1>1. Shapes'
  BY <1>0, StartAssumption, Zenon DEF Shapes, IsSet
<1>2. Counted'
  BY <1>0, StartAssumption DEF Shapes, Counted
<1>3. Blocks'
  BY <1>0, StartAssumption DEF Blocks, Counted
<1>4. Filled'
  BY <1>0, StartAssumption DEF Filled, Counted, Blocks, Bare, Owned, Block
<1>5. Queues'
  BY <1>0, StartAssumption DEF Queues, Owned
<1>6. Masked'
  <2>1. CASE pc = "assign"
    <3>1. cnt = 0 /\ \A d \in Dev : ~hs_net_dev[d].active
      BY <2>1 DEF Masked, Counted, Dev
    <3> QED
      BY <1>0, <2>1, <3>1 DEF Masked, Counted, Dev
  <2>2. CASE pc = "device"
    BY <1>0, <2>2 DEF Masked
  <2> QED
    BY <2>1, <2>2
<1> QED
  BY <1>1, <1>2, <1>3, <1>4, <1>5, <1>6, Zenon DEF StartInv

(* The session pool comes after the devices,                               *)
LEMMA InitSessPoolStep ==
  ASSUME StartInv, InitSessPool
  PROVE  StartInv'
<1> USE DEF StartInv, InitSessPool, Works, Fails, reading, open, memory, selector, Reading, Looping, Owning
<1>0. /\ eng'.dev_set = eng.dev_set /\ eng'.dev_num = eng.dev_num /\ eng'.active_mask = eng.active_mask
      /\ eng'.mem_pool = eng.mem_pool /\ eng'.epfd = eng.epfd /\ eng'.queues = eng.queues
      /\ eng'.sess_pool = (pc' = "mem_pool" \/ eng.sess_pool)
  BY Zenon DEF Shapes
<1>1. Shapes'
  BY <1>0, StartAssumption, Zenon DEF Shapes, IsSet
<1>2. Counted'
  BY <1>0, StartAssumption DEF Shapes, Counted
<1>3. Blocks'
  BY <1>0, StartAssumption, Zenon DEF Blocks, Counted
<1>4. Filled'
  BY <1>0, StartAssumption DEF Filled, Counted, Blocks, Bare, Owned, Block
<1>5. Queues'
  BY <1>0, StartAssumption DEF Queues, Owned
<1>6. Masked'
  BY <1>0, StartAssumption DEF Masked, Counted, Blocks, Queues
<1> QED
  BY <1>1, <1>2, <1>3, <1>4, <1>5, <1>6, Zenon DEF StartInv

(* the memory pool after the session pool,                                 *)
LEMMA InitMemPoolStep ==
  ASSUME StartInv, InitMemPool
  PROVE  StartInv'
<1> USE DEF StartInv, InitMemPool, Works, Fails, reading, open, memory, selector, Reading, Looping, Owning
<1>0. /\ eng'.dev_set = eng.dev_set /\ eng'.dev_num = eng.dev_num /\ eng'.active_mask = eng.active_mask
      /\ eng'.sess_pool = eng.sess_pool /\ eng'.epfd = eng.epfd /\ eng'.queues = eng.queues
  BY DEF Shapes
<1>1. Shapes'
  BY <1>0, StartAssumption, Zenon DEF Shapes, IsSet
<1>2. Counted'
  BY <1>0, StartAssumption DEF Shapes, Counted
<1>3. Blocks'
  BY <1>0, StartAssumption DEF Blocks, Counted
<1>4. Filled'
  BY <1>0, StartAssumption DEF Filled, Counted, Blocks, Bare, Owned, Block
<1>5. Queues'
  BY <1>0, StartAssumption DEF Queues, Owned
<1>6. Masked'
  BY <1>0, StartAssumption DEF Masked, Counted, Blocks, Queues
<1> QED
  BY <1>1, <1>2, <1>3, <1>4, <1>5, <1>6, Zenon DEF StartInv

(* its lock after the memory pool,                                         *)
LEMMA InitMemPoolLockStep ==
  ASSUME StartInv, InitMemPoolLock
  PROVE  StartInv'
<1> USE DEF StartInv, InitMemPoolLock, Works, Fails, reading, open, memory, selector, Reading, Looping, Owning
<1>1. Shapes'
  BY StartAssumption DEF Shapes, IsSet
<1>2. Counted'
  BY StartAssumption DEF Shapes, Counted
<1>3. Blocks'
  BY StartAssumption DEF Blocks, Counted
<1>4. Filled'
  BY StartAssumption DEF Filled, Counted, Blocks, Bare, Owned, Block
<1>5. Queues'
  BY StartAssumption DEF Queues, Owned
<1>6. Masked'
  BY StartAssumption DEF Masked, Counted, Blocks, Queues
<1> QED
  BY <1>1, <1>2, <1>3, <1>4, <1>5, <1>6, Zenon DEF StartInv

(* the epoll instance after the lock,                                      *)
LEMMA InitPollerStep ==
  ASSUME StartInv, InitPoller
  PROVE  StartInv'
<1> USE DEF StartInv, InitPoller, Works, Fails, reading, open, memory, selector, Reading, Looping, Owning
<1>0. /\ eng'.dev_set = eng.dev_set /\ eng'.dev_num = eng.dev_num /\ eng'.active_mask = eng.active_mask
      /\ eng'.sess_pool = eng.sess_pool /\ eng'.mem_pool = eng.mem_pool /\ eng'.queues = eng.queues
      /\ eng'.epfd = IF pc' = "queues" THEN "epoll" ELSE "-1"
  BY DEF Shapes
<1>1. Shapes'
  BY <1>0, StartAssumption DEF Shapes, IsSet
<1>2. Counted'
  BY <1>0, StartAssumption DEF Shapes, Counted
<1>3. Blocks'
  BY <1>0, StartAssumption DEF Blocks, Counted
<1>4. Filled'
  BY <1>0, StartAssumption DEF Filled, Counted, Blocks, Bare, Owned, Block
<1>5. Queues'
  BY <1>0, StartAssumption DEF Queues, Owned
<1>6. Masked'
  BY <1>0, StartAssumption DEF Masked, Counted, Blocks, Queues
<1> QED
  BY <1>1, <1>2, <1>3, <1>4, <1>5, <1>6, Zenon DEF StartInv

(* and the queues after the epoll instance.                                *)
LEMMA InitHyperampQueueStep ==
  ASSUME StartInv, InitHyperampQueue
  PROVE  StartInv'
<1> USE DEF StartInv, InitHyperampQueue, Works, Fails, reading, open, memory, selector, Reading, Looping, Owning
<1>0. /\ eng'.dev_set = eng.dev_set /\ eng'.dev_num = eng.dev_num /\ eng'.active_mask = eng.active_mask
      /\ eng'.sess_pool = eng.sess_pool /\ eng'.mem_pool = eng.mem_pool /\ eng'.epfd = eng.epfd
      /\ eng'.queues = (pc' = "iot" \/ eng.queues)
  BY Zenon DEF Shapes
<1>1. Shapes'
  BY <1>0, StartAssumption, Zenon DEF Shapes, IsSet
<1>2. Counted'
  BY <1>0, StartAssumption DEF Shapes, Counted
<1>3. Blocks'
  BY <1>0, StartAssumption DEF Blocks, Counted
<1>4. Filled'
  BY <1>0, StartAssumption DEF Filled, Counted, Blocks, Bare, Owned, Block
<1>5. Queues'
  BY <1>0, StartAssumption DEF Queues, Owned
<1>6. Masked'
  BY <1>0, StartAssumption DEF Masked, Counted, Blocks, Queues
<1> QED
  BY <1>1, <1>2, <1>3, <1>4, <1>5, <1>6, Zenon DEF StartInv

(* The IoT gateway may fail; the engine runs all the same.                 *)
LEMMA InitIotStep ==
  ASSUME StartInv, InitIot
  PROVE  StartInv'
<1> USE DEF StartInv, InitIot, Works, Fails, reading, open, memory, selector, Reading, Looping, Owning
<1>1. Shapes'
  BY StartAssumption DEF Shapes, IsSet
<1>2. Counted'
  BY StartAssumption DEF Shapes, Counted
<1>3. Blocks'
  BY StartAssumption DEF Blocks, Counted
<1>4. Filled'
  BY StartAssumption DEF Filled, Counted, Blocks, Bare, Owned, Block
<1>5. Queues'
  BY StartAssumption DEF Queues, Owned
<1>6. Masked'
  BY StartAssumption DEF Masked, Counted, Blocks, Queues
<1> QED
  BY <1>1, <1>2, <1>3, <1>4, <1>5, <1>6, Zenon DEF StartInv

(* The queues and the session pool stand for all that came before them.    *)
LEMMA RunStep ==
  ASSUME StartInv, Run
  PROVE  StartInv'
<1> USE DEF StartInv, Run, Works, Fails, reading, open, memory, selector, Reading, Looping, Owning
<1>1. Shapes'
  BY StartAssumption DEF Shapes, IsSet
<1>2. Counted'
  BY StartAssumption DEF Shapes, Counted
<1>3. Blocks'
  BY StartAssumption DEF Blocks, Counted
<1>4. Filled'
  BY StartAssumption DEF Filled, Counted, Blocks, Bare, Owned, Block
<1>5. Queues'
  BY StartAssumption DEF Queues, Owned
<1>6. Masked'
  BY StartAssumption DEF Masked, Counted, Blocks, Queues
<1> QED
  BY <1>1, <1>2, <1>3, <1>4, <1>5, <1>6, Zenon DEF StartInv

(* The loop ends with what it began with.                                  *)
LEMMA LeaveLoopStep ==
  ASSUME StartInv, LeaveLoop
  PROVE  StartInv'
<1> USE DEF StartInv, LeaveLoop, Works, Fails, reading, open, memory, selector, Reading, Looping, Owning
<1>1. Shapes'
  BY StartAssumption DEF Shapes, IsSet
<1>2. Counted'
  BY StartAssumption DEF Shapes, Counted
<1>3. Blocks'
  BY StartAssumption DEF Blocks, Counted
<1>4. Filled'
  BY StartAssumption DEF Filled, Counted, Blocks, Bare, Owned, Block
<1>5. Queues'
  BY StartAssumption DEF Queues, Owned
<1>6. Masked'
  BY StartAssumption DEF Masked, Counted, Blocks, Queues
<1> QED
  BY <1>1, <1>2, <1>3, <1>4, <1>5, <1>6, Zenon DEF StartInv

-----------------------------------------------------------------------------
(* A device is read: its nodes are untouched, its bit is set before its    *)
(* namespace is looked at.                                                 *)
LEMMA ReadDeviceStep ==
  ASSUME StartInv, ReadDevice
  PROVE  StartInv'
<1> USE DEF Reading, Looping, Owning
<1>0. /\ Shapes /\ Counted /\ Blocks /\ Filled /\ Queues /\ Masked
      /\ pc = "device" /\ cnt < GetNSec(ini) /\ cnt \in Dev
      /\ UNCHANGED <<fails, reading, cnt, memory, open, selector>>
  BY StartAssumption DEF StartInv, ReadDevice, Shapes, Counted, Dev
<1>1. /\ UNCHANGED <<ini, cnt, heap, nodes, misuse, fds, netns>>
      /\ pc' \in {"crashed", "hs_net_error", "netns"}
  BY <1>0 DEF ReadDevice, reading, memory, open
<1>2. CASE UNCHANGED <<hs_net_dev, eng>> /\ pc' \in {"crashed", "hs_net_error"}
  <2>1. Shapes' /\ Counted' /\ Masked'
    BY <1>0, <1>1, <1>2 DEF Shapes, Counted, Masked, Blocks, IsSet
  <2>2. Blocks' /\ Queues'
    BY <1>0, <1>1, <1>2 DEF Blocks, Queues, Owned
  <2>3. Filled'
    BY <1>0, <1>1, <1>2 DEF Filled, Bare, Owned, Block
  <2> QED
    BY <2>1, <2>2, <2>3, Zenon DEF StartInv
<1>3. CASE \E s, i, a :
        /\ eng' = [eng EXCEPT !.active_mask = @ \cup ActiveBit(a)]
        /\ hs_net_dev' = [hs_net_dev EXCEPT ![cnt] = [@ EXCEPT !.name = s, !.dev_id = i, !.active = a]]
        /\ pc' \in {"hs_net_error", "netns"}
  <2>1. PICK s, i, a :
        /\ eng' = [eng EXCEPT !.active_mask = @ \cup ActiveBit(a)]
        /\ hs_net_dev' = [hs_net_dev EXCEPT ![cnt] = [@ EXCEPT !.name = s, !.dev_id = i, !.active = a]]
        /\ pc' \in {"hs_net_error", "netns"}
    BY <1>3, Zenon
  <2>2. PICK h, r : h = hs_net_dev[cnt] /\ r = [h EXCEPT !.name = s, !.dev_id = i, !.active = a]
    BY Zenon
  <2>3. Fields(h) /\ IsSet(hs_net_dev)
    BY <1>0, <2>2, Zenon DEF Shapes, IsSet
  <2>4. Fields(r) /\ r.active = a /\ r.free = h.free /\ r.used = h.used
    <3>1. r \in DeviceWith(s, i, a, h.free, h.used, h.stale)
      BY <2>2, <2>3, DeviceWrites, Zenon
    <3> QED
      BY <3>1 DEF DeviceWith, Fields
  <2>5. hs_net_dev' = [hs_net_dev EXCEPT ![cnt] = r]
    BY <2>1, <2>2
  <2>6. /\ IsSet(hs_net_dev') /\ hs_net_dev'[cnt] = r
        /\ \A d \in Dev : d # cnt => hs_net_dev'[d] = hs_net_dev[d]
    BY <1>0, <2>3, <2>4, <2>5, DeviceReplaced, Zenon
  <2>7. \A d \in Dev : /\ hs_net_dev'[d].free = hs_net_dev[d].free
                       /\ hs_net_dev'[d].used = hs_net_dev[d].used
                       /\ hs_net_dev'[d].active = IF d = cnt THEN a ELSE hs_net_dev[d].active
    BY <2>2, <2>4, <2>6, Zenon
  <2>8. /\ eng'.dev_set = eng.dev_set /\ eng'.dev_num = eng.dev_num /\ eng'.sess_pool = eng.sess_pool
        /\ eng'.epfd = eng.epfd /\ eng'.queues = eng.queues
        /\ eng'.active_mask = eng.active_mask \cup (IF a THEN {cnt} ELSE {})
    BY <1>0, <2>1 DEF Shapes, ActiveBit
  <2>9. \A d \in Dev : Owned(d)' = Owned(d)
    BY <2>7, Zenon DEF Owned
  <2>10. Shapes' /\ Counted'
    <3>1. eng' \in [dev_set : BOOLEAN, dev_num : 0 .. MaxDev, active_mask : SUBSET Dev,
              sess_pool : BOOLEAN, mem_pool : BOOLEAN, epfd : {"fd0", "-1", "epoll"}, queues : BOOLEAN]
      BY <1>0, <2>1 DEF Shapes, ActiveBit
    <3> QED
      BY <1>0, <1>1, <2>1, <2>6, <3>1 DEF Shapes, Counted
  <2>11. Blocks'
    BY <1>0, <1>1, <2>1, <2>8 DEF Blocks
  <2>12. Filled'
    BY <1>0, <1>1, <2>1, <2>8, <2>9 DEF Filled, Bare, Block
  <2>13. Queues'
    BY <1>0, <1>1, <2>1, <2>7, <2>9 DEF Queues
  <2>14. Masked'
    <3>1. /\ eng.active_mask = {d \in Dev : hs_net_dev[d].active} /\ ~hs_net_dev[cnt].active
          /\ \A d \in Dev : hs_net_dev[d].active => d < cnt
          /\ \A d \in Dev : d < cnt => d \in netns
      BY <1>0 DEF Masked, Dev
    <3>2. eng'.active_mask = {d \in Dev : hs_net_dev'[d].active}
      BY <1>0, <2>7, <2>8, <3>1
    <3>3. \A d \in Dev : hs_net_dev'[d].active => d < cnt \/ d = cnt
      BY <2>7, <3>1, Zenon
    <3>4. ~eng.dev_set
      BY <1>0 DEF Blocks
    <3> QED
      BY <1>1, <2>1, <2>8, <3>1, <3>2, <3>3, <3>4 DEF Masked
  <2> QED
    BY <2>10, <2>11, <2>12, <2>13, <2>14, Zenon DEF StartInv
<1>4. CASE FirstBad(GetSecName(ini, cnt)) # 0
  BY <1>2, <1>4 DEF ReadDevice
<1>5. CASE FirstBad(GetSecName(ini, cnt)) = 0
  <2>1. PICK s : s = GetSecName(ini, cnt)
    BY Zenon
  <2>2. PICK i, a : i = GetInt(ini, <<s, "dev_id">>) /\ a = (GetInt(ini, <<s, "dev_status">>) = 1)
    BY Zenon
  <2>3. /\ eng' = [eng EXCEPT !.active_mask = @ \cup ActiveBit(a)]
        /\ hs_net_dev' = [hs_net_dev EXCEPT ![cnt] = [@ EXCEPT !.name = s, !.dev_id = i, !.active = a]]
        /\ pc' \in {"hs_net_error", "netns"}
    BY <1>5, <2>1, <2>2 DEF ReadDevice
  <2> QED
    BY <1>3, <2>3, Zenon
<1> QED
  BY <1>4, <1>5, Zenon

(* The pairs <<d, 0>> to <<d, k - 1>> are k.                               *)
LEMMA RowSize ==
  ASSUME NEW d, NEW k \in Nat
  PROVE  Cardinality({d} \X (0 .. k - 1)) = k
<1>1. IsFiniteSet({d}) /\ Cardinality({d}) = 1
  BY FS_Singleton, Zenon
<1>2. IsFiniteSet(0 .. k - 1) /\ Cardinality(0 .. k - 1) = k
  BY FS_Interval
<1>3. Cardinality({d} \X (0 .. k - 1)) = 1 * k
  BY <1>1, <1>2, FS_Product
<1> QED
  BY <1>3

(* A node is allocated for the device, its nodes are freed again, or it    *)
(* has them all.                                                           *)
LEMMA MallocNodeStep ==
  ASSUME StartInv, MallocNode
  PROVE  StartInv'
<1> USE DEF Reading, Looping, Owning
<1>0. /\ Shapes /\ Counted /\ Blocks /\ Filled /\ Queues /\ Masked
      /\ pc = "nodes" /\ cnt < GetNSec(ini) /\ cnt \in Dev /\ cnt \in Nat /\ cnt + 1 \in 0 .. MaxDev
      /\ UNCHANGED <<ini, eng, fds, netns>>
      /\ hs_net_dev[cnt].used = {}
  BY StartAssumption DEF StartInv, MallocNode, Shapes, Counted, Dev, Queues, reading, open
<1>1. PICK k \in 0 .. NodeNum : hs_net_dev[cnt].free = {cnt} \X (0 .. k - 1)
  <2>1. Owned(cnt) = hs_net_dev[cnt].free
    BY <1>0 DEF Owned
  <2> QED
    BY <1>0, <2>1 DEF Filled
<1>2. Cardinality(hs_net_dev[cnt].free) = k /\ k \in Nat
  <2>1. k \in Nat
    BY <1>1, StartAssumption
  <2>2. Cardinality({cnt} \X (0 .. k - 1)) = k
    BY <2>1, RowSize, Zenon
  <2> QED
    BY <1>1, <2>1, <2>2, Zenon
<1>3. Fields(hs_net_dev[cnt]) /\ IsSet(hs_net_dev)
  BY <1>0, Zenon DEF Shapes, IsSet
<1>4. \A d \in Dev : /\ d < cnt => Owned(d) = Block(d)
                     /\ d > cnt => Owned(d) = {}
  BY <1>0 DEF Filled, Bare
<1>5. ASSUME NEW fr, hs_net_dev' = [hs_net_dev EXCEPT ![cnt] = [hs_net_dev[cnt] EXCEPT !.free = fr]]
      PROVE  /\ IsSet(hs_net_dev')
             /\ hs_net_dev'[cnt].free = fr /\ hs_net_dev'[cnt].used = {}
             /\ \A d \in Dev : d # cnt => hs_net_dev'[d] = hs_net_dev[d]
             /\ \A d \in Dev : hs_net_dev'[d].active = hs_net_dev[d].active
  <2>1. PICK h, r : h = hs_net_dev[cnt] /\ r = [h EXCEPT !.free = fr]
    BY Zenon
  <2>2. Fields(r) /\ r.active = h.active /\ r.free = fr /\ r.used = h.used
    <3>1. r \in DeviceWith(h.name, h.dev_id, h.active, fr, h.used, h.stale)
      BY <1>3, <2>1, DeviceWrites, Zenon
    <3> QED
      BY <3>1, DeviceFields
  <2>3. hs_net_dev' = [hs_net_dev EXCEPT ![cnt] = r]
    BY <1>5, <2>1, Zenon
  <2>4. /\ IsSet(hs_net_dev') /\ hs_net_dev'[cnt] = r
        /\ \A d \in Dev : d # cnt => hs_net_dev'[d] = hs_net_dev[d]
    BY <1>0, <1>3, <2>2, <2>3, DeviceReplaced, Zenon
  <2> QED
    BY <1>0, <2>1, <2>2, <2>4, Zenon
<1>6. CASE /\ k < NodeNum /\ nodes' = nodes \cup {<<cnt, k>>}
           /\ hs_net_dev' = [hs_net_dev EXCEPT ![cnt] =
                               [hs_net_dev[cnt] EXCEPT !.free = hs_net_dev[cnt].free \cup {<<cnt, k>>}]]
           /\ UNCHANGED <<cnt, heap, pc>>
  <2>1. PICK fr : fr = hs_net_dev[cnt].free \cup {<<cnt, k>>}
    BY Zenon
  <2>2. fr = {cnt} \X (0 .. k) /\ k + 1 \in 0 .. NodeNum /\ k = k + 1 - 1
    <3>1. k + 1 \in 0 .. NodeNum /\ k = k + 1 - 1 /\ 0 .. k = (0 .. k - 1) \cup {k}
      BY <1>2, <1>6, StartAssumption
    <3>2. ({cnt} \X (0 .. k - 1)) \cup {<<cnt, k>>} = {cnt} \X ((0 .. k - 1) \cup {k})
      OBVIOUS
    <3>3. fr = {cnt} \X ((0 .. k - 1) \cup {k})
      BY <1>1, <2>1, <3>2, Zenon
    <3> QED
      BY <3>1, <3>3, Zenon
  <2>3. /\ IsSet(hs_net_dev')
        /\ hs_net_dev'[cnt].free = fr /\ hs_net_dev'[cnt].used = {}
        /\ \A d \in Dev : d # cnt => hs_net_dev'[d] = hs_net_dev[d]
        /\ \A d \in Dev : hs_net_dev'[d].active = hs_net_dev[d].active
    BY <1>5, <1>6, <2>1, Zenon
  <2>4. Owned(cnt)' = fr /\ \A d \in Dev : d # cnt => Owned(d)' = Owned(d)
    BY <1>6, <2>3 DEF Owned
  <2>5. Shapes' /\ Counted'
    BY <1>0, <1>6, <2>3 DEF Shapes, Counted
  <2>6. Blocks' /\ Masked'
    BY <1>0, <1>6, <2>3 DEF Blocks, Masked
  <2>7. Filled'
    <3>1. \E j \in 0 .. NodeNum : Owned(cnt)' = {cnt} \X (0 .. j - 1)
      BY <2>2, <2>4
    <3> QED
      BY <1>0, <1>4, <1>6, <2>4, <3>1 DEF Filled, Bare, Block, Dev
  <2>8. Queues'
    <3>1. fr = Owned(cnt) \cup {<<cnt, k>>}
      BY <1>0, <2>1 DEF Owned
    <3>2. nodes = UNION {Owned(d) : d \in Dev}
      BY <1>0 DEF Queues
    <3>3. nodes' = UNION {Owned(d)' : d \in Dev}
      BY <1>0, <1>6, <2>4, <3>1, <3>2
    <3> QED
      BY <1>0, <1>6, <2>3, <3>3 DEF Queues
  <2> QED
    BY <2>5, <2>6, <2>7, <2>8, Zenon DEF StartInv
<1>7. CASE /\ nodes' = nodes \ hs_net_dev[cnt].free
           /\ hs_net_dev' = [hs_net_dev EXCEPT ![cnt] = [hs_net_dev[cnt] EXCEPT !.free = {}]]
           /\ UNCHANGED <<cnt, heap>> /\ pc' = "hs_net_error"
  <2>3. /\ IsSet(hs_net_dev')
        /\ hs_net_dev'[cnt].free = {} /\ hs_net_dev'[cnt].used = {}
        /\ \A d \in Dev : d # cnt => hs_net_dev'[d] = hs_net_dev[d]
        /\ \A d \in Dev : hs_net_dev'[d].active = hs_net_dev[d].active
    BY <1>5, <1>7, Zenon
  <2>4. Owned(cnt)' = {} /\ \A d \in Dev : d # cnt => Owned(d)' = Owned(d)
    BY <1>7, <2>3 DEF Owned
  <2>5. Shapes' /\ Counted'
    BY <1>0, <1>7, <2>3 DEF Shapes, Counted
  <2>6. Blocks' /\ Masked'
    BY <1>0, <1>7, <2>3 DEF Blocks, Masked
  <2>7. Filled'
    BY <1>0, <1>4, <1>7, <2>4 DEF Filled, Bare, Block, Dev
  <2>8. Queues'
    <3>1. Owned(cnt) = hs_net_dev[cnt].free
      BY <1>0 DEF Owned
    <3>2. nodes = UNION {Owned(d) : d \in Dev}
      BY <1>0 DEF Queues
    <3>3. \A d \in Dev : d # cnt => Owned(d) \cap Owned(cnt) = {}
      <4>1. \A d \in Dev : d # cnt => Owned(d) \subseteq {d} \X (0 .. NodeNum - 1)
        BY <1>0, <1>4 DEF Block, Dev
      <4> QED
        BY <1>1, <3>1, <4>1
    <3>4. nodes' = UNION {Owned(d)' : d \in Dev}
      BY <1>0, <1>7, <2>4, <3>1, <3>2, <3>3
    <3> QED
      BY <1>0, <1>7, <2>3, <3>4 DEF Queues
  <2> QED
    BY <2>5, <2>6, <2>7, <2>8, Zenon DEF StartInv
<1>8. CASE k = NodeNum /\ cnt' = cnt + 1 /\ pc' = "device" /\ UNCHANGED <<heap, nodes, hs_net_dev>>
  <2>1. \A d \in Dev : Owned(d)' = Owned(d)
    BY <1>8 DEF Owned
  <2>2. Owned(cnt) = Block(cnt)
    BY <1>0, <1>1, <1>8 DEF Owned, Block
  <2>3. Shapes' /\ Counted'
    BY <1>0, <1>8, StartAssumption DEF Shapes, Counted, IsSet
  <2>4. Blocks' /\ Queues'
    BY <1>0, <1>8, <2>1 DEF Blocks, Queues
  <2>5. Filled'
    BY <1>0, <1>4, <1>8, <2>1, <2>2 DEF Filled, Bare, Block, Dev
  <2>6. Masked'
    BY <1>0, <1>8 DEF Masked, Dev, Blocks
  <2> QED
    BY <2>3, <2>4, <2>5, <2>6, Zenon DEF StartInv
<1> QED
  BY <1>1, <1>2, <1>6, <1>7, <1>8, Zenon DEF MallocNode, memory, Free

(* The error exit of engine_init_hs_net_dev: no device and no node is      *)
(* left.                                                                   *)
LEMMA HsNetErrorStep ==
  ASSUME StartInv, HsNetError
  PROVE  StartInv'
<1> USE DEF Reading, Looping, Owning
<1>0. /\ Shapes /\ Counted /\ Blocks /\ Filled /\ Queues /\ Masked
      /\ pc = "hs_net_error" /\ pc' = "run" /\ ~eng.dev_set /\ ini' = NULL
      /\ UNCHANGED <<cnt, eng, fds, netns>>
      /\ hs_net_dev' = [d \in Dev |-> NoDevice]
      /\ heap' = heap \ (IniBlock \cup ({"set"} \cap heap))
      /\ nodes' = nodes \ UNION {hs_net_dev[d].free : d \in 0 .. cnt - 1}
  BY DEF StartInv, HsNetError, Blocks, open, Free
<1>1. \A d \in Dev : hs_net_dev'[d] = NoDevice
  BY <1>0
<1>2. Fields(NoDevice) /\ NoDevice.free = {} /\ NoDevice.used = {} /\ NoDevice.active = FALSE
  BY DEF Fields, DeviceWith, NoDevice
<1>3. IsSet(hs_net_dev')
  BY <1>0, <1>1, <1>2 DEF IsSet
<1>4. \A d \in Dev : Owned(d)' = {}
  BY <1>1, <1>2 DEF Owned
<1>5. nodes' = {}
  <2>1. nodes = UNION {Owned(d) : d \in Dev}
    BY <1>0 DEF Queues
  <2>2. \A d \in Dev : /\ Owned(d) = hs_net_dev[d].free
                       /\ ~(d < cnt) => Owned(d) = {}
    <3>1. \A d \in Dev : hs_net_dev[d].used = {}
      BY <1>0 DEF Queues
    <3> QED
      BY <1>0, <3>1 DEF Filled, Owned, Dev, Shapes
  <2>3. \A d \in Dev : d < cnt => d \in 0 .. cnt - 1
    BY <1>0 DEF Dev, Shapes
  <2> QED
    BY <1>0, <2>1, <2>2, <2>3
<1>6. Shapes' /\ Counted' /\ Masked'
  BY <1>0, <1>3 DEF Shapes, Counted, Masked
<1>7. Blocks'
  BY <1>0 DEF Blocks, IniBlock
<1>8. Filled' /\ Queues'
  BY <1>0, <1>1, <1>2, <1>4, <1>5 DEF Filled, Queues, Bare
<1> QED
  BY <1>6, <1>7, <1>8, Zenon DEF StartInv

\* A step of the loop that moves nodes within their device only.
Moves ==
  /\ IsSet(hs_net_dev')
  /\ \A d \in Dev : /\ Owned(d)' = Owned(d)
                    /\ hs_net_dev'[d].free \cap hs_net_dev'[d].used = {}
                    /\ hs_net_dev'[d].active = hs_net_dev[d].active

(* Such a step keeps the invariant.                                        *)
LEMMA MovesStep ==
  ASSUME StartInv, Moves, pc = "loop", pc' \in {"loop", "aborted"},
         UNCHANGED <<ini, cnt, eng, heap, nodes, fds, netns>>
  PROVE  StartInv'
<1> USE DEF StartInv, Reading, Looping, Owning
<1>1. Shapes' /\ Counted'
  BY DEF Shapes, Counted, Moves
<1>2. Blocks'
  BY DEF Blocks
<1>3. Filled'
  BY DEF Filled, Bare, Block, Moves
<1>4. Queues'
  BY DEF Queues, Moves
<1>5. Masked'
  BY DEF Masked, Moves, Blocks
<1> QED
  BY <1>1, <1>2, <1>3, <1>4, <1>5, Zenon

(* A session takes a free node of its device.                              *)
LEMMA CreateSessStep ==
  ASSUME StartInv, CreateSess
  PROVE  StartInv'
<1>0. /\ Shapes /\ Queues /\ pc = "loop" /\ pc' \in {"loop", "aborted"}
      /\ UNCHANGED <<ini, cnt, eng, heap, nodes, fds, netns>>
  BY DEF StartInv, CreateSess, reading, memory, open
<1>1. IsSet(hs_net_dev) /\ \A d \in Dev : hs_net_dev[d].free \cap hs_net_dev[d].used = {}
  BY <1>0, Zenon DEF Shapes, Queues
<1>2. ASSUME UNCHANGED hs_net_dev
      PROVE  Moves
  BY <1>1, <1>2, Zenon DEF Moves, Owned
<1>3. ASSUME ~UNCHANGED hs_net_dev
      PROVE  Moves
  <2>1. PICK k, h : k = result' /\ h = hs_net_dev[k]
    BY Zenon
  <2>2. PICK n : n = CHOOSE x \in h.free : TRUE
    BY Zenon
  <2>3. /\ h.free # {}
        /\ hs_net_dev' = [hs_net_dev EXCEPT ![k] = TakeNode(h, n)]
    BY <1>3, <2>1, <2>2, Zenon DEF CreateSess
  <2>4. n \in h.free
    BY <2>2, <2>3
  <2>5. k \in Dev
    BY <1>1, <1>3, <2>3 DEF IsSet
  <2>6. Fields(h) /\ h.free \cap h.used = {}
    BY <1>1, <2>1, <2>5, Zenon DEF IsSet
  <2>7. PICK r : r = TakeNode(h, n)
    BY Zenon
  <2>8. Fields(r) /\ r.active = h.active /\ r.free = h.free \ {n} /\ r.used = h.used \cup {n}
    <3>1. r \in DeviceWith(h.name, h.dev_id, h.active, h.free \ {n}, h.used \cup {n}, h.stale)
      BY <2>6, <2>7, Zenon DEF Fields, DeviceWith, TakeNode
    <3> QED
      BY <3>1, DeviceFields
  <2>9. /\ IsSet(hs_net_dev') /\ hs_net_dev'[k] = r
        /\ \A d \in Dev : d # k => hs_net_dev'[d] = hs_net_dev[d]
    BY <1>1, <2>3, <2>5, <2>7, <2>8, DeviceReplaced, Zenon
  <2>10. /\ r.free \cup r.used = h.free \cup h.used
         /\ r.free \cap r.used = {}
    BY <2>4, <2>6, <2>8
  <2> QED
    BY <1>1, <2>1, <2>8, <2>9, <2>10 DEF Moves, Owned
<1> QED
  <2>1. Moves
    BY <1>2, <1>3, Zenon
  <2> QED
    BY <1>0, <2>1, MovesStep, Zenon

(* A session gives its node back, or keeps it with a pointer to itself.    *)
LEMMA DeleteSessStep ==
  ASSUME StartInv, NEW k \in Dev, NEW n \in hs_net_dev[k].used, DeleteSess(k, n)
  PROVE  StartInv'
<1>0. /\ Shapes /\ Queues /\ pc = "loop" /\ pc' = "loop"
      /\ UNCHANGED <<ini, cnt, eng, heap, nodes, fds, netns>>
  BY DEF StartInv, DeleteSess, reading, memory, open
<1>1. IsSet(hs_net_dev) /\ \A d \in Dev : hs_net_dev[d].free \cap hs_net_dev[d].used = {}
  BY <1>0, Zenon DEF Shapes, Queues
<1>2. PICK h : h = hs_net_dev[k]
  BY Zenon
<1>3. Fields(h) /\ h.free \cap h.used = {} /\ n \in h.used
  BY <1>1, <1>2, Zenon DEF IsSet
<1>4. PICK r : /\ hs_net_dev' = [hs_net_dev EXCEPT ![k] = r]
               /\ \/ r = GiveNode(h, n)
                  \/ r = StrandNode(h, n)
  <2>1. PICK dev : hs_net_dev' = [hs_net_dev EXCEPT ![k] =
                     IF dev = "own" THEN GiveNode(h, n)
                                    ELSE StrandNode(h, n)]
    BY <1>2, Zenon DEF DeleteSess
  <2>2. PICK r : r = IF dev = "own" THEN GiveNode(h, n)
                                    ELSE StrandNode(h, n)
    BY Zenon
  <2>3. hs_net_dev' = [hs_net_dev EXCEPT ![k] = r]
    BY <2>1, <2>2, Zenon
  <2>4. \/ r = GiveNode(h, n)
        \/ r = StrandNode(h, n)
    BY <2>2, Zenon
  <2> QED
    BY <2>3, <2>4, Zenon
<1>5. /\ Fields(r) /\ r.active = h.active
      /\ r.free \cup r.used = h.free \cup h.used /\ r.free \cap r.used = {}
  <2>1. CASE r = GiveNode(h, n)
    <3>1. r \in DeviceWith(h.name, h.dev_id, h.active, h.free \cup {n}, h.used \ {n}, h.stale)
      BY <1>3, <2>1, Zenon DEF Fields, DeviceWith, GiveNode
    <3>2. Fields(r) /\ r.active = h.active /\ r.free = h.free \cup {n} /\ r.used = h.used \ {n}
      BY <3>1, DeviceFields
    <3> QED
      BY <1>3, <3>2
  <2>2. CASE r = StrandNode(h, n)
    <3>1. r \in DeviceWith(h.name, h.dev_id, h.active, h.free, h.used, h.stale \cup {n})
      BY <1>3, <2>2 DEF Fields, DeviceWith, StrandNode
    <3>2. Fields(r) /\ r.active = h.active /\ r.free = h.free /\ r.used = h.used
      BY <3>1, DeviceFields
    <3> QED
      BY <1>3, <3>2
  <2> QED
    BY <1>4, <2>1, <2>2, Zenon
<1>6. /\ IsSet(hs_net_dev') /\ hs_net_dev'[k] = r
      /\ \A d \in Dev : d # k => hs_net_dev'[d] = hs_net_dev[d]
  BY <1>1, <1>4, <1>5, DeviceReplaced, Zenon
<1>7. Moves
  BY <1>1, <1>2, <1>5, <1>6 DEF Moves, Owned
<1> QED
  BY <1>0, <1>7, MovesStep, Zenon

(* engine_destory: an engine that owns its devices frees all their nodes.  *)
LEMMA DestoryStep ==
  ASSUME StartInv, Destory
  PROVE  StartInv'
<1> USE DEF Reading, Looping, Owning
<1>0. /\ Shapes /\ Counted /\ Blocks /\ Filled /\ Queues /\ Masked
      /\ pc = "destory" /\ pc' = "done" /\ eng' = NoEngine
      /\ UNCHANGED <<ini, cnt, heap, netns>>
  BY DEF StartInv, Destory, reading
<1>1. /\ NoEngine \in [dev_set : BOOLEAN, dev_num : 0 .. MaxDev, active_mask : SUBSET Dev,
                       sess_pool : BOOLEAN, mem_pool : BOOLEAN, epfd : {"fd0", "-1", "epoll"},
                       queues : BOOLEAN]
      /\ NoEngine.dev_set = FALSE /\ NoEngine.sess_pool = FALSE /\ NoEngine.queues = FALSE
  BY StartAssumption DEF NoEngine
<1>2. Counted' /\ Filled' /\ Masked'
  BY <1>0, <1>1 DEF Counted, Filled, Masked
<1>3. CASE eng.dev_set /\ eng.sess_pool
  <2>1. /\ nodes' = nodes \ (Used \cup FreeQueue) /\ fds' = fds \ {eng.epfd}
        /\ hs_net_dev' = [d \in Dev |-> NoDevice]
    BY <1>3 DEF Destory
  <2>2. \A d \in Dev : hs_net_dev'[d] = NoDevice
    BY <2>1
  <2>3. Fields(NoDevice) /\ NoDevice.free = {} /\ NoDevice.used = {}
    BY DEF Fields, DeviceWith, NoDevice
  <2>4. IsSet(hs_net_dev')
    BY <2>1, <2>2, <2>3 DEF IsSet
  <2>5. nodes' = {}
    <3>1. nodes = UNION {Owned(d) : d \in Dev} /\ cnt = eng.dev_num /\ cnt \in 0 .. MaxDev
      BY <1>0, <1>3 DEF Queues, Blocks, Shapes
    <3>2. \A d \in Dev : Owned(d) # {} => d \in Devices
      BY <1>0, <1>3, <3>1 DEF Filled, Bare, Devices, Dev
    <3>3. \A d \in Devices : Owned(d) \subseteq Used \cup FreeQueue
      BY DEF Owned, Used, FreeQueue
    <3> QED
      BY <2>1, <3>1, <3>2, <3>3
  <2>6. "epoll" \notin fds'
    BY <1>0, <2>1 DEF Blocks
  <2>7. Shapes' /\ Queues'
    BY <1>0, <1>1, <2>2, <2>3, <2>4 DEF Shapes, Queues
  <2>8. Blocks'
    BY <1>0, <1>1, <2>5, <2>6 DEF Blocks
  <2> QED
    BY <1>2, <2>7, <2>8, Zenon DEF StartInv
<1>4. CASE ~(eng.dev_set /\ eng.sess_pool)
  <2>1. UNCHANGED <<nodes, fds, hs_net_dev>>
    BY <1>4 DEF Destory
  <2>2. Shapes' /\ Queues'
    BY <1>0, <1>1, <2>1 DEF Shapes, Queues, IsSet
  <2>3. "mem_pool_lock" \notin heap
    BY <1>0, <1>4 DEF Blocks
  <2>4. Blocks'
    BY <1>0, <1>1, <2>3 DEF Blocks
  <2> QED
    BY <1>2, <2>2, <2>4, Zenon DEF StartInv
<1> QED
  BY <1>3, <1>4, Zenon
-----------------------------------------------------------------------------
(* main starts with nothing.                                               *)
LEMMA StartInvInitial == Init => StartInv
<1> SUFFICES ASSUME Init
             PROVE  StartInv
  OBVIOUS
<1> USE DEF Reading, Looping, Owning
<1>0. /\ pc = "set" /\ ini = NULL /\ cnt = 0 /\ eng = NoEngine
      /\ heap = {} /\ nodes = {} /\ fds = {"fd0"}
  BY Zenon DEF Init
<1>1. hs_net_dev = [d \in Dev |-> NoDevice] /\ \A d \in Dev : hs_net_dev[d] = NoDevice
  BY Zenon DEF Init
<1>2. Fields(NoDevice) /\ NoDevice.free = {} /\ NoDevice.used = {} /\ NoDevice.active = FALSE
  BY DEF Fields, DeviceWith, NoDevice
<1>3. /\ NoEngine \in [dev_set : BOOLEAN, dev_num : 0 .. MaxDev, active_mask : SUBSET Dev,
                       sess_pool : BOOLEAN, mem_pool : BOOLEAN, epfd : {"fd0", "-1", "epoll"},
                       queues : BOOLEAN]
      /\ NoEngine.dev_set = FALSE /\ NoEngine.sess_pool = FALSE /\ NoEngine.queues = FALSE
      /\ NoEngine.active_mask = {}
  BY StartAssumption DEF NoEngine
<1>4. \A d \in Dev : Owned(d) = {}
  BY <1>1, <1>2 DEF Owned
<1>5. Shapes /\ Counted
  <2>1. IsSet(hs_net_dev)
    BY <1>1, <1>2 DEF IsSet
  <2> QED
    BY <1>0, <1>3, <2>1, StartAssumption DEF Shapes, Counted
<1>6. Blocks
  BY <1>0, <1>3 DEF Blocks
<1>7. Filled
  BY <1>0, <1>4, StartAssumption DEF Filled, Bare, Dev
<1>8. Queues
  BY <1>0, <1>1, <1>2, <1>4 DEF Queues
<1>9. Masked
  BY <1>0, <1>1, <1>2, <1>3, StartAssumption DEF Masked, Dev
<1> QED
  BY <1>5, <1>6, <1>7, <1>8, <1>9, Zenon DEF StartInv

(* Every step of the process keeps the invariant.                          *)
LEMMA StartInvPreserved ==
  ASSUME StartInv, [Next]_vars
  PROVE  StartInv'
<1>1. CASE UNCHANGED vars
  <2>1. UNCHANGED <<pc, ini, cnt, hs_net_dev, eng, heap, nodes, fds, netns>>
    BY <1>1 DEF vars, reading, memory, open
  <2>2. Shapes' /\ Counted' /\ Blocks' /\ Masked'
    BY <2>1 DEF StartInv, Shapes, Counted, Blocks, Masked, IsSet
  <2>3. Filled' /\ Queues'
    BY <2>1 DEF StartInv, Filled, Queues, Bare, Owned
  <2> QED
    BY <2>2, <2>3, Zenon DEF StartInv
<1>2. CASE Next
  BY <1>2, MallocSetStep, OpenIniStep, SectionLineStep, ValueLineStep, OtherLineStep, LoadFailsStep, Zenon,
     LoadDoneStep, ReadDeviceStep, OpenNetnsStep, MallocNodeStep, AssignSetStep, HsNetErrorStep,
     InitSessPoolStep, InitMemPoolStep, InitMemPoolLockStep, InitPollerStep, InitHyperampQueueStep,
     InitIotStep, RunStep, CreateSessStep, DeleteSessStep, LeaveLoopStep, DestoryStep, Zenon DEF Next
<1> QED
  BY <1>1, <1>2, Zenon

(* The invariant holds throughout.                                        *)
LEMMA StartInvHolds == Spec => []StartInv
<1>1. Init => StartInv
  BY StartInvInitial
<1>2. StartInv /\ [Next]_vars => StartInv'
  BY StartInvPreserved
<1> QED
  BY <1>1, <1>2, PTL DEF Spec
-----------------------------------------------------------------------------
(* engine_run_hyperamp enters its loop only with the blocks, descriptors,  *)
(* namespaces and nodes it uses, and with a mask that agrees with the      *)
(* devices, whatever failed before and although nobody looks at the        *)
(* outcome of engine_init.                                                 *)
THEOREM LoopHasAll == Spec => []LoopReady
<1>1. StartInv => LoopReady
  <2> SUFFICES ASSUME StartInv, pc = "loop"
               PROVE  LoopReady
    BY Zenon DEF LoopReady
  <2>1. eng.dev_set /\ eng.dev_num = cnt /\ cnt \in 0 .. MaxDev
    BY DEF StartInv, Blocks, Owning, Shapes
  <2>2. {"set", "sess_pool", "mem_pool", "mem_pool_lock"} \subseteq heap /\ eng.epfd \in fds \ {"fd0"}
    BY DEF StartInv, Blocks, Owning
  <2>3. Devices \subseteq Dev /\ \A d \in Dev : d \in Devices <=> d < cnt
    BY <2>1, StartAssumption DEF Devices, Dev
  <2>4. eng.active_mask = {d \in Devices : hs_net_dev[d].active}
    <3>1. /\ eng.active_mask = {d \in Dev : hs_net_dev[d].active}
          /\ \A d \in Dev : hs_net_dev[d].active => d < cnt
      BY <2>1 DEF StartInv, Masked
    <3> QED
      BY <2>3, <3>1
  <2>5. ASSUME NEW d \in Devices
        PROVE  d \in netns /\ Cardinality(hs_net_dev[d].free \cup hs_net_dev[d].used) = NodeNum
    <3>1. d \in Dev /\ d < cnt
      BY <2>3
    <3>2. d \in netns
      BY <2>1, <3>1 DEF StartInv, Masked
    <3>3. Owned(d) = {d} \X (0 .. NodeNum - 1)
      BY <3>1 DEF StartInv, Filled, Bare, Block
    <3>4. Cardinality({d} \X (0 .. NodeNum - 1)) = NodeNum
      BY RowSize, StartAssumption
    <3> QED
      BY <3>2, <3>3, <3>4, Zenon DEF Owned
  <2> QED
    BY <2>2, <2>4, <2>5, Zenon DEF LoopReady
<1> QED
  BY <1>1, StartInvHolds, PTL

(* After engine_destory no session node is left and the epoll descriptor   *)
(* is closed, if the engine got as far as the lock of its memory pool.     *)
THEOREM EndReleases == Spec => []ShutdownReleases
<1>1. StartInv => ShutdownReleases
  BY DEF StartInv, Blocks, ShutdownReleases
<1> QED
  BY <1>1, StartInvHolds, PTL
-----------------------------------------------------------------------------
\* No node keeps a pointer to a freed session.
NoneStale == \A d \in Dev : hs_net_dev[d].stale = {}

(* Sessions that know their device give their node back.                   *)
LEMMA NoneStaleStep ==
  ASSUME HeapDev \subseteq {"own"}, StartInv, NoneStale, [Next]_vars
  PROVE  NoneStale'
<1>0. IsSet(hs_net_dev) /\ \A d \in Dev : Fields(hs_net_dev[d])
  BY DEF StartInv, Shapes, IsSet
<1>1. ASSUME NEW k, NEW r, hs_net_dev' = [hs_net_dev EXCEPT ![k] = r], Fields(r),
             r.stale = hs_net_dev[k].stale
      PROVE  NoneStale'
  BY <1>0, <1>1 DEF IsSet, NoneStale
<1>2. ASSUME hs_net_dev' = [d \in Dev |-> NoDevice]
      PROVE  NoneStale'
  BY <1>2, Zenon DEF NoneStale, NoDevice
<1>3. ASSUME UNCHANGED hs_net_dev
      PROVE  NoneStale'
  BY <1>3, Zenon DEF NoneStale
<1>4. CASE ReadDevice
  <2>1. ASSUME NEW s, NEW i, NEW a,
               hs_net_dev' = [hs_net_dev EXCEPT ![cnt] = [@ EXCEPT !.name = s, !.dev_id = i, !.active = a]]
        PROVE  NoneStale'
    <3>1. PICK h, r : h = hs_net_dev[cnt] /\ r = [h EXCEPT !.name = s, !.dev_id = i, !.active = a]
      BY Zenon
    <3>2. cnt \in Dev
      <4>1. pc = "device" /\ cnt < GetNSec(ini)
        BY <1>4, Zenon DEF ReadDevice
      <4>2. cnt \in 0 .. MaxDev /\ GetNSec(ini) \in 1 .. MaxDev
        BY <4>1, Zenon DEF StartInv, Shapes, Counted, Looping
      <4> QED
        BY <4>1, <4>2, StartAssumption DEF Dev
    <3>3. r \in DeviceWith(s, i, a, h.free, h.used, h.stale)
      BY <1>0, <3>1, <3>2, DeviceWrites, Zenon
    <3>4. Fields(r) /\ r.stale = h.stale
      BY <3>3, DeviceFields
    <3>5. hs_net_dev' = [hs_net_dev EXCEPT ![cnt] = r]
      BY <2>1, <3>1
    <3> QED
      BY <1>1, <3>1, <3>4, <3>5, Zenon
  <2>2. CASE FirstBad(GetSecName(ini, cnt)) # 0
    BY <1>3, <1>4, <2>2 DEF ReadDevice
  <2>3. CASE FirstBad(GetSecName(ini, cnt)) = 0
    <3>1. PICK s : s = GetSecName(ini, cnt)
      BY Zenon
    <3>2. PICK i, a : i = GetInt(ini, <<s, "dev_id">>) /\ a = (GetInt(ini, <<s, "dev_status">>) = 1)
      BY Zenon
    <3>3. hs_net_dev' = [hs_net_dev EXCEPT ![cnt] = [@ EXCEPT !.name = s, !.dev_id = i, !.active = a]]
      BY <1>4, <2>3, <3>1, <3>2 DEF ReadDevice
    <3> QED
      BY <2>1, <3>3, Zenon
  <2> QED
    BY <2>2, <2>3, Zenon
<1>5. CASE MallocNode
  <2>1. ASSUME NEW fr, hs_net_dev' = [hs_net_dev EXCEPT ![cnt] = [hs_net_dev[cnt] EXCEPT !.free = fr]]
        PROVE  NoneStale'
    <3>1. PICK h, r : h = hs_net_dev[cnt] /\ r = [h EXCEPT !.free = fr]
      BY Zenon
    <3>2. cnt \in Dev
      <4>1. pc = "nodes"
        BY <1>5, Zenon DEF MallocNode
      <4>2. cnt \in 0 .. MaxDev /\ GetNSec(ini) \in 1 .. MaxDev /\ cnt < GetNSec(ini)
        BY <4>1, Zenon DEF StartInv, Shapes, Counted, Looping
      <4> QED
        BY <4>2, StartAssumption DEF Dev
    <3>3. r \in DeviceWith(h.name, h.dev_id, h.active, fr, h.used, h.stale)
      BY <1>0, <3>1, <3>2, DeviceWrites, Zenon
    <3>4. Fields(r) /\ r.stale = h.stale
      BY <3>3, DeviceFields
    <3>5. hs_net_dev' = [hs_net_dev EXCEPT ![cnt] = r]
      BY <2>1, <3>1, Zenon
    <3> QED
      BY <1>1, <3>1, <3>4, <3>5, Zenon
  <2>2. \/ UNCHANGED hs_net_dev
        \/ \E fr : hs_net_dev' = [hs_net_dev EXCEPT ![cnt] = [hs_net_dev[cnt] EXCEPT !.free = fr]]
    BY <1>5 DEF MallocNode
  <2> QED
    BY <1>3, <2>1, <2>2, Zenon
<1>6. CASE CreateSess
  <2>1. CASE UNCHANGED hs_net_dev
    BY <1>3, <2>1, Zenon
  <2>2. CASE ~UNCHANGED hs_net_dev
    <3>1. PICK k, h, n : /\ k = result' /\ h = hs_net_dev[k]
                         /\ n = CHOOSE x \in h.free : TRUE
      BY Zenon
    <3>2. PICK r : r = TakeNode(h, n)
      BY Zenon
    <3>3. hs_net_dev' = [hs_net_dev EXCEPT ![k] = r]
      BY <1>6, <2>2, <3>1, <3>2, Zenon DEF CreateSess
    <3>4. k \in Dev
      <4>1. hs_net_dev = [d \in Dev |-> hs_net_dev[d]]
        BY <1>0, Zenon DEF IsSet
      <4>2. hs_net_dev' = [d \in Dev |-> hs_net_dev'[d]]
        BY <3>3, <4>1
      <4>3. ASSUME k \notin Dev
            PROVE  \A d \in Dev : hs_net_dev'[d] = hs_net_dev[d]
        BY <3>3, <4>1, <4>3
      <4> QED
        BY <2>2, <4>1, <4>2, <4>3, Zenon
    <3>5. r \in DeviceWith(h.name, h.dev_id, h.active, h.free \ {n}, h.used \cup {n}, h.stale)
      BY <1>0, <3>1, <3>2, <3>4, Zenon DEF TakeNode, Fields, DeviceWith
    <3>6. Fields(r) /\ r.stale = h.stale
      BY <3>5, DeviceFields
    <3> QED
      BY <1>1, <3>1, <3>3, <3>6, Zenon
  <2> QED
    BY <2>1, <2>2, Zenon
<1>7. ASSUME NEW k \in Dev, NEW n, DeleteSess(k, n)
      PROVE  NoneStale'
  <2>1. PICK h, r : h = hs_net_dev[k] /\ r = GiveNode(h, n)
    BY Zenon
  <2>2. hs_net_dev' = [hs_net_dev EXCEPT ![k] = r]
    BY <1>7, <2>1, Zenon DEF DeleteSess
  <2>3. r \in DeviceWith(h.name, h.dev_id, h.active, h.free \cup {n}, h.used \ {n}, h.stale)
    BY <1>0, <2>1, Zenon DEF GiveNode, Fields, DeviceWith
  <2>4. Fields(r) /\ r.stale = h.stale
    BY <2>3, DeviceFields
  <2> QED
    BY <1>1, <2>1, <2>2, <2>4, Zenon
<1>8. CASE HsNetError \/ Destory
  BY <1>2, <1>3, <1>8, Zenon DEF HsNetError, Destory
<1>9. CASE \/ MallocSet \/ OpenIni \/ SectionLine \/ ValueLine \/ OtherLine \/ LoadFails \/ LoadDone
           \/ OpenNetns \/ AssignSet
  BY <1>3, <1>9, Zenon
     DEF MallocSet, OpenIni, SectionLine, ValueLine, OtherLine, LoadFails, LoadDone, OpenNetns, AssignSet
<1>10. CASE \/ InitSessPool \/ InitMemPool \/ InitMemPoolLock \/ InitPoller \/ InitHyperampQueue
            \/ InitIot \/ Run \/ LeaveLoop
  BY <1>3, <1>10, Zenon
     DEF InitSessPool, InitMemPool, InitMemPoolLock, InitPoller, InitHyperampQueue, InitIot, Run, LeaveLoop
<1>11. CASE UNCHANGED vars
  BY <1>3, <1>11, Zenon DEF vars
<1> QED
  BY <1>4, <1>5, <1>6, <1>7, <1>8, <1>9, <1>10, <1>11, Zenon DEF Next

(* What is freed is live: the dictionary exists while it is known, a queue *)
(* holds live nodes, and no node is in the queues of two devices.          *)
LEMMA NoMisuseStep ==
  ASSUME StartInv, NoneStale, ~misuse, [Next]_vars
  PROVE  ~misuse'
<1>0. Shapes /\ Counted /\ Blocks /\ Filled /\ Queues
  BY Zenon DEF StartInv
<1>1. ASSUME UNCHANGED misuse
      PROVE  ~misuse'
  BY <1>1, Zenon
<1>2. CASE LoadFails
  BY <1>0, <1>2, Zenon DEF LoadFails, Free, Blocks
<1>3. CASE AssignSet
  BY <1>0, <1>3, Zenon DEF AssignSet, Free, IniBlock, Blocks
<1>4. CASE HsNetError
  <2>1. UNION {hs_net_dev[d].free : d \in 0 .. cnt - 1} \subseteq nodes
    <3>1. nodes = UNION {Owned(d) : d \in Dev}
      BY <1>0, <1>4 DEF Queues, HsNetError
    <3>2. 0 .. cnt - 1 \subseteq Dev
      BY <1>0, StartAssumption DEF Shapes, Dev
    <3> QED
      BY <3>1, <3>2 DEF Owned
  <2> QED
    BY <1>0, <1>4, <2>1, Zenon DEF HsNetError, Free, IniBlock, Blocks
<1>5. CASE MallocNode
  <2>1. hs_net_dev[cnt].free \subseteq nodes
    <3>1. nodes = UNION {Owned(d) : d \in Dev}
      BY <1>0, <1>5 DEF Queues, MallocNode
    <3>2. cnt \in Dev
      BY <1>0, <1>5, StartAssumption DEF MallocNode, Shapes, Counted, Dev, Looping
    <3> QED
      BY <3>1, <3>2 DEF Owned
  <2> QED
    BY <1>5, <2>1, Zenon DEF MallocNode, Free, memory
<1>6. CASE Destory
  <2>1. CASE ~(eng.dev_set /\ eng.sess_pool)
    BY <1>6, <2>1 DEF Destory
  <2>2. CASE eng.dev_set /\ eng.sess_pool
    <3>1. cnt = eng.dev_num /\ cnt \in 0 .. MaxDev /\ Devices \subseteq Dev
      BY <1>0, <2>2, StartAssumption DEF Blocks, Shapes, Devices, Dev
    <3>2. Stale = {}
      BY <3>1 DEF NoneStale, Stale
    <3>3. \A d \in Devices : Owned(d) = Block(d)
      BY <1>0, <1>6, <2>2, <3>1 DEF Filled, Bare, Devices, Destory
    <3>4. ASSUME NEW n \in Used, n \in FreeQueue
          PROVE  FALSE
      <4>1. PICK d \in Devices : n \in hs_net_dev[d].used
        BY Zenon DEF Used
      <4>2. PICK e \in Devices : n \in hs_net_dev[e].free
        BY <3>4, Zenon DEF FreeQueue
      <4>3. n \in Block(d) /\ n \in Block(e)
        BY <3>3, <4>1, <4>2 DEF Owned
      <4>4. d = e
        BY <4>3 DEF Block
      <4> QED
        BY <1>0, <3>1, <4>1, <4>2, <4>4 DEF Queues
    <3>5. Used \cap FreeQueue = {}
      BY <3>4, Zenon
    <3> QED
      BY <1>6, <2>2, <3>2, <3>5, Zenon DEF Destory
  <2> QED
    BY <2>1, <2>2, Zenon
<1>7. CASE MallocSet \/ OpenIni \/ SectionLine \/ ValueLine \/ OtherLine \/ LoadDone \/ OpenNetns \/ ReadDevice
  BY <1>1, <1>7, Zenon
     DEF MallocSet, OpenIni, SectionLine, ValueLine, OtherLine, LoadDone, OpenNetns, ReadDevice, memory
<1>8. CASE \/ InitSessPool \/ InitMemPool \/ InitMemPoolLock \/ InitPoller \/ InitHyperampQueue
           \/ InitIot \/ Run \/ LeaveLoop
  BY <1>1, <1>8, Zenon DEF InitSessPool, InitMemPool, InitMemPoolLock, InitPoller,
     InitHyperampQueue, InitIot, Run, LeaveLoop, memory
<1>9. CASE CreateSess \/ \E d, n : DeleteSess(d, n)
  BY <1>1, <1>9, Zenon DEF CreateSess, DeleteSess, memory
<1>10. CASE UNCHANGED vars
  BY <1>1, <1>10, Zenon DEF vars, memory
<1> QED
  BY <1>2, <1>3, <1>4, <1>5, <1>6, <1>7, <1>8, <1>9, <1>10, Zenon DEF Next

(* Whatever fails and wherever sessions move the nodes, a live node is in  *)
(* one queue of one device, nothing is freed twice, and no freed session   *)
(* is read at the end, provided that every session knows its device: the   *)
(* dev_id that high_speed_create_sess_active leaves uninitialised happens  *)
(* to be right.                                                            *)
THEOREM NodesHaveOneOwner ==
  ASSUME HeapDev \subseteq {"own"}
  PROVE  Spec => []NodesOwned
<1> DEFINE Sound == StartInv /\ NoneStale /\ ~misuse
<1>1. Init => Sound
  <2> SUFFICES ASSUME Init
               PROVE  Sound
    OBVIOUS
  <2>1. NoneStale /\ ~misuse
    BY Zenon DEF Init, NoneStale, NoDevice
  <2> QED
    BY <2>1, StartInvInitial
<1>2. Sound /\ [Next]_vars => Sound'
  <2> SUFFICES ASSUME Sound, [Next]_vars
               PROVE  Sound'
    OBVIOUS
  <2>1. StartInv'
    BY StartInvPreserved
  <2>2. NoneStale'
    BY NoneStaleStep
  <2>3. ~misuse'
    BY NoMisuseStep
  <2> QED
    BY <2>1, <2>2, <2>3
<1>3. Sound => NodesOwned
  BY DEF StartInv, Queues, NodesOwned, Owned
<1> QED
  BY <1>1, <1>2, <1>3, PTL DEF Spec
-----------------------------------------------------------------------------
(* Induction on the natural numbers, for the numbers of a set.             *)
LEMMA InductionInSet ==
  ASSUME NEW P \in SUBSET Nat, 0 \in P, \A n \in P : n + 1 \in P
  PROVE  P = Nat
<1> SUFFICES ASSUME Nat \ P # {}
             PROVE  FALSE
  BY Zenon
<1>1. PICK R : R = OpToRel(<, Nat)
  BY Zenon
<1>2. IsWellFoundedOn(R, Nat)
  BY <1>1, NatLessThanWellFounded, Zenon
<1>3. \A x, y \in Nat : <<x, y>> \in R <=> x < y
  BY <1>1, Zenon DEF OpToRel
<1>4. Nat \ P \subseteq Nat
  BY Zenon
<1>5. PICK n \in Nat \ P : \A m \in Nat \ P : <<m, n>> \notin R
  BY <1>2, <1>4, WFMin, Zenon
<1>6. n - 1 \in P
  <2>1. n # 0
    BY Zenon
  <2>2. n - 1 \in Nat /\ n - 1 < n
    BY <2>1
  <2> QED
    BY <1>3, <1>5, <2>2, Zenon
<1>7. n - 1 + 1 = n
  OBVIOUS
<1> QED
  BY <1>6, <1>7, Zenon

\* The walk of choose_dev_round_robin, turn by turn.
Turn(n, lp, w, k) == IF lp = -1 THEN FirstTurn(w, k - 1) ELSE LaterTurn(n, w)
Walk(n, mask, lp, g, m) ==
  \A k \in 0 .. m : g[k] = IF k = 0 THEN [mask |-> mask, found |-> FALSE, pos |-> lp]
                           ELSE Turn(n, lp, g[k - 1], k)

(* There is such a walk, of any number of turns.                           *)
LEMMA WalkExists ==
  ASSUME NEW n \in Nat, NEW mask, NEW lp
  PROVE  \E g : Walk(n, mask, lp, g, n)
<1> DEFINE P == {m \in Nat : \E g : Walk(n, mask, lp, g, m)}
<1>1. 0 \in P
  <2>1. PICK g : g = [k \in 0 .. 0 |-> [mask |-> mask, found |-> FALSE, pos |-> lp]]
    BY Zenon
  <2>2. \A k \in 0 .. 0 : k = 0 /\ g[k] = [mask |-> mask, found |-> FALSE, pos |-> lp]
    BY <2>1
  <2>3. Walk(n, mask, lp, g, 0)
    BY <2>2, Zenon DEF Walk
  <2> QED
    BY <2>3, Zenon
<1>2. ASSUME NEW m \in P
      PROVE  m + 1 \in P
  <2>1. PICK g : Walk(n, mask, lp, g, m)
    BY Zenon
  <2>2. PICK x : x = Turn(n, lp, g[m], m + 1)
    BY Zenon
  <2>3. PICK h : h = [k \in 0 .. m + 1 |-> IF k = m + 1 THEN x ELSE g[k]]
    BY Zenon
  <2>4. ASSUME NEW k \in 0 .. m + 1
        PROVE  h[k] = IF k = 0 THEN [mask |-> mask, found |-> FALSE, pos |-> lp]
                      ELSE Turn(n, lp, h[k - 1], k)
    <3>1. CASE k = m + 1
      <4>1. h[k] = x /\ h[k - 1] = g[m] /\ k # 0
        BY <2>3, <3>1
      <4> QED
        BY <2>2, <3>1, <4>1, Zenon
    <3>2. CASE k # m + 1
      <4>1. h[k] = g[k] /\ k \in 0 .. m
        BY <2>3, <3>2
      <4>2. k # 0 => h[k - 1] = g[k - 1]
        BY <2>3, <3>2
      <4> QED
        BY <2>1, <4>1, <4>2, Zenon DEF Walk
    <3> QED
      BY <3>1, <3>2, Zenon
  <2>5. Walk(n, mask, lp, h, m + 1)
    BY <2>4, Zenon DEF Walk
  <2>6. m + 1 \in Nat
    OBVIOUS
  <2> QED
    BY <2>5, <2>6, Zenon
<1>3. P = Nat
  <2> HIDE DEF P
  <2>1. P \subseteq Nat
    BY Zenon DEF P
  <2> QED
    BY <1>1, <1>2, <2>1, InductionInSet, Zenon
<1> QED
  BY <1>3, Zenon

(* A turn only loses bits of the mask, and stops at a bit that was set.    *)
LEMMA TurnFindsActive ==
  ASSUME NEW n, NEW lp, NEW mask, NEW w, NEW k,
         w.mask \subseteq mask, w.found => w.pos \in mask,
         NEW v, v = Turn(n, lp, w, k)
  PROVE  v.mask \subseteq mask /\ (v.found => v.pos \in mask)
<1>1. CASE w.found
  BY <1>1 DEF Turn, FirstTurn, LaterTurn
<1>2. ASSUME ~w.found, NEW p, NEW q,
             v = [mask |-> w.mask \cap {p}, found |-> w.mask \cap {p} # {}, pos |-> q],
             w.mask \cap {p} # {} => q = p
      PROVE  v.mask \subseteq mask /\ (v.found => v.pos \in mask)
  <2>1. PICK m, b : m = w.mask \cap {p} /\ b = (m # {})
    BY Zenon
  <2>2. v = [mask |-> m, found |-> b, pos |-> q]
    BY <1>2, <2>1, Zenon
  <2>3. v.mask = m /\ v.found = b /\ v.pos = q
    BY <2>2
  <2> QED
    BY <1>2, <2>1, <2>3, Zenon
<1>3. CASE ~w.found /\ lp = -1
  <2>1. PICK p, m : p = k - 1 /\ m = w.mask \cap {p}
    BY Zenon
  <2>2. v = [mask |-> m, found |-> m # {}, pos |-> IF m # {} THEN p ELSE w.pos]
    BY <1>3, <2>1, Zenon DEF Turn, FirstTurn, Test
  <2> QED
    BY <1>2, <1>3, <2>1, <2>2, Zenon
<1>4. CASE ~w.found /\ lp # -1
  <2>1. PICK p, m : p = NextPos(n, w.pos) /\ m = w.mask \cap {p}
    BY Zenon
  <2>2. v = [mask |-> m, found |-> m # {}, pos |-> p]
    BY <1>4, <2>1, Zenon DEF Turn, LaterTurn, Test
  <2> QED
    BY <1>2, <1>4, <2>1, <2>2, Zenon
<1> QED
  BY <1>1, <1>3, <1>4, Zenon

(* choose_dev_round_robin finds only positions whose bit is set, for any   *)
(* mask, any number of devices and wherever the last call stopped.         *)
LEMMA WalkFindsActive ==
  ASSUME NEW n \in Nat, NEW mask, NEW lp, RoundRobinWalk(n, mask, lp).found
  PROVE  RoundRobinWalk(n, mask, lp).pos \in mask
<1>1. PICK g : Walk(n, mask, lp, g, n)
  BY WalkExists, Zenon
<1>2. PICK h : h = [k \in 0 .. n |-> g[k]]
  BY Zenon
<1>3. ASSUME NEW k \in 0 .. n
      PROVE  h[k] = IF k = 0 THEN [mask |-> mask, found |-> FALSE, pos |-> lp]
                    ELSE IF lp = -1 THEN FirstTurn(h[k - 1], k - 1) ELSE LaterTurn(n, h[k - 1])
  <2>1. h[k] = g[k] /\ (k # 0 => h[k - 1] = g[k - 1])
    BY <1>2
  <2> QED
    BY <1>1, <2>1, Zenon DEF Walk, Turn
<1>4. h = [k \in 0 .. n |-> IF k = 0 THEN [mask |-> mask, found |-> FALSE, pos |-> lp]
                            ELSE IF lp = -1 THEN FirstTurn(h[k - 1], k - 1) ELSE LaterTurn(n, h[k - 1])]
  BY <1>2, <1>3, Zenon
<1>5. PICK f : f = CHOOSE walk :
        walk = [k \in 0 .. n |-> IF k = 0 THEN [mask |-> mask, found |-> FALSE, pos |-> lp]
                                 ELSE IF lp = -1 THEN FirstTurn(walk[k - 1], k - 1)
                                 ELSE LaterTurn(n, walk[k - 1])]
  BY Zenon
<1>6. f = [k \in 0 .. n |-> IF k = 0 THEN [mask |-> mask, found |-> FALSE, pos |-> lp]
                            ELSE IF lp = -1 THEN FirstTurn(f[k - 1], k - 1) ELSE LaterTurn(n, f[k - 1])]
  BY <1>4, <1>5, Zenon
<1>7. Walk(n, mask, lp, f, n)
  BY <1>6, Zenon DEF Walk, Turn
<1>8. RoundRobinWalk(n, mask, lp) = f[n]
  BY <1>5, Zenon DEF RoundRobinWalk
<1> DEFINE Good(w) == w.mask \subseteq mask /\ (w.found => w.pos \in mask)
           P == {k \in Nat : k <= n => Good(f[k])}
<1>9. 0 \in P
  <2>1. PICK w : w = [mask |-> mask, found |-> FALSE, pos |-> lp]
    BY Zenon
  <2>2. w.mask = mask /\ ~w.found
    BY <2>1
  <2>3. 0 \in 0 .. n
    OBVIOUS
  <2>4. f[0] = w
    BY <1>7, <2>1, <2>3, Zenon DEF Walk
  <2> QED
    BY <2>2, <2>4, Zenon
<1>10. ASSUME NEW k \in P
       PROVE  k + 1 \in P
  <2>0. k \in Nat
    BY Zenon
  <2> SUFFICES ASSUME k + 1 <= n
               PROVE  Good(f[k + 1])
    <3> HIDE DEF Good
    <3> QED
      BY <2>0
  <2>1. k <= n /\ k + 1 \in 0 .. n /\ k + 1 # 0 /\ k + 1 - 1 = k
    BY <2>0
  <2>2. Good(f[k])
    BY <2>1, Zenon
  <2>3. f[k + 1] = Turn(n, lp, f[k], k + 1)
    <3>1. PICK j : j = k + 1
      BY Zenon
    <3>2. j \in 0 .. n /\ j # 0 /\ j - 1 = k
      BY <2>0, <2>1, <3>1
    <3>3. f[j] = Turn(n, lp, f[j - 1], j)
      BY <1>7, <3>2, Zenon DEF Walk
    <3> QED
      BY <3>1, <3>2, <3>3, Zenon
  <2> QED
    BY <2>2, <2>3, TurnFindsActive, Zenon
<1>11. P = Nat
  <2> HIDE DEF P
  <2>1. P \subseteq Nat
    BY Zenon DEF P
  <2> QED
    BY <1>9, <1>10, <2>1, InductionInSet, Zenon
<1>12. Good(f[n])
  <2>1. n <= n
    OBVIOUS
  <2> QED
    BY <1>11, <2>1, Zenon
<1> QED
  BY <1>8, <1>12, Zenon

\* The configured dev_id of an active device, where it is a position, is the
\* position of an active device.
ActiveIds ==
  pc = "loop" =>
    \A d \in Devices : hs_net_dev[d].active /\ hs_net_dev[d].dev_id < eng.dev_num =>
                         hs_net_dev[hs_net_dev[d].dev_id].active

(* GET_NS_ID's assertion (dev.h:126) holds for every device that           *)
(* choose_dev_round_robin returns, provided that the dev_ids of the        *)
(* configuration file name active devices; nothing in the code checks it.  *)
THEOREM ActiveIdsChooseActive ==
  Spec /\ []ActiveIds => []ChosenDeviceActive
<1>1. Init => ChosenDeviceActive
  BY Zenon DEF Init, ChosenDeviceActive
<1>2. ChosenDeviceActive /\ StartInv /\ ActiveIds /\ [Next]_vars => ChosenDeviceActive'
  <2> SUFFICES ASSUME ChosenDeviceActive, StartInv, ActiveIds, [Next]_vars
               PROVE  ChosenDeviceActive'
    OBVIOUS
  <2>1. CASE CreateSess
    <3>1. PICK w : w = RoundRobinWalk(eng.dev_num, eng.active_mask, last_pos)
      BY Zenon
    <3>2. result' = IF w.found /\ hs_net_dev[w.pos].dev_id < eng.dev_num
                    THEN hs_net_dev[w.pos].dev_id ELSE ERROR
      BY <2>1, <3>1, Zenon DEF CreateSess, Choose
    <3>3. pc = "loop" /\ (pc' # pc => result' # ERROR /\ ~hs_net_dev[result'].active)
      BY <2>1, Zenon DEF CreateSess
    <3>4. ASSUME w.found, hs_net_dev[w.pos].dev_id < eng.dev_num
          PROVE  hs_net_dev[hs_net_dev[w.pos].dev_id].active
      <4>1. eng.dev_num \in Nat /\ eng.dev_num = cnt /\ eng.dev_set /\ cnt \in 0 .. MaxDev
        BY <3>3, StartAssumption DEF StartInv, Shapes, Blocks, Owning
      <4>2. w.pos \in eng.active_mask
        BY <3>1, <3>4, <4>1, WalkFindsActive, Zenon
      <4>3. w.pos \in Devices /\ hs_net_dev[w.pos].active
        BY <3>3, <4>1, <4>2, StartAssumption DEF StartInv, Masked, Devices, Dev
      <4> QED
        BY <3>3, <3>4, <4>3, Zenon DEF ActiveIds
    <3>5. pc' = pc
      BY <3>2, <3>3, <3>4, Zenon
    <3> QED
      BY <3>3, <3>5 DEF ChosenDeviceActive
  <2>2. CASE UNCHANGED vars
    BY <2>2, Zenon DEF vars, ChosenDeviceActive
  <2>3. CASE Next /\ ~CreateSess
    BY <2>3, Zenon DEF Next, ChosenDeviceActive, MallocSet, OpenIni, SectionLine, ValueLine, OtherLine, LoadFails,
       LoadDone, ReadDevice, OpenNetns, MallocNode, AssignSet, HsNetError, InitSessPool, InitMemPool,
       InitMemPoolLock, InitPoller, InitHyperampQueue, InitIot, Run, DeleteSess, LeaveLoop, Destory
  <2> QED
    BY <2>1, <2>2, <2>3, Zenon
<1> QED
  BY <1>1, <1>2, StartInvHolds, PTL DEF Spec
=============================================================================
