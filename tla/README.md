# HighSpeedCProxy in TLA+

Specifications of the backend of HighSpeedCProxy: TLA+ modules translated from
the C sources, TLC configurations that check them on small instances, and
TLAPS proofs of the central safety properties for every instance.
`PROJECT.json` maps every definition to the source lines it stands for.

## The system

A *frontend proxy* in a guest zone (seL4) and a *backend proxy* in the root
Linux zone talk through two HyperAMP queues in shared memory: RX (seL4 to
Linux) and TX (Linux to seL4). The frontend asks the backend to create a
session (a TCP or UDP socket in the network namespace of one of several
high-speed devices), sends data to it, receives data from it and closes it.
Only the backend is in the repository. It is one thread: `main` reads the
configuration, connects to the queues and runs `engine_run_hyperamp` for ever. Concurrency is between the two zones, and
between the engine and the kernel's sockets with their peers.

### Inventory

| Part | State | Operations | What is hard | Properties |
|---|---|---|---|---|
| Spinlock (`hyperamp_shm_queue.c`) | lock word, owner, exclusive monitors | lock, trylock, unlock | accesses of several zones interleave; two bodies, by build | exclusion, truthful owner, progress |
| Message queue (`hyperamp_shm_queue.c`) | header, tail, blocks | enqueue, dequeue, peek, release_slot | copies overlap; ring full and empty; wrap | bounded FIFO, no torn message |
| Channel (`engine.c`) | two queues, one data region | rx_queue_get, tx_queue_put | slots shared by both directions | each direction is a FIFO of its own |
| Device selection (`engine.c`) | last position, active mask | choose_hs_net_dev | history-dependent; the mask is changed by the search; position and dev_id | rotation is fair, the device chosen is active |
| Session pool (`session_pool.c`, `dev.h`) | id queue, hash table, session nodes | create (active), insert, search, delete | each step of a create may fail; full TX queue; uninitialised fields | ids conserved, sessions reachable, nodes bounded |
| Session protocol (`backend_proto.c`) | commands and answers under way, the frontend's view | create, close, data, close notices | commands cross notices; lost notices; reused ids | one-to-one, right session, every command answered |
| Data path (`engine.c`, `session_pool.c`, `poller.c`) | segment queues, active queues, link bits, epoll events, sockets | the four network steps of the loop | deletion inside the loops; partial progress; allocation failure; FIN and reset | streams whole and in order, link state true, nothing forgotten, everything forwarded |
| Start-up of the shared memory (`hyperamp_shm_queue.c`, `engine.c`) | control block, data region, lock | queue_init, linux_init, first enqueues and dequeues | the connector does not wait; old memory; kill and restart of the backend | messages of this boot once and in order, all accounted for, no orphaned lock |
| Message dispatch and validation (`backend_proto.c`) | none | header checks, conversions | byte order, lengths, version | by outcome, in the protocol and the data path |
| IoT devices (`session.c`, `engine.c`, `backend_proto.c`) | one session per protocol, Modbus request state | start-up, send, polling loops | partial start-up, hang-up, failed reads, full TX queue, loops of the one thread | order both ways, one answer per request, the loops end |
| Engine start-up and shutdown (`main.c`, `engine.c`, `poller.c`) | device table, session nodes, namespaces, blocks, descriptors | engine_init, the head of the loop, engine_destory | every allocation and system call may fail; errors do not stop `main` | nodes owned once, loop entered only when ready, shutdown releases |
| Configuration reader (`iniparser.c`, `dictionary.c`) | slots of the dictionary | load, set, get, grow, getnsec, getsecname | growth, repeated keys, failed copies that leave holes | the devices are those of the file |
| Old shared-memory queue (`shared_mem_io.c`, `.h`, `backend_proto.c`) | header, tail, blocks | alloc, fill, rollback, zero-copy receive | published before it is filled; the reader holds an address | bounded FIFO, the block being read is intact |
| Statistics, scenario tests, vendored code | | | | not modelled |

## Modules

| Module | Models |
|---|---|
| `HyperampSpinlock` | The lock, one shared-memory access per step. The variable `arm64` is the build: LDAXR/STLXR with an exclusive monitor per zone, or the software body (load, store, load). |
| `BoundedFifo` | What a queue promises its callers: messages come out once, in order; "full" and "empty" are reported only when true. |
| `HyperampQueue` | The ring with its blocks. A copy takes one step per chunk, so that torn messages can occur. Refines `BoundedFifo`. `MCHyperampQueue` gives messages of one and two chunks and one that does not fit. |
| `HyperampQueue_proofs` | Theorems about the queue and, through an instance of `HyperampSpinlock`, about its lock. |
| `HyperampChannel` | Two instances of `HyperampQueue` over one data region, as `engine.c` passes `hyper_amp_data_region` to both, with the backend's dispatch and an external frontend. |
| `HyperampChannel_proofs` | Its theorems. |
| `RoundRobin` | `choose_dev_round_robin` as an operator. The mask that `active_mask &= 1u << pos` destroys is part of it. |
| `IniFile` | The dictionary and the queries of iniparser, as operators; and, for reference, what a file says without a dictionary. |
| `EngineStart` | The process from `main` to its end: `engine_init`, one line, one device, one node at a time, with any `FailBound` of its allocations and system calls failing; create commands that leave the device to the engine; `engine_destory`. `MCEngineStart` gives contents of `hs_net_dev.ini`. |
| `EngineStart_proofs` | Its theorems. |
| `HyperampSetup` | One queue from boot: the creator's writes, field by field, the backend polling, either zone first, kills of the backend. |
| `HyperampSetup_proofs` | Its theorems. |
| `SharedMemQueue`, `SharedMemQueue_proofs` | The older queue, whose messages are built in place and read by address. Refines `BoundedFifo`. |
| `SessionPool` | The pool and everything its operations touch. An operation is one step, because the engine is one thread; the one exception is a create whose response does not fit, between whose two sends the frontend may act (`reclaiming`). |
| `SessionProtocol` | Extends `SessionPool` with the RX queue and the frontend. The queues are the FIFOs that `HyperampQueue` implements. |
| `SessionProtocol_proofs` | Theorems about the pool and the protocol; its second part has what is proved by counting: session nodes, and how far back in the queue a released id is. |
| `DataPath` | The loop of `engine_run_hyperamp` with sessions that exist: STEP (1) one message at a time, STEP (2) and (4) one session at a time, STEP (3) one event at a time. |
| `DataPath_proofs` | Its theorems. |
| `IotSessions` | The IoT side: parsing of the sections, opening of one session per protocol, the frontend's IoT messages (STEP (1)) and one turn of a polling loop at a time (STEP (5)). `MCIotSessions` gives configurations of `iot_dev.ini` and messages at the length limits. |
| `IotSessions_proofs` | Its theorems. |

How state corresponds to code. `header`, `tail`, `lock_value`, `owner_zone_id`,
`id_queue`, `last_pos`, `msg_f2b`, `queue_f2b`, `state_f2b` (and `_b2f`) are the
fields of that name. In `SessionPool`, `sess` is the set of allocated session
objects, `htable` the ids in the uthash table, `free_nodes` the length of each
device's free list. In `DataPath`, `loop` is the step the engine is in, `todo`
what `TAILQ_FOREACH_SAFE` has still to visit and `ready` the rest of the array
`epoll_wait` filled. Payload is counted in units and numbered, so that loss and
reordering are visible; formatting and addresses are left out. `lost`
(`SessionProtocol`) and `stray` (`DataPath`) are history variables: no code
reads them. In `IotSessions`, `sess` gives each protocol the section its session
is bound to, `sess_state` is the Modbus session's, `pc` the loop the engine is
in, `inbox` and `link` are the kernel's; the variables from `sent` on are
history. In `EngineStart`, `pc` is the place in `engine_init` and after, `heap`
the blocks that are allocated, `nodes` the session nodes that are; `misuse`
records a block freed twice or read after it was freed. In `HyperampSetup`,
`boot` is what the memory held and the variables from `sent` on are history. A
Modbus write request is accepted and changes nothing, as in the code (the
register write is disabled there).

Uninitialised memory is a choice: the `dev_id` of a new session is any member
of `HeapDev`, the link bits of a session in `Dirty` are any bits. Use of freed
or foreign memory ends the behaviour in `engine = "corrupt"` (`loop = "corrupt"`
in `DataPath`): nothing is claimed of what follows. Failed assertions and null
pointers end in `"abort"`; the build does not define `NDEBUG`.

## Runs

`tlc -config <cfg> <module>`. The bounds are small, but chosen so that the
interesting cases occur: rings wrap and fill, ids are reused, nodes run out, the
TX queue is full at every point where a message is put into it, and every
failure path is taken.

| Run | Configuration | Shows |
|---|---|---|
| `spinlock` | `Spinlock.cfg`, 3 zones, both builds | `ArmExcludes`, `ArmOwner`, `Progress`, and `TypeOK` |
| `queue` | `QueueMutex.cfg`, 2 zones that both read and write, 3 slots of 2 chunks | `SlotsWhole`, and `ImplementsFifo`: the refinement of `BoundedFifo` |
| `channel_commands` | `ChannelCommands.cfg`, 3 slots of 2 chunks, 3 commands outstanding, a lock that excludes nobody | `RxIsFifo`, `TxIsFifo`. Two facts in one: the shared slots do no harm as long as each TX message answers the RX message just taken, and one producer with one consumer needs no lock (`CommandsAreFifo` has the condition) |
| `setup` | `HyperampSetup.cfg`, 3 slots, 4 messages, cleared or old memory (any indices, lock taken or not), 2 kills | `ProcessedInOrder`, `MessagesAccountedFor`, `LockHasHolder`, `AllProcessed` |
| `shm_queue` | `SharedMemQueue.cfg`, 4 slots, 2 messages and one that cannot be built | `HeldIntact`, and `SharedFifo`: the refinement of `BoundedFifo` |
| `engine` | `EngineStart.cfg`, 14 files of up to 18 lines, up to 3 devices of 2 nodes, a dictionary that starts with 4 slots, any 2 failures | `DevicesAsConfigured`, `NodesOwned`, `LoopReady`, `ShutdownReleases`, `ChosenDeviceActive`, `EveryDeviceServed` |
| `pool` | `Pool.cfg`, 3 devices of which 2 are active, 1 node each, 2 ids, any garbage in `dev_id`, TX queue of 1 | `IdsConserved`, `SessionsReachable`, `NodesBounded` |
| `protocol` | `Protocol.cfg`, 2 frontend ids, 4 backend ids, TX queue of 1, RX queue of 2 | `OneToOne`, `MessagesHitOwnSession`, `OneSessionPerFrontend`, `CommandsAnswered` |
| `data_path` | `DataPath.cfg`, a TCP and a UDP session (the UDP one with dirty memory), TX queue of 1, all failures | `F2bInOrder`, `B2fInOrder`, `LinkStateTrue`, `VisitsLiveSessions`, `NothingForgotten` |
| `data_forwarded` | `DataForwarded.cfg`, both sessions, no failures | `F2bForwarded`, `B2fForwarded` |
| `iot` | `Iot.cfg`, six configurations of up to 3 sections, 2 messages at the length limits, 2 packets, TX queue of 1, failing opens, writes and reads, a hang-up, one CAN error | `UplinkInOrder`, `DownlinkSound`, `OneAnswerPerRequest`, `RequestAnswered`, `LoopReturns`, `UplinkForwarded` |

`MessagesHitOwnSession` depends on how long a released id stays unused. The id
queue is a FIFO, so what counts is the number of creates that can overtake a
message, and a frontend id has one create under way at most: as many backend ids
as frontend ids are enough, whatever the room in the queues
(`MessagesReachTheirOwn`). With fewer it fails: one backend id and two frontend
ids break it. The code has 1024 backend ids; frontend ids have 16 bits, so a
frontend that keeps more than 1024 of them in use is not covered.

`iot` needs two messages and two packets: two show order and two read requests
that share an answer, and a TX queue of one message is full after the first. The
configurations pair devices whose loops follow each other. The liveness
properties of `iot` except a Bluetooth session in server mode, which is the
subject of `IotServer.cfg`.

`engine` needs two failures: the second may hit the error path of the first.
`DICTMINSZ` is 128 in the code; with 4 the dictionary of three devices doubles
three times. The files cover a missing and an empty file, too many sections, a
section that comes back and overrides an item, ids out of bounds, each item that
can be refused, a syntax error and a line that is too long. The run takes `dev_id` of a session to be right at its deletion
(`HeapDev`; see `EngineStaleNode.cfg`) and a dev_id, where it is in bounds, to be
the position (see `EngineSwapped.cfg`).

`setup` lets the backend come first only over cleared memory; over an old queue
it starts after the creator has finished (`Early`; see `HyperampSetupEarly.cfg`).
Four messages in two usable slots wrap the ring, and two kills allow a kill
after a restart.

`shm_queue` does not let the reader run while a message is being built. In the
code both are calls of one thread, because the region comes from `malloc`; as a
queue between two zones it would need a lock (`SharedMemOverlap.cfg`), and
`lock_shared_mem_pool` is a stub.

`pool`, `protocol`, `data_path`, `engine` and `setup` do not check for deadlock:
the engine may really stop (`"corrupt"`, `"killed"`, `"crashed"`, `"done"`), a
lock may be left taken by a killed process, and the bounds of `data_path` and
`setup` end the traffic. All others do.

The component modules state a type invariant `TypeOK`. It is proved for the
spinlock, for the start-up of the shared memory (in `SetupInv`) and, as part of
the `QueueInv` of each, for the two queues; the other inductive invariants have
the part of it that they need. It holds in
the instances of the others too and documents their state; their configurations
are kept to the properties that say something of the code.

One run ends in a counterexample. It checks what a comment of the source says
and the code does not do (`findings` in `PROJECT.json`):

| Run | Property | What happens |
|---|---|---|
| `channel_data` | `BackendReadsFrontendMessages` | A data message the backend puts into TX slot *i* overwrites the unread RX message in slot *i*; the backend then dequeues its own message. |

### Further configurations

These were met while modelling and are kept for whoever works on the code in
question. Each ends in a short counterexample of the property named.

| Configuration (module) | Property | Code and comment |
|---|---|---|
| `SpinlockSoftExclusion.cfg` (`HyperampSpinlock`) | `MutualExclusion` | `hyperamp_shm_queue.c:163`: two zones pass the test, both store, both read 1; `hyperamp_shm_queue.h:17` |
| `EngineInactive.cfg` (`MCEngineStart`) | `FailsOnlyWithoutActive` | `engine.c:253`: `&=` in the test clears the mask; message at `engine.c:276` |
| `EngineSwapped.cfg` (`MCEngineStart`) | `ChosenDeviceActive` | `engine.c:283`: a position is chosen, its dev_id returned and used as a position; assertion at `dev.h:126` |
| `EngineStaleNode.cfg` (`MCEngineStart`) | `NodesOwned` | `session_pool.c:970`: with an invalid `dev_id` the node keeps a pointer to the freed session, which the shutdown reads |
| `EngineStdin.cfg` (`MCEngineStart`) | `ClosesOnlyItsOwn` | a start-up that fails before the poller leaves `epfd` 0, which the shutdown closes; comment at `engine.c:3501` |
| `HyperampSetupEarly.cfg` (`HyperampSetup`) | `ReadsThisBoot` | `engine.c:2153`: the backend does not create the queues and takes messages of an old boot; comment at `engine.c:2146` |
| `HyperampSetupKilled.cfg` (`HyperampSetup`) | `KilledCleanly` | `engine.c:60`: the handler ends the process and leaves the lock; comment at `engine.c:39` |
| `SharedMemOverlap.cfg` (`SharedMemQueue`) | `SharedFifo` | `shared_mem_io.h:423`: a reader that runs during a build takes a block that is not filled |
| `SharedMemUnknownType.cfg` (`SharedMemQueue`) | `SharedFifo` | `backend_proto.c:1504`: a message of unknown type is refused and its block stays in the queue |
| `PoolTxFull.cfg` (`SessionPool`) | `FailedCreateReclaimed` | `session_pool.c:676`: the session is in the hash table when its response fails; the error path frees it and leaves the entry; comment at 673 |
| `PoolInactive.cfg` (`SessionPool`) | `NoAssertionFails` | `dev.h:126`: a create that names an inactive device |
| `PoolNodes.cfg` (`SessionPool`) | `NodesReleased` | `session_pool.c:970`: `dev_id` is never assigned; comment at 898 |
| `ProtocolLostOneToOne.cfg` (`SessionProtocol`) | `AlwaysOneToOne` | `session_pool.c:1005`: result ignored; `README.md:9` of the repository |
| `ProtocolLostClose.cfg` (`SessionProtocol`) | `NoMessageMisdirected` | `backend_proto.c:717`: a close notice is lost, the id is reused, and the late close of the first owner ends the session of another; comment at 678 |
| `DataShortSend.cfg` (`DataPath`) | `F2bInOrder` | `session_pool.c:1070`: `send()` takes a part of a segment, the segment is removed whole; comment at 1042 |
| `DataLinkBit.cfg` (`DataPath`) | `AllSessionsServed` | `session_pool.c:563`: `&=` on uninitialised memory |
| `DataBigDatagram.cfg` (`DataPath`) | `NothingForgotten` | `session_pool.c:1257`: the second `read()` fails before the session is linked; comment at 1262 |
| `DataFullBuffer.cfg` (`DataPath`) | `FullBufferIsRetried` | `session_pool.c:1068`: compares with the size of the buffer; comment at 1030 |
| `DataPeerClose.cfg` (`DataPath`) | `PeerCloseEndsSession` | `poller.c:98`; comment at `engine.c:3215` |
| `DataBroken.cfg` (`DataPath`) | `EngineSurvives` | `session_pool.c:1070`: SIGPIPE; comment at 1028 |
| `IotBadSection.cfg` (`MCIotSessions`) | `BadSectionSkipped` | `engine.c:1670`: one section that does not parse fails the start-up of all IoT devices; message "skipping device" at 1521 |
| `IotServer.cfg` (`MCIotSessions`) | `EngineReturns` | `session.c:1168`: in server mode `bluetooth_recv_from_remote` reads nothing and returns OK, and `engine_iot_bluetooth_run` goes on for ever; comment at 1095 |

### Fairness

- `HyperampSpinlock`: a zone inside a function keeps running (weak fairness of
  its steps), and an exclusive store that can succeed again and again does so
  (strong fairness): the forward progress Arm gives to such loops. Nobody is
  obliged to call the lock.
- `EngineStart`: create commands keep coming while the loop runs; without them no
  device is served.
- `HyperampSetup`: both zones keep running and a killed backend is started again
  (weak fairness). A zone that waits for a lock that is free again and again gets
  it (strong fairness): the backend sleeps for a second before each poll
  (`engine.c:3319`), and the frontend is taken to pause after a full queue.
- `SessionProtocol`: the engine loop takes commands and finishes an error path,
  the frontend polls its queue. Applications need not open or close anything.
- `DataPath`: the engine loop runs and the frontend polls. Peers owe nothing.
- `IotSessions`: the same, and a register that is read again and again is read
  in the end (strong fairness): without a device that answers, no request can be
  answered.

## Proofs

`tlapm <module>`.

`HyperampQueue_proofs`, for any number of zones, any capacity and any block size,
with a lock that excludes (`Exclusive`, what `LockExcludes` gives):

- `WholeMessages`: `Spec => [](SlotsWhole /\ ReadsWhole)`.
- `QueueIsFifo`: `Spec => ImplementsFifo`, the refinement of `BoundedFifo`: each
  publish maps to a put, each finished dequeue to a take, each refusal to a
  truthful "full" or "empty", everything else to a stutter. The invariant
  `QueueInv` says that one zone at most is inside, how far its copy has come, that
  the block it writes is outside the ring's contents and that the one it reads is
  the first of them. The arithmetic of the wrap is in lemmas of its own.

The same module, for the spinlock with any set of zones and either build (`Lock`
is `HyperampSpinlock` with variables of its own):

- `TypeCorrect`: `Lock!Spec => []Lock!TypeOK`, both builds.
- `LockExcludes`, `OwnerNamesHolder`: `Lock!Spec => []Lock!ArmExcludes` and
  `[]Lock!ArmOwner`. Mutual exclusion alone is not inductive. `LockInv` adds that a
  monitor still set at the STLXR proves the lock word 0, that a holder proves it
  1, and that no zone is in the software body.

`HyperampChannel_proofs`, for any capacity and block size, whether the lock excludes
or not, when the frontend has at most as many commands outstanding as a queue has
slots (`Window <= Capacity`):

- `CommandsAreFifo`: `Spec => RxIsFifo`, and `ResponsesAreFifo`: `Spec => TxIsFifo`. First,
  for one queue: `RxQueue` says that the slots from tail to header hold whole
  commands and how far the writer's and the reader's copies have come; every step
  of the two zones on that queue keeps it (`RxOwnStep`), without a lock, because the
  writer copies to a slot the reader does not read and both move their index
  last. Likewise for TX. What is left is a write through the other queue
  (`RxOtherStep`): it must not meet a slot in use. `Layout` gives the four indices
  in ring order: responses from the TX tail to the TX header, then `g` slots whose
  command was read and whose response is under way or was dropped, then commands
  from the RX tail to the RX header. All of them are outstanding, so they fit the
  ring without overlap (`WritersApart`). The condition is needed: with four
  commands outstanding over three slots TLC finds a command overwritten by a
  response.

`SharedMemQueue_proofs`, for any capacity and any messages, when the reader does
not run during a build (`~Overlap`):

- `ReaderSafe`: `Spec => []HeldIntact`. The invariant `QueueInv` places the block
  being filled just before `header` and the block being read just before `tail`.
- `ImplementsFifo`: `Spec => SharedFifo`, when every message is of a known type: the
  fill of a block maps to the put, the rollback to a refused put.

`HyperampSetup_proofs`, for any capacity, any number of messages and of kills, when
the backend does not start over the queue of an earlier boot (`NoOld`; without it
the properties fail, see `HyperampSetupEarly.cfg`):

- `BackendProcessesInOrder`: `Spec => []ProcessedInOrder`.
- `NoMessageDisappears`: `Spec => []MessagesAccountedFor`.
- `LockNeverOrphaned`: `Spec => []LockHasHolder`.

  All three rest on `SetupInv`. Before the queue exists, it says which fields are
  written and that the backend can only have found the queue empty; afterwards,
  that the blocks from tail to header hold the messages after the removed ones,
  which message the backend is at, and that the removed ones are processed, in
  hand or lost, at most one per kill.

`SessionProtocol_proofs`, for any number of frontend ids, backend ids, devices and
nodes, any garbage in `dev_id` and any room in the two queues, from the assumptions
`PoolAssumption` and `DevNumAssumption` on the constants:

- `BackendIdsConserved`: `Spec => []IdsConserved`: each backend id is exactly
  once in the id queue, or held by one session, or by the create being undone.
  The argument is one step per way out of create and one for delete; lemmas
  state what taking the head and appending at the end do to the set of a
  sequence without repetitions.
- `LiveSessionsReachable`: `Spec => []SessionsReachable`. It needs
  `IdsConserved`: delete removes an id from the table, and only distinct ids
  make sure that it is no other session's.
- `ProtocolImplementsPool`: `ProtoSpec => Spec`: every step of the protocol is a
  step of the pool or leaves it alone, so `BackendIdsConserved` and
  `LiveSessionsReachable` hold in the protocol too.
- `OneSessionAtMost`: `ProtoSpec => []OneSessionPerFrontend`.
- `EndsAgree`: `ProtoSpec => []OneToOne`.

  Neither is inductive. `LifeInv` follows one frontend id through its life: at any
  time it has a create command under way, or a session, or a create being undone,
  and never two of them (`Phases`); the TX queue holds for it at most the opening
  of a session and then its end (`TxOrder`); the frontend knows the backend id or
  will read it (`Known`); and it waits only for what will come or was lost
  (`Waits`). The proof first reduces the steps of the backend to eight kinds, by
  what they do to the state `LifeInv` speaks of (`BackendKinds`).

The same module, by counting; the first for any pool, the second with a finite set
of frontend ids and at least as many backend ids:

- `NodesNeverMultiply`: `Spec => []NodesBounded`. Free nodes are counted as the set
  of pairs of a device and a place in its free list; a create takes one
  pair away, a delete, to whichever device, adds one at most.
- `MessagesReachTheirOwn`: `ProtoSpec => []MessagesHitOwnSession`. `RestInv` adds to
  `LifeInv` that the backend id of an ended session is in the id queue behind as
  many ids as there are frontend ids whose create may come first: before the
  frontend reads of the end (`Resting`), and before the messages that still name
  it are processed (`Addressed`). That a released id starts far enough back is a
  count of the ids in use (`FreeIds`).

`DataPath_proofs`, for any sessions, segment and buffer sizes, bounds of the queues,
garbage in the link bits and failures of peers, under `DataAssumption`:

- `LiveSessionsVisited`: `Spec => []VisitsLiveSessions`, and `LinkBitsTrue`:
  `Spec => []LinkStateTrue`. `LinkInv` says of both active queues at once that they
  hold live sessions, none twice, and that the bit of a session tells its
  membership (but for `stray` bits); and of `todo` and `ready` that nothing in
  them was deleted since they were filled.
- `FrontendStreamsInOrder`: `Spec => []F2bInOrder`, when `send()` takes whole segments
  and `malloc` does not fail for the frontend's data. Without the first it fails
  (`DataShortSend.cfg`); without the second the engine drops the segment and goes on.
- `PeerStreamsInOrder`: `Spec => []B2fInOrder`, and `NoSegmentForgotten`:
  `Spec => []NothingForgotten`, when a datagram fits one `read()`. Without that
  `NothingForgotten` fails (`DataBigDatagram.cfg`). `malloc` may fail here.
  `FrontendSegmentsHeld` is the part of it that needs no condition.

  The properties of the streams compare the concatenation of all places where
  data is with the numbers produced. `DataTypes` gives the shape of what is
  queued. Lemmas state what a step does to the concatenation: `Flatten` of a
  sequence with one more segment, of a prefix and the rest, the cut of a socket's
  data into segments, the share of one session in a queue of all.

`EngineStart_proofs`, for any file, any number of devices and nodes and any number
of failures:

- `LoopHasAll`: `Spec => []LoopReady`, and `EndReleases`: `Spec => []ShutdownReleases`.
- `NodesHaveOneOwner`: `Spec => []NodesOwned`, when the `dev_id` of a session is right
  at its deletion (`HeapDev`; without it see `EngineStaleNode.cfg`).
- `ActiveIdsChooseActive`: `Spec /\ []ActiveIds => []ChosenDeviceActive`: the assertion
  of `GET_NS_ID` holds when the dev_ids of active devices are positions of active
  devices (without it see `EngineSwapped.cfg`). The walk of
  `choose_dev_round_robin` is a recursive function; `WalkFindsActive` shows by
  induction on its length that what it returns was active.

  All four rest on `StartInv`: which blocks exist at which place of `engine_init`
  and of the shutdown (`Blocks`), how far the device loop is (`Counted`, `Filled`),
  that each node is in one queue of the device it was allocated for (`Queues`), and
  that the mask and the namespaces agree with the devices that are set up
  (`Masked`).

`IotSessions_proofs`, for any configuration, messages and packets, any room in the
TX queue, and any hang-ups, failed opens, writes and reads:

- `DownlinkOrderly`: `Spec => []DownlinkSound`. `DownInv` adds that the messages in the
  RX queue are numbered upwards and above all that were written.
- `UplinkOrderly`: `Spec => []UplinkInOrder`, and `AnswersOnce`:
  `Spec => []OneAnswerPerRequest`. `UpInv` says for each protocol that numbers grow
  along what was received, the TX queue and the kernel's buffer and from one to
  the next (`Sound`), that they are the arrived ones without the dropped ones
  (`Covered`), and that a pending Modbus request is above every answer
  (`Answers`). One lemma for each way of joining or leaving a stage does the
  work for all protocols.

Induction over data. The library's induction theorems have an operator as a
parameter, which the provers do not instantiate. `InductionInSet` (`DataPath_proofs`,
`EngineStart_proofs`) goes around that: the numbers for which a fact holds are a
set, and the least number outside it exists because `<` is well-founded.

Only model-checked:

- all liveness, which is outside the prover's reach;
- `DevicesAsConfigured`: the invariant that ties the dictionary, under growth,
  repeated keys and failed copies, to the part of the file read so far is not
  worked out.

## Not modelled

- Weak memory order beyond what the barriers and the acquire/release
  instructions order; caches (the code cleans and invalidates them explicitly).
- `lock_count`, `contention_count`, `enqueue_count`, `dequeue_count`,
  `sess_num`: statistics nothing reads.
- `create_sess_passive`: the engine opens no listening socket. `alloc_slot` and
  `is_initialized` of the HyperAMP queue, `send_oc` and `initialize` of the older
  one, and `enable_hs_net_dev`: no caller.
- Of the IoT side: contents and lengths of forwarded packets, the CAN id (fixed
  in the code), the parsers of the attributes, packets without data, signals
  that interrupt a read, and the clean-up functions, which are stubs. Packets are
  bounded, so a device that never lets its loop catch up is not covered.
- The switch between network namespaces inside `create_socket_netns`; its
  outcomes are in `SessionPool`.
- Device and strategy messages, which change no state of a session; the checks of
  version, type and length that precede a handler, and the byte-order
  conversions: a message in the models has passed them.
- A restart of the backend with sessions open at the frontend. `HyperampSetup`
  restarts the backend below the level of sessions.
- The characters of a configuration line: `iniparser_line` is represented by what
  it makes of a line.
- Contents of addresses and payload, formatting, logging.

The modules cover the code that keeps state in the backend process. The greater
part of the repository by lines is something else: vendored headers and libraries
under `lib/`, the XDP samples, scenario test programs, statistics that are printed
and never acted on, and printing and byte-order helpers (`common_utils.c`). None
of it has transitions to check.
