---------------------------- MODULE IotSessions ----------------------------
(***************************************************************************)
(* The IoT side of the backend: the sections of iot_dev.ini, the one       *)
(* session per protocol that engine_init_iot_sessions opens from them, the *)
(* IoT messages of the frontend (STEP (1) of engine_run_hyperamp) and the  *)
(* polling of the devices (STEP (5), engine_iot_dev_run).                  *)
(*                                                                         *)
(* The engine is one thread and takes one message, or one turn of a        *)
(* polling loop, per step; frontend, devices and kernel (external) act in  *)
(* between.  STEPs (2) to (4) are in DataPath.  "zigbee" also stands for   *)
(* LoRa and PowerLink, whose functions are the same stubs.                 *)
(*                                                                         *)
(* A packet from a device is its number.  A Modbus answer is the number of *)
(* read requests the session had accepted when the register was read.      *)
(***************************************************************************)
EXTENDS Integers, Sequences, Functions

CONSTANTS
  Configs,      \* configurations: sequences of sections
  Messages,     \* messages the frontend sends: protocol, payload_len, READ_REQ
  TxRoom,       \* messages the TX queue can hold
  MaxSent,      \* messages the frontend sends
  MaxArrived    \* packets that arrive from the devices

Wired == {"bluetooth", "can"}    \* their data is read from a socket
Type == Wired \cup {"modbus", "zigbee"}

\* valid: the parser accepts the section (dev_id, dev_type, attributes).
Section == [type : Type, mode : {"client", "server"}, online : BOOLEAN, valid : BOOLEAN]

ASSUME IotAssumption ==
  /\ \A c \in Configs : c \in Seq(Section)
  /\ Messages \subseteq [type : Type, len : Nat, read : BOOLEAN]
  /\ TxRoom \in Nat \ {0} /\ MaxSent \in Nat /\ MaxArrived \in Nat

VARIABLES
  config,       \* iot_dev.ini
  iot_dev_num,
  iot_dev_cnt,
  sess,         \* per protocol: the section its session is bound to, 0: NULL
  sess_state,   \* of the Modbus session
  pc,           \* where the engine is
  rx_queue,
  tx_queue,
  inbox,        \* packets in the kernel's buffers
  link,         \* "up"; "down": hung up, or an error nobody has read yet; "seen"
  (* history *)
  sent,         \* messages the frontend has sent
  asked,        \* read requests among them that fit
  taken,        \* read requests the Modbus session has accepted
  arrived,      \* packets that have arrived
  wire,         \* messages written to a device
  got,          \* what the frontend has received
  dropped       \* what was read from a device and did not reach the TX queue

startVars == <<config, iot_dev_num, iot_dev_cnt, sess>>
devVars == <<inbox, link, arrived>>
frontVars == <<sent, asked>>
vars == <<startVars, sess_state, pc, rx_queue, tx_queue, devVars, frontVars,
          taken, wire, got, dropped>>

\* Bytes of the address structures, limits of payload_len, and CAN_MAX_DLEN.
AddrLen == [bluetooth |-> 20, can |-> 7, modbus |-> 11, zigbee |-> 11]
MaxPayload == [bluetooth |-> 244, can |-> 64, modbus |-> 253]
CAN_MAX_DLEN == 8

Init ==
  /\ config \in Configs
  /\ iot_dev_num = 0 /\ iot_dev_cnt = 0
  /\ sess = [t \in Type |-> 0]
  /\ sess_state = "IDLE"
  /\ pc = "parse"
  /\ rx_queue = <<>> /\ tx_queue = <<>>
  /\ inbox = [t \in Wired |-> <<>>]
  /\ link = [t \in Wired |-> "up"]
  /\ sent = 0 /\ asked = 0 /\ taken = 0
  /\ arrived = [t \in Wired |-> 0]
  /\ wire = [t \in Wired |-> <<>>]
  /\ got = [t \in Type |-> <<>>]
  /\ dropped = [t \in Type |-> {}]
-----------------------------------------------------------------------------
(* Start-up *)

\* engine_init_iot_devices: a section that does not parse fails the whole
\* function, and so does a file without sections; engine_init then returns
\* and main enters engine_run_hyperamp all the same.
ParseDevices ==
  LET ok == config # <<>> /\ \A i \in DOMAIN config : config[i].valid
  IN  /\ pc = "parse"
      /\ iot_dev_num' = IF ok THEN Len(config) ELSE 0
      /\ pc' = IF ok THEN "init" ELSE "rx"
      /\ UNCHANGED <<config, iot_dev_cnt, sess, sess_state, rx_queue, tx_queue, devVars,
                     frontVars, taken, wire, got, dropped>>

\* engine_init_<protocol>_session can succeed: Modbus has no server mode.
Supported(d) == d.type = "modbus" => d.mode = "client"

\* engine_init_iot_sessions, one turn of the loop; allocation, socket, bind
\* and connect may fail.
InitSession ==
  LET d == config[iot_dev_cnt + 1]
      wanted == d.online /\ sess[d.type] = 0
  IN  /\ pc = "init" /\ iot_dev_cnt < iot_dev_num
      /\ iot_dev_cnt' = iot_dev_cnt + 1
      /\ \/ wanted /\ Supported(d) /\ sess' = [sess EXCEPT ![d.type] = iot_dev_cnt + 1]
         \/ UNCHANGED sess
      /\ UNCHANGED <<config, iot_dev_num, sess_state, pc, rx_queue, tx_queue, devVars,
                     frontVars, taken, wire, got, dropped>>

\* Whatever the result, main goes on to engine_run_hyperamp.
StartRunning ==
  /\ pc = "init" /\ iot_dev_cnt = iot_dev_num
  /\ pc' = "rx"
  /\ UNCHANGED <<startVars, sess_state, rx_queue, tx_queue, devVars, frontVars, taken,
                 wire, got, dropped>>
-----------------------------------------------------------------------------
(* STEP (1): messages of the frontend *)

\* A session in client mode, with its socket; one in server mode.
Connected(t) == sess[t] # 0 /\ config[sess[t]].mode = "client"
Serves(t) == sess[t] # 0 /\ config[sess[t]].mode = "server"

\* write() to the device of session t; it may fail.
WriteToDevice(t, m) ==
  \/ link[t] # "down" /\ wire' = [wire EXCEPT ![t] = Append(@, [n |-> m.n, len |-> m.len])]
  \/ UNCHANGED wire

\* Mutant: the size of a CAN frame is not checked.
CanFrameUnchecked(m) == TRUE

CanFrame(m) == m.len - AddrLen["can"] <= CAN_MAX_DLEN

\* The length checks of the protocols' handlers.
LengthValid(m) ==
  /\ m.len >= AddrLen[m.type]
  /\ m.type \in DOMAIN MaxPayload => m.len <= MaxPayload[m.type]

\* backend_proxy_bluetooth_msg_process; a server session has an empty loop
\* over its sockets.
BluetoothMessage(m) ==
  /\ m.type = "bluetooth"
  /\ IF Connected("bluetooth") THEN WriteToDevice("bluetooth", m) ELSE UNCHANGED wire
  /\ UNCHANGED <<sess_state, taken>>

\* backend_proxy_can_msg_process, in either mode.
CanMessage(m) ==
  /\ m.type = "can"
  /\ IF CanFrame(m) THEN WriteToDevice("can", m) ELSE UNCHANGED wire
  /\ UNCHANGED <<sess_state, taken>>

\* modbustcp_send_to_remote: a read request is only noted; a write request
\* is accepted and has no effect.
ModbusSend(m) ==
  IF m.read THEN sess_state' = "PENDING" /\ taken' = taken + 1
            ELSE UNCHANGED <<sess_state, taken>>

\* backend_proxy_modbustcp_msg_process
ModbusMessage(m) == m.type = "modbus" /\ ModbusSend(m) /\ UNCHANGED wire

\* backend_proxy_zigbee_msg_process and those of LoRa and PowerLink
StubMessage(m) == m.type = "zigbee" /\ UNCHANGED <<sess_state, taken, wire>>

\* backend_proxy_iot_msg_process
IotMessage(m) ==
  IF sess[m.type] = 0 \/ ~LengthValid(m)
  THEN UNCHANGED <<sess_state, taken, wire>>
  ELSE BluetoothMessage(m) \/ CanMessage(m) \/ ModbusMessage(m) \/ StubMessage(m)

RxMessage ==
  /\ pc = "rx" /\ rx_queue # <<>>
  /\ rx_queue' = Tail(rx_queue)
  /\ IotMessage(Head(rx_queue))
  /\ UNCHANGED <<startVars, pc, tx_queue, devVars, frontVars, got, dropped>>

RxEmpty ==
  /\ pc = "rx" /\ rx_queue = <<>>
  /\ pc' = "bluetooth"
  /\ UNCHANGED <<startVars, sess_state, rx_queue, tx_queue, devVars, frontVars, taken,
                 wire, got, dropped>>
-----------------------------------------------------------------------------
(* STEP (5): polling of the devices *)

After == [bluetooth |-> "can", can |-> "modbus", modbus |-> "rx"]

\* Mutant: a full TX queue makes room by dropping what it holds.
ForwardOverwrites(t, n) ==
  /\ tx_queue' = IF Len(tx_queue) < TxRoom THEN Append(tx_queue, [type |-> t, n |-> n])
                 ELSE <<[type |-> t, n |-> n]>>
  /\ UNCHANGED dropped

\* build_proxy_general_message with MEMORY_ALLOC_AMPQUEUE; the caller does
\* not look at the result.
Forward(t, n) ==
  IF Len(tx_queue) < TxRoom
  THEN tx_queue' = Append(tx_queue, [type |-> t, n |-> n]) /\ UNCHANGED dropped
  ELSE dropped' = [dropped EXCEPT ![t] = @ \cup {n}] /\ UNCHANGED tx_queue

\* Mutant: an error of the Bluetooth session ends engine_iot_dev_run.
LeaveAllLoops(t) ==
  /\ pc = t
  /\ pc' = IF t = "bluetooth" /\ link[t] = "down" THEN "rx" ELSE After[t]
  /\ UNCHANGED <<startVars, rx_queue, frontVars, arrived, taken, wire, got>>

\* The loop of protocol t ends: there is no session, or the receive returned
\* BACKEND_PROXY_PROCESS_AGAIN or _ERROR.
LeaveLoop(t) ==
  /\ pc = t
  /\ pc' = After[t]
  /\ UNCHANGED <<startVars, rx_queue, frontVars, arrived, taken, wire, got>>

\* One more turn of the loop.
Stay(t) ==
  /\ pc = t
  /\ UNCHANGED <<startVars, pc, rx_queue, frontVars, arrived, taken, wire, got>>

\* bluetooth_recv_from_remote, can_recv_from_remote: a packet.  The socket
\* of a Bluetooth session that hung up may have no peer name any more: the
\* packet is gone and the loop ends.
PollData(t) ==
  /\ pc = t /\ Connected(t) /\ inbox[t] # <<>>
  /\ t = "can" => link[t] # "down"
  /\ inbox' = [inbox EXCEPT ![t] = Tail(@)]
  /\ UNCHANGED <<link, sess_state>>
  /\ \/ Stay(t) /\ Forward(t, Head(inbox[t]))
     \/ /\ t = "bluetooth" /\ link[t] = "down"
        /\ dropped' = [dropped EXCEPT ![t] = @ \cup {Head(inbox[t])}]
        /\ LeaveLoop(t) /\ UNCHANGED tx_queue

\* Mutant: BACKEND_PROXY_PROCESS_AGAIN is tried again at once.
PollNothingAgain(t) ==
  /\ Connected(t) /\ inbox[t] = <<>>
  /\ Stay(t)
  /\ UNCHANGED <<inbox, link, sess_state, tx_queue, dropped>>

\* No data yet, end of file, or an error of the socket.  An error of the
\* CAN socket is reported once, before the frames that wait.
PollNothing(t) ==
  /\ Connected(t) /\ (inbox[t] = <<>> \/ (t = "can" /\ link[t] = "down"))
  /\ link' = [link EXCEPT !["can"] = IF t = "can" /\ @ = "down" THEN "seen" ELSE @]
  /\ LeaveLoop(t)
  /\ UNCHANGED <<inbox, sess_state, tx_queue, dropped>>

\* bluetooth_recv_from_remote of a server session reads nothing and returns
\* BACKEND_PROXY_PROCESS_OK: an empty buffer (0) is forwarded.
PollBluetoothServer ==
  /\ Serves("bluetooth")
  /\ Stay("bluetooth") /\ Forward("bluetooth", 0)
  /\ UNCHANGED <<inbox, link, sess_state>>

\* No session of the protocol, or can_recv_from_remote of a server session.
PollSkip(t) ==
  /\ sess[t] = 0 \/ (t = "can" /\ Serves(t))
  /\ LeaveLoop(t)
  /\ UNCHANGED <<inbox, link, sess_state, tx_queue, dropped>>

\* Mutant: the session stays pending after the answer.
ModbusAnswerPending ==
  /\ sess["modbus"] # 0 /\ sess_state = "PENDING"
  /\ Stay("modbus") /\ Forward("modbus", taken)
  /\ UNCHANGED <<inbox, link, sess_state>>

\* modbustcp_recv_from_remote: the register is read.  The next turn of the
\* loop finds the session idle.
ModbusAnswer ==
  /\ sess["modbus"] # 0 /\ sess_state = "PENDING"
  /\ sess_state' = "IDLE"
  /\ Stay("modbus") /\ Forward("modbus", taken)
  /\ UNCHANGED <<inbox, link>>

\* Mutant: a request whose read failed is given up.
ModbusGivesUp ==
  /\ sess["modbus"] # 0
  /\ LeaveLoop("modbus")
  /\ sess_state' = "IDLE"
  /\ UNCHANGED <<inbox, link, tx_queue, dropped>>

\* Nothing was asked, or the read failed: a request that was stays pending.
ModbusNoAnswer ==
  /\ sess["modbus"] # 0
  /\ LeaveLoop("modbus")
  /\ UNCHANGED <<inbox, link, sess_state, tx_queue, dropped>>
-----------------------------------------------------------------------------
(* Frontend, devices, kernel *)

FrontendSend(m) ==
  /\ sent < MaxSent
  /\ sent' = sent + 1
  /\ rx_queue' = Append(rx_queue, [type |-> m.type, len |-> m.len, read |-> m.read, n |-> sent + 1])
  /\ asked' = IF m.read /\ LengthValid(m) THEN asked + 1 ELSE asked
  /\ UNCHANGED <<startVars, sess_state, pc, tx_queue, devVars, taken, wire, got, dropped>>

FrontendReceive ==
  /\ tx_queue # <<>>
  /\ tx_queue' = Tail(tx_queue)
  /\ got' = LET m == Head(tx_queue) IN
            IF m.n = 0 THEN got ELSE [got EXCEPT ![m.type] = Append(@, m.n)]
  /\ UNCHANGED <<startVars, sess_state, pc, rx_queue, devVars, frontVars, taken, wire, dropped>>

\* The socket exists and its device sends a packet.
Arrive(t) ==
  /\ Connected(t) /\ link[t] # "down"
  /\ arrived["bluetooth"] + arrived["can"] < MaxArrived
  /\ arrived' = [arrived EXCEPT ![t] = @ + 1]
  /\ inbox' = [inbox EXCEPT ![t] = Append(@, arrived[t] + 1)]
  /\ UNCHANGED <<startVars, sess_state, pc, rx_queue, tx_queue, link, frontVars, taken,
                 wire, got, dropped>>

\* The Bluetooth device hangs up; the CAN interface goes down (once).
GoDown(t) ==
  /\ Connected(t) /\ link[t] = "up"
  /\ link' = [link EXCEPT ![t] = "down"]
  /\ UNCHANGED <<startVars, sess_state, pc, rx_queue, tx_queue, inbox, arrived, frontVars,
                 taken, wire, got, dropped>>

Engine ==
  \/ ParseDevices \/ InitSession \/ StartRunning
  \/ RxMessage \/ RxEmpty
  \/ \E t \in Wired : PollData(t) \/ PollNothing(t)
  \/ PollBluetoothServer
  \/ \E t \in Wired \cup {"modbus"} : PollSkip(t)
  \/ ModbusAnswer \/ ModbusNoAnswer

Next ==
  \/ Engine
  \/ \E m \in Messages : FrontendSend(m)
  \/ FrontendReceive
  \/ \E t \in Wired : Arrive(t) \/ GoDown(t)

\* The engine runs, the frontend polls, and a register that is read again
\* and again is read in the end.
Spec ==
  /\ Init /\ [][Next]_vars
  /\ WF_vars(Engine) /\ WF_vars(FrontendReceive) /\ SF_vars(ModbusAnswer)
-----------------------------------------------------------------------------
TypeOK ==
  /\ config \in Configs
  /\ iot_dev_num \in 0..Len(config) /\ iot_dev_cnt \in 0..iot_dev_num
  /\ \A t \in Type : sess[t] # 0 => config[sess[t]].type = t
  /\ sess_state \in {"IDLE", "PENDING"}
  /\ pc \in {"parse", "init", "rx", "bluetooth", "can", "modbus"}
  /\ Len(tx_queue) <= TxRoom
  /\ link \in [Wired -> {"up", "down", "seen"}]
  /\ taken <= asked /\ asked <= sent /\ sent <= MaxSent

\* What is on its way to the frontend for protocol t, without empty buffers:
\* number n at a place of a stage, 1 received, 2 the TX queue, 3 the kernel.
Trail(t) ==
  {<<1, i, got[t][i]>> : i \in DOMAIN got[t]}
    \cup {<<2, i, tx_queue[i].n>> :
            i \in {j \in DOMAIN tx_queue : tx_queue[j].type = t /\ tx_queue[j].n # 0}}
    \cup {<<3, i, inbox[t][i]>> : i \in IF t \in Wired THEN DOMAIN inbox[t] ELSE {}}

Ahead(p, q) == p[1] < q[1] \/ (p[1] = q[1] /\ p[2] < q[2])

InOrder(t) == \A p, q \in Trail(t) : Ahead(p, q) => p[3] < q[3]

\* Packets of a device reach the frontend in the order they arrived, each
\* once; the only ones missing are those that met a full TX queue or whose
\* sender had hung up (engine_iot_bluetooth_run, engine_iot_can_run).
UplinkInOrder ==
  \A t \in Wired :
    InOrder(t) /\ {p[3] : p \in Trail(t)} = (1 .. arrived[t]) \ dropped[t]

\* Messages reach a device in the order the frontend sent them, each at most
\* once, and only with data that fits into its packet: a CAN frame of 8
\* bytes, a Bluetooth payload (the backend_proxy_*_msg_process checks).
DownlinkSound ==
  /\ \A t \in Wired : \A i, j \in DOMAIN wire[t] : i < j => wire[t][i].n < wire[t][j].n
  /\ \A i \in DOMAIN wire["can"] : wire["can"][i].len - AddrLen["can"] \in 0..8
  /\ \A i \in DOMAIN wire["bluetooth"] : wire["bluetooth"][i].len \in 20..244

\* Every Modbus answer serves a read request that no earlier answer served:
\* reads accepted while one is pending share an answer, none is answered
\* twice and nothing is answered unasked (sess_state).
OneAnswerPerRequest ==
  InOrder("modbus") /\ \A p \in Trail("modbus") : p[3] <= taken

\* Read requests are answered, in the end, by a read made after the last of
\* them was accepted, however often reads fail, unless the answer met a full
\* TX queue (modbustcp_recv_from_remote tries again on the next pass).
RequestAnswered ==
  []<>(\/ asked = 0
       \/ \E n \in Range(got["modbus"]) \cup dropped["modbus"] : n = asked
       \/ pc # "init" /\ sess["modbus"] = 0
       \/ Serves("bluetooth"))

\* The engine always comes back to the messages of the frontend.
EngineReturns == []<>(pc = "rx")

\* The same where no Bluetooth session is in server mode: no device that is
\* silent, hangs up or fails holds engine_iot_dev_run.
LoopReturns == []<>(pc = "rx" \/ Serves("bluetooth"))

\* All that arrived is forwarded, or lost as UplinkInOrder says, also when
\* another device has hung up or fails (engine_iot_dev_run).
UplinkForwarded ==
  \A t \in Wired :
    []<>(1..arrived[t] \subseteq Range(got[t]) \cup dropped[t] \/ Serves("bluetooth"))

\* A section that does not parse costs its own device only ("skipping
\* device" in engine_init_iot_devices): the others are kept.
BadSectionSkipped ==
  pc # "parse" => (iot_dev_num = 0 => \A i \in DOMAIN config : ~config[i].valid)
=============================================================================
