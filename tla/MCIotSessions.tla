--------------------------- MODULE MCIotSessions ---------------------------
(* Configurations of iot_dev.ini for IotSessions. *)
EXTENDS IotSessions

Dev(t, m) == [type |-> t, mode |-> m, online |-> TRUE, valid |-> TRUE]
Offline(d) == [d EXCEPT !.online = FALSE]
Bad(d) == [d EXCEPT !.valid = FALSE]

\* Pairs of clients, whose loops follow each other; servers; a second device of a protocol, after one
\* that is offline, unsupported or may fail to open; sections that fail.
MixedConfigs ==
  {<<Dev("bluetooth", "client"), Dev("can", "client")>>,
   <<Dev("bluetooth", "client"), Dev("modbus", "client")>>,
   <<Dev("bluetooth", "server"), Dev("can", "server"), Dev("zigbee", "client")>>,
   <<Dev("modbus", "server"), Offline(Dev("modbus", "client")), Dev("modbus", "client")>>,
   <<Dev("can", "client"), Dev("can", "server")>>,
   <<Dev("can", "client"), Bad(Dev("bluetooth", "client"))>>,
   <<>>}

Msg(t, l, r) == [type |-> t, len |-> l, read |-> r]

\* Lengths on both sides of the limits; Modbus reads and writes with
\* their 3 bytes of command and value.
LimitMessages ==
  {Msg("bluetooth", l, FALSE) : l \in {244, 245}}
    \cup {Msg("can", l, FALSE) : l \in {6, 15, 16}}
    \cup {Msg("modbus", 14, TRUE), Msg("modbus", 14, FALSE)}
    \cup {Msg("zigbee", 11, FALSE)}

ServerConfigs == {<<Dev("bluetooth", "server"), Dev("can", "client")>>}
BadConfigs == {<<Dev("can", "client"), Bad(Dev("bluetooth", "client"))>>}
=============================================================================
