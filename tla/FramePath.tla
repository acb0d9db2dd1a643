------------------------------ MODULE FramePath ------------------------------
(***************************************************************************)
(* One LoRaWAN frame on its way through the conversions of the end node    *)
(* and of the gateway: hexadecimal text, frame, base64 text in a JSON      *)
(* object, packet, base64 text in a datagram, and the way back.  Each hop  *)
(* looks its topic up in the route map that its program filled at boot.    *)
(*                                                                         *)
(* A frame is its size, the payload bytes it carries and whether its MIC   *)
(* is the one the receiver computes over a frame of that size; keys and    *)
(* addresses are those of EndNode, where they are right.  The texts of all *)
(* conversions are the sizes they have.                                    *)
(*                                                                         *)
(* External, modelled from how the sources use them: the disseminator, the *)
(* network server and the radio driver, which transmits frames as they are.*)
(***************************************************************************)
EXTENDS RouteMap, Integers

CONSTANTS TextLengths, \* lengths of the uplink texts, in digits
          Accepts,     \* sizes of the join accepts, without or with channels
          Downlinks    \* see Downlink

(* A downlink of the server: MAC commands in fopts, a port or none, a      *)
(* payload, its frame counter, and how far txpk.size is from the size of   *)
(* txpk.data.                                                              *)
Downlink == [fopts : 0 .. 15, port : {"none", "mac", "app"}, bytes : 0 .. 242,
             counter : Nat, misstated : {0, 1, 2}]

ASSUME FrameAssumption ==
  /\ Programs = {"node", "gateway"}
  /\ {"RUS", "RDR", "JR", "JA", "UPn", "DWn", "disUPn", "disDWn"} \subseteq Keys
  /\ TextLengths \subseteq Nat /\ Accepts \subseteq {17, 33}
  /\ Downlinks \subseteq Downlink
  /\ \A d \in Downlinks : 13 + d.fopts + d.bytes <= 255 \* no frame is longer

VARIABLES place,   \* where the frame is
          message, \* history: what was handed in
          topic,   \* the topic it was last published to
          frame,   \* the frame, or the packet or text that holds it
          got      \* what arrived

pathVars == <<place, message, topic, frame, got>>
vars == <<routeVars, pathVars>>

Empty == [size |-> 0, mic |-> FALSE, bytes |-> 0]

Nothing == [kind |-> "nothing"]
Clear(n) == [kind |-> "clear", bytes |-> n]
Garbled == [kind |-> "garbled"]
-----------------------------------------------------------------------------
(* The conversions.                                                        *)

Byte(n) == n % 256

(* bin_to_b64, with its padding: the characters of so many bytes. *)
bin_to_b64(size) == 4 * ((size + 2) \div 3)

(* A frame is written if the buffer has room for it, with a port only if   *)
(* there is a payload; otherwise the buffer stays as it was.               *)
LoRaMacSerializerData(room, bytes) ==
  LET needed == 12 + (IF bytes > 0 THEN 1 ELSE 0) + bytes
  IN  [written |-> needed <= room, size |-> IF needed <= room THEN needed ELSE room]

(* The MIC of the first so many bytes, whose number is cut to a byte, is   *)
(* the one a receiver computes over a frame of this size.                  *)
LoRaMacComputeMic(covered, size) == Byte(covered) = size - 4

(* Mutant: the MIC does not cover the port. *)
Mutant_serialize_uplink(bytes) ==
  LET data == LoRaMacSerializerData(Byte(13 + bytes), bytes)
  IN  [size  |-> data.size,
       mic   |-> data.written /\ LoRaMacComputeMic(8 + bytes, data.size),
       bytes |-> bytes]

(* The buffer's size is a byte; the MIC always covers a port. *)
serialize_uplink(bytes) ==
  LET data == LoRaMacSerializerData(Byte(13 + bytes), bytes)
  IN  [size  |-> data.size,
       mic   |-> data.written /\ LoRaMacComputeMic(9 + bytes, data.size),
       bytes |-> bytes]

(* Two digits a byte, and the number of bytes is a byte. *)
serialize_hex_uplink(length) == serialize_uplink(Byte(length \div 2))

generateJoinRequest == [size |-> 23, mic |-> TRUE, bytes |-> 0]

(* Mutant: any text is taken. *)
Mutant_ngw_json_to_packet(f) == f

(* The JSON texts ngw_rx_to_json and ngw_tx_to_json, read back by          *)
(* ngw_json_to_rx and ngw_json_to_tx: a packet is left empty when its      *)
(* payload has more than 256 characters.                                   *)
ngw_json_to_packet(f) == IF bin_to_b64(f.size) > 256 THEN Empty ELSE f

FrameSize(d) == 12 + d.fopts + (IF d.port = "none" THEN 0 ELSE 1 + d.bytes)

(* txpk.size is taken at its word, the bytes of txpk.data that it leaves   *)
(* out are cut off and those it adds are zero.                             *)
txpkt(d) == [size  |-> IF d.misstated = 2 THEN FrameSize(d) - 1
                                          ELSE FrameSize(d) + d.misstated,
             mic   |-> d.misstated = 0,
             bytes |-> d.bytes]

(* Mutant: the MAC commands count as payload. *)
Mutant_LoRaMacParserData(size, d) == IF size > 12 THEN size - 13 ELSE 0

(* The payload of a frame of this size: what the header, the MAC commands, *)
(* the port and the MIC leave.                                             *)
LoRaMacParserData(size, d) ==
  IF size - d.fopts - 12 > 0 THEN size - d.fopts - 13 ELSE 0

(* What may be told of a downlink.  The frame counter of the MIC is the 16 *)
(* bits that the frame has.  The payload is decrypted with the key of      *)
(* applications, whatever the port.  The text of an empty payload is never *)
(* written nor ended: it is what the memory held before.                   *)
deserialize_downlink(f, d) ==
  LET n == LoRaMacParserData(f.size, d)
  IN  IF ~f.mic \/ d.counter >= 65536 THEN {Nothing}
      ELSE IF n = 0 THEN {Clear(0), Garbled}
      ELSE {IF d.port = "mac" THEN Garbled ELSE Clear(n)}

(* An accept has a list of channels or not; a longer one is not parsed. *)
LoRaMacParserJoinAccept(size) == size <= 17 \/ size - 17 = 16

generateJoinAccept(f) ==
  IF f.mic /\ LoRaMacParserJoinAccept(f.size) THEN Clear(0) ELSE Nothing
-----------------------------------------------------------------------------
Running == \A p \in Programs : boot[p] = "running"

Topic(p, action) == routes_getTopicFromAction(p, action)

FrameInit ==
  /\ place = "none" /\ message = [kind |-> "none"] /\ topic = NULL
  /\ frame = Empty /\ got = Nothing

Init == RouteInit /\ FrameInit

Idle == Running /\ place = "none"

HandedIn(m, f, to) ==
  /\ message' = m /\ frame' = f /\ place' = to
  /\ UNCHANGED <<routeVars, topic, got>>

(* Publishing by an action: the library refuses a topic that is NULL. *)
Publish(p, from, action, to) ==
  /\ place = from
  /\ topic' = Topic(p, action)
  /\ place' = IF topic' = NULL THEN "refused" ELSE to
  /\ UNCHANGED <<routeVars, message, got>>

Arrives(from, to) ==
  /\ place = from
  /\ place' = to
  /\ UNCHANGED <<routeVars, message, topic>>

(* The node's handler compares topics with these actions', and adds its    *)
(* devEUI to them: where one of them is NULL the process ends.             *)
Handles(actions) == \A action \in actions : Topic("node", action) # NULL

EndsProcess(from) ==
  /\ place = from
  /\ place' = "ended"
  /\ UNCHANGED <<routeVars, message, topic, frame, got>>

(* A virtual node listens to the accepts of all devices, a radio node to a *)
(* topic of its own, and its driver has one for it.                        *)
Listened(radio) == IF radio THEN {"RDR", "RUS"} ELSE {"JA"}

Listens(radio) == Handles(Listened(radio))

send_join_request_await_accept ==
  Idle /\ \E radio \in BOOLEAN :
    /\ Listens(radio)
    /\ HandedIn([kind |-> "request", radio |-> radio], generateJoinRequest,
                IF radio THEN "ask_radio" ELSE "ask")

AskToJoin ==
  /\ \/ Publish("node", "ask", "JR", "to_gateway")
     \/ Publish("node", "ask_radio", "RUS", "driver")
  /\ UNCHANGED frame

ListenFails ==
  /\ Idle /\ \E radio \in BOOLEAN : ~Listens(radio)
  /\ EndsProcess("none")

Disseminate ==
  Idle /\ \E radio \in BOOLEAN, length \in TextLengths :
    /\ Listens(radio)
    /\ HandedIn([kind |-> "uplink", radio |-> radio, length |-> length], Empty,
                "uplink")

(* The handler's comparisons, the frame, and its publish. *)
send_uplink_no_ack ==
  LET compared == {"RDR", "DWn", "disUPn"}
  IN  \/ /\ place = "uplink" /\ Handles(compared)
         /\ frame' = serialize_hex_uplink(message.length)
         /\ IF message.radio THEN Publish("node", "uplink", "RUS", "driver")
                             ELSE Publish("node", "uplink", "UPn", "to_gateway")
      \/ EndsProcess("uplink") /\ ~Handles(compared)

(* A gateway that cannot subscribe to one of its topics has ended. *)
GatewayListens ==
  \A action \in {"JR", "UPn"} : Topic("gateway", action) # NULL

(* A join request or an uplink, by the action of its topic; a topic that   *)
(* was subscribed and has no action any more ends the process.             *)
on_message_received ==
  /\ place = "to_gateway" /\ GatewayListens
  /\ topic \in {Topic("gateway", "JR"), Topic("gateway", "UPn")}
  /\ \/ /\ Arrives("to_gateway", "stack")
        /\ Topic("gateway", topic) \in {"JR", "UPn"}
        /\ frame' = ngw_json_to_packet(frame)
        /\ UNCHANGED got
     \/ EndsProcess("to_gateway") /\ Topic("gateway", topic) = NULL

(* The server takes a frame whose MIC is right. *)
ServerTakes(from) ==
  /\ Arrives(from, "server")
  /\ got' = IF frame.mic THEN Clear(frame.bytes) ELSE Nothing
  /\ UNCHANGED frame

(* The text of a packet always fits into the datagram. *)
thread_up == ServerTakes("stack")
DriverTransmits == ServerTakes("driver")

ServerSends ==
  Idle /\ \E radio \in BOOLEAN :
    LET to == IF radio THEN "to_node" ELSE "resp"
    IN  /\ Listens(radio)
        /\ \/ \E size \in Accepts :
                HandedIn([kind |-> "accept", radio |-> radio],
                         [size |-> size, mic |-> TRUE, bytes |-> 0], to)
           \/ \E d \in Downlinks :
                /\ radio => d.misstated = 0
                /\ HandedIn([kind |-> "downlink", radio |-> radio, sent |-> d],
                            txpkt(d), to)

(* The type of the frame tells the topic. *)
lgw_send ==
  /\ GatewayListens
  /\ Publish("gateway", "resp",
             IF message.kind = "accept" THEN "JA" ELSE "DWn", "to_node")
  /\ UNCHANGED frame

(* What the driver sends is a bare text, of frames that fit a packet. *)
Received == IF message.radio THEN frame ELSE ngw_json_to_packet(frame)

JoinAcceptArrived ==
  \/ /\ Arrives("to_node", "node") /\ message.kind = "accept"
     /\ Handles({"RDR"})
     /\ ~message.radio => Topic("node", topic) = "JA"
     /\ frame' = Received
     /\ got' = generateJoinAccept(frame')
  \/ EndsProcess("to_node") /\ message.kind = "accept" /\ ~Handles({"RDR"})

DownlinkArrived ==
  LET compared(radio) == {"RDR", "disDWn"} \cup (IF radio THEN {} ELSE {"DWn"})
  IN  \/ /\ Arrives("to_node", "disseminator") /\ message.kind = "downlink"
         /\ Handles(compared(message.radio))
         /\ ~message.radio => topic = Topic("node", "DWn")
         /\ frame' = Received
         /\ got' \in deserialize_downlink(frame', message.sent)
      \/ /\ EndsProcess("to_node") /\ message.kind = "downlink"
         /\ ~Handles(compared(message.radio))

(* The way is free for the next message. *)
Arrived ==
  /\ place \in {"server", "node", "disseminator", "refused"}
  /\ place' = "none" /\ message' = [kind |-> "none"] /\ topic' = NULL
  /\ frame' = Empty /\ got' = Nothing
  /\ UNCHANGED routeVars

Boot == RouteNext /\ UNCHANGED pathVars

Next ==
  \/ Boot
  \/ send_join_request_await_accept \/ ListenFails \/ AskToJoin
  \/ Disseminate \/ send_uplink_no_ack
  \/ on_message_received \/ thread_up \/ DriverTransmits
  \/ ServerSends \/ lgw_send \/ JoinAcceptArrived \/ DownlinkArrived
  \/ Arrived

Spec == Init /\ [][Next]_vars
-----------------------------------------------------------------------------
(* Types; and a packet of the gateway's stack holds 192 bytes at most, so  *)
(* that thread_up's room of 341 characters suffices.                       *)
TypeOK ==
  /\ RouteTypeOK
  /\ place \in {"none", "ask", "ask_radio", "uplink", "to_gateway", "driver",
                "stack", "server", "resp", "to_node", "node", "disseminator",
                "refused", "ended"}
  /\ topic \in Keys \cup {NULL}
  /\ frame \in [size : 0 .. 256, mic : BOOLEAN, bytes : 0 .. 255]
  /\ got.kind \in {"nothing", "clear", "garbled"}
  /\ place = "stack" => frame.size <= 192

(* The server gets an uplink as it was sent exactly if its text has 1 to   *)
(* 179 bytes (242 by radio).  Whatever else arrives is the beginning of a  *)
(* text of 256 bytes or more: its length was taken modulo 256.             *)
UplinkAsSent ==
  place = "server" /\ message.kind = "uplink" =>
    LET sent == message.length \div 2
    IN  /\ got = Clear(sent) <=> sent \in 1 .. (IF message.radio THEN 242 ELSE 179)
        /\ got # Nothing => got.bytes = sent \/ (sent >= 256 /\ got.bytes < sent)

(* The disseminator is told something of a downlink exactly if its size is *)
(* the stated one and 192 bytes at most (any by radio) and its counter     *)
(* fits 16 bits; and what it is told is the payload sent, unless that was  *)
(* empty or a command of the MAC layer.  An accept always arrives.         *)
DownlinkAsSent ==
  /\ place = "disseminator" =>
       LET d       == message.sent
           payload == IF d.port = "none" THEN 0 ELSE d.bytes
       IN  /\ got # Nothing <=>
                /\ d.misstated = 0 /\ d.counter < 65536
                /\ message.radio \/ FrameSize(d) <= 192
           /\ got # Nothing /\ payload > 0 =>
                (got = Clear(payload) <=> d.port = "app")
  /\ place = "node" => got = Clear(0)
=============================================================================
