# LoRaWAN emulation: a TLA+ verification project

The repository emulates a LoRaWAN network in containers: end devices and a gateway, both written
in C, talk over an MQTT broker instead of a radio; the gateway talks UDP (the Semtech packet
forwarder protocol) to a real LoRaWAN network server. This directory holds TLA+ models of the
program's own logic, the TLC configurations that check them, and TLAPS proofs about them.

Paths below are relative to `src/end-device/to-copy/node` (**node**) and
`src/gateway/to-copy/gateway-v1.0.1` (**gateway**).

## 1. The system

```
 disseminator --"/DUplink/"+devEUI-->  end device  --"/JoinReq","/Uplink"-->  gateway  --UDP 1700--> network
 (Node-RED)   <-"/DDownlink/"+devEUI-  (N of them) <-"/JoinAcpt","/Downlink"- (one)    <------------ server
                                           \--"/Radio/..."+devEUI-- radio driver (radio nodes only)
```

Every arrow but the last passes through one MQTT broker. The accept and downlink topics are
*shared*: every virtual device sees every other device's accepts and downlinks, and tells its own
by the MIC alone. Two properties of the deployment matter: a node's container has no restart
policy, and its `config.json` (which holds `last_dev_nonce`) is on a volume that outlives it.

| Component | State it keeps | Operations | Interacts with | What makes it correct |
|---|---|---|---|---|
| Node: join and message handling (`lora_node.c`, `lora_node_communication.c`, `initializer.c`) | `lorawan_connected`, `obj` (the accept), session keys, `lastDevNonce`, `sequenceCounter`, `msg_received_mutex`, a condition variable | `executeJoin`, `on_message_received`, uplink, downlink, ready alert | MQTT client (calls, callback), broker, disk | one join per boot with the keys of the DevNonce asked with; uplink counters without gap or repetition; every message served; the join ends |
| Node: DevNonce persistence (`save_last_devNonce`, `parse_lorawan_info`) | `last_dev_nonce` in `config.json` | read at boot, rewrite after the join | network server (refuses used DevNonces) | never ask with a DevNonce whose successor was saved; survive crashes |
| Node: MQTT client (`enmqtt.c`) | topics, `changing_topics`, loop thread, `enmosq`, its flag and mutex | listen, change topics, publish, stop, reconnect | broker | no message handled under the wrong topics; one client; nobody stuck in a publish; the loop survives a broken connection |
| Node: LoRaWAN frames (`actions*.c`) | none | build and check frames | vendored `loramac/` | keys and counters of a frame are the session's |
| Gateway: packet stack (`gateway_stacks.c`) | ring of `PKT_STACK_SIZE` slots, two indexes, a mutex | `push_r`, `pop_r` | MQTT callback thread pushes, `thread_up` pops | first in, first out, nothing lost |
| Gateway: upstream (`thread_up`, `lgw_receive`, `on_message_received`) | fetched packets, datagram, upstream counters and their mutex | fetch, filter, send, await PUSH_ACK | stack, server, main thread's reports | order, each packet at most once, consistent counters, progress |
| Gateway: downstream (`thread_down`, `lgw_send`) | token, `req_ack`, `autoquit_cnt`, downstream counters and their mutex | poll, PULL_ACK, PULL_RESP, publish, auto-quit | server, concentrator mutex, main thread | every frame accounted for, one acknowledgement per poll, no false auto-quit |
| Gateway: main thread (`main` of `basic_pkt_fwd.c`) | quit flags, reports | report, join, cancel, exit | both threads, signals | the process ends when told to, from wherever its threads are; reports add up |
| Gateway: MQTT client (`gwmqtt.c`) | `gwmosq`, its flag and mutex | listen, publish from three threads, reconnect | broker | as the node's |
| Route map (`routes_manag.c`, `hash_map_manager.c`) | hash map of actions and topics, filled at boot | put, get | all of the above | what was put is found |
| Packet JSON conversions (`packet_parsings.c`, `gateway_parsings.c`) | none | struct to JSON and back | both MQTT handlers | round trip within the size limits |

Hard behaviours, which `PROJECT.json` lists line by line as hazards:

* two threads of a node share a dozen variables with almost no locking: the accept can be handled
  before anybody waits for it, a message can be read before `lorawan_connected` or
  `changing_topics` is set and handled after;
* a handler that returns on some branches without unlocking its mutex;
* a configuration file that is emptied, then rewritten, and a process that may be killed in between;
* a ring whose full and empty states look the same;
* UDP answers that are late, lost, duplicated or carry another request's token;
* three mutexes taken nested by three threads, a `pthread_cancel` of a thread that may hold two;
* `exit` called by a worker thread, in a publish that cannot connect or over a packet it has no text for,
  with the other threads wherever they are;
* a broken broker connection that two parties repair at once, the library and the program, with
  two clients under one client id and subscriptions that belong to neither;
* a hash map that drops pairs when three keys share a bucket, and answers `NULL` for a topic;
* lengths that are cut to a byte, limits of a buffer and of a JSON text, empty payloads, a payload
  on the MAC port, a 32-bit counter of which a frame carries 16 bits.

## 2. The modules

| Module | What it is | Extends / instantiates |
|---|---|---|
| `PacketQueue` | abstract: a queue that loses its whole backlog when it reaches `Size` pending packets | |
| `GatewayStack` | the ring of `gateway_stacks.c` | implements `PacketQueue` |
| `GatewayStackHistory` | the ring with history variables for the packets accepted and not popped | `GatewayStack` |
| `GatewayStack_proof` | proofs | `GatewayStackHistory` |
| `NodeSession` | abstract: what a node promises the network server | |
| `EndNode` | a node from boot to ready and beyond, two threads and the broker | implements `NodeSession` and, boot by boot, `DevNonceStore` |
| `MCEndNode` | the traffic of the instances of `EndNode` | `EndNode` |
| `EndNode_proof` | proofs | `EndNode` |
| `DevNonceStore` | the DevNonce on disk across boots and kills; abstract for `EndNode` | |
| `DevNonceStore_proof` | proofs | `DevNonceStore` |
| `GatewayShared` | quit flags, the end of the process, concentrator mutex, `sig_handler` | |
| `GatewayUplink` (`MCGatewayUplink`) | MQTT callback, `thread_up`, upstream counters | `GatewayShared`; the stack is an instance of `PacketQueue` |
| `GatewayDownlink` | `thread_down`, downstream counters | `GatewayShared` |
| `GatewayUplink_proof`, `GatewayDownlink_proof` | proofs | `GatewayUplink`, `GatewayDownlink` |
| `Gateway` (`MCGateway`) | main thread, signals and shutdown, composed with the two threads | `GatewayUplink`, `GatewayDownlink` |
| `Gateway_proof` | proofs | `Gateway`, `GatewayUplink_proof`, `GatewayDownlink_proof` |
| `MqttClient` | the MQTT client of a node or of the gateway while connections break | |
| `MqttClient_proof` | proofs | `MqttClient` |
| `RouteMap` | the route maps of node and gateway, and their loading | |
| `FramePath` (`MCFramePath`) | a frame through the conversions and routes of both programs | `RouteMap` |
| `FramePath_proof` | proofs, those about the route map first | `FramePath` |

Definitions named `Mutant_...` are not part of a specification. Each is a plausible bug in the
definition that follows it (a dropped guard, a missing unlock, an off-by-one), and `PROJECT.json`
names the property it violates: that is how we know that a property says something about the code.

### Packet stack

`stack_r`, `sp_r` (write index) and `rsp_r` (read index) are those of the code. Both functions run
under the ring's mutex, so each is one action; `last` is what the last call returned. `push_r`
wraps the write index when it *comes in* at the end, `pop_r` wraps the read index when it *goes
out* at the end, and `get_remaining_slots_read` takes equal indexes for empty: all of it is
translated as it stands. `PacketQueue` says in one line what this amounts to: a FIFO whose
backlog vanishes on the push that would make it `Size` long. `Contents` in `GatewayStack` is the
refinement mapping.

### End node

`main` is the main thread's place in `executeJoin`, `cb` the MQTT loop thread's place in
`enmessage_callback`/`on_message_received`, `loop_thread` that of `enmqtt_loop`. One action is a
stretch of code in which the thread touches shared state once. The places where the two threads
can interleave are between the publication of the join request, `pthread_cond_wait`, the two
writes of `TakeAccept`, the save, the four steps of the topic change, `set_connected` and the
alert on one side; and between the test of `changing_topics`, the lock, the read of
`lorawan_connected`, the test of `obj`, the derivation of the keys and the signal on the other.

* Keys and frames are abstracted to the DevNonce the keys are made of: a session is "the keys of
  DevNonce n", and a frame is for this device (`accept`, `data`), for another (`foreign`) or one
  of the radio driver's answers. `asked` is the DevNonce that the network saw.
* `communication_type` is chosen from `CommTypes` in `Init`, as `parse_configuration_file` reads it
  from `config.json`; it decides the topic of the accept. An SDR node (2) joins like a
  virtual one (0); the text it prints its uplinks to is not modelled. `send_uplink_no_ack` would wait
  for `lorawan_connected`, but its caller is reached only when that is set: `SessionInv` has
  `cb = "connected" => lorawan_connected`.
* The commands to the broker (`ctl`) and its messages (`inbox`) are two FIFO channels, as they are
  two directions of one TCP connection. Messages of other parties may come at any time to the
  topics subscribed; frames for this device only once the network has seen its request.
* `pthread_cond_signal` wakes the main thread only when it is waiting. The wait for the accept
  (`lora_node_communication.c:418`) may end spuriously, as POSIX allows. The waits of `enmqtt_loop`
  (`enmqtt.c:256`) and of `main` after the join (`initializer.c:31`) are taken to end on their signals only.
* `mosquitto_loop_stop(.., true)` cancels the loop thread in the middle of its handler (`LoopStop`): what the
  handler had locked stays locked, and unsubscribing, disconnecting and destroying the client leaves no
  message in either direction. A cancellation does not take effect in `pthread_mutex_lock` nor between the writing
  of `obj` and the signal, where there is no cancellation point.
* The topic of the `"error"` reply to a foreign downlink is freed just before it is used
  (`lora_node_communication.c:237-241`): `Downlink` chooses between the topic and what the memory
  may hold. The buffer of an uplink is read after the function that owns it returned
  (`actions.c`); the model takes what was serialized.
* The driver's answer "no_downlink" has a character that is not base64; decoding it as an accept ends the
  process (`UndecodableExits`), which is what happens to a radio node that joins out of reach. Its answer
  "error" decodes to something that is no accept.
* The broker connection holds in this module; what a broken one does is in `MqttClient`.
* `save_last_devNonce` is two actions, `OpenConfig`, which empties the file (`stored` is `Torn`), and
  `WriteConfig`, which writes it or, as the results of `fprintf` and `fclose` are not looked at, leaves it torn with
  the node joined all the same; the handler may run between them. `OpenFails` is an `fopen` that is refused: the
  `fprintf` to `NULL` ends the process.
* Initialisation before `executeJoin`, `send_measures` and the alert's text are abstracted.

### DevNonce store

The same join, seen from the disk: `Boot` reads `config.json` (`BootFails` when it is not JSON),
`OpenConfig` is `save_last_devNonce` up to `fopen(.., "w")`, which empties the file, `WriteConfig`
the rest (which a full disk leaves torn, unnoticed), and `Crash` may come between any two steps. The server is external: it grants a session
to a request or not. One assumption is made of it, and named in the module: an answer does not
outlive the process that asked, since a restart by hand takes longer than a round trip.

The module has one process and no threads. That this is what a boot of the two-threaded node comes to
is `ImplementsStore` in `EndNode`: the mapping hides the threads, the condition variable and the broker,
and takes the request as in flight until the accept is in `obj`; to the store a main thread that gave up is a
process that is gone, and an accept that the handler verifies after that is no grant.

### Gateway

`up` and `down` are the places of `thread_up` and `thread_down`, `gw_main` that of the main
thread; each mutex variable holds its owner, so that nesting and a cancelled owner are visible.
What a thread does while it holds a mutex that all readers of that data take is one action;
where a mutex stays locked over several steps (`mx_concent` over a fetch, `mx_meas_up` over the
wait for a PUSH_ACK, `mx_meas_dw` from a PULL_RESP to its frame) it is locked in one action and
unlocked in another. `lgw_receive` pops packet by packet, since the callback thread may push
between two pops, and answers 0 or 1 by the code's own arithmetic. Packets are numbered in the
order of arrival, so that order and repetition can be read off `sent`.

The process ends in three ways. `MainExit` is the end of `main`. `UpForeign` is `thread_up` over a packet
of a modulation, datarate, bandwidth or coderate it has no text for: `Foreign` says which packets those are (this
repository's nodes send constants that it knows). `UpPublishExits` and `DwPublishExits` are the publishes of the
two worker threads (measures, and the frames of `lgw_send`) that find no client and cannot connect
one (`gwmqtt.c:83-87`). All three call `exit`, which leaves every other thread where it is: after `exited` nothing
moves. `lgw_receive` never answers `LGW_HAL_ERROR`, so that `basic_pkt_fwd.c:579-581` is not reachable.

The server's answers are choices: `UpAck`/`UpNoAck` for a PUSH_ACK. A datagram has a random token, the
server sees it or not (`pushed`), and an acknowledgement may come with the token of any datagram it has
seen, late or again (`Answered`); `thread_up` counts the one that has its last token. `reused` counts the datagrams
that drew a token of an earlier one, which is how a late acknowledgement can be taken for a new one. Downstream, `DwAck` for a PULL_ACK with
the token of the last poll, `DwStrayAck` for any other (an earlier token, a duplicate). Tokens are
random, so a later one may equal an earlier one. A PULL_RESP that does not parse changes nothing
and is a stuttering step. `pthread_cancel` takes effect at a cancellation point
(`DownCancelled`), whatever mutexes are held.

### MQTT client

One module for both programs, whose clients are copies of each other but for the disconnect
callback; `role` says whose it is. `Script` is the main thread's sequence of MQTT operations as the
sources order them (`executeJoin` of a virtual node, of a radio node, `mqtt_listen` of the
gateway), so that a connection can break between any two of them; the gateway's two worker threads
publish when they like. `enmqtt_publish` is three steps: `encheck_initialized`, which makes a
client under the mutex when the flag is clear, the connection of that client, and the sending
through *whatever client the global names by then*. The loop thread handles messages, notices that
its client is cut off, runs the disconnect callback and reconnects.

Two things outside `src/` matter, and are modelled from how the code uses them. The broker keeps
one connection per client id, and all clients of a process have the id of its `config.json`: every
CONNECT takes the session over, with a clean one, so that its subscriptions are gone. And
libmosquitto's loop serves the client it was started with, calls the callback when that loses
its connection, and reconnects it, when the broker is there: `reachable` says so, changes with each
drop, and again at any time while no connection holds (`ReachableTurns`). An attempt of the library that fails is a
stuttering step, as it just tries again; an attempt of the program that fails ends the process (`ConnectFails`). A message given to a client without a socket is refused; one
given to a socket that died unnoticed may be refused or lost.

### Route map

`map` holds the chain of each bucket. `Chained` is what `map_addElement` does to a bucket: the new
element becomes the one after the head, and what was there is dropped, so that a bucket ever holds
its first and its last pair. `map_hash` is a parameter: any function into the buckets. Maps are
filled before any thread exists and only read afterwards; that is why loading (`RouteNext`) and
the use of the map (`FramePath`) are phases of one behaviour.

### Frame path

One frame (a join request, an uplink, an accept, a downlink) goes through the conversions of both
programs, from the disseminator's hexadecimal text to the server or back. A frame is abstracted to
what the conversions can get wrong: its size, how many payload bytes it carries, and whether its
MIC is the one that the receiver computes for a frame of that size. Texts are their sizes.
`serialize_uplink` keeps the arithmetic of the code: the number of bytes, the buffer's size and the
length that the MIC covers are each a byte, and the MIC covers a port even when an empty payload
has none. The topics come from the route map: where an action has none the library refuses the
publish (`refused`), and a comparison with `NULL` ends the process (`ended`).

What `deserialize_downlink` tells of an empty payload is left open, `Clear(0)` or `Garbled`: the
text is allocated and neither written nor ended. A payload on port 0 is decrypted with the
application key, hence `Garbled`.

## 3. The runs

| Run | Shows | Bounds, and why they are enough |
|---|---|---|
| `GatewayStack_ring` | indexes stay in the ring; the ring implements `PacketQueue`; nothing is lost while fewer than `Size` packets are pending | 4 slots, 2 packets, 9 pending: more than twice round the ring, so every relative position of the indexes and both wraps occur; the proofs cover every size |
| `GatewayStack_overrun` | *violated*: a pop that reports `STACK_EMPTY` leaves accepted packets behind | as above |
| `EndNode_join` | `NodeInv` (inductive, see 4), `SessionMatchesRequest`, `DeafForever`, refinement of `NodeSession` and of `DevNonceStore` (`ImplementsStore`), `HeardAcceptEndsJoin`, `ConnectedServesAll` | virtual and radio node; any 4 of 10 messages of all topics and bodies: one to be the accept, one to race with it, one of each kind after; DevNonces modulo 2, so the wrap occurs |
| `EndNode_ready` | *violated*: a node that announces "ready" can still handle messages | 3 messages |
| `EndNode_wakeup` | *violated*: a node that got a valid accept ends its join | 2 messages, one node alone on its topics |
| `GatewayUplink_forward` | `SentInOrder`, `ReportsAddUp`, `AckedWereSent` (no more acknowledgements counted than datagrams that reached the server or had a token of one that did), `LossesKnown` (the five ways to lose a packet, and no other), `BacklogDrains` | 5 packets, among them one of every CRC status and one that ends the process (`Foreign`); a stack of 4 and a fetch of 2, so that both fill up and the stack overruns; 2 tokens, so that one repeats and one does not |
| `GatewayUplink_fetch` | *violated*: every good packet of a fetch is forwarded | as above, one token, no packet that ends the process |
| `GatewayDownlink_poll` | `AckedOnce`, `QuitsOnlyUnacked` | 3 polls, 2 tokens (so one repeats), threshold 2, 2 PULL_RESPs |
| `Gateway_threads` | `OneInConcentrator`, `WaitsEnd` (no circle of threads that wait for each other, nor a wait for a thread that has ended), `ReportsConsistent`, `QuitEnds`, `AutoquitEnds` | one packet, two polls, one PULL_RESP, one report, threshold 1: each thread goes through every one of its places, in every interleaving with the others, and a publish may end the process; tokens that differ upstream and packets that end the process are left to `GatewayUplink_forward` |
| `DevNonceStore_crash` | `SpentNeverAsked`, `AsksSameOrNext`, `TornIsFinal` | 5 DevNonces, 4 sessions, any number of crashes |
| `MqttClient_drops` | `OneClientWithoutDrop`, `NeverHearsAgain`, `MuteTillNextDrop`, `PublishReturns`, `LoopComesBack` | all three roles; one broken connection, at any point, with the broker reachable afterwards, later or never: takeovers cut a client off as well and are not bounded by it; 3 publishes of the gateway's threads, so that both can be in a publish while the callback runs and one may follow; 2 messages heard, so that a handler runs before and another could run after the break. `MaxClients` is 50 and never reached |
| `FramePath_routes` | `PairsFound`, `UplinkAsSent`, `DownlinkAsSent` | see below |

`FramePath_routes` takes every uplink length at which the number of bytes modulo 256, the frame, or
its base64 text crosses a limit, an odd one, and one on each side of each limit; accepts of both
sizes; downlinks with and without MAC commands, port and payload, around the limit of 192 bytes,
with frame counters on both sides of 16 bits, and with a stated size that is right, one more or one less (no frame has more than 255 bytes,
which is the physical layer's limit and part of `FrameAssumption`).
The mappings are those of the repository's `config.json` files; the same with the prefix
`/net68`, which puts three keys into bucket 87 and loses the pair of `"JA"`; one for each
remaining action, with topics chosen so that the hash function of the code crowds it out of its bucket; and
one that maps two actions to one topic, which ends the process. Every mapping of the node is
combined with every one of the gateway. The buckets in `HashOf` are those of `map_hash` in C, modulo 100.

What the limits come to is in the two properties: an uplink arrives exactly if it has 1 to 179 bytes
(242 by radio), and otherwise nothing does, or the beginning of a text of 256 bytes or more; a downlink
arrives if its frame has at most 192 bytes, its stated size is right and its counter is below 65536.

`MqttClient_drops` describes, rather than excludes, what a broken connection does to a program that does not
expect it: one client and no loss as long as nothing breaks; after a break no message is ever handled again;
a process whose loop won the session back after the flag was set publishes nothing any more until the next
break; and through all this no thread is stuck in a publish, though the callback publishes from the loop thread
and works on the client outside the mutex. Once the broker stays reachable, a loop thread that lost its connection
comes back (to a connection without subscriptions), or the process has ended; while the broker is away nothing is said.

Deadlock is not checked where the system may stop: a failed or deaf node, bounded traffic, a
process that exited.

### Fairness

* `EndNode!FairSpec`: weak fairness of the main thread, of the MQTT loop thread, of its creation
  and of the broker, which keeps reading what it is sent. Threads that can run are run by the
  scheduler. Nothing is assumed of failures, spurious wakeups, other parties' messages: in
  particular an accept is never owed, so no property says that a join succeeds.
* `GatewayUplink!UplinkSpec`: weak fairness of `thread_up`. Its `recv` has a timeout, so
  `UpNoAck` needs no answer from the server. No exit is owed.
* `Gateway!Spec`: weak fairness of each worker thread as a whole (which forces no answer of the
  server either: the keepalive time and the timeouts always offer another step; nor an exit), and strong
  fairness of the main thread. The main thread asks for `mx_meas_up` and `mx_meas_dw`, which the
  workers take and release again and again; that it gets a mutex that is free infinitely often is
  what the default mutex of Linux gives in practice, and what stopping rests on. That only
  finitely many PULL_RESPs arrive (`MaxResps`) matters as well: a server that never stops sending
  them could keep the thread from its quit test.

* `MqttClient!Spec`: weak fairness of the main thread, of the loop thread and of each worker's publish
  once begun: an attempt to connect succeeds or fails in the end. That it succeeds is not owed, nor is the broker's
  coming back, nor a message or the begin of a publish. The library's retries while the broker is away are stuttering
  steps, so `LoopComesBack` is stated under `<>[]reachable`: from some time on the broker can be reached.

### Where code and documentation disagree

* **Lost wakeup** (`EndNode_wakeup`). `lora_node_communication.c:415-419` waits on a condition
  variable without a predicate, under a mutex that is local to the function: an accept that is
  handled before the wait is signalled to nobody.
* **Deaf node** (`EndNode_ready`). `on_message_received` returns at `:88` and falls out at `:128`
  with `msg_received_mutex` locked. Any message handled after the accept and before
  `set_connected` (another device's accept on the shared topic, or a downlink right after the
  topic change) leaves the node deaf for ever: `DeafForever`. The node says it is ready all the same.
* **Fetches of more than one packet** (`GatewayUplink_fetch`). `lgw_receive` answers 1 for any number
  of packets popped, and `thread_up` looks at that many.
* **Overrun** (`GatewayStack_overrun`). The push that fills the ring makes it read as empty.

A PULL_ACK that comes after the next poll does not stop the auto-quit: only the acknowledgement of the
last poll resets the counter, and `QuitsOnlyUnacked` is stated accordingly.

## 4. The proofs

`GatewayStack_proof`, for every ring size and set of packets:

* `TypeCorrect`, `FullIsDead`: the indexes stay in the ring, and the test for full can never be true.
* `RingImplementsQueue`: `Spec => ImplementsQueue`. The abstract queue is
  `Contents` = the slots from the read index to the write index, round the end of the ring. The
  lemmas `PushStep`, `PopStep` and `PopEmptyStep` show that a push appends to it (or empties it when
  the indexes meet), that a pop takes its head, and that a pop of an empty ring changes nothing.
* `NothingIsLost`: `NothingLostBeforeOverrun`. `HistoryStep` shows that until the first overrun a push makes
  the backlog longer by one and a pop makes it shorter by one, as they do the number of pending packets.

`EndNode_proof`, for every set of traffic, every bound on it, every modulus of the DevNonce from two on and every
communication type:

* `TypeCorrect`: `TypeOK`.
* `InvariantHolds`: `NodeInv`, the conjunction of `RequestInv`, `FrameInv` and `SessionInv`. None of
  the properties below is inductive alone. That the session has the keys of the request depends
  on the value of `lastDevNonce` when the handler derives the keys, in another thread than the one
  that increments it. So the invariant must say that a request still in `ctl` carries
  `lastDevNonce` and is the only one (`RequestInv`), that an accept exists only after the network
  saw the request (`FrameInv`), and that a verification in progress means `obj` is not set, so the
  main thread cannot have incremented yet (`SessionInv`). It also ties `stored`,
  `lorawan_connected` and the uplink counter to the main thread's place.
* `SessionMatches`, `NonceSaved` (a connected node has the DevNonce after its session's in `config.json`, or a torn file):
  consequences of it.
* `DeafnessIsPermanent`: an action property; a locked mutex with the handler outside can only stay.
* `NodeImplementsSession`: each action is a step of `NodeSession` or a stutter, under the
  mapping of the main thread's places to phases.
* `CountersNumberUplinks`: the counter of each uplink is its place in the order of sending, and its keys are the
  session's. It is proved of `NodeSession` (`NumberingStep`) and inherited through the refinement, so that the
  two threads are not looked at again.
* `NodeImplementsStore`: `Spec => ImplementsStore`. `StoreStutter` names the five variables the mapping reads; every
  action that leaves them alone is a stutter. `StoreRefinement` goes through the others. What takes
  `NodeInv` is the accept, which the handler may find with the main thread at any place: it must be one at which the
  request is in flight with the DevNonce in memory, or past giving up; and the write, after which the DevNonce
  spent is that of the session, or none if the file is torn. `FollowingDiffers` (a DevNonce is not its own successor,
  whence the modulus from two on) tells the two cases of the mapping apart before the save.

`GatewayUplink_proof`, for any number of packets of any status, any filter, stack size and fetch size:

* `UplinkTypeCorrect`: `UplinkTypeOK`, from `UpTyped`, which adds when `thread_up` holds `mx_meas_up` and
  that only the filter loop has packets left to look at.
* `PacketsInOrder`: `SentInOrder`, from `OrderInv`. A packet goes from the stack to `rxpkt`, to
  `dgram`, to `sent`, so order at the end needs order everywhere: each of the four sequences
  ascends and comes before the next, and all of them are at most `received`. That `dgram` comes
  after `sent` holds only until the datagram is sent (`UpFetch` starts it afresh, which is what the
  mutant of this property forgets). The lemmas `AppendOrder`, `TailOrder` and `ConcatOrder` say
  what the three operations on sequences do to the order.
* `CountersAddUp`: `ReportsAddUp`, from `CounterInv`, which adds that while `thread_up` waits for a
  PUSH_ACK its datagram is counted and not acknowledged; the lock keeps a report from resetting the
  counters in between.
* `AcksWereSent`: `AckedWereSent`, from `PushInv`: while `thread_up` waits with a token that the server has seen, one
  more acknowledgement may be counted. `PushStep` turns on the send, which alone can make that so.
* `LossesAccounted`: `LossesKnown`, an action property, from the type invariant and `FreshInv` (while
  `thread_up` fetches, the datagram is empty, so that no packet hides in it). `PacketsAppend`, `PacketsTail`, `PacketsConcat` and `PacketsPrefix`
  say what the operations on sequences do to the set of packets; `AccountedStep` shows for each action that what
  leaves `Kept` leaves it to an overrun, a fetch of several, the filter, a failing send or the end of the process.

`GatewayDownlink_proof`, for any number of polls, tokens, answers and any threshold:

* `DownlinkTypeCorrect`, `InvariantHolds`: `DownlinkTypeOK` and `DownlinkInv` = `FrameInv` (the counters
  balance but for the one frame on its way under `mx_meas_dw`) and `AckInv` (`autoquit_cnt` is zero
  from an acknowledgement to the next poll, and positive while a poll waits for one).
* `FramesAccounted` (each PULL_RESP of a report is sent or failed), `AcksCountOnce`: consequences. `QuitIsEarned`: an
  action property.
* `NoKeepaliveNoDownlink`: if the keepalive time is zero or less, `[]NeverListens`: polls follow each other without
  pause, and no acknowledgement or PULL_RESP is ever taken. `basic_pkt_fwd.h:102` says that a negative time
  disables the polls.

`Gateway_proof`, for the composition, any number of packets, polls, answers and reports:

* `GatewayInvHolds`: `GatewayInv`, which joins the invariants of the two threads with `ConcentInv` (who holds the
  concentrator's mutex is at a place that holds it), `OwnerInv` (a `thread_down` at a place without locks has none), `ExitInv` (past the join `thread_up` is done; only then is
  `thread_down` cancelled) and `BalanceInv`. `UplinkSide` and `DownlinkSide` show that every step of the composition
  is a step of a thread's own specification or leaves that thread's variables alone, so that the
  lemmas above carry over. The exception is the cancellation of `thread_down`, which may come while its frame
  is counted and not sent: from then on `FrameInv` may be false for ever, and what keeps `ReportsConsistent` true
  is that the main thread, past the join, makes no further report.
* `GatewayTypeCorrect`, `ConcentratorExclusive`, `ReportsStayConsistent`,
  `OrderAndAcksThroughout`: consequences. `LossesThroughout` and `QuitEarnedThroughout` carry the two action
  properties of the threads over to the composition.
* `NobodyWaitsForEver`: `WaitsEnd`. `OwnersAt` says at which places a thread can own each mutex and `AwaitsAre` for whom
  each thread can wait; `thread_up` never waits for the main thread, which owns a mutex within one action only, nor
  for a `thread_down` that waits, so no set of threads is closed under waiting. A cancelled `thread_down` may keep
  `mx_meas_dw` and `mx_concent`: that nobody asks for them any more is what `ExitInv` adds.

`DevNonceStore_proof`, for DevNonces of any modulus and any number of sessions below it:

* `StoreHolds`: `StoreInv` = `JoinInv` (memory, disk and network agree on the join under way),
  `SpentInv` (each spent DevNonce lies behind the one on disk by no more increments than sessions
  were granted, so too few to come round again; that is where `MaxSessions < NonceMod` is used) and
  `DiskInv` (the DevNonce on disk is that of the last session or the next).
* `SpentIsSpent`, `AtMostOneRepeated`, `TornStaysTorn`: consequences, the last an action property.

`FramePath_proof`, for every hash function, number of buckets and mapping, every text length and every downlink:

* `RouteTypeCorrect`, `PairsAlwaysFound`: `RouteTypeOK` and `PairsFound`, from `RouteInv`, which adds
  `Chains`: a bucket that no pair fell into is empty (`Unused`), one that a single pair fell into holds it
  (`Single`), any other holds its first and its last pair and no other (`Double`). `PairsFound` alone is not
  inductive: that a lookup finds a pair says nothing of what the next one will displace.
* `PairsFoundThroughout`: the same of the composition, whose frames never write a map.
* `UplinksAsSent`: `UplinkAsSent`, from `UplinkInv`, which says of each place on the way what the frame there
  is a function of the text handed in; `UplinkFrame` is the arithmetic of `serialize_hex_uplink` and
  `UplinkArrives` that of the limit of the JSON text.
* `DownlinksAsSent`: `DownlinkAsSent`, from `DownlinkInv` along the same lines, with `DownlinkArrives` and
  `AcceptArrives`.
* `PathTypeCorrect`: `TypeOK`. A topic is a key or nothing as a bucket has two elements at most (`TopicType`, from
  `RouteInv`), and a packet that went through JSON has at most 192 bytes (`PacketType`).

`MqttClient_proof`, for every role and any number of broken connections, publishes, messages and clients:

* `MqttInvHolds`: `MqttInv`. `ScriptShape` comes first: the operations of the main thread start with
  `encheck_initialized` and start the loop once, and the gateway's end there; it is proved from lemmas on
  concatenation rather than by running through the script. `ScriptInv` relates the main thread's place to the loop's;
  `ClientInv` says that a client still being made is never the loop's own (why a takeover hits the other one);
  `SubsInv` that a connection of the loop's client has no subscription once that client was cut off or is no
  longer in use; `DropInv` what holds until a connection breaks.
* `TypeCorrect`, `OneClient`: consequences. `Deaf` and `MuteTillDrop`: the action properties `NeverHearsAgain` and
  `MuteTillNextDrop`, the first from `SubsInv` at once; for the second, `MuteStep` shows for each operation
  that a mute process stays so: nobody makes a client as the flag is set, the loop's client sees no message
  as it has no subscription, and the client in use has no connection.

The assumptions are those on the constants (`EndNodeAssumption`, `StoreAssumption`,
`UplinkAssumption`, `DownlinkAssumption`, `SharedAssumption`, `GatewayAssumption`, `RouteAssumption`,
`FrameAssumption`, `MqttAssumption` and that of the ring), which TLC evaluates on the instances. The layout is the same throughout: a lemma per conjunct of the
invariant for the step, one named step per action, PTL in the last.

Only model-checked: all liveness (the prover has no liveness under fairness). Every safety property of the
passing runs is proved.

## 5. Not modelled, and why

* **gateway-v1.0.0**: an older copy that the Dockerfile does not build.
* **parson, AES, CMAC** and the bytes of `loramac/` and base64: vendored. What their callers decide by
  (sizes, ports, counters, MICs, characters that base64 refuses) is in `FramePath` and `EndNode`.
* **JSON fields** of packets other than payload and size: copied one by one. The one decision that reads them is
  the exit of `thread_up` on a modulation, datarate, bandwidth or coderate without a text
  (`basic_pkt_fwd.c:663-833`): `UpForeign` models it, and leaves open which packets have such fields.
* **Failures that the inputs cannot cause**: `snprintf` and `bin_to_b64` of `thread_up` have room enough, and
  `setsockopt` is called on a socket that is open; their exits are not modelled.
* **`map_hash` on long keys**: it overflows a signed integer and may index before the map. That is undefined, no key
  of the repository comes near it, and `RouteAssumption` excludes it.
* **The text of an SDR node's uplink** (`send_uplink_no_ack`, two digits per byte into an array sized for the
  bytes), and freeing of memory in general, but for the topic of the `"error"` reply (section 2).
* **What only the build decides**: `hex2bin` reads two digits in one unsequenced expression, the end of the string
  in `payload_to_send` lies one byte behind the array, an empty packet gives arrays of negative size.
* **Stopping after a reconnection**: `enmqtt_stop_listen` is part of `EndNode`, whose connection holds; in
  `MqttClient` nobody stops listening.
* **`change_topics` and `change_actORtopics` of the gateway's client**: never called.
* **Configurations, compose files, Node-RED flows, create_json.py**: data and scripts.
* **Log and measure messages** to `/DbALT`: no state depends on them. `MqttClient` counts their publishes.
* A frame that the network server encrypts for this device and a foreign one that passes its MIC by
  chance are not told apart: MICs are taken to be unforgeable.
* No freshness of downlinks is stated: the code keeps no downlink counter.
* A keepalive time of zero or less is in no run; `NoKeepaliveNoDownlink` proves what it comes to (section 4).

## 6. Plan

Done, in this order: packet stack, end node, upstream, downstream, composed gateway, DevNonce store,
MQTT client, route map, frame path, each with its proofs. What is left:

1. `MqttClient` composed with `EndNode`, so that a join can meet a broken connection and
   `enmqtt_stop_listen` a client that is not the loop's.
2. `LoRaWANSystem`: nodes and gateway over one broker, from the uplink request to the PUSH_DATA.
