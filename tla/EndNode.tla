------------------------------- MODULE EndNode -------------------------------
(***************************************************************************)
(* One end device (end-device/to-copy/node) from boot to the "Ready"       *)
(* alert and beyond.  Two threads share its state:                         *)
(*   - the main thread runs executeJoin: it asks to join, waits on a       *)
(*     condition variable for the accept, saves the next DevNonce, changes *)
(*     its MQTT topics and announces that it is ready;                     *)
(*   - the MQTT loop thread, started by enmqtt_loop, calls                 *)
(*     on_message_received for each message of the subscribed topics.      *)
(* The broker and what other parties publish are external: the node's      *)
(* commands reach the broker in order (ctl), and the broker's messages     *)
(* reach the node in order (inbox).                                        *)
(***************************************************************************)
EXTENDS Integers, Sequences, FiniteSets

CONSTANTS CommTypes,   \* communication_type: 0 virtual, 1 radio, 2 SDR
          NonceMod,    \* DevNonce is a uint16_t: 2^16
          NoNonce,     \* no join accept, no session
          NoMsg,       \* no message in the handler's hands
          Torn,        \* a config.json that is not valid JSON
          Traffic,     \* the messages other parties publish in this instance
          MaxTraffic   \* bound: how many of them

Nonce == 0 .. NonceMod - 1

(* The topics a node ever listens to; "RDR" and "disUPn" end in its devEUI. *)
Topic == {"JA", "DWn", "disUPn", "RDR"}

(* "accept" and "data" are frames for this device, "foreign" a frame whose *)
(* MIC fails under this device's keys.                                     *)
Message ==
  [topic : {"JA"}, body : {"accept", "foreign"}] \cup
  [topic : {"DWn"}, body : {"data", "foreign"}] \cup
  [topic : {"disUPn"}, body : {"uplink"}] \cup
  [topic : {"RDR"},
   body : {"accept", "data", "foreign", "no_downlink", "error"}]

ASSUME EndNodeAssumption ==
  /\ CommTypes \subseteq 0 .. 2
  /\ NonceMod \in Nat \ {0, 1}
  /\ NoNonce \notin Nonce
  /\ NoMsg \notin Message
  /\ Torn \notin Nonce
  /\ Traffic \subseteq Message
  /\ MaxTraffic \in Nat

VARIABLES
  communication_type,  \* of this node, in config.json
  main,                \* where the main thread is
  cb,                  \* where the MQTT loop thread is
  loop_thread,         \* where enmqtt_loop is
  msg,                 \* the message in the handler
  msg_received_mutex,  \* is it locked
  obj,                 \* the join accept: the DevNonce its keys are made of
  lorawan_connected,
  changing_topics,
  lastDevNonce,
  session,             \* nwkSKey, appSKey: the DevNonce they are made of
  sequenceCounter,
  stored,              \* last_dev_nonce in config.json
  ctl,                 \* node -> broker commands on the way
  subs,                \* the node's subscriptions at the broker
  inbox,               \* broker -> node messages on the way
  asked,               \* the DevNonce of the join request the network saw
  published,           \* how much traffic was published
  uplinks,             \* history: the uplinks sent
  replies              \* history: what the disseminator was told

mainVars == <<main, lorawan_connected, changing_topics, lastDevNonce, session,
              stored, ctl>>
cbVars   == <<cb, msg, msg_received_mutex, obj, sequenceCounter, uplinks,
              replies>>
envVars  == <<communication_type, subs, inbox, asked, published>>
vars     == <<mainVars, cbVars, envVars, loop_thread>>

MainPC == {"start", "publish", "wait", "waiting", "woken", "save", "opened",
           "change", "unsub", "resub", "unchange", "connect", "alert", "ready",
           "failed", "exited"}
CbPC   == {"idle", "lock", "dispatch", "joining", "verify", "signal",
           "connected"}
LoopPC == {"none", "created", "running", "stopping", "stopped"}

Sub(t)   == [cmd |-> "sub", topic |-> t]
Unsub(t) == [cmd |-> "unsub", topic |-> t]
JoinReq(n) == [cmd |-> "join", nonce |-> n]

(* The topic of the join accept, before the join. *)
JoinTopic == IF communication_type = 1 THEN "RDR" ELSE "JA"

Init ==
  /\ communication_type \in CommTypes
  /\ main = "start" /\ cb = "idle" /\ loop_thread = "none"
  /\ msg = NoMsg /\ msg_received_mutex = FALSE
  /\ obj = NoNonce /\ session = NoNonce
  /\ lorawan_connected = FALSE /\ changing_topics = FALSE
  /\ stored \in Nonce /\ lastDevNonce = stored
  /\ sequenceCounter = 0
  /\ ctl = <<>> /\ subs = {} /\ inbox = <<>> /\ asked = NoNonce
  /\ published = 0 /\ uplinks = <<>> /\ replies = <<>>

Running == main # "exited"
-----------------------------------------------------------------------------
(* The main thread: executeJoin. *)

Goto(from, to) == main = from /\ main' = to

(* obj = NULL, connect, subscribe to the accept's topic, create the loop   *)
(* thread.                                                                 *)
StartListening ==
  /\ Goto("start", "publish")
  /\ obj' = NoNonce
  /\ ctl' = Append(ctl, Sub(JoinTopic))
  /\ loop_thread' = "created"
  /\ UNCHANGED <<lorawan_connected, changing_topics, lastDevNonce, session,
                 stored, cb, msg, msg_received_mutex, sequenceCounter,
                 uplinks, replies, envVars>>

(* A connection or a subscription that fails ends the process. *)
ListenFails ==
  /\ main \in {"start", "resub"}
  /\ main' = "exited"
  /\ UNCHANGED <<lorawan_connected, changing_topics, lastDevNonce, session,
                 stored, ctl, cbVars, envVars, loop_thread>>

(* Mutant: the DevNonce is incremented as soon as it is sent. *)
Mutant_SendJoinRequest ==
  /\ Goto("publish", "wait")
  /\ ctl' = Append(ctl, JoinReq(lastDevNonce))
  /\ lastDevNonce' = (lastDevNonce + 1) % NonceMod
  /\ UNCHANGED <<lorawan_connected, changing_topics, session, stored, cbVars,
                 envVars, loop_thread>>

SendJoinRequest ==
  /\ Goto("publish", "wait")
  /\ ctl' = Append(ctl, JoinReq(lastDevNonce))
  /\ UNCHANGED <<lorawan_connected, changing_topics, lastDevNonce, session,
                 stored, cbVars, envVars, loop_thread>>

(* enmqtt_stop_listen signals enrun_cond: nobody hears it before           *)
(* enmqtt_loop waits on it.                                                *)
SendJoinRequestFails ==
  /\ Goto("publish", "failed")
  /\ loop_thread' = IF loop_thread = "running" THEN "stopping" ELSE loop_thread
  /\ UNCHANGED <<lorawan_connected, changing_topics, lastDevNonce, session,
                 stored, ctl, cbVars, envVars>>

(* pthread_cond_wait, with no test of obj before it or after it. *)
AwaitAccept ==
  /\ Goto("wait", "waiting")
  /\ UNCHANGED <<lorawan_connected, changing_topics, lastDevNonce, session,
                 stored, ctl, cbVars, envVars, loop_thread>>

(* A wait may end with no signal.  Of the program's waits only this one is *)
(* followed by something that a wakeup too early would disturb.            *)
SpuriousWakeup ==
  /\ Goto("waiting", "woken")
  /\ UNCHANGED <<lorawan_connected, changing_topics, lastDevNonce, session,
                 stored, ctl, cbVars, envVars, loop_thread>>

NoAccept ==
  /\ obj = NoNonce
  /\ Goto("woken", "failed")
  /\ UNCHANGED <<lorawan_connected, changing_topics, lastDevNonce, session,
                 stored, ctl, cbVars, envVars, loop_thread>>

(* Mutant: the DevNonce is not a 16-bit number. *)
Mutant_TakeAccept ==
  /\ obj # NoNonce
  /\ Goto("woken", "save")
  /\ session' = obj
  /\ lastDevNonce' = lastDevNonce + 1
  /\ UNCHANGED <<lorawan_connected, changing_topics, stored, ctl, cbVars,
                 envVars, loop_thread>>

TakeAccept ==
  /\ obj # NoNonce
  /\ Goto("woken", "save")
  /\ session' = obj
  /\ lastDevNonce' = (lastDevNonce + 1) % NonceMod
  /\ UNCHANGED <<lorawan_connected, changing_topics, stored, ctl, cbVars,
                 envVars, loop_thread>>

(* save_last_devNonce, up to and with fopen(conf_file, "w"), which empties *)
(* the file.                                                               *)
OpenConfig ==
  /\ Goto("save", "opened")
  /\ stored' = Torn
  /\ UNCHANGED <<lorawan_connected, changing_topics, lastDevNonce, session,
                 ctl, cbVars, envVars, loop_thread>>

(* fopen may refuse a file that could be read: fprintf gets NULL, which    *)
(* ends the process.                                                       *)
OpenFails ==
  /\ Goto("save", "exited")
  /\ UNCHANGED <<lorawan_connected, changing_topics, lastDevNonce, session,
                 stored, ctl, cbVars, envVars, loop_thread>>

(* Mutant: saves the DevNonce of the session, not the next one. *)
Mutant_WriteConfig ==
  /\ Goto("opened", "change")
  /\ stored' = session
  /\ UNCHANGED <<lorawan_connected, changing_topics, lastDevNonce, session,
                 ctl, cbVars, envVars, loop_thread>>

(* fprintf and fclose, whose results are not looked at: the text is in the *)
(* file, or only a part of it, and the node goes on in either case.        *)
WriteConfig ==
  /\ Goto("opened", "change")
  /\ stored' \in {lastDevNonce, Torn}
  /\ UNCHANGED <<lorawan_connected, changing_topics, lastDevNonce, session,
                 ctl, cbVars, envVars, loop_thread>>

(* The file cannot be read or parsed any more. *)
SaveFails ==
  /\ Goto("save", "failed")
  /\ UNCHANGED <<lorawan_connected, changing_topics, lastDevNonce, session,
                 stored, ctl, cbVars, envVars, loop_thread>>

BeginTopicChange ==
  /\ Goto("change", "unsub")
  /\ changing_topics' = TRUE
  /\ UNCHANGED <<lorawan_connected, lastDevNonce, session, stored, ctl,
                 cbVars, envVars, loop_thread>>

unsubscribe_current_topics ==
  /\ Goto("unsub", "resub")
  /\ ctl' = Append(ctl, Unsub(JoinTopic))
  /\ UNCHANGED <<lorawan_connected, changing_topics, lastDevNonce, session,
                 stored, cbVars, envVars, loop_thread>>

subscribe_current_topics ==
  /\ Goto("resub", "unchange")
  /\ ctl' = ctl \o <<Sub("DWn"), Sub("disUPn"), Sub("RDR")>>
  /\ UNCHANGED <<lorawan_connected, changing_topics, lastDevNonce, session,
                 stored, cbVars, envVars, loop_thread>>

EndTopicChange ==
  /\ Goto("unchange", "connect")
  /\ changing_topics' = FALSE
  /\ UNCHANGED <<lorawan_connected, lastDevNonce, session, stored, ctl,
                 cbVars, envVars, loop_thread>>

(* "without lock for avoiding loop": nothing orders it with the handler.   *)
set_connected ==
  /\ Goto("connect", "alert")
  /\ lorawan_connected' = TRUE
  /\ UNCHANGED <<changing_topics, lastDevNonce, session, stored, ctl, cbVars,
                 envVars, loop_thread>>

send_is_ready_alert ==
  /\ Goto("alert", "ready")
  /\ UNCHANGED <<lorawan_connected, changing_topics, lastDevNonce, session,
                 stored, ctl, cbVars, envVars, loop_thread>>

MainNext ==
  \/ StartListening \/ SendJoinRequest \/ AwaitAccept \/ NoAccept
  \/ TakeAccept \/ OpenConfig \/ WriteConfig \/ BeginTopicChange
  \/ unsubscribe_current_topics \/ subscribe_current_topics
  \/ EndTopicChange \/ set_connected \/ send_is_ready_alert
-----------------------------------------------------------------------------
(* enmqtt_loop: starts the loop thread, waits to be told to stop it. *)

LoopStart ==
  /\ Running
  /\ loop_thread = "created"
  /\ loop_thread' = "running"
  /\ UNCHANGED <<mainVars, cbVars, envVars>>

(* mosquitto_loop_stop cancels the loop thread, in the middle of the       *)
(* handler if it is there, but neither blocked in pthread_mutex_lock nor   *)
(* between obj and its signal: what it has locked stays locked.  Then the  *)
(* client unsubscribes, disconnects and is destroyed.                      *)
LoopStop ==
  /\ Running
  /\ loop_thread = "stopping"
  /\ cb \notin {"lock", "signal"}
  /\ loop_thread' = "stopped"
  /\ cb' = "idle" /\ msg' = NoMsg
  /\ ctl' = <<>> /\ subs' = {} /\ inbox' = <<>>
  /\ UNCHANGED <<main, lorawan_connected, changing_topics, lastDevNonce,
                 session, stored, msg_received_mutex, obj, sequenceCounter,
                 uplinks, replies, communication_type, asked, published>>
-----------------------------------------------------------------------------
(* The MQTT loop thread: enmessage_callback, then on_message_received. *)

CbGoto(from, to) == Running /\ cb = from /\ cb' = to

(* The end of the handler: the message is done with, the mutex released.   *)
Unlock == msg' = NoMsg /\ msg_received_mutex' = FALSE

enmessage_callback ==
  /\ loop_thread = "running"
  /\ inbox # <<>>
  /\ inbox' = Tail(inbox)
  /\ IF changing_topics
       THEN CbGoto("idle", "idle") /\ UNCHANGED msg
       ELSE CbGoto("idle", "lock") /\ msg' = Head(inbox)
  /\ UNCHANGED <<mainVars, msg_received_mutex, obj, sequenceCounter, uplinks,
                 replies, communication_type, subs, asked, published,
                 loop_thread>>

(* Mutant: a trylock whose result is not looked at. *)
Mutant_LockMessageMutex ==
  /\ CbGoto("lock", "dispatch")
  /\ msg_received_mutex' = TRUE
  /\ UNCHANGED <<mainVars, msg, obj, sequenceCounter, uplinks, replies,
                 envVars, loop_thread>>

LockMessageMutex ==
  /\ ~msg_received_mutex
  /\ CbGoto("lock", "dispatch")
  /\ msg_received_mutex' = TRUE
  /\ UNCHANGED <<mainVars, msg, obj, sequenceCounter, uplinks, replies,
                 envVars, loop_thread>>

(* The one read of lorawan_connected that decides how to treat the message. *)
Dispatch ==
  /\ CbGoto("dispatch", IF lorawan_connected THEN "connected" ELSE "joining")
  /\ UNCHANGED <<mainVars, msg, msg_received_mutex, obj, sequenceCounter,
                 uplinks, replies, envVars, loop_thread>>

(* Mutant: without the test of obj. *)
Mutant_AwaitedAccept == msg.topic \in {"RDR", "JA"}

(* While obj is NULL both the radio topic and the accept topic are looked  *)
(* at as join accepts, whatever topic the node subscribed to.              *)
AwaitedAccept == msg.topic \in {"RDR", "JA"} /\ obj = NoNonce

(* The text "no_downlink", in place of a frame, has a character that is    *)
(* not one of base64.                                                      *)
NotBase64 == msg.body = "no_downlink"

JoinAcceptArrived ==
  /\ CbGoto("joining", "verify")
  /\ AwaitedAccept /\ ~NotBase64
  /\ UNCHANGED <<mainVars, msg, msg_received_mutex, obj, sequenceCounter,
                 uplinks, replies, envVars, loop_thread>>

(* char_to_code calls exit at such a character: the radio driver's answer  *)
(* that there is no accept yet ends the process of a node that waits.      *)
UndecodableExits ==
  /\ CbGoto("joining", "joining")
  /\ AwaitedAccept /\ NotBase64
  /\ main' = "exited"
  /\ UNCHANGED <<lorawan_connected, changing_topics, lastDevNonce, session,
                 stored, ctl, msg, msg_received_mutex, obj, sequenceCounter,
                 uplinks, replies, envVars, loop_thread>>

(* generateJoinAccept and IsDataOk: the MIC holds, and the keys are made   *)
(* of the DevNonce read now.                                               *)
AcceptVerified ==
  /\ CbGoto("verify", "signal")
  /\ msg.body = "accept"
  /\ obj' = lastDevNonce
  /\ UNCHANGED <<mainVars, msg, msg_received_mutex, sequenceCounter, uplinks,
                 replies, envVars, loop_thread>>

AcceptRejected ==
  /\ CbGoto("verify", "idle")
  /\ msg.body # "accept"
  /\ Unlock
  /\ UNCHANGED <<mainVars, obj, sequenceCounter, uplinks, replies, envVars,
                 loop_thread>>

(* Mutant: the handler signals another condition variable. *)
Mutant_SignalAccept ==
  /\ CbGoto("signal", "idle")
  /\ Unlock
  /\ UNCHANGED <<mainVars, obj, sequenceCounter, uplinks, replies, envVars,
                 loop_thread>>

(* pthread_cond_signal wakes the main thread if it waits, else it is lost. *)
SignalAccept ==
  /\ CbGoto("signal", "idle")
  /\ Unlock
  /\ main' = IF main = "waiting" THEN "woken" ELSE main
  /\ UNCHANGED <<lorawan_connected, changing_topics, lastDevNonce, session,
                 stored, ctl, obj, sequenceCounter, uplinks, replies, envVars,
                 loop_thread>>

(* Any other message before lorawan_connected: the unmapped topic returns  *)
(* at once, "//Else ignore" falls through; neither unlocks the mutex.      *)
NotYetConnected ==
  /\ CbGoto("joining", "idle")
  /\ ~AwaitedAccept
  /\ msg' = NoMsg
  /\ UNCHANGED <<mainVars, msg_received_mutex, obj, sequenceCounter, uplinks,
                 replies, envVars, loop_thread>>

(* deserialize_downlink: the MIC holds under the node's own keys. *)
Deserialized == msg.body = "data" /\ session = asked

Tell(t, b) == replies' = Append(replies, [topic |-> t, body |-> b])

RadioDownlink ==
  /\ CbGoto("connected", "idle")
  /\ msg.topic = "RDR"
  /\ Unlock
  /\ Tell("disDWn", CASE msg.body = "no_downlink" -> "ok"
                      [] Deserialized             -> "data"
                      [] OTHER                    -> "error")
  /\ UNCHANGED <<mainVars, obj, sequenceCounter, uplinks, envVars, loop_thread>>

(* Mutant: returns without unlocking after a frame that fails. *)
Mutant_Downlink ==
  /\ CbGoto("connected", "idle")
  /\ msg.topic = "DWn"
  /\ msg' = NoMsg
  /\ msg_received_mutex' = ~Deserialized
  /\ Tell("disDWn", IF Deserialized THEN "data" ELSE "error")
  /\ UNCHANGED <<mainVars, obj, sequenceCounter, uplinks, envVars, loop_thread>>

(* A frame that does not deserialize is answered "error" on a topic string *)
(* that was freed just before: it may still hold the topic or not.         *)
Downlink ==
  /\ CbGoto("connected", "idle")
  /\ msg.topic = "DWn"
  /\ Unlock
  /\ IF Deserialized THEN Tell("disDWn", "data")
                     ELSE \E t \in {"disDWn", "freed"} : Tell(t, "error")
  /\ UNCHANGED <<mainVars, obj, sequenceCounter, uplinks, envVars, loop_thread>>

(* Mutant: ++sequenceCounter. *)
Mutant_UplinkToSend ==
  /\ CbGoto("connected", "idle")
  /\ msg.topic = "disUPn"
  /\ Unlock
  /\ uplinks' = Append(uplinks, [fcnt |-> sequenceCounter + 1, key |-> session])
  /\ sequenceCounter' = sequenceCounter + 1
  /\ UNCHANGED <<mainVars, obj, replies, envVars, loop_thread>>

UplinkToSend ==
  /\ CbGoto("connected", "idle")
  /\ msg.topic = "disUPn"
  /\ Unlock
  /\ uplinks' = Append(uplinks, [fcnt |-> sequenceCounter, key |-> session])
  /\ sequenceCounter' = sequenceCounter + 1
  /\ UNCHANGED <<mainVars, obj, replies, envVars, loop_thread>>

IgnoredMessage ==
  /\ CbGoto("connected", "idle")
  /\ msg.topic = "JA"
  /\ Unlock
  /\ UNCHANGED <<mainVars, obj, sequenceCounter, uplinks, replies, envVars,
                 loop_thread>>

CbNext ==
  \/ enmessage_callback \/ LockMessageMutex \/ Dispatch \/ JoinAcceptArrived
  \/ UndecodableExits
  \/ AcceptVerified \/ AcceptRejected \/ SignalAccept \/ NotYetConnected
  \/ RadioDownlink \/ Downlink \/ UplinkToSend \/ IgnoredMessage
-----------------------------------------------------------------------------
(* The broker and the parties behind it. *)

BrokerTakes ==
  /\ ctl # <<>>
  /\ LET c == Head(ctl)
     IN /\ subs' = CASE c.cmd = "sub"   -> subs \cup {c.topic}
                     [] c.cmd = "unsub" -> subs \ {c.topic}
                     [] OTHER           -> subs
        /\ asked' = IF c.cmd = "join" THEN c.nonce ELSE asked
  /\ ctl' = Tail(ctl)
  /\ UNCHANGED <<main, lorawan_connected, changing_topics, lastDevNonce,
                 session, stored, cbVars, communication_type, inbox, published,
                 loop_thread>>

(* Frames for this device exist only once the network has seen its join    *)
(* request; anything else comes whenever it likes.                         *)
Publish(m) ==
  /\ published < MaxTraffic
  /\ m.body \in {"accept", "data"} => asked # NoNonce
  /\ m.topic \in subs
  /\ published' = published + 1
  /\ inbox' = Append(inbox, m)
  /\ UNCHANGED <<mainVars, cbVars, communication_type, subs, asked, loop_thread>>

Next ==
  \/ MainNext \/ CbNext
  \/ ListenFails \/ SendJoinRequestFails \/ SpuriousWakeup \/ SaveFails
  \/ OpenFails
  \/ LoopStart \/ LoopStop
  \/ BrokerTakes
  \/ \E m \in Traffic : Publish(m)

Spec == Init /\ [][Next]_vars

(* Runnable threads run, and the broker keeps reading; failures, spurious  *)
(* wakeups and other parties' messages are never owed.                     *)
FairSpec == Spec /\ WF_vars(MainNext) /\ WF_vars(CbNext)
                 /\ WF_vars(LoopStart) /\ WF_vars(BrokerTakes)
-----------------------------------------------------------------------------
(* Every variable holds a value of the C program's type; in particular the *)
(* handler has a message exactly while it is not idle.                     *)
TypeOK ==
  /\ communication_type \in CommTypes
  /\ main \in MainPC /\ cb \in CbPC /\ loop_thread \in LoopPC
  /\ msg \in Message \cup {NoMsg}
  /\ cb = "idle" <=> msg = NoMsg
  /\ msg_received_mutex \in BOOLEAN
  /\ obj \in Nonce \cup {NoNonce}
  /\ lorawan_connected \in BOOLEAN /\ changing_topics \in BOOLEAN
  /\ lastDevNonce \in Nonce /\ stored \in Nonce \cup {Torn}
  /\ session \in Nonce \cup {NoNonce}
  /\ sequenceCounter \in Nat
  /\ ctl \in Seq([cmd : {"sub", "unsub"}, topic : Topic]
                   \cup [cmd : {"join"}, nonce : Nonce])
  /\ subs \subseteq Topic
  /\ inbox \in Seq(Message)
  /\ asked \in Nonce \cup {NoNonce}
  /\ published \in 0 .. MaxTraffic
  /\ uplinks \in Seq([fcnt : Nat, key : Nonce \cup {NoNonce}])
  /\ replies \in Seq([topic : {"disDWn", "freed"},
                      body : {"ok", "error", "data"}])

(* The keys that the handler derived from lastDevNonce, while the main     *)
(* thread owns and increments that variable, are those of the DevNonce the *)
(* network server saw in the join request: the two ends can talk.          *)
SessionMatchesRequest == session # NoNonce => session = asked

Following(n) == (n + 1) % NonceMod

(* A node that talks to the network has the DevNonce after the one of its  *)
(* session in config.json, or no valid file: no restart asks with the      *)
(* nonce of the session again.                                             *)
NextNonceSaved == lorawan_connected => stored \in {Following(session), Torn}

(* The mutex is locked and no handler is inside to unlock it. *)
Deaf == msg_received_mutex /\ cb \in {"idle", "lock"}

(* A deaf node is deaf for good: no uplink request and no downlink is ever *)
(* served again, in any continuation.                                      *)
DeafForever == [][Deaf => Deaf' /\ UNCHANGED <<uplinks, replies>>]_vars

(* An accept that is signalled while the main thread already waits gets it *)
(* out of the wait and through the rest of executeJoin.                    *)
HeardAcceptEndsJoin ==
  (main = "waiting" /\ cb = "signal") ~> main \in {"ready", "failed", "exited"}

(* Once connected with the mutex free, the handler serves every message    *)
(* the broker has for the node, and leaves the mutex free: no branch of    *)
(* the connected handler leaks it.                                         *)
ConnectedServesAll ==
  (lorawan_connected /\ ~msg_received_mutex)
    ~> (inbox = <<>> /\ cb = "idle" /\ ~msg_received_mutex)

Phase ==
  CASE lorawan_connected -> "ready"
    [] main \in {"failed", "exited"} -> "failed"
    [] main \in {"save", "opened", "change", "unsub", "resub", "unchange",
                  "connect"}
         -> "joined"
    [] OTHER -> "joining"

Session == INSTANCE NodeSession
  WITH phase <- Phase,
       nonce <- IF session = NoNonce THEN lastDevNonce ELSE session

(* Main thread and handler together implement NodeSession: one join with   *)
(* the requested nonce's keys, uplinks only afterwards and only under      *)
(* those keys, frame counters 0, 1, 2, ... in the order of sending.        *)
ImplementsSession == Session!Spec

(* This boot as one of DevNonceStore.  A process that has ended, or will   *)
(* never join, is down, and what it holds in memory is nobody's any more.  *)
Waiting == {"wait", "waiting", "woken"}
Gone    == main \in {"failed", "exited"} /\ session = NoNonce

StoreNode ==
  CASE main \in {"start", "exited"} \/ Gone   -> "down"
    [] main = "publish"                       -> "booted"
    [] main \in Waiting                       -> "asked"
    [] main = "save"                          -> "accepted"
    [] main = "opened"                        -> "opened"
    [] main = "failed" /\ session # NoNonce   -> "failed"
    [] OTHER                                  -> "joined"

Store == INSTANCE DevNonceStore
  WITH None <- NoNonce, MaxSessions <- 1,
       node <- StoreNode,
       config <- stored,
       lastDevNonce <- IF StoreNode = "down" THEN NoNonce ELSE lastDevNonce,
       request <- IF main \in Waiting /\ obj = NoNonce THEN lastDevNonce
                                                      ELSE NoNonce,
       accept <- main \in Waiting /\ obj # NoNonce,
       granted <- IF Gone THEN NoNonce ELSE obj,
       sessions <- IF Gone \/ obj = NoNonce THEN 0 ELSE 1,
       spent <- IF session # NoNonce /\ stored = Following(session)
                  THEN {session} ELSE {}

(* Two threads, a signal that may be lost and a broker in between, and yet *)
(* to the file and the network server the node is DevNonceStore's: it asks *)
(* with what the file had, joins once per grant with that very DevNonce,   *)
(* and the file gets the next one, or nothing.                             *)
ImplementsStore == Store!Spec

(* The properties above rest on this inductive invariant, a relation       *)
(* between the two threads and what is on its way to and from the broker.  *)
Asking == {"wait", "waiting", "woken", "failed", "exited"}
Joined == {"save", "opened", "change", "unsub", "resub", "unchange",
           "connect", "alert", "ready"}

(* A join request still on its way is the only one, nobody has answered it *)
(* yet, and it carries the nonce that the handler would use.               *)
RequestInv ==
  /\ \A i \in 1 .. Len(ctl) : ctl[i].cmd = "join" =>
       /\ asked = NoNonce
       /\ ctl[i].nonce = lastDevNonce
       /\ main \in Asking
       /\ \A j \in 1 .. Len(ctl) : ctl[j].cmd = "join" => i = j
  /\ main \in {"start", "publish"} => asked = NoNonce
  /\ asked # NoNonce /\ session = NoNonce => lastDevNonce = asked

(* A frame for this device exists only after the network saw its request.  *)
FrameInv ==
  /\ \A i \in 1 .. Len(inbox) : inbox[i].body = "accept" => asked # NoNonce
  /\ msg # NoMsg /\ msg.body = "accept" => asked # NoNonce

(* obj, once set, is the answer to the request, and the session is obj. *)
SessionInv ==
  /\ cb = "verify" => obj = NoNonce
  /\ obj # NoNonce => obj = asked
  /\ session # NoNonce => session = obj /\ lastDevNonce = Following(session)
  /\ main \in {"start", "publish", "wait", "waiting", "woken"}
       => session = NoNonce
  /\ main \in {"start", "publish"} => obj = NoNonce
  /\ main \in Joined => session # NoNonce
  /\ session = NoNonce => stored = lastDevNonce
  /\ main \in {"save", "failed"} /\ session # NoNonce => stored = session
  /\ main = "opened" => stored = Torn
  /\ main \in Joined \ {"save", "opened"} => stored \in {lastDevNonce, Torn}
  /\ lorawan_connected <=> main \in {"alert", "ready"}
  /\ cb = "connected" => lorawan_connected
  /\ sequenceCounter = Len(uplinks)

NodeInv == RequestInv /\ FrameInv /\ SessionInv

(* lora_node.c:98-99: the ready alert says the node "e' pronto a ricevere  *)
(* messaggi" (is ready to receive messages).                               *)
ReadyNodeListens == main = "ready" => ~Deaf

(* lora_node.c:45 "Lo invio al gateway e ricevo una risposta" (I send it   *)
(* and receive an answer): once a valid accept is in, executeJoin ends.    *)
AnsweredJoinEnds == obj # NoNonce ~> main \in {"ready", "failed", "exited"}
=============================================================================
