------------------------------ MODULE MqttClient ------------------------------
(***************************************************************************)
(* The MQTT client of an end node (enmqtt.c) or of the gateway (gwmqtt.c)  *)
(* while its broker connection can break.  All connections of a process    *)
(* use the client id of its config.json, so that the broker keeps one of   *)
(* them at most: a new one takes the session over and ends the older one.  *)
(* Every CONNECT asks for a clean session: the subscriptions of a session  *)
(* are gone with its connection.                                           *)
(*                                                                         *)
(* External, modelled from how the sources use it: libmosquitto, whose     *)
(* loop thread notices that its client lost the connection, calls the      *)
(* disconnect callback and then reconnects that client; and the broker.    *)
(* The end of listening (enmqtt_stop_listen) is part of EndNode.           *)
(***************************************************************************)
EXTENDS Integers, Sequences

CONSTANTS Roles,        \* a subset of {"node", "radio", "gateway"}
          MaxDrops,     \* bound: connections the broker or the network breaks
          MaxPublishes, \* bound: publishes of the gateway's threads
          MaxHeard,     \* bound: messages that reach a callback
          MaxClients    \* bound: clients that are ever made

ASSUME MqttAssumption ==
  /\ Roles \subseteq {"node", "radio", "gateway"}
  /\ MaxDrops \in Nat /\ MaxPublishes \in Nat /\ MaxHeard \in Nat
  /\ MaxClients \in Nat \ {0}

VARIABLES
  role,         \* whose client this is; "radio" is a node with its own topic
  main,         \* the main thread: "run", "failed", or "exited" the process
  step,         \* its next MQTT operation in Script
  changing_topics,
  mosq,         \* enmosq, gwmosq: the client in use, 0 before the first
  initialized,  \* eninitialized_and_connected, gwinitialized_and_connected
  mtx,          \* enmosquitto_mtx, gwmosquitto_mtx: its owner
  clients,      \* how many clients mosquitto_new made
  open,         \* the clients that have a socket
  conn,         \* the client that the broker is connected to, or 0
  subs,         \* the subscriptions of that connection
  reachable,    \* does the broker accept connections
  loop,         \* where the thread of mosquitto_loop_start is
  loop_client,  \* the client it serves, 0 before it starts
  call,         \* each thread: where it is in enmqtt_publish
  todo,         \* publishes that the running handler has still to make
  accepted,     \* a join accept was handled
  published,    \* publishes that the gateway's threads began
  drops, delivered, lost, heard, \* history: how often it happened
  loop_lost     \* history: the loop thread's client was ever cut off

mainVars  == <<main, step, changing_topics>>
mqttVars  == <<mosq, initialized, mtx, clients>>
brokerVars == <<open, conn, subs, reachable, loop_lost>>
loopVars  == <<loop, loop_client, todo, accepted>>
history   == <<published, drops, delivered, lost, heard>>
vars == <<role, mainVars, mqttVars, brokerVars, loopVars, call, history>>

Thread == {"main", "up", "down", "loop"}

Nobody == "nobody"
-----------------------------------------------------------------------------
(* The main thread's MQTT operations, as the sources order them.           *)

Op(op) == [op |-> op, topic |-> "-"]
On(op, t) == [op |-> op, topic |-> t]

(* One operation per topic, each followed by two alerts. *)
each_topic(op, topics) ==
  [i \in 1 .. 3 * Len(topics) |->
     IF i % 3 = 1 THEN On(op, topics[(i + 2) \div 3]) ELSE Op("publish")]

subscribe_current_topics(topics)   == each_topic("sub", topics)
unsubscribe_current_topics(topics) == each_topic("unsub", topics)

enmqtt_listen(topics) ==
  <<Op("check")>> \o subscribe_current_topics(topics) \o <<Op("loop")>>

change_actORtopics(old, new) ==
  <<Op("change")>> \o unsubscribe_current_topics(old)
    \o subscribe_current_topics(new) \o <<Op("unchange")>>

(* executeJoin: listens for the accept, asks to join, tells that it asked, *)
(* waits for the accept, changes its topics and tells that it is ready.    *)
executeJoin(accept) ==
  enmqtt_listen(accept) \o <<Op("request"), Op("publish"), Op("wait")>>
    \o change_actORtopics(accept, <<"DWn", "disUPn", "RDR">>)
    \o <<Op("publish")>>

gwsubscribe_current_topics(topics) ==
  [i \in DOMAIN topics |-> On("sub", topics[i])]

mqtt_listen(topics) ==
  <<Op("check")>> \o gwsubscribe_current_topics(topics) \o <<Op("loop")>>

Scripts == [node    |-> executeJoin(<<"JA">>),
            radio   |-> executeJoin(<<"RDR">>),
            gateway |-> mqtt_listen(<<"JR", "UPn">>)]

Script == Scripts[role]

(* set_connected comes right before the last operation. *)
lorawan_connected == step >= Len(Script)

(* How often on_message_received publishes: the alert of the awaited       *)
(* accept; once connected measures, an answer or the uplink, an alert; the *)
(* gateway's handler only fills the packet stack.                          *)
HandlerPublishes(t) ==
  CASE role = "gateway"  -> 0
    [] lorawan_connected -> IF t = "disUPn" THEN 3 ELSE 4
    [] OTHER             -> IF t \in {"JA", "RDR"} /\ ~accepted THEN 1 ELSE 0

Init ==
  /\ role \in Roles
  /\ main = "run" /\ step = 1 /\ changing_topics = FALSE
  /\ mosq = 0 /\ initialized = FALSE /\ mtx = Nobody /\ clients = 0
  /\ open = {} /\ conn = 0 /\ subs = {} /\ reachable \in BOOLEAN
  /\ loop_lost = FALSE
  /\ loop = "none" /\ loop_client = 0 /\ todo = 0 /\ accepted = FALSE
  /\ call = [t \in Thread |-> "none"]
  /\ published = 0 /\ drops = 0 /\ delivered = 0 /\ lost = 0 /\ heard = 0

Running == main # "exited"

Next_op(op) == Running /\ main = "run" /\ step <= Len(Script)
                       /\ Script[step].op = op

-----------------------------------------------------------------------------
(* Making and connecting a client, by the thread t.                        *)

(* mosquitto_new; the global names the new client at once. *)
NewClient ==
  /\ clients < MaxClients
  /\ clients' = clients + 1
  /\ mosq' = clients + 1

(* mosquitto_connect on whatever client the global names now: the broker   *)
(* ends the session's earlier connection.                                  *)
ConnectClient ==
  /\ reachable /\ UNCHANGED reachable
  /\ open' = open \cup {mosq}
  /\ conn' = mosq
  /\ subs' = {}
  /\ loop_lost' = (loop_lost \/ (loop_client # 0 /\ conn = loop_client))

(* Mutant: the lock is kept. *)
Mutant_CheckInitialized(t) ==
  /\ Running /\ call[t] = "check" /\ mtx = Nobody
  /\ mtx' = t
  /\ call' = [call EXCEPT ![t] = IF initialized THEN "send" ELSE "new"]
  /\ UNCHANGED <<role, mainVars, mosq, initialized, clients, brokerVars,
                 loopVars, history>>

(* Mutant: a client is made whatever the flag says. *)
Mutant_AlwaysNew(t) ==
  /\ Running /\ call[t] = "check" /\ mtx = Nobody
  /\ mtx' = t
  /\ call' = [call EXCEPT ![t] = "new"]
  /\ UNCHANGED <<role, mainVars, mosq, initialized, clients, brokerVars,
                 loopVars, history>>

(* encheck_initialized, in the lock: nothing to do, or a client to make.   *)
CheckInitialized(t) ==
  /\ Running /\ call[t] = "check" /\ mtx = Nobody
  /\ mtx' = IF initialized THEN Nobody ELSE t
  /\ call' = [call EXCEPT ![t] = IF initialized THEN "send" ELSE "new"]
  /\ UNCHANGED <<role, mainVars, mosq, initialized, clients, brokerVars,
                 loopVars, history>>

MakeClient(t) ==
  /\ Running /\ call[t] = "new"
  /\ NewClient
  /\ call' = [call EXCEPT ![t] = "connect"]
  /\ UNCHANGED <<role, mainVars, initialized, mtx, brokerVars, loopVars,
                 history>>

(* Mutant: the flag is not set. *)
Mutant_Connected(t) ==
  /\ Running /\ call[t] = "connect"
  /\ ConnectClient
  /\ mtx' = Nobody
  /\ call' = [call EXCEPT ![t] = "send"]
  /\ UNCHANGED <<role, mainVars, mosq, initialized, clients, loopVars, history>>

Connected(t) ==
  /\ Running /\ call[t] = "connect"
  /\ ConnectClient
  /\ initialized' = TRUE /\ mtx' = Nobody
  /\ call' = [call EXCEPT ![t] = "send"]
  /\ UNCHANGED <<role, mainVars, mosq, clients, loopVars, history>>

(* A connection that cannot be made ends the process: always while the     *)
(* broker is unreachable, and maybe at another time.                       *)
ConnectFails(t) ==
  /\ Running
  /\ call[t] = "connect" \/ (t = "loop" /\ loop = "connect")
  /\ main' = "exited"
  /\ UNCHANGED <<role, step, changing_topics, mqttVars, brokerVars, loopVars,
                 call, history>>

encheck_initialized(t) ==
  CheckInitialized(t) \/ MakeClient(t) \/ Connected(t) \/ ConnectFails(t)
-----------------------------------------------------------------------------
(* enmqtt_publish: what becomes of a message handed to mosquitto_publish.  *)
(* The broker has the client's connection; or the client has no socket; or *)
(* its socket is dead and nobody noticed: the write may seem to succeed.   *)
Outcome == CASE conn = mosq        -> {"delivered"}
             [] mosq \notin open   -> {"refused"}
             [] OTHER              -> {"refused", "lost"}

Sent(result) ==
  /\ delivered' = delivered + (IF result = "delivered" THEN 1 ELSE 0)
  /\ lost' = lost + (IF result = "delivered" THEN 0 ELSE 1)
  /\ UNCHANGED <<published, drops, heard>>

(* A thread of the gateway, or the loop thread in a handler or a callback. *)
SendReturns(t) ==
  /\ Running /\ t # "main" /\ call[t] = "send"
  /\ \E result \in Outcome : Sent(result)
  /\ call' = [call EXCEPT ![t] = "none"]
  /\ UNCHANGED <<role, mainVars, mqttVars, brokerVars, loopVars>>

(* The gateway's two threads publish measures and downlinks. *)
BeginPublish(t) ==
  /\ Running /\ role = "gateway" /\ t \in {"up", "down"}
  /\ loop # "none"
  /\ call[t] = "none" /\ published < MaxPublishes
  /\ call' = [call EXCEPT ![t] = "check"]
  /\ published' = published + 1
  /\ UNCHANGED <<role, mainVars, mqttVars, brokerVars, loopVars, drops,
                 delivered, lost, heard>>
-----------------------------------------------------------------------------
(* The main thread.                                                        *)

Publishing == {"request", "publish"}

(* Each publish, and enmqtt_listen itself, begins by encheck_initialized.  *)
MainCheck ==
  /\ \E op \in Publishing \cup {"check"} : Next_op(op)
  /\ call["main"] = "none"
  /\ call' = [call EXCEPT !["main"] = "check"]
  /\ UNCHANGED <<role, mainVars, mqttVars, brokerVars, loopVars, history>>

Done == step' = step + 1 /\ UNCHANGED main

MainListens ==
  /\ Next_op("check") /\ call["main"] = "send"
  /\ Done
  /\ call' = [call EXCEPT !["main"] = "none"]
  /\ UNCHANGED <<role, changing_topics, mqttVars, brokerVars, loopVars, history>>

(* A join request that mosquitto_publish refuses ends executeJoin; what    *)
(* becomes of the alerts is not looked at.                                 *)
MainSent ==
  /\ \E op \in Publishing : Next_op(op)
  /\ call["main"] = "send"
  /\ call' = [call EXCEPT !["main"] = "none"]
  /\ \E result \in Outcome :
       /\ Sent(result)
       /\ IF Script[step].op = "request" /\ result = "refused"
            THEN main' = "failed" /\ UNCHANGED step
            ELSE Done
  /\ UNCHANGED <<role, changing_topics, mqttVars, brokerVars, loopVars>>

(* mosquitto_subscribe on the client in use: without a socket it fails and *)
(* ends the process; on a dead one it may seem to succeed.                 *)
Subscribe ==
  /\ Next_op("sub")
  /\ IF conn = mosq THEN Done /\ subs' = subs \cup {Script[step].topic}
                    ELSE /\ UNCHANGED subs
                         /\ \/ main' = "exited" /\ UNCHANGED step
                            \/ mosq \in open /\ Done
  /\ UNCHANGED <<role, changing_topics, mqttVars, open, conn, reachable,
                 loop_lost, loopVars, call, history>>

(* The result of mosquitto_unsubscribe is not looked at. *)
Unsubscribe ==
  /\ Next_op("unsub")
  /\ Done
  /\ subs' = IF conn = mosq THEN subs \ {Script[step].topic} ELSE subs
  /\ UNCHANGED <<role, changing_topics, mqttVars, open, conn, reachable,
                 loop_lost, loopVars, call, history>>

ChangingTopics ==
  /\ Next_op("change") \/ Next_op("unchange")
  /\ Done
  /\ changing_topics' = (Script[step].op = "change")
  /\ UNCHANGED <<role, mqttVars, brokerVars, loopVars, call, history>>

CreateLoop ==
  /\ Next_op("loop")
  /\ Done
  /\ loop' = "created"
  /\ UNCHANGED <<role, changing_topics, mqttVars, brokerVars, loop_client, todo,
                 accepted, call, history>>

AcceptTaken ==
  /\ Next_op("wait") /\ accepted
  /\ Done
  /\ UNCHANGED <<role, changing_topics, mqttVars, brokerVars, loopVars, call,
                 history>>

MainStep ==
  \/ MainCheck \/ encheck_initialized("main") \/ MainListens \/ MainSent
  \/ Subscribe \/ Unsubscribe \/ ChangingTopics \/ CreateLoop \/ AcceptTaken
-----------------------------------------------------------------------------
(* The loop thread and the broker.                                         *)

Loop(from, to) == Running /\ loop = from /\ loop' = to

(* enmqtt_loop: mosquitto_loop_start on the client in use by then. *)
enmqtt_loop ==
  /\ Loop("created", "idle")
  /\ loop_client' = mosq
  /\ UNCHANGED <<role, mainVars, mqttVars, brokerVars, todo, accepted, call,
                 history>>

(* A message of a subscribed topic: ignored while the topics change, else  *)
(* handled at once.                                                        *)
enmessage_callback(t) ==
  /\ loop = "idle" /\ conn = loop_client /\ t \in subs
  /\ heard < MaxHeard
  /\ heard' = heard + 1
  /\ IF changing_topics
       THEN Loop("idle", "idle") /\ UNCHANGED <<todo, accepted>>
       ELSE /\ Loop("idle", "handle")
            /\ todo' = HandlerPublishes(t)
            /\ accepted' = (accepted \/ t \in {"JA", "RDR"})
  /\ UNCHANGED <<role, mainVars, mqttVars, brokerVars, loop_client, call,
                 published, drops, delivered, lost>>

HandlerSends ==
  /\ Loop("handle", "handle")
  /\ todo > 0 /\ call["loop"] = "none"
  /\ todo' = todo - 1
  /\ call' = [call EXCEPT !["loop"] = "check"]
  /\ UNCHANGED <<role, mainVars, mqttVars, brokerVars, loop_client, accepted,
                 history>>

HandlerReturns ==
  /\ Loop("handle", "idle")
  /\ todo = 0 /\ call["loop"] = "none"
  /\ UNCHANGED <<role, mainVars, mqttVars, brokerVars, loop_client, todo,
                 accepted, call, history>>

(* The loop thread notices that its client's connection is gone: it closes *)
(* the socket and calls the disconnect callback.                           *)
Notices(to) ==
  /\ Loop("idle", to)
  /\ conn # loop_client
  /\ open' = open \ {loop_client}
  /\ UNCHANGED <<role, mainVars, clients, mosq, mtx, conn, subs, reachable,
                 loop_lost, loop_client, todo, accepted, call, history>>

(* Mutant: the callback leaves everything to the library. *)
Mutant_enmy_disconnect_callback ==
  /\ role # "gateway"
  /\ Notices("offline")
  /\ UNCHANGED initialized

(* The node's callback: a new client, outside the lock and whatever the    *)
(* flag says; then the "RECONNECTION" alert; then it clears the flag.      *)
enmy_disconnect_callback ==
  /\ role # "gateway"
  /\ Notices("new")
  /\ UNCHANGED initialized

(* Mutant: takes the lock, as encheck_initialized does. *)
Mutant_eninitialize_and_connect_mqtt ==
  \/ /\ Loop("new", "connect")
     /\ NewClient
     /\ mtx = Nobody /\ mtx' = "loop"
     /\ UNCHANGED <<role, mainVars, initialized, brokerVars, loop_client,
                    todo, accepted, call, history>>
  \/ /\ Loop("connect", "alert")
     /\ ConnectClient
     /\ call' = [call EXCEPT !["loop"] = "check"]
     /\ UNCHANGED <<role, mainVars, mqttVars, loop_client, todo, accepted,
                    history>>

eninitialize_and_connect_mqtt ==
  \/ /\ Loop("new", "connect")
     /\ NewClient
     /\ UNCHANGED <<role, mainVars, initialized, mtx, brokerVars, loop_client,
                    todo, accepted, call, history>>
  \/ /\ Loop("connect", "alert")
     /\ ConnectClient
     /\ call' = [call EXCEPT !["loop"] = "check"]
     /\ UNCHANGED <<role, mainVars, mqttVars, loop_client, todo, accepted,
                    history>>

ClearFlag ==
  /\ Loop("alert", "offline")
  /\ call["loop"] = "none"
  /\ initialized' = FALSE
  /\ UNCHANGED <<role, mainVars, mosq, mtx, clients, brokerVars, loop_client,
                 todo, accepted, call, history>>

(* The gateway's callback clears the flag, outside the lock. *)
gwmy_disconnect_callback ==
  /\ role = "gateway"
  /\ Notices("offline")
  /\ initialized' = FALSE

(* The library reconnects the client that its loop serves.  It tries again *)
(* and again while it cannot: these attempts are stuttering steps.         *)
Reconnect ==
  /\ Loop("offline", "idle")
  /\ reachable
  /\ open' = open \cup {loop_client}
  /\ conn' = loop_client
  /\ subs' = {}
  /\ UNCHANGED <<role, mainVars, mqttVars, reachable, loop_lost, loop_client,
                 todo, accepted, call, history>>

LoopStep ==
  \/ enmqtt_loop \/ HandlerSends \/ HandlerReturns
  \/ enmy_disconnect_callback \/ eninitialize_and_connect_mqtt \/ ClearFlag
  \/ gwmy_disconnect_callback \/ Reconnect
  \/ encheck_initialized("loop") \/ SendReturns("loop")

(* The connection breaks, with or without the broker being reachable for a *)
(* new one.                                                                *)
Drop ==
  /\ Running
  /\ conn # 0 /\ drops < MaxDrops
  /\ drops' = drops + 1
  /\ loop_lost' = (loop_lost \/ (loop_client # 0 /\ conn = loop_client))
  /\ conn' = 0 /\ subs' = {} /\ reachable' \in BOOLEAN
  /\ UNCHANGED <<role, mainVars, mqttVars, open, loopVars, call, published,
                 delivered, lost, heard>>

(* Without a connection the broker comes and goes. *)
ReachableTurns ==
  /\ Running
  /\ conn = 0 /\ reachable' = ~reachable
  /\ UNCHANGED <<role, mainVars, mqttVars, open, conn, subs, loop_lost,
                 loopVars, call, history>>

GatewayStep(t) == encheck_initialized(t) \/ SendReturns(t)

Topics == {"JA", "DWn", "disUPn", "RDR", "JR", "UPn"}

Next ==
  \/ MainStep \/ LoopStep \/ Drop \/ ReachableTurns
  \/ \E t \in Topics : enmessage_callback(t)
  \/ \E t \in {"up", "down"} : BeginPublish(t) \/ GatewayStep(t)

(* Every thread that can run runs, and an attempt to connect succeeds or   *)
(* fails in the end.  Neither is owed: a connection may fail or break, a   *)
(* message may not arrive and the broker may not come back.                *)
Spec == Init /\ [][Next]_vars
          /\ WF_vars(MainStep) /\ WF_vars(LoopStep)
          /\ \A t \in {"up", "down"} : WF_vars(GatewayStep(t))
-----------------------------------------------------------------------------
(* Types; and only a thread that makes a client holds the lock. *)
TypeOK ==
  /\ role \in Roles
  /\ main \in {"run", "failed", "exited"} /\ step \in 1 .. Len(Script) + 1
  /\ changing_topics \in BOOLEAN /\ initialized \in BOOLEAN
  /\ clients \in 0 .. MaxClients /\ mosq \in 0 .. clients
  /\ open \subseteq 1 .. clients /\ conn \in open \cup {0}
  /\ subs \subseteq Topics /\ (conn = 0 => subs = {})
  /\ reachable \in BOOLEAN /\ (conn # 0 => reachable)
  /\ loop \in {"none", "created", "idle", "handle", "new", "connect", "alert",
               "offline"}
  /\ loop_client \in 0 .. clients
  /\ todo \in 0 .. 4 /\ accepted \in BOOLEAN /\ loop_lost \in BOOLEAN
  /\ call \in [Thread -> {"none", "check", "new", "connect", "send"}]
  /\ mtx \in Thread \cup {Nobody}
  /\ \A t \in Thread : call[t] \in {"new", "connect"} <=> mtx = t
  /\ {published, drops, delivered, lost, heard} \subseteq Nat

(* As long as no connection breaks the flag and its lock do their work:    *)
(* every thread shares one client, and no message is refused or lost.      *)
OneClientWithoutDrop == drops = 0 => clients <= 1 /\ lost = 0

(* Once the loop thread's client has lost its connection, the process      *)
(* never handles a message again, for good: neither the reconnection, nor  *)
(* the new clients, nor a later change of topics subscribes it again.      *)
NeverHearsAgain == [][loop_lost => heard' = heard]_vars

(* The clients that publishes make and the loop thread's own client take   *)
(* the session from each other.  If the loop's client wins after the flag  *)
(* was set again, nobody notices that the client in use is cut off.        *)
Mute ==
  /\ initialized /\ mtx = Nobody
  /\ loop = "idle" /\ conn = loop_client /\ mosq # loop_client

(* A mute process publishes nothing any more, whatever its threads do,     *)
(* until the broker drops the connection once more.                        *)
MuteTillNextDrop ==
  [][Mute /\ drops' = drops /\ Running => Mute' /\ delivered' = delivered]_vars

(* No thread is stuck in a publish: neither the lock nor the callback that *)
(* publishes from within the loop thread blocks it.                        *)
PublishReturns ==
  \A t \in Thread : call[t] = "check" ~> (call[t] = "none" \/ ~Running)

(* If the broker is reachable from some time on, the loop thread gets out  *)
(* of every disconnection: it serves a connected client again, or the      *)
(* process has ended.  While the broker is away the library just retries.  *)
LoopComesBack ==
  <>[]reachable => ((loop_client # 0 /\ loop_client \notin open) ~>
                      (loop_client \in open \/ ~Running))
=============================================================================
