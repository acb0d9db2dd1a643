--------------------------- MODULE MqttClient_proof ---------------------------
(***************************************************************************)
(* Proofs about MqttClient, for every role, any number of broken           *)
(* connections, publishes, messages and clients.                           *)
(***************************************************************************)
EXTENDS MqttClient, SequenceTheorems, TLAPS

(* Where the main thread starts the loop thread. *)
LoopAt == IF role = "gateway" THEN 4 ELSE 5

OpRecord ==
  [op : {"check", "loop", "request", "publish", "wait", "change", "unchange"},
   topic : {"-"}]
  \cup [op : {"sub", "unsub"}, topic : Topics]

NoLoop(s) == s \in Seq(OpRecord) /\ \A i \in 1 .. Len(s) : s[i].op # "loop"

Begins(s) == Len(s) >= 1 /\ s[1].op = "check"

LoopOnlyAt(s, k) ==
  /\ s \in Seq(OpRecord) /\ k \in 1 .. Len(s) /\ Begins(s)
  /\ \A i \in 1 .. Len(s) : s[i].op = "loop" <=> i = k

(* The loop is started once, whatever operations come before and after. *)
LEMMA LoopIsNext ==
  ASSUME NEW s, NoLoop(s), Begins(s)
  PROVE  LoopOnlyAt(s \o <<Op("loop")>>, Len(s) + 1)
<1> DEFINE t == s \o <<Op("loop")>>
<1>1. <<Op("loop")>> \in Seq(OpRecord) /\ Len(<<Op("loop")>>) = 1
  BY DEF Op, OpRecord
<1>2. /\ t \in Seq(OpRecord) /\ Len(t) = Len(s) + 1
      /\ \A i \in 1 .. Len(s) + 1 :
           t[i] = IF i <= Len(s) THEN s[i] ELSE <<Op("loop")>>[i - Len(s)]
  BY <1>1, ConcatProperties DEF NoLoop
<1>3. <<Op("loop")>>[1].op = "loop"
  BY DEF Op
<1> HIDE DEF t
<1>4. ASSUME NEW i \in 1 .. Len(t) PROVE t[i].op = "loop" <=> i = Len(s) + 1
  <2>1. Len(s) \in Nat
    BY DEF NoLoop
  <2>2. CASE i <= Len(s)
    BY <1>2, <2>1, <2>2 DEF NoLoop
  <2>3. CASE i = Len(s) + 1
    <3>1. i - Len(s) = 1 /\ ~(i <= Len(s))
      BY <2>1, <2>3
    <3>2. t[i] = <<Op("loop")>>[1]
      BY <1>2, <2>1, <2>3, <3>1
    <3>. QED
      BY <1>3, <2>3, <3>2
  <2>. QED
    BY <1>2, <2>1, <2>2, <2>3
<1>5. Len(s) + 1 \in 1 .. Len(t)
  BY <1>2 DEF NoLoop
<1>6. Begins(t)
  BY <1>2 DEF Begins, NoLoop
<1>. QED
  BY <1>2, <1>4, <1>5, <1>6 DEF LoopOnlyAt, t

LEMMA LoopIsPast ==
  ASSUME NEW s, NEW k, NEW t, LoopOnlyAt(s, k), NoLoop(t)
  PROVE  LoopOnlyAt(s \o t, k)
<1> DEFINE u == s \o t
<1>1. /\ u \in Seq(OpRecord) /\ Len(u) = Len(s) + Len(t)
      /\ \A i \in 1 .. Len(s) + Len(t) :
           u[i] = IF i <= Len(s) THEN s[i] ELSE t[i - Len(s)]
  BY ConcatProperties DEF LoopOnlyAt, NoLoop
<1>2. Len(s) \in Nat /\ Len(t) \in Nat /\ k \in 1 .. Len(s)
  BY DEF LoopOnlyAt, NoLoop
<1> HIDE DEF u
<1>3. ASSUME NEW i \in 1 .. Len(u) PROVE u[i].op = "loop" <=> i = k
  <2>1. CASE i <= Len(s)
    BY <1>1, <1>2, <2>1 DEF LoopOnlyAt
  <2>2. CASE i > Len(s)
    <3>1. i - Len(s) \in 1 .. Len(t) /\ u[i] = t[i - Len(s)] /\ i # k
      BY <1>1, <1>2, <2>2
    <3>. QED
      BY <3>1 DEF NoLoop
  <2>. QED
    BY <1>1, <1>2, <2>1, <2>2
<1>4. Begins(u)
  BY <1>1, <1>2 DEF LoopOnlyAt, Begins
<1>. QED
  BY <1>1, <1>2, <1>3, <1>4 DEF LoopOnlyAt, u

LEMMA NoLoopConcat ==
  ASSUME NEW s, NEW t, NoLoop(s), NoLoop(t)
  PROVE  /\ NoLoop(s \o t) /\ Len(s \o t) = Len(s) + Len(t)
         /\ Begins(s) => Begins(s \o t)
<1> DEFINE u == s \o t
<1>1. /\ u \in Seq(OpRecord) /\ Len(u) = Len(s) + Len(t)
      /\ \A i \in 1 .. Len(s) + Len(t) :
           u[i] = IF i <= Len(s) THEN s[i] ELSE t[i - Len(s)]
  BY ConcatProperties DEF NoLoop
<1>2. Len(s) \in Nat /\ Len(t) \in Nat
  BY DEF NoLoop
<1> HIDE DEF u
<1>3. ASSUME NEW i \in 1 .. Len(u) PROVE u[i].op # "loop"
  <2>1. CASE i <= Len(s)
    BY <1>1, <1>2, <2>1 DEF NoLoop
  <2>2. CASE i > Len(s)
    <3>1. i - Len(s) \in 1 .. Len(t) /\ u[i] = t[i - Len(s)]
      BY <1>1, <1>2, <2>2
    <3>. QED
      BY <3>1 DEF NoLoop
  <2>. QED
    BY <1>1, <1>2, <2>1, <2>2
<1>4. Begins(s) => Begins(u)
  BY <1>1, <1>2 DEF Begins
<1>. QED
  BY <1>1, <1>3, <1>4 DEF NoLoop, u

(* The operations on topics start no loop. *)
LEMMA TopicsNoLoop ==
  ASSUME NEW op \in {"sub", "unsub"}, NEW topics \in Seq(Topics)
  PROVE  NoLoop(each_topic(op, topics))
         /\ Len(each_topic(op, topics)) = 3 * Len(topics)
<1> DEFINE s == each_topic(op, topics)
<1>1. s = [i \in 1 .. 3 * Len(topics) |->
             IF i % 3 = 1 THEN On(op, topics[(i + 2) \div 3]) ELSE Op("publish")]
  BY DEF each_topic
<1>2. 3 * Len(topics) \in Nat
  OBVIOUS
<1>3. ASSUME NEW i \in 1 .. 3 * Len(topics)
      PROVE  s[i] \in OpRecord /\ s[i].op # "loop"
  <2>1. CASE i % 3 = 1
    <3>1. (i + 2) \div 3 \in 1 .. Len(topics)
      BY <2>1
    <3>2. topics[(i + 2) \div 3] \in Topics
      BY <3>1
    <3>3. s[i] = On(op, topics[(i + 2) \div 3])
      BY <1>1, <2>1
    <3>. QED
      BY <3>2, <3>3 DEF On, OpRecord
  <2>2. CASE i % 3 # 1
    <3>1. s[i] = Op("publish")
      BY <1>1, <2>2
    <3>. QED
      BY <3>1 DEF Op, OpRecord
  <2>. QED
    BY <2>1, <2>2
<1> HIDE DEF s
<1>4. DOMAIN s = 1 .. 3 * Len(topics)
  BY <1>1
<1>5. s \in [1 .. 3 * Len(topics) -> OpRecord]
  BY <1>1, <1>3, <1>4
<1>6. s \in Seq(OpRecord) /\ Len(s) = 3 * Len(topics)
  BY <1>2, <1>5
<1>. QED
  BY <1>3, <1>6 DEF NoLoop, s

(* The main thread listens before it does anything else, starts the loop   *)
(* once, and a gateway's main thread does nothing after that.              *)
LEMMA ScriptShape ==
  ASSUME role \in Roles
  PROVE  /\ LoopOnlyAt(Script, LoopAt)
         /\ role = "gateway" => Len(Script) = 4
<1>1. NoLoop(<<Op("check")>>) /\ Begins(<<Op("check")>>)
  BY DEF Op, OpRecord, NoLoop, Begins
<1>2. ASSUME NEW t \in Topics PROVE LoopOnlyAt(executeJoin(<<t>>), 5)
  <2> DEFINE before == <<Op("check")>> \o subscribe_current_topics(<<t>>)
             next == <<Op("request"), Op("publish"), Op("wait")>>
             others == <<"DWn", "disUPn", "RDR">>
             change == change_actORtopics(<<t>>, others)
  <2>1. <<t>> \in Seq(Topics) /\ Len(<<t>>) = 1 /\ others \in Seq(Topics)
    BY DEF Topics
  <2>2. NoLoop(before) /\ Len(before) = 4 /\ Begins(before)
    <3>1. Len(<<Op("check")>>) = 1
      BY DEF Op
    <3>2. NoLoop(subscribe_current_topics(<<t>>))
          /\ Len(subscribe_current_topics(<<t>>)) = 3 * Len(<<t>>)
      BY <2>1, TopicsNoLoop DEF subscribe_current_topics
    <3>3. /\ NoLoop(before) /\ Begins(before)
          /\ Len(before) = Len(<<Op("check")>>) + Len(subscribe_current_topics(<<t>>))
      BY <1>1, <3>2, NoLoopConcat, Zenon
    <3>4. Len(subscribe_current_topics(<<t>>)) = 3
      <4>1. 3 * Len(<<t>>) = 3
        BY <2>1
      <4>. QED
        BY <3>2, <4>1, Zenon
    <3>5. Len(before) = 1 + 3
      BY <3>1, <3>3, <3>4, Zenon
    <3>6. 1 + 3 = 4
      OBVIOUS
    <3>. QED
      BY <3>3, <3>5, <3>6, Zenon
  <2>3. NoLoop(next)
    BY DEF NoLoop, Op, OpRecord
  <2>4. NoLoop(change)
    <3>1. NoLoop(<<Op("change")>>) /\ NoLoop(<<Op("unchange")>>)
      BY DEF NoLoop, Op, OpRecord
    <3>2. NoLoop(unsubscribe_current_topics(<<t>>))
      BY <2>1, TopicsNoLoop DEF unsubscribe_current_topics
    <3>3. NoLoop(subscribe_current_topics(others))
      BY <2>1, TopicsNoLoop DEF subscribe_current_topics
    <3> HIDE DEF others
    <3>. QED
      BY <3>1, <3>2, <3>3, NoLoopConcat DEF change_actORtopics
  <2>5. NoLoop(<<Op("publish")>>)
    BY DEF NoLoop, Op, OpRecord
  <2>6. LoopOnlyAt(enmqtt_listen(<<t>>), 5)
    <3> HIDE DEF before
    <3>1. LoopOnlyAt(before \o <<Op("loop")>>, Len(before) + 1)
      BY <2>2, LoopIsNext, Zenon
    <3>2. Len(before) + 1 = 5
      BY <2>2
    <3>. QED
      BY <3>1, <3>2 DEF enmqtt_listen, before
  <2>7. executeJoin(<<t>>)
          = ((enmqtt_listen(<<t>>) \o next) \o change) \o <<Op("publish")>>
    BY DEF executeJoin
  <2> HIDE DEF next, change
  <2>8. LoopOnlyAt(enmqtt_listen(<<t>>) \o next, 5)
    BY <2>3, <2>6, LoopIsPast
  <2>9. LoopOnlyAt((enmqtt_listen(<<t>>) \o next) \o change, 5)
    BY <2>4, <2>8, LoopIsPast
  <2>. QED
    BY <2>5, <2>7, <2>9, LoopIsPast
<1>3. LoopOnlyAt(mqtt_listen(<<"JR", "UPn">>), 4)
      /\ Len(mqtt_listen(<<"JR", "UPn">>)) = 4
  <2> DEFINE topics == gwsubscribe_current_topics(<<"JR", "UPn">>)
             before == <<Op("check")>> \o topics
  <2>1. topics = <<On("sub", "JR"), On("sub", "UPn")>>
    BY DEF gwsubscribe_current_topics
  <2>2. NoLoop(topics) /\ Len(topics) = 2
    <3>1. On("sub", "JR") \in OpRecord /\ On("sub", "UPn") \in OpRecord
      BY DEF On, OpRecord, Topics
    <3>2. topics \in Seq(OpRecord) /\ Len(topics) = 2
      <4>1. \A x, y \in OpRecord : <<x, y>> \in Seq(OpRecord) /\ Len(<<x, y>>) = 2
        OBVIOUS
      <4>. QED
        BY <2>1, <3>1, <4>1, Zenon
    <3>3. topics[1].op # "loop" /\ topics[2].op # "loop"
      BY <2>1 DEF On
    <3> HIDE DEF topics
    <3>. QED
      BY <3>2, <3>3 DEF NoLoop
  <2> HIDE DEF topics
  <2>3. NoLoop(before) /\ Len(before) = 3 /\ Begins(before)
    <3>1. Len(<<Op("check")>>) = 1
      BY DEF Op
    <3>2. /\ NoLoop(before) /\ Begins(before)
          /\ Len(before) = Len(<<Op("check")>>) + Len(topics)
      BY <1>1, <2>2, NoLoopConcat, Zenon
    <3> HIDE DEF before
    <3>. QED
      BY <2>2, <3>1, <3>2
  <2>4. <<Op("loop")>> \in Seq(OpRecord) /\ Len(<<Op("loop")>>) = 1
    BY DEF Op, OpRecord
  <2> HIDE DEF before
  <2>5. LoopOnlyAt(before \o <<Op("loop")>>, 4)
    <3>1. LoopOnlyAt(before \o <<Op("loop")>>, Len(before) + 1)
      BY <2>3, LoopIsNext, Zenon
    <3>2. Len(before) + 1 = 4
      BY <2>3
    <3>. QED
      BY <3>1, <3>2
  <2>6. Len(before \o <<Op("loop")>>) = 4
    <3>1. Len(before \o <<Op("loop")>>) = Len(before) + Len(<<Op("loop")>>)
      BY <2>3, <2>4, ConcatProperties, Zenon DEF NoLoop
    <3>. QED
      BY <2>3, <2>4, <3>1
  <2>7. mqtt_listen(<<"JR", "UPn">>) = before \o <<Op("loop")>>
    BY DEF mqtt_listen, before, topics
  <2>. QED
    BY <2>5, <2>6, <2>7
<1>4. role \in {"node", "radio", "gateway"}
  BY MqttAssumption
<1>. QED
  BY <1>2, <1>3, <1>4 DEF Script, Scripts, LoopAt, Topics
-------------------------------------------------------------------------------
(* Every step is a step of one of these operations. *)
ThreadStep(t) ==
  \/ CheckInitialized(t) \/ MakeClient(t) \/ Connected(t) \/ ConnectFails(t)
  \/ SendReturns(t) \/ BeginPublish(t)

LEMMA StepCases ==
  ASSUME [Next]_vars
  PROVE  \/ \E t \in Thread : ThreadStep(t)
         \/ \E t \in Topics : enmessage_callback(t)
         \/ MainCheck \/ MainListens \/ MainSent \/ Subscribe \/ Unsubscribe
         \/ ChangingTopics \/ CreateLoop \/ AcceptTaken
         \/ enmqtt_loop \/ HandlerSends \/ HandlerReturns
         \/ enmy_disconnect_callback \/ eninitialize_and_connect_mqtt \/ ClearFlag
         \/ gwmy_disconnect_callback \/ Reconnect \/ Drop
         \/ ReachableTurns \/ UNCHANGED vars
BY DEF Next, MainStep, LoopStep, GatewayStep, encheck_initialized, ThreadStep,
       Thread

LEMMA RoleStays ==
  ASSUME [Next]_vars
  PROVE  role' = role /\ Script' = Script /\ LoopAt' = LoopAt
<1>1. role' = role
  BY StepCases
     DEF vars, ThreadStep,
         CheckInitialized, MakeClient, Connected, ConnectFails,
         SendReturns, BeginPublish, MainCheck, MainListens,
         MainSent, Subscribe, Unsubscribe, ChangingTopics,
         CreateLoop, AcceptTaken, enmqtt_loop, HandlerSends,
         HandlerReturns, enmy_disconnect_callback, Notices,
         eninitialize_and_connect_mqtt, ClearFlag,
         gwmy_disconnect_callback, Reconnect, Drop, ReachableTurns,
         enmessage_callback
<1>. QED
  BY <1>1 DEF Script, Scripts, LoopAt
-------------------------------------------------------------------------------
(* Where the main thread is when the loop thread is where it is. *)
ScriptInv ==
  /\ loop = "none" <=> step <= LoopAt
  /\ call["main"] # "none" => /\ step <= Len(Script)
                              /\ Script[step].op \in Publishing \cup {"check"}
  /\ loop \in {"none", "created"} <=> loop_client = 0
  /\ \A t \in {"up", "down", "loop"} : call[t] # "none" => loop # "none"
  /\ call["loop"] # "none" => loop \in {"handle", "alert"}

(* Clients and the flag: a client that is still being made is not the loop *)
(* thread's, and the flag is set whenever the loop thread starts.          *)
ClientInv ==
  /\ mosq = clients
  /\ mtx # Nobody => ~initialized
  /\ (\/ initialized \/ step > 1 \/ loop = "connect"
      \/ \E t \in Thread : call[t] \in {"connect", "send"})
       => clients > 0
  /\ loop \in {"none", "created"} /\ (step > 1 \/ call["main"] = "send")
       => initialized
  /\ /\ loop_client # 0
     /\ loop = "connect" \/ \E t \in Thread : call[t] = "connect"
     => mosq # loop_client
  /\ role # "gateway" /\ loop \in {"connect", "alert", "offline"}
       => mosq # loop_client

(* Once the loop thread's client lost its connection, or another client is *)
(* in use, a connection of the loop's client has no subscription.          *)
SubsInv ==
  /\ loop_lost => loop_client # 0
  /\ loop_client # 0 /\ conn = loop_client
       /\ (loop_lost \/ mosq # loop_client \/ ~initialized) => subs = {}
  /\ role # "gateway" /\ loop_lost /\ conn = loop_client => mosq # loop_client
  /\ role # "gateway" /\ loop_client # 0 /\ ~initialized => mosq # loop_client
  /\ loop \in {"new", "connect", "alert", "offline"} => conn # loop_client

(* As long as no connection breaks there is one client, and it is          *)
(* connected whenever the flag is set.                                     *)
DropInv ==
  /\ clients <= 1 /\ lost = 0
  /\ loop \in {"none", "created", "idle", "handle"}
  /\ loop \in {"idle", "handle"} => loop_client = mosq
  /\ initialized => conn = mosq
  /\ clients = 1 => initialized \/ \E t \in Thread : call[t] = "connect"
  /\ \A t \in Thread : /\ call[t] = "new" => clients = 0
                       /\ call[t] = "send" => initialized
  /\ loop # "none" => initialized

MqttInv == TypeOK /\ ScriptInv /\ ClientInv /\ SubsInv /\ (drops = 0 => DropInv)

(* Three parts of the type invariant. *)
CallsTyped ==
  /\ call \in [Thread -> {"none", "check", "new", "connect", "send"}]
  /\ mtx \in Thread \cup {Nobody}
  /\ \A t \in Thread : call[t] \in {"new", "connect"} <=> mtx = t

ClientsTyped ==
  /\ clients \in 0 .. MaxClients /\ mosq \in 0 .. clients
  /\ open \subseteq 1 .. clients /\ loop_client \in 0 .. clients

HistoryTyped == {published, drops, delivered, lost, heard} \subseteq Nat

LEMMA MqttInit == ASSUME Init PROVE MqttInv
<1>1. role \in Roles /\ LoopOnlyAt(Script, LoopAt)
  BY ScriptShape DEF Init
<1>2. Len(Script) \in Nat \ {0} /\ LoopAt \in {4, 5}
  BY <1>1 DEF LoopOnlyAt, LoopAt
<1>3. TypeOK
  <2>1. step \in 1 .. Len(Script) + 1
    BY <1>2 DEF Init
  <2>2. clients \in 0 .. MaxClients /\ mosq \in 0 .. clients
    BY MqttAssumption DEF Init
  <2>3. /\ loop_client \in 0 .. clients /\ open \subseteq 1 .. clients
        /\ conn \in open \cup {0} /\ subs \subseteq Topics
    BY DEF Init
  <2>4. CallsTyped
    BY DEF Init, CallsTyped, Thread, Nobody
  <2>5. HistoryTyped
    BY DEF Init, HistoryTyped
  <2>6. /\ main = "run" /\ changing_topics = FALSE /\ initialized = FALSE
        /\ accepted = FALSE /\ loop_lost = FALSE /\ loop = "none"
        /\ todo \in 0 .. 4 /\ subs = {} /\ conn = 0 /\ reachable \in BOOLEAN
    BY DEF Init
  <2>. QED
    BY <1>1, <2>1, <2>2, <2>3, <2>4, <2>5, <2>6
       DEF TypeOK, CallsTyped, HistoryTyped
<1>4. ScriptInv
  BY <1>2 DEF Init, ScriptInv, Thread
<1>5. ClientInv /\ SubsInv
  BY DEF Init, ClientInv, SubsInv, Thread, Nobody
<1>6. DropInv
  BY DEF Init, DropInv, Thread
<1>. QED
  BY <1>3, <1>4, <1>5, <1>6 DEF MqttInv

(* Every step keeps the types: a client that is connected was made. *)
LEMMA TypeStep == ASSUME MqttInv, [Next]_vars PROVE TypeOK'
<1> USE DEF MqttInv, TypeOK, ScriptInv, ClientInv, LoopOnlyAt, Begins,
      Running, Publishing, mainVars, mqttVars, brokerVars, loopVars, history,
      Thread, Nobody, CallsTyped, ClientsTyped, HistoryTyped
<1>1. /\ role \in Roles /\ LoopOnlyAt(Script, LoopAt)
      /\ role = "gateway" => Len(Script) = 4
  BY ScriptShape
<1>2. role' = role /\ Script' = Script /\ LoopAt' = LoopAt
  BY RoleStays
<1>3. ASSUME NEW t \in Thread, ThreadStep(t) PROVE TypeOK'
  <2>1. CASE CheckInitialized(t)
    BY <1>1, <1>2, <2>1 DEF CheckInitialized
  <2>2. CASE MakeClient(t)
    <3>1. CallsTyped'
      BY <2>2 DEF MakeClient
    <3>2. clients' \in 0 .. MaxClients /\ mosq' \in 0 .. clients'
      BY <2>2, MqttAssumption DEF MakeClient, NewClient
    <3>3. open' \subseteq 1 .. clients' /\ loop_client' \in 0 .. clients'
      <4>1. /\ clients' = clients + 1 /\ open' = open
            /\ loop_client' = loop_client
        BY <2>2 DEF MakeClient, NewClient
      <4>2. /\ open \subseteq 1 .. clients /\ clients \in Nat
            /\ loop_client \in 0 .. clients
        OBVIOUS
      <4>. QED
        BY ONLY <4>1, <4>2
    <3>4. /\ conn' \in open' \cup {0}
          /\ subs' \subseteq Topics /\ (conn' = 0 => subs' = {})
          /\ reachable' \in BOOLEAN /\ (conn' # 0 => reachable')
      BY <2>2 DEF MakeClient, NewClient
    <3>. QED
      BY <1>2, <2>2, <3>1, <3>2, <3>3, <3>4 DEF MakeClient
  <2>3. CASE Connected(t)
    BY <1>1, <1>2, <2>3 DEF Connected, ConnectClient
  <2>4. CASE ConnectFails(t)
    BY <1>1, <1>2, <2>4 DEF ConnectFails
  <2>5. CASE SendReturns(t)
    <3>1. CallsTyped'
      BY <2>5 DEF SendReturns
    <3>2. HistoryTyped'
      BY <2>5 DEF SendReturns, Sent
    <3>. QED
      BY <1>2, <2>5, <3>1, <3>2 DEF SendReturns
  <2>6. CASE BeginPublish(t)
    BY <1>1, <1>2, <2>6 DEF BeginPublish
  <2>. QED
    BY <1>3, <2>1, <2>2, <2>3, <2>4, <2>5, <2>6 DEF ThreadStep
<1>4. ASSUME NEW t \in Topics, enmessage_callback(t) PROVE TypeOK'
  <2>1. HandlerPublishes(t) \in 0 .. 4
    BY DEF HandlerPublishes
  <2>2. todo' \in 0 .. 4
    BY <1>4, <2>1 DEF enmessage_callback
  <2>3. accepted' \in BOOLEAN
    BY <1>4 DEF enmessage_callback
  <2>4. loop' \in {"idle", "handle"}
    BY <1>4 DEF enmessage_callback, Loop
  <2>5. HistoryTyped'
    BY <1>4 DEF enmessage_callback
  <2>. QED
    BY <1>2, <1>4, <2>2, <2>3, <2>4, <2>5 DEF enmessage_callback
<1>5. CASE MainCheck
  BY <1>1, <1>2, <1>5 DEF MainCheck, Next_op
<1>6. CASE MainListens
  BY <1>1, <1>2, <1>6 DEF MainListens, Next_op, Done
<1>7. CASE MainSent
  <2>1. CallsTyped'
    BY <1>7 DEF MainSent
  <2>2. HistoryTyped'
    BY <1>7 DEF MainSent, Sent
  <2>3. main' \in {"run", "failed", "exited"} /\ step' \in 1 .. Len(Script) + 1
    BY <1>1, <1>7 DEF MainSent, Next_op, Done
  <2>. QED
    BY <1>2, <1>7, <2>1, <2>2, <2>3 DEF MainSent
<1>8. CASE Subscribe
  <2>1. subs' \subseteq Topics
    <3>1. /\ Script \in Seq(OpRecord) /\ step \in 1 .. Len(Script)
          /\ Script[step].op = "sub"
      BY <1>1, <1>8 DEF Subscribe, Next_op
    <3>2. Script[step].topic \in Topics
      BY ONLY <3>1 DEF OpRecord
    <3>3. subs' = subs \cup {Script[step].topic} \/ subs' = subs
      BY <1>8 DEF Subscribe
    <3>. QED
      BY <3>2, <3>3
  <2>2. /\ conn' \in open' \cup {0} /\ (conn' = 0 => subs' = {})
        /\ reachable' \in BOOLEAN /\ (conn' # 0 => reachable')
    BY <1>1, <1>8 DEF Subscribe, Next_op
  <2>3. main' \in {"run", "failed", "exited"} /\ step' \in 1 .. Len(Script) + 1
    BY <1>1, <1>8 DEF Subscribe, Next_op, Done
  <2>. QED
    BY <1>2, <1>8, <2>1, <2>2, <2>3 DEF Subscribe
<1>9. CASE Unsubscribe
  BY <1>1, <1>2, <1>9 DEF Unsubscribe, Next_op, Done
<1>10. CASE ChangingTopics
  BY <1>1, <1>2, <1>10 DEF ChangingTopics, Next_op, Done
<1>11. CASE CreateLoop
  BY <1>1, <1>2, <1>11 DEF CreateLoop, Next_op, Done
<1>12. CASE AcceptTaken
  BY <1>1, <1>2, <1>12 DEF AcceptTaken, Next_op, Done
<1>13. CASE enmqtt_loop
  BY <1>1, <1>2, <1>13 DEF enmqtt_loop, Loop
<1>14. CASE HandlerSends
  BY <1>1, <1>2, <1>14 DEF HandlerSends, Loop
<1>15. CASE HandlerReturns
  BY <1>1, <1>2, <1>15 DEF HandlerReturns, Loop
<1>16. CASE enmy_disconnect_callback
  BY <1>1, <1>2, <1>16 DEF enmy_disconnect_callback, Notices, Loop
<1>17. CASE eninitialize_and_connect_mqtt
  <2>1. CallsTyped'
    BY <1>17 DEF eninitialize_and_connect_mqtt, Loop
  <2>2. clients' \in 0 .. MaxClients /\ mosq' \in 0 .. clients'
    BY <1>17, MqttAssumption DEF eninitialize_and_connect_mqtt, Loop, NewClient,
                ConnectClient
  <2>3. open' \subseteq 1 .. clients' /\ loop_client' \in 0 .. clients'
    <3>1. CASE /\ clients' = clients + 1 /\ open' = open
               /\ loop_client' = loop_client
      <4>1. /\ open \subseteq 1 .. clients /\ clients \in Nat
            /\ loop_client \in 0 .. clients
        OBVIOUS
      <4>. QED
        BY ONLY <3>1, <4>1
    <3>2. CASE /\ clients' = clients /\ open' = open \cup {mosq}
               /\ mosq > 0 /\ loop_client' = loop_client
      BY <3>2
    <3>. QED
      BY <1>17, <3>1, <3>2 DEF eninitialize_and_connect_mqtt, Loop, NewClient,
                    ConnectClient
  <2>4. /\ conn' \in open' \cup {0}
        /\ subs' \subseteq Topics /\ (conn' = 0 => subs' = {})
        /\ reachable' \in BOOLEAN /\ (conn' # 0 => reachable')
    BY <1>17 DEF eninitialize_and_connect_mqtt, Loop, NewClient,
                ConnectClient
  <2>5. loop' \in {"connect", "alert"} /\ loop_lost' \in BOOLEAN
    BY <1>17 DEF eninitialize_and_connect_mqtt, Loop, NewClient,
                ConnectClient
  <2>6. UNCHANGED <<role, mainVars, initialized, todo, accepted, history>>
    BY <1>17 DEF eninitialize_and_connect_mqtt
  <2>. QED
    BY <1>2, <2>1, <2>2, <2>3, <2>4, <2>5, <2>6
<1>18. CASE ClearFlag
  BY <1>1, <1>2, <1>18 DEF ClearFlag, Loop
<1>19. CASE gwmy_disconnect_callback
  BY <1>1, <1>2, <1>19 DEF gwmy_disconnect_callback, Notices, Loop
<1>20. CASE Reconnect
  BY <1>1, <1>2, <1>20 DEF Reconnect, Loop
<1>21. CASE Drop
  BY <1>1, <1>2, <1>21 DEF Drop
<1>22. CASE ReachableTurns
  BY <1>1, <1>2, <1>22 DEF ReachableTurns
<1>23. CASE UNCHANGED vars
  BY <1>1, <1>2, <1>23 DEF vars
<1>. QED
  BY StepCases, <1>3, <1>4, <1>5, <1>6, <1>7, <1>8, <1>9, <1>10, <1>11, <1>12,
       <1>13, <1>14, <1>15, <1>16, <1>17, <1>18, <1>19, <1>20, <1>21, <1>22,
       <1>23

(* Every step keeps the two threads in step. *)
LEMMA ScriptStep == ASSUME MqttInv, [Next]_vars PROVE ScriptInv'
<1> USE DEF MqttInv, TypeOK, ScriptInv, ClientInv, LoopOnlyAt, Begins,
      Running, Publishing, mainVars, mqttVars, brokerVars, loopVars, history,
      Thread, Nobody
<1>1. /\ role \in Roles /\ LoopOnlyAt(Script, LoopAt)
      /\ role = "gateway" => Len(Script) = 4
  BY ScriptShape
<1>2. role' = role /\ Script' = Script /\ LoopAt' = LoopAt
  BY RoleStays
<1>3. ASSUME NEW t \in Thread, ThreadStep(t) PROVE ScriptInv'
  <2>1. CASE CheckInitialized(t)
    BY <1>1, <1>2, <2>1 DEF CheckInitialized
  <2>2. CASE MakeClient(t)
    BY <1>1, <1>2, <2>2 DEF MakeClient, NewClient
  <2>3. CASE Connected(t)
    BY <1>1, <1>2, <2>3 DEF Connected, ConnectClient
  <2>4. CASE ConnectFails(t)
    BY <1>1, <1>2, <2>4 DEF ConnectFails
  <2>5. CASE SendReturns(t)
    BY <1>1, <1>2, <2>5 DEF SendReturns, Sent, Outcome
  <2>6. CASE BeginPublish(t)
    BY <1>1, <1>2, <2>6 DEF BeginPublish
  <2>. QED
    BY <1>3, <2>1, <2>2, <2>3, <2>4, <2>5, <2>6 DEF ThreadStep
<1>4. ASSUME NEW t \in Topics, enmessage_callback(t) PROVE ScriptInv'
  BY <1>1, <1>2, <1>4 DEF enmessage_callback, Loop, HandlerPublishes
<1>5. CASE MainCheck
  BY <1>1, <1>2, <1>5 DEF MainCheck, Next_op
<1>6. CASE MainListens
  BY <1>1, <1>2, <1>6 DEF MainListens, Next_op, Done
<1>7. CASE MainSent
  BY <1>1, <1>2, <1>7 DEF MainSent, Next_op, Sent, Done, Outcome, Publishing
<1>8. CASE Subscribe
  BY <1>1, <1>2, <1>8 DEF Subscribe, Next_op, Done
<1>9. CASE Unsubscribe
  BY <1>1, <1>2, <1>9 DEF Unsubscribe, Next_op, Done
<1>10. CASE ChangingTopics
  BY <1>1, <1>2, <1>10 DEF ChangingTopics, Next_op, Done
<1>11. CASE CreateLoop
  BY <1>1, <1>2, <1>11 DEF CreateLoop, Next_op, Done
<1>12. CASE AcceptTaken
  BY <1>1, <1>2, <1>12 DEF AcceptTaken, Next_op, Done
<1>13. CASE enmqtt_loop
  BY <1>1, <1>2, <1>13 DEF enmqtt_loop, Loop
<1>14. CASE HandlerSends
  BY <1>1, <1>2, <1>14 DEF HandlerSends, Loop
<1>15. CASE HandlerReturns
  BY <1>1, <1>2, <1>15 DEF HandlerReturns, Loop
<1>16. CASE enmy_disconnect_callback
  BY <1>1, <1>2, <1>16 DEF enmy_disconnect_callback, Notices, Loop
<1>17. CASE eninitialize_and_connect_mqtt
  BY <1>1, <1>2, <1>17 DEF eninitialize_and_connect_mqtt, Loop, NewClient,
       ConnectClient
<1>18. CASE ClearFlag
  BY <1>1, <1>2, <1>18 DEF ClearFlag, Loop
<1>19. CASE gwmy_disconnect_callback
  BY <1>1, <1>2, <1>19 DEF gwmy_disconnect_callback, Notices, Loop
<1>20. CASE Reconnect
  BY <1>1, <1>2, <1>20 DEF Reconnect, Loop
<1>21. CASE Drop
  BY <1>1, <1>2, <1>21 DEF Drop
<1>22. CASE ReachableTurns
  BY <1>1, <1>2, <1>22 DEF ReachableTurns
<1>23. CASE UNCHANGED vars
  BY <1>1, <1>2, <1>23 DEF vars
<1>. QED
  BY StepCases, <1>3, <1>4, <1>5, <1>6, <1>7, <1>8, <1>9, <1>10, <1>11, <1>12,
       <1>13, <1>14, <1>15, <1>16, <1>17, <1>18, <1>19, <1>20, <1>21, <1>22,
       <1>23

(* Every step keeps what is known of the clients and the flag. *)
LEMMA ClientStep == ASSUME MqttInv, [Next]_vars PROVE ClientInv'
<1> USE DEF MqttInv, TypeOK, ScriptInv, ClientInv, LoopOnlyAt, Begins,
      Running, Publishing, mainVars, mqttVars, brokerVars, loopVars, history,
      Thread, Nobody
<1>1. /\ role \in Roles /\ LoopOnlyAt(Script, LoopAt)
      /\ role = "gateway" => Len(Script) = 4
  BY ScriptShape
<1>2. role' = role /\ Script' = Script /\ LoopAt' = LoopAt
  BY RoleStays
<1>3. ASSUME NEW t \in Thread, ThreadStep(t) PROVE ClientInv'
  <2>1. CASE CheckInitialized(t)
    BY <1>1, <1>2, <2>1 DEF CheckInitialized
  <2>2. CASE MakeClient(t)
    BY <1>1, <1>2, <2>2 DEF MakeClient, NewClient
  <2>3. CASE Connected(t)
    BY <1>1, <1>2, <2>3 DEF Connected, ConnectClient
  <2>4. CASE ConnectFails(t)
    BY <1>1, <1>2, <2>4 DEF ConnectFails
  <2>5. CASE SendReturns(t)
    BY <1>1, <1>2, <2>5 DEF SendReturns, Sent, Outcome
  <2>6. CASE BeginPublish(t)
    BY <1>1, <1>2, <2>6 DEF BeginPublish
  <2>. QED
    BY <1>3, <2>1, <2>2, <2>3, <2>4, <2>5, <2>6 DEF ThreadStep
<1>4. ASSUME NEW t \in Topics, enmessage_callback(t) PROVE ClientInv'
  BY <1>1, <1>2, <1>4 DEF enmessage_callback, Loop, HandlerPublishes
<1>5. CASE MainCheck
  BY <1>1, <1>2, <1>5 DEF MainCheck, Next_op
<1>6. CASE MainListens
  BY <1>1, <1>2, <1>6 DEF MainListens, Next_op, Done
<1>7. CASE MainSent
  BY <1>1, <1>2, <1>7 DEF MainSent, Next_op, Sent, Done, Outcome, Publishing
<1>8. CASE Subscribe
  BY <1>1, <1>2, <1>8 DEF Subscribe, Next_op, Done
<1>9. CASE Unsubscribe
  BY <1>1, <1>2, <1>9 DEF Unsubscribe, Next_op, Done
<1>10. CASE ChangingTopics
  BY <1>1, <1>2, <1>10 DEF ChangingTopics, Next_op, Done
<1>11. CASE CreateLoop
  BY <1>1, <1>2, <1>11 DEF CreateLoop, Next_op, Done
<1>12. CASE AcceptTaken
  BY <1>1, <1>2, <1>12 DEF AcceptTaken, Next_op, Done
<1>13. CASE enmqtt_loop
  BY <1>1, <1>2, <1>13 DEF enmqtt_loop, Loop
<1>14. CASE HandlerSends
  BY <1>1, <1>2, <1>14 DEF HandlerSends, Loop
<1>15. CASE HandlerReturns
  BY <1>1, <1>2, <1>15 DEF HandlerReturns, Loop
<1>16. CASE enmy_disconnect_callback
  BY <1>1, <1>2, <1>16 DEF enmy_disconnect_callback, Notices, Loop
<1>17. CASE eninitialize_and_connect_mqtt
  BY <1>1, <1>2, <1>17 DEF eninitialize_and_connect_mqtt, Loop, NewClient,
       ConnectClient
<1>18. CASE ClearFlag
  BY <1>1, <1>2, <1>18 DEF ClearFlag, Loop
<1>19. CASE gwmy_disconnect_callback
  BY <1>1, <1>2, <1>19 DEF gwmy_disconnect_callback, Notices, Loop
<1>20. CASE Reconnect
  BY <1>1, <1>2, <1>20 DEF Reconnect, Loop
<1>21. CASE Drop
  BY <1>1, <1>2, <1>21 DEF Drop
<1>22. CASE ReachableTurns
  BY <1>1, <1>2, <1>22 DEF ReachableTurns
<1>23. CASE UNCHANGED vars
  BY <1>1, <1>2, <1>23 DEF vars
<1>. QED
  BY StepCases, <1>3, <1>4, <1>5, <1>6, <1>7, <1>8, <1>9, <1>10, <1>11, <1>12,
       <1>13, <1>14, <1>15, <1>16, <1>17, <1>18, <1>19, <1>20, <1>21, <1>22,
       <1>23

(* No step subscribes a loop client that was cut off, or is not in use. *)
LEMMA SubsStep == ASSUME MqttInv, [Next]_vars PROVE SubsInv'
<1> USE DEF MqttInv, TypeOK, ScriptInv, ClientInv, LoopOnlyAt, Begins,
      Running, Publishing, mainVars, mqttVars, brokerVars, loopVars, history,
      Thread, Nobody, SubsInv
<1>1. /\ role \in Roles /\ LoopOnlyAt(Script, LoopAt)
      /\ role = "gateway" => Len(Script) = 4
  BY ScriptShape
<1>2. role' = role /\ Script' = Script /\ LoopAt' = LoopAt
  BY RoleStays
<1>3. ASSUME NEW t \in Thread, ThreadStep(t) PROVE SubsInv'
  <2>1. CASE CheckInitialized(t)
    BY <1>1, <1>2, <2>1 DEF CheckInitialized
  <2>2. CASE MakeClient(t)
    BY <1>1, <1>2, <2>2 DEF MakeClient, NewClient
  <2>3. CASE Connected(t)
    BY <1>1, <1>2, <2>3 DEF Connected, ConnectClient
  <2>4. CASE ConnectFails(t)
    BY <1>1, <1>2, <2>4 DEF ConnectFails
  <2>5. CASE SendReturns(t)
    BY <1>1, <1>2, <2>5 DEF SendReturns, Sent, Outcome
  <2>6. CASE BeginPublish(t)
    BY <1>1, <1>2, <2>6 DEF BeginPublish
  <2>. QED
    BY <1>3, <2>1, <2>2, <2>3, <2>4, <2>5, <2>6 DEF ThreadStep
<1>4. ASSUME NEW t \in Topics, enmessage_callback(t) PROVE SubsInv'
  BY <1>1, <1>2, <1>4 DEF enmessage_callback, Loop, HandlerPublishes
<1>5. CASE MainCheck
  BY <1>1, <1>2, <1>5 DEF MainCheck, Next_op
<1>6. CASE MainListens
  BY <1>1, <1>2, <1>6 DEF MainListens, Next_op, Done
<1>7. CASE MainSent
  BY <1>1, <1>2, <1>7 DEF MainSent, Next_op, Sent, Done, Outcome, Publishing
<1>8. CASE Subscribe
  <2>1. step # 1 /\ step \in 1 .. Len(Script) /\ Script[step].op # "loop"
    BY <1>1, <1>8 DEF Subscribe, Next_op
  <2>2. CASE conn = mosq /\ loop_client # 0
    <3>1. role # "gateway"
      <4>1. step > LoopAt
        BY <1>1, <2>1, <2>2 DEF LoopAt
      <4>. QED
        BY <1>1, <2>1, <4>1 DEF LoopAt
    <3>2. ~(/\ conn = loop_client
            /\ loop_lost \/ mosq # loop_client \/ ~initialized)
      BY <2>2, <3>1
    <3>. QED
      BY <1>2, <1>8, <2>2, <3>1, <3>2 DEF Subscribe
  <2>3. CASE conn # mosq
    BY <1>2, <1>8, <2>3 DEF Subscribe
  <2>4. CASE loop_client = 0
    BY <1>2, <1>8, <2>4 DEF Subscribe
  <2>. QED
    BY <2>2, <2>3, <2>4
<1>9. CASE Unsubscribe
  BY <1>1, <1>2, <1>9 DEF Unsubscribe, Next_op, Done
<1>10. CASE ChangingTopics
  BY <1>1, <1>2, <1>10 DEF ChangingTopics, Next_op, Done
<1>11. CASE CreateLoop
  BY <1>1, <1>2, <1>11 DEF CreateLoop, Next_op, Done
<1>12. CASE AcceptTaken
  BY <1>1, <1>2, <1>12 DEF AcceptTaken, Next_op, Done
<1>13. CASE enmqtt_loop
  BY <1>1, <1>2, <1>13 DEF enmqtt_loop, Loop
<1>14. CASE HandlerSends
  BY <1>1, <1>2, <1>14 DEF HandlerSends, Loop
<1>15. CASE HandlerReturns
  BY <1>1, <1>2, <1>15 DEF HandlerReturns, Loop
<1>16. CASE enmy_disconnect_callback
  BY <1>1, <1>2, <1>16 DEF enmy_disconnect_callback, Notices, Loop
<1>17. CASE eninitialize_and_connect_mqtt
  BY <1>1, <1>2, <1>17 DEF eninitialize_and_connect_mqtt, Loop, NewClient,
       ConnectClient
<1>18. CASE ClearFlag
  BY <1>1, <1>2, <1>18 DEF ClearFlag, Loop
<1>19. CASE gwmy_disconnect_callback
  BY <1>1, <1>2, <1>19 DEF gwmy_disconnect_callback, Notices, Loop
<1>20. CASE Reconnect
  BY <1>1, <1>2, <1>20 DEF Reconnect, Loop
<1>21. CASE Drop
  BY <1>1, <1>2, <1>21 DEF Drop
<1>22. CASE ReachableTurns
  BY <1>1, <1>2, <1>22 DEF ReachableTurns
<1>23. CASE UNCHANGED vars
  BY <1>1, <1>2, <1>23 DEF vars
<1>. QED
  BY StepCases, <1>3, <1>4, <1>5, <1>6, <1>7, <1>8, <1>9, <1>10, <1>11, <1>12,
       <1>13, <1>14, <1>15, <1>16, <1>17, <1>18, <1>19, <1>20, <1>21, <1>22,
       <1>23

(* No step but a broken connection makes a second client. *)
LEMMA DropStep == ASSUME MqttInv, [Next]_vars PROVE (drops = 0 => DropInv)'
<1> USE DEF MqttInv, TypeOK, ScriptInv, ClientInv, LoopOnlyAt, Begins,
      Running, Publishing, mainVars, mqttVars, brokerVars, loopVars, history,
      Thread, Nobody, DropInv
<1>1. /\ role \in Roles /\ LoopOnlyAt(Script, LoopAt)
      /\ role = "gateway" => Len(Script) = 4
  BY ScriptShape
<1>2. role' = role /\ Script' = Script /\ LoopAt' = LoopAt
  BY RoleStays
<1>3. ASSUME NEW t \in Thread, ThreadStep(t) PROVE (drops = 0 => DropInv)'
  <2>1. CASE CheckInitialized(t)
    BY <1>1, <1>2, <2>1 DEF CheckInitialized
  <2>2. CASE MakeClient(t)
    BY <1>1, <1>2, <2>2 DEF MakeClient, NewClient
  <2>3. CASE Connected(t)
    BY <1>1, <1>2, <2>3 DEF Connected, ConnectClient
  <2>4. CASE ConnectFails(t)
    BY <1>1, <1>2, <2>4 DEF ConnectFails
  <2>5. CASE SendReturns(t)
    BY <1>1, <1>2, <2>5 DEF SendReturns, Sent, Outcome
  <2>6. CASE BeginPublish(t)
    BY <1>1, <1>2, <2>6 DEF BeginPublish
  <2>. QED
    BY <1>3, <2>1, <2>2, <2>3, <2>4, <2>5, <2>6 DEF ThreadStep
<1>4. ASSUME NEW t \in Topics, enmessage_callback(t) PROVE (drops = 0 => DropInv)'
  BY <1>1, <1>2, <1>4 DEF enmessage_callback, Loop, HandlerPublishes
<1>5. CASE MainCheck
  BY <1>1, <1>2, <1>5 DEF MainCheck, Next_op
<1>6. CASE MainListens
  BY <1>1, <1>2, <1>6 DEF MainListens, Next_op, Done
<1>7. CASE MainSent
  BY <1>1, <1>2, <1>7 DEF MainSent, Next_op, Sent, Done, Outcome, Publishing
<1>8. CASE Subscribe
  BY <1>1, <1>2, <1>8 DEF Subscribe, Next_op, Done
<1>9. CASE Unsubscribe
  BY <1>1, <1>2, <1>9 DEF Unsubscribe, Next_op, Done
<1>10. CASE ChangingTopics
  BY <1>1, <1>2, <1>10 DEF ChangingTopics, Next_op, Done
<1>11. CASE CreateLoop
  BY <1>1, <1>2, <1>11 DEF CreateLoop, Next_op, Done
<1>12. CASE AcceptTaken
  BY <1>1, <1>2, <1>12 DEF AcceptTaken, Next_op, Done
<1>13. CASE enmqtt_loop
  BY <1>1, <1>2, <1>13 DEF enmqtt_loop, Loop
<1>14. CASE HandlerSends
  BY <1>1, <1>2, <1>14 DEF HandlerSends, Loop
<1>15. CASE HandlerReturns
  BY <1>1, <1>2, <1>15 DEF HandlerReturns, Loop
<1>16. CASE enmy_disconnect_callback
  BY <1>1, <1>2, <1>16 DEF enmy_disconnect_callback, Notices, Loop
<1>17. CASE eninitialize_and_connect_mqtt
  BY <1>1, <1>2, <1>17 DEF eninitialize_and_connect_mqtt, Loop, NewClient,
       ConnectClient
<1>18. CASE ClearFlag
  BY <1>1, <1>2, <1>18 DEF ClearFlag, Loop
<1>19. CASE gwmy_disconnect_callback
  BY <1>1, <1>2, <1>19 DEF gwmy_disconnect_callback, Notices, Loop
<1>20. CASE Reconnect
  BY <1>1, <1>2, <1>20 DEF Reconnect, Loop
<1>21. CASE Drop
  BY <1>1, <1>2, <1>21 DEF Drop
<1>22. CASE ReachableTurns
  BY <1>1, <1>2, <1>22 DEF ReachableTurns
<1>23. CASE UNCHANGED vars
  BY <1>1, <1>2, <1>23 DEF vars
<1>. QED
  BY StepCases, <1>3, <1>4, <1>5, <1>6, <1>7, <1>8, <1>9, <1>10, <1>11, <1>12,
       <1>13, <1>14, <1>15, <1>16, <1>17, <1>18, <1>19, <1>20, <1>21, <1>22,
       <1>23
-------------------------------------------------------------------------------
LEMMA MqttStep == ASSUME MqttInv, [Next]_vars PROVE MqttInv'
BY TypeStep, ScriptStep, ClientStep, SubsStep, DropStep DEF MqttInv

(* The inductive invariant holds throughout. *)
THEOREM MqttInvHolds == Spec => []MqttInv
<1>1. Init => MqttInv
  BY MqttInit
<1>2. MqttInv /\ [Next]_vars => MqttInv'
  BY MqttStep
<1>. QED
  BY <1>1, <1>2, PTL DEF Spec

(* Every variable keeps its type, and only a thread that makes a client    *)
(* holds the lock.                                                         *)
THEOREM TypeCorrect == Spec => []TypeOK
<1>1. MqttInv => TypeOK
  BY DEF MqttInv
<1>. QED
  BY <1>1, MqttInvHolds, PTL

(* As long as no connection breaks, all threads share one client and no    *)
(* message is refused or lost, whatever the number of publishes.           *)
THEOREM OneClient == Spec => []OneClientWithoutDrop
<1>1. MqttInv => OneClientWithoutDrop
  BY DEF MqttInv, DropInv, OneClientWithoutDrop
<1>. QED
  BY <1>1, MqttInvHolds, PTL

(* Once the loop thread's client was cut off, no message is handled again. *)
THEOREM Deaf == Spec => NeverHearsAgain
<1>1. ASSUME MqttInv, [Next]_vars, loop_lost PROVE heard' = heard
  <2>1. ASSUME NEW t \in Topics, enmessage_callback(t) PROVE FALSE
    BY <1>1, <2>1 DEF MqttInv, SubsInv, enmessage_callback
  <2>2. ASSUME NEW t \in Thread, ThreadStep(t) PROVE heard' = heard
    BY <2>2 DEF ThreadStep, CheckInitialized, MakeClient, Connected, ConnectFails,
                SendReturns, BeginPublish, Sent, history
  <2>. QED
    BY <1>1, <2>1, <2>2, StepCases
       DEF vars, history, MainCheck, MainListens, MainSent, Sent, Subscribe,
           Unsubscribe, ChangingTopics, CreateLoop, AcceptTaken, enmqtt_loop,
           HandlerSends, HandlerReturns, enmy_disconnect_callback, Notices,
           eninitialize_and_connect_mqtt, ClearFlag, gwmy_disconnect_callback,
           Reconnect, Drop, ReachableTurns
<1>2. MqttInv /\ [Next]_vars => [loop_lost => heard' = heard]_vars
  BY <1>1
<1>. QED
  BY <1>2, MqttInvHolds, PTL DEF Spec, NeverHearsAgain


(* In a mute process nothing but a broken connection ends the silence: the *)
(* client in use has no connection and the loop's client no subscription.  *)
LEMMA MuteStep ==
  ASSUME MqttInv, [Next]_vars, Mute, drops' = drops, Running
  PROVE  Mute' /\ delivered' = delivered
<1> USE DEF MqttInv, TypeOK, ScriptInv, ClientInv, LoopOnlyAt, Begins,
      Running, Publishing, mainVars, mqttVars, brokerVars, loopVars, history,
      Thread, Nobody, SubsInv, Mute
<1>1. /\ role \in Roles /\ LoopOnlyAt(Script, LoopAt)
      /\ role = "gateway" => Len(Script) = 4
  BY ScriptShape
<1>2. role' = role /\ Script' = Script /\ LoopAt' = LoopAt
  BY RoleStays
<1>3. ASSUME NEW t \in Thread, ThreadStep(t) PROVE Mute' /\ delivered' = delivered
  <2>1. CASE CheckInitialized(t)
    BY <1>1, <1>2, <2>1 DEF CheckInitialized
  <2>2. CASE MakeClient(t)
    BY <1>1, <1>2, <2>2 DEF MakeClient, NewClient
  <2>3. CASE Connected(t)
    BY <1>1, <1>2, <2>3 DEF Connected, ConnectClient
  <2>4. CASE ConnectFails(t)
    BY <1>1, <1>2, <2>4 DEF ConnectFails
  <2>5. CASE SendReturns(t)
    BY <1>1, <1>2, <2>5 DEF SendReturns, Sent, Outcome
  <2>6. CASE BeginPublish(t)
    BY <1>1, <1>2, <2>6 DEF BeginPublish
  <2>. QED
    BY <1>3, <2>1, <2>2, <2>3, <2>4, <2>5, <2>6 DEF ThreadStep
<1>4. ASSUME NEW t \in Topics, enmessage_callback(t) PROVE Mute' /\ delivered' = delivered
  BY <1>1, <1>2, <1>4 DEF enmessage_callback, Loop, HandlerPublishes
<1>5. CASE MainCheck
  BY <1>1, <1>2, <1>5 DEF MainCheck, Next_op
<1>6. CASE MainListens
  BY <1>1, <1>2, <1>6 DEF MainListens, Next_op, Done
<1>7. CASE MainSent
  BY <1>1, <1>2, <1>7 DEF MainSent, Next_op, Sent, Done, Outcome, Publishing
<1>8. CASE Subscribe
  BY <1>1, <1>2, <1>8 DEF Subscribe, Next_op, Done
<1>9. CASE Unsubscribe
  BY <1>1, <1>2, <1>9 DEF Unsubscribe, Next_op, Done
<1>10. CASE ChangingTopics
  BY <1>1, <1>2, <1>10 DEF ChangingTopics, Next_op, Done
<1>11. CASE CreateLoop
  BY <1>1, <1>2, <1>11 DEF CreateLoop, Next_op, Done
<1>12. CASE AcceptTaken
  BY <1>1, <1>2, <1>12 DEF AcceptTaken, Next_op, Done
<1>13. CASE enmqtt_loop
  BY <1>1, <1>2, <1>13 DEF enmqtt_loop, Loop
<1>14. CASE HandlerSends
  BY <1>1, <1>2, <1>14 DEF HandlerSends, Loop
<1>15. CASE HandlerReturns
  BY <1>1, <1>2, <1>15 DEF HandlerReturns, Loop
<1>16. CASE enmy_disconnect_callback
  BY <1>1, <1>2, <1>16 DEF enmy_disconnect_callback, Notices, Loop
<1>17. CASE eninitialize_and_connect_mqtt
  BY <1>1, <1>2, <1>17 DEF eninitialize_and_connect_mqtt, Loop, NewClient,
       ConnectClient
<1>18. CASE ClearFlag
  BY <1>1, <1>2, <1>18 DEF ClearFlag, Loop
<1>19. CASE gwmy_disconnect_callback
  BY <1>1, <1>2, <1>19 DEF gwmy_disconnect_callback, Notices, Loop
<1>20. CASE Reconnect
  BY <1>1, <1>2, <1>20 DEF Reconnect, Loop
<1>21. CASE Drop
  BY <1>1, <1>2, <1>21 DEF Drop
<1>22. CASE ReachableTurns
  BY <1>1, <1>2, <1>22 DEF ReachableTurns
<1>23. CASE UNCHANGED vars
  BY <1>1, <1>2, <1>23 DEF vars
<1>. QED
  BY StepCases, <1>3, <1>4, <1>5, <1>6, <1>7, <1>8, <1>9, <1>10, <1>11, <1>12,
       <1>13, <1>14, <1>15, <1>16, <1>17, <1>18, <1>19, <1>20, <1>21, <1>22,
       <1>23

(* A mute process publishes nothing until the next broken connection.      *)
THEOREM MuteTillDrop == Spec => MuteTillNextDrop
<1>1. MqttInv /\ [Next]_vars
        => [Mute /\ drops' = drops /\ Running
              => Mute' /\ delivered' = delivered]_vars
  BY MuteStep
<1>. QED
  BY <1>1, MqttInvHolds, PTL DEF Spec, MuteTillNextDrop
===============================================================================
