----------------------------- MODULE EndNode_proof -----------------------------
(***************************************************************************)
(* Proofs about one end node, for every kind of communication, every       *)
(* width of the DevNonce and any traffic.                                  *)
(***************************************************************************)
EXTENDS EndNode, TLAPS

(* Every step of either thread, of the broker or of the other parties      *)
(* keeps the variables in their types.                                     *)
LEMMA TypeStep ==
 ASSUME TypeOK, [Next]_vars PROVE TypeOK'
<1> USE EndNodeAssumption
        DEF TypeOK, mainVars, cbVars, envVars, MainPC, CbPC, LoopPC
<1>1. CASE StartListening
  BY <1>1 DEF StartListening, Goto, Sub, JoinTopic, Topic
<1>2. CASE SendJoinRequest
  BY <1>2 DEF SendJoinRequest, Goto, JoinReq
<1>3. CASE AwaitAccept
  BY <1>3 DEF AwaitAccept, Goto
<1>4. CASE NoAccept
  BY <1>4 DEF NoAccept, Goto
<1>5. CASE TakeAccept
  <2>1. lastDevNonce' \in Nonce
    BY <1>5 DEF TakeAccept, Nonce
  <2>2. QED
    BY <1>5, <2>1 DEF TakeAccept, Goto
<1>6. CASE OpenConfig
  BY <1>6 DEF OpenConfig, Goto
<1>6a. CASE WriteConfig
  BY <1>6a DEF WriteConfig, Goto
<1>7. CASE BeginTopicChange
  BY <1>7 DEF BeginTopicChange, Goto
<1>8. CASE unsubscribe_current_topics
  BY <1>8 DEF unsubscribe_current_topics, Goto, Unsub, JoinTopic, Topic
<1>9. CASE subscribe_current_topics
  BY <1>9 DEF subscribe_current_topics, Goto, Sub, Topic
<1>10. CASE EndTopicChange
  <2>1. changing_topics' \in BOOLEAN /\ main' \in MainPC
    BY <1>10 DEF EndTopicChange, Goto
  <2>2. UNCHANGED <<lorawan_connected, lastDevNonce, session, stored, ctl,
                    cbVars, envVars, loop_thread>>
    BY <1>10 DEF EndTopicChange
  <2>3. QED
    BY <2>1, <2>2
<1>11. CASE set_connected
  BY <1>11 DEF set_connected, Goto
<1>12. CASE send_is_ready_alert
  BY <1>12 DEF send_is_ready_alert, Goto
<1>13. CASE enmessage_callback
  BY <1>13 DEF enmessage_callback, CbGoto
<1>14. CASE LockMessageMutex
  BY <1>14 DEF LockMessageMutex, CbGoto
<1>15. CASE Dispatch
  BY <1>15 DEF Dispatch, CbGoto
<1>16. CASE JoinAcceptArrived
  BY <1>16 DEF JoinAcceptArrived, CbGoto, AwaitedAccept
<1>16a. CASE UndecodableExits
  BY <1>16a DEF UndecodableExits, CbGoto, AwaitedAccept
<1>17. CASE AcceptVerified
  BY <1>17 DEF AcceptVerified, CbGoto
<1>18. CASE AcceptRejected
  <2>1. msg_received_mutex' \in BOOLEAN
    BY <1>18 DEF AcceptRejected, Unlock
  <2>2. msg' = NoMsg /\ cb' = "idle" /\ cb = "verify"
    BY <1>18 DEF AcceptRejected, Unlock, CbGoto
  <2>3. QED
    BY <1>18, <2>1, <2>2 DEF AcceptRejected
<1>19. CASE SignalAccept
  <2>1. msg_received_mutex' \in BOOLEAN
    BY <1>19 DEF SignalAccept, Unlock
  <2>2. msg' = NoMsg /\ cb' = "idle" /\ cb = "signal"
    BY <1>19 DEF SignalAccept, Unlock, CbGoto
  <2>3. QED
    BY <1>19, <2>1, <2>2 DEF SignalAccept
<1>20. CASE NotYetConnected
  BY <1>20 DEF NotYetConnected, CbGoto
<1>21. CASE RadioDownlink
  <2>1. msg_received_mutex' \in BOOLEAN
    BY <1>21 DEF RadioDownlink, Unlock
  <2>2. msg' = NoMsg /\ cb' = "idle" /\ cb = "connected"
    BY <1>21 DEF RadioDownlink, Unlock, CbGoto
  <2>3. QED
    BY <1>21, <2>1, <2>2 DEF RadioDownlink, Tell
<1>22. CASE Downlink
  <2>1. msg_received_mutex' \in BOOLEAN
    BY <1>22 DEF Downlink, Unlock
  <2>2. msg' = NoMsg /\ cb' = "idle" /\ cb = "connected"
    BY <1>22 DEF Downlink, Unlock, CbGoto
  <2>3. replies' \in Seq([topic : {"disDWn", "freed"},
                          body : {"ok", "error", "data"}])
    <3>1. PICK t \in {"disDWn", "freed"}, b \in {"error", "data"} :
            replies' = Append(replies, [topic |-> t, body |-> b])
      BY <1>22 DEF Downlink, Tell
    <3>2. QED
      BY <3>1
  <2>4. QED
    BY <1>22, <2>1, <2>2, <2>3 DEF Downlink
<1>23. CASE UplinkToSend
  <2>1. msg_received_mutex' \in BOOLEAN
    BY <1>23 DEF UplinkToSend, Unlock
  <2>2. msg' = NoMsg /\ cb' = "idle" /\ cb = "connected"
    BY <1>23 DEF UplinkToSend, Unlock, CbGoto
  <2>3. QED
    BY <1>23, <2>1, <2>2 DEF UplinkToSend
<1>24. CASE IgnoredMessage
  <2>1. msg_received_mutex' \in BOOLEAN
    BY <1>24 DEF IgnoredMessage, Unlock
  <2>2. msg' = NoMsg /\ cb' = "idle" /\ cb = "connected"
    BY <1>24 DEF IgnoredMessage, Unlock, CbGoto
  <2>3. QED
    BY <1>24, <2>1, <2>2 DEF IgnoredMessage
<1>25. CASE ListenFails
  BY <1>25 DEF ListenFails
<1>26. CASE SendJoinRequestFails
  BY <1>26 DEF SendJoinRequestFails, Goto
<1>27. CASE SpuriousWakeup
  BY <1>27 DEF SpuriousWakeup, Goto
<1>28. CASE SaveFails
  BY <1>28 DEF SaveFails, Goto
<1>28a. CASE OpenFails
  BY <1>28a DEF OpenFails, Goto
<1>29. CASE LoopStart
  BY <1>29 DEF LoopStart
<1>30. CASE LoopStop
  BY <1>30 DEF LoopStop
<1>31. CASE BrokerTakes
  BY <1>31 DEF BrokerTakes
<1>32. ASSUME NEW m \in Traffic, Publish(m) PROVE TypeOK'
  BY <1>32 DEF Publish
<1>33. CASE UNCHANGED vars
  BY <1>33 DEF vars
<1>34. QED
  BY <1>1, <1>2, <1>3, <1>4, <1>5, <1>6, <1>7, <1>8, <1>9, <1>10, <1>11,
     <1>12, <1>13, <1>14, <1>15, <1>16, <1>17, <1>18, <1>19, <1>20, <1>21,
     <1>22, <1>23, <1>24, <1>25, <1>26, <1>27, <1>28, <1>29, <1>30, <1>31,
     <1>32, <1>33, <1>6a, <1>16a, <1>28a DEF Next, MainNext, CbNext

(* The type invariant of the end node: in particular the handler has a     *)
(* message exactly while it is not idle, in every interleaving.            *)
THEOREM TypeCorrect == Spec => []TypeOK
<1>1. Init => TypeOK
  <2> SUFFICES ASSUME Init PROVE TypeOK
    OBVIOUS
  <2>1. /\ msg_received_mutex \in BOOLEAN /\ lorawan_connected \in BOOLEAN
        /\ changing_topics \in BOOLEAN
    BY DEF Init
  <2>2. cb = "idle" /\ msg = NoMsg
    BY DEF Init
  <2>3. QED
    BY <2>1, <2>2, EndNodeAssumption DEF Init, TypeOK, MainPC, CbPC, LoopPC
<1>2. QED
  BY <1>1, TypeStep, PTL DEF Spec
-----------------------------------------------------------------------------
(* A step keeps the invariant of the join request on its way.              *)
LEMMA RequestStep ==
 ASSUME TypeOK, TypeOK', NodeInv, [Next]_vars PROVE RequestInv'
<1> USE EndNodeAssumption
        DEF TypeOK, NodeInv, RequestInv, SessionInv, mainVars, cbVars, envVars,
            Asking, Joined, MainPC
<1>1. CASE StartListening
  <2>1. /\ main = "start" /\ main' = "publish" /\ obj' = NoNonce
        /\ ctl' = Append(ctl, [cmd |-> "sub", topic |-> JoinTopic])
        /\ UNCHANGED <<asked, session, lastDevNonce>>
    BY <1>1 DEF StartListening, Goto, Sub
  <2>2. asked = NoNonce /\ \A i \in 1 .. Len(ctl) : ctl[i].cmd # "join"
    BY <2>1
  <2>3. /\ Len(ctl') = Len(ctl) + 1 /\ Len(ctl) \in Nat
        /\ \A i \in 1 .. Len(ctl) : ctl'[i] = ctl[i]
        /\ ctl'[Len(ctl) + 1].cmd # "join"
    BY <2>1
  <2>4. \A i \in 1 .. Len(ctl') : ctl'[i].cmd # "join"
    <3>1. TAKE i \in 1 .. Len(ctl')
    <3>2. CASE i = Len(ctl) + 1
      BY <2>3, <3>2
    <3>3. CASE i \in 1 .. Len(ctl)
      BY <2>2, <2>3, <3>3
    <3>4. QED
      BY <2>3, <3>2, <3>3
  <2>5. QED
    BY <2>1, <2>2, <2>4
<1>2. CASE SendJoinRequest
  BY <1>2 DEF SendJoinRequest, Goto, JoinReq
<1>3. CASE AwaitAccept
  BY <1>3 DEF AwaitAccept, Goto
<1>4. CASE NoAccept
  BY <1>4 DEF NoAccept, Goto
<1>5. CASE TakeAccept
  BY <1>5 DEF TakeAccept, Goto
<1>6. CASE OpenConfig
  BY <1>6 DEF OpenConfig, Goto
<1>6a. CASE WriteConfig
  BY <1>6a DEF WriteConfig, Goto
<1>7. CASE BeginTopicChange
  BY <1>7 DEF BeginTopicChange, Goto
<1>8. CASE unsubscribe_current_topics
  <2>1. /\ Len(ctl') = Len(ctl) + 1
        /\ \A i \in 1 .. Len(ctl) : ctl'[i] = ctl[i]
        /\ ctl'[Len(ctl) + 1].cmd # "join"
    BY <1>8 DEF unsubscribe_current_topics, Unsub
  <2>2. \A i \in 1 .. Len(ctl) : ctl[i].cmd # "join"
    BY <1>8 DEF unsubscribe_current_topics, Goto
  <2>3. \A i \in 1 .. Len(ctl') : ctl'[i].cmd # "join"
    <3>1. TAKE i \in 1 .. Len(ctl')
    <3>2. CASE i = Len(ctl) + 1
      BY <2>1, <3>2
    <3>3. CASE i \in 1 .. Len(ctl)
      BY <2>1, <2>2, <3>3
    <3>4. QED
      BY <2>1, <3>2, <3>3
  <2>4. QED
    BY <1>8, <2>3 DEF unsubscribe_current_topics, Goto
<1>9. CASE subscribe_current_topics
  <2> DEFINE new == <<Sub("DWn"), Sub("disUPn"), Sub("RDR")>>
  <2>1. /\ Len(new) = 3
        /\ \A i \in 1 .. 3 : new[i].cmd = "sub"
    BY DEF Sub
  <2>0. Len(ctl) \in Nat
    OBVIOUS
  <2>2. /\ Len(ctl') = Len(ctl) + 3
        /\ \A i \in 1 .. Len(ctl') :
             ctl'[i] = IF i <= Len(ctl) THEN ctl[i] ELSE new[i - Len(ctl)]
    BY <1>9, <2>1 DEF subscribe_current_topics, Sub
  <2>3. \A i \in 1 .. Len(ctl) : ctl[i].cmd # "join"
    BY <1>9 DEF subscribe_current_topics, Goto
  <2> HIDE DEF new, TypeOK, NodeInv, RequestInv, SessionInv
  <2>4. \A i \in 1 .. Len(ctl') : ctl'[i].cmd # "join"
    <3>1. TAKE i \in 1 .. Len(ctl')
    <3>2. CASE i <= Len(ctl)
      <4>1. i \in 1 .. Len(ctl)
        BY <2>0, <2>2, <3>2
      <4>2. QED
        BY <2>2, <2>3, <3>2, <4>1
    <3>3. CASE ~(i <= Len(ctl))
      <4>1. i - Len(ctl) \in 1 .. 3
        BY <2>0, <2>2, <3>3
      <4>2. QED
        BY <2>1, <2>2, <3>3, <4>1
    <3>4. QED
      BY <3>2, <3>3
  <2>5. QED
    BY <1>9, <2>4 DEF subscribe_current_topics, Goto, TypeOK, NodeInv,
       RequestInv, SessionInv
<1>10. CASE EndTopicChange
  BY <1>10 DEF EndTopicChange, Goto
<1>11. CASE set_connected
  BY <1>11 DEF set_connected, Goto
<1>12. CASE send_is_ready_alert
  BY <1>12 DEF send_is_ready_alert, Goto
<1>13. CASE enmessage_callback
  BY <1>13 DEF enmessage_callback, CbGoto
<1>14. CASE LockMessageMutex
  BY <1>14 DEF LockMessageMutex, CbGoto
<1>15. CASE Dispatch
  BY <1>15 DEF Dispatch, CbGoto
<1>16. CASE JoinAcceptArrived
  BY <1>16 DEF JoinAcceptArrived, CbGoto, AwaitedAccept
<1>16a. CASE UndecodableExits
  BY <1>16a DEF UndecodableExits, CbGoto, AwaitedAccept
<1>17. CASE AcceptVerified
  BY <1>17 DEF AcceptVerified, CbGoto
<1>18. CASE AcceptRejected
  BY <1>18 DEF AcceptRejected, CbGoto, Unlock
<1>19. CASE SignalAccept
  BY <1>19 DEF SignalAccept, CbGoto, Unlock
<1>20. CASE NotYetConnected
  BY <1>20 DEF NotYetConnected, CbGoto
<1>21. CASE RadioDownlink
  BY <1>21 DEF RadioDownlink, CbGoto, Unlock, Tell
<1>22. CASE Downlink
  BY <1>22 DEF Downlink, CbGoto, Unlock, Tell
<1>23. CASE UplinkToSend
  BY <1>23 DEF UplinkToSend, CbGoto, Unlock
<1>24. CASE IgnoredMessage
  BY <1>24 DEF IgnoredMessage, CbGoto, Unlock
<1>25. CASE ListenFails
  BY <1>25 DEF ListenFails
<1>26. CASE SendJoinRequestFails
  BY <1>26 DEF SendJoinRequestFails, Goto
<1>27. CASE SpuriousWakeup
  BY <1>27 DEF SpuriousWakeup, Goto
<1>28. CASE SaveFails
  BY <1>28 DEF SaveFails, Goto
<1>28a. CASE OpenFails
  BY <1>28a DEF OpenFails, Goto
<1>29. CASE LoopStart
  BY <1>29 DEF LoopStart
<1>30. CASE LoopStop
  BY <1>30 DEF LoopStop
<1>31. CASE BrokerTakes
  <2>1. /\ Len(ctl) \in Nat \ {0} /\ Len(ctl') = Len(ctl) - 1
        /\ \A i \in 1 .. Len(ctl') : ctl'[i] = ctl[i + 1]
        /\ Head(ctl) = ctl[1]
    BY <1>31 DEF BrokerTakes
  <2>0. \A i, j \in 1 .. Len(ctl) :
           ctl[i].cmd = "join" =>
             /\ asked = NoNonce /\ ctl[i].nonce = lastDevNonce
             /\ main \in Asking
             /\ (ctl[j].cmd = "join" => i = j)
    OBVIOUS
  <2>2. UNCHANGED <<main, lastDevNonce, session, obj>>
    BY <1>31 DEF BrokerTakes
  <2>6. asked # NoNonce /\ session = NoNonce => lastDevNonce = asked
    OBVIOUS
  <2>7. main \in {"start", "publish"} =>
          asked = NoNonce /\ \A i \in 1 .. Len(ctl) : ctl[i].cmd # "join"
    OBVIOUS
  <2> HIDE DEF TypeOK, NodeInv, RequestInv, SessionInv
  <2>3. CASE ctl[1].cmd = "join"
    <3>1. ASSUME NEW i \in 1 .. Len(ctl') PROVE ctl'[i].cmd # "join"
      <4>1. i + 1 \in 1 .. Len(ctl) /\ 1 \in 1 .. Len(ctl) /\ i + 1 # 1
        BY <2>1
      <4>2. QED
        BY <2>0, <2>1, <2>3, <4>1
    <3>2. asked' = lastDevNonce /\ main \in Asking
      <4>1. 1 \in 1 .. Len(ctl)
        BY <2>1
      <4>2. asked' = ctl[1].nonce
        BY <1>31, <2>1, <2>3 DEF BrokerTakes
      <4>3. QED
        BY <2>0, <2>3, <4>1, <4>2
    <3>3. QED
      BY <2>2, <3>1, <3>2 DEF RequestInv, Asking
  <2>4. CASE ctl[1].cmd # "join"
    <3>1. asked' = asked
      BY <1>31, <2>1, <2>4 DEF BrokerTakes
    <3>2. ASSUME NEW i \in 1 .. Len(ctl'), ctl'[i].cmd = "join",
                 NEW j \in 1 .. Len(ctl')
          PROVE  /\ asked' = NoNonce /\ ctl'[i].nonce = lastDevNonce'
                 /\ main' \in Asking
                 /\ (ctl'[j].cmd = "join" => i = j)
      <4>1. /\ i + 1 \in 1 .. Len(ctl) /\ j + 1 \in 1 .. Len(ctl)
            /\ ctl[i + 1].cmd = "join"
        BY <2>1, <3>2
      <4>2. QED
        BY <2>0, <2>1, <2>2, <3>1, <4>1
    <3>3. \A i \in 1 .. Len(ctl') : ctl'[i].cmd = "join" =>
             /\ asked' = NoNonce /\ ctl'[i].nonce = lastDevNonce'
             /\ main' \in Asking
             /\ \A j \in 1 .. Len(ctl') : ctl'[j].cmd = "join" => i = j
      BY <3>2
    <3>4. QED
      BY <2>2, <2>6, <2>7, <3>1, <3>3 DEF RequestInv
  <2>5. QED
    BY <2>3, <2>4
<1>32. ASSUME NEW m \in Traffic, Publish(m) PROVE RequestInv'
  BY <1>32 DEF Publish
<1>33. CASE UNCHANGED vars
  BY <1>33 DEF vars
<1>34. QED
  BY <1>1, <1>2, <1>3, <1>4, <1>5, <1>6, <1>7, <1>8, <1>9, <1>10, <1>11,
     <1>12, <1>13, <1>14, <1>15, <1>16, <1>17, <1>18, <1>19, <1>20, <1>21,
     <1>22, <1>23, <1>24, <1>25, <1>26, <1>27, <1>28, <1>29, <1>30, <1>31,
     <1>32, <1>33, <1>6a, <1>16a, <1>28a DEF Next, MainNext, CbNext

(* A step keeps frames for this device behind the request they answer.     *)
LEMMA FrameStep ==
 ASSUME TypeOK, TypeOK', NodeInv, [Next]_vars PROVE FrameInv'
<1> USE EndNodeAssumption
        DEF TypeOK, NodeInv, FrameInv, RequestInv, mainVars, cbVars, envVars
<1>1. CASE StartListening
  BY <1>1 DEF StartListening, Goto, Sub
<1>2. CASE SendJoinRequest
  BY <1>2 DEF SendJoinRequest, Goto, JoinReq
<1>3. CASE AwaitAccept
  BY <1>3 DEF AwaitAccept, Goto
<1>4. CASE NoAccept
  BY <1>4 DEF NoAccept, Goto
<1>5. CASE TakeAccept
  BY <1>5 DEF TakeAccept, Goto
<1>6. CASE OpenConfig
  BY <1>6 DEF OpenConfig, Goto
<1>6a. CASE WriteConfig
  BY <1>6a DEF WriteConfig, Goto
<1>7. CASE BeginTopicChange
  BY <1>7 DEF BeginTopicChange, Goto
<1>8. CASE unsubscribe_current_topics
  BY <1>8 DEF unsubscribe_current_topics, Goto, Unsub
<1>9. CASE subscribe_current_topics
  BY <1>9 DEF subscribe_current_topics, Goto, Sub
<1>10. CASE EndTopicChange
  BY <1>10 DEF EndTopicChange, Goto
<1>11. CASE set_connected
  BY <1>11 DEF set_connected, Goto
<1>12. CASE send_is_ready_alert
  BY <1>12 DEF send_is_ready_alert, Goto
<1>13. CASE enmessage_callback
  BY <1>13 DEF enmessage_callback, CbGoto
<1>14. CASE LockMessageMutex
  BY <1>14 DEF LockMessageMutex, CbGoto
<1>15. CASE Dispatch
  BY <1>15 DEF Dispatch, CbGoto
<1>16. CASE JoinAcceptArrived
  BY <1>16 DEF JoinAcceptArrived, CbGoto, AwaitedAccept
<1>16a. CASE UndecodableExits
  BY <1>16a DEF UndecodableExits, CbGoto, AwaitedAccept
<1>17. CASE AcceptVerified
  BY <1>17 DEF AcceptVerified, CbGoto
<1>18. CASE AcceptRejected
  BY <1>18 DEF AcceptRejected, CbGoto, Unlock
<1>19. CASE SignalAccept
  BY <1>19 DEF SignalAccept, CbGoto, Unlock
<1>20. CASE NotYetConnected
  BY <1>20 DEF NotYetConnected, CbGoto
<1>21. CASE RadioDownlink
  BY <1>21 DEF RadioDownlink, CbGoto, Unlock, Tell
<1>22. CASE Downlink
  BY <1>22 DEF Downlink, CbGoto, Unlock, Tell
<1>23. CASE UplinkToSend
  BY <1>23 DEF UplinkToSend, CbGoto, Unlock
<1>24. CASE IgnoredMessage
  BY <1>24 DEF IgnoredMessage, CbGoto, Unlock
<1>25. CASE ListenFails
  BY <1>25 DEF ListenFails
<1>26. CASE SendJoinRequestFails
  BY <1>26 DEF SendJoinRequestFails, Goto
<1>27. CASE SpuriousWakeup
  BY <1>27 DEF SpuriousWakeup, Goto
<1>28. CASE SaveFails
  BY <1>28 DEF SaveFails, Goto
<1>28a. CASE OpenFails
  BY <1>28a DEF OpenFails, Goto
<1>29. CASE LoopStart
  BY <1>29 DEF LoopStart
<1>30. CASE LoopStop
  BY <1>30 DEF LoopStop
<1>31. CASE BrokerTakes
  BY <1>31 DEF BrokerTakes
<1>32. ASSUME NEW m \in Traffic, Publish(m) PROVE FrameInv'
  BY <1>32 DEF Publish
<1>33. CASE UNCHANGED vars
  BY <1>33 DEF vars
<1>34. QED
  BY <1>1, <1>2, <1>3, <1>4, <1>5, <1>6, <1>7, <1>8, <1>9, <1>10, <1>11,
     <1>12, <1>13, <1>14, <1>15, <1>16, <1>17, <1>18, <1>19, <1>20, <1>21,
     <1>22, <1>23, <1>24, <1>25, <1>26, <1>27, <1>28, <1>29, <1>30, <1>31,
     <1>32, <1>33, <1>6a, <1>16a, <1>28a DEF Next, MainNext, CbNext

(* A step keeps the relation between the accept, the session, the saved    *)
(* nonce and the two threads.                                              *)
LEMMA SessionStep ==
 ASSUME TypeOK, TypeOK', NodeInv, [Next]_vars PROVE SessionInv'
<1> USE EndNodeAssumption
        DEF TypeOK, NodeInv, FrameInv, RequestInv, SessionInv, mainVars, cbVars,
            envVars, Joined, MainPC, CbPC
<1>1. CASE StartListening
  BY <1>1 DEF StartListening, Goto, Sub
<1>2. CASE SendJoinRequest
  BY <1>2 DEF SendJoinRequest, Goto, JoinReq
<1>3. CASE AwaitAccept
  BY <1>3 DEF AwaitAccept, Goto
<1>4. CASE NoAccept
  BY <1>4 DEF NoAccept, Goto
<1>5. CASE TakeAccept
  BY <1>5 DEF TakeAccept, Goto, Following
<1>6. CASE OpenConfig
  BY <1>6 DEF OpenConfig, Goto
<1>6a. CASE WriteConfig
  BY <1>6a DEF WriteConfig, Goto
<1>7. CASE BeginTopicChange
  BY <1>7 DEF BeginTopicChange, Goto
<1>8. CASE unsubscribe_current_topics
  BY <1>8 DEF unsubscribe_current_topics, Goto, Unsub
<1>9. CASE subscribe_current_topics
  BY <1>9 DEF subscribe_current_topics, Goto, Sub
<1>10. CASE EndTopicChange
  BY <1>10 DEF EndTopicChange, Goto
<1>11. CASE set_connected
  BY <1>11 DEF set_connected, Goto
<1>12. CASE send_is_ready_alert
  BY <1>12 DEF send_is_ready_alert, Goto
<1>13. CASE enmessage_callback
  BY <1>13 DEF enmessage_callback, CbGoto
<1>14. CASE LockMessageMutex
  BY <1>14 DEF LockMessageMutex, CbGoto
<1>15. CASE Dispatch
  BY <1>15 DEF Dispatch, CbGoto
<1>16. CASE JoinAcceptArrived
  BY <1>16 DEF JoinAcceptArrived, CbGoto, AwaitedAccept
<1>16a. CASE UndecodableExits
  BY <1>16a DEF UndecodableExits, CbGoto, AwaitedAccept
<1>17. CASE AcceptVerified
  BY <1>17 DEF AcceptVerified, CbGoto
<1>18. CASE AcceptRejected
  BY <1>18 DEF AcceptRejected, CbGoto, Unlock
<1>19. CASE SignalAccept
  BY <1>19 DEF SignalAccept, CbGoto, Unlock
<1>20. CASE NotYetConnected
  BY <1>20 DEF NotYetConnected, CbGoto
<1>21. CASE RadioDownlink
  BY <1>21 DEF RadioDownlink, CbGoto, Unlock, Tell
<1>22. CASE Downlink
  BY <1>22 DEF Downlink, CbGoto, Unlock, Tell
<1>23. CASE UplinkToSend
  BY <1>23 DEF UplinkToSend, CbGoto, Unlock
<1>24. CASE IgnoredMessage
  BY <1>24 DEF IgnoredMessage, CbGoto, Unlock
<1>25. CASE ListenFails
  BY <1>25 DEF ListenFails
<1>26. CASE SendJoinRequestFails
  BY <1>26 DEF SendJoinRequestFails, Goto
<1>27. CASE SpuriousWakeup
  BY <1>27 DEF SpuriousWakeup, Goto
<1>28. CASE SaveFails
  BY <1>28 DEF SaveFails, Goto
<1>28a. CASE OpenFails
  BY <1>28a DEF OpenFails, Goto
<1>29. CASE LoopStart
  BY <1>29 DEF LoopStart
<1>30. CASE LoopStop
  BY <1>30 DEF LoopStop
<1>31. CASE BrokerTakes
  <2>1. UNCHANGED <<main, lorawan_connected, lastDevNonce, session, stored, cb,
                    obj, sequenceCounter, uplinks>>
    BY <1>31 DEF BrokerTakes
  <2>2. asked' = asked \/ asked = NoNonce
    <3>1. CASE Head(ctl).cmd = "join"
      <4>1. Head(ctl) = ctl[1] /\ 1 \in 1 .. Len(ctl)
        BY <1>31 DEF BrokerTakes
      <4>2. QED
        BY <3>1, <4>1
    <3>2. CASE Head(ctl).cmd # "join"
      BY <1>31, <3>2 DEF BrokerTakes
    <3>3. QED
      BY <3>1, <3>2
  <2>3. QED
    BY <2>1, <2>2
<1>32. ASSUME NEW m \in Traffic, Publish(m) PROVE SessionInv'
  BY <1>32 DEF Publish
<1>33. CASE UNCHANGED vars
  BY <1>33 DEF vars
<1>34. QED
  BY <1>1, <1>2, <1>3, <1>4, <1>5, <1>6, <1>7, <1>8, <1>9, <1>10, <1>11,
     <1>12, <1>13, <1>14, <1>15, <1>16, <1>17, <1>18, <1>19, <1>20, <1>21,
     <1>22, <1>23, <1>24, <1>25, <1>26, <1>27, <1>28, <1>29, <1>30, <1>31,
     <1>32, <1>33, <1>6a, <1>16a, <1>28a DEF Next, MainNext, CbNext

(* The inductive invariant holds in every reachable state. *)
THEOREM InvariantHolds == Spec => []NodeInv
<1>1. Init => NodeInv
  BY EndNodeAssumption
     DEF Init, NodeInv, RequestInv, FrameInv, SessionInv, Joined
<1>2. TypeOK /\ TypeOK' /\ NodeInv /\ [Next]_vars => NodeInv'
  BY RequestStep, FrameStep, SessionStep DEF NodeInv
<1>3. QED
  BY <1>1, <1>2, TypeCorrect, PTL DEF Spec

(* A joined node's keys are made of the DevNonce that the network saw in   *)
(* its request, in every interleaving of the handler that derives them and *)
(* the main thread that increments lastDevNonce.                           *)
THEOREM SessionMatches == Spec => []SessionMatchesRequest
<1>1. NodeInv => SessionMatchesRequest
  BY DEF NodeInv, SessionInv, SessionMatchesRequest
<1>2. QED
  BY <1>1, InvariantHolds, PTL

(* A node that talks to the network has saved the nonce that follows its   *)
(* session's, whatever the width of the nonce (65535 is followed by 0), or *)
(* has left no valid file behind.                                          *)
THEOREM NonceSaved == Spec => []NextNonceSaved
<1>1. NodeInv => NextNonceSaved
  BY DEF NodeInv, SessionInv, NextNonceSaved, Joined
<1>2. QED
  BY <1>1, InvariantHolds, PTL
-----------------------------------------------------------------------------
(* A step of a deaf node, whose handler waits for a mutex nobody holds.    *)
LEMMA DeafStep ==
  ASSUME Deaf, [Next]_vars PROVE Deaf' /\ UNCHANGED <<uplinks, replies>>
<1> USE DEF Deaf, mainVars, cbVars, envVars
<1>1. CASE MainNext
  BY <1>1 DEF MainNext, StartListening, SendJoinRequest, AwaitAccept, NoAccept,
     TakeAccept, OpenConfig, WriteConfig, BeginTopicChange,
     unsubscribe_current_topics, subscribe_current_topics, EndTopicChange,
     set_connected, send_is_ready_alert
<1>2. CASE enmessage_callback
  BY <1>2 DEF enmessage_callback, CbGoto
<1>3. CASE CbNext /\ ~enmessage_callback
  BY <1>3 DEF CbNext, CbGoto, LockMessageMutex, Dispatch, JoinAcceptArrived,
     UndecodableExits, AcceptVerified, AcceptRejected, SignalAccept, NotYetConnected,
     RadioDownlink, Downlink, UplinkToSend, IgnoredMessage
<1>4. CASE \/ ListenFails \/ SendJoinRequestFails \/ SpuriousWakeup
           \/ SaveFails \/ OpenFails
  BY <1>4 DEF ListenFails, SendJoinRequestFails, SpuriousWakeup, SaveFails,
     OpenFails
<1>5. CASE LoopStart \/ LoopStop \/ BrokerTakes
  BY <1>5 DEF LoopStart, LoopStop, BrokerTakes
<1>6. ASSUME NEW m \in Traffic, Publish(m)
      PROVE  Deaf' /\ UNCHANGED <<uplinks, replies>>
  BY <1>6 DEF Publish
<1>7. CASE UNCHANGED vars
  BY <1>7 DEF vars
<1>8. QED
  BY <1>1, <1>2, <1>3, <1>4, <1>5, <1>6, <1>7 DEF Next

(* A message that leaks msg_received_mutex silences the node for good.     *)
THEOREM DeafnessIsPermanent == Spec => DeafForever
<1>1. [Next]_vars => [Deaf => Deaf' /\ UNCHANGED <<uplinks, replies>>]_vars
  BY DeafStep
<1>2. QED
  BY <1>1, PTL DEF Spec, DeafForever
-----------------------------------------------------------------------------
(* A step of the node is a step of NodeSession or leaves it unchanged.     *)
LEMMA SessionRefinement ==
 ASSUME TypeOK, NodeInv, [Next]_vars PROVE [Session!Next]_(Session!svars)
<1> USE EndNodeAssumption
        DEF TypeOK, NodeInv, RequestInv, SessionInv, mainVars, cbVars, envVars,
            MainPC, Joined, Phase, Session!svars
<1>1. CASE StartListening
  BY <1>1 DEF StartListening, Goto, Sub
<1>2. CASE SendJoinRequest
  BY <1>2 DEF SendJoinRequest, Goto, JoinReq
<1>3. CASE AwaitAccept
  BY <1>3 DEF AwaitAccept, Goto
<1>4. CASE NoAccept
  BY <1>4 DEF NoAccept, Goto, Session!Next, Session!Fail
<1>5. CASE TakeAccept
  BY <1>5 DEF TakeAccept, Goto, Session!Next, Session!Join
<1>6. CASE OpenConfig
  BY <1>6 DEF OpenConfig, Goto
<1>6a. CASE WriteConfig
  BY <1>6a DEF WriteConfig, Goto
<1>7. CASE BeginTopicChange
  BY <1>7 DEF BeginTopicChange, Goto
<1>8. CASE unsubscribe_current_topics
  BY <1>8 DEF unsubscribe_current_topics, Goto, Unsub
<1>9. CASE subscribe_current_topics
  BY <1>9 DEF subscribe_current_topics, Goto, Sub
<1>10. CASE EndTopicChange
  BY <1>10 DEF EndTopicChange, Goto
<1>11. CASE set_connected
  BY <1>11 DEF set_connected, Goto, Session!Next, Session!BecomeReady
<1>12. CASE send_is_ready_alert
  BY <1>12 DEF send_is_ready_alert, Goto
<1>13. CASE enmessage_callback
  BY <1>13 DEF enmessage_callback, CbGoto
<1>14. CASE LockMessageMutex
  BY <1>14 DEF LockMessageMutex, CbGoto
<1>15. CASE Dispatch
  BY <1>15 DEF Dispatch, CbGoto
<1>16. CASE JoinAcceptArrived
  BY <1>16 DEF JoinAcceptArrived, CbGoto, AwaitedAccept
<1>16a. CASE UndecodableExits
  BY <1>16a DEF UndecodableExits, CbGoto, AwaitedAccept, Session!Next,
     Session!Fail
<1>17. CASE AcceptVerified
  BY <1>17 DEF AcceptVerified, CbGoto
<1>18. CASE AcceptRejected
  BY <1>18 DEF AcceptRejected, CbGoto, Unlock
<1>19. CASE SignalAccept
  BY <1>19 DEF SignalAccept, CbGoto, Unlock
<1>20. CASE NotYetConnected
  BY <1>20 DEF NotYetConnected, CbGoto
<1>21. CASE RadioDownlink
  BY <1>21 DEF RadioDownlink, CbGoto, Unlock, Tell
<1>22. CASE Downlink
  BY <1>22 DEF Downlink, CbGoto, Unlock, Tell
<1>23. CASE UplinkToSend
  BY <1>23 DEF UplinkToSend, CbGoto, Unlock, Session!Next, Session!SendUplink
<1>24. CASE IgnoredMessage
  BY <1>24 DEF IgnoredMessage, CbGoto, Unlock
<1>25. CASE ListenFails
  BY <1>25 DEF ListenFails, Session!Next, Session!Fail
<1>26. CASE SendJoinRequestFails
  BY <1>26 DEF SendJoinRequestFails, Goto, Session!Next, Session!Fail
<1>27. CASE SpuriousWakeup
  BY <1>27 DEF SpuriousWakeup, Goto
<1>28. CASE SaveFails
  BY <1>28 DEF SaveFails, Goto, Session!Next, Session!Fail
<1>28a. CASE OpenFails
  BY <1>28a DEF OpenFails, Goto, Session!Next, Session!Fail
<1>29. CASE LoopStart
  BY <1>29 DEF LoopStart
<1>30. CASE LoopStop
  BY <1>30 DEF LoopStop
<1>31. CASE BrokerTakes
  BY <1>31 DEF BrokerTakes
<1>32. ASSUME NEW m \in Traffic, Publish(m) PROVE [Session!Next]_(Session!svars)
  BY <1>32 DEF Publish
<1>33. CASE UNCHANGED vars
  BY <1>33 DEF vars
<1>34. QED
  BY <1>1, <1>2, <1>3, <1>4, <1>5, <1>6, <1>7, <1>8, <1>9, <1>10, <1>11,
     <1>12, <1>13, <1>14, <1>15, <1>16, <1>17, <1>18, <1>19, <1>20, <1>21,
     <1>22, <1>23, <1>24, <1>25, <1>26, <1>27, <1>28, <1>29, <1>30, <1>31,
     <1>32, <1>33, <1>6a, <1>16a, <1>28a DEF Next, MainNext, CbNext

(* Main thread and handler together implement NodeSession: one join with   *)
(* the requested nonce's keys, uplinks only afterwards and only under      *)
(* those keys, frame counters without gap or repetition.                   *)
THEOREM NodeImplementsSession == Spec => ImplementsSession
<1>1. Init => Session!Init
  BY EndNodeAssumption DEF Init, Session!Init, Phase, Nonce
<1>2. TypeOK /\ NodeInv /\ [Next]_vars => [Session!Next]_(Session!svars)
  BY SessionRefinement
<1>3. QED
  BY <1>1, <1>2, TypeCorrect, InvariantHolds, PTL
     DEF Spec, ImplementsSession, Session!Spec
-----------------------------------------------------------------------------
(* The steps of the handler, the broker and the other parties that do not  *)
(* touch what DevNonceStore sees.                                          *)
LEMMA StoreStutter ==
  UNCHANGED <<main, obj, session, stored, lastDevNonce>> => UNCHANGED Store!vars
BY DEF Store!vars, Store!flight, Store!history, StoreNode, Gone, Waiting

(* No DevNonce follows itself. *)
LEMMA FollowingDiffers == \A n \in Nonce : Following(n) # n /\ Following(n) \in Nonce
<1> SUFFICES ASSUME NEW n \in Nonce PROVE Following(n) # n /\ Following(n) \in Nonce
  OBVIOUS
<1>1. CASE n + 1 = NonceMod
  <2>1. Following(n) = 0 /\ n # 0
    BY <1>1, EndNodeAssumption DEF Following, Nonce
  <2>2. QED
    BY <2>1, EndNodeAssumption DEF Nonce
<1>2. CASE n + 1 # NonceMod
  <2>1. Following(n) = n + 1
    BY <1>2, EndNodeAssumption DEF Following, Nonce
  <2>2. QED
    BY <1>2, <2>1, EndNodeAssumption DEF Nonce
<1>3. QED
  BY <1>1, <1>2

(* A step of the node is a step of DevNonceStore or leaves it unchanged.   *)
LEMMA StoreRefinement ==
 ASSUME TypeOK, NodeInv, [Next]_vars PROVE [Store!Next]_(Store!vars)
<1> USE EndNodeAssumption
        DEF TypeOK, NodeInv, RequestInv, FrameInv, SessionInv, MainPC, Joined,
            StoreNode, Gone, Waiting
<1>1. CASE StartListening
  <2>1. /\ main = "start" /\ main' = "publish" /\ obj = NoNonce /\ obj' = NoNonce
        /\ session = NoNonce /\ stored = lastDevNonce /\ stored # Torn
        /\ UNCHANGED <<session, stored, lastDevNonce>>
    BY <1>1 DEF StartListening, Goto
  <2>2. Store!Boot
    BY <2>1 DEF Store!Boot, Store!NodeGoto, Store!flight, Store!history
  <2>3. QED
    BY <2>2 DEF Store!Next
<1>2. CASE SendJoinRequest
  <2>1. /\ main = "publish" /\ main' = "wait" /\ obj = NoNonce
        /\ session = NoNonce
        /\ UNCHANGED <<obj, session, stored, lastDevNonce>>
    BY <1>2 DEF SendJoinRequest, Goto, cbVars
  <2>2. Store!SendJoinRequest
    BY <2>1 DEF Store!SendJoinRequest, Store!NodeGoto, Store!history
  <2>3. QED
    BY <2>2 DEF Store!Next
<1>3. CASE AwaitAccept \/ SpuriousWakeup \/ SignalAccept
  <2>1. /\ main' = main \/ (main \in Waiting /\ main' \in Waiting)
        /\ UNCHANGED <<obj, session, stored, lastDevNonce>>
    BY <1>3 DEF AwaitAccept, SpuriousWakeup, SignalAccept, Goto, cbVars
  <2>2. UNCHANGED Store!vars
    BY <2>1 DEF Store!vars, Store!flight, Store!history
  <2>3. QED
    BY <2>2
<1>4. CASE NoAccept
  <2>1. /\ main = "woken" /\ main' = "failed" /\ obj = NoNonce /\ session = NoNonce
        /\ UNCHANGED <<obj, session, stored, lastDevNonce>>
    BY <1>4 DEF NoAccept, Goto, cbVars
  <2>2. Store!Crash
    BY <2>1 DEF Store!Crash, Store!history
  <2>3. QED
    BY <2>2 DEF Store!Next
<1>5. CASE TakeAccept
  <2>1. /\ main = "woken" /\ main' = "save" /\ obj # NoNonce /\ session = NoNonce
        /\ session' = obj /\ lastDevNonce' = (lastDevNonce + 1) % NonceMod
        /\ obj = lastDevNonce /\ stored = lastDevNonce /\ obj \in Nonce
        /\ UNCHANGED <<obj, stored>>
    BY <1>5 DEF TakeAccept, Goto, cbVars
  <2>2. stored' # Following(session')
    BY <2>1, FollowingDiffers
  <2>3. Store!AcceptArrives
    BY <2>1, <2>2
       DEF Store!AcceptArrives, Store!NodeGoto, Store!Following, Store!history
  <2>4. QED
    BY <2>3 DEF Store!Next
<1>6. CASE OpenConfig
  <2>1. /\ main = "save" /\ main' = "opened" /\ stored' = Torn
        /\ session # NoNonce /\ session \in Nonce /\ stored = session
        /\ UNCHANGED <<obj, session, lastDevNonce>>
    BY <1>6 DEF OpenConfig, Goto, cbVars
  <2>2. stored # Following(session)
    BY <2>1, FollowingDiffers
  <2>3. stored' # Following(session')
    BY <1>6, <2>1 DEF OpenConfig
  <2>4. Store!OpenConfig
    BY <2>1, <2>2, <2>3
       DEF Store!OpenConfig, Store!NodeGoto, Store!flight, Store!history
  <2>5. QED
    BY <2>4 DEF Store!Next
<1>7. CASE WriteConfig
  <2>1. /\ main = "opened" /\ main' = "change" /\ stored = Torn
        /\ stored' \in {lastDevNonce, Torn} /\ lastDevNonce = Following(session)
        /\ session # NoNonce /\ session = obj
        /\ UNCHANGED <<obj, session, lastDevNonce>>
    BY <1>7 DEF WriteConfig, Goto, cbVars
  <2>2. Torn # Following(session)
    BY <2>1
  <2>3. Store!WriteConfig
    BY <2>1, <2>2 DEF Store!WriteConfig, Store!NodeGoto, Store!flight
  <2>4. QED
    BY <2>3 DEF Store!Next
<1>8. CASE SaveFails
  <2>1. /\ main = "save" /\ main' = "failed" /\ session # NoNonce
        /\ UNCHANGED <<obj, session, stored, lastDevNonce>>
    BY <1>8 DEF SaveFails, Goto, cbVars
  <2>2. Store!SaveFails
    BY <2>1 DEF Store!SaveFails, Store!NodeGoto, Store!flight, Store!history
  <2>3. QED
    BY <2>2 DEF Store!Next
<1>8a. CASE OpenFails
  <2>1. /\ main = "save" /\ main' = "exited" /\ session # NoNonce
        /\ UNCHANGED <<obj, session, stored, lastDevNonce>>
    BY <1>8a DEF OpenFails, Goto, cbVars
  <2>2. Store!Crash
    BY <2>1 DEF Store!Crash, Store!history
  <2>3. QED
    BY <2>2 DEF Store!Next
<1>9. CASE \/ BeginTopicChange \/ unsubscribe_current_topics
           \/ subscribe_current_topics \/ EndTopicChange \/ set_connected
           \/ send_is_ready_alert
  <2> DEFINE after == {"change", "unsub", "resub", "unchange", "connect", "alert",
                       "ready"}
  <2>1. /\ main \in after /\ main' \in after
        /\ UNCHANGED <<obj, session, stored, lastDevNonce>>
    BY <1>9 DEF BeginTopicChange, unsubscribe_current_topics,
       subscribe_current_topics, EndTopicChange, set_connected,
       send_is_ready_alert, Goto, cbVars
  <2>2. UNCHANGED Store!vars
    BY <2>1 DEF Store!vars, Store!flight, Store!history
  <2>3. QED
    BY <2>2
<1>10. CASE ListenFails
  <2>1. /\ main \in {"start", "resub"} /\ main' = "exited"
        /\ UNCHANGED <<obj, session, stored, lastDevNonce>>
    BY <1>10 DEF ListenFails, cbVars
  <2>2. CASE main = "start"
    <3>1. obj = NoNonce /\ session = NoNonce
      BY <2>2
    <3>2. UNCHANGED Store!vars
      BY <2>1, <2>2, <3>1 DEF Store!vars, Store!flight, Store!history
    <3>3. QED
      BY <3>2
  <2>3. CASE main = "resub"
    <3>1. session # NoNonce
      BY <2>3
    <3>2. Store!Crash
      BY <2>1, <2>3, <3>1 DEF Store!Crash, Store!history
    <3>3. QED
      BY <3>2 DEF Store!Next
  <2>4. QED
    BY <2>1, <2>2, <2>3
<1>11. CASE SendJoinRequestFails
  <2>1. /\ main = "publish" /\ main' = "failed" /\ obj = NoNonce /\ session = NoNonce
        /\ UNCHANGED <<obj, session, stored, lastDevNonce>>
    BY <1>11 DEF SendJoinRequestFails, Goto, cbVars
  <2>2. Store!Crash
    BY <2>1 DEF Store!Crash, Store!history
  <2>3. QED
    BY <2>2 DEF Store!Next
<1>12. CASE UndecodableExits
  <2>1. /\ main # "exited" /\ main' = "exited" /\ obj = NoNonce /\ session = NoNonce
        /\ UNCHANGED <<obj, session, stored, lastDevNonce>>
    BY <1>12 DEF UndecodableExits, AwaitedAccept, CbGoto, Running
  <2>2. main \in {"start", "publish", "wait", "waiting", "woken", "failed"}
    BY <2>1
  <2>3. CASE main \in {"start", "failed"}
    <3>1. UNCHANGED Store!vars
      BY <2>1, <2>3 DEF Store!vars, Store!flight, Store!history
    <3>2. QED
      BY <3>1
  <2>4. CASE main \in {"publish", "wait", "waiting", "woken"}
    <3>1. Store!Crash
      BY <2>1, <2>4 DEF Store!Crash, Store!history
    <3>2. QED
      BY <3>1 DEF Store!Next
  <2>5. QED
    BY <2>2, <2>3, <2>4
<1>13. CASE AcceptVerified
  <2>1. /\ obj = NoNonce /\ obj' = lastDevNonce /\ main # "exited" /\ asked # NoNonce
        /\ session = NoNonce /\ lastDevNonce # NoNonce
        /\ UNCHANGED <<main, session, stored, lastDevNonce>>
    BY <1>13 DEF AcceptVerified, CbGoto, Running, mainVars
  <2>2. main \in Waiting \/ main = "failed"
    BY <2>1
  <2>3. CASE main \in Waiting
    <3>1. Store!Grant
      BY <2>1, <2>3 DEF Store!Grant
    <3>2. QED
      BY <3>1 DEF Store!Next
  <2>4. CASE main = "failed"
    <3>1. UNCHANGED Store!vars
      BY <2>1, <2>4 DEF Store!vars, Store!flight, Store!history
    <3>2. QED
      BY <3>1
  <2>5. QED
    BY <2>2, <2>3, <2>4
<1>14. CASE \/ enmessage_callback \/ LockMessageMutex \/ Dispatch
            \/ JoinAcceptArrived \/ AcceptRejected \/ NotYetConnected
            \/ RadioDownlink \/ Downlink \/ UplinkToSend \/ IgnoredMessage
  BY <1>14, StoreStutter
     DEF enmessage_callback, LockMessageMutex, Dispatch, JoinAcceptArrived,
         AcceptRejected, NotYetConnected, RadioDownlink, Downlink, UplinkToSend,
         IgnoredMessage, mainVars
<1>15. CASE LoopStart \/ LoopStop \/ BrokerTakes \/ UNCHANGED vars
  BY <1>15, StoreStutter DEF LoopStart, LoopStop, BrokerTakes, vars, mainVars, cbVars
<1>16. ASSUME NEW m \in Traffic, Publish(m) PROVE [Store!Next]_(Store!vars)
  BY <1>16, StoreStutter DEF Publish, mainVars, cbVars
<1>17. QED
  BY <1>1, <1>2, <1>3, <1>4, <1>5, <1>6, <1>7, <1>8, <1>9, <1>10, <1>11,
     <1>12, <1>13, <1>14, <1>15, <1>16, <1>8a DEF Next, MainNext, CbNext

(* To the file and the network server, one boot of the node is one of      *)
(* DevNonceStore, whatever its two threads and the broker do in between:   *)
(* what is proved of DevNonceStore across boots is true of this node.      *)
THEOREM NodeImplementsStore == Spec => ImplementsStore
<1>1. Init => Store!Init
  BY EndNodeAssumption
     DEF Init, Store!Init, Store!Nonce, Nonce, StoreNode, Gone, Waiting
<1>2. TypeOK /\ NodeInv /\ [Next]_vars => [Store!Next]_(Store!vars)
  BY StoreRefinement
<1>3. QED
  BY <1>1, <1>2, TypeCorrect, InvariantHolds, PTL
     DEF Spec, ImplementsStore, Store!Spec
-----------------------------------------------------------------------------
(* What NodeSession promises of every uplink: its place in the order of    *)
(* sending is its frame counter and its keys are the session's, so that no *)
(* counter is ever used twice under the same keys.                         *)
UplinksNumbered ==
  \A i \in 1 .. Len(uplinks) :
    uplinks[i].fcnt = i - 1 /\ uplinks[i].key = session

(* Why: before the session there is nothing that could be numbered wrong.  *)
NumberingInv ==
  /\ uplinks \in Seq([fcnt : Nat, key : Nonce \cup {NoNonce}])
  /\ Phase \in {"joining", "joined"} => uplinks = <<>>
  /\ UplinksNumbered

(* A step of NodeSession under keys of the right type keeps the numbering. *)
LEMMA NumberingStep ==
  ASSUME NumberingInv, session \in Nonce \cup {NoNonce},
         [Session!Next]_(Session!svars)
  PROVE  NumberingInv'
<1> USE DEF NumberingInv, UplinksNumbered
<1>1. CASE Session!SendUplink
  <2>1. /\ Phase = "ready" /\ Phase' = "ready" /\ session' = session
        /\ uplinks' = Append(uplinks, [fcnt |-> Len(uplinks), key |-> session])
    BY <1>1 DEF Session!SendUplink
  <2>2. [fcnt |-> Len(uplinks), key |-> session]
          \in [fcnt : Nat, key : Nonce \cup {NoNonce}]
    OBVIOUS
  <2>3. /\ uplinks' \in Seq([fcnt : Nat, key : Nonce \cup {NoNonce}])
        /\ Len(uplinks') = Len(uplinks) + 1 /\ Len(uplinks) \in Nat
        /\ \A i \in 1 .. Len(uplinks) : uplinks'[i] = uplinks[i]
        /\ uplinks'[Len(uplinks) + 1] = [fcnt |-> Len(uplinks), key |-> session]
    BY <2>1, <2>2
  <2>4. ASSUME NEW i \in 1 .. Len(uplinks')
        PROVE  uplinks'[i].fcnt = i - 1 /\ uplinks'[i].key = session'
    <3>1. CASE i \in 1 .. Len(uplinks)
      BY <2>1, <2>3, <3>1
    <3>2. CASE i = Len(uplinks) + 1
      BY <2>1, <2>3, <3>2
    <3>3. QED
      BY <2>3, <3>1, <3>2
  <2>5. QED
    BY <2>1, <2>3, <2>4
<1>2. CASE Session!Join
  BY <1>2 DEF Session!Join
<1>3. CASE Session!BecomeReady \/ Session!Fail
  BY <1>3 DEF Session!BecomeReady, Session!Fail
<1>4. CASE UNCHANGED Session!svars
  BY <1>4 DEF Session!svars
<1>5. QED
  BY <1>1, <1>2, <1>3, <1>4 DEF Session!Next

(* The node keeps the promise of NodeSession, since it implements it.      *)
THEOREM CountersNumberUplinks == Spec => []UplinksNumbered
<1>1. Session!Init => NumberingInv
  BY DEF Session!Init, NumberingInv, UplinksNumbered
<1>2. /\ TypeOK /\ NumberingInv /\ [Session!Next]_(Session!svars)
      => NumberingInv'
  BY NumberingStep DEF TypeOK
<1>3. NumberingInv => UplinksNumbered
  BY DEF NumberingInv
<1>4. QED
  BY <1>1, <1>2, <1>3, TypeCorrect, NodeImplementsSession, PTL
     DEF ImplementsSession, Session!Spec
=============================================================================
