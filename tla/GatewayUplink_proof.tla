------------------------- MODULE GatewayUplink_proof -------------------------
(***************************************************************************)
(* Proofs about GatewayUplink, for any number of packets of any status,    *)
(* any filter, stack and fetch size.                                       *)
(***************************************************************************)
EXTENDS GatewayUplink, SequenceTheorems, TLAPS

(* What the steps of thread_up rely on besides types: it holds mx_meas_up  *)
(* exactly while it waits for a PUSH_ACK, and has packets left to look at  *)
(* only in the filter loop.                                                *)
LocksInv ==
  /\ up = "ack" <=> mx_meas_up = "up"
  /\ up # "filter" => nb_pkt = 0

UpTyped == UplinkTypeOK /\ LocksInv

(* Counting keeps the counters numbers. *)
LEMMA CountType ==
  ASSUME meas_up \in [Counter -> Nat], NEW cs
  PROVE  Count(cs) \in [Counter -> Nat]
BY DEF Count

(* What the two callers of the packet stack rely on. *)
LEMMA QueueStep ==
  ASSUME queue \in Seq(Packet), Len(queue) < PKT_STACK_SIZE
  PROVE  /\ \A p \in Packet : Stack!Push(p)
               => queue' \in Seq(Packet) /\ Len(queue') < PKT_STACK_SIZE
         /\ Stack!Pop => /\ queue' \in Seq(Packet)
                         /\ Len(queue') < PKT_STACK_SIZE
                         /\ last'.pkt = Head(queue) /\ Head(queue) \in Packet
         /\ Stack!PopEmpty => queue' = queue
<1> USE UplinkAssumption
<1>1. ASSUME NEW p \in Packet, Stack!Push(p)
      PROVE  queue' \in Seq(Packet) /\ Len(queue') < PKT_STACK_SIZE
  BY <1>1 DEF Stack!Push, Stack!Enqueue
<1>2. ASSUME Stack!Pop
      PROVE  /\ queue' \in Seq(Packet) /\ Len(queue') < PKT_STACK_SIZE
             /\ last'.pkt = Head(queue) /\ Head(queue) \in Packet
  BY <1>2 DEF Stack!Pop, Stack!Reply
<1> QED
  BY <1>1, <1>2 DEF Stack!PopEmpty

(* The initial state of the upstream side is of its types. *)
LEMMA UplinkTypeInit == UplinkStart => UpTyped
<1> SUFFICES ASSUME UplinkStart PROVE UpTyped
  OBVIOUS
<1>1. queue \in Seq(Packet) /\ Len(queue) < PKT_STACK_SIZE /\ received \in 0 .. MaxReceived
  BY UplinkAssumption DEF UplinkStart, UplinkInit, Stack!Init
<1>2. /\ meas_up \in [Counter -> Nat] /\ report_up \in [Counter -> Nat]
      /\ nb_pkt \in 0 .. NB_PKT_MAX /\ nb_pkt <= Len(rxpkt)
      /\ rxpkt \in Seq(Packet) /\ Len(rxpkt) <= NB_PKT_MAX
      /\ dgram \in Seq(Packet) /\ sent \in Seq(Packet) /\ tries \in 0 .. 2
      /\ token_up = NoToken /\ pushed \in Seq(Token) /\ reused = 0 /\ acked = 0
  BY UplinkAssumption DEF UplinkStart, UplinkInit, Zero
<1>3. mx_meas_up = Nobody /\ up = "top" /\ nb_pkt = 0
  BY DEF UplinkStart, UplinkInit
<1> QED
  BY <1>1, <1>2, <1>3, SharedAssumption DEF UpTyped, UplinkTypeOK, LocksInv, UpPC

(* Every step keeps the types and the lock discipline. *)
LEMMA UplinkTypeStep ==
  ASSUME UpTyped, [UplinkNext]_upAll
  PROVE  UpTyped'
<1> USE UplinkAssumption, SharedAssumption
    DEF UpTyped, UplinkTypeOK, LocksInv, UpPC, UpGoto, pushVars
<1>1. CASE on_message_received
  <2>1. received + 1 \in Packet
    BY <1>1 DEF on_message_received, Packet
  <2>2. queue' \in Seq(Packet) /\ Len(queue') < PKT_STACK_SIZE
    BY <1>1, <2>1, QueueStep DEF on_message_received
  <2> QED
    BY <1>1, <2>2 DEF on_message_received, upVars, measVars
<1>2. CASE UpStop
  BY <1>2 DEF UpStop, stackVars, measVars
<1>3. CASE UpFetch
  BY <1>3 DEF UpFetch, stackVars, measVars
<1>4. CASE lgw_pop
  BY <1>4, QueueStep DEF lgw_pop, measVars
<1>5. CASE UpFetchedAll
  <2>1. queue' = queue
    BY <1>5, QueueStep DEF UpFetchedAll
  <2>2. nb_pkt' \in 0 .. 1 /\ (nb_pkt' = 1 => Len(rxpkt) >= 1)
    BY <1>5 DEF UpFetchedAll, UpFetched, lgw_receive
  <2> QED
    BY <1>5, <2>1, <2>2 DEF UpFetchedAll, UpFetched, measVars
<1>6. CASE UpFetchedFull
  <2>1. nb_pkt' \in 0 .. 1 /\ (nb_pkt' = 1 => Len(rxpkt) >= 1)
    BY <1>6 DEF UpFetchedFull, UpFetched, lgw_receive
  <2> QED
    BY <1>6, <2>1 DEF UpFetchedFull, UpFetched, measVars
<1>7. CASE UpSend
  <2>1. sent \o dgram \in Seq(Packet)
    BY ConcatProperties
  <2>a. token_up' \in Token /\ Append(pushed, token_up') \in Seq(Token)
    BY <1>7 DEF UpSend
  <2>2. /\ sent' \in Seq(Packet) /\ up = "send" /\ up' = "count"
        /\ token_up' \in Token
        /\ UNCHANGED <<stackVars, rxpkt, nb_pkt, dgram, tries, acked, measVars>>
    BY <1>7, <2>1, <2>a DEF UpSend
  <2>3. /\ UNCHANGED <<queue, received, rxpkt, nb_pkt, dgram, tries, acked>>
        /\ UNCHANGED <<mx_meas_up, meas_up, report_up>>
    BY <2>2 DEF stackVars, measVars
  <2>b. pushed' \in Seq(Token)
    BY <1>7, <2>a DEF UpSend
  <2>c. reused' \in Nat
    BY <1>7 DEF UpSend
  <2>4. UplinkTypeOK'
    BY <2>2, <2>3, <2>b, <2>c
  <2>5. LocksInv'
    BY <2>2, <2>3
  <2> QED
    BY <2>4, <2>5
<1>8. CASE UpFilter
  <2>1. /\ rxpkt # <<>> /\ Head(rxpkt) \in Packet
        /\ rxpkt' \in Seq(Packet) /\ Len(rxpkt') = Len(rxpkt) - 1
    BY <1>8 DEF UpFilter
  <2>2. meas_up' \in [Counter -> Nat]
    BY <1>8, CountType DEF UpFilter, Counted
  <2>3. dgram' \in Seq(Packet)
    BY <1>8, <2>1 DEF UpFilter
  <2>4. /\ up = "filter"
        /\ UNCHANGED <<queue, received, up, tries, pushVars, mx_meas_up, report_up>>
    BY <1>8 DEF UpFilter, stackVars
  <2>5. nb_pkt' \in 0 .. NB_PKT_MAX /\ nb_pkt' <= Len(rxpkt')
    BY <1>8, <2>1 DEF UpFilter
  <2> QED
    BY <2>1, <2>2, <2>3, <2>4, <2>5
<1>9. CASE UpFiltered
  BY <1>9 DEF UpFiltered, stackVars, measVars
<1>10. CASE UpCount
  BY <1>10, CountType DEF UpCount, stackVars, Lock
<1>11. CASE UpNoAck
  BY <1>11 DEF UpNoAck, stackVars, measVars
<1>12. CASE UpAck
  BY <1>12, CountType DEF UpAck, UpRelease, Unlock, stackVars
<1>13. CASE UpNoMoreTries
  BY <1>13 DEF UpNoMoreTries, UpRelease, Unlock, stackVars
<1>14. CASE ReportUp
  BY <1>14 DEF ReportUp, Zero, stackVars, upVars
<1>15. CASE UpForeign
  BY <1>15, CountType DEF UpForeign, Counted, stackVars, upVars
<1>16. CASE UpPublishExits \/ UplinkSignal \/ UNCHANGED upAll
  BY <1>16 DEF UpPublishExits, UplinkSignal, upAll, uplinkVars, stackVars, upVars,
               measVars
<1> QED
  BY <1>1, <1>2, <1>3, <1>4, <1>5, <1>6, <1>7, <1>8, <1>9, <1>10, <1>11,
     <1>12, <1>13, <1>14, <1>15, <1>16 DEF UplinkNext, thread_up

(* The types and the lock discipline of thread_up always hold. *)
THEOREM TypedHolds == UplinkSpec => []UpTyped
BY UplinkTypeInit, UplinkTypeStep, PTL DEF UplinkSpec

(* The upstream state is of its types: the stack never reaches its size,   *)
(* and thread_up never looks at more packets than it fetched.              *)
THEOREM UplinkTypeCorrect == UplinkSpec => []UplinkTypeOK
<1>1. UpTyped => UplinkTypeOK
  BY DEF UpTyped
<1> QED
  BY <1>1, TypedHolds, PTL
-----------------------------------------------------------------------------
(* While thread_up waits for a PUSH_ACK its datagram is counted and not    *)
(* acknowledged, and mx_meas_up keeps a report from coming in between.     *)
CounterInv ==
  /\ ReportsAddUp
  /\ up = "ack" => meas_up["ack_rcv"] + 1 <= meas_up["dgram_sent"]

(* What counting does to each counter. *)
LEMMA CountOne ==
  ASSUME meas_up \in [Counter -> Nat], NEW cs
  PROVE  \A c \in Counter :
           Count(cs)[c] = IF c \in cs THEN meas_up[c] + 1 ELSE meas_up[c]
<1> SUFFICES ASSUME NEW c \in Counter
             PROVE  Count(cs)[c] = IF c \in cs THEN meas_up[c] + 1 ELSE meas_up[c]
  OBVIOUS
<1>1. meas_up[c] \in Nat /\ Count(cs)[c] = meas_up[c] + IF c \in cs THEN 1 ELSE 0
  BY DEF Count
<1> QED
  BY <1>1

(* The filter loop counts a packet, at most one status, and no datagram. *)
LEMMA FilterCounts ==
  ASSUME meas_up \in [Counter -> Nat], ConsistentUp(meas_up),
         meas_up' = Counted(Head(rxpkt))
  PROVE  /\ ConsistentUp(meas_up')
         /\ meas_up'["ack_rcv"] = meas_up["ack_rcv"]
         /\ meas_up'["dgram_sent"] = meas_up["dgram_sent"]
<1> DEFINE st == StatusCounter(Head(rxpkt))
<1>1. PICK cs : /\ cs \in {{}, {"pkt_fwd"}}
                /\ meas_up' = Count({"rx_rcv"} \cup st \cup cs)
  BY DEF Counted
<1>2. st \in {{"rx_ok"}, {"rx_bad"}, {"rx_nocrc"}, {}}
  BY DEF StatusCounter
<1> HIDE DEF st
<1> DEFINE S == {"rx_rcv"} \cup st \cup cs
<1>3. /\ "rx_rcv" \in S /\ "ack_rcv" \notin S /\ "dgram_sent" \notin S
      /\ ~("rx_ok" \in S /\ "rx_bad" \in S)
      /\ ~("rx_ok" \in S /\ "rx_nocrc" \in S)
      /\ ~("rx_bad" \in S /\ "rx_nocrc" \in S)
  BY <1>1, <1>2
<1> HIDE DEF S
<1>4. \A c \in Counter :
        /\ meas_up[c] \in Nat
        /\ meas_up'[c] = IF c \in S THEN meas_up[c] + 1 ELSE meas_up[c]
  BY <1>1, CountOne DEF S
<1>5. /\ "ack_rcv" \in Counter /\ "dgram_sent" \in Counter
      /\ "rx_rcv" \in Counter /\ "rx_ok" \in Counter /\ "rx_bad" \in Counter
      /\ "rx_nocrc" \in Counter /\ "pkt_fwd" \in Counter
  BY DEF Counter
<1>6. /\ meas_up'["ack_rcv"] = meas_up["ack_rcv"]
      /\ meas_up'["dgram_sent"] = meas_up["dgram_sent"]
      /\ meas_up'["rx_rcv"] = meas_up["rx_rcv"] + 1
  BY <1>3, <1>4, <1>5
<1>7. meas_up'["pkt_fwd"] <= meas_up'["rx_rcv"]
  BY <1>4, <1>5, <1>6 DEF ConsistentUp
<1>8. meas_up'["rx_ok"] + meas_up'["rx_bad"] + meas_up'["rx_nocrc"]
        <= meas_up'["rx_rcv"]
  BY <1>3, <1>4, <1>5, <1>6 DEF ConsistentUp
<1> QED
  BY <1>6, <1>7, <1>8 DEF ConsistentUp

(* Counting a datagram, or the acknowledgement of one that is waited for, *)
(* keeps the counters consistent.                                         *)
LEMMA DatagramCounts ==
  ASSUME meas_up \in [Counter -> Nat], ConsistentUp(meas_up),
         NEW c \in {"dgram_sent", "ack_rcv"}, meas_up' = Count({c}),
         c = "ack_rcv" => meas_up["ack_rcv"] + 1 <= meas_up["dgram_sent"]
  PROVE  /\ ConsistentUp(meas_up')
         /\ c = "dgram_sent" => meas_up'["ack_rcv"] + 1 <= meas_up'["dgram_sent"]
<1>1. \A d \in Counter :
        /\ meas_up[d] \in Nat
        /\ meas_up'[d] = IF d = c THEN meas_up[d] + 1 ELSE meas_up[d]
  BY CountOne
<1>2. /\ "ack_rcv" \in Counter /\ "dgram_sent" \in Counter
      /\ "rx_rcv" \in Counter /\ "rx_ok" \in Counter /\ "rx_bad" \in Counter
      /\ "rx_nocrc" \in Counter /\ "pkt_fwd" \in Counter
  BY DEF Counter
<1>3. /\ meas_up'["rx_rcv"] = meas_up["rx_rcv"] /\ meas_up'["rx_ok"] = meas_up["rx_ok"]
      /\ meas_up'["rx_bad"] = meas_up["rx_bad"]
      /\ meas_up'["rx_nocrc"] = meas_up["rx_nocrc"]
      /\ meas_up'["pkt_fwd"] = meas_up["pkt_fwd"]
  BY <1>1, <1>2
<1>4. /\ meas_up'["ack_rcv"] <= meas_up'["dgram_sent"]
      /\ c = "dgram_sent" => meas_up'["ack_rcv"] + 1 <= meas_up'["dgram_sent"]
  <2> USE <1>1, <1>2 DEF ConsistentUp
  <2>1. CASE c = "dgram_sent"
    <3>1. /\ meas_up'["dgram_sent"] = meas_up["dgram_sent"] + 1
          /\ meas_up'["ack_rcv"] = meas_up["ack_rcv"]
      BY <2>1
    <3> QED
      BY <3>1
  <2>2. CASE c = "ack_rcv"
    <3>1. /\ meas_up'["dgram_sent"] = meas_up["dgram_sent"]
          /\ meas_up'["ack_rcv"] = meas_up["ack_rcv"] + 1
      BY <2>2
    <3> QED
      BY <2>2, <3>1
  <2> QED
    BY <2>1, <2>2
<1> QED
  BY <1>3, <1>4 DEF ConsistentUp

(* Every step keeps the counters consistent. *)
LEMMA CounterStep ==
  ASSUME UpTyped, CounterInv, [UplinkNext]_upAll
  PROVE  CounterInv'
<1> USE SharedAssumption
    DEF UpTyped, LocksInv, CounterInv, ReportsAddUp, UpGoto
<1>0. meas_up \in [Counter -> Nat]
  BY DEF UplinkTypeOK
<1>1. CASE \/ UpStop \/ UpFetch \/ lgw_pop \/ UpFetchedAll \/ UpFetchedFull
           \/ UpFiltered \/ UpSend \/ UpNoAck \/ UpPublishExits
  <2>1. UNCHANGED <<meas_up, report_up>>
    BY <1>1 DEF UpStop, UpFetch, lgw_pop, UpFetchedAll, UpFetchedFull, UpFetched,
                UpFiltered, UpSend, UpNoAck, UpPublishExits, uplinkVars, measVars
  <2>2. up' = "ack" => up = "ack"
    BY <1>1 DEF UpStop, UpFetch, lgw_pop, UpFetchedAll, UpFetchedFull, UpFetched,
                UpFiltered, UpSend, UpNoAck, UpPublishExits, uplinkVars, upVars
  <2> QED
    BY <2>1, <2>2 DEF ConsistentUp
<1>2. CASE UpFilter \/ UpForeign
  <2>1. UNCHANGED <<up, report_up>> /\ meas_up' = Counted(Head(rxpkt))
    BY <1>2 DEF UpFilter, UpForeign, upVars
  <2> QED
    BY <1>0, <1>2, <2>1, FilterCounts DEF ConsistentUp
<1>3. CASE UpCount
  <2>1. meas_up' = Count({"dgram_sent"}) /\ UNCHANGED report_up
    BY <1>3 DEF UpCount
  <2> QED
    BY <1>0, <2>1, DatagramCounts DEF ConsistentUp
<1>4. CASE UpAck
  <2>1. /\ meas_up' = Count({"ack_rcv"}) /\ UNCHANGED report_up
        /\ up = "ack" /\ up' = "top"
    BY <1>4 DEF UpAck, UpRelease
  <2> QED
    BY <1>0, <2>1, DatagramCounts DEF ConsistentUp
<1>5. CASE UpNoMoreTries
  BY <1>5 DEF UpNoMoreTries, UpRelease, ConsistentUp
<1>6. CASE ReportUp
  <2>1. report_up' = meas_up /\ meas_up' = Zero
    BY <1>6 DEF ReportUp
  <2>2. up # "ack"
    BY <1>6 DEF ReportUp
  <2>3. up' = up
    BY <1>6 DEF ReportUp, upVars
  <2>4. ConsistentUp(Zero)
    BY DEF ConsistentUp, Zero, Counter
  <2> QED
    BY <2>1, <2>2, <2>3, <2>4 DEF ConsistentUp
<1>7. CASE on_message_received \/ UplinkSignal \/ UNCHANGED upAll
  BY <1>7 DEF on_message_received, UplinkSignal, upAll, uplinkVars, upVars,
              measVars, ConsistentUp
<1> QED
  BY <1>1, <1>2, <1>3, <1>4, <1>5, <1>6, <1>7 DEF UplinkNext, thread_up

(* Reports add up wherever in the cycle of thread_up they are made.        *)
THEOREM CountersAddUp == UplinkSpec => []ReportsAddUp
<1>1. UplinkStart => CounterInv
  BY DEF UplinkStart, UplinkInit, CounterInv, ReportsAddUp, ConsistentUp, Zero,
         Counter
<1>2. UpTyped /\ CounterInv /\ [UplinkNext]_upAll => CounterInv'
  BY CounterStep
<1>3. CounterInv => ReportsAddUp
  BY DEF CounterInv
<1> QED
  BY <1>1, <1>2, <1>3, TypedHolds, PTL DEF UplinkSpec
-----------------------------------------------------------------------------
(* Order: what was sent comes before what is in the datagram, that before  *)
(* what was fetched, that before what is on the stack, and all of it       *)
(* before what will be received.                                           *)
Ascending(s) == \A i, j \in 1 .. Len(s) : i < j => s[i] < s[j]

Before(s, t) == \A i \in 1 .. Len(s), j \in 1 .. Len(t) : s[i] < t[j]

UpTo(s, n) == \A i \in 1 .. Len(s) : s[i] <= n

OrderInv ==
  /\ Ascending(sent) /\ Ascending(dgram) /\ Ascending(rxpkt) /\ Ascending(queue)
  /\ up \in {"receive", "filter", "send"} => Before(sent, dgram)
  /\ Before(sent, rxpkt) /\ Before(dgram, rxpkt)
  /\ Before(sent, queue) /\ Before(dgram, queue) /\ Before(rxpkt, queue)
  /\ UpTo(sent, received) /\ UpTo(dgram, received) /\ UpTo(rxpkt, received)
  /\ UpTo(queue, received)

(* A later packet may be appended. *)
LEMMA AppendOrder ==
  ASSUME NEW s \in Seq(Int), NEW p \in Int
  PROVE  /\ Ascending(s) /\ (\A i \in 1 .. Len(s) : s[i] < p)
              => Ascending(Append(s, p))
         /\ \A t \in Seq(Int) :
              Before(t, s) /\ (\A i \in 1 .. Len(t) : t[i] < p)
                => Before(t, Append(s, p))
         /\ \A t \in Seq(Int) :
              Before(s, t) /\ (\A i \in 1 .. Len(t) : p < t[i])
                => Before(Append(s, p), t)
         /\ \A n \in Int : UpTo(s, n) /\ p <= n => UpTo(Append(s, p), n)
<1>1. /\ Len(Append(s, p)) = Len(s) + 1
      /\ \A i \in 1 .. Len(s) : Append(s, p)[i] = s[i]
      /\ Append(s, p)[Len(s) + 1] = p
  BY AppendProperties
<1>2. \A i \in 1 .. Len(Append(s, p)) : i \in 1 .. Len(s) \/ i = Len(s) + 1
  BY <1>1
<1> QED
  BY <1>1, <1>2 DEF Ascending, Before, UpTo

(* The head of a sequence may be taken off, and comes before the rest. *)
LEMMA TailOrder ==
  ASSUME NEW s \in Seq(Int), s # <<>>
  PROVE  /\ Ascending(s) => /\ Ascending(Tail(s))
                            /\ \A i \in 1 .. Len(Tail(s)) : Head(s) < Tail(s)[i]
         /\ \A t \in Seq(Int) :
              Before(t, s) => /\ Before(t, Tail(s))
                              /\ \A i \in 1 .. Len(t) : t[i] < Head(s)
         /\ \A t \in Seq(Int) :
              Before(s, t) => /\ Before(Tail(s), t)
                              /\ \A i \in 1 .. Len(t) : Head(s) < t[i]
         /\ \A n \in Int : UpTo(s, n) => UpTo(Tail(s), n) /\ Head(s) <= n
<1>1. /\ Len(Tail(s)) = Len(s) - 1 /\ Len(s) >= 1 /\ Head(s) = s[1]
      /\ \A i \in 1 .. Len(Tail(s)) : Tail(s)[i] = s[i + 1]
  BY HeadTailProperties, EmptySeq
<1> QED
  BY <1>1 DEF Ascending, Before, UpTo

(* A sequence may be continued by a later one. *)
LEMMA ConcatOrder ==
  ASSUME NEW s \in Seq(Int), NEW t \in Seq(Int), NEW n \in Int
  PROVE  /\ Ascending(s) /\ Ascending(t) /\ Before(s, t) => Ascending(s \o t)
         /\ \A u \in Seq(Int) :
              Before(s, u) /\ Before(t, u) => Before(s \o t, u)
         /\ UpTo(s, n) /\ UpTo(t, n) => UpTo(s \o t, n)
<1>1. /\ Len(s \o t) = Len(s) + Len(t)
      /\ \A i \in 1 .. Len(s) + Len(t) :
           (s \o t)[i] = IF i <= Len(s) THEN s[i] ELSE t[i - Len(s)]
  BY ConcatProperties
<1>2. \A i \in 1 .. Len(s) + Len(t) : i \in 1 .. Len(s) \/ i - Len(s) \in 1 .. Len(t)
  OBVIOUS
<1>3. ASSUME Ascending(s), Ascending(t), Before(s, t) PROVE Ascending(s \o t)
  <2> SUFFICES ASSUME NEW i \in 1 .. Len(s) + Len(t),
                      NEW j \in 1 .. Len(s) + Len(t), i < j
               PROVE  (s \o t)[i] < (s \o t)[j]
    BY <1>1 DEF Ascending
  <2>1. CASE j \in 1 .. Len(s)
    BY <1>1, <1>3, <2>1 DEF Ascending
  <2>2. CASE i \in 1 .. Len(s) /\ j - Len(s) \in 1 .. Len(t)
    BY <1>1, <1>3, <2>2 DEF Before
  <2>3. CASE i > Len(s)
    <3>1. /\ i - Len(s) \in 1 .. Len(t) /\ j - Len(s) \in 1 .. Len(t)
          /\ i - Len(s) < j - Len(s)
      BY <2>3
    <3>2. (s \o t)[i] = t[i - Len(s)] /\ (s \o t)[j] = t[j - Len(s)]
      BY <1>1, <2>3
    <3> QED
      BY <1>3, <3>1, <3>2 DEF Ascending
  <2> QED
    BY <2>1, <2>2, <2>3
<1>4. ASSUME NEW u \in Seq(Int), Before(s, u), Before(t, u)
      PROVE  Before(s \o t, u)
  <2> SUFFICES ASSUME NEW i \in 1 .. Len(s) + Len(t), NEW j \in 1 .. Len(u)
               PROVE  (s \o t)[i] < u[j]
    BY <1>1 DEF Before
  <2>1. CASE i \in 1 .. Len(s)
    BY <1>1, <1>4, <2>1 DEF Before
  <2>2. CASE i > Len(s)
    <3>1. i - Len(s) \in 1 .. Len(t) /\ (s \o t)[i] = t[i - Len(s)]
      BY <1>1, <2>2
    <3> QED
      BY <1>4, <3>1 DEF Before
  <2> QED
    BY <2>1, <2>2
<1>5. ASSUME UpTo(s, n), UpTo(t, n) PROVE UpTo(s \o t, n)
  BY <1>1, <1>2, <1>5 DEF UpTo
<1> QED
  BY <1>3, <1>4, <1>5

(* thread_up's and the callback's steps keep the order. *)
LEMMA OrderStep ==
  ASSUME UpTyped, OrderInv, [UplinkNext]_upAll
  PROVE  OrderInv'
<1> USE UplinkAssumption, SharedAssumption
    DEF UpTyped, UplinkTypeOK, UpGoto, pushVars
<1>0. /\ queue \in Seq(Int) /\ rxpkt \in Seq(Int) /\ dgram \in Seq(Int)
      /\ sent \in Seq(Int) /\ received \in Int /\ <<>> \in Seq(Int)
  BY DEF Packet
<1>e. \A s : Ascending(<<>>) /\ Before(<<>>, s) /\ Before(s, <<>>) /\ UpTo(<<>>, received)
  BY DEF Ascending, Before, UpTo
<1>1. CASE on_message_received
  <2>1. /\ received' = received + 1
        /\ UNCHANGED <<up, rxpkt, dgram, sent>>
        /\ queue' = Append(queue, received + 1) \/ queue' = <<>>
    BY <1>1 DEF on_message_received, Stack!Push, Stack!Enqueue, upVars
  <2>2. \A s \in Seq(Int) : UpTo(s, received)
          => UpTo(s, received + 1) /\ \A i \in 1 .. Len(s) : s[i] < received + 1
    <3> SUFFICES ASSUME NEW s \in Seq(Int), UpTo(s, received), NEW i \in 1 .. Len(s)
                 PROVE  s[i] <= received + 1 /\ s[i] < received + 1
      BY DEF UpTo
    <3>1. s[i] \in Int /\ s[i] <= received
      BY DEF UpTo
    <3> QED
      BY <1>0, <3>1
  <2>3. CASE queue' = Append(queue, received + 1)
    <3> DEFINE p == received + 1
    <3>1. p \in Int /\ p <= p
      BY <1>0
    <3> HIDE DEF p
    <3>2. /\ Ascending(queue) /\ UpTo(queue, p)
          /\ Before(sent, queue) /\ Before(dgram, queue) /\ Before(rxpkt, queue)
          /\ \A i \in 1 .. Len(queue) : queue[i] < p
          /\ \A i \in 1 .. Len(sent) : sent[i] < p
          /\ \A i \in 1 .. Len(dgram) : dgram[i] < p
          /\ \A i \in 1 .. Len(rxpkt) : rxpkt[i] < p
      BY <1>0, <2>2 DEF OrderInv, p
    <3>3. /\ Ascending(Append(queue, p)) /\ UpTo(Append(queue, p), p)
          /\ Before(sent, Append(queue, p)) /\ Before(dgram, Append(queue, p))
          /\ Before(rxpkt, Append(queue, p))
      BY <1>0, <3>1, <3>2, AppendOrder
    <3> QED
      BY <1>0, <2>1, <2>2, <2>3, <3>3 DEF OrderInv, p
  <2>4. CASE queue' = <<>>
    BY <1>0, <1>e, <2>1, <2>2, <2>4 DEF OrderInv, Ascending, Before, UpTo
  <2> QED
    BY <2>1, <2>3, <2>4
<1>2. CASE UpFetch
  <2>1. /\ rxpkt' = <<>> /\ dgram' = <<>>
        /\ UNCHANGED <<queue, received, sent>>
    BY <1>2 DEF UpFetch, stackVars
  <2> QED
    BY <1>e, <2>1 DEF OrderInv, Ascending, Before, UpTo
<1>3. CASE lgw_pop
  <2>1. /\ queue # <<>> /\ queue' = Tail(queue) /\ rxpkt' = Append(rxpkt, Head(queue))
        /\ UNCHANGED <<up, received, sent, dgram>>
    BY <1>3 DEF lgw_pop, Stack!Pop, Stack!Reply
  <2>2. Head(queue) \in Int /\ Tail(queue) \in Seq(Int)
    BY <1>0, <2>1
  <2>3. /\ Ascending(Tail(queue)) /\ UpTo(Tail(queue), received)
        /\ Before(sent, Tail(queue)) /\ Before(dgram, Tail(queue))
        /\ Before(rxpkt, Tail(queue))
        /\ Head(queue) <= received
        /\ \A i \in 1 .. Len(Tail(queue)) : Head(queue) < Tail(queue)[i]
        /\ \A i \in 1 .. Len(sent) : sent[i] < Head(queue)
        /\ \A i \in 1 .. Len(dgram) : dgram[i] < Head(queue)
        /\ \A i \in 1 .. Len(rxpkt) : rxpkt[i] < Head(queue)
    BY <1>0, <2>1, TailOrder DEF OrderInv
  <2>4. /\ Ascending(rxpkt') /\ UpTo(rxpkt', received)
        /\ Before(sent, rxpkt') /\ Before(dgram, rxpkt')
        /\ Before(rxpkt', Tail(queue))
    BY <1>0, <2>1, <2>2, <2>3, AppendOrder DEF OrderInv
  <2> QED
    BY <2>1, <2>3, <2>4 DEF OrderInv
<1>4. CASE UpFilter
  <2>1. /\ rxpkt # <<>> /\ rxpkt' = Tail(rxpkt) /\ up = "filter"
        /\ dgram' = dgram \/ dgram' = Append(dgram, Head(rxpkt))
        /\ UNCHANGED <<queue, up, received, sent>>
    BY <1>4 DEF UpFilter, stackVars
  <2>2. Head(rxpkt) \in Int /\ Tail(rxpkt) \in Seq(Int)
    BY <1>0, <2>1
  <2>3. /\ Ascending(Tail(rxpkt)) /\ UpTo(Tail(rxpkt), received)
        /\ Before(sent, Tail(rxpkt)) /\ Before(dgram, Tail(rxpkt))
        /\ Before(Tail(rxpkt), queue)
        /\ Head(rxpkt) <= received
        /\ \A i \in 1 .. Len(Tail(rxpkt)) : Head(rxpkt) < Tail(rxpkt)[i]
        /\ \A i \in 1 .. Len(sent) : sent[i] < Head(rxpkt)
        /\ \A i \in 1 .. Len(dgram) : dgram[i] < Head(rxpkt)
        /\ \A i \in 1 .. Len(queue) : Head(rxpkt) < queue[i]
    BY <1>0, <2>1, TailOrder DEF OrderInv
  <2>4. Before(sent, dgram)
    BY <2>1 DEF OrderInv
  <2>5. LET d == Append(dgram, Head(rxpkt)) IN
        /\ Ascending(d) /\ UpTo(d, received)
        /\ Before(sent, d) /\ Before(d, Tail(rxpkt)) /\ Before(d, queue)
    BY <1>0, <2>2, <2>3, <2>4, AppendOrder DEF OrderInv
  <2> QED
    BY <2>1, <2>3, <2>4, <2>5 DEF OrderInv
<1>5. CASE UpSend
  <2>1. /\ up = "send" /\ up' = "count"
        /\ sent' = sent \/ sent' = sent \o dgram
        /\ UNCHANGED <<queue, rxpkt, dgram, received>>
    BY <1>5 DEF UpSend, stackVars
  <2>2. LET s == sent \o dgram IN
        Ascending(s) /\ UpTo(s, received) /\ Before(s, rxpkt) /\ Before(s, queue)
    BY <1>0, <2>1, ConcatOrder DEF OrderInv
  <2> QED
    BY <2>1, <2>2 DEF OrderInv
<1>6. CASE UpFetchedAll \/ UpFetchedFull
  <2>1. /\ queue' = queue /\ up = "receive"
        /\ UNCHANGED <<received, rxpkt, dgram, sent>>
    BY <1>6 DEF UpFetchedAll, UpFetchedFull, UpFetched, Stack!PopEmpty
  <2> QED
    BY <2>1 DEF OrderInv
<1>7. CASE \/ UpStop \/ UpFiltered \/ UpCount \/ UpNoAck \/ UpAck \/ UpNoMoreTries
  <2>1. /\ UNCHANGED <<queue, received, rxpkt, dgram, sent>>
        /\ up' \in {"receive", "filter", "send"} => up = "filter"
    BY <1>7 DEF UpStop, UpFiltered, UpCount, UpNoAck, UpAck, UpNoMoreTries,
                UpRelease, stackVars
  <2> QED
    BY <2>1 DEF OrderInv
<1>8. CASE \/ UpForeign \/ UpPublishExits \/ ReportUp \/ UplinkSignal
           \/ UNCHANGED upAll
  <2>1. UNCHANGED <<queue, received, rxpkt, dgram, sent, up>>
    BY <1>8 DEF UpForeign, UpPublishExits, ReportUp, UplinkSignal, upAll,
                uplinkVars, stackVars, upVars
  <2> QED
    BY <2>1 DEF OrderInv
<1> QED
  BY <1>1, <1>2, <1>3, <1>4, <1>5, <1>6, <1>7, <1>8 DEF UplinkNext, thread_up

(* Datagrams carry packets in the order they were received, none twice,   *)
(* for a stack and a fetch of any size.                                    *)
THEOREM PacketsInOrder == UplinkSpec => []SentInOrder
<1>1. UplinkStart => OrderInv
  BY DEF UplinkStart, UplinkInit, Stack!Init, OrderInv, Ascending, Before, UpTo
<1>2. UpTyped /\ OrderInv /\ [UplinkNext]_upAll => OrderInv'
  BY OrderStep
<1>3. OrderInv => SentInOrder
  BY DEF OrderInv, Ascending, SentInOrder
<1> QED
  BY <1>1, <1>2, <1>3, TypedHolds, PTL DEF UplinkSpec
-----------------------------------------------------------------------------
(* While thread_up waits for the acknowledgement of a datagram whose token *)
(* the server has seen, there is one acknowledgement left to count.        *)
PushInv ==
  /\ AckedWereSent
  /\ up \in {"count", "ack"} /\ token_up \in Answered
       => acked + 1 <= Len(pushed) + reused

(* A datagram adds to what may be acknowledged if it reaches the server or *)
(* has an old token, and is acknowledged once.                             *)
LEMMA PushStep ==
  ASSUME UpTyped, PushInv, [UplinkNext]_upAll
  PROVE  PushInv'
<1> USE DEF UpGoto, PushInv, AckedWereSent, pushVars
<1>0. /\ pushed \in Seq(Token) /\ Len(pushed) \in Nat
      /\ reused \in Nat /\ acked \in Nat
  BY DEF UpTyped, UplinkTypeOK
<1>1. CASE UpSend
  <2>1. /\ up' = "count" /\ acked' = acked /\ token_up' \in Token
        /\ reused' = reused + IF token_up' \in Answered THEN 1 ELSE 0
    BY <1>1 DEF UpSend
  <2>2. CASE pushed' = pushed
    <3>1. Answered' = Answered
      BY <2>2 DEF Answered
    <3>. QED
      BY <1>0, <2>1, <2>2, <3>1
  <2>3. CASE pushed' = Append(pushed, token_up')
    <3>1. Len(pushed') = Len(pushed) + 1
      BY <1>0, <2>1, <2>3
    <3>. QED
      BY <1>0, <2>1, <3>1
  <2>. QED
    BY <1>1, <2>2, <2>3 DEF UpSend
<1>2. CASE UpAck
  <2>1. /\ up = "ack" /\ up' = "top" /\ token_up \in Answered
        /\ acked' = acked + 1 /\ UNCHANGED <<pushed, reused>>
    BY <1>2 DEF UpAck, UpRelease
  <2>. QED
    BY <1>0, <2>1
<1>3. CASE \/ UpStop \/ UpFetch \/ lgw_pop \/ UpFetchedAll \/ UpFetchedFull
           \/ UpFiltered \/ UpCount \/ UpNoAck \/ UpNoMoreTries
  <2>1. /\ UNCHANGED <<token_up, pushed, reused, acked>>
        /\ up' \in {"count", "ack"} => up \in {"count", "ack"}
    BY <1>3 DEF UpStop, UpFetch, lgw_pop, UpFetchedAll, UpFetchedFull, UpFetched,
                UpFiltered, UpCount, UpNoAck, UpNoMoreTries, UpRelease
  <2>. QED
    BY <2>1 DEF Answered
<1>4. CASE \/ UpFilter \/ UpForeign \/ UpPublishExits \/ on_message_received
           \/ ReportUp \/ UplinkSignal \/ UNCHANGED upAll
  <2>1. UNCHANGED <<up, token_up, pushed, reused, acked>>
    BY <1>4 DEF UpFilter, UpForeign, UpPublishExits, on_message_received, ReportUp,
                UplinkSignal, upAll, uplinkVars, upVars
  <2>. QED
    BY <2>1 DEF Answered
<1>. QED
  BY <1>1, <1>2, <1>3, <1>4 DEF UplinkNext, thread_up

(* Nothing is sent or acknowledged before thread_up runs. *)
LEMMA PushInit == UplinkStart => PushInv
BY DEF UplinkStart, UplinkInit, PushInv, AckedWereSent, Answered

(* Late, duplicate and same-token PUSH_ACKs never make the gateway count   *)
(* more acknowledgements than datagrams reached the server, but for those  *)
(* with the token of one that did.                                         *)
THEOREM AcksWereSent == UplinkSpec => []AckedWereSent
<1>1. UpTyped /\ PushInv /\ [UplinkNext]_upAll => PushInv'
  BY PushStep
<1>2. PushInv => AckedWereSent
  BY DEF PushInv
<1>. QED
  BY <1>1, <1>2, PushInit, TypedHolds, PTL DEF UplinkSpec
-----------------------------------------------------------------------------
(* While thread_up fetches, the datagram is still empty. *)
FreshInv == up = "receive" => dgram = <<>>

LEMMA FreshStep == FreshInv /\ [UplinkNext]_upAll => FreshInv'
<1> SUFFICES ASSUME FreshInv, [UplinkNext]_upAll PROVE FreshInv'
  OBVIOUS
<1> USE DEF FreshInv, UpGoto
<1>1. CASE \/ UpStop \/ UpFilter \/ UpFiltered \/ UpSend \/ UpCount \/ UpNoAck
           \/ UpAck \/ UpNoMoreTries
  BY <1>1 DEF UpStop, UpFilter, UpFiltered, UpSend, UpCount, UpNoAck, UpAck,
              UpNoMoreTries, UpRelease
<1>2. CASE UpFetch
  BY <1>2 DEF UpFetch
<1>3. CASE lgw_pop \/ UpFetchedAll \/ UpFetchedFull
  BY <1>3 DEF lgw_pop, UpFetchedAll, UpFetchedFull, UpFetched
<1>4. CASE \/ UpForeign \/ UpPublishExits \/ on_message_received \/ ReportUp
           \/ UplinkSignal \/ UNCHANGED upAll
  BY <1>4 DEF UpForeign, UpPublishExits, on_message_received, ReportUp,
              UplinkSignal, upAll, uplinkVars, upVars
<1> QED
  BY <1>1, <1>2, <1>3, <1>4 DEF UplinkNext, thread_up

(* thread_up has started afresh whenever it fetches. *)
LEMMA FreshHolds == UplinkSpec => []FreshInv
<1>1. UplinkStart => FreshInv
  BY DEF UplinkStart, UplinkInit, FreshInv
<1> QED
  BY <1>1, FreshStep, PTL DEF UplinkSpec

(* What the operations on sequences do to the packets in them. *)
LEMMA PacketsAppend ==
  ASSUME NEW s \in Seq(Packet), NEW p \in Packet
  PROVE  PacketsOf(Append(s, p)) = PacketsOf(s) \cup {p}
<1>1. /\ Len(Append(s, p)) = Len(s) + 1 /\ Len(s) \in Nat
      /\ \A i \in 1 .. Len(s) : Append(s, p)[i] = s[i]
      /\ Append(s, p)[Len(s) + 1] = p
  BY AppendProperties
<1>2. 1 .. Len(s) + 1 = (1 .. Len(s)) \cup {Len(s) + 1}
  BY <1>1
<1> QED
  BY <1>1, <1>2 DEF PacketsOf

LEMMA PacketsTail ==
  ASSUME NEW s \in Seq(Packet), s # <<>>
  PROVE  PacketsOf(s) = {Head(s)} \cup PacketsOf(Tail(s))
<1>1. /\ Len(Tail(s)) = Len(s) - 1 /\ Len(s) \in Nat /\ Len(s) >= 1 /\ Head(s) = s[1]
      /\ \A i \in 1 .. Len(Tail(s)) : Tail(s)[i] = s[i + 1]
  BY HeadTailProperties, EmptySeq
<1>2. \A i \in 1 .. Len(s) : i = 1 \/ (i - 1 \in 1 .. Len(Tail(s)) /\ (i - 1) + 1 = i)
  BY <1>1
<1>3. \A i \in 1 .. Len(Tail(s)) : i + 1 \in 1 .. Len(s)
  BY <1>1
<1>4. 1 \in 1 .. Len(s)
  BY <1>1
<1>5. \A i \in 1 .. Len(s) : s[i] \in {Head(s)} \cup PacketsOf(Tail(s))
  BY <1>1, <1>2 DEF PacketsOf
<1>6. Head(s) \in PacketsOf(s) /\ PacketsOf(Tail(s)) \subseteq PacketsOf(s)
  BY <1>1, <1>3, <1>4 DEF PacketsOf
<1> QED
  BY <1>5, <1>6 DEF PacketsOf

LEMMA PacketsConcat ==
  ASSUME NEW s \in Seq(Packet), NEW t \in Seq(Packet)
  PROVE  PacketsOf(s \o t) = PacketsOf(s) \cup PacketsOf(t)
<1>1. /\ Len(s \o t) = Len(s) + Len(t) /\ Len(s) \in Nat /\ Len(t) \in Nat
      /\ \A i \in 1 .. Len(s) + Len(t) :
           (s \o t)[i] = IF i <= Len(s) THEN s[i] ELSE t[i - Len(s)]
  BY ConcatProperties
<1>2. \A i \in 1 .. Len(s) + Len(t) :
        (i \in 1 .. Len(s) /\ i <= Len(s)) \/ (i - Len(s) \in 1 .. Len(t) /\ ~(i <= Len(s)))
  BY <1>1
<1>3. \A i \in 1 .. Len(s) : i \in 1 .. Len(s) + Len(t) /\ (s \o t)[i] = s[i]
  BY <1>1
<1>4. \A i \in 1 .. Len(t) : /\ i + Len(s) \in 1 .. Len(s) + Len(t)
                             /\ (s \o t)[i + Len(s)] = t[i]
  <2> SUFFICES ASSUME NEW i \in 1 .. Len(t)
               PROVE  /\ i + Len(s) \in 1 .. Len(s) + Len(t)
                      /\ (s \o t)[i + Len(s)] = t[i]
    OBVIOUS
  <2>1. /\ i + Len(s) \in 1 .. Len(s) + Len(t) /\ ~(i + Len(s) <= Len(s))
        /\ (i + Len(s)) - Len(s) = i
    BY <1>1
  <2> QED
    BY <1>1, <2>1
<1>5. PacketsOf(s \o t) \subseteq PacketsOf(s) \cup PacketsOf(t)
  BY <1>1, <1>2 DEF PacketsOf
<1>6. PacketsOf(s) \subseteq PacketsOf(s \o t)
  BY <1>1, <1>3 DEF PacketsOf
<1>7. PacketsOf(t) \subseteq PacketsOf(s \o t)
  BY <1>1, <1>4 DEF PacketsOf
<1> QED
  BY <1>5, <1>6, <1>7

LEMMA PacketsPrefix ==
  ASSUME NEW s \in Seq(Packet), NEW n \in 1 .. Len(s)
  PROVE  /\ PacketsOf(SubSeq(s, 1, n))
               = {Head(s)} \cup PacketsOf(SubSeq(Tail(s), 1, n - 1))
         /\ PacketsOf(SubSeq(s, 1, n)) \subseteq PacketsOf(s)
<1>0. /\ Len(Tail(s)) = Len(s) - 1 /\ Head(s) = s[1] /\ Tail(s) \in Seq(Packet)
      /\ \A i \in 1 .. Len(Tail(s)) : Tail(s)[i] = s[i + 1]
      /\ Len(s) \in Nat /\ s # <<>>
  BY HeadTailProperties, EmptySeq
<1> DEFINE p == SubSeq(s, 1, n)
           q == SubSeq(Tail(s), 1, n - 1)
<1>1. Len(p) = n /\ \A i \in 1 .. n : p[i] = s[i]
  BY <1>0
<1>2. Len(q) = n - 1 /\ \A i \in 1 .. n - 1 : q[i] = s[i + 1]
  BY <1>0
<1> HIDE DEF p, q
<1>3. \A i \in 1 .. n : i = 1 \/ (i - 1 \in 1 .. n - 1 /\ (i - 1) + 1 = i)
  OBVIOUS
<1>4. \A i \in 1 .. n - 1 : i + 1 \in 1 .. n
  OBVIOUS
<1>5. PacketsOf(p) \subseteq {Head(s)} \cup PacketsOf(q)
  <2> SUFFICES ASSUME NEW i \in 1 .. n PROVE p[i] \in {Head(s)} \cup PacketsOf(q)
    BY <1>1 DEF PacketsOf
  <2>1. CASE i = 1
    BY <1>0, <1>1, <2>1
  <2>2. CASE i - 1 \in 1 .. n - 1 /\ (i - 1) + 1 = i
    <3>1. q[i - 1] = s[i] /\ p[i] = s[i]
      BY <1>1, <1>2, <2>2
    <3> QED
      BY <1>2, <2>2, <3>1 DEF PacketsOf
  <2> QED
    BY <1>3, <2>1, <2>2
<1>6. 1 \in 1 .. n /\ \A i \in 1 .. n : i \in 1 .. Len(s)
  BY <1>0
<1>7. {Head(s)} \cup PacketsOf(q) \subseteq PacketsOf(p)
  BY <1>0, <1>1, <1>2, <1>4, <1>6 DEF PacketsOf
<1>8. PacketsOf(p) \subseteq PacketsOf(s)
  BY <1>1, <1>6 DEF PacketsOf
<1> QED
  BY <1>5, <1>7, <1>8 DEF p, q

LEMMA PacketsNone == /\ PacketsOf(<<>>) = {}
                     /\ \A s \in Seq(Packet) : PacketsOf(SubSeq(s, 1, 0)) = {}
<1>1. PacketsOf(<<>>) = {}
  BY DEF PacketsOf
<1>2. \A s \in Seq(Packet) : SubSeq(s, 1, 0) = <<>>
  OBVIOUS
<1> QED
  BY <1>1, <1>2

(* The packets kept while the process runs. *)
Held == PacketsOf(queue) \cup InHands \cup PacketsOf(sent)

Lost(p) == Overrun \/ Surplus(p) \/ Refused(p) \/ Unsent(p)

(* What a step may do to them, whichever step it is. *)
HeldAccounted ==
  LET new == (received + 1) .. received'
  IN /\ Held' \subseteq Held \cup new
     /\ \A p \in (Held \cup new) \ Held' : Lost(p)

(* The body of LossesKnown. *)
Accounted ==
  LET new == (received + 1) .. received'
  IN /\ Kept' \subseteq Kept \cup new
     /\ \A p \in (Kept \cup new) \ Kept' :
          Overrun \/ Surplus(p) \/ Refused(p) \/ Unsent(p) \/ Ended

(* Every step accounts for the packets it loses, the end of the process    *)
(* apart.                                                                  *)
LEMMA HeldStep ==
  ASSUME UpTyped, FreshInv, [UplinkNext]_upAll
  PROVE  HeldAccounted
<1> USE UplinkAssumption, SharedAssumption
    DEF UpTyped, UplinkTypeOK, LocksInv, UpGoto, pushVars, Lost
<1>n. received' = received => (received + 1) .. received' = {}
  OBVIOUS
<1>1. CASE on_message_received
  <2>1. /\ received' = received + 1 /\ received + 1 \in Packet
        /\ UNCHANGED <<up, rxpkt, dgram, nb_pkt, sent>>
        /\ queue' = Stack!Enqueue(queue, received + 1)
    BY <1>1 DEF on_message_received, Stack!Push, upVars, Packet
  <2>2. (received + 1) .. received' = {received + 1}
    BY <2>1
  <2>3. InHands' = InHands
    BY <2>1 DEF InHands
  <2>4. CASE Len(queue) + 1 = PKT_STACK_SIZE
    <3>1. queue' = <<>> /\ Overrun
      BY <2>1, <2>4 DEF Stack!Enqueue, Overrun
    <3> QED
      BY <2>1, <2>3, <3>1, PacketsNone DEF HeldAccounted, Held
  <2>5. CASE Len(queue) + 1 # PKT_STACK_SIZE
    <3>1. queue' = Append(queue, received + 1)
      BY <2>1, <2>5 DEF Stack!Enqueue
    <3>2. PacketsOf(queue)' = PacketsOf(queue) \cup {received + 1}
      BY <2>1, <3>1, PacketsAppend
    <3> QED
      BY <2>1, <2>2, <2>3, <3>2 DEF HeldAccounted, Held
  <2> QED
    BY <2>4, <2>5
<1>2. CASE lgw_pop
  <2>1. /\ up = "receive" /\ queue # <<>> /\ queue' = Tail(queue)
        /\ rxpkt' = Append(rxpkt, Head(queue)) /\ Head(queue) \in Packet
        /\ UNCHANGED <<up, received, sent>>
    BY <1>2 DEF lgw_pop, Stack!Pop, Stack!Reply
  <2>2. PacketsOf(queue) = {Head(queue)} \cup PacketsOf(queue')
    BY <2>1, PacketsTail
  <2>3. InHands = PacketsOf(rxpkt) /\ InHands' = PacketsOf(rxpkt')
    BY <2>1 DEF InHands
  <2>4. PacketsOf(rxpkt') = PacketsOf(rxpkt) \cup {Head(queue)}
    BY <2>1, PacketsAppend
  <2>5. Held' = Held
    BY <2>1, <2>2, <2>3, <2>4 DEF Held
  <2> QED
    BY <1>n, <2>1, <2>5 DEF HeldAccounted
<1>3. CASE UpFetchedAll \/ UpFetchedFull
  <2>0. queue' = queue
    BY <1>3, QueueStep DEF UpFetchedAll, UpFetchedFull
  <2>a. PICK pops \in Nat :
          /\ UpFetched(pops) /\ Len(rxpkt) \in Nat
          /\ pops = Len(rxpkt) + 1 \/ (pops = Len(rxpkt) /\ pops = NB_PKT_MAX)
    BY <1>3 DEF UpFetchedAll, UpFetchedFull
  <2>b. /\ nb_pkt' = lgw_receive(pops) /\ up = "receive"
        /\ up' = IF nb_pkt' = 0 THEN "top" ELSE "filter"
        /\ UNCHANGED <<received, rxpkt, dgram, sent>>
    BY <2>a DEF UpFetched
  <2>c. /\ nb_pkt' = 0 \/ nb_pkt' = 1
        /\ nb_pkt' = 0 => Len(rxpkt) = 0 \/ NB_PKT_MAX = 1
        /\ nb_pkt' = 1 => Len(rxpkt) >= 1
    BY <2>a, <2>b DEF lgw_receive
  <2>1. /\ up = "receive" /\ UNCHANGED <<queue, received, rxpkt, dgram, sent>>
        /\ dgram = <<>>
        /\ \/ nb_pkt' = 0 /\ up' = "top"
           \/ nb_pkt' = 1 /\ up' = "filter"
        /\ nb_pkt' = 0 => Len(rxpkt) = 0 \/ NB_PKT_MAX = 1
        /\ nb_pkt' = 1 => Len(rxpkt) >= 1
    BY <2>0, <2>b, <2>c DEF FreshInv
  <2>2. InHands = PacketsOf(rxpkt)
    BY <2>1 DEF InHands
  <2>3. CASE nb_pkt' = 0
    <3>1. InHands' = {}
      BY <2>1, <2>3 DEF InHands
    <3>2. \A p \in InHands : Surplus(p)
      <4>1. CASE rxpkt = <<>>
        BY <2>2, <4>1, PacketsNone
      <4>2. CASE NB_PKT_MAX = 1
        BY <2>1, <4>2 DEF Surplus
      <4> QED
        BY <2>1, <2>3, <4>1, <4>2, EmptySeq
    <3> QED
      BY <1>n, <2>1, <3>1, <3>2 DEF HeldAccounted, Held
  <2>4. CASE nb_pkt' = 1
    <3>1. InHands' = PacketsOf(SubSeq(rxpkt, 1, 1))
      BY <2>1, <2>4, PacketsNone DEF InHands
    <3>2. 1 \in 1 .. Len(rxpkt) /\ rxpkt # <<>> /\ Tail(rxpkt) \in Seq(Packet)
      BY <2>1, <2>4
    <3>a. PacketsOf(SubSeq(rxpkt, 1, 1))
            = {Head(rxpkt)} \cup PacketsOf(SubSeq(Tail(rxpkt), 1, 1 - 1))
      BY <3>2, PacketsPrefix
    <3>b. PacketsOf(SubSeq(Tail(rxpkt), 1, 1 - 1)) = {}
      <4>1. 1 - 1 = 0
        OBVIOUS
      <4> QED
        BY <3>2, <4>1, PacketsNone
    <3>3. InHands' = {Head(rxpkt)}
      BY <3>1, <3>a, <3>b
    <3>4. InHands = {Head(rxpkt)} \cup PacketsOf(Tail(rxpkt))
      BY <2>2, <3>2, PacketsTail
    <3>5. \A p \in PacketsOf(Tail(rxpkt)) : Surplus(p)
      BY <2>1 DEF Surplus
    <3> QED
      BY <1>n, <2>1, <3>3, <3>4, <3>5 DEF HeldAccounted, Held
  <2> QED
    BY <2>1, <2>3, <2>4
<1>4. CASE UpFilter
  <2> DEFINE h == Head(rxpkt)
  <2>1. /\ up = "filter" /\ nb_pkt \in 1 .. Len(rxpkt) /\ rxpkt' = Tail(rxpkt)
        /\ nb_pkt' = nb_pkt - 1 /\ rxpkt # <<>> /\ h \in Packet
        /\ UNCHANGED <<queue, up, received, sent>>
        /\ dgram' = IF Forwarded(h) THEN Append(dgram, h) ELSE dgram
    BY <1>4 DEF UpFilter, stackVars
  <2> HIDE DEF h
  <2>2. PacketsOf(SubSeq(rxpkt, 1, nb_pkt))
          = {h} \cup PacketsOf(SubSeq(rxpkt', 1, nb_pkt'))
    BY <2>1, PacketsPrefix DEF h
  <2>3. /\ InHands = PacketsOf(SubSeq(rxpkt, 1, nb_pkt)) \cup PacketsOf(dgram)
        /\ InHands' = PacketsOf(SubSeq(rxpkt', 1, nb_pkt')) \cup PacketsOf(dgram')
    BY <2>1 DEF InHands
  <2>4. CASE Forwarded(h)
    <3>1. PacketsOf(dgram') = PacketsOf(dgram) \cup {h}
      BY <2>1, <2>4, PacketsAppend
    <3>2. Held' = Held
      BY <2>1, <2>2, <2>3, <3>1 DEF Held
    <3> QED
      BY <1>n, <2>1, <3>2 DEF HeldAccounted
  <2>5. CASE ~Forwarded(h)
    <3>1. PacketsOf(dgram') = PacketsOf(dgram) /\ Refused(h)
      BY <2>1, <2>5 DEF Refused
    <3> QED
      BY <1>n, <2>1, <2>2, <2>3, <3>1 DEF HeldAccounted, Held
  <2> QED
    BY <2>4, <2>5
<1>5. CASE UpFiltered
  <2>1. /\ nb_pkt = 0 /\ up = "filter"
        /\ up' = IF dgram = <<>> THEN "top" ELSE "send"
        /\ UNCHANGED <<queue, received, dgram, sent>>
    BY <1>5 DEF UpFiltered, stackVars
  <2>2. InHands = PacketsOf(dgram) /\ InHands' = PacketsOf(dgram)
    BY <2>1, PacketsNone DEF InHands
  <2> QED
    BY <1>n, <2>1, <2>2 DEF HeldAccounted, Held
<1>6. CASE UpSend
  <2>1. /\ up = "send" /\ up' = "count"
        /\ sent' = sent \/ sent' = sent \o dgram
        /\ UNCHANGED <<queue, received, dgram>>
    BY <1>6 DEF UpSend, stackVars
  <2>2. InHands = PacketsOf(dgram) /\ InHands' = {}
    BY <2>1 DEF InHands
  <2>3. PacketsOf(sent \o dgram) = PacketsOf(sent) \cup PacketsOf(dgram)
    BY PacketsConcat
  <2>4. sent' = sent => \A p \in PacketsOf(dgram) : Unsent(p)
    BY <2>1 DEF Unsent
  <2>5. CASE sent' = sent
    BY <1>n, <2>1, <2>2, <2>4, <2>5 DEF HeldAccounted, Held
  <2>6. CASE sent' = sent \o dgram
    <3>1. Held' = Held
      BY <2>1, <2>2, <2>3, <2>6 DEF Held
    <3> QED
      BY <1>n, <2>1, <3>1 DEF HeldAccounted
  <2> QED
    BY <2>1, <2>5, <2>6
<1>7. CASE UpFetch
  <2>1. up = "top" /\ up' = "receive" /\ rxpkt' = <<>> /\ UNCHANGED <<queue, received, sent>>
    BY <1>7 DEF UpFetch, stackVars
  <2>2. InHands = {} /\ InHands' = {}
    BY <2>1, PacketsNone DEF InHands
  <2> QED
    BY <1>n, <2>1, <2>2 DEF HeldAccounted, Held
<1>8. CASE UpStop \/ UpCount \/ UpNoAck \/ UpAck \/ UpNoMoreTries
  <2>1. /\ up \in {"top", "count", "ack"} /\ up' \in {"done", "ack", "top"}
        /\ UNCHANGED <<queue, received, sent>>
    BY <1>8 DEF UpStop, UpCount, UpNoAck, UpAck, UpNoMoreTries, UpRelease, stackVars
  <2>2. InHands = {} /\ InHands' = {}
    BY <2>1 DEF InHands
  <2> QED
    BY <1>n, <2>1, <2>2 DEF HeldAccounted, Held
<1>9. CASE \/ UpForeign \/ UpPublishExits \/ ReportUp \/ UplinkSignal
           \/ UNCHANGED upAll
  <2>1. UNCHANGED <<queue, received, rxpkt, nb_pkt, dgram, sent, up>>
    BY <1>9 DEF UpForeign, UpPublishExits, ReportUp, UplinkSignal, upAll,
                uplinkVars, stackVars, upVars
  <2>2. InHands' = InHands
    BY <2>1 DEF InHands
  <2> QED
    BY <1>n, <2>1, <2>2 DEF HeldAccounted, Held
<1> QED
  BY <1>1, <1>2, <1>3, <1>4, <1>5, <1>6, <1>7, <1>8, <1>9 DEF UplinkNext, thread_up

(* The end of the process loses what it holds; a process that has ended    *)
(* does nothing any more.                                                  *)
LEMMA KeptAccounted ==
  ASSUME received \in Nat, HeldAccounted,
         Alive \/ UNCHANGED <<queue, received, up, rxpkt, nb_pkt, dgram, sent, exited>>
  PROVE  Accounted
<1>1. CASE Alive /\ ~exited'
  <2>1. Kept = Held /\ Kept' = Held'
    BY <1>1 DEF Kept, Held, Alive
  <2>. QED
    BY <2>1 DEF HeldAccounted, Accounted, Lost
<1>2. CASE Alive /\ exited'
  <2>1. Kept = Held /\ Kept' \subseteq Held' /\ Ended
    BY <1>2 DEF Kept, Held, Alive, Ended
  <2>. QED
    BY <2>1 DEF HeldAccounted, Accounted
<1>3. CASE UNCHANGED <<queue, received, up, rxpkt, nb_pkt, dgram, sent, exited>>
  <2>1. Kept' = Kept
    BY <1>3 DEF Kept, InHands
  <2>2. (received + 1) .. received' = {}
    BY <1>3
  <2>. QED
    BY <2>1, <2>2 DEF Accounted
<1>. QED
  BY <1>1, <1>2, <1>3

(* Every step accounts for the packets it loses. *)
LEMMA AccountedStep ==
  ASSUME UpTyped, FreshInv, [UplinkNext]_upAll
  PROVE  Accounted
<1>1. Alive \/ UNCHANGED <<queue, received, up, rxpkt, nb_pkt, dgram, sent, exited>>
  BY DEF UplinkNext, on_message_received, thread_up, ReportUp, UplinkSignal, upAll,
         uplinkVars, stackVars, upVars, pushVars, flags
<1>2. received \in Nat
  BY UplinkAssumption DEF UpTyped, UplinkTypeOK
<1>. QED
  BY <1>1, <1>2, HeldStep, KeptAccounted

(* A packet is lost only to a full stack, a fetch of several, the filter,  *)
(* a failing send or the end of the process, and a lost one never comes    *)
(* back.                                                                   *)
THEOREM LossesAccounted == UplinkSpec => LossesKnown
<1>1. UpTyped /\ FreshInv /\ [UplinkNext]_upAll => [Accounted]_upAll
  BY AccountedStep
<1> QED
  BY <1>1, TypedHolds, FreshHolds, PTL DEF UplinkSpec, LossesKnown, Accounted
==============================================================================
