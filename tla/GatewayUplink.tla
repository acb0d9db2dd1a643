---------------------------- MODULE GatewayUplink ----------------------------
(***************************************************************************)
(* The gateway's way up: the MQTT callback thread pushes the packets of    *)
(* the end nodes on the packet stack, thread_up fetches them, filters them *)
(* by CRC status, sends them to the network server in one PUSH_DATA        *)
(* datagram and waits for its PUSH_ACK; the main thread copies and resets  *)
(* the upstream counters.  The stack is the queue of PacketQueue, which    *)
(* GatewayStack implements.  The server and UDP are external: an answer    *)
(* may come, be late, be lost, or be one of another datagram.              *)
(***************************************************************************)
EXTENDS GatewayShared, Integers, Sequences

CONSTANTS MaxReceived,     \* bound: packets the end nodes send, 1, 2, ...
          Status,          \* the CRC status of each
          FwdStatus,       \* the statuses that fwd_*_pkt let through
          Foreign,         \* packets of a modulation, datarate, bandwidth or
                           \* coderate that thread_up has no text for
          NoPacket,
          PKT_STACK_SIZE,
          NB_PKT_MAX       \* packets fetched at once

Packet == 1 .. MaxReceived

ASSUME UplinkAssumption ==
  /\ MaxReceived \in Nat
  /\ Status \in [Packet -> {"CRC_OK", "CRC_BAD", "NO_CRC", "unknown"}]
  /\ FwdStatus \subseteq {"CRC_OK", "CRC_BAD", "NO_CRC"}
  /\ Foreign \subseteq Packet
  /\ NoPacket \notin Packet
  /\ PKT_STACK_SIZE \in Nat \ {0}
  /\ NB_PKT_MAX \in Nat \ {0}

VARIABLES
  queue, last,  \* the packet stack and its last reply
  received,     \* how many packets the callback pushed
  up,           \* where thread_up is
  rxpkt,        \* the packets it fetched and has not looked at
  nb_pkt,       \* how many of them it will look at
  dgram,        \* the packets in the datagram it composes
  tries,        \* recv calls left for the acknowledgement
  mx_meas_up,   \* owner of the counters' mutex
  meas_up,      \* the upstream counters
  report_up,    \* the copy that the last report was made of
  token_up,     \* token_h, token_l: of the last PUSH_DATA
  sent,         \* history: the packets of all datagrams, in order
  pushed,       \* history: the tokens of those that reached the server
  reused,       \* history: how many had the token of one of these
  acked         \* history: PUSH_ACKs counted

Stack == INSTANCE PacketQueue WITH Size <- PKT_STACK_SIZE

stackVars == <<queue, last, received>>
pushVars  == <<token_up, sent, pushed, reused, acked>>
upVars    == <<up, rxpkt, nb_pkt, dgram, tries, pushVars>>
measVars  == <<mx_meas_up, meas_up, report_up>>
uplinkVars == <<stackVars, upVars, measVars>>

UpPC == {"top", "receive", "filter", "send", "count", "ack", "done"}

Counter == {"rx_rcv", "rx_ok", "rx_bad", "rx_nocrc", "pkt_fwd", "dgram_sent",
            "ack_rcv"}

Zero == [c \in Counter |-> 0]

(* The counters after one more of each of cs. *)
Count(cs) == [c \in Counter |-> meas_up[c] + IF c \in cs THEN 1 ELSE 0]

Forwarded(p) == Status[p] \in FwdStatus

StatusCounter(p) ==
  CASE Status[p] = "CRC_OK"  -> {"rx_ok"}
    [] Status[p] = "CRC_BAD" -> {"rx_bad"}
    [] Status[p] = "NO_CRC"  -> {"rx_nocrc"}
    [] OTHER                 -> {}

Counted(p) == Count({"rx_rcv"} \cup StatusCounter(p)
                      \cup IF Forwarded(p) THEN {"pkt_fwd"} ELSE {})

UplinkInit ==
  /\ Stack!Init /\ received = 0
  /\ up = "top" /\ rxpkt = <<>> /\ nb_pkt = 0 /\ dgram = <<>> /\ tries = 0
  /\ token_up = NoToken /\ sent = <<>> /\ pushed = <<>> /\ reused = 0
  /\ acked = 0
  /\ mx_meas_up = Nobody /\ meas_up = Zero /\ report_up = Zero
-----------------------------------------------------------------------------
(* The MQTT callback thread: a join request or an uplink is pushed, and    *)
(* what push_r returns is not looked at.                                   *)
on_message_received ==
  /\ Alive
  /\ received < MaxReceived
  /\ received' = received + 1
  /\ Stack!Push(received + 1)
  /\ UNCHANGED <<upVars, measVars, flags, mx_concent>>
-----------------------------------------------------------------------------
(* thread_up *)

UpGoto(from, to) == up = from /\ up' = to

UpStop ==
  /\ Stopping
  /\ UpGoto("top", "done")
  /\ UNCHANGED <<stackVars, rxpkt, nb_pkt, dgram, tries, pushVars, measVars,
                 flags, mx_concent>>

(* Mutant: the datagram is not started afresh. *)
Mutant_UpFetch ==
  /\ ~Stopping
  /\ UpGoto("top", "receive")
  /\ Lock(mx_concent, mx_concent', "up")
  /\ rxpkt' = <<>>
  /\ UNCHANGED <<stackVars, nb_pkt, dgram, tries, pushVars, measVars, flags>>

(* lgw_receive runs under mx_concent; the stack has a mutex of its own, so *)
(* packets may be pushed between two of its pops.                          *)
UpFetch ==
  /\ ~Stopping
  /\ UpGoto("top", "receive")
  /\ Lock(mx_concent, mx_concent', "up")
  /\ rxpkt' = <<>> /\ dgram' = <<>>
  /\ UNCHANGED <<stackVars, nb_pkt, tries, pushVars, measVars, flags>>

lgw_pop ==
  /\ up = "receive"
  /\ Len(rxpkt) < NB_PKT_MAX
  /\ Stack!Pop
  /\ rxpkt' = Append(rxpkt, last'.pkt)
  /\ UNCHANGED <<received, up, nb_pkt, dgram, tries, pushVars, measVars, flags,
                 mx_concent>>

(* Mutant: without i--. *)
Mutant_lgw_receive(pops) == IF pops = 0 THEN 0 ELSE 1

(* i, the number of pop_r calls, less one: a fetch that filled the buffer  *)
(* made no failing call.  The result is 0 or 1, however many were popped.  *)
lgw_receive(pops) == IF pops - 1 = 0 THEN 0 ELSE 1

(* Mutant: mx_concent is not unlocked. *)
Mutant_UpFetched(pops) ==
  /\ nb_pkt' = lgw_receive(pops)
  /\ UpGoto("receive", IF nb_pkt' = 0 THEN "top" ELSE "filter")
  /\ UNCHANGED <<received, rxpkt, dgram, tries, pushVars, measVars, flags,
                 mx_concent>>

UpFetched(pops) ==
  /\ nb_pkt' = lgw_receive(pops)
  /\ UpGoto("receive", IF nb_pkt' = 0 THEN "top" ELSE "filter")
  /\ Unlock(mx_concent, mx_concent', "up")
  /\ UNCHANGED <<received, rxpkt, dgram, tries, pushVars, measVars, flags>>

UpFetchedAll ==
  /\ Len(rxpkt) < NB_PKT_MAX
  /\ Stack!PopEmpty
  /\ UpFetched(Len(rxpkt) + 1)

UpFetchedFull ==
  /\ Len(rxpkt) = NB_PKT_MAX
  /\ UNCHANGED <<queue, last>>
  /\ UpFetched(Len(rxpkt))

(* One turn of the loop over rxpkt: counted, then skipped or serialized.   *)
UpFilter ==
  /\ up = "filter" /\ nb_pkt > 0
  /\ mx_meas_up = Nobody
  /\ LET p == Head(rxpkt)
     IN /\ Forwarded(p) => p \notin Foreign
        /\ meas_up' = Counted(p)
        /\ dgram' = IF Forwarded(p) THEN Append(dgram, p) ELSE dgram
  /\ rxpkt' = Tail(rxpkt)
  /\ nb_pkt' = nb_pkt - 1
  /\ UNCHANGED <<stackVars, up, tries, pushVars, mx_meas_up, report_up, flags,
                 mx_concent>>

(* A packet that is let through and cannot be serialized ends the process. *)
UpForeign ==
  /\ up = "filter" /\ nb_pkt > 0
  /\ mx_meas_up = Nobody
  /\ Forwarded(Head(rxpkt)) /\ Head(rxpkt) \in Foreign
  /\ meas_up' = Counted(Head(rxpkt))
  /\ Exit
  /\ UNCHANGED <<stackVars, upVars, mx_meas_up, report_up, mx_concent>>

(* thread_up publishes measures before it looks at a packet and after it   *)
(* sent a datagram: a publish without a client that cannot connect one     *)
(* ends the process.                                                       *)
UpPublishExits ==
  /\ (up = "filter" /\ nb_pkt > 0) \/ up = "count"
  /\ Exit
  /\ UNCHANGED <<uplinkVars, mx_concent>>

(* Mutant: a thread that is told to quit leaves its datagram unsent. *)
Mutant_UpFiltered ==
  /\ nb_pkt = 0
  /\ UpGoto("filter", IF dgram = <<>> \/ Stopping THEN "top" ELSE "send")
  /\ UNCHANGED <<stackVars, rxpkt, nb_pkt, dgram, tries, pushVars, measVars,
                 flags, mx_concent>>

UpFiltered ==
  /\ nb_pkt = 0
  /\ UpGoto("filter", IF dgram = <<>> THEN "top" ELSE "send")
  /\ UNCHANGED <<stackVars, rxpkt, nb_pkt, dgram, tries, pushVars, measVars,
                 flags, mx_concent>>

(* The tokens whose PUSH_ACK may come, late or again. *)
Answered == {pushed[i] : i \in 1 .. Len(pushed)}

(* The datagram has a random token.  Whether send succeeds makes no        *)
(* difference to what follows; what it accepts may be lost on the way.     *)
UpSend ==
  /\ UpGoto("send", "count")
  /\ token_up' \in Token
  /\ \/ UNCHANGED <<sent, pushed>>
     \/ /\ sent' = sent \o dgram
        /\ pushed' \in {pushed, Append(pushed, token_up')}
  /\ reused' = reused + IF token_up' \in Answered THEN 1 ELSE 0
  /\ UNCHANGED <<stackVars, rxpkt, nb_pkt, dgram, tries, acked, measVars,
                 flags, mx_concent>>

UpCount ==
  /\ UpGoto("count", "ack")
  /\ Lock(mx_meas_up, mx_meas_up', "up")
  /\ meas_up' = Count({"dgram_sent"})
  /\ tries' = 2
  /\ UNCHANGED <<stackVars, rxpkt, nb_pkt, dgram, pushVars, report_up, flags,
                 mx_concent>>

(* Mutant: no break after a PUSH_ACK. *)
Mutant_UpNoAck ==
  /\ up = "ack" /\ tries > 0
  /\ tries' = tries - 1
  /\ meas_up' \in {meas_up, Count({"ack_rcv"})}
  /\ UNCHANGED <<stackVars, up, rxpkt, nb_pkt, dgram, pushVars, mx_meas_up,
                 report_up, flags, mx_concent>>

(* A timeout, an invalid packet or an out-of-sync token: try once more. *)
UpNoAck ==
  /\ up = "ack" /\ tries > 0
  /\ tries' = tries - 1
  /\ UNCHANGED <<stackVars, up, rxpkt, nb_pkt, dgram, pushVars, measVars,
                 flags, mx_concent>>

UpRelease(to) ==
  /\ UpGoto("ack", to)
  /\ Unlock(mx_meas_up, mx_meas_up', "up")
  /\ tries' = 0
  /\ UNCHANGED <<stackVars, rxpkt, nb_pkt, dgram, token_up, sent, pushed,
                 reused, report_up, flags, mx_concent>>

(* Mutant: the token of a PUSH_ACK is not compared. *)
Mutant_UpAck ==
  /\ tries > 0
  /\ Answered # {}
  /\ meas_up' = Count({"ack_rcv"})
  /\ acked' = acked + 1
  /\ UpRelease("top")

(* A PUSH_ACK with the last token: of this datagram, or of an earlier one  *)
(* that had the same.                                                      *)
UpAck ==
  /\ tries > 0
  /\ token_up \in Answered
  /\ meas_up' = Count({"ack_rcv"})
  /\ acked' = acked + 1
  /\ UpRelease("top")

(* Mutant: goes back to the top without unlocking. *)
Mutant_UpNoMoreTries ==
  /\ UpGoto("ack", "top")
  /\ tries' = 0
  /\ UNCHANGED <<stackVars, rxpkt, nb_pkt, dgram, pushVars, measVars, flags,
                 mx_concent>>

(* Out of tries, or a connection error on the socket. *)
UpNoMoreTries ==
  /\ UNCHANGED <<meas_up, acked>>
  /\ UpRelease("top")

thread_up ==
  /\ Alive
  /\ \/ UpStop \/ UpFetch \/ lgw_pop \/ UpFetchedAll \/ UpFetchedFull
     \/ UpFilter \/ UpForeign \/ UpPublishExits \/ UpFiltered \/ UpSend
     \/ UpCount \/ UpNoAck \/ UpAck \/ UpNoMoreTries
-----------------------------------------------------------------------------
(* The main thread's upstream half of a report. *)
ReportUp ==
  /\ Alive
  /\ mx_meas_up = Nobody
  /\ report_up' = meas_up
  /\ meas_up' = Zero
  /\ UNCHANGED <<stackVars, upVars, mx_meas_up, flags, mx_concent>>

UplinkSignal == Alive /\ sig_handler /\ UNCHANGED <<uplinkVars, mx_concent>>

UplinkStart == SharedInit /\ UplinkInit

UplinkNext == on_message_received \/ thread_up \/ ReportUp \/ UplinkSignal

upAll == <<uplinkVars, flags, mx_concent>>

(* thread_up is scheduled, its recv calls time out, and its mutexes are    *)
(* granted; packets, reports and signals come or not.                      *)
UplinkSpec == UplinkStart /\ [][UplinkNext]_upAll /\ WF_upAll(thread_up)
-----------------------------------------------------------------------------
UplinkTypeOK ==
  /\ queue \in Seq(Packet) /\ Len(queue) < PKT_STACK_SIZE
  /\ received \in 0 .. MaxReceived
  /\ up \in UpPC /\ rxpkt \in Seq(Packet) /\ Len(rxpkt) <= NB_PKT_MAX
  /\ nb_pkt \in 0 .. NB_PKT_MAX /\ nb_pkt <= Len(rxpkt)
  /\ dgram \in Seq(Packet) /\ tries \in 0 .. 2 /\ sent \in Seq(Packet)
  /\ token_up \in Token \cup {NoToken} /\ pushed \in Seq(Token)
  /\ reused \in Nat /\ acked \in Nat
  /\ mx_meas_up \in {Nobody, "up"}
  /\ meas_up \in [Counter -> Nat] /\ report_up \in [Counter -> Nat]

(* Datagrams carry packets in the order they were received and none twice, *)
(* through overruns of the stack, partial fetches and failed sends.        *)
SentInOrder ==
  \A i, j \in 1 .. Len(sent) : i < j => sent[i] < sent[j]

(* No report shows more acknowledgements than datagrams, nor statuses that *)
(* do not add up, wherever in thread_up's cycle the counters were reset.   *)
ConsistentUp(m) ==
  /\ m["ack_rcv"] <= m["dgram_sent"]
  /\ m["rx_ok"] + m["rx_bad"] + m["rx_nocrc"] <= m["rx_rcv"]
  /\ m["pkt_fwd"] <= m["rx_rcv"]

ReportsAddUp == ConsistentUp(report_up) /\ ConsistentUp(meas_up)

(* Late, duplicate and same-token PUSH_ACKs never make the gateway count    *)
(* more acknowledgements than datagrams reached the server, but for those  *)
(* that were sent with the token of one that did.                          *)
AckedWereSent == acked <= Len(pushed) + reused

(* The packets not lost: on the stack, in thread_up's hands or sent. *)
PacketsOf(s) == {s[i] : i \in 1 .. Len(s)}

InHands ==
  IF up = "receive" THEN PacketsOf(rxpkt)
  ELSE IF up = "filter" THEN PacketsOf(SubSeq(rxpkt, 1, nb_pkt)) \cup PacketsOf(dgram)
  ELSE IF up = "send" THEN PacketsOf(dgram)
  ELSE {}

Kept == PacketsOf(sent)
          \cup IF exited THEN {} ELSE PacketsOf(queue) \cup InHands

(* The ways to lose p: a full stack, a fetch after the first packet (or    *)
(* into a buffer of one), the filter, a failing send, the end of the       *)
(* process.                                                                *)
Overrun    == received' # received /\ Len(queue) + 1 = PKT_STACK_SIZE
Surplus(p) == up = "receive" /\ (p \in PacketsOf(Tail(rxpkt)) \/ NB_PKT_MAX = 1)
Refused(p) == up = "filter" /\ ~Forwarded(p)
Unsent(p)  == up = "send" /\ p \in PacketsOf(dgram) /\ sent' = sent
Ended      == Alive /\ exited'

(* No packet is lost in any other way, whatever quits, reports, pushes and *)
(* acknowledgements come in between; and none that was lost is sent after  *)
(* all.                                                                    *)
LossesKnown ==
  [][LET new == (received + 1) .. received'
     IN /\ Kept' \subseteq Kept \cup new
        /\ \A p \in (Kept \cup new) \ Kept' :
             Overrun \/ Surplus(p) \/ Refused(p) \/ Unsent(p) \/ Ended]_upAll

(* A backlog is drained and the thread comes round to its quit test: no    *)
(* path of the cycle leaves a mutex locked or waits for ever.              *)
BacklogDrains == (queue # <<>>) ~> (queue = <<>> \/ up = "done" \/ exited)

(* basic_pkt_fwd.h:93 "packets with PAYLOAD CRC OK are forwarded": when    *)
(* thread_up is back at the top, nothing it fetched was left out.          *)
FetchedIsForwarded ==
  [][up = "filter" /\ up' \in {"top", "send"} =>
       \A i \in 1 .. Len(rxpkt) : Status[rxpkt[i]] # "CRC_OK"]_upAll
=============================================================================
