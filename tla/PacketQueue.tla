---------------------------- MODULE PacketQueue ----------------------------
(***************************************************************************)
(* What the gateway's packet stack promises to its two callers, the MQTT   *)
(* callback that pushes received packets and the upstream thread that pops *)
(* them: a first-in first-out queue of fewer than Size packets.  The stack *)
(* never refuses a packet; the push that would make Size packets pending   *)
(* discards the whole backlog instead, which is what the ring of           *)
(* GatewayStack really implements.                                         *)
(***************************************************************************)
EXTENDS Integers, Sequences

CONSTANTS Packet,    \* the packets (struct lgw_pkt_rx_s)
          NoPacket,  \* the untouched output buffer of a failed pop
          Size       \* PKT_STACK_SIZE

VARIABLES queue,  \* the packets that a pop can still return, oldest first
          last    \* the last completed call, its status and its packet

qvars == <<queue, last>>

(* The reply of a call, as its caller sees it. *)
Reply(call, status, p) == [call |-> call, status |-> status, pkt |-> p]

(* The backlog after one more packet: the Size-th pending packet makes the *)
(* two indexes of the ring meet, and the ring then reads as empty.         *)
Enqueue(q, p) == IF Len(q) + 1 = Size THEN <<>> ELSE Append(q, p)

Init == /\ queue = <<>>
        /\ last = Reply("none", "STACK_OK", NoPacket)

Push(p) == /\ queue' = Enqueue(queue, p)
           /\ last' = Reply("push", "STACK_OK", p)

Pop == /\ queue # <<>>
       /\ last' = Reply("pop", "STACK_OK", Head(queue))
       /\ queue' = Tail(queue)

PopEmpty == /\ queue = <<>>
            /\ last' = Reply("pop", "STACK_EMPTY", NoPacket)
            /\ UNCHANGED queue

Next == (\E p \in Packet : Push(p)) \/ Pop \/ PopEmpty

Spec == Init /\ [][Next]_qvars
=============================================================================
