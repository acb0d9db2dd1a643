---------------------------- MODULE GatewayStack ----------------------------
(***************************************************************************)
(* The gateway's packet stack (gateway_stacks.c): a ring of Size slots     *)
(* with a write index sp_r and a read index rsp_r, shared by the MQTT      *)
(* callback thread (push_r) and the upstream thread (pop_r).  Each call    *)
(* runs whole under mtx_r, so each call is one action.                     *)
(***************************************************************************)
EXTENDS Integers, Sequences

CONSTANTS Packet, NoPacket, Size

ASSUME StackAssumption ==
  /\ Size \in Nat \ {0}
  /\ NoPacket \notin Packet

VARIABLES sp_r,     \* index of the slot the next push writes
          rsp_r,    \* index of the slot the next pop reads
          stack_r,  \* the slots
          last      \* the last completed call, its status and its packet

vars == <<sp_r, rsp_r, stack_r, last>>

Slot == 0 .. Size - 1

Reply(call, status, p) == [call |-> call, status |-> status, pkt |-> p]

(* Mutant: one slot too few after the write index wrapped. *)
Mutant_slots_read(sp, rsp, size) ==
  LET remaining_slots == sp - rsp
  IN IF remaining_slots < 0 THEN size - 1 + remaining_slots ELSE remaining_slots

get_remaining_slots_read(sp, rsp, size) ==
  LET remaining_slots == sp - rsp
  IN IF remaining_slots < 0 THEN size + remaining_slots ELSE remaining_slots

get_remaining_slots_push(sp, rsp, size) ==
  size - get_remaining_slots_read(sp, rsp, size)

(* Mutant: the wrap test one slot late. *)
Mutant_Wrap(i) == IF i = Size + 1 THEN 0 ELSE i

(* An index after its increment: back to slot 0 past the last slot. *)
Wrap(i) == IF i = Size THEN 0 ELSE i

(* malloc leaves the slots with any content. *)
Init == /\ sp_r = 0
        /\ rsp_r = 0
        /\ stack_r \in [Slot -> Packet]
        /\ last = Reply("none", "STACK_OK", NoPacket)

push_r(p) ==
  LET room == get_remaining_slots_push(sp_r, rsp_r, Size) > 0
  IN /\ stack_r' = IF room THEN [stack_r EXCEPT ![sp_r] = p] ELSE stack_r
     /\ sp_r' = IF room THEN Wrap(sp_r + 1) ELSE sp_r
     /\ last' = Reply("push", IF room THEN "STACK_OK" ELSE "STACK_FULL", p)
     /\ UNCHANGED rsp_r

(* Mutant: the read index incremented before the copy. *)
Mutant_PopOk ==
  /\ get_remaining_slots_read(sp_r, rsp_r, Size) > 0
  /\ last' = Reply("pop", "STACK_OK", stack_r[Wrap(rsp_r + 1)])
  /\ rsp_r' = Wrap(rsp_r + 1)
  /\ UNCHANGED <<sp_r, stack_r>>

PopOk ==
  /\ get_remaining_slots_read(sp_r, rsp_r, Size) > 0
  /\ last' = Reply("pop", "STACK_OK", stack_r[rsp_r])
  /\ rsp_r' = Wrap(rsp_r + 1)
  /\ UNCHANGED <<sp_r, stack_r>>

PopEmpty ==
  /\ ~(get_remaining_slots_read(sp_r, rsp_r, Size) > 0)
  /\ last' = Reply("pop", "STACK_EMPTY", NoPacket)
  /\ UNCHANGED <<sp_r, rsp_r, stack_r>>

pop_r == PopOk \/ PopEmpty

Next == (\E p \in Packet : push_r(p)) \/ pop_r

Spec == Init /\ [][Next]_vars
-----------------------------------------------------------------------------
(* The indexes stay inside the ring that malloc sized (no slot outside     *)
(* stack_r is ever read or written) and every slot holds a packet.         *)
TypeOK ==
  /\ sp_r \in Slot
  /\ rsp_r \in Slot
  /\ stack_r \in [Slot -> Packet]
  /\ last \in [call : {"none", "push", "pop"},
               status : {"STACK_OK", "STACK_EMPTY", "STACK_FULL"},
               pkt : Packet \cup {NoPacket}]

(* push_r's STACK_FULL branch is dead: the slot count of a push is never   *)
(* below one, so no caller is ever told that the ring is full.             *)
NeverReportsFull == last.status # "STACK_FULL"

(* The packets between the two indexes, oldest first. *)
Backlog == get_remaining_slots_read(sp_r, rsp_r, Size)

Fold(i) == IF i >= Size THEN i - Size ELSE i

Contents == [i \in 1 .. Backlog |-> stack_r[Fold(rsp_r + i - 1)]]

Queue == INSTANCE PacketQueue WITH queue <- Contents

(* The ring implements the queue of PacketQueue: pops return the packets   *)
(* in push order, and the push of a Size-th pending packet empties it.     *)
ImplementsQueue == Queue!Spec
=============================================================================
