------------------------- MODULE GatewayStackHistory -------------------------
(***************************************************************************)
(* GatewayStack with two history variables: how many accepted packets have *)
(* not been handed to a pop yet, and whether that number ever reached the  *)
(* size of the ring.  Pushes stop at MaxPending pending packets.           *)
(***************************************************************************)
EXTENDS GatewayStack

CONSTANT MaxPending

VARIABLES pending, overrun

hvars == <<sp_r, rsp_r, stack_r, last, pending, overrun>>

HInit == Init /\ pending = 0 /\ overrun = FALSE

HPush ==
  /\ pending < MaxPending
  /\ \E p \in Packet : push_r(p)
  /\ pending' = IF last'.status = "STACK_OK" THEN pending + 1 ELSE pending
  /\ overrun' = (overrun \/ pending' >= Size)

HPop ==
  /\ pop_r
  /\ pending' = IF last'.status = "STACK_OK" THEN pending - 1 ELSE pending
  /\ UNCHANGED overrun

HNext == HPush \/ HPop

HSpec == HInit /\ [][HNext]_hvars
-----------------------------------------------------------------------------
(* As long as the consumer keeps up (fewer than Size packets pending at    *)
(* all times), every packet push_r accepted is still there to be popped.   *)
NothingLostBeforeOverrun == ~overrun => pending = Backlog

(* gateway_stacks.c:15 "0 = no packets": a pop that is told the ring is    *)
(* empty leaves no accepted packet behind.                                 *)
EmptyMeansNoPackets == last.status = "STACK_EMPTY" => pending = 0
=============================================================================
