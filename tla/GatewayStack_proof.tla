-------------------------- MODULE GatewayStack_proof --------------------------
(***************************************************************************)
(* Proofs about the gateway's packet stack, for every ring size and every  *)
(* set of packets.                                                         *)
(***************************************************************************)
EXTENDS GatewayStackHistory, TLAPS

(* The write and read indexes never leave the ring of slots that           *)
(* initialize_stacks allocates, in any sequence of push_r and pop_r calls. *)
THEOREM TypeCorrect == Spec => []TypeOK
<1> USE StackAssumption DEF Slot
<1>1. Init => TypeOK
  BY DEF Init, TypeOK, Reply
<1>2. TypeOK /\ [Next]_vars => TypeOK'
  <2> SUFFICES ASSUME TypeOK, [Next]_vars PROVE TypeOK'
    OBVIOUS
  <2>1. ASSUME NEW p \in Packet, push_r(p) PROVE TypeOK'
    BY <2>1 DEF push_r, TypeOK, Wrap, Reply
  <2>2. CASE PopOk
    BY <2>2 DEF PopOk, TypeOK, Wrap, Reply
  <2>3. CASE PopEmpty
    BY <2>3 DEF PopEmpty, TypeOK, Reply
  <2>4. CASE UNCHANGED vars
    BY <2>4 DEF vars, TypeOK
  <2>5. QED
    BY <2>1, <2>2, <2>3, <2>4 DEF Next, pop_r
<1>3. QED
  BY <1>1, <1>2, PTL DEF Spec

(* The slot count of a push is at least one, whatever the two indexes.     *)
LEMMA RoomForAPush ==
  TypeOK => /\ Backlog \in 0 .. Size - 1
            /\ get_remaining_slots_push(sp_r, rsp_r, Size) > 0
BY StackAssumption
   DEF TypeOK, Slot, Backlog, get_remaining_slots_push, get_remaining_slots_read

(* push_r never returns STACK_FULL: a full ring is not refused, it reads   *)
(* as an empty one.                                                        *)
THEOREM FullIsDead == Spec => []NeverReportsFull
<1>1. Init => NeverReportsFull
  BY DEF Init, NeverReportsFull, Reply
<1>2. TypeOK /\ NeverReportsFull /\ [Next]_vars => NeverReportsFull'
  <2> SUFFICES ASSUME TypeOK, NeverReportsFull, [Next]_vars
               PROVE  NeverReportsFull'
    OBVIOUS
  <2>1. ASSUME NEW p \in Packet, push_r(p) PROVE NeverReportsFull'
    BY <2>1, RoomForAPush DEF push_r, NeverReportsFull, Reply
  <2>2. CASE pop_r
    BY <2>2 DEF pop_r, PopOk, PopEmpty, NeverReportsFull, Reply
  <2>3. CASE UNCHANGED vars
    BY <2>3 DEF vars, NeverReportsFull
  <2>4. QED
    BY <2>1, <2>2, <2>3 DEF Next
<1>3. QED
  BY <1>1, <1>2, TypeCorrect, PTL DEF Spec
-----------------------------------------------------------------------------
(* The backlog as a sequence of packets. *)
LEMMA ContentsType ==
  TypeOK => /\ Contents \in Seq(Packet)
            /\ Len(Contents) = Backlog
            /\ \A i \in 1 .. Backlog :
                 Contents[i] = stack_r[Fold(rsp_r + i - 1)]
<1> SUFFICES ASSUME TypeOK
             PROVE  /\ Contents \in Seq(Packet)
                    /\ Len(Contents) = Backlog
                    /\ \A i \in 1 .. Backlog :
                         Contents[i] = stack_r[Fold(rsp_r + i - 1)]
  OBVIOUS
<1> USE StackAssumption
<1>1. Backlog \in 0 .. Size - 1
  BY RoomForAPush
<1>2. \A i \in 1 .. Backlog : Fold(rsp_r + i - 1) \in Slot
  BY <1>1 DEF TypeOK, Slot, Fold
<1>3. \A i \in 1 .. Backlog : stack_r[Fold(rsp_r + i - 1)] \in Packet
  BY <1>2 DEF TypeOK
<1>4. QED
  BY <1>1, <1>3 DEF Contents

(* The two lemmas above in the state after a step. *)
BacklogOK == /\ Backlog \in 0 .. Size - 1
             /\ Contents \in Seq(Packet)
             /\ Len(Contents) = Backlog

(* What holds of the backlog in a typed state holds after a step too. *)
LEMMA AfterStep == TypeOK' => BacklogOK'
<1>1. TypeOK => BacklogOK
  BY RoomForAPush, ContentsType DEF BacklogOK
<1>2. QED
  BY <1>1, PTL

(* A push appends to the backlog, or empties it when it is the Size-th.    *)
LEMMA PushStep ==
  ASSUME TypeOK, TypeOK', NEW p \in Packet, push_r(p)
  PROVE  Queue!Push(p)
<1> USE StackAssumption
<1>1. /\ stack_r' = [stack_r EXCEPT ![sp_r] = p]
      /\ sp_r' = Wrap(sp_r + 1)
      /\ rsp_r' = rsp_r
      /\ last' = Reply("push", "STACK_OK", p)
  BY RoomForAPush DEF push_r
<1>2. Backlog \in 0 .. Size - 1 /\ Len(Contents) = Backlog
  BY RoomForAPush, ContentsType
<1>3. CASE Backlog + 1 = Size
  <2>1. Backlog' = 0
    BY <1>1, <1>3 DEF TypeOK, Slot, Backlog, get_remaining_slots_read, Wrap
  <2>2. Contents' = <<>>
    BY <2>1 DEF Contents
  <2>3. QED
    BY <1>1, <1>2, <1>3, <2>2 DEF Queue!Push, Queue!Enqueue, Queue!Reply, Reply
<1>4. CASE Backlog + 1 # Size
  <2>1. Backlog' = Backlog + 1
    BY <1>1, <1>2, <1>4 DEF TypeOK, Slot, Backlog, get_remaining_slots_read, Wrap
  <2>2. Fold(rsp_r + Backlog) = sp_r
    BY <1>2, <1>4 DEF TypeOK, Slot, Backlog, get_remaining_slots_read, Fold
  <2>3. \A i \in 1 .. Backlog : /\ Fold(rsp_r + i - 1) \in Slot
                                /\ Fold(rsp_r + i - 1) # sp_r
    BY <1>2, <1>4 DEF TypeOK, Slot, Backlog, get_remaining_slots_read, Fold
  <2>4. ASSUME NEW i \in 1 .. Backlog PROVE Contents'[i] = Contents[i]
    <3>1. Contents'[i] = stack_r'[Fold(rsp_r + i - 1)]
      BY <1>1, <1>2, <2>1 DEF Contents, Fold
    <3>2. stack_r'[Fold(rsp_r + i - 1)] = stack_r[Fold(rsp_r + i - 1)]
      BY <1>1, <2>3 DEF TypeOK
    <3>3. Contents[i] = stack_r[Fold(rsp_r + i - 1)]
      BY DEF Contents
    <3>4. QED
      BY <3>1, <3>2, <3>3
  <2>5. Contents'[Backlog + 1] = p
    BY <1>1, <1>2, <2>1, <2>2 DEF TypeOK, Contents, Fold, Slot
  <2>6. /\ Contents' \in Seq(Packet) /\ Contents \in Seq(Packet)
        /\ Len(Contents') = Backlog + 1
    BY <2>1, ContentsType, AfterStep DEF BacklogOK
  <2>7. Contents' = Append(Contents, p)
    BY <1>2, <2>4, <2>5, <2>6, SMT
  <2>8. QED
    BY <1>1, <1>2, <1>4, <2>7 DEF Queue!Push, Queue!Enqueue, Queue!Reply, Reply
<1>5. QED
  BY <1>3, <1>4

(* A successful pop returns the oldest packet of the backlog.              *)
LEMMA PopStep ==
  ASSUME TypeOK, TypeOK', PopOk
  PROVE  Queue!Pop
<1> USE StackAssumption
<1>1. /\ rsp_r' = Wrap(rsp_r + 1)
      /\ sp_r' = sp_r
      /\ stack_r' = stack_r
      /\ last' = Reply("pop", "STACK_OK", stack_r[rsp_r])
  BY DEF PopOk
<1>2. Backlog \in 1 .. Size - 1
  BY RoomForAPush DEF PopOk, Backlog
<1>3. /\ Contents \in Seq(Packet) /\ Len(Contents) = Backlog
      /\ Contents' \in Seq(Packet) /\ Len(Contents') = Backlog'
  BY ContentsType, AfterStep DEF BacklogOK
<1>4. Backlog' = Backlog - 1
  BY <1>1, <1>2 DEF TypeOK, Slot, Backlog, get_remaining_slots_read, Wrap
<1>5. Head(Contents) = stack_r[rsp_r]
  BY <1>2, <1>3, ContentsType DEF Fold, TypeOK, Slot
<1>6. \A i \in 1 .. Backlog - 1 : Fold(rsp_r' + i - 1) = Fold(rsp_r + (i + 1) - 1)
  BY <1>1, <1>2 DEF TypeOK, Slot, Fold, Wrap
<1>7. \A i \in 1 .. Backlog - 1 : Contents'[i] = Contents[i + 1]
  <2>1. SUFFICES ASSUME NEW i \in 1 .. Backlog - 1
                 PROVE  Contents'[i] = Contents[i + 1]
    OBVIOUS
  <2>2. Contents'[i] = stack_r[Fold(rsp_r' + i - 1)]
    BY <1>1, <1>2, <1>4 DEF Contents, Fold
  <2>3. i + 1 \in 1 .. Backlog
    BY <1>2
  <2>4. Contents[i + 1] = stack_r[Fold(rsp_r + (i + 1) - 1)]
    BY <2>3 DEF Contents
  <2>5. QED
    BY <1>6, <2>2, <2>4
<1>8. Contents' = Tail(Contents)
  BY <1>2, <1>3, <1>4, <1>7, SMT
<1>9. Contents # <<>>
  BY <1>2, <1>3
<1>10. QED
  BY <1>1, <1>5, <1>8, <1>9 DEF Queue!Pop, Queue!Reply, Reply

(* A pop is refused only when the backlog is empty.                        *)
LEMMA PopEmptyStep ==
  ASSUME TypeOK, TypeOK', PopEmpty
  PROVE  Queue!PopEmpty
<1>1. Backlog = 0 /\ Backlog' = 0
  BY RoomForAPush, AfterStep DEF BacklogOK, PopEmpty, Backlog
<1>2. Contents = <<>> /\ Contents' = <<>>
  BY <1>1 DEF Contents
<1>3. QED
  BY <1>2 DEF PopEmpty, Queue!PopEmpty, Queue!Reply, Reply

(* The ring of gateway_stacks.c implements the queue of PacketQueue: pops  *)
(* return the packets in push order, and the push that makes Size packets  *)
(* pending discards them all.                                              *)
THEOREM RingImplementsQueue == Spec => ImplementsQueue
<1>1. Init => Queue!Init
  <2> SUFFICES ASSUME Init PROVE Queue!Init
    OBVIOUS
  <2>1. Backlog = 0
    BY StackAssumption DEF Init, Backlog, get_remaining_slots_read
  <2>2. Contents = <<>>
    BY <2>1 DEF Contents
  <2>3. QED
    BY <2>2 DEF Init, Queue!Init, Queue!Reply, Reply
<1>2. TypeOK /\ TypeOK' /\ [Next]_vars => [Queue!Next]_(Queue!qvars)
  <2> SUFFICES ASSUME TypeOK, TypeOK', [Next]_vars
               PROVE  [Queue!Next]_(Queue!qvars)
    OBVIOUS
  <2>1. ASSUME NEW p \in Packet, push_r(p) PROVE Queue!Next
    BY <2>1, PushStep DEF Queue!Next
  <2>2. CASE PopOk
    BY <2>2, PopStep DEF Queue!Next
  <2>3. CASE PopEmpty
    BY <2>3, PopEmptyStep DEF Queue!Next
  <2>4. CASE UNCHANGED vars
    BY <2>4 DEF vars, Queue!qvars, Contents, Backlog, Fold
  <2>5. QED
    BY <2>1, <2>2, <2>3, <2>4 DEF Next, pop_r
<1>3. QED
  BY <1>1, <1>2, TypeCorrect, PTL DEF Spec, ImplementsQueue, Queue!Spec
-----------------------------------------------------------------------------
(* The history: until the first overrun the number of packets accepted and *)
(* not popped is the backlog that the two indexes show.                    *)
HistoryInv == pending \in Int /\ overrun \in BOOLEAN /\ NothingLostBeforeOverrun

(* The history variables only watch the ring. *)
LEMMA StepOfRing == ASSUME [HNext]_hvars PROVE [Next]_vars
BY DEF HNext, HPush, HPop, hvars, Next, vars

(* The types of the ring hold with its history. *)
LEMMA HistoryTyped == HSpec => []TypeOK
<1>1. HSpec => Spec
  BY StepOfRing, PTL DEF HSpec, HInit, Spec
<1>2. QED
  BY <1>1, TypeCorrect, PTL

(* A push that is no overrun makes the backlog longer by one, a pop that   *)
(* returns a packet makes it shorter by one, and no other step moves it.   *)
LEMMA HistoryStep ==
  ASSUME TypeOK, HistoryInv, [HNext]_hvars
  PROVE  HistoryInv'
<1> USE StackAssumption DEF HistoryInv, NothingLostBeforeOverrun
<1>0. Backlog \in 0 .. Size - 1
  BY RoomForAPush
<1>1. CASE HPush
  <2>1. PICK p \in Packet : push_r(p)
    BY <1>1 DEF HPush
  <2>2. /\ sp_r' = Wrap(sp_r + 1) /\ rsp_r' = rsp_r
        /\ last'.status = "STACK_OK"
    BY <2>1, RoomForAPush DEF push_r, Reply
  <2>3. pending' = pending + 1 /\ overrun' = (overrun \/ pending + 1 >= Size)
    BY <1>1, <2>2 DEF HPush
  <2>4. ASSUME ~overrun' PROVE pending' = Backlog'
    <3>1. ~overrun /\ ~(pending + 1 >= Size)
      BY <2>3, <2>4
    <3>2. pending = Backlog /\ Backlog + 1 < Size
      BY <1>0, <3>1
    <3>3. Backlog' = Backlog + 1
      BY <2>2, <3>2
         DEF TypeOK, Slot, Backlog, get_remaining_slots_read, Wrap
    <3>4. QED
      BY <2>3, <3>2, <3>3
  <2>5. pending' \in Int /\ overrun' \in BOOLEAN
    BY <2>3
  <2>6. QED
    BY <2>4, <2>5
<1>2. CASE HPop
  <2>1. CASE PopOk
    <3>1. last'.status = "STACK_OK" /\ sp_r' = sp_r /\ rsp_r' = Wrap(rsp_r + 1)
      BY <2>1 DEF PopOk, Reply
    <3>2. pending' = pending - 1 /\ UNCHANGED overrun
      BY <1>2, <3>1 DEF HPop
    <3>3. Backlog > 0
      BY <2>1 DEF PopOk, Backlog
    <3>4. Backlog' = Backlog - 1
      BY <3>1, <3>3 DEF TypeOK, Slot, Backlog, get_remaining_slots_read, Wrap
    <3>5. QED
      BY <1>0, <3>2, <3>4
  <2>2. CASE PopEmpty
    <3>1. last'.status = "STACK_EMPTY" /\ sp_r' = sp_r /\ rsp_r' = rsp_r
      BY <2>2 DEF PopEmpty, Reply
    <3>2. UNCHANGED <<pending, overrun>>
      BY <1>2, <3>1 DEF HPop
    <3>3. QED
      BY <3>1, <3>2 DEF Backlog, get_remaining_slots_read
  <2>3. QED
    BY <1>2, <2>1, <2>2 DEF HPop, pop_r
<1>3. CASE UNCHANGED hvars
  BY <1>3 DEF hvars, Backlog, get_remaining_slots_read
<1>4. QED
  BY <1>1, <1>2, <1>3 DEF HNext

(* As long as fewer than Size packets are pending, every packet that       *)
(* push_r accepted is still there to be popped.                            *)
THEOREM NothingIsLost == HSpec => []NothingLostBeforeOverrun
<1>1. HInit => HistoryInv
  <2> SUFFICES ASSUME HInit PROVE HistoryInv
    OBVIOUS
  <2>1. Backlog = 0
    BY StackAssumption DEF HInit, Init, Backlog, get_remaining_slots_read
  <2>2. pending = 0
    BY DEF HInit
  <2>3. overrun \in BOOLEAN
    BY DEF HInit
  <2>4. pending \in Int
    BY <2>2
  <2>5. pending = Backlog
    BY <2>1, <2>2
  <2>6. QED
    BY <2>3, <2>4, <2>5 DEF HistoryInv, NothingLostBeforeOverrun
<1>2. TypeOK /\ HistoryInv /\ [HNext]_hvars => HistoryInv'
  BY HistoryStep
<1>3. HistoryInv => NothingLostBeforeOverrun
  BY DEF HistoryInv
<1>4. QED
  BY <1>1, <1>2, <1>3, HistoryTyped, PTL DEF HSpec
=============================================================================
