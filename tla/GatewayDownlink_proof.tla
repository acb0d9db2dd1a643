------------------------ MODULE GatewayDownlink_proof ------------------------
(***************************************************************************)
(* Proofs about GatewayDownlink, for every set of tokens, every threshold  *)
(* and keepalive time, and any number of polls and answers.                *)
(***************************************************************************)
EXTENDS GatewayDownlink, TLAPS

(* Each step of thread_down and of a report keeps DownlinkTypeOK. *)
LEMMA DownlinkTypeStep ==
  ASSUME DownlinkTypeOK, [DownlinkNext]_dwAll
  PROVE  DownlinkTypeOK'
<1> USE DownlinkAssumption, SharedAssumption
    DEF DownlinkTypeOK, DownPC, DwCounter
<1>1. CASE DwStop
  BY <1>1 DEF DwStop, DownGoto, measDwVars, dwHistory
<1>2. CASE DwAutoquit
  BY <1>2 DEF DwAutoquit, DownGoto, measDwVars, dwHistory
<1>3. CASE DwPull
  BY <1>3 DEF DwPull, DownGoto, measDwVars
<1>4. CASE DwCountPull
  <2>1. meas_dw' \in [DwCounter -> Nat] /\ UNCHANGED report_dw
    BY <1>4 DEF DwCountPull, DwCount
  <2>2. down' \in {"listen", "top"} /\ pulls' \in 0 .. MaxPulls
    BY <1>4 DEF DwCountPull, DownGoto
  <2>3. autoquit_cnt' \in Nat /\ req_ack' = FALSE
    BY <1>4 DEF DwCountPull
  <2> QED
    BY <1>4, <2>1, <2>2, <2>3 DEF DwCountPull
<1>5. CASE DwKeepalive
  BY <1>5 DEF DwKeepalive, DownGoto, measDwVars, dwHistory
<1>6. CASE DwAck
  BY <1>6 DEF DwAck, DownGoto, DwCount
<1>7. CASE DwStrayAck
  BY <1>7 DEF DwStrayAck, DownGoto, measDwVars
<1>8. CASE DwResp
  BY <1>8 DEF DwResp, DownGoto, DwCount, Lock
<1>9. CASE DwLockConcentrator
  BY <1>9 DEF DwLockConcentrator, DownGoto, measDwVars, dwHistory
<1>10. CASE lgw_send
  BY <1>10 DEF lgw_send, measDwVars, dwHistory
<1>11. CASE DwTxOk \/ DwTxFail
  BY <1>11 DEF DwTxOk, DwTxFail, DwCountTx, DownGoto, Unlock, DwCount, dwHistory
<1>12. CASE ReportDw
  BY <1>12 DEF ReportDw, DwZero, downVars, dwHistory
<1>13. CASE DwPublishExits \/ DownlinkSignal \/ UNCHANGED dwAll
  BY <1>13 DEF DwPublishExits, DownlinkSignal, dwAll, downlinkVars, downVars,
               measDwVars, dwHistory
<1> QED
  BY <1>1, <1>2, <1>3, <1>4, <1>5, <1>6, <1>7, <1>8, <1>9, <1>10, <1>11,
     <1>12, <1>13 DEF DownlinkNext, thread_down

(* The initial state of thread_down is of its types. *)
LEMMA DownlinkTypeInit == DownlinkStart => DownlinkTypeOK
<1> SUFFICES ASSUME DownlinkInit PROVE DownlinkTypeOK
  BY DEF DownlinkStart
<1>1. meas_dw \in [DwCounter -> Nat] /\ report_dw \in [DwCounter -> Nat]
  BY DEF DownlinkInit, DwZero
<1>2. pulls \in 0 .. MaxPulls /\ resps \in 0 .. MaxResps
  BY DownlinkAssumption DEF DownlinkInit
<1> QED
  BY <1>1, <1>2 DEF DownlinkInit, DownlinkTypeOK, DownPC

(* The downstream state is of its types, and its counters are locked while *)
(* a frame is on its way to the end nodes.                                 *)
THEOREM DownlinkTypeCorrect == DownlinkSpec => []DownlinkTypeOK
BY DownlinkTypeInit, DownlinkTypeStep, PTL DEF DownlinkSpec
-----------------------------------------------------------------------------
(* The inductive invariant: the counters balance but for the frame that is *)
(* on its way under mx_meas_dw, and autoquit_cnt is zero from an           *)
(* acknowledgement to the next poll, and then only.                        *)
OnTheWay == IF down \in {"tx", "send", "sent", "failed"} THEN 1 ELSE 0

FrameInv ==
  /\ meas_dw["dgram_rcv"] = meas_dw["tx_ok"] + meas_dw["tx_fail"] + OnTheWay
  /\ EveryFrameAccounted

AckInv ==
  /\ AckedOnce
  /\ req_ack => autoquit_cnt = 0
  /\ down \in {"listen", "tx", "send", "sent", "failed"} /\ ~req_ack
       => autoquit_cnt > 0

DownlinkInv == FrameInv /\ AckInv

(* What is counted for the frames balances at every step: a report cannot  *)
(* come between a PULL_RESP and its frame, since mx_meas_dw is not free.   *)
LEMMA FrameStep ==
  ASSUME DownlinkTypeOK, FrameInv, [DownlinkNext]_dwAll
  PROVE  FrameInv'
<1> USE DownlinkAssumption, SharedAssumption
    DEF DownlinkTypeOK, FrameInv, EveryFrameAccounted, OnTheWay, DwCounter
<1>1. CASE \/ DwStop \/ DwAutoquit \/ DwPull \/ DwKeepalive \/ DwStrayAck
           \/ DwLockConcentrator \/ lgw_send
  BY <1>1 DEF DwStop, DwAutoquit, DwPull, DwKeepalive, DwStrayAck,
              DwLockConcentrator, lgw_send, DownGoto, measDwVars
<1>2. CASE DwCountPull
  BY <1>2 DEF DwCountPull, DownGoto, DwCount
<1>3. CASE DwAck
  BY <1>3 DEF DwAck, DownGoto, DwCount
<1>4. CASE DwResp
  BY <1>4 DEF DwResp, DownGoto, DwCount, Lock
<1>5. CASE DwTxOk \/ DwTxFail
  BY <1>5 DEF DwTxOk, DwTxFail, DwCountTx, DownGoto, DwCount
<1>6. CASE ReportDw
  BY <1>6 DEF ReportDw, DwZero, downVars
<1>7. CASE DwPublishExits \/ DownlinkSignal \/ UNCHANGED dwAll
  BY <1>7 DEF DwPublishExits, DownlinkSignal, dwAll, downlinkVars, downVars,
              measDwVars
<1> QED
  BY <1>1, <1>2, <1>3, <1>4, <1>5, <1>6, <1>7 DEF DownlinkNext, thread_down

(* Each step keeps the relation between polls, acknowledgements and        *)
(* autoquit_cnt: only a first PULL_ACK with the last token counts.         *)
LEMMA AckStep ==
  ASSUME DownlinkTypeOK, AckInv, [DownlinkNext]_dwAll
  PROVE  AckInv'
<1> USE DownlinkAssumption DEF DownlinkTypeOK, AckInv, AckedOnce
<1>1. CASE DwCountPull
  BY <1>1 DEF DwCountPull, DownGoto
<1>2. CASE DwAck
  BY <1>2 DEF DwAck, DownGoto
<1>3. CASE DwResp
  BY <1>3 DEF DwResp, DownGoto
<1>4. CASE \/ DwStop \/ DwAutoquit \/ DwPull \/ DwKeepalive \/ DwStrayAck
           \/ DwLockConcentrator \/ lgw_send \/ DwTxOk \/ DwTxFail
  BY <1>4 DEF DwStop, DwAutoquit, DwPull, DwKeepalive, DwStrayAck,
              DwLockConcentrator, lgw_send, DwTxOk, DwTxFail, DwCountTx,
              DownGoto, dwHistory
<1>5. CASE DwPublishExits \/ ReportDw \/ DownlinkSignal \/ UNCHANGED dwAll
  BY <1>5 DEF DwPublishExits, ReportDw, DownlinkSignal, dwAll, downlinkVars,
              downVars, dwHistory
<1> QED
  BY <1>1, <1>2, <1>3, <1>4, <1>5 DEF DownlinkNext, thread_down

(* All counters balance before the first poll. *)
LEMMA InvInit == DownlinkStart => DownlinkInv
BY DEF DownlinkStart, DownlinkInit, DownlinkInv, FrameInv, EveryFrameAccounted,
       OnTheWay, AckInv, AckedOnce, DwZero, DwCounter

(* The inductive invariant of the downstream thread. *)
THEOREM InvariantHolds == DownlinkSpec => []DownlinkInv
<1>1. DownlinkTypeOK /\ DownlinkInv /\ [DownlinkNext]_dwAll => DownlinkInv'
  BY FrameStep, AckStep DEF DownlinkInv
<1> QED
  BY <1>1, InvInit, DownlinkTypeCorrect, PTL DEF DownlinkSpec

(* In every report each frame taken from the server is sent or failed. *)
THEOREM FramesAccounted == DownlinkSpec => []EveryFrameAccounted
<1>1. DownlinkInv => EveryFrameAccounted
  BY DEF DownlinkInv, FrameInv
<1> QED
  BY <1>1, InvariantHolds, PTL

(* Late and duplicate PULL_ACKs never make more acknowledgements than      *)
(* polls, nor hide a poll from autoquit_cnt.                               *)
THEOREM AcksCountOnce == DownlinkSpec => []AckedOnce
<1>1. DownlinkInv => AckedOnce
  BY DEF DownlinkInv, AckInv
<1> QED
  BY <1>1, InvariantHolds, PTL

(* thread_down quits by itself only with auto-quit on, the last poll not   *)
(* acknowledged, and as many polls unacknowledged as the threshold says.   *)
THEOREM QuitIsEarned == DownlinkSpec => QuitsOnlyUnacked
<1>1. /\ DownlinkTypeOK /\ DownlinkInv
      => [DwAutoquit => /\ AutoquitThreshold > 0 /\ ~req_ack
                        /\ pulls - acks >= AutoquitThreshold]_dwAll
  BY DownlinkAssumption
     DEF DownlinkTypeOK, DownlinkInv, AckInv, AckedOnce, DwAutoquit,
         TooManyUnacked
<1> QED
  BY <1>1, DownlinkTypeCorrect, InvariantHolds, PTL DEF QuitsOnlyUnacked
-----------------------------------------------------------------------------
(* A gateway whose keepalive time is zero or negative polls without ever   *)
(* listening: no PULL_ACK and no PULL_RESP is taken, whatever the server   *)
(* sends, and every poll adds to autoquit_cnt.                             *)
NeverListens ==
  /\ down \in {"top", "pull", "done"}
  /\ acks = 0 /\ resps = 0 /\ autoquit_cnt = pulls

THEOREM NoKeepaliveNoDownlink ==
  ASSUME KeepaliveTime <= 0
  PROVE  DownlinkSpec => []NeverListens
<1> USE DownlinkAssumption DEF NeverListens
<1>1. DownlinkStart => NeverListens
  BY DEF DownlinkStart, DownlinkInit
<1>2. NeverListens /\ [DownlinkNext]_dwAll => NeverListens'
  <2> SUFFICES ASSUME NeverListens, [DownlinkNext]_dwAll PROVE NeverListens'
    OBVIOUS
  <2>1. CASE thread_down
    <3>1. \/ DwStop \/ DwAutoquit \/ DwPull \/ DwCountPull
      BY <2>1 DEF thread_down, DwKeepalive, DwAck, DwStrayAck, DwResp,
                  DwLockConcentrator, lgw_send, DwTxOk, DwTxFail, DwCountTx,
                  DwPublishExits, DownGoto
    <3>2. ~(0 < KeepaliveTime)
      OBVIOUS
    <3>. QED
      BY <3>1, <3>2 DEF DwStop, DwAutoquit, DwPull, DwCountPull, DownGoto, dwHistory
  <2>2. CASE ReportDw \/ DownlinkSignal \/ UNCHANGED dwAll
    BY <2>2 DEF ReportDw, DownlinkSignal, dwAll, downlinkVars, downVars, dwHistory
  <2>. QED
    BY <2>1, <2>2 DEF DownlinkNext
<1>. QED
  BY <1>1, <1>2, PTL DEF DownlinkSpec
=============================================================================
