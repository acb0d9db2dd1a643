----------------------------- MODULE Gateway_proof -----------------------------
(***************************************************************************)
(* Proofs about the whole packet forwarder.  The invariants of thread_up   *)
(* and thread_down speak of variables that no other thread writes but      *)
(* through the steps proved about already; what is new is the mutex of the *)
(* concentrator, which both take, and the way out: a cancelled thread_down *)
(* leaves its frame uncounted and its mutexes locked.                      *)
(***************************************************************************)
EXTENDS Gateway, GatewayUplink_proof, GatewayDownlink_proof

(* The main thread is past the join of thread_up. *)
Leaving == {"cancel", "stop"}

(* Who holds the mutex of the concentrator.  Not the other way round for   *)
(* thread_down, which may be cancelled with the mutex locked.              *)
ConcentInv ==
  /\ mx_concent \in {Nobody, "up", "down"}
  /\ up = "receive" <=> mx_concent = "up"
  /\ down = "send" => mx_concent = "down"

(* thread_down leaves no mutex locked behind it, but by being cancelled.   *)
OwnerInv ==
  /\ mx_concent = "down" => down \in {"send", "cancelled"}
  /\ mx_meas_dw = "down" => down \in {"tx", "send", "sent", "failed",
                                     "cancelled"}

ExitInv ==
  /\ gw_main \in Leaving => up = "done"
  /\ cancelling => gw_main = "stop"
  /\ down = "cancelled" => cancelling

(* The counters balance until a cancellation, and every report does. *)
BalanceInv ==
  /\ EveryFrameAccounted
  /\ down # "cancelled" => FrameInv

MainTypeOK ==
  /\ exit_sig \in BOOLEAN /\ quit_sig \in BOOLEAN /\ exited \in BOOLEAN
  /\ gw_main \in MainPC /\ reports \in 0 .. MaxReports
  /\ listening \in BOOLEAN /\ cancelling \in BOOLEAN

GatewayInv ==
  /\ UpTyped /\ DownlinkTypeOK /\ MainTypeOK
  /\ ConcentInv /\ OwnerInv /\ ExitInv
  /\ CounterInv /\ BalanceInv /\ AckInv /\ OrderInv /\ FreshInv /\ PushInv
--------------------------------------------------------------------------------
(* Seen from thread_up's side, every step is one of the upstream system or *)
(* leaves all of its variables alone.                                      *)
LEMMA UplinkSide ==
  ASSUME [Next]_vars
  PROVE  [UplinkNext]_upAll \/ UNCHANGED uplinkVars
<1>1. CASE main_thread
  BY <1>1 DEF main_thread, MainWait, MainReportUp, MainReportDw, MainLeave,
              MainJoin, MainCancel, MainExit, UplinkNext
<1>2. CASE UpStep \/ DownStep \/ DownCancelled \/ Received \/ Signal
  BY <1>2 DEF UpStep, DownStep, DownCancelled, Received, Signal, UplinkNext
<1>3. CASE UNCHANGED vars
  BY <1>3 DEF vars
<1>. QED
  BY <1>1, <1>2, <1>3 DEF Next

(* Seen from thread_down's side likewise, but for the cancellation. *)
LEMMA DownlinkSide ==
  ASSUME [Next]_vars
  PROVE  [DownlinkNext]_dwAll \/ UNCHANGED downlinkVars \/ DownCancelled
<1>1. CASE main_thread
  BY <1>1 DEF main_thread, MainWait, MainReportUp, MainReportDw, MainLeave,
              MainJoin, MainCancel, MainExit, DownlinkNext
<1>2. CASE UpStep \/ DownStep \/ Received \/ Signal
  BY <1>2 DEF UpStep, DownStep, Received, Signal, DownlinkNext
<1>3. CASE UNCHANGED vars
  BY <1>3 DEF vars
<1>. QED
  BY <1>1, <1>2, <1>3 DEF Next

(* What was proved of thread_up and its counters carries over. *)
LEMMA UplinkCarriesOver ==
  ASSUME UpTyped, CounterInv, OrderInv, FreshInv, PushInv, [Next]_vars
  PROVE  UpTyped' /\ CounterInv' /\ OrderInv' /\ FreshInv' /\ PushInv'
<1>1. CASE [UplinkNext]_upAll
  BY <1>1, UplinkTypeStep, CounterStep, OrderStep, FreshStep, PushStep
<1>2. CASE UNCHANGED uplinkVars
  <2>1. /\ UNCHANGED <<queue, received, up, rxpkt, nb_pkt, dgram, tries, sent>>
        /\ UNCHANGED <<mx_meas_up, meas_up, report_up>>
        /\ UNCHANGED <<token_up, pushed, reused, acked>>
    BY <1>2 DEF uplinkVars, stackVars, upVars, measVars, pushVars
  <2>2. UpTyped'
    BY <2>1 DEF UpTyped, UplinkTypeOK, LocksInv
  <2>3. CounterInv'
    BY <2>1 DEF CounterInv, ReportsAddUp, ConsistentUp
  <2>4. OrderInv'
    BY <2>1 DEF OrderInv
  <2>5. FreshInv'
    BY <2>1 DEF FreshInv
  <2>6. PushInv'
    BY <2>1 DEF PushInv, AckedWereSent, Answered
  <2>. QED
    BY <2>2, <2>3, <2>4, <2>5, <2>6
<1>. QED
  BY <1>1, <1>2, UplinkSide

(* What was proved of thread_down carries over until it is cancelled; from *)
(* then on nobody reports its counters.                                    *)
LEMMA DownlinkCarriesOver ==
  ASSUME DownlinkTypeOK, AckInv, BalanceInv, ExitInv, [Next]_vars
  PROVE  DownlinkTypeOK' /\ AckInv' /\ BalanceInv'
<1>1. CASE [DownlinkNext]_dwAll
  <2>1. DownlinkTypeOK' /\ AckInv'
    BY <1>1, DownlinkTypeStep, AckStep
  <2>2. CASE down # "cancelled"
    <3>1. FrameInv'
      BY <1>1, <2>2, FrameStep DEF BalanceInv
    <3>. QED
      BY <2>1, <3>1 DEF BalanceInv, FrameInv
  <2>3. CASE down = "cancelled"
    <3>1. UNCHANGED <<down, report_dw>>
      <4>1. gw_main = "stop"
        BY <2>3 DEF ExitInv
      <4>2. ~MainReportDw
        BY <4>1 DEF MainReportDw, MainGoto
      <4>3. ~thread_down
        BY <2>3 DEF thread_down, DwStop, DwAutoquit, DwPull, DwCountPull,
                    DwKeepalive, DwAck, DwStrayAck, DwResp, DwLockConcentrator,
                    lgw_send, DwTxOk, DwTxFail, DwCountTx, DwPublishExits,
                    DownGoto
      <4>4. ~DownCancelled
        BY <2>3 DEF DownCancelled
      <4>5. UNCHANGED downlinkVars
        BY <4>2, <4>3, <4>4
           DEF Next, main_thread, MainWait, MainReportUp, MainLeave, MainJoin,
               MainCancel, MainExit, UpStep, DownStep, Received, Signal, vars
      <4>. QED
        BY <4>5 DEF downlinkVars, downVars, measDwVars
    <3>. QED
      BY <2>1, <2>3, <3>1 DEF BalanceInv, EveryFrameAccounted
  <2>. QED
    BY <2>2, <2>3
<1>2. CASE UNCHANGED downlinkVars
  <2>1. /\ UNCHANGED <<down, token, req_ack, autoquit_cnt>>
        /\ UNCHANGED <<mx_meas_dw, meas_dw, report_dw>>
        /\ UNCHANGED <<polled, pulls, acks, resps>>
    BY <1>2 DEF downlinkVars, downVars, measDwVars, dwHistory
  <2>2. DownlinkTypeOK'
    BY <2>1 DEF DownlinkTypeOK
  <2>3. AckInv'
    BY <2>1 DEF AckInv, AckedOnce
  <2>4. BalanceInv'
    BY <2>1 DEF BalanceInv, FrameInv, EveryFrameAccounted, OnTheWay
  <2>. QED
    BY <2>2, <2>3, <2>4
<1>3. CASE DownCancelled
  <2>1. /\ down' = "cancelled"
        /\ UNCHANGED <<token, req_ack, autoquit_cnt>>
        /\ UNCHANGED <<mx_meas_dw, meas_dw, report_dw>>
        /\ UNCHANGED <<polled, pulls, acks, resps>>
    BY <1>3 DEF DownCancelled, measDwVars, dwHistory
  <2>2. DownlinkTypeOK'
    BY <2>1 DEF DownlinkTypeOK, DownPC
  <2>3. AckInv'
    BY <2>1 DEF AckInv, AckedOnce
  <2>4. BalanceInv'
    BY <2>1 DEF BalanceInv, EveryFrameAccounted
  <2>. QED
    BY <2>2, <2>3, <2>4
<1>. QED
  BY <1>1, <1>2, <1>3, DownlinkSide
--------------------------------------------------------------------------------
(* Only UpFetch, a fetch's end, DwLockConcentrator and lgw_send touch the  *)
(* mutex of the concentrator, each with the place it belongs to.           *)
LEMMA ConcentStep ==
  ASSUME ConcentInv, [Next]_vars
  PROVE  ConcentInv'
<1> USE SharedAssumption DEF ConcentInv
<1>1. CASE UpStep
  <2>1. UNCHANGED down
    BY <1>1 DEF UpStep, downlinkVars, downVars
  <2>2. CASE UpFetch
    BY <2>1, <2>2 DEF UpFetch, UpGoto, Lock
  <2>3. CASE UpFetchedAll \/ UpFetchedFull
    BY <2>1, <2>3 DEF UpFetchedAll, UpFetchedFull, UpFetched, UpGoto, Unlock
  <2>4. CASE \/ UpStop \/ lgw_pop \/ UpFilter \/ UpForeign \/ UpPublishExits
             \/ UpFiltered \/ UpSend \/ UpCount \/ UpNoAck \/ UpAck \/ UpNoMoreTries
    <3>1. UNCHANGED mx_concent /\ (up = "receive" <=> up' = "receive")
      BY <2>4 DEF UpStop, lgw_pop, UpFilter, UpForeign, UpPublishExits, UpFiltered,
                  UpSend, UpCount, UpNoAck, UpAck, UpNoMoreTries, UpRelease,
                  UpGoto, uplinkVars, upVars
    <3>. QED
      BY <2>1, <3>1
  <2>. QED
    BY <1>1, <2>2, <2>3, <2>4 DEF UpStep, thread_up
<1>2. CASE DownStep
  <2>1. UNCHANGED up
    BY <1>2 DEF DownStep, uplinkVars, upVars
  <2>2. CASE DwLockConcentrator
    BY <2>1, <2>2 DEF DwLockConcentrator, DownGoto, Lock
  <2>3. CASE lgw_send
    BY <2>1, <2>3 DEF lgw_send, Unlock
  <2>4. CASE \/ DwStop \/ DwAutoquit \/ DwPull \/ DwCountPull \/ DwKeepalive
             \/ DwAck \/ DwStrayAck \/ DwResp \/ DwTxOk \/ DwTxFail \/ DwPublishExits
    <3>1. UNCHANGED mx_concent /\ (down' = "send" => down = "send")
      BY <2>4 DEF DwStop, DwAutoquit, DwPull, DwCountPull, DwKeepalive, DwAck,
                  DwStrayAck, DwResp, DwTxOk, DwTxFail, DwCountTx, DwPublishExits,
                  DownGoto, downlinkVars, downVars
    <3>. QED
      BY <2>1, <3>1
  <2>. QED
    BY <1>2, <2>2, <2>3, <2>4 DEF DownStep, thread_down
<1>3. CASE DownCancelled
  BY <1>3 DEF DownCancelled, uplinkVars, upVars
<1>4. CASE main_thread
  BY <1>4 DEF main_thread, MainWait, MainReportUp, MainReportDw, MainLeave,
              MainJoin, MainCancel, MainExit, ReportUp, ReportDw, uplinkVars,
              upVars, downlinkVars, downVars
<1>5. CASE Received \/ Signal \/ UNCHANGED vars
  BY <1>5 DEF Received, on_message_received, Signal, vars, uplinkVars, upVars,
              downlinkVars, downVars
<1>. QED
  BY <1>1, <1>2, <1>3, <1>4, <1>5 DEF Next

(* A thread_down that is at a place without locks has none. *)
LEMMA OwnerStep ==
  ASSUME OwnerInv, [Next]_vars
  PROVE  OwnerInv'
<1> USE SharedAssumption DEF OwnerInv
<1>1. CASE UpStep
  <2>1. UNCHANGED <<down, mx_meas_dw>>
    BY <1>1 DEF UpStep, downlinkVars, downVars, measDwVars
  <2>2. mx_concent' \in {mx_concent, "up", Nobody}
    BY <1>1 DEF UpStep, thread_up, UpStop, UpFetch, lgw_pop, UpFetchedAll,
                UpFetchedFull, UpFetched, UpFilter, UpForeign, UpPublishExits,
                UpFiltered, UpSend, UpCount, UpNoAck, UpAck, UpNoMoreTries,
                UpRelease, Lock, Unlock
  <2>. QED
    BY <2>1, <2>2
<1>2. CASE DownStep
  <2>1. CASE DwResp
    BY <2>1 DEF DwResp, DownGoto
  <2>2. CASE DwLockConcentrator
    BY <2>2 DEF DwLockConcentrator, DownGoto, measDwVars
  <2>3. CASE lgw_send
    BY <2>3 DEF lgw_send, Unlock, measDwVars
  <2>4. CASE DwTxOk \/ DwTxFail
    BY <2>4 DEF DwTxOk, DwTxFail, DwCountTx, DownGoto, Unlock
  <2>5. CASE \/ DwStop \/ DwAutoquit \/ DwPull \/ DwCountPull \/ DwKeepalive
             \/ DwAck \/ DwStrayAck
    <3>1. /\ UNCHANGED <<mx_concent, mx_meas_dw>>
          /\ down \in {"top", "pull", "listen"}
      BY <2>5 DEF DwStop, DwAutoquit, DwPull, DwCountPull, DwKeepalive, DwAck,
                  DwStrayAck, DownGoto, measDwVars
    <3>. QED
      BY <3>1
  <2>6. CASE DwPublishExits
    BY <2>6 DEF DwPublishExits, downlinkVars, downVars, measDwVars
  <2>. QED
    BY <1>2, <2>1, <2>2, <2>3, <2>4, <2>5, <2>6 DEF DownStep, thread_down
<1>3. CASE DownCancelled
  BY <1>3 DEF DownCancelled
<1>4. CASE main_thread
  BY <1>4 DEF main_thread, MainWait, MainReportUp, MainReportDw, MainLeave,
              MainJoin, MainCancel, MainExit, ReportUp, ReportDw, downlinkVars,
              downVars, measDwVars
<1>5. CASE Received \/ Signal \/ UNCHANGED vars
  BY <1>5 DEF Received, on_message_received, Signal, vars, downlinkVars,
              downVars, measDwVars
<1>. QED
  BY <1>1, <1>2, <1>3, <1>4, <1>5 DEF Next

(* A thread_up that is done stays so, and the main thread cancels          *)
(* thread_down only on its way out.                                        *)
LEMMA ExitStep ==
  ASSUME ExitInv, [Next]_vars
  PROVE  ExitInv'
<1> USE DEF ExitInv, Leaving
<1>1. CASE main_thread
  <2>1. UNCHANGED <<up, down>>
    BY <1>1 DEF main_thread, MainWait, MainReportUp, MainReportDw, MainLeave,
                MainJoin, MainCancel, MainExit, ReportUp, ReportDw, uplinkVars,
                upVars, downlinkVars, downVars
  <2>2. CASE MainWait \/ MainReportUp \/ MainReportDw \/ MainLeave
    BY <2>1, <2>2 DEF MainWait, MainReportUp, MainReportDw, MainLeave, MainGoto
  <2>3. CASE MainJoin
    BY <2>1, <2>3 DEF MainJoin, MainGoto
  <2>4. CASE MainCancel \/ MainExit
    BY <2>1, <2>4 DEF MainCancel, MainExit
  <2>. QED
    BY <1>1, <2>2, <2>3, <2>4 DEF main_thread
<1>2. CASE UpStep
  <2>1. UNCHANGED <<down, gw_main, cancelling>>
    BY <1>2 DEF UpStep, downlinkVars, downVars, mainVars
  <2>2. up # "done"
    BY <1>2 DEF UpStep, thread_up, UpStop, UpFetch, lgw_pop, UpFetchedAll,
                UpFetchedFull, UpFetched, UpFilter, UpForeign, UpPublishExits,
                UpFiltered, UpSend, UpCount, UpNoAck, UpAck, UpNoMoreTries,
                UpRelease, UpGoto
  <2>. QED
    BY <2>1, <2>2
<1>3. CASE DownStep
  <2>1. UNCHANGED <<up, gw_main, cancelling>>
    BY <1>3 DEF DownStep, uplinkVars, upVars, mainVars
  <2>2. down' # "cancelled"
    BY <1>3 DEF DownStep, thread_down, DwStop, DwAutoquit, DwPull, DwCountPull,
                DwKeepalive, DwAck, DwStrayAck, DwResp, DwLockConcentrator,
                lgw_send, DwTxOk, DwTxFail, DwCountTx, DwPublishExits, DownGoto,
                downlinkVars, downVars
  <2>. QED
    BY <2>1, <2>2
<1>4. CASE DownCancelled
  BY <1>4 DEF DownCancelled, uplinkVars, upVars, mainVars
<1>5. CASE Received \/ Signal \/ UNCHANGED vars
  BY <1>5 DEF Received, on_message_received, Signal, vars, uplinkVars, upVars,
              downlinkVars, downVars, mainVars
<1>. QED
  BY <1>1, <1>2, <1>3, <1>4, <1>5 DEF Next

(* The quit flags and the main thread's own variables. *)
LEMMA MainTypeStep ==
  ASSUME MainTypeOK, [Next]_vars
  PROVE  MainTypeOK'
<1> USE GatewayAssumption DEF MainTypeOK, MainPC, flags, mainVars, Exit
<1>1. CASE main_thread
  <2>1. UNCHANGED <<exit_sig, quit_sig>> /\ exited' \in BOOLEAN
    BY <1>1 DEF main_thread, MainWait, MainReportUp, MainReportDw, MainLeave,
                MainJoin, MainCancel, MainExit, ReportUp, ReportDw
  <2>2. listening' \in BOOLEAN /\ cancelling' \in BOOLEAN
    BY <1>1 DEF main_thread, MainWait, MainReportUp, MainReportDw, MainLeave,
                MainJoin, MainCancel, MainExit, MainGoto
  <2>3. gw_main' \in MainPC
    BY <1>1 DEF main_thread, MainWait, MainReportUp, MainReportDw, MainLeave,
                MainJoin, MainCancel, MainExit, MainGoto
  <2>4. reports' \in 0 .. MaxReports
    <3>1. CASE MainWait
      BY <3>1 DEF MainWait
    <3>2. CASE \/ MainReportUp \/ MainReportDw \/ MainLeave \/ MainJoin
               \/ MainCancel \/ MainExit
      <4>1. UNCHANGED reports
        BY <3>2 DEF MainReportUp, MainReportDw, MainLeave, MainJoin, MainCancel,
                    MainExit
      <4>. QED
        BY <4>1
    <3>. QED
      BY <1>1, <3>1, <3>2 DEF main_thread
  <2>. QED
    BY <2>1, <2>2, <2>3, <2>4
<1>2. CASE UpStep
  BY <1>2 DEF UpStep, thread_up, UpStop, UpFetch, lgw_pop, UpFetchedAll,
              UpFetchedFull, UpFetched, UpFilter, UpForeign, UpPublishExits,
              UpFiltered, UpSend, UpCount, UpNoAck, UpAck, UpNoMoreTries, UpRelease
<1>3. CASE DownStep
  BY <1>3 DEF DownStep, thread_down, DwStop, DwAutoquit, DwPull, DwCountPull,
              DwKeepalive, DwAck, DwStrayAck, DwResp, DwLockConcentrator,
              lgw_send, DwTxOk, DwTxFail, DwCountTx, DwPublishExits
<1>4. CASE DownCancelled \/ Received \/ Signal \/ UNCHANGED vars
  BY <1>4 DEF DownCancelled, Received, on_message_received, Signal, sig_handler,
              vars
<1>. QED
  BY <1>1, <1>2, <1>3, <1>4 DEF Next

(* Before its threads run, the gateway has nothing fetched, counted or     *)
(* locked.                                                                 *)
LEMMA GatewayInit == Init => GatewayInv
<1> SUFFICES ASSUME Init PROVE GatewayInv
  OBVIOUS
<1>1. UplinkStart /\ DownlinkStart
  BY DEF Init, UplinkStart, DownlinkStart
<1>2. UpTyped /\ DownlinkTypeOK
  BY <1>1, UplinkTypeInit, DownlinkTypeInit
<1>3. FrameInv /\ AckInv /\ EveryFrameAccounted
  BY <1>1, InvInit DEF DownlinkInv, FrameInv
<1>4. CounterInv
  BY <1>1 DEF UplinkStart, UplinkInit, CounterInv, ReportsAddUp, ConsistentUp,
              Zero, Counter
<1>5. OrderInv
  BY <1>1 DEF UplinkStart, UplinkInit, Stack!Init, OrderInv, Ascending, Before,
              UpTo
<1>p. PushInv
  BY <1>1, PushInit
<1>6. ConcentInv /\ OwnerInv /\ ExitInv /\ FreshInv
  BY SharedAssumption DEF Init, SharedInit, UplinkInit, DownlinkInit, ConcentInv,
                          OwnerInv, ExitInv, Leaving, FreshInv
<1>7. MainTypeOK
  <2>1. gw_main \in MainPC /\ reports \in 0 .. MaxReports
    BY GatewayAssumption DEF Init, MainPC
  <2>2. /\ exit_sig \in BOOLEAN /\ quit_sig \in BOOLEAN /\ exited \in BOOLEAN
        /\ listening \in BOOLEAN /\ cancelling \in BOOLEAN
    BY DEF Init, SharedInit
  <2>. QED
    BY <2>1, <2>2 DEF MainTypeOK
<1>. QED
  BY <1>2, <1>3, <1>4, <1>5, <1>p, <1>6, <1>7 DEF GatewayInv, BalanceInv

(* The invariant of the whole gateway. *)
THEOREM GatewayInvHolds == Spec => []GatewayInv
<1>1. GatewayInv /\ [Next]_vars => GatewayInv'
  BY UplinkCarriesOver, DownlinkCarriesOver, ConcentStep, OwnerStep, ExitStep,
     MainTypeStep
     DEF GatewayInv
<1>. QED
  BY <1>1, GatewayInit, PTL DEF Spec

(* The state of the gateway is of its types. *)
THEOREM GatewayTypeCorrect == Spec => []TypeOK
<1>1. GatewayInv => TypeOK
  BY DEF GatewayInv, UpTyped, MainTypeOK, ConcentInv, TypeOK
<1>. QED
  BY <1>1, GatewayInvHolds, PTL

(* No frame goes down while thread_up is between two pops of a fetch,      *)
(* whatever thread the scheduler prefers.                                  *)
THEOREM ConcentratorExclusive == Spec => []OneInConcentrator
<1>1. GatewayInv => OneInConcentrator
  BY SharedAssumption DEF GatewayInv, ConcentInv, OneInConcentrator
<1>. QED
  BY <1>1, GatewayInvHolds, PTL

(* Every report adds up in both directions, also when thread_down is       *)
(* cancelled with a frame on its way.                                      *)
THEOREM ReportsStayConsistent == Spec => []ReportsConsistent
<1>1. GatewayInv => ReportsConsistent
  BY DEF GatewayInv, CounterInv, BalanceInv, ReportsConsistent
<1>. QED
  BY <1>1, GatewayInvHolds, PTL

(* The order of packets and the count of acknowledgements in both          *)
(* directions survive the composition, up to the end of the process.       *)
THEOREM OrderAndAcksThroughout ==
  Spec => [](SentInOrder /\ AckedWereSent /\ AckedOnce)
<1>1. GatewayInv => SentInOrder /\ AckedWereSent /\ AckedOnce
  BY DEF GatewayInv, OrderInv, Ascending, SentInOrder, PushInv, AckInv
<1>. QED
  BY <1>1, GatewayInvHolds, PTL

(* In the whole gateway a packet is lost only to a full stack, a fetch of  *)
(* several, the filter, a failing send or the end of the process: neither  *)
(* the reports nor the other threads lose one that thread_up has taken.    *)
THEOREM LossesThroughout == Spec => LossesKnown
<1>1. GatewayInv /\ [Next]_vars => [Accounted]_upAll
  <2> SUFFICES ASSUME GatewayInv, [Next]_vars PROVE Accounted
    OBVIOUS
  <2>1. UpTyped /\ FreshInv /\ received \in Nat
    BY UplinkAssumption DEF GatewayInv, UpTyped, UplinkTypeOK
  <2>2. \/ Alive
        \/ UNCHANGED <<queue, received, up, rxpkt, nb_pkt, dgram, sent, exited>>
    BY DEF Next, main_thread, UpStep, thread_up, DownStep, thread_down,
           DownCancelled, Received, on_message_received, Signal, vars, uplinkVars,
           stackVars, upVars, pushVars, flags
  <2>3. HeldAccounted
    <3>1. CASE [UplinkNext]_upAll
      BY <2>1, <3>1, HeldStep
    <3>2. CASE UNCHANGED uplinkVars
      <4>1. UNCHANGED <<queue, received, up, rxpkt, nb_pkt, dgram, sent>>
        BY <3>2 DEF uplinkVars, stackVars, upVars, pushVars
      <4>2. Held' = Held /\ (received + 1) .. received' = {}
        BY <2>1, <4>1 DEF Held, InHands
      <4>. QED
        BY <4>2 DEF HeldAccounted
    <3>. QED
      BY <3>1, <3>2, UplinkSide
  <2>. QED
    BY <2>1, <2>2, <2>3, KeptAccounted
<1>. QED
  BY <1>1, GatewayInvHolds, PTL DEF Spec, LossesKnown, Accounted

(* In the whole gateway too thread_down gives up on the server only with   *)
(* its last poll, and as many polls as the threshold, not acknowledged.    *)
THEOREM QuitEarnedThroughout == Spec => QuitsOnlyUnacked
<1>1. GatewayInv
      => [DwAutoquit => /\ AutoquitThreshold > 0 /\ ~req_ack
                        /\ pulls - acks >= AutoquitThreshold]_dwAll
  BY DownlinkAssumption
     DEF GatewayInv, DownlinkTypeOK, AckInv, AckedOnce, DwAutoquit,
         TooManyUnacked
<1>. QED
  BY <1>1, GatewayInvHolds, PTL DEF QuitsOnlyUnacked
--------------------------------------------------------------------------------
(* Where the owner of each mutex is, as the invariant has it: what follows *)
(* is about these places alone.                                            *)
LEMMA OwnersAt ==
  ASSUME GatewayInv
  PROVE  /\ mx_concent \in {Nobody, "up", "down"}
         /\ mx_concent = "up" => up = "receive"
         /\ mx_concent = "down" => down \in {"send", "cancelled"}
         /\ mx_meas_up \in {Nobody, "up"}
         /\ mx_meas_up = "up" => up = "ack"
         /\ mx_meas_dw \in {Nobody, "down"}
         /\ mx_meas_dw = "down"
              => down \in {"tx", "send", "sent", "failed", "cancelled"}
         /\ down = "cancelled" => up = "done" /\ gw_main = "stop"
BY SharedAssumption
   DEF GatewayInv, UpTyped, UplinkTypeOK, LocksInv, DownlinkTypeOK, ConcentInv,
       OwnerInv, ExitInv, Leaving

(* Each thread waits at most for those that come before it in an order     *)
(* that changes with the places: a thread_up in the concentrator, or a     *)
(* thread_down in it, waits for nobody, and nobody waits for main.         *)
LEMMA AwaitsAre ==
  ASSUME GatewayInv
  PROVE  /\ Awaits["main"] \subseteq {"up", "down"}
         /\ Awaits["up"] \subseteq {"down"}
         /\ Awaits["down"] \subseteq {"up"}
         /\ "down" \in Awaits["up"] => Awaits["down"] = {}
         /\ down = "cancelled" => \A t \in Thread : Awaits[t] = {}
         /\ up = "done" => \A t \in Thread : "up" \notin Awaits[t]
<1>1. /\ Awaits["up"] = UpAwaits \ {Nobody}
      /\ Awaits["down"] = DownAwaits \ {Nobody}
      /\ Awaits["main"] = MainAwaits \ {Nobody}
  BY DEF Awaits, Thread
<1>2. UpAwaits \ {Nobody} \subseteq {"down"}
  BY OwnersAt, SharedAssumption DEF UpAwaits
<1>3. DownAwaits \ {Nobody} \subseteq {"up"}
  BY OwnersAt, SharedAssumption DEF DownAwaits
<1>4. MainAwaits \ {Nobody} \subseteq {"up", "down"}
  BY OwnersAt, SharedAssumption DEF MainAwaits
<1>5. "down" \in UpAwaits => DownAwaits = {}
  BY OwnersAt, SharedAssumption DEF UpAwaits, DownAwaits
<1>6. ASSUME down = "cancelled"
      PROVE  UpAwaits = {} /\ DownAwaits = {} /\ MainAwaits = {}
  BY <1>6, OwnersAt DEF UpAwaits, DownAwaits, MainAwaits
<1>7. ASSUME up = "done"
      PROVE  "up" \notin UpAwaits \cup DownAwaits \cup MainAwaits
  BY <1>7, OwnersAt, SharedAssumption DEF UpAwaits, DownAwaits, MainAwaits
<1>. QED
  BY <1>1, <1>2, <1>3, <1>4, <1>5, <1>6, <1>7 DEF Thread

(* However the threads interleave, no mutex and no join closes a circle of *)
(* waiting threads, and nobody waits for a thread that ended or was        *)
(* cancelled with its mutexes locked.                                      *)
THEOREM NobodyWaitsForEver == Spec => []WaitsEnd
<1>1. GatewayInv => WaitsEnd
  <2> SUFFICES ASSUME GatewayInv PROVE WaitsEnd
    OBVIOUS
  <2>1. ASSUME NEW S \in SUBSET Thread, Circle(S)
        PROVE  S = {}
    <3>1. ASSUME "up" \in S PROVE FALSE
      BY <2>1, <3>1, AwaitsAre DEF Circle
    <3>2. ASSUME "down" \in S PROVE FALSE
      BY <2>1, <3>1, <3>2, AwaitsAre DEF Circle
    <3>3. ASSUME "main" \in S PROVE FALSE
      BY <2>1, <3>1, <3>2, <3>3, AwaitsAre DEF Circle
    <3>. QED
      BY <3>1, <3>2, <3>3 DEF Thread
  <2>2. ASSUME NEW t \in Thread
        PROVE  /\ up = "done" => "up" \notin Awaits[t]
               /\ down = "cancelled" => "down" \notin Awaits[t]
    BY AwaitsAre
  <2>. QED
    BY <2>1, <2>2 DEF WaitsEnd
<1>. QED
  BY <1>1, GatewayInvHolds, PTL
================================================================================
