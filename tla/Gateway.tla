------------------------------- MODULE Gateway -------------------------------
(***************************************************************************)
(* The whole packet forwarder: the MQTT callback thread and thread_up of   *)
(* GatewayUplink, thread_down of GatewayDownlink, and the main thread that *)
(* makes a report of the counters every stat_interval, and, once a signal  *)
(* or the auto-quit sets a quit flag, joins thread_up, cancels thread_down *)
(* and exits; unless another thread ends the process by an exit of its     *)
(* own.                                                                    *)
(***************************************************************************)
EXTENDS GatewayUplink, GatewayDownlink

CONSTANT MaxReports  \* bound: reports made

ASSUME GatewayAssumption == MaxReports \in Nat

VARIABLES gw_main,     \* where the main thread is
          reports,     \* how many reports it began
          listening,   \* the MQTT loop thread calls on_message_received
          cancelling   \* thread_down was asked to end

mainVars == <<gw_main, reports, listening, cancelling>>
vars == <<uplinkVars, downlinkVars, flags, mx_concent, mainVars>>

MainPC == {"top", "report_up", "report_dw", "join", "cancel", "stop"}

MainGoto(from, to) ==
  gw_main = from /\ gw_main' = to /\ UNCHANGED <<listening, cancelling>>

Init ==
  /\ SharedInit /\ UplinkInit /\ DownlinkInit
  /\ gw_main = "top" /\ reports = 0 /\ listening = TRUE /\ cancelling = FALSE
-----------------------------------------------------------------------------
(* The main loop: the flags are looked at once per report. *)

MainWait ==
  /\ ~Stopping
  /\ reports < MaxReports
  /\ MainGoto("top", "report_up")
  /\ reports' = reports + 1
  /\ UNCHANGED <<uplinkVars, downlinkVars, flags, mx_concent>>

MainReportUp ==
  /\ MainGoto("report_up", "report_dw")
  /\ UNCHANGED reports
  /\ ReportUp
  /\ UNCHANGED downlinkVars

MainReportDw ==
  /\ MainGoto("report_dw", "top")
  /\ UNCHANGED reports
  /\ ReportDw
  /\ UNCHANGED uplinkVars

MainLeave ==
  /\ Stopping
  /\ MainGoto("top", "join")
  /\ UNCHANGED reports
  /\ UNCHANGED <<uplinkVars, downlinkVars, flags, mx_concent>>

MainJoin ==
  /\ up = "done"
  /\ MainGoto("join", "cancel")
  /\ UNCHANGED reports
  /\ UNCHANGED <<uplinkVars, downlinkVars, flags, mx_concent>>

MainCancel ==
  /\ gw_main = "cancel" /\ gw_main' = "stop"
  /\ cancelling' = TRUE
  /\ UNCHANGED <<uplinkVars, downlinkVars, flags, mx_concent, reports,
                 listening>>

(* lgw_stop on exit_sig only, mqtt_stop_listen in both cases; then exit.   *)
MainExit ==
  /\ gw_main = "stop"
  /\ listening' = FALSE
  /\ Exit
  /\ UNCHANGED <<uplinkVars, downlinkVars, mx_concent, gw_main, reports,
                 cancelling>>

main_thread ==
  /\ Alive
  /\ \/ MainWait \/ MainReportUp \/ MainReportDw \/ MainLeave \/ MainJoin
     \/ MainCancel \/ MainExit
-----------------------------------------------------------------------------
(* The other threads live until the process ends. *)

UpStep ==
  /\ thread_up
  /\ UNCHANGED <<downlinkVars, mainVars>>

DownStep ==
  /\ thread_down
  /\ UNCHANGED <<uplinkVars, mainVars>>

(* A cancelled thread ends at its next cancellation point (send, recv or   *)
(* a write to the broker or to the log) with the mutexes it holds locked.  *)
DownCancelled ==
  /\ Alive /\ cancelling
  /\ down \in {"top", "listen", "send", "sent", "failed"}
  /\ down' = "cancelled"
  /\ UNCHANGED <<token, req_ack, autoquit_cnt, measDwVars, dwHistory,
                 uplinkVars, flags, mx_concent, mainVars>>

Received ==
  /\ listening
  /\ on_message_received
  /\ UNCHANGED <<downlinkVars, mainVars>>

Signal ==
  /\ Alive
  /\ sig_handler
  /\ UNCHANGED <<uplinkVars, downlinkVars, mx_concent, mainVars>>

Next == main_thread \/ UpStep \/ DownStep \/ DownCancelled \/ Received \/ Signal

(* The threads are scheduled, recv times out and the keepalive time ends   *)
(* (WF of a thread's disjunction forces no answer: DwKeepalive and         *)
(* UpNoAck are always open), and a mutex that is free again and again is   *)
(* granted to the main thread in the end.                                  *)
Spec == Init /\ [][Next]_vars
             /\ SF_vars(main_thread) /\ WF_vars(UpStep) /\ WF_vars(DownStep)
-----------------------------------------------------------------------------
TypeOK ==
  /\ UplinkTypeOK /\ DownlinkTypeOK
  /\ exit_sig \in BOOLEAN /\ quit_sig \in BOOLEAN /\ exited \in BOOLEAN
  /\ mx_concent \in {Nobody, "up", "down"}
  /\ gw_main \in MainPC /\ reports \in 0 .. MaxReports
  /\ listening \in BOOLEAN /\ cancelling \in BOOLEAN

(* The concentrator serves one thread at a time: no frame goes down while  *)
(* thread_up is between two pops of a fetch.                               *)
OneInConcentrator == ~(up = "receive" /\ down = "send")

(* The threads that each thread waits for: the owner of the mutex it needs *)
(* next, and in the join thread_up itself.                                 *)
UpAwaits ==
  (IF up = "top" /\ ~Stopping THEN {mx_concent} ELSE {}) \cup
  (IF up \in {"filter", "count"} THEN {mx_meas_up} ELSE {})

DownAwaits ==
  (IF down \in {"pull", "listen"} THEN {mx_meas_dw} ELSE {}) \cup
  (IF down = "tx" THEN {mx_concent} ELSE {})

MainAwaits ==
  (IF gw_main = "report_up" THEN {mx_meas_up} ELSE {}) \cup
  (IF gw_main = "report_dw" THEN {mx_meas_dw} ELSE {}) \cup
  (IF gw_main = "join" /\ up # "done" THEN {"up"} ELSE {})

Thread == {"main", "up", "down"}

Awaits == [t \in Thread |-> (CASE t = "up"   -> UpAwaits
                              [] t = "down" -> DownAwaits
                              [] OTHER      -> MainAwaits) \ {Nobody}]

(* A set of threads each of which waits for another of them. *)
Circle(S) == \A t \in S : Awaits[t] \cap S # {}

(* The nested mutexes never close a circle of threads that wait for each   *)
(* other, and no thread waits for one that has ended: neither a thread_up  *)
(* that quit nor a thread_down cancelled with its mutexes locked.          *)
WaitsEnd ==
  /\ \A S \in SUBSET Thread : Circle(S) => S = {}
  /\ \A t \in Thread : /\ up = "done" => "up" \notin Awaits[t]
                       /\ down = "cancelled" => "down" \notin Awaits[t]

(* Reports of both directions add up although the other thread's counters  *)
(* are moving while one half is being copied.                              *)
ReportsConsistent == ReportsAddUp /\ EveryFrameAccounted

(* A signal, or too many polls without an acknowledgement, ends the        *)
(* process: no thread holds for ever a mutex that the way out needs.       *)
QuitEnds == Stopping ~> exited

(* With auto-quit on, a server that goes silent ends the gateway.          *)
AutoquitEnds == (down = "top" /\ TooManyUnacked) ~> exited
=============================================================================
