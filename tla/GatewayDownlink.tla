--------------------------- MODULE GatewayDownlink ---------------------------
(***************************************************************************)
(* The gateway's way down: thread_down polls the network server with a     *)
(* PULL_DATA of a random token, listens until the keepalive time is over   *)
(* for its PULL_ACK and for PULL_RESPs, and publishes the frame of each    *)
(* PULL_RESP to the end nodes; it sets exit_sig when too many polls go     *)
(* unacknowledged.  The main thread copies and resets the downstream       *)
(* counters.  The server and UDP are external: an answer may come, be      *)
(* late, be lost or come twice.  What the thread ignores without any       *)
(* change of state (a recv timeout, an invalid datagram, a PULL_RESP that  *)
(* does not parse) is a stuttering step.                                   *)
(***************************************************************************)
EXTENDS GatewayShared, Integers

CONSTANTS AutoquitThreshold,  \* autoquit_threshold, 0 to switch it off
          KeepaliveTime,      \* keepalive_time, in seconds
          MaxPulls,           \* bound: PULL_DATA datagrams sent
          MaxResps            \* bound: valid PULL_RESPs received

ASSUME DownlinkAssumption ==
  /\ AutoquitThreshold \in Nat /\ KeepaliveTime \in Int
  /\ MaxPulls \in Nat /\ MaxResps \in Nat

VARIABLES
  down,          \* where thread_down is
  token,         \* token_h, token_l: of the last PULL_DATA
  req_ack,       \* was that PULL_DATA acknowledged
  autoquit_cnt,
  mx_meas_dw,    \* owner of the counters' mutex
  meas_dw,       \* the downstream counters
  report_dw,     \* the copy that the last report was made of
  polled,        \* tokens the server has seen
  pulls, acks, resps   \* history: PULL_DATA, PULL_ACK and PULL_RESP counted

downVars     == <<down, token, req_ack, autoquit_cnt>>
measDwVars   == <<mx_meas_dw, meas_dw, report_dw>>
dwHistory    == <<polled, pulls, acks, resps>>
downlinkVars == <<downVars, measDwVars, dwHistory>>

DownPC == {"top", "pull", "listen", "tx", "send", "sent", "failed", "done",
           "cancelled"}

DwCounter == {"pull_sent", "ack_rcv", "dgram_rcv", "tx_ok", "tx_fail"}

DwZero == [c \in DwCounter |-> 0]

DwCount(c) == [meas_dw EXCEPT ![c] = @ + 1]

DownlinkInit ==
  /\ down = "top" /\ token = NoToken /\ req_ack = FALSE /\ autoquit_cnt = 0
  /\ mx_meas_dw = Nobody /\ meas_dw = DwZero /\ report_dw = DwZero
  /\ polled = {} /\ pulls = 0 /\ acks = 0 /\ resps = 0
-----------------------------------------------------------------------------
DownGoto(from, to) == down = from /\ down' = to

DwStop ==
  /\ Stopping
  /\ DownGoto("top", "done")
  /\ UNCHANGED <<token, req_ack, autoquit_cnt, measDwVars, dwHistory, flags,
                 mx_concent>>

TooManyUnacked == AutoquitThreshold > 0 /\ autoquit_cnt >= AutoquitThreshold

(* Mutant: the thread ends alone. *)
Mutant_DwAutoquit ==
  /\ ~Stopping
  /\ TooManyUnacked
  /\ DownGoto("top", "done")
  /\ UNCHANGED <<token, req_ack, autoquit_cnt, measDwVars, dwHistory, flags,
                 mx_concent>>

DwAutoquit ==
  /\ ~Stopping
  /\ TooManyUnacked
  /\ DownGoto("top", "done")
  /\ exit_sig' = TRUE
  /\ UNCHANGED <<token, req_ack, autoquit_cnt, measDwVars, dwHistory,
                 quit_sig, exited, mx_concent>>

(* The token is random: nothing keeps it from being an earlier one.        *)
DwPull ==
  /\ ~Stopping /\ ~TooManyUnacked
  /\ pulls < MaxPulls
  /\ DownGoto("top", "pull")
  /\ token' \in Token
  /\ polled' = polled \cup {token'}
  /\ UNCHANGED <<req_ack, autoquit_cnt, measDwVars, pulls, acks, resps,
                 flags, mx_concent>>

(* The listening loop is entered if its time is not over from the start.   *)
DwCountPull ==
  /\ mx_meas_dw = Nobody
  /\ DownGoto("pull", IF 0 < KeepaliveTime THEN "listen" ELSE "top")
  /\ meas_dw' = DwCount("pull_sent")
  /\ req_ack' = FALSE
  /\ autoquit_cnt' = autoquit_cnt + 1
  /\ pulls' = pulls + 1
  /\ UNCHANGED <<token, mx_meas_dw, report_dw, polled, acks, resps, flags,
                 mx_concent>>

(* keepalive_time has passed since the PULL_DATA was sent. *)
DwKeepalive ==
  /\ DownGoto("listen", "top")
  /\ UNCHANGED <<token, req_ack, autoquit_cnt, measDwVars, dwHistory, flags,
                 mx_concent>>

(* Mutant: a duplicate PULL_ACK is counted too. *)
Mutant_DwAckTwice ==
  /\ DownGoto("listen", "listen")
  /\ token \in polled
  /\ acks < MaxPulls + 1
  /\ mx_meas_dw = Nobody
  /\ req_ack' = TRUE
  /\ autoquit_cnt' = 0
  /\ meas_dw' = DwCount("ack_rcv")
  /\ acks' = acks + 1
  /\ UNCHANGED <<token, mx_meas_dw, report_dw, polled, pulls, resps, flags,
                 mx_concent>>

(* Mutant: autoquit_cnt is not reset. *)
Mutant_DwAckNoReset ==
  /\ DownGoto("listen", "listen")
  /\ token \in polled
  /\ ~req_ack
  /\ mx_meas_dw = Nobody
  /\ req_ack' = TRUE
  /\ meas_dw' = DwCount("ack_rcv")
  /\ acks' = acks + 1
  /\ UNCHANGED <<token, autoquit_cnt, mx_meas_dw, report_dw, polled, pulls,
                 resps, flags, mx_concent>>

DwAck ==
  /\ DownGoto("listen", "listen")
  /\ token \in polled
  /\ ~req_ack
  /\ mx_meas_dw = Nobody
  /\ req_ack' = TRUE
  /\ autoquit_cnt' = 0
  /\ meas_dw' = DwCount("ack_rcv")
  /\ acks' = acks + 1
  /\ UNCHANGED <<token, mx_meas_dw, report_dw, polled, pulls, resps, flags,
                 mx_concent>>

(* A duplicate or an out-of-sync PULL_ACK is logged and nothing else. *)
DwStrayAck ==
  /\ DownGoto("listen", "listen")
  /\ \E t \in polled : t # token \/ req_ack
  /\ UNCHANGED <<token, req_ack, autoquit_cnt, measDwVars, polled, pulls,
                 acks, resps, flags, mx_concent>>

(* Mutant: the counters are unlocked before the frame is sent. *)
Mutant_DwResp ==
  /\ resps < MaxResps
  /\ DownGoto("listen", "tx")
  /\ mx_meas_dw = Nobody
  /\ meas_dw' = DwCount("dgram_rcv")
  /\ resps' = resps + 1
  /\ UNCHANGED <<token, req_ack, autoquit_cnt, mx_meas_dw, report_dw, polled,
                 pulls, acks, flags, mx_concent>>

(* A PULL_RESP that parses: counted, and the counters stay locked until    *)
(* its frame is out.                                                       *)
DwResp ==
  /\ resps < MaxResps
  /\ DownGoto("listen", "tx")
  /\ Lock(mx_meas_dw, mx_meas_dw', "down")
  /\ meas_dw' = DwCount("dgram_rcv")
  /\ resps' = resps + 1
  /\ UNCHANGED <<token, req_ack, autoquit_cnt, report_dw, polled, pulls, acks,
                 flags, mx_concent>>

(* Mutant: does not wait for a fetch to finish. *)
Mutant_DwLockConcentrator ==
  /\ DownGoto("tx", "send")
  /\ mx_concent' = "down"
  /\ UNCHANGED <<token, req_ack, autoquit_cnt, measDwVars, dwHistory, flags>>

DwLockConcentrator ==
  /\ DownGoto("tx", "send")
  /\ Lock(mx_concent, mx_concent', "down")
  /\ UNCHANGED <<token, req_ack, autoquit_cnt, measDwVars, dwHistory, flags>>

(* The frame is published to the end nodes, or cannot be; or the process   *)
(* ends by DwPublishExits.                                                 *)
lgw_send ==
  /\ down = "send" /\ down' \in {"sent", "failed"}
  /\ Unlock(mx_concent, mx_concent', "down")
  /\ UNCHANGED <<token, req_ack, autoquit_cnt, measDwVars, dwHistory, flags>>

DwCountTx(from, counter) ==
  /\ DownGoto(from, "listen")
  /\ Unlock(mx_meas_dw, mx_meas_dw', "down")
  /\ meas_dw' = DwCount(counter)
  /\ UNCHANGED <<token, req_ack, autoquit_cnt, report_dw, dwHistory, flags,
                 mx_concent>>

DwTxOk   == DwCountTx("sent", "tx_ok")

(* Mutant: the counters stay locked after a frame that cannot be sent. *)
Mutant_DwTxFail ==
  /\ DownGoto("failed", "listen")
  /\ meas_dw' = DwCount("tx_fail")
  /\ UNCHANGED <<token, req_ack, autoquit_cnt, mx_meas_dw, report_dw, dwHistory,
                 flags, mx_concent>>

DwTxFail == DwCountTx("failed", "tx_fail")

(* thread_down publishes the measures of a PULL_RESP, the frame and the    *)
(* measures of the frame: a publish without a client that cannot connect   *)
(* one ends the process.                                                   *)
DwPublishExits ==
  /\ down \in {"listen", "send", "sent", "failed"}
  /\ Exit
  /\ UNCHANGED <<downlinkVars, mx_concent>>

thread_down ==
  /\ Alive
  /\ \/ DwStop \/ DwAutoquit \/ DwPull \/ DwCountPull \/ DwKeepalive \/ DwAck
     \/ DwStrayAck \/ DwResp \/ DwLockConcentrator \/ lgw_send \/ DwTxOk
     \/ DwTxFail \/ DwPublishExits
-----------------------------------------------------------------------------
(* Mutant: the report does not take the counters' mutex. *)
Mutant_ReportDw ==
  /\ Alive
  /\ report_dw' = meas_dw
  /\ meas_dw' = DwZero
  /\ UNCHANGED <<downVars, mx_meas_dw, dwHistory, flags, mx_concent>>

(* The main thread's downstream half of a report. *)
ReportDw ==
  /\ Alive
  /\ mx_meas_dw = Nobody
  /\ report_dw' = meas_dw
  /\ meas_dw' = DwZero
  /\ UNCHANGED <<downVars, mx_meas_dw, dwHistory, flags, mx_concent>>

DownlinkSignal == Alive /\ sig_handler /\ UNCHANGED <<downlinkVars, mx_concent>>

DownlinkStart == SharedInit /\ DownlinkInit

DownlinkNext == thread_down \/ ReportDw \/ DownlinkSignal

dwAll == <<downlinkVars, flags, mx_concent>>

DownlinkSpec == DownlinkStart /\ [][DownlinkNext]_dwAll
-----------------------------------------------------------------------------
(* Types; and the counters are locked while a frame is on its way.         *)
DownlinkTypeOK ==
  /\ down \in DownPC /\ token \in Token \cup {NoToken} /\ req_ack \in BOOLEAN
  /\ autoquit_cnt \in Nat
  /\ mx_meas_dw \in {Nobody, "down"}
  /\ meas_dw \in [DwCounter -> Nat] /\ report_dw \in [DwCounter -> Nat]
  /\ polled \subseteq Token
  /\ pulls \in 0 .. MaxPulls /\ resps \in 0 .. MaxResps
  /\ down = "pull" => pulls < MaxPulls
  /\ acks \in Nat
  /\ down \in {"tx", "send", "sent", "failed"} => mx_meas_dw = "down"

(* In every report each frame taken from the server is accounted for as    *)
(* sent or failed: the counters are never copied while one is on its way.  *)
EveryFrameAccounted ==
  report_dw["dgram_rcv"] = report_dw["tx_ok"] + report_dw["tx_fail"]

(* However often the server repeats itself, a PULL_DATA is acknowledged    *)
(* once: acks and the polls still unacknowledged never exceed the polls.   *)
AckedOnce == acks + autoquit_cnt <= pulls

(* A server that answers the last poll in time is not given up on, and the *)
(* gateway never quits by itself while auto-quit is off.                   *)
QuitsOnlyUnacked ==
  [][DwAutoquit => AutoquitThreshold > 0 /\ ~req_ack
                    /\ pulls - acks >= AutoquitThreshold]_dwAll
=============================================================================
