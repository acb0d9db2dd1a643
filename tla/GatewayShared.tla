---------------------------- MODULE GatewayShared ----------------------------
(***************************************************************************)
(* What the gateway's threads share: the quit flags that sig_handler and   *)
(* the auto-quit set, the mutex of the (emulated) concentrator, and the    *)
(* process itself, which any of them can end by a call of exit.            *)
(***************************************************************************)
CONSTANTS Nobody,  \* owner of a free mutex
          Token,   \* of a datagram: 2^16 in the program, drawn at random
          NoToken  \* before the first datagram

ASSUME SharedAssumption ==
  /\ Nobody \notin {"up", "down"}
  /\ Token # {} /\ NoToken \notin Token

VARIABLES exit_sig, quit_sig,  \* set on SIGINT/SIGTERM, on SIGQUIT
          exited,              \* the process has ended
          mx_concent           \* owner of the concentrator's mutex

flags == <<exit_sig, quit_sig, exited>>

SharedInit ==
  /\ exit_sig = FALSE /\ quit_sig = FALSE /\ exited = FALSE
  /\ mx_concent = Nobody

Stopping == exit_sig \/ quit_sig

Alive == ~exited

(* exit, called by any thread, ends all of them where they are.            *)
Exit == exited' = TRUE /\ UNCHANGED <<exit_sig, quit_sig>>

(* A mutex variable holds its owner. *)
Lock(mutex, mutexNext, owner)   == mutex = Nobody /\ mutexNext = owner
Unlock(mutex, mutexNext, owner) == mutex = owner /\ mutexNext = Nobody

sig_handler == \/ exit_sig' = TRUE /\ UNCHANGED <<quit_sig, exited>>
               \/ quit_sig' = TRUE /\ UNCHANGED <<exit_sig, exited>>
=============================================================================
