----------------------------- MODULE NodeSession -----------------------------
(***************************************************************************)
(* What an end node promises the network server: it joins at most once per *)
(* boot, with the session keys of the DevNonce it asked with; it sends     *)
(* uplinks only in that session; and their frame counters are 0, 1, 2, ... *)
(* with no gap and no repetition.                                          *)
(***************************************************************************)
EXTENDS Integers, Sequences

CONSTANTS Nonce,   \* DevNonce values
          NoNonce  \* no session

VARIABLES phase,    \* "joining", "joined", "ready" or "failed"
          nonce,    \* the DevNonce of this boot's join request
          session,  \* the DevNonce the session keys were derived from
          uplinks   \* the uplinks sent, in order: their counter and keys

svars == <<phase, nonce, session, uplinks>>

Init == /\ phase = "joining"
        /\ nonce \in Nonce
        /\ session = NoNonce
        /\ uplinks = <<>>

Join == /\ phase = "joining"
        /\ phase' = "joined"
        /\ session' = nonce
        /\ UNCHANGED <<nonce, uplinks>>

BecomeReady == /\ phase = "joined"
               /\ phase' = "ready"
               /\ UNCHANGED <<nonce, session, uplinks>>

Fail == /\ phase \in {"joining", "joined"}
        /\ phase' = "failed"
        /\ UNCHANGED <<nonce, session, uplinks>>

SendUplink ==
  /\ phase = "ready"
  /\ uplinks' = Append(uplinks, [fcnt |-> Len(uplinks), key |-> session])
  /\ UNCHANGED <<phase, nonce, session>>

Next == Join \/ BecomeReady \/ Fail \/ SendUplink

Spec == Init /\ [][Next]_svars
=============================================================================
