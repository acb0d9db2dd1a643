---------------------------- MODULE DevNonceStore ----------------------------
(***************************************************************************)
(* The DevNonce of an end node across boots.  It lives in config.json, on  *)
(* a volume that outlives the process; main parses the file, executeJoin   *)
(* asks with the value it finds, and only after the join writes the next   *)
(* value back, by opening the whole file for writing, which empties it,    *)
(* and printing the new text.  The process may be killed between any two   *)
(* steps and is started again by hand.  The network server is external: it *)
(* answers a request or not, and never after the process was restarted (a  *)
(* restart takes longer than a round trip).                                *)
(***************************************************************************)
EXTENDS Integers

CONSTANTS NonceMod,    \* DevNonce is a uint16_t: 2^16
          None,        \* no session, no DevNonce in memory
          Torn,        \* a config.json that is not valid JSON
          MaxSessions  \* bound: sessions granted, fewer than DevNonces

Nonce == 0 .. NonceMod - 1

ASSUME StoreAssumption ==
  /\ NonceMod \in Nat \ {0}
  /\ MaxSessions \in Nat /\ MaxSessions < NonceMod
  /\ None \notin Nonce /\ Torn \notin Nonce

VARIABLES node,          \* where the process is
          config,        \* last_dev_nonce in config.json
          lastDevNonce,
          request,       \* DevNonce of the request the server may answer
          accept,        \* is the join accept on its way to the node
          granted,       \* DevNonce of the last session granted
          sessions,      \* history: how many sessions were granted
          spent          \* history: DevNonces whose successor was saved

flight == <<request, accept>>
history == <<granted, sessions, spent>>
vars == <<node, config, lastDevNonce, flight, history>>

NodePC == {"down", "booted", "asked", "accepted", "opened", "joined", "failed",
           "exited"}

(* Mutant: the DevNonce is not a 16-bit number. *)
Mutant_Following(n) == n + 1

Following(n) == (n + 1) % NonceMod

Init ==
  /\ node = "down" /\ config \in Nonce /\ lastDevNonce = None
  /\ request = None /\ accept = FALSE
  /\ granted = None /\ sessions = 0 /\ spent = {}
-----------------------------------------------------------------------------
NodeGoto(from, to) == node = from /\ node' = to

(* Mutant: increments at boot as well. *)
Mutant_Boot ==
  /\ config # Torn
  /\ NodeGoto("down", "booted")
  /\ lastDevNonce' = Following(config)
  /\ UNCHANGED <<config, flight, history>>

Boot ==
  /\ config # Torn
  /\ NodeGoto("down", "booted")
  /\ lastDevNonce' = config
  /\ UNCHANGED <<config, flight, history>>

(* Mutant: starts with a default when the file is no good. *)
Mutant_BootFails ==
  /\ config = Torn
  /\ NodeGoto("down", "booted")
  /\ lastDevNonce' = 0
  /\ UNCHANGED <<config, flight, history>>

(* "not a valid JSON file": main returns. *)
BootFails ==
  /\ config = Torn
  /\ NodeGoto("down", "exited")
  /\ UNCHANGED <<config, lastDevNonce, flight, history>>

SendJoinRequest ==
  /\ NodeGoto("booted", "asked")
  /\ request' = lastDevNonce
  /\ UNCHANGED <<config, lastDevNonce, accept, history>>

(* The network server grants a session, at most one per request. *)
Grant ==
  /\ request # None
  /\ sessions < MaxSessions
  /\ granted' = request /\ request' = None
  /\ accept' = TRUE
  /\ sessions' = sessions + 1
  /\ UNCHANGED <<node, config, lastDevNonce, spent>>

(* Mutant: the DevNonce is not incremented after the join. *)
Mutant_AcceptArrives ==
  /\ accept /\ accept' = FALSE
  /\ NodeGoto("asked", "accepted")
  /\ UNCHANGED <<config, lastDevNonce, request, history>>

AcceptArrives ==
  /\ accept /\ accept' = FALSE
  /\ NodeGoto("asked", "accepted")
  /\ lastDevNonce' = Following(lastDevNonce)
  /\ UNCHANGED <<config, request, history>>

(* save_last_devNonce, up to and with fopen(conf_file, "w"). *)
OpenConfig ==
  /\ NodeGoto("accepted", "opened")
  /\ config' = Torn
  /\ UNCHANGED <<lastDevNonce, flight, history>>

(* The file cannot be read or parsed any more: executeJoin returns false. *)
SaveFails ==
  /\ NodeGoto("accepted", "failed")
  /\ UNCHANGED <<config, lastDevNonce, flight, history>>

(* fprintf and fclose, whose results are not looked at: the text is in the *)
(* file, or only a part of it.                                             *)
WriteConfig ==
  /\ NodeGoto("opened", "joined")
  /\ \/ config' = lastDevNonce /\ spent' = spent \cup {granted}
     \/ config' = Torn /\ UNCHANGED spent
  /\ UNCHANGED <<lastDevNonce, flight, granted, sessions>>

(* The process is killed, or ends, and what it had in memory is lost. *)
Crash ==
  /\ node # "down"
  /\ node' = "down"
  /\ lastDevNonce' = None
  /\ request' = None /\ accept' = FALSE
  /\ UNCHANGED <<config, history>>

Next ==
  \/ Boot \/ BootFails \/ SendJoinRequest \/ Grant \/ AcceptArrives
  \/ OpenConfig \/ SaveFails \/ WriteConfig \/ Crash

Spec == Init /\ [][Next]_vars
-----------------------------------------------------------------------------
TypeOK ==
  /\ node \in NodePC
  /\ config \in Nonce \cup {Torn}
  /\ lastDevNonce \in Nonce \cup {None}
  /\ request \in Nonce \cup {None} /\ accept \in BOOLEAN
  /\ granted \in Nonce \cup {None}
  /\ sessions \in 0 .. MaxSessions
  /\ spent \subseteq Nonce

(* Through any number of crashes, the node never asks with a DevNonce that *)
(* it saved the successor of: what is on disk is ahead of what is spent.   *)
SpentNeverAsked == node = "asked" => lastDevNonce \notin spent

(* A crash before the save costs one repetition at most: the node asks     *)
(* with the DevNonce of the last session again, or with the one after it.  *)
AsksSameOrNext ==
  node = "asked" /\ granted # None
    => lastDevNonce \in {granted, Following(granted)}

(* A crash inside the save is final: nothing the program does later brings *)
(* the node back to a join request.                                        *)
TornIsFinal ==
  [][config = Torn /\ node = "down" => node' # "booted" /\ config' = Torn]_vars
=============================================================================
