------------------------------ MODULE MCEndNode ------------------------------
(* Instances of EndNode for TLC: what the other parties publish.            *)
EXTENDS EndNode

Msg(t, b) == [topic |-> t, body |-> b]

(* A virtual node among others: join accepts and downlinks of every device *)
(* on the shared topics, uplink requests on its own.                       *)
VirtualTraffic ==
  {Msg("JA", "accept"), Msg("JA", "foreign"), Msg("DWn", "data"),
   Msg("DWn", "foreign"), Msg("disUPn", "uplink")}

(* A radio node: the radio driver's answers on its own topic. *)
RadioTraffic ==
  {Msg("RDR", b) : b \in {"accept", "data", "foreign", "no_downlink", "error"}}
     \cup {Msg("disUPn", "uplink")}

(* Everything of both, for a node whose communication type is open. *)
MixedTraffic == VirtualTraffic \cup RadioTraffic

(* One node alone: nothing but its own join accept and uplink requests.    *)
QuietTraffic == {Msg("JA", "accept"), Msg("disUPn", "uplink")}
=============================================================================
