--------------------------- MODULE MCGatewayUplink ---------------------------
(* Small instances of GatewayUplink for TLC. *)
EXTENDS GatewayUplink

(* One packet of each status, more good ones than one fetch takes. *)
MixedStatus ==
  [p \in 1 .. MaxReceived |-> CASE p = 2 -> "CRC_BAD" [] p = 3 -> "NO_CRC"
                                [] p = 4 -> "unknown" [] OTHER -> "CRC_OK"]
=============================================================================
