------------------------------ MODULE MCGateway ------------------------------
(* Small instance of Gateway for TLC. *)
EXTENDS Gateway

GoodStatus == [p \in 1 .. MaxReceived |-> "CRC_OK"]
=============================================================================
