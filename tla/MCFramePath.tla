----------------------------- MODULE MCFramePath -----------------------------
(***************************************************************************)
(* Instances of FramePath: the actions_mapping of the repository's         *)
(* configurations; the same with the prefix /net68, under which three keys *)
(* come into one bucket; mappings that crowd a chosen action between two   *)
(* topics of its bucket; and one with a topic for two actions.  The        *)
(* buckets are those of map_hash, modulo 100.                              *)
(***************************************************************************)
EXTENDS FramePath, TLC

Item(a, t) == [action |-> a, topic |-> t]

NodeMapping ==
  <<Item("RUS", "/Radio/Uplink/"), Item("RDR", "/Radio/Downlink/"),
    Item("JR", "/JoinReq"), Item("JA", "/JoinAcpt"), Item("UPn", "/Uplink"),
    Item("DWn", "/Downlink"), Item("disUPn", "/DUplink/"),
    Item("disDWn", "/DDownlink/1111111111271719"), Item("disbALT", "/DbALT")>>

(* "JA" is the second of three keys of bucket 87. *)
NetMapping ==
  <<Item("RUS", "/net68/Radio/Uplink/"), Item("RDR", "/net68/Radio/Downlink/"),
    Item("JR", "/net68/JoinReq"), Item("JA", "/net68/JoinAcpt"),
    Item("UPn", "/net68/Uplink"), Item("DWn", "/net68/Downlink"),
    Item("disUPn", "/net68/DUplink/"), Item("disDWn", "/net68/DDownlink/"),
    Item("disbALT", "/net68/DbALT")>>

Crowding(up, log) == [NodeMapping EXCEPT ![1].topic = up, ![9].topic = log]

TwiceMapped == <<Item("JR", "/Uplink"), Item("UPn", "/Uplink")>>

ForGateway(m) == SubSeq(m, 3, 6)

(* The topic of join requests, of which the gateway's action gets lost. *)
Asking == [NodeMapping EXCEPT ![3].topic = "/up387"]

NodeMappings ==
  {NodeMapping, NetMapping, TwiceMapped, Asking,
   Crowding("/up589", "/log119"),  \* RDR
   Crowding("/up387", "/log47"),   \* JR
   Crowding("/up9", "/log79"),     \* UPn
   Crowding("/up38", "/log4"),     \* DWn
   Crowding("/up597", "/log127"),  \* disUPn
   Crowding("/up69", "/log15")}    \* disDWn

CrowdingGateway(first, last) ==
  [ForGateway(NodeMapping) EXCEPT ![1].topic = first, ![4].topic = last]

GatewayMappings ==
  {ForGateway(NodeMapping), ForGateway(NetMapping), TwiceMapped,
   CrowdingGateway("/up387", "/log47"),  \* the topic of JR
   CrowdingGateway("/up9", "/log79"),    \* UPn
   CrowdingGateway("/up49", "/log8")}    \* JA

MCMappings == [p \in {"node", "gateway"} |->
                 IF p = "node" THEN NodeMappings ELSE GatewayMappings]

HashOf ==
  [RUS |-> 76, RDR |-> 24, JR |-> 4, JA |-> 87, UPn |-> 15, DWn |-> 83,
   disUPn |-> 25, disDWn |-> 93, disbALT |-> 73] @@
  ("/Radio/Uplink/" :> 99) @@ ("/Radio/Downlink/" :> 20) @@ ("/JoinReq" :> 37) @@
  ("/JoinAcpt" :> 47) @@ ("/Uplink" :> 88) @@ ("/Downlink" :> 27) @@
  ("/DUplink/" :> 5) @@ ("/DDownlink/1111111111271719" :> 93) @@ ("/DbALT" :> 72) @@
  ("/net68/Radio/Uplink/" :> 87) @@ ("/net68/Radio/Downlink/" :> 16) @@
  ("/net68/JoinReq" :> 57) @@ ("/net68/JoinAcpt" :> 7) @@ ("/net68/Uplink" :> 28) @@
  ("/net68/Downlink" :> 87) @@ ("/net68/DUplink/" :> 65) @@
  ("/net68/DDownlink/" :> 18) @@ ("/net68/DbALT" :> 52) @@
  ("/up589" :> 24) @@ ("/log119" :> 24) @@ ("/up387" :> 4) @@ ("/log47" :> 4) @@
  ("/up9" :> 15) @@ ("/log79" :> 15) @@ ("/up38" :> 83) @@ ("/log4" :> 83) @@
  ("/up597" :> 25) @@ ("/log127" :> 25) @@ ("/up69" :> 93) @@ ("/log15" :> 93) @@
  ("/up49" :> 87) @@ ("/log8" :> 87)

MCKeys == DOMAIN HashOf

(* Every length whose number of bytes, taken modulo 256, or whose frame    *)
(* crosses a limit, and an odd one.                                        *)
MCTextLengths == {2 * n : n \in (0 .. 2) \cup (178 .. 181) \cup (241 .. 258)
                                 \cup (434 .. 436) \cup (497 .. 512)} \cup {3, 359}

(* A server sends no frame of more than 255 bytes. *)
MCDownlinks ==
  {d \in [fopts : {0, 15}, port : {"none", "mac", "app"},
          bytes : {0, 1, 242} \cup (163 .. 166) \cup (178 .. 181),
          counter : {65535, 65536}, misstated : 0 .. 2] :
     /\ d.port = "none" => d.bytes = 0
     /\ 13 + d.fopts + d.bytes <= 255}
=============================================================================
