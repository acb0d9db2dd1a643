---------------------------- MODULE FramePath_proof ----------------------------
(***************************************************************************)
(* What arrives of an uplink and of a downlink, for every length, size and *)
(* frame counter, and whatever the configured mapping.                     *)
(***************************************************************************)
EXTENDS FramePath, TLAPS


(* The pairs of bucket b that were added so far lie from i to j. *)
Spans(p, b, i, j) ==
  /\ i \in 1 .. loaded[p] /\ Bucket(p, i) = b
  /\ j \in 1 .. loaded[p] /\ Bucket(p, j) = b
  /\ \A k \in 1 .. loaded[p] : Bucket(p, k) = b => i <= k /\ k <= j

Unused(p, b) ==
  /\ map[p][b] = <<>>
  /\ \A k \in 1 .. loaded[p] : Bucket(p, k) # b

Single(p, b) ==
  \E i \in 1 .. loaded[p] :
    /\ Spans(p, b, i, i)
    /\ map[p][b] = <<Added(p, i)>>

(* The second element has another key, for the first was looked up. *)
Double(p, b) ==
  \E i, j \in 1 .. loaded[p] :
    /\ i < j
    /\ Spans(p, b, i, j)
    /\ map[p][b] = <<Added(p, i), Added(p, j)>>
    /\ Added(p, i).key # Added(p, j).key

(* The inductive invariant: a bucket holds its first and its last pair. *)
Chains ==
  \A p \in Programs : \A b \in 0 .. Buckets - 1 :
    Unused(p, b) \/ Single(p, b) \/ Double(p, b)

RouteInv == RouteTypeOK /\ Chains
-------------------------------------------------------------------------------
(* Every pair to add is a pair of keys, with a bucket. *)
LEMMA AddedType ==
  ASSUME NEW p \in Programs, mapping[p] \in Seq([action : Keys, topic : Keys]),
         NEW i \in 1 .. Pairs(p)
  PROVE  Added(p, i) \in Pair /\ Bucket(p, i) \in 0 .. Buckets - 1
<1> DEFINE n == (i + 1) \div 2
<1>1. n \in 1 .. Len(mapping[p])
  BY SMT DEF Pairs
<1> DEFINE Items == [action : Keys, topic : Keys]
<1>2. mapping[p][n] \in Items
  <2>1. mapping[p] \in Seq(Items)
    OBVIOUS
  <2> HIDE DEF n, Items
  <2>. QED
    BY <1>1, <2>1
<1> HIDE DEF n
<1>3. Added(p, i) \in Pair
  BY <1>2 DEF Added, Pair, n
<1>. QED
  BY <1>3, RouteAssumption DEF Bucket, Pair

(* A look-up returns the value of the first element with the key. *)
LEMMA LookupFirst ==
  ASSUME NEW p \in Programs, NEW key \in Keys,
         map[p][map_hash[key]] \in Seq(Pair),
         NEW i \in DOMAIN map[p][map_hash[key]],
         map[p][map_hash[key]][i].key = key,
         \A j \in DOMAIN map[p][map_hash[key]] :
           j < i => map[p][map_hash[key]][j].key # key
  PROVE  routes_getTopicFromAction(p, key) = map[p][map_hash[key]][i].value
<1> DEFINE found == map_lookup(p, key)
           first == CHOOSE k \in found : \A j \in found : k <= j
<1>1. i \in found /\ found \subseteq Nat /\ \A j \in found : i <= j
  BY DEF map_lookup
<1>2. first = i
  <2>1. first \in found /\ \A j \in found : first <= j
    BY <1>1
  <2>. QED
    BY <1>1, <2>1
<1>. QED
  BY <1>1, <1>2 DEF routes_getTopicFromAction

LEMMA RouteInitInv == ASSUME RouteInit PROVE RouteInv
<1>1. RouteTypeOK
  <2> DEFINE Items == [action : Keys, topic : Keys]
  <2>1. \A p \in Programs : mapping[p] \in Mappings[p] /\ mapping[p] \in Seq(Items)
    BY RouteAssumption DEF RouteInit
  <2>2. mapping \in [Programs -> Seq(Items)]
    BY <2>1 DEF RouteInit
  <2>3. \A p \in Programs : loaded[p] = 0 /\ 0 <= Pairs(p)
    <3> SUFFICES ASSUME NEW p \in Programs PROVE loaded[p] = 0 /\ 0 <= Pairs(p)
      OBVIOUS
    <3>1. Len(mapping[p]) \in Nat
      BY <2>1
    <3>. QED
      BY <3>1 DEF RouteInit, Pairs
  <2>4. map \in [Programs -> [0 .. Buckets - 1 -> Seq(Pair)]]
    BY DEF RouteInit
  <2>. QED
    BY <2>1, <2>2, <2>3, <2>4 DEF RouteInit, RouteTypeOK
<1>2. Chains
  BY DEF RouteInit, Chains, Unused
<1>. QED
  BY <1>1, <1>2 DEF RouteInv

LEMMA SameChains ==
  ASSUME Chains, UNCHANGED <<mapping, loaded, map>>
  PROVE  Chains'
<1> SUFFICES ASSUME NEW p \in Programs, NEW b \in 0 .. Buckets - 1
             PROVE  (Unused(p, b) \/ Single(p, b) \/ Double(p, b))'
  BY DEF Chains
<1>1. \A i : Added(p, i)' = Added(p, i) /\ Bucket(p, i)' = Bucket(p, i)
  BY DEF Added, Bucket
<1>2. Unused(p, b) => Unused(p, b)'
  BY <1>1 DEF Unused
<1>3. \A i, j : Spans(p, b, i, j) => Spans(p, b, i, j)'
  BY <1>1 DEF Spans
<1>4. Single(p, b) => Single(p, b)'
  BY <1>1, <1>3 DEF Single
<1>5. Double(p, b) => Double(p, b)'
  BY <1>1, <1>3 DEF Double
<1>. QED
  BY <1>2, <1>4, <1>5 DEF Chains

(* Adding a pair: its bucket's first pair stays, and it is the last one.   *)
LEMMA AddKeepsChains ==
  ASSUME NEW q \in Programs, RouteInv, map_addElement(q)
  PROVE  RouteInv'
<1>0. PICK n, new, h : n = loaded[q] + 1 /\ new = Added(q, n) /\ h = map_hash[new.key]
  OBVIOUS
<1> USE DEF RouteInv
<1>1. /\ mapping' = mapping
      /\ \A p \in Programs : mapping[p] \in Seq([action : Keys, topic : Keys])
      /\ \A p \in Programs : loaded[p] \in Nat
  BY DEF RouteTypeOK, map_addElement
<1>2. n \in 1 .. Pairs(q) /\ Pairs(q) \in Nat
  BY <1>0, <1>1 DEF map_addElement, Pairs
<1>3. new \in Pair /\ h \in 0 .. Buckets - 1 /\ h = Bucket(q, n)
  BY <1>0, <1>1, <1>2, AddedType DEF Bucket
<1>4. \A p, i : Added(p, i)' = Added(p, i) /\ Bucket(p, i)' = Bucket(p, i)
  BY <1>1 DEF Added, Bucket
<1>5. CASE map_lookup(q, new.key) # {}
  <2>1. UNCHANGED <<mapping, loaded, map>> /\ boot' = [boot EXCEPT ![q] = "exited"]
    BY <1>0, <1>5, <1>1 DEF map_addElement
  <2>2. RouteTypeOK'
    BY <2>1 DEF RouteTypeOK, Pairs
  <2>3. Chains'
    BY <2>1, SameChains
  <2>. QED
    BY <2>2, <2>3
<1>6. CASE map_lookup(q, new.key) = {}
  <2>1. /\ map' = [map EXCEPT ![q][h] = Chained(@, new)]
        /\ loaded' = [loaded EXCEPT ![q] = @ + 1]
        /\ boot' = boot
    BY <1>0, <1>6 DEF map_addElement
  <2>2. \A c \in Seq(Pair) : Chained(c, new) \in Seq(Pair)
    <3> SUFFICES ASSUME NEW c \in Seq(Pair) PROVE Chained(c, new) \in Seq(Pair)
      OBVIOUS
    <3>1. c # <<>> => c[1] \in Pair
      OBVIOUS
    <3>. QED
      BY <1>3, <3>1 DEF Chained
  <2>3. RouteTypeOK'
    <3>1. map' \in [Programs -> [0 .. Buckets - 1 -> Seq(Pair)]]
      BY <2>1, <2>2, <1>3 DEF RouteTypeOK
    <3>2. \A p \in Programs : loaded'[p] \in Nat /\ loaded'[p] <= Pairs(p)
      BY <1>0, <2>1, <1>1, <1>2 DEF RouteTypeOK
    <3>. QED
      BY <1>1, <2>1, <3>1, <3>2 DEF RouteTypeOK, Pairs
  <2>4. Chains'
    <3> SUFFICES ASSUME NEW p \in Programs, NEW b \in 0 .. Buckets - 1
                 PROVE  (Unused(p, b) \/ Single(p, b) \/ Double(p, b))'
      BY DEF Chains
    <3>1. CASE p # q \/ b # h
      <4>1. map'[p][b] = map[p][b]
        BY <3>1, <2>1, <1>3 DEF RouteTypeOK
      <4>2. /\ 1 .. loaded[p] \subseteq 1 .. loaded'[p]
            /\ \A k \in 1 .. loaded'[p] :
                 k \in 1 .. loaded[p] \/ Bucket(p, k) # b
        <5>1. CASE p # q
          BY <5>1, <2>1 DEF RouteTypeOK
        <5>2. CASE p = q /\ b # h
          <6>1. loaded'[q] = n
            BY <1>0, <2>1 DEF RouteTypeOK
          <6>. QED
            BY <1>0, <5>2, <6>1, <1>1, <1>3
        <5>. QED
          BY <3>1, <5>1, <5>2
      <4>3. Unused(p, b) => Unused(p, b)'
        BY <4>1, <4>2, <1>4 DEF Unused
      <4>4. \A i, j : Spans(p, b, i, j) => Spans(p, b, i, j)'
        BY <4>2, <1>4 DEF Spans
      <4>5. Single(p, b) => Single(p, b)'
        BY <4>1, <4>2, <4>4, <1>4 DEF Single
      <4>6. Double(p, b) => Double(p, b)'
        BY <4>1, <4>2, <4>4, <1>4 DEF Double
      <4>. QED
        BY <4>3, <4>5, <4>6 DEF Chains
    <3>2. CASE p = q /\ b = h
      <4> DEFINE old == map[q][h]
      <4>1. map'[q][h] = Chained(old, new) /\ loaded'[q] = n /\ n \notin 1 .. loaded[q]
        <5>1. map'[q][h] = Chained(old, new)
          BY <2>1, <1>3 DEF RouteTypeOK
        <5>2. loaded'[q] = n
          BY <1>0, <2>1 DEF RouteTypeOK
        <5>3. n \notin 1 .. loaded[q]
          BY <1>0, <1>1
        <5>. QED
          BY <5>1, <5>2, <5>3
      <4>2. \A k \in 1 .. loaded'[q] : k \in 1 .. loaded[q] \/ k = n
        BY <1>0, <4>1, <1>1
      <4>3. n \in 1 .. loaded'[q] /\ 1 .. loaded[q] \subseteq 1 .. loaded'[q]
        BY <1>0, <4>1, <1>1
      <4>4. CASE Unused(q, h)
        <5>1. map'[q][h] = <<new>>
          BY <4>1, <4>4 DEF Unused, Chained
        <5>2. Spans(q, h, n, n)'
          BY <4>2, <4>3, <4>4, <1>1, <1>3, <1>4 DEF Unused, Spans
        <5>3. Single(q, h)'
          BY <1>0, <5>1, <5>2, <4>3, <1>4 DEF Single
        <5>. QED
          BY <5>3, <3>2
      <4>5. ASSUME NEW i \in 1 .. loaded[q], NEW j \in 1 .. loaded[q],
                   Spans(q, h, i, j), old # <<>>, old[1] = Added(q, i)
            PROVE  Double(q, h)'
        <5>1. map'[q][h] = <<Added(q, i), new>>
          BY <4>1, <4>5 DEF Chained
        <5>2. old \in Seq(Pair) /\ 1 \in DOMAIN old
          <6>1. old \in Seq(Pair)
            BY <1>3 DEF RouteTypeOK
          <6> HIDE DEF old
          <6>. QED
            BY <6>1, <4>5
        <5>3. Added(q, i).key # new.key
          BY <1>0, <5>2, <4>5, <1>6 DEF map_lookup
        <5>4. i < n
          BY <1>0, <1>1
        <5>5. Spans(q, h, i, n)'
          <6>1. \A k \in 1 .. loaded[q] : Bucket(q, k) = h => i <= k /\ k <= n
            BY <1>0, <4>5, <1>1 DEF Spans
          <6>. QED
            BY <6>1, <5>4, <4>5, <4>2, <4>3, <1>1, <1>3, <1>4 DEF Spans
        <5>. QED
          BY <1>0, <5>1, <5>3, <5>4, <5>5, <4>3, <1>4 DEF Double
      <4>6. CASE Single(q, h)
        BY <4>5, <4>6, <3>2 DEF Single
      <4>7. CASE Double(q, h)
        BY <4>5, <4>7, <3>2 DEF Double
      <4>. QED
        BY <4>4, <4>6, <4>7, <3>2, <1>3 DEF Chains
    <3>. QED
      BY <3>1, <3>2
  <2>. QED
    BY <2>3, <2>4
<1>. QED
  BY <1>5, <1>6

LEMMA RouteNextInv == ASSUME RouteInv, [RouteNext]_routeVars PROVE RouteInv'
<1>1. ASSUME NEW p \in Programs, map_addElement(p) PROVE RouteInv'
  BY <1>1, AddKeepsChains
<1>2. ASSUME UNCHANGED <<mapping, loaded, map>>,
             boot' \in [Programs -> {"loading", "running", "exited"}]
      PROVE  RouteInv'
  BY <1>2, SameChains DEF RouteInv, RouteTypeOK, Pairs
<1>3. ASSUME NEW p \in Programs, parse_actions_informations(p) PROVE RouteInv'
  BY <1>2, <1>3 DEF parse_actions_informations, RouteInv, RouteTypeOK
<1>4. CASE UNCHANGED routeVars
  BY <1>2, <1>4 DEF routeVars, RouteInv, RouteTypeOK
<1>. QED
  BY <1>1, <1>3, <1>4 DEF RouteNext

(* The first and the last pair of a bucket are where a look-up finds them. *)
LEMMA ChainsFind == ASSUME RouteInv PROVE PairsFound
<1> SUFFICES ASSUME NEW p \in Programs, NEW i \in 1 .. loaded[p], ~Between(p, i)
             PROVE  routes_getTopicFromAction(p, Added(p, i).key) = Added(p, i).value
  BY DEF PairsFound
<1> DEFINE key   == Added(p, i).key
           b     == Bucket(p, i)
           chain == map[p][b]
<1>1. Added(p, i) \in Pair /\ b \in 0 .. Buckets - 1
  <2>1. i \in 1 .. Pairs(p)
    <3>1. Len(mapping[p]) \in Nat
      BY DEF RouteInv, RouteTypeOK
    <3>. QED
      BY <3>1 DEF RouteInv, RouteTypeOK, Pairs
  <2>. QED
    BY <2>1, AddedType DEF RouteInv, RouteTypeOK
<1>2. key \in Keys /\ b = map_hash[key]
  BY <1>1 DEF Pair, Bucket
<1>3. chain \in Seq(Pair)
  BY <1>1 DEF RouteInv, RouteTypeOK
<1>4. ASSUME NEW n \in DOMAIN chain, chain[n] = Added(p, i),
             \A j \in DOMAIN chain : j < n => chain[j].key # key
      PROVE  routes_getTopicFromAction(p, key) = Added(p, i).value
  <2>1. chain = map[p][map_hash[key]]
    BY <1>2
  <2> HIDE DEF b, key
  <2>. QED
    BY <2>1, <1>2, <1>3, <1>4, LookupFirst DEF key
<1>5. CASE Unused(p, b)
  BY <1>5 DEF Unused
<1>6. CASE Single(p, b)
  <2>1. chain = <<Added(p, i)>>
    <3>1. PICK k \in 1 .. loaded[p] : Spans(p, b, k, k) /\ chain = <<Added(p, k)>>
      BY <1>6 DEF Single
    <3>2. i = k
      BY <3>1 DEF Spans
    <3>. QED
      BY <3>1, <3>2
  <2>. QED
    BY <2>1, <1>4
<1>7. CASE Double(p, b)
  <2>1. PICK f, l \in 1 .. loaded[p] :
          /\ Spans(p, b, f, l)
          /\ chain = <<Added(p, f), Added(p, l)>>
          /\ Added(p, f).key # Added(p, l).key
    BY <1>7 DEF Double
  <2>2. i = f \/ i = l
    <3> SUFFICES ASSUME i # f, i # l PROVE FALSE
      OBVIOUS
    <3>1. f < i /\ i < l
      BY <2>1 DEF Spans
    <3>2. f \in 1 .. i - 1 /\ l \in i + 1 .. loaded[p]
      BY <3>1 DEF RouteInv, RouteTypeOK
    <3>. QED
      BY <3>2, <2>1 DEF Spans, Between
  <2>3. CASE i = f
    BY <2>1, <2>3, <1>4
  <2>4. CASE i = l
    BY <2>1, <2>4, <1>4
  <2>. QED
    BY <2>2, <2>3, <2>4
<1>. QED
  BY <1>1, <1>5, <1>6, <1>7 DEF RouteInv, Chains

(* The map and what was loaded into it keep their types.                   *)
THEOREM RouteTypeCorrect == RouteSpec => []RouteTypeOK
<1>1. RouteInit => RouteInv
  BY RouteInitInv
<1>2. RouteInv /\ [RouteNext]_routeVars => RouteInv'
  BY RouteNextInv
<1>3. RouteInv => RouteTypeOK
  BY DEF RouteInv
<1>. QED
  BY <1>1, <1>2, <1>3, PTL DEF RouteSpec

(* The first and the last pair that map_addElement put into a bucket are   *)
(* found by their keys, whatever the hash and the configured mapping.      *)
THEOREM PairsAlwaysFound == RouteSpec => []PairsFound
<1>1. RouteInit => RouteInv
  BY RouteInitInv
<1>2. RouteInv /\ [RouteNext]_routeVars => RouteInv'
  BY RouteNextInv
<1>3. RouteInv => PairsFound
  BY ChainsFind
<1>. QED
  BY <1>1, <1>2, <1>3, PTL DEF RouteSpec
-------------------------------------------------------------------------------

(* Only booting touches the route map. *)
LEMMA StepOfRoutes == ASSUME [Next]_vars PROVE [RouteNext]_routeVars
BY DEF Next, vars, Boot, send_join_request_await_accept, ListenFails, AskToJoin,
       Disseminate, send_uplink_no_ack, on_message_received, thread_up,
       DriverTransmits, ServerTakes, ServerSends, lgw_send, JoinAcceptArrived,
       DownlinkArrived, Arrived, HandedIn, Publish, Arrives, EndsProcess

(* The first and the last pair of a bucket of a program's route map are    *)
(* found, at boot and while frames pass.                                   *)
THEOREM PairsFoundThroughout == Spec => []PairsFound
<1>1. Init => RouteInit
  BY DEF Init
<1>2. [Next]_vars => [RouteNext]_routeVars
  BY StepOfRoutes
<1>3. RouteInit => RouteInv
  BY RouteInitInv
<1>4. RouteInv /\ [RouteNext]_routeVars => RouteInv'
  BY RouteNextInv
<1>5. RouteInv => PairsFound
  BY ChainsFind
<1>. QED
  BY <1>1, <1>2, <1>3, <1>4, <1>5, PTL DEF Spec
-------------------------------------------------------------------------------
(* What the server gets of an uplink frame, directly or by the gateway. *)
Taken(f) == IF f.mic THEN Clear(f.bytes) ELSE Nothing

AtServer(m) ==
  LET f == serialize_hex_uplink(m.length)
  IN  Taken(IF m.radio THEN f ELSE ngw_json_to_packet(f))

(* Where an uplink is, and that the frame is the one made of its text. *)
UplinkInv ==
  message.kind = "uplink" =>
    /\ message.radio \in BOOLEAN /\ message.length \in Nat
    /\ place \in {"uplink", "to_gateway", "driver", "stack", "server",
                  "refused", "ended"}
    /\ place = "to_gateway" =>
         ~message.radio /\ frame = serialize_hex_uplink(message.length)
    /\ place = "driver" =>
         message.radio /\ frame = serialize_hex_uplink(message.length)
    /\ place = "stack" =>
         /\ ~message.radio
         /\ frame = ngw_json_to_packet(serialize_hex_uplink(message.length))
    /\ place = "server" => got = AtServer(message)

(* A frame that fits its buffer has a right MIC exactly if it has a port.  *)
LEMMA UplinkFrame ==
  ASSUME NEW b \in 0 .. 255
  PROVE  /\ serialize_uplink(b).mic <=> b \in 1 .. 242
         /\ serialize_uplink(b).bytes = b
         /\ b \in 1 .. 242 => serialize_uplink(b).size = 13 + b
<1>1. (13 + b) % 256 = IF b <= 242 THEN 13 + b ELSE b - 243
  BY SMT
<1>2. b <= 246 => (9 + b) % 256 = 9 + b
  BY SMT
<1> DEFINE room    == (13 + b) % 256
           needed  == 12 + (IF b > 0 THEN 1 ELSE 0) + b
           written == needed <= room
           right   == written /\ (9 + b) % 256 = (IF written THEN needed ELSE room) - 4
<1>3. serialize_uplink(b) = [size  |-> IF written THEN needed ELSE room,
                             mic   |-> right,
                             bytes |-> b]
  BY DEF serialize_uplink, LoRaMacSerializerData, LoRaMacComputeMic, Byte
<1>4. right <=> b \in 1 .. 242
  BY <1>1, <1>2
<1>5. b \in 1 .. 242 => written /\ needed = 13 + b
  BY <1>1
<1> HIDE DEF room, needed, written, right
<1>6. serialize_uplink(b).mic = right
  BY <1>3
<1>7. serialize_uplink(b).bytes = b
  BY <1>3
<1>8. serialize_uplink(b).size = IF written THEN needed ELSE room
  BY <1>3
<1>9. b \in 1 .. 242 => serialize_uplink(b).size = 13 + b
  BY <1>5, <1>8
<1>. QED
  BY <1>4, <1>6, <1>7, <1>9

LEMMA UplinkArrives ==
  ASSUME NEW length \in Nat, NEW radio \in BOOLEAN,
         NEW m, m.length = length, m.radio = radio
  PROVE  LET sent == length \div 2
         IN  /\ AtServer(m) = Clear(sent) <=>
                  sent \in 1 .. (IF radio THEN 242 ELSE 179)
             /\ AtServer(m) # Nothing =>
                  \/ AtServer(m).bytes = sent
                  \/ sent >= 256 /\ AtServer(m).bytes < sent
<1> DEFINE f == serialize_hex_uplink(length)
           n == length \div 2
           b == n % 256
<1>0. n \in Nat /\ b \in 0 .. 255 /\ (n < 256 => b = n) /\ b <= n
  <2>1. n \in Nat
    BY SMT
  <2> HIDE DEF n
  <2>. QED
    BY <2>1, SMT
<1>1. /\ f.mic <=> b \in 1 .. 242
      /\ f.bytes = b
      /\ b \in 1 .. 242 => f.size = 13 + b
  <2>1. f = serialize_uplink(b)
    BY DEF serialize_hex_uplink, Byte
  <2> HIDE DEF f, b
  <2>. QED
    BY <1>0, <2>1, UplinkFrame, ZenonT(30)
<1>2. AtServer(m) = Taken(IF radio THEN f ELSE ngw_json_to_packet(f))
  BY DEF AtServer
<1>3. \A k : Clear(k) # Nothing /\ Clear(k).bytes = k
  BY DEF Clear, Nothing
<1> HIDE DEF f, n, b
<1>4. b \in 1 .. 242 => (bin_to_b64(f.size) > 256 <=> b > 179)
  BY <1>1, SMT DEF bin_to_b64
<1>5. AtServer(m) = IF b \in 1 .. (IF radio THEN 242 ELSE 179)
                      THEN Clear(b) ELSE Nothing
  <2>1. CASE radio
    BY <1>0, <1>1, <1>2, <2>1 DEF Taken
  <2>2. CASE ~radio /\ bin_to_b64(f.size) > 256
    BY <1>0, <1>1, <1>2, <1>4, <2>2 DEF Taken, ngw_json_to_packet, Empty
  <2>3. CASE ~radio /\ ~(bin_to_b64(f.size) > 256)
    BY <1>0, <1>1, <1>2, <1>4, <2>3 DEF Taken, ngw_json_to_packet
  <2>. QED
    BY <2>1, <2>2, <2>3
<1>. QED
  BY <1>0, <1>3, <1>5 DEF n

LEMMA UplinkInvInit == ASSUME Init PROVE UplinkInv
BY DEF Init, FrameInit, UplinkInv

LEMMA UplinkInvNext == ASSUME UplinkInv, [Next]_vars PROVE UplinkInv'
<1>1. ASSUME message.kind # "uplink", message' = message PROVE UplinkInv'
  BY <1>1 DEF UplinkInv
<1>2. ASSUME NEW m, NEW f, NEW to, HandedIn(m, f, to), m.kind # "uplink"
      PROVE  UplinkInv'
  BY <1>2 DEF HandedIn, UplinkInv
<1>3. ASSUME NEW from, EndsProcess(from) PROVE UplinkInv'
  BY <1>3 DEF EndsProcess, UplinkInv
<1>4. CASE send_join_request_await_accept
  BY <1>2, <1>4 DEF send_join_request_await_accept
<1>5. CASE ListenFails
  BY <1>3, <1>5 DEF ListenFails
<1>6. CASE AskToJoin
  BY <1>1, <1>6 DEF AskToJoin, Publish, UplinkInv
<1>7. CASE Disseminate
  BY <1>7, FrameAssumption DEF Disseminate, HandedIn, UplinkInv
<1>8. CASE send_uplink_no_ack
  <2>1. CASE EndsProcess("uplink")
    BY <2>1, <1>3
  <2>2. ASSUME frame' = serialize_hex_uplink(message.length),
               IF message.radio THEN Publish("node", "uplink", "RUS", "driver")
                                ELSE Publish("node", "uplink", "UPn", "to_gateway")
        PROVE  UplinkInv'
    BY <2>2 DEF Publish, UplinkInv
  <2>. QED
    BY <1>8, <2>1, <2>2 DEF send_uplink_no_ack
<1>9. CASE on_message_received
  BY <1>3, <1>9 DEF on_message_received, Arrives, UplinkInv
<1>10. CASE thread_up \/ DriverTransmits
  BY <1>10 DEF thread_up, DriverTransmits, ServerTakes, Arrives, UplinkInv,
               AtServer, Taken
<1>11. CASE ServerSends
  <2>1. ASSUME NEW radio \in BOOLEAN, NEW f, NEW to,
               HandedIn([kind |-> "accept", radio |-> radio], f, to)
        PROVE  UplinkInv'
    BY <2>1, <1>2
  <2>2. ASSUME NEW radio \in BOOLEAN, NEW d, NEW f, NEW to,
               HandedIn([kind |-> "downlink", radio |-> radio, sent |-> d], f, to)
        PROVE  UplinkInv'
    BY <2>2, <1>2
  <2>. QED
    BY <1>11, <2>1, <2>2 DEF ServerSends
<1>12. CASE lgw_send
  BY <1>1, <1>12 DEF lgw_send, Publish, UplinkInv
<1>13. CASE JoinAcceptArrived
  BY <1>1, <1>13 DEF JoinAcceptArrived, Arrives, EndsProcess
<1>14. CASE DownlinkArrived
  BY <1>1, <1>14 DEF DownlinkArrived, Arrives, EndsProcess
<1>15. CASE Arrived
  BY <1>15 DEF Arrived, UplinkInv
<1>16. CASE Boot \/ UNCHANGED vars
  BY <1>16 DEF Boot, vars, pathVars, UplinkInv, AtServer
<1>. QED
  BY <1>4, <1>5, <1>6, <1>7, <1>8, <1>9, <1>10, <1>11, <1>12, <1>13, <1>14,
     <1>15, <1>16 DEF Next

(* The server has an uplink as it was sent exactly if its text has 1 to    *)
(* 179 bytes, 242 by radio; any other that arrives was cut modulo 256.     *)
THEOREM UplinksAsSent == Spec => []UplinkAsSent
<1>1. UplinkInv => UplinkAsSent
  <2> SUFFICES ASSUME UplinkInv, place = "server", message.kind = "uplink"
               PROVE  UplinkAsSent
    BY DEF UplinkAsSent
  <2>1. /\ message.length \in Nat /\ message.radio \in BOOLEAN
        /\ got = AtServer(message)
    BY DEF UplinkInv
  <2>. QED
    BY <2>1, UplinkArrives DEF UplinkAsSent
<1>. QED
  BY <1>1, UplinkInvInit, UplinkInvNext, PTL DEF Spec
-------------------------------------------------------------------------------
(* Where an accept or a downlink is, and that its frame is what the server *)
(* sent.                                                                   *)
DownlinkInv ==
  /\ message.kind = "accept" =>
       /\ frame.mic /\ frame.size \in {17, 33}
       /\ place \in {"resp", "to_node", "node", "refused", "ended"}
  /\ message.kind = "downlink" =>
       /\ message.radio \in BOOLEAN /\ message.sent \in Downlink
       /\ place \in {"resp", "to_node", "disseminator", "refused", "ended"}
       /\ place \in {"resp", "to_node"} => frame = txpkt(message.sent)
       /\ place = "disseminator" =>
            got \in deserialize_downlink(
                    IF message.radio THEN txpkt(message.sent)
                                     ELSE ngw_json_to_packet(txpkt(message.sent)),
                    message.sent)
  /\ place = "node" => message.kind = "accept" /\ got = Clear(0)
  /\ place = "disseminator" => message.kind = "downlink"

(* What the disseminator gets of a downlink, by radio or by the gateway.   *)
LEMMA DownlinkArrives ==
  ASSUME NEW d \in Downlink, NEW radio \in BOOLEAN,
         NEW g \in deserialize_downlink(
                     IF radio THEN txpkt(d) ELSE ngw_json_to_packet(txpkt(d)), d)
  PROVE  LET payload == IF d.port = "none" THEN 0 ELSE d.bytes
         IN  /\ g # Nothing <=> /\ d.misstated = 0 /\ d.counter < 65536
                                /\ radio \/ FrameSize(d) <= 192
             /\ g # Nothing /\ payload > 0 => (g = Clear(payload) <=> d.port = "app")
<1> DEFINE f == IF radio THEN txpkt(d) ELSE ngw_json_to_packet(txpkt(d))
           n == IF d.port = "none" THEN 0 ELSE d.bytes
<1>1. /\ d.fopts \in 0 .. 15 /\ d.bytes \in 0 .. 242 /\ d.counter \in Nat
      /\ d.misstated \in {0, 1, 2} /\ FrameSize(d) \in Nat
  BY DEF Downlink, FrameSize
<1> DEFINE size == IF d.misstated = 2 THEN FrameSize(d) - 1
                                      ELSE FrameSize(d) + d.misstated
           right == d.misstated = 0
<1>1a. txpkt(d).mic = right /\ txpkt(d).size = size
  <2>1. txpkt(d) = [size |-> size, mic |-> right, bytes |-> d.bytes]
    BY DEF txpkt
  <2> HIDE DEF size, right
  <2>. QED
    BY <2>1
<1>2. CASE d.misstated # 0 \/ d.counter >= 65536 \/ (~radio /\ FrameSize(d) > 192)
  <2>1. ~f.mic \/ d.counter >= 65536
    <3>1. CASE d.misstated # 0
      <4>1. ~txpkt(d).mic
        BY <3>1, <1>1a
      <4>. QED
        BY <4>1 DEF ngw_json_to_packet, Empty
    <3>2. CASE d.misstated = 0 /\ ~radio /\ FrameSize(d) > 192
      <4>1. txpkt(d).size = FrameSize(d)
        BY <1>1, <1>1a, <3>2
      <4>2. bin_to_b64(txpkt(d).size) > 256
        BY <1>1, <3>2, <4>1, SMT DEF bin_to_b64
      <4>. QED
        BY <3>2, <4>2 DEF ngw_json_to_packet, Empty
    <3>. QED
      BY <1>2, <3>1, <3>2
  <2>2. g = Nothing
    BY <2>1 DEF deserialize_downlink
  <2>. QED
    BY <1>1, <1>2, <2>2
<1>3. CASE d.misstated = 0 /\ d.counter < 65536 /\ (radio \/ FrameSize(d) <= 192)
  <2>1. f = txpkt(d) /\ txpkt(d).mic /\ txpkt(d).size = FrameSize(d)
    <3>1. txpkt(d).mic /\ txpkt(d).size = FrameSize(d)
      <4>1. right /\ size = FrameSize(d)
        BY <1>1, <1>3
      <4> HIDE DEF right, size
      <4>. QED
        BY <4>1, <1>1a
    <3>2. ~radio => ~(bin_to_b64(txpkt(d).size) > 256)
      BY <1>1, <1>3, <3>1, SMT DEF bin_to_b64
    <3>. QED
      BY <3>1, <3>2 DEF ngw_json_to_packet
  <2>2. LoRaMacParserData(FrameSize(d), d) = n
    <3>1. CASE d.port = "none"
      <4>1. FrameSize(d) = 12 + d.fopts
        <5>1. FrameSize(d) = 12 + d.fopts + 0
          BY <3>1, Zenon DEF FrameSize
        <5>2. \A o \in 0 .. 15 : 12 + o + 0 = 12 + o
          OBVIOUS
        <5>. QED
          BY <1>1, <5>1, <5>2
      <4>. QED
        BY <3>1, <4>1, <1>1 DEF LoRaMacParserData
    <3>2. CASE d.port # "none"
      <4>1. FrameSize(d) = 13 + d.fopts + d.bytes
        <5>1. FrameSize(d) = 12 + d.fopts + (1 + d.bytes)
          BY <3>2, Zenon DEF FrameSize
        <5>2. \A o \in 0 .. 15, b \in 0 .. 242 : 12 + o + (1 + b) = 13 + o + b
          OBVIOUS
        <5>. QED
          BY <1>1, <5>1, <5>2
      <4>. QED
        <5>1. n = d.bytes
          BY <3>2
        <5>2. FrameSize(d) - d.fopts - 12 > 0 /\ FrameSize(d) - d.fopts - 13 = d.bytes
          <6>1. PICK o \in 0 .. 15, b \in 0 .. 242 : o = d.fopts /\ b = d.bytes
            BY <1>1
          <6> DEFINE s == FrameSize(d)
          <6> HIDE DEF s
          <6>2. s = 13 + o + b
            BY <4>1, <6>1 DEF s
          <6>3. s - o - 12 > 0 /\ s - o - 13 = b
            BY <6>2
          <6>. QED
            BY <6>1, <6>3 DEF s
        <5>. QED
          BY <5>1, <5>2 DEF LoRaMacParserData
    <3>. QED
      BY <3>1, <3>2
  <2>3. g \in IF n = 0 THEN {Clear(0), Garbled}
                       ELSE {IF d.port = "mac" THEN Garbled ELSE Clear(n)}
    BY <1>1, <1>3, <2>1, <2>2 DEF deserialize_downlink
  <2>4. Garbled # Clear(n) /\ Nothing # Garbled /\ Nothing # Clear(n)
    BY DEF Clear, Garbled, Nothing
  <2>5. g # Nothing
    BY <2>3, <2>4
  <2>6. n > 0 => d.port \in {"mac", "app"} /\ n # 0
    BY <1>1 DEF Downlink
  <2>7. n > 0 => (g = Clear(n) <=> d.port = "app")
    BY <2>3, <2>4, <2>6
  <2>. QED
    BY <1>1, <1>3, <2>5, <2>7
<1>. QED
  BY <1>1, <1>2, <1>3

(* An accept of 17 or 33 bytes fits a packet, and is parsed. *)
LEMMA AcceptArrives ==
  ASSUME NEW f, f.mic, f.size \in {17, 33}
  PROVE  generateJoinAccept(f) = Clear(0) /\ ngw_json_to_packet(f) = f
<1>1. ~(bin_to_b64(f.size) > 256)
  BY SMT DEF bin_to_b64
<1>2. LoRaMacParserJoinAccept(f.size)
  BY DEF LoRaMacParserJoinAccept
<1>. QED
  BY <1>1, <1>2 DEF generateJoinAccept, ngw_json_to_packet

LEMMA DownlinkInvInit == ASSUME Init PROVE DownlinkInv
BY DEF Init, FrameInit, DownlinkInv

LEMMA DownlinkInvNext == ASSUME DownlinkInv, [Next]_vars PROVE DownlinkInv'
<1> DEFINE other == message.kind \notin {"accept", "downlink"}
<1>1. ASSUME other, message' = message, place' \notin {"node", "disseminator"}
      PROVE  DownlinkInv'
  BY <1>1 DEF DownlinkInv
<1>2. ASSUME NEW from, EndsProcess(from) PROVE DownlinkInv'
  BY <1>2 DEF EndsProcess, DownlinkInv
<1>3. CASE send_join_request_await_accept
  BY <1>3 DEF send_join_request_await_accept, HandedIn, DownlinkInv
<1>4. CASE ListenFails
  BY <1>2, <1>4 DEF ListenFails
<1>5. CASE AskToJoin
  <2>1. other /\ message' = message /\ place' \notin {"node", "disseminator"}
    BY <1>5 DEF AskToJoin, Publish, DownlinkInv
  <2>. QED
    BY <2>1, <1>1
<1>6. CASE Disseminate
  BY <1>6 DEF Disseminate, HandedIn, DownlinkInv
<1>7. CASE send_uplink_no_ack
  <2>1. CASE EndsProcess("uplink")
    BY <2>1, <1>2
  <2>2. ASSUME IF message.radio THEN Publish("node", "uplink", "RUS", "driver")
                                ELSE Publish("node", "uplink", "UPn", "to_gateway")
        PROVE  DownlinkInv'
    <3>1. other /\ message' = message /\ place' \notin {"node", "disseminator"}
      BY <2>2 DEF Publish, DownlinkInv
    <3>. QED
      BY <3>1, <1>1
  <2>. QED
    BY <1>7, <2>1, <2>2 DEF send_uplink_no_ack
<1>8. CASE on_message_received
  <2>1. other /\ message' = message /\ place' \notin {"node", "disseminator"}
    BY <1>8 DEF on_message_received, Arrives, EndsProcess, DownlinkInv
  <2>. QED
    BY <2>1, <1>1
<1>9. CASE thread_up \/ DriverTransmits
  <2>1. other /\ message' = message /\ place' \notin {"node", "disseminator"}
    BY <1>9 DEF thread_up, DriverTransmits, ServerTakes, Arrives, DownlinkInv
  <2>. QED
    BY <2>1, <1>1
<1>10. CASE ServerSends
  <2>1. ASSUME NEW radio \in BOOLEAN, NEW size \in Accepts,
               HandedIn([kind |-> "accept", radio |-> radio],
                        [size |-> size, mic |-> TRUE, bytes |-> 0],
                        IF radio THEN "to_node" ELSE "resp")
        PROVE  DownlinkInv'
    BY <2>1, FrameAssumption DEF HandedIn, DownlinkInv
  <2>2. ASSUME NEW radio \in BOOLEAN, NEW d \in Downlinks,
               HandedIn([kind |-> "downlink", radio |-> radio, sent |-> d],
                        txpkt(d), IF radio THEN "to_node" ELSE "resp")
        PROVE  DownlinkInv'
    BY <2>2, FrameAssumption DEF HandedIn, DownlinkInv
  <2>. QED
    BY <1>10, <2>1, <2>2 DEF ServerSends
<1>11. CASE lgw_send
  BY <1>11 DEF lgw_send, Publish, DownlinkInv
<1>12. CASE JoinAcceptArrived
  <2>1. CASE EndsProcess("to_node")
    BY <2>1, <1>2
  <2>2. ASSUME Arrives("to_node", "node"), message.kind = "accept",
               frame' = Received, got' = generateJoinAccept(frame')
        PROVE  DownlinkInv'
    <3>1. frame' = frame /\ got' = Clear(0)
      BY <2>2, AcceptArrives DEF Received, DownlinkInv
    <3>. QED
      BY <2>2, <3>1 DEF Arrives, DownlinkInv
  <2>. QED
    BY <1>12, <2>1, <2>2 DEF JoinAcceptArrived
<1>13. CASE DownlinkArrived
  <2>1. ASSUME EndsProcess("to_node") PROVE DownlinkInv'
    BY <2>1, <1>2
  <2>2. ASSUME Arrives("to_node", "disseminator"), message.kind = "downlink",
               frame' = Received, got' \in deserialize_downlink(frame', message.sent)
        PROVE  DownlinkInv'
    BY <2>2 DEF Arrives, Received, DownlinkInv
  <2>. QED
    BY <1>13, <2>1, <2>2 DEF DownlinkArrived
<1>14. CASE Arrived
  BY <1>14 DEF Arrived, DownlinkInv
<1>15. CASE Boot \/ UNCHANGED vars
  BY <1>15 DEF Boot, vars, pathVars, DownlinkInv
<1>. QED
  BY <1>3, <1>4, <1>5, <1>6, <1>7, <1>8, <1>9, <1>10, <1>11, <1>12, <1>13,
     <1>14, <1>15 DEF Next

(* The disseminator hears of a downlink exactly if txpk.size is right, the *)
(* counter fits 16 bits and the frame is short enough for a packet or came *)
(* by radio; it gets the payload sent, unless that was empty or a command  *)
(* of the MAC layer; every accept arrives.                                 *)
THEOREM DownlinksAsSent == Spec => []DownlinkAsSent
<1>1. DownlinkInv => DownlinkAsSent
  BY DownlinkArrives DEF DownlinkInv, DownlinkAsSent
<1>. QED
  BY <1>1, DownlinkInvInit, DownlinkInvNext, PTL DEF Spec
-------------------------------------------------------------------------------
Packets == [size : 0 .. 256, mic : BOOLEAN, bytes : 0 .. 255]

(* The types of the path; only an uplink's text waits for its frame.       *)
PathTyped ==
  /\ place \in {"none", "ask", "ask_radio", "uplink", "to_gateway", "driver",
                "stack", "server", "resp", "to_node", "node", "disseminator",
                "refused", "ended"}
  /\ topic \in Keys \cup {NULL}
  /\ frame \in Packets
  /\ got.kind \in {"nothing", "clear", "garbled"}
  /\ place = "stack" => frame.size <= 192
  /\ place = "uplink" => message.kind = "uplink"

(* A lookup gives a key or nothing: of the two elements a bucket has at    *)
(* most there is a first one with the key looked up.                       *)
LEMMA TopicType ==
  ASSUME RouteInv, NEW p \in Programs, NEW key \in Keys
  PROVE  Topic(p, key) \in Keys \cup {NULL}
<1> DEFINE b == map_hash[key]
           chain == map[p][b]
           found == map_lookup(p, key)
<1>1. b \in 0 .. Buckets - 1
  BY RouteAssumption
<1>2. chain \in Seq(Pair)
  BY <1>1 DEF RouteInv, RouteTypeOK
<1>3. Len(chain) \in 0 .. 2
  <2>1. CASE Unused(p, b)
    BY <2>1 DEF Unused
  <2>2. CASE Single(p, b)
    BY <2>2 DEF Single
  <2>3. CASE Double(p, b)
    BY <2>3 DEF Double
  <2>. QED
    BY <1>1, <2>1, <2>2, <2>3 DEF RouteInv, Chains
<1>4. found \subseteq DOMAIN chain
  BY DEF map_lookup
<1> HIDE DEF chain, found
<1>5. DOMAIN chain = 1 .. Len(chain)
  BY <1>2
<1>6. CASE found # {}
  <2> DEFINE first == CHOOSE i \in found : \A j \in found : i <= j
  <2>1. found \subseteq {1, 2}
    BY <1>3, <1>4, <1>5
  <2>2. \E i \in found : \A j \in found : i <= j
    <3>1. CASE 1 \in found
      BY <2>1, <3>1
    <3>2. CASE 1 \notin found
      <4>1. found = {2}
        BY <1>6, <2>1, <3>2
      <4>. QED
        BY <4>1
    <3>. QED
      BY <3>1, <3>2
  <2>3. first \in found
    BY <2>2
  <2>4. chain[first] \in Pair
    BY <1>2, <1>4, <1>5, <2>3
  <2>5. Topic(p, key) = chain[first].value
    BY <1>6 DEF Topic, routes_getTopicFromAction, chain, found
  <2>. QED
    BY <2>4, <2>5 DEF Pair
<1>7. CASE found = {}
  BY <1>7 DEF Topic, routes_getTopicFromAction, found
<1>. QED
  BY <1>6, <1>7

(* A packet stays one through JSON, and has at most 192 bytes then. *)
LEMMA PacketType ==
  ASSUME NEW f \in Packets
  PROVE  ngw_json_to_packet(f) \in Packets /\ ngw_json_to_packet(f).size <= 192
<1>1. Empty \in Packets /\ Empty.size <= 192
  BY DEF Empty, Packets
<1>2. PICK n \in 0 .. 256 : f.size = n
  BY DEF Packets
<1>3. 4 * ((n + 2) \div 3) > 256 \/ n <= 192
  BY SMT
<1>4. CASE n <= 192
  BY <1>1, <1>2, <1>4 DEF ngw_json_to_packet
<1>5. CASE bin_to_b64(f.size) > 256
  BY <1>1, <1>5 DEF ngw_json_to_packet
<1>. QED
  BY <1>2, <1>3, <1>4, <1>5 DEF bin_to_b64

LEMMA UplinkType ==
  ASSUME NEW length \in Nat
  PROVE  serialize_hex_uplink(length) \in Packets
<1> DEFINE b == (length \div 2) % 256
           room == (13 + b) % 256
           needed == 12 + (IF b > 0 THEN 1 ELSE 0) + b
           size == IF needed <= room THEN needed ELSE room
<1>1. b \in 0 .. 255
  <2>1. length \div 2 \in Nat
    BY SMT
  <2>. QED
    BY <2>1, SMT
<1>2. room \in 0 .. 255 /\ needed \in Nat
  BY <1>1, SMT
<1>3. size \in 0 .. 256
  BY <1>2
<1>4. serialize_hex_uplink(length)
        = [size  |-> size,
           mic   |-> needed <= room /\ (9 + b) % 256 = size - 4,
           bytes |-> b]
  <2>1. serialize_hex_uplink(length) = serialize_uplink(b)
    BY DEF serialize_hex_uplink, Byte
  <2> HIDE DEF b
  <2>. QED
    BY <2>1 DEF serialize_uplink, LoRaMacSerializerData, LoRaMacComputeMic, Byte
<1> HIDE DEF b, room, needed, size
<1>. QED
  BY <1>1, <1>3, <1>4 DEF Packets

LEMMA DownlinkType ==
  ASSUME NEW d \in Downlinks
  PROVE  txpkt(d) \in Packets
<1>1. PICK o \in 0 .. 15, b \in 0 .. 242, e \in {0, 1, 2} :
        o = d.fopts /\ b = d.bytes /\ e = d.misstated
  BY FrameAssumption DEF Downlink
<1>2. 13 + o + b <= 255
  BY <1>1, FrameAssumption
<1> DEFINE s == FrameSize(d)
<1>3. s \in 12 .. 255
  <2>1. s = 12 + o + (IF d.port = "none" THEN 0 ELSE 1 + b)
    BY <1>1 DEF FrameSize
  <2> HIDE DEF s
  <2>. QED
    BY <1>2, <2>1
<1>4. txpkt(d) = [size  |-> IF e = 2 THEN s - 1 ELSE s + e,
                  mic   |-> e = 0,
                  bytes |-> b]
  BY <1>1 DEF txpkt
<1> HIDE DEF s
<1>5. (IF e = 2 THEN s - 1 ELSE s + e) \in 0 .. 256
  BY <1>3
<1>. QED
  BY <1>4, <1>5 DEF Packets

LEMMA PathTypedNext ==
  ASSUME RouteInv, UplinkInv, PathTyped, [Next]_vars
  PROVE  PathTyped'
<1>1. ASSUME NEW p \in Programs, NEW from, NEW action \in Keys, NEW to,
             Publish(p, from, action, to), frame' \in Packets,
             to \in {"to_gateway", "driver", "to_node"}
      PROVE  PathTyped'
  <2>1. topic' \in Keys \cup {NULL}
    BY <1>1, TopicType DEF Publish
  <2>. QED
    BY <1>1, <2>1 DEF Publish, PathTyped
<1>2. ASSUME NEW from, EndsProcess(from) PROVE PathTyped'
  BY <1>2 DEF EndsProcess, PathTyped
<1>3. ASSUME NEW m, NEW f \in Packets, NEW to, HandedIn(m, f, to),
             to \in {"ask", "ask_radio", "to_node", "resp"}
      PROVE  PathTyped'
  BY <1>3 DEF HandedIn, PathTyped
<1>4. CASE send_join_request_await_accept
  <2>1. generateJoinRequest \in Packets
    BY DEF generateJoinRequest, Packets
  <2>. QED
    BY <1>3, <1>4, <2>1 DEF send_join_request_await_accept
<1>5. CASE ListenFails
  BY <1>2, <1>5 DEF ListenFails
<1>6. /\ {"RUS", "JR", "JA", "UPn", "DWn"} \subseteq Keys
      /\ "node" \in Programs /\ "gateway" \in Programs
  BY FrameAssumption
<1>7. CASE AskToJoin
  <2>1. frame' \in Packets
    BY <1>7 DEF AskToJoin, PathTyped
  <2>. QED
    BY <1>1, <1>6, <1>7, <2>1 DEF AskToJoin
<1>8. CASE Disseminate
  <2>1. Empty \in Packets
    BY DEF Empty, Packets
  <2>. QED
    BY <1>8, <2>1 DEF Disseminate, HandedIn, PathTyped
<1>9. CASE send_uplink_no_ack
  <2>1. CASE EndsProcess("uplink")
    BY <1>2, <2>1
  <2>2. ASSUME place = "uplink", frame' = serialize_hex_uplink(message.length),
               IF message.radio THEN Publish("node", "uplink", "RUS", "driver")
                                ELSE Publish("node", "uplink", "UPn", "to_gateway")
        PROVE  PathTyped'
    <3>1. frame' \in Packets
      BY <2>2, UplinkType DEF UplinkInv, PathTyped
    <3>. QED
      BY <1>1, <1>6, <2>2, <3>1
  <2>. QED
    BY <1>9, <2>1, <2>2 DEF send_uplink_no_ack
<1>10. CASE on_message_received
  <2>1. CASE EndsProcess("to_gateway")
    BY <1>2, <2>1
  <2>2. ASSUME Arrives("to_gateway", "stack"), frame' = ngw_json_to_packet(frame),
               UNCHANGED got
        PROVE  PathTyped'
    <3>1. frame' \in Packets /\ frame'.size <= 192
      BY <2>2, PacketType DEF PathTyped
    <3>. QED
      BY <2>2, <3>1 DEF Arrives, PathTyped
  <2>. QED
    BY <1>10, <2>1, <2>2 DEF on_message_received
<1>11. CASE thread_up \/ DriverTransmits
  <2>1. got'.kind \in {"nothing", "clear"}
    BY <1>11 DEF thread_up, DriverTransmits, ServerTakes, Clear, Nothing
  <2>. QED
    BY <1>11, <2>1 DEF thread_up, DriverTransmits, ServerTakes, Arrives, PathTyped
<1>12. CASE ServerSends
  <2>1. ASSUME NEW size \in Accepts 
        PROVE  [size |-> size, mic |-> TRUE, bytes |-> 0] \in Packets
    BY <2>1, FrameAssumption DEF Packets
  <2>. QED
    BY <1>3, <1>12, <2>1, DownlinkType DEF ServerSends
<1>13. CASE lgw_send
  <2>1. frame' \in Packets
    BY <1>13 DEF lgw_send, PathTyped
  <2>. QED
    BY <1>1, <1>6, <1>13, <2>1 DEF lgw_send
<1>14. Received \in Packets
  BY PacketType DEF PathTyped, Received
<1>15. CASE JoinAcceptArrived
  <2>1. CASE EndsProcess("to_node")
    BY <1>2, <2>1
  <2>2. ASSUME Arrives("to_node", "node"), frame' = Received,
               got' = generateJoinAccept(frame')
        PROVE  PathTyped'
    <3>1. got'.kind \in {"nothing", "clear"}
      BY <2>2 DEF generateJoinAccept, Clear, Nothing
    <3>. QED
      BY <1>14, <2>2, <3>1 DEF Arrives, PathTyped
  <2>. QED
    BY <1>15, <2>1, <2>2 DEF JoinAcceptArrived
<1>16. CASE DownlinkArrived
  <2>1. ASSUME EndsProcess("to_node") PROVE PathTyped'
    BY <1>2, <2>1
  <2>2. ASSUME Arrives("to_node", "disseminator"), frame' = Received,
               got' \in deserialize_downlink(frame', message.sent)
        PROVE  PathTyped'
    <3>1. \A n : {Nothing.kind, Clear(n).kind, Garbled.kind}
                   \subseteq {"nothing", "clear", "garbled"}
      BY DEF Nothing, Clear, Garbled
    <3>2. got'.kind \in {"nothing", "clear", "garbled"}
      BY <2>2, <3>1 DEF deserialize_downlink
    <3>. QED
      BY <1>14, <2>2, <3>2 DEF Arrives, PathTyped
  <2>. QED
    BY <1>16, <2>1, <2>2 DEF DownlinkArrived
<1>17. CASE Arrived
  BY <1>17 DEF Arrived, PathTyped, Empty, Packets, Nothing
<1>18. CASE Boot \/ UNCHANGED vars
  BY <1>18 DEF Boot, vars, pathVars, PathTyped
<1>. QED
  BY <1>4, <1>5, <1>7, <1>8, <1>9, <1>10, <1>11, <1>12, <1>13, <1>15, <1>16,
     <1>17, <1>18 DEF Next

(* The types of the path, at every hop; and every packet that comes to the *)
(* gateway's stack has at most 192 bytes, whatever was handed in.          *)
THEOREM PathTypeCorrect == Spec => []TypeOK
<1>1. Init => RouteInv /\ PathTyped
  <2> SUFFICES ASSUME Init PROVE RouteInv /\ PathTyped
    OBVIOUS
  <2>1. RouteInv
    BY RouteInitInv DEF Init
  <2>2. PathTyped
    BY DEF Init, FrameInit, PathTyped, Empty, Packets, Nothing
  <2>. QED
    BY <2>1, <2>2
<1>2. RouteInv /\ [Next]_vars => RouteInv'
  BY StepOfRoutes, RouteNextInv
<1>3. RouteInv /\ UplinkInv /\ PathTyped /\ [Next]_vars => PathTyped'
  BY PathTypedNext
<1>4. RouteInv /\ PathTyped => TypeOK
  BY DEF RouteInv, PathTyped, TypeOK, Packets
<1>. QED
  BY <1>1, <1>2, <1>3, <1>4, UplinkInvInit, UplinkInvNext, PTL DEF Spec
===============================================================================
