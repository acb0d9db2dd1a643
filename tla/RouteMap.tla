------------------------------- MODULE RouteMap -------------------------------
(***************************************************************************)
(* The route map of the end node and of the gateway (routes_manag.c,       *)
(* hash_map_manager.c): a hash map from actions to topics and back, which  *)
(* each program fills from the "actions_mapping" of its config.json before *)
(* anything else runs, and only reads afterwards.                          *)
(*                                                                         *)
(* map_hash is a constant: any function into the buckets.  (On long keys   *)
(* it overflows and may become negative; the keys of the repository's      *)
(* configurations stay within the buckets.)                                *)
(***************************************************************************)
EXTENDS Naturals, Sequences

CONSTANTS Programs,   \* the programs, each with a map of its own
          Keys,       \* the names of actions and topics
          Buckets,    \* key_topic_map_max_size
          map_hash,   \* the bucket of each key
          Mappings    \* for each program the actions_mapping it may have

ASSUME RouteAssumption ==
  /\ Buckets \in Nat \ {0}
  /\ map_hash \in [Keys -> 0 .. Buckets - 1]
  /\ Mappings \in [Programs -> SUBSET Seq([action : Keys, topic : Keys])]

VARIABLES
  mapping, \* the actions_mapping in config.json
  loaded,  \* how many pairs were added to the map
  map,     \* key_topic_map: the chain of elements of each bucket
  boot     \* "loading", "running", or "exited"

routeVars == <<mapping, loaded, map, boot>>

Pair == [key : Keys, value : Keys]

NULL == "NULL"

(* What parse_actions_informations adds as the i-th pair: each item of the *)
(* mapping gives a pair from the action to the topic, and one back.        *)
Added(p, i) ==
  LET item == mapping[p][(i + 1) \div 2]
  IN  IF i % 2 = 1 THEN [key |-> item.action, value |-> item.topic]
                   ELSE [key |-> item.topic, value |-> item.action]

Pairs(p) == 2 * Len(mapping[p])
-----------------------------------------------------------------------------
(* The elements of key's bucket that have this key. *)
map_lookup(p, key) ==
  LET chain == map[p][map_hash[key]]
  IN  {i \in DOMAIN chain : chain[i].key = key}

routes_getTopicFromAction(p, key) ==
  IF map_lookup(p, key) = {}
    THEN NULL
    ELSE LET first == CHOOSE i \in map_lookup(p, key) :
                        \A j \in map_lookup(p, key) : i <= j
         IN  map[p][map_hash[key]][first].value

(* Mutant: a new element replaces the head of its bucket. *)
Mutant_Chained(chain, elem) == <<elem>>

(* A new element always becomes the one after the head: what the head      *)
(* pointed to before is dropped.                                           *)
Chained(chain, elem) == IF chain = <<>> THEN <<elem>> ELSE <<chain[1], elem>>

RouteInit ==
  /\ mapping \in {m \in [Programs -> UNION {Mappings[p] : p \in Programs}] :
                    \A p \in Programs : m[p] \in Mappings[p]}
  /\ loaded = [p \in Programs |-> 0]
  /\ map = [p \in Programs |-> [b \in 0 .. Buckets - 1 |-> <<>>]]
  /\ boot = [p \in Programs |-> "loading"]

(* A key that the map already has ends the process. *)
map_addElement(p) ==
  LET new == Added(p, loaded[p] + 1)
  IN  /\ boot[p] = "loading" /\ loaded[p] < Pairs(p)
      /\ IF map_lookup(p, new.key) # {}
           THEN /\ boot' = [boot EXCEPT ![p] = "exited"]
                /\ UNCHANGED <<loaded, map>>
           ELSE /\ map' = [map EXCEPT ![p][map_hash[new.key]] = Chained(@, new)]
                /\ loaded' = [loaded EXCEPT ![p] = @ + 1]
                /\ UNCHANGED boot
      /\ UNCHANGED mapping

parse_actions_informations(p) ==
  /\ boot[p] = "loading" /\ loaded[p] = Pairs(p)
  /\ boot' = [boot EXCEPT ![p] = "running"]
  /\ UNCHANGED <<mapping, loaded, map>>

RouteNext ==
  \E p \in Programs : map_addElement(p) \/ parse_actions_informations(p)

RouteSpec == RouteInit /\ [][RouteNext]_routeVars
-----------------------------------------------------------------------------
RouteTypeOK ==
  /\ mapping \in [Programs -> Seq([action : Keys, topic : Keys])]
  /\ \A p \in Programs : mapping[p] \in Mappings[p]
  /\ loaded \in [Programs -> Nat]
  /\ \A p \in Programs : loaded[p] <= Pairs(p)
  /\ map \in [Programs -> [0 .. Buckets - 1 -> Seq(Pair)]]
  /\ boot \in [Programs -> {"loading", "running", "exited"}]

Bucket(p, i) == map_hash[Added(p, i).key]

(* The i-th pair was added between two others of its bucket. *)
Between(p, i) ==
  /\ \E j \in 1 .. i - 1 : Bucket(p, j) = Bucket(p, i)
  /\ \E k \in i + 1 .. loaded[p] : Bucket(p, k) = Bucket(p, i)

(* What was put is found: every pair that is the first or the last of its  *)
(* bucket so far.  (map_addElement drops all that are between them.)       *)
PairsFound ==
  \A p \in Programs : \A i \in 1 .. loaded[p] :
    \/ routes_getTopicFromAction(p, Added(p, i).key) = Added(p, i).value
    \/ Between(p, i)
=============================================================================
