------------------------- MODULE DevNonceStore_proof -------------------------
(***************************************************************************)
(* Proofs about DevNonceStore, for DevNonces of any size and any number of *)
(* sessions below it, through any sequence of crashes.                     *)
(***************************************************************************)
EXTENDS DevNonceStore, TLAPS

(* How many increments lead from DevNonce n to DevNonce c. *)
Age(n, c) == IF n <= c THEN c - n ELSE c - n + NonceMod

(* The sessions granted whose next DevNonce may be saved already. *)
Settled == IF accept \/ node \in {"accepted", "opened"} THEN sessions - 1
                                                         ELSE sessions

Window(c) == \A n \in spent : Age(n, c) \in 1 .. Settled

(* Memory, disk and network agree on the DevNonce of the join under way. *)
JoinInv ==
  /\ node \in {"booted", "asked"} => config # Torn /\ lastDevNonce = config
  /\ request # None => node = "asked" /\ request = config /\ ~accept
  /\ accept => node = "asked" /\ granted = config
  /\ node = "accepted" => config = granted
  /\ node = "opened" => config = Torn
  /\ node \in {"accepted", "opened"}
       => granted \in Nonce /\ lastDevNonce = Following(granted)

(* Each spent DevNonce lies behind the one on disk, by no more increments  *)
(* than sessions were granted: too few to come round again.                *)
SpentInv ==
  /\ Settled >= 0
  /\ config # Torn => Window(config)
  /\ node = "opened" => Window(granted)

(* The DevNonce on disk is the one of the last session or the next. *)
DiskInv == config # Torn /\ granted # None
             => config \in {granted, Following(granted)}

StoreInv == JoinInv /\ SpentInv /\ DiskInv

(* DevNonces count up and start again at zero. *)
LEMMA FollowingIs ==
  ASSUME NEW n \in Nonce
  PROVE  /\ Following(n) = IF n + 1 = NonceMod THEN 0 ELSE n + 1
         /\ Following(n) \in Nonce
BY StoreAssumption DEF Following, Nonce

(* One more increment makes every DevNonce that is not about to come round *)
(* one older, and the one left behind one increment old.                   *)
LEMMA AgeFollowing ==
  ASSUME NEW n \in Nonce, NEW c \in Nonce, NEW d \in Nat,
         Age(n, c) <= d, d + 1 < NonceMod
  PROVE  Age(n, Following(c)) = Age(n, c) + 1
<1>1. Following(c) = IF c + 1 = NonceMod THEN 0 ELSE c + 1
  BY FollowingIs
<1> QED
  BY <1>1, StoreAssumption DEF Age, Nonce
-----------------------------------------------------------------------------
(* Every step keeps TypeOK, given that memory and disk agree. *)
LEMMA TypeStep ==
  ASSUME TypeOK, JoinInv, [Next]_vars
  PROVE  TypeOK'
<1> USE StoreAssumption DEF TypeOK, NodePC, NodeGoto
<1>1. CASE Boot
  BY <1>1 DEF Boot, flight, history
<1>2. CASE BootFails
  BY <1>2 DEF BootFails, flight, history
<1>3. CASE SendJoinRequest
  BY <1>3 DEF SendJoinRequest, history
<1>4. CASE Grant
  BY <1>4 DEF Grant
<1>5. CASE AcceptArrives
  BY <1>5, FollowingIs DEF AcceptArrives, JoinInv, history
<1>6. CASE OpenConfig
  BY <1>6 DEF OpenConfig, flight, history
<1>7. CASE SaveFails
  BY <1>7 DEF SaveFails, flight, history
<1>8. CASE WriteConfig
  BY <1>8, FollowingIs DEF WriteConfig, JoinInv, flight
<1>9. CASE Crash
  BY <1>9 DEF Crash, history
<1>10. CASE UNCHANGED vars
  BY <1>10 DEF vars, flight, history
<1> QED
  BY <1>1, <1>2, <1>3, <1>4, <1>5, <1>6, <1>7, <1>8, <1>9, <1>10 DEF Next

(* The node's place in the join is tied to what it asked with. *)
LEMMA JoinStep ==
  ASSUME TypeOK, JoinInv, [Next]_vars
  PROVE  JoinInv'
<1> USE StoreAssumption DEF TypeOK, JoinInv, NodeGoto
<1>1. CASE Boot
  BY <1>1 DEF Boot, flight, history
<1>2. CASE BootFails
  BY <1>2 DEF BootFails, flight, history
<1>3. CASE SendJoinRequest
  BY <1>3 DEF SendJoinRequest, history
<1>4. CASE Grant
  BY <1>4 DEF Grant
<1>5. CASE AcceptArrives
  BY <1>5 DEF AcceptArrives, history
<1>6. CASE OpenConfig
  BY <1>6 DEF OpenConfig, flight, history
<1>7. CASE SaveFails
  BY <1>7 DEF SaveFails, flight, history
<1>8. CASE WriteConfig
  BY <1>8 DEF WriteConfig, flight
<1>9. CASE Crash
  BY <1>9 DEF Crash, history
<1>10. CASE UNCHANGED vars
  BY <1>10 DEF vars, flight, history
<1> QED
  BY <1>1, <1>2, <1>3, <1>4, <1>5, <1>6, <1>7, <1>8, <1>9, <1>10 DEF Next

(* Only the write of the next DevNonce adds to what is spent, and it moves *)
(* the DevNonce on disk by one; a crash can only leave more room.          *)
LEMMA SpentStep ==
  ASSUME TypeOK, JoinInv, SpentInv, [Next]_vars
  PROVE  SpentInv'
<1> USE StoreAssumption DEF TypeOK, JoinInv, SpentInv, NodeGoto, Settled, Window
<1>1. CASE Boot \/ BootFails \/ SendJoinRequest \/ SaveFails \/ Crash
  <2>1. UNCHANGED <<config, spent, sessions, granted>> /\ node' # "opened"
    BY <1>1 DEF Boot, BootFails, SendJoinRequest, SaveFails, Crash, flight,
                history
  <2>2. Settled' >= Settled
    BY <1>1, <2>1 DEF Boot, BootFails, SendJoinRequest, SaveFails, Crash,
                      flight, history
  <2> QED
    BY <2>1, <2>2 DEF Age
<1>2. CASE Grant
  BY <1>2 DEF Grant, Age
<1>3. CASE AcceptArrives
  BY <1>3 DEF AcceptArrives, history, Age
<1>4. CASE OpenConfig
  BY <1>4 DEF OpenConfig, flight, history, Age
<1>5. CASE WriteConfig /\ config' # Torn
  <2>1. /\ node = "opened" /\ ~accept /\ granted \in Nonce
        /\ config' = Following(granted) /\ spent' = spent \cup {granted}
        /\ Settled' = Settled + 1 /\ node' = "joined"
    BY <1>5 DEF WriteConfig, flight
  <2>2. Settled \in Nat /\ Settled + 1 < NonceMod
    BY <2>1
  <2>3. \A n \in spent : Age(n, config') \in 1 .. Settled'
    BY <2>1, <2>2, AgeFollowing DEF Age
  <2>4. Age(granted, config') = 1
    <3>1. Age(granted, granted) = 0
      BY <2>1 DEF Age, Nonce
    <3> QED
      BY <2>1, <2>2, <3>1, AgeFollowing
  <2> QED
    BY <2>1, <2>2, <2>3, <2>4
<1>6. CASE WriteConfig /\ config' = Torn
  BY <1>6 DEF WriteConfig, flight
<1>7. CASE UNCHANGED vars
  BY <1>7 DEF vars, flight, history, Age
<1> QED
  BY <1>1, <1>2, <1>3, <1>4, <1>5, <1>6, <1>7 DEF Next

(* A save moves the DevNonce on disk to the one after its session's only. *)
LEMMA DiskStep ==
  ASSUME TypeOK, JoinInv, DiskInv, [Next]_vars
  PROVE  DiskInv'
<1> USE StoreAssumption DEF TypeOK, JoinInv, DiskInv, NodeGoto
<1>1. CASE Boot \/ BootFails \/ SendJoinRequest \/ AcceptArrives \/ SaveFails
           \/ Crash \/ UNCHANGED vars
  BY <1>1 DEF Boot, BootFails, SendJoinRequest, AcceptArrives, SaveFails,
              Crash, vars, flight, history, Following
<1>2. CASE Grant
  BY <1>2 DEF Grant
<1>3. CASE OpenConfig
  BY <1>3 DEF OpenConfig
<1>4. CASE WriteConfig
  BY <1>4 DEF WriteConfig, Following
<1> QED
  BY <1>1, <1>2, <1>3, <1>4 DEF Next
-----------------------------------------------------------------------------
(* The invariant holds before the first boot. *)
LEMMA StoreInit == Init => TypeOK /\ StoreInv
<1> SUFFICES ASSUME Init PROVE TypeOK /\ StoreInv
  OBVIOUS
<1>1. TypeOK
  <2>1. sessions \in 0 .. MaxSessions
    BY StoreAssumption DEF Init
  <2> QED
    BY <2>1 DEF Init, TypeOK, NodePC
<1>2. JoinInv /\ DiskInv
  BY DEF Init, JoinInv, DiskInv
<1>3. SpentInv
  BY DEF Init, SpentInv, Settled, Window
<1> QED
  BY <1>1, <1>2, <1>3 DEF StoreInv

(* The inductive invariant of the DevNonce store. *)
THEOREM StoreHolds == Spec => [](TypeOK /\ StoreInv)
<1>1. TypeOK /\ StoreInv /\ [Next]_vars => (TypeOK /\ StoreInv)'
  BY TypeStep, JoinStep, SpentStep, DiskStep DEF StoreInv
<1> QED
  BY <1>1, StoreInit, PTL DEF Spec

(* The state is of its types; in particular the DevNonce stays 16 bits. *)
THEOREM TypeCorrect == Spec => []TypeOK
BY StoreHolds, PTL

(* No crash, at any point of the join or the save, makes the node ask with *)
(* a DevNonce whose successor reached the disk.                            *)
THEOREM SpentIsSpent == Spec => []SpentNeverAsked
<1>1. TypeOK /\ StoreInv => SpentNeverAsked
  <2> SUFFICES ASSUME TypeOK, StoreInv, node = "asked", lastDevNonce \in spent
               PROVE  FALSE
    BY DEF SpentNeverAsked
  <2>1. Window(lastDevNonce) /\ lastDevNonce \in Nonce
    BY DEF StoreInv, JoinInv, SpentInv, TypeOK
  <2>2. Age(lastDevNonce, lastDevNonce) = 0
    BY <2>1 DEF Age, Nonce
  <2> QED
    BY <2>1, <2>2 DEF Window
<1> QED
  BY <1>1, StoreHolds, PTL

(* The node asks with the last session's DevNonce or the one after it. *)
THEOREM AtMostOneRepeated == Spec => []AsksSameOrNext
<1>1. StoreInv => AsksSameOrNext
  BY DEF StoreInv, JoinInv, DiskInv, AsksSameOrNext
<1> QED
  BY <1>1, StoreHolds, PTL

(* A file torn by a crash inside the save ends the node's life. *)
THEOREM TornStaysTorn == Spec => TornIsFinal
<1>1. TypeOK /\ StoreInv /\ [Next]_vars
      => [config = Torn /\ node = "down"
            => node' # "booted" /\ config' = Torn]_vars
  BY DEF Next, NodeGoto, Boot, BootFails, SendJoinRequest, Grant, AcceptArrives,
         OpenConfig, SaveFails, WriteConfig, Crash, StoreInv, JoinInv, vars
<1> QED
  BY <1>1, StoreHolds, PTL DEF Spec, TornIsFinal
=============================================================================
