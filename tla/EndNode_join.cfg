CONSTANTS
  CommTypes = {0, 1}
  NonceMod = 2
  NoNonce = NoNonce
  NoMsg = NoMsg
  Torn = Torn
  Traffic <- MixedTraffic
  MaxTraffic = 4
SPECIFICATION FairSpec
INVARIANTS TypeOK NodeInv SessionMatchesRequest
PROPERTIES DeafForever ImplementsSession ImplementsStore HeardAcceptEndsJoin ConnectedServesAll
CHECK_DEADLOCK FALSE
