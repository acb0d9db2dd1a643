CONSTANTS
  CommTypes = {0}
  NonceMod = 2
  NoNonce = NoNonce
  NoMsg = NoMsg
  Torn = Torn
  Traffic <- VirtualTraffic
  MaxTraffic = 3
SPECIFICATION FairSpec
INVARIANT ReadyNodeListens
CHECK_DEADLOCK FALSE
