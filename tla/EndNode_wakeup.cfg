CONSTANTS
  CommTypes = {0}
  NonceMod = 2
  NoNonce = NoNonce
  NoMsg = NoMsg
  Torn = Torn
  Traffic <- QuietTraffic
  MaxTraffic = 2
SPECIFICATION FairSpec
PROPERTY AnsweredJoinEnds
CHECK_DEADLOCK FALSE
