CONSTANTS
  Nobody = Nobody
  MaxReceived = 1
  Status <- GoodStatus
  FwdStatus = {"CRC_OK"}
  Foreign = {}
  NoPacket = NoPacket
  PKT_STACK_SIZE = 3
  NB_PKT_MAX = 2
  Token = {t1}
  NoToken = NoToken
  AutoquitThreshold = 1
  KeepaliveTime = 5
  MaxPulls = 2
  MaxResps = 1
  MaxReports = 1
SPECIFICATION Spec
INVARIANTS TypeOK OneInConcentrator WaitsEnd ReportsConsistent
PROPERTIES QuitEnds AutoquitEnds
CHECK_DEADLOCK FALSE
