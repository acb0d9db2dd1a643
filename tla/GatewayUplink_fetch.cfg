CONSTANTS
  Nobody = Nobody
  Token = {t1}
  NoToken = NoToken
  MaxReceived = 5
  Status <- MixedStatus
  FwdStatus = {"CRC_OK"}
  Foreign = {}
  NoPacket = NoPacket
  PKT_STACK_SIZE = 4
  NB_PKT_MAX = 2
SPECIFICATION UplinkSpec
PROPERTY FetchedIsForwarded
CHECK_DEADLOCK FALSE
