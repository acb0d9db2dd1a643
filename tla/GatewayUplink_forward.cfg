CONSTANTS
  Nobody = Nobody
  Token = {t1, t2}
  NoToken = NoToken
  MaxReceived = 5
  Status <- MixedStatus
  FwdStatus = {"CRC_OK", "NO_CRC"}
  Foreign = {5}
  NoPacket = NoPacket
  PKT_STACK_SIZE = 4
  NB_PKT_MAX = 2
SPECIFICATION UplinkSpec
INVARIANTS UplinkTypeOK SentInOrder ReportsAddUp AckedWereSent
PROPERTIES LossesKnown BacklogDrains
CHECK_DEADLOCK FALSE
