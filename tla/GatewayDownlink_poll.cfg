CONSTANTS
  Nobody = Nobody
  Token = {t1, t2}
  NoToken = NoToken
  AutoquitThreshold = 2
  KeepaliveTime = 5
  MaxPulls = 3
  MaxResps = 2
SPECIFICATION DownlinkSpec
INVARIANTS DownlinkTypeOK AckedOnce
PROPERTY QuitsOnlyUnacked
CHECK_DEADLOCK FALSE
