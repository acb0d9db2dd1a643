CONSTANTS
  Programs = {"node", "gateway"}
  Buckets = 100
  Keys <- MCKeys
  map_hash <- HashOf
  Mappings <- MCMappings
  TextLengths <- MCTextLengths
  Accepts = {17, 33}
  Downlinks <- MCDownlinks
SPECIFICATION Spec
INVARIANTS TypeOK PairsFound UplinkAsSent DownlinkAsSent
CHECK_DEADLOCK FALSE
