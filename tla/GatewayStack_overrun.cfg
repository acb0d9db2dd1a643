CONSTANTS
  Packet = {p1, p2}
  NoPacket = NoPacket
  Size = 4
  MaxPending = 9
SPECIFICATION HSpec
INVARIANT EmptyMeansNoPackets
