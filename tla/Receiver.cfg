CONSTANTS
  NumPackets = 6
  MissingNumsPerPacket = 1
  PacketChanCap = 2
  PartId = 1
  PartIds = {1, 2}
SPECIFICATION ReceiverSpec
INVARIANTS
  ReceiverTypeOK
  GapsWellFormed
  GapsOweTheirPackets
  RoundStaysInList
CHECK_DEADLOCK FALSE
