CONSTANTS
  NumPackets = 5
  MissingNumsPerPacket = 1
  PacketChanCap = 1
  PartId = 1
  PartIds = {1}
  Garbage = {}
  Losses <- TwoGaps
  LossyControl = FALSE
  Reorder = FALSE
  ConnErrors = FALSE
  DataBuf = 5
  MaxRequests = 1
SPECIFICATION Spec
PROPERTIES
  PartIsReliable
CHECK_DEADLOCK FALSE
