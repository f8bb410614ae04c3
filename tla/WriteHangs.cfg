CONSTANTS
  NumPackets = 2
  MissingNumsPerPacket = 1
  PacketChanCap = 1
  PartId = 1
  PartIds = {1}
  Garbage = {}
  Losses <- NoLoss
  LossyControl = FALSE
  Reorder = FALSE
  ConnErrors = FALSE
  DataBuf = 2
  MaxRequests = 1
SPECIFICATION FairSpec
PROPERTIES
  WriteReturns
CHECK_DEADLOCK FALSE
