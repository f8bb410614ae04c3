CONSTANTS
  NumPackets = 4
  MissingNumsPerPacket = 1
  PacketChanCap = 0
  PartId = 1
  PartIds = {1}
  Garbage = {}
  Losses <- Bursts
  LossyControl = FALSE
  Reorder = FALSE
  ConnErrors = FALSE
  DataBuf = 4
  MaxRequests = 1
SPECIFICATION FairSpec
PROPERTIES
  PartIsReliable
  ReadReturns
  FinishEndsRetransfer
CHECK_DEADLOCK FALSE
