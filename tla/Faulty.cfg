CONSTANTS
  NumPackets = 4
  MissingNumsPerPacket = 1
  PacketChanCap = 1
  PartId = 1
  PartIds = {1}
  Garbage = {0, 9}
  Losses <- AnyLoss
  LossyControl = TRUE
  Reorder = TRUE
  ConnErrors = TRUE
  DataBuf = 2
  MaxRequests = 2
SPECIFICATION Spec
INVARIANTS
  TypeOK
  OnlySentRequested
  WriteAfterRead
  ListsSettle
  PassSendsOnce

  
CHECK_DEADLOCK FALSE
