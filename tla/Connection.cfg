CONSTANTS
  MaxParts = 2
  PacketChanCap = 1
  MaxRequests = 2
  MaxLosses = 1
  MaxMixups = 1
  MaxErrors = 2
SPECIFICATION FairSpec
INVARIANTS
  TypeOK
  TickersStop
  UnlocksItsOwn
PROPERTIES
  PartsInOrder
  FirstPartArrives
CHECK_DEADLOCK FALSE
