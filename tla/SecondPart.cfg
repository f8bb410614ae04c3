CONSTANTS
  MaxParts = 2
  PacketChanCap = 1
  MaxRequests = 1
  MaxLosses = 0
  MaxMixups = 0
  MaxErrors = 0
SPECIFICATION FairSpec
PROPERTIES
  SecondWriteReturns
CHECK_DEADLOCK FALSE
