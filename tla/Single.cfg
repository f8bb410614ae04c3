CONSTANTS
  MaxWrites = 3
  MaxLosses = 1
  MaxMixups = 3
  MaxErrors = 2
SPECIFICATION FairSpec
INVARIANTS
  TypeOK
  WrittenIsRead
  ReadOnce
PROPERTIES
  SingleWriteReturns
CHECK_DEADLOCK FALSE
