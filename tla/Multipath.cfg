CONSTANTS
  NumConns = 4
  PayloadSize = 3
  Lengths = {3, 4, 5, 9}
  MaxCalls = 2
  MaxFailures = 1
SPECIFICATION FairSpec
INVARIANTS
  TypeOK
  PanicsOnlyWhenShort
  ReadFillsBuffer
  AcceptsAll
PROPERTIES
  ReadHasItsWrite
CHECK_DEADLOCK FALSE
