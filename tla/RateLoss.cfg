CONSTANTS
  START_CONGESTION_WINDOW = 4
  CONGESTION_WINDOW_MAX = 7
  PACKET_LOSS_THRESHOLD_PERCENT = 5
  DRAIN_INCREASE_WINDOW = 2
  MaxPackets = 2
  MaxCount = 8
SPECIFICATION Spec
INVARIANTS
  LossIsPercent
CHECK_DEADLOCK FALSE
