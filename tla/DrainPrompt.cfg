SPECIFICATION FairSpec
CONSTANTS
  Watermark = 4
  Scans = 170
  Chunk = 16
  Capacity = 512
  Delay = 11
  Burst = 3
  Faults = TRUE
CHECK_DEADLOCK FALSE
INVARIANTS NoLostWakeup NeverShifted
PROPERTY KeepsDraining
