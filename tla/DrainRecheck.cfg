SPECIFICATION Spec
CONSTANTS
  Watermark = 4
  Scans = 170
  Chunk = 16
  Capacity = 512
  Delay = 12
  Burst = 3
  Faults = FALSE
INVARIANT NoLostWakeup
