SPECIFICATION FairSpec
CONSTANTS
  Watermark = 2
  Scans = 6
  Chunk = 4
  Capacity = 20
  Delay = 20
  Burst = 4
  Faults = TRUE
CHECK_DEADLOCK FALSE
INVARIANT TypeOK
PROPERTIES ShiftedOnlyByLoss DrainEnds
