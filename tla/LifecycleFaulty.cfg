SPECIFICATION Spec
CONSTANTS
  BusFails = TRUE
  Watermarks <- MCWatermarks
  MaxDiscontinuities <- MCMaxDiscontinuities
INVARIANTS TypeOK TimelineAgrees RunningMeansBatching FaultedMeansStopped
PROPERTIES DiscontinuityCounted KeepsThePromise
