SPECIFICATION Spec
CONSTANTS
  BusFails = FALSE
  Watermarks <- MCWatermarks
  MaxDiscontinuities <- MCMaxDiscontinuities
INVARIANTS StreamAlive QuietWhenDown NoDrainWhileDown
PROPERTY KeepsThePromise
