SPECIFICATION BindingSpec
CONSTANTS
  BusFails = TRUE
  Watermarks <- MCWatermarks
  MaxDiscontinuities = 1
INVARIANTS BoundCorrect RemovedIsQuiet NothingLeft
PROPERTY RemoveCompletes
