SPECIFICATION FairSpec
CONSTANTS
  BusFails = TRUE
  Watermarks = {4}
  MaxDiscontinuities = 1
PROPERTIES DisableCompletes SleepCompletes
