SPECIFICATION Spec
CONSTANTS
  Rates <- MCRates
  Scales = {fs1, fs2}
  DefaultRate = 104
  DefaultScale = fs1
  BusFails = TRUE
INVARIANTS TypeOK ReportsTheTruth OdrWriteApplied
