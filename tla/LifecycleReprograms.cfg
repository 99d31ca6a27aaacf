SPECIFICATION Spec
CONSTANTS
  BusFails = TRUE
  Watermarks <- MCWatermarks
  MaxDiscontinuities <- MCMaxDiscontinuities
PROPERTY PostenableReprograms
