SPECIFICATION Spec
CONSTANTS
  MaxScans = 2
  Wrap = 7
  Period = 1
  Depth = 7
  Late = 7
  MaxTime = 9
  MaxFaults = 1
INVARIANTS
  TypeOK AcceptsWellFormed StampsTrue SegmentForward TimeForward
  PausesCounted WholeScans
PROPERTIES
  NoFalseAlarm
CHECK_DEADLOCK FALSE
