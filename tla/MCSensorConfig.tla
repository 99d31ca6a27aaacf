--------------------------- MODULE MCSensorConfig ---------------------------
(* Two rates and two scales: a register holds the cached value, the one     *)
(* asked for, or one an earlier failed write left behind.                   *)
EXTENDS SensorConfig

MCRates == {104, 208}
=============================================================================
