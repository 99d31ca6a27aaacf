-------------------------- MODULE MCFifoLifecycle --------------------------
(* Small instances of FifoLifecycle for TLC: two watermarks the driver      *)
(* accepts, one it refuses, and up to three discontinuities in a session.   *)
EXTENDS FifoLifecycle

MCWatermarks == {2, MaxScans, MaxScans + 1}
MCMaxDiscontinuities == 2
=============================================================================
