-------------------------- MODULE MCDeviceBinding --------------------------
(* A small instance of DeviceBinding for TLC: one watermark the driver      *)
(* accepts and one it refuses.                                              *)
EXTENDS DeviceBinding

MCWatermarks == {2, MaxScans + 1}
=============================================================================
