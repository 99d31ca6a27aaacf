---------------------------- MODULE MCFifoBatch ----------------------------
(* Small instances of FifoBatch for TLC. *)
EXTENDS FifoBatch
=============================================================================
