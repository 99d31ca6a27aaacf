---------------------------- MODULE MCFifoDrain ----------------------------
(* Model values come from the configurations.                              *)
EXTENDS FifoDrain
=============================================================================
