----------------------------- MODULE MCPipeline -----------------------------
(* A small instance of Pipeline for TLC: a queue that can hold less and     *)
(* more than poll waits for, a driver bound twice, two starts in a row.     *)
EXTENDS Pipeline
=============================================================================
