--------------------------- MODULE MCExecutionRun ---------------------------
(***************************************************************************)
(* ExecutionRun for TLC.  The bounds are in the configurations.            *)
(***************************************************************************)
EXTENDS ExecutionRun
=============================================================================
