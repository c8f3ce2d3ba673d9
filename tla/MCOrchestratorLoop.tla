-------------------------- MODULE MCOrchestratorLoop --------------------------
(***************************************************************************)
(* The loop with three decision turns a run, over three runs of one issue. *)
(***************************************************************************)
EXTENDS OrchestratorLoop
=============================================================================
