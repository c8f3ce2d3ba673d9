------------------------- MODULE MCDecompositionRun -------------------------
(***************************************************************************)
(* Small instances of DecompositionRun: a project whose decomposition has  *)
(* two issues, the second of which waits for the first.                    *)
(***************************************************************************)
EXTENDS DecompositionRun

CONSTANTS a, b

MCIssues == {a, b}
MCDeps == {<<a, b>>}
=============================================================================
