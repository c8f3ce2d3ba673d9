----------------------------- MODULE MCMergeGate -----------------------------
(***************************************************************************)
(* Small instances of MergeGate.  What people and other workflows do to    *)
(* the status: pick it up, hand it in, send it back, accept it.            *)
(***************************************************************************)
EXTENDS MergeGate

MCRoles == {"todo", "in_review", "human_review", "done"}
=============================================================================
