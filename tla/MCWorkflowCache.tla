-------------------------- MODULE MCWorkflowCache ---------------------------
(***************************************************************************)
(* One rule that moves between two triggers, under concurrent edits and a  *)
(* trigger evaluation.                                                     *)
(***************************************************************************)
EXTENDS WorkflowCache, TLC

CONSTANTS w1, e1, e2, k1, b

Symmetry == Permutations(Editors)
=============================================================================
