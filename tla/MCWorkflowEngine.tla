-------------------------- MODULE MCWorkflowEngine --------------------------
(***************************************************************************)
(* Two concurrent runs against a limit of one or two executions.           *)
(***************************************************************************)
EXTENDS WorkflowEngine

CONSTANTS r1, r2

MCTierLimit == [t \in Tiers |-> IF t = "free" THEN 1 ELSE 2]
=============================================================================
