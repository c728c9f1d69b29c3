----------------------------- MODULE MCMetering -----------------------------
(***************************************************************************)
(* Three callers share a meter; the tier may move between a small and a    *)
(* larger limit, and a caller may use less or more than it asked for.      *)
(***************************************************************************)
EXTENDS Metering

CONSTANTS c1, c2, c3

MCTierLimit == [t \in {"free", "pro"} |-> IF t = "free" THEN 3 ELSE 5]
=============================================================================
