---------------------------- MODULE MCAIService -----------------------------
(***************************************************************************)
(* Two concurrent requests of any endpoint; a reply may cost more than its *)
(* estimate.                                                               *)
(***************************************************************************)
EXTENDS AIService

CONSTANTS q1, q2

MCTierLimit == [t \in {"free"} |-> 3]
MCEstimate  == [k \in Kinds |-> IF k = "reply" THEN 2 ELSE 1]
=============================================================================
