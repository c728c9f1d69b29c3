------------------------------ MODULE MCOrders ------------------------------
(***************************************************************************)
(* Two payments of one order, three concurrent verifications, two members  *)
(* of staff.                                                               *)
(***************************************************************************)
EXTENDS Orders, TLC

CONSTANTS p1, p2, v1, v2, v3, s1, s2

Symmetry == Permutations(Payments) \cup Permutations(Verifiers) \cup Permutations(Staff)
=============================================================================
