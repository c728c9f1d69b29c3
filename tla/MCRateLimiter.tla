--------------------------- MODULE MCRateLimiter ----------------------------
(***************************************************************************)
(* A limit of two in a window of four; one worker with two requests at a   *)
(* time, a script at most one time unit late.                              *)
(***************************************************************************)
EXTENDS RateLimiter, TLC

CONSTANTS w1, q1, q2

Symmetry == Permutations(Requests)
=============================================================================
