--------------------------- MODULE MCAuthSessions ---------------------------
(***************************************************************************)
(* Two concurrent calls; tokens live for one second and time runs for two. *)
(***************************************************************************)
EXTENDS AuthSessions, TLC

CONSTANTS c1, c2

Symmetry == Permutations(Calls)
=============================================================================
