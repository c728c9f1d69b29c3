---------------------------- MODULE MCWebSockets ----------------------------
(***************************************************************************)
(* One user with two connections, and the subscriber loop: at most three   *)
(* broadcasts at a time.                                                   *)
(***************************************************************************)
EXTENDS WebSockets

CONSTANTS u1, a1, a2

MCUserOf == [c \in Conns |-> u1]
=============================================================================
