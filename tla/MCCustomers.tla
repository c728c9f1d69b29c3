----------------------------- MODULE MCCustomers -----------------------------
(***************************************************************************)
(* The administrator and room for two more accounts, two customers, one   *)
(* phone number of each spelling, one order, and three requests, two at a  *)
(* time, from every state of that size with no order in it.                *)
(***************************************************************************)
EXTENDS Customers, TLC

CONSTANTS a1, a2, a3, r1, r2, c1, c2, root, m1, m2, p1, w1

MCRoles == {"owner", "super_admin"}

Symmetry ==
  Permutations(Accounts) \cup Permutations(Slots) \cup Permutations(CustomerIds)
    \cup Permutations(Emails \ {AdminEmail})
=============================================================================
