------------------------------ MODULE MCAccess ------------------------------
(***************************************************************************)
(* A small instance of Access for TLC: two calls, one role, one permission *)
(* and a route that requires both.                                         *)
(***************************************************************************)
EXTENDS Access, TLC

CONSTANTS r1, r2, admin, manage

Two   == {r1, r2}
One   == {admin}
Guarded == {[roles |-> One, codes |-> {manage}]}

Symmetry == Permutations(Two)
=============================================================================
