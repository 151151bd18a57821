---------------------------- MODULE MCThrottler ----------------------------
(***************************************************************************)
(* A small instance of Throttler for TLC: three requests, all alike.       *)
(***************************************************************************)
EXTENDS Throttler, TLC

CONSTANTS r1, r2, r3

Three == {r1, r2, r3}

Symmetry == Permutations(Three)
=============================================================================
