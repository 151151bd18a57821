------------------------------- MODULE MCRbac -------------------------------
(***************************************************************************)
(* A small instance of Rbac for TLC: an administrator and another user,    *)
(* one permission code, four calls.                                        *)
(***************************************************************************)
EXTENDS Rbac, TLC

CONSTANTS r1, r2, r3, r4, u1, u2, c1

Four     == {r1, r2, r3, r4}
TwoUsers == {u1, u2}
OneAdmin == {u1}
OneCode  == {c1}

SuperAndCustom == {Super, Custom}

\* r1 creates a role, the others do anything with it.
AfterCreation == [r \in Four |-> IF r = r1 THEN {"createRole"} ELSE Operations]

Symmetry == Permutations({r2, r3, r4})
=============================================================================
