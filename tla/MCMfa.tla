-------------------------------- MODULE MCMfa --------------------------------
(***************************************************************************)
(* A small instance of Mfa for TLC: five calls.                            *)
(***************************************************************************)
EXTENDS Mfa, TLC

CONSTANTS r1, r2, r3, r4, r5

Five == {r1, r2, r3, r4, r5}

\* r1 sets the factor up; the others use it, replace it or turn it off.
Lifecycle == [r \in Five |-> IF r = r1 THEN {"setup"} ELSE Handlers]

Symmetry == Permutations(Five \ {r1})
=============================================================================
