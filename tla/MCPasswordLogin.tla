--------------------------- MODULE MCPasswordLogin ---------------------------
(***************************************************************************)
(* A small instance of PasswordLogin for TLC: four requests, two passwords *)
(***************************************************************************)
EXTENDS PasswordLogin, TLC

CONSTANTS p1, p2, r1, r2, r3, r4

TwoPasswords == {p1, p2}
Four         == {r1, r2, r3, r4}

\* r1 signs in, first or beside the others, which sign in or change the
\* password.
WithChanges == [r \in Four |-> IF r = r1 THEN {"signIn"} ELSE {"signIn", "change"}]

Symmetry == Permutations(Four \ {r1})
=============================================================================
