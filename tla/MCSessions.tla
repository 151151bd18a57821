---------------------------- MODULE MCSessions ----------------------------
(***************************************************************************)
(* A small instance of Sessions for TLC: one user, whom an operator may    *)
(* deactivate, and three requests.                                         *)
(***************************************************************************)
EXTENDS Sessions

CONSTANTS u1, r1, r2, r3

OneUser == {u1}
Three   == {r1, r2, r3}

\* r1 signs in, the others call every handler on what it got.
EveryHandler == [r \in Three |-> IF r = r1 THEN {"issue"} ELSE AllKinds]
============================================================================
