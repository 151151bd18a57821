----------------------------- MODULE MCAccounts -----------------------------
(***************************************************************************)
(* A small instance of Accounts for TLC: one address, one phone and one    *)
(* account at a provider, three calls, and one user who was there before.  *)
(***************************************************************************)
EXTENDS Accounts, TLC

CONSTANTS r1, r2, r3, u1, e1, p1, x1

Three == {r1, r2, r3}

OneResident  == {u1}
Nothing      == {}
OneEmail     == {e1}
OnePhone     == {p1}
OneExternal  == {x1}

AnyOperation == [r \in Three |-> Operations]

Symmetry == Permutations(Three)
=============================================================================
