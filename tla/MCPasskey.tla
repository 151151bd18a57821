----------------------------- MODULE MCPasskey -----------------------------
(***************************************************************************)
(* A small instance of Passkey for TLC: one user with two authenticators,  *)
(* of which one counts, and five calls.                                    *)
(***************************************************************************)
EXTENDS Passkey, TLC

CONSTANTS r1, r2, r3, r4, r5, u1, k1, k2

Five     == {r1, r2, r3, r4, r5}
OneUser  == {u1}
OneCred  == {k1}
TwoCreds == {k1, k2}
TwoOwned == [k \in TwoCreds |-> u1]

\* r1 and r2 make challenges, r3 registers, r4 and r5 register or sign in.
Ceremonies == [r \in Five |-> CASE r \in {r1, r2} -> {"start"}
                                [] r = r3 -> {"completeRegistration"}
                                [] OTHER  -> {"completeRegistration", "completeAuthentication"}]

Symmetry == Permutations({r1, r2}) \cup Permutations({r4, r5})
=============================================================================
