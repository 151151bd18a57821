--------------------------- MODULE MCVerification ---------------------------
(***************************************************************************)
(* A small instance of Verification for TLC: two requests that send and    *)
(* three that verify, links and codes of every purpose.                    *)
(***************************************************************************)
EXTENDS Verification, TLC

CONSTANTS r1, r2, r3, r4, r5

Five == {r1, r2, r3, r4, r5}

SendOrVerify == [r \in Five |-> IF r \in {r1, r2} THEN {"send"}
                                ELSE {"otp", "magicLink", "verifyEmail"}]

\* Numeric codes expire before links do.
Lives == [p \in Purposes |-> IF p = "login" THEN 1 ELSE 2]

Symmetry == Permutations({r1, r2}) \cup Permutations({r3, r4, r5})
=============================================================================
