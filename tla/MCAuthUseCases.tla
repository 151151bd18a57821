--------------------------- MODULE MCAuthUseCases ---------------------------
(***************************************************************************)
(* A small instance of AuthUseCases for TLC: two registrations of one      *)
(* address, a presentation of its token and two logins; one run may        *)
(* do either of the first two.                                             *)
(***************************************************************************)
EXTENDS AuthUseCases, TLC

CONSTANTS q1, q2, q3, q4, q5

Five == {q1, q2, q3, q4, q5}

Mixed ==
  [q \in Five |-> CASE q = q1 -> {"register"}
                    [] q = q2 -> {"register", "verify"}
                    [] OTHER  -> {"verify", "login-good", "login-bad"}]

Symmetry == Permutations({q3, q4, q5})
=============================================================================
