---------------------------- MODULE MCOAuthState ----------------------------
(***************************************************************************)
(* A small instance of OAuthState for TLC: two tabs of one browser and a   *)
(* flow of another, two callbacks.                                         *)
(***************************************************************************)
EXTENDS OAuthState, TLC

CONSTANTS f1, f2, f3, b1, b2, c1, c2

ThreeFlows   == {f1, f2, f3}
TwoBrowsers  == {b1, b2}
TwoCallbacks == {c1, c2}
TwoTabs == [f \in ThreeFlows |-> IF f = f3 THEN b2 ELSE b1]

Symmetry == Permutations({f1, f2}) \cup Permutations(TwoCallbacks)
=============================================================================
