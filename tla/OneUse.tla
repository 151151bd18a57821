------------------------------- MODULE OneUse -------------------------------
(***************************************************************************)
(* What a one-use token of the key-value store promises in                 *)
(* authentication/: PasskeyService.consumeChallenge and verify of the      *)
(* OAuth state store read the key, delete it, and go on only if they had   *)
(* read something.  The two calls are not one: every caller that reads     *)
(* before the first deletion goes on.                                      *)
(***************************************************************************)

CONSTANTS Callers, Tokens, None

VARIABLES
  ever,     \* the tokens that have been stored, once each
  stored,   \* those that are in the store
  phase,    \* of each caller
  token,    \* the token it presents
  rivals    \* history: the callers that held its token, not yet deleted, with it

vars == <<ever, stored, phase, token, rivals>>

\* A caller holds a token once it has read it; it is through when it has
\* deleted it as well.
Phases == {"idle", "holds", "missed", "through", "refused"}
Hit    == {"holds", "through"}

Rivals(c) == {d \in Callers : phase[d] = "holds" /\ token[d] = token[c]}

Init ==
  /\ ever = {} /\ stored = {}
  /\ phase = [c \in Callers |-> "idle"]
  /\ token = [c \in Callers |-> None]
  /\ rivals = [c \in Callers |-> {}]

Store(t) ==
  /\ t \notin ever
  /\ ever' = ever \cup {t}
  /\ stored' = stored \cup {t}
  /\ UNCHANGED <<phase, token, rivals>>

Expire(t) ==
  /\ t \in stored
  /\ stored' = stored \ {t}
  /\ UNCHANGED <<ever, phase, token, rivals>>

\* Caller c presents t.
Present(c, t) ==
  /\ phase[c] = "idle" /\ token[c] = None
  /\ token' = [token EXCEPT ![c] = t]
  /\ UNCHANGED <<ever, stored, phase, rivals>>

\* get
Read(c) ==
  /\ phase[c] = "idle" /\ token[c] # None
  /\ IF token[c] \in stored
     THEN /\ phase' = [phase EXCEPT ![c] = "holds"]
          /\ rivals' = [d \in Callers |-> CASE d = c           -> Rivals(c)
                                            [] d \in Rivals(c) -> rivals[d] \cup {c}
                                            [] OTHER           -> rivals[d]]
     ELSE /\ phase' = [phase EXCEPT ![c] = "missed"]
          /\ rivals' = rivals
  /\ UNCHANGED <<ever, stored, token>>

\* del
Delete(c) ==
  /\ phase[c] \in {"holds", "missed"}
  /\ stored' = stored \ {token[c]}
  /\ phase' = [phase EXCEPT ![c] = IF @ = "holds" THEN "through" ELSE "refused"]
  /\ UNCHANGED <<ever, token, rivals>>

Next ==
  \/ \E t \in Tokens : Store(t) \/ Expire(t)
  \/ \E c \in Callers : \/ \E t \in Tokens : Present(c, t)
                        \/ Read(c) \/ Delete(c)

Spec == Init /\ [][Next]_vars

-----------------------------------------------------------------------------
TypeOK ==
  /\ ever \subseteq Tokens /\ stored \subseteq ever
  /\ phase \in [Callers -> Phases]
  /\ token \in [Callers -> Tokens \cup {None}]
  /\ rivals \in [Callers -> SUBSET Callers]

(* Two callers go on with one token only if each read it while the other   *)
(* held it: a token presented after one call is through is refused.        *)
UsedTwiceOverlapped ==
  \A c, d \in Callers :
    c # d /\ phase[c] = "through" /\ phase[d] = "through" /\ token[c] = token[d] =>
      c \in rivals[d] /\ d \in rivals[c]

\* The inductive invariant.
HitsOverlapped ==
  \A c, d \in Callers :
    c # d /\ phase[c] \in Hit /\ phase[d] \in Hit /\ token[c] = token[d] =>
      c \in rivals[d] /\ d \in rivals[c]
ThroughDeleted == \A c \in Callers : phase[c] = "through" => token[c] \notin stored
HitsStored     == \A c \in Callers : phase[c] \in Hit => token[c] \in ever
OneUseInv == TypeOK /\ HitsOverlapped /\ ThroughDeleted /\ HitsStored
=============================================================================
