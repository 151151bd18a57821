-------------------------- MODULE SessionIssuance --------------------------
(***************************************************************************)
(* What the session component of authentication/ promises, without saying  *)
(* how: a session is opened once and closed for good, and a refresh token  *)
(* is added to it only by a request that obtained a grant while the        *)
(* session was open.  Revoking a session takes no grant back, so tokens    *)
(* may still be added to a closed session, at most one for each grant      *)
(* that was out when it was closed.                                        *)
(***************************************************************************)
CONSTANTS
  Ids,       \* session ids
  Grantees,  \* the requests that may hold a grant
  Tokens     \* refresh-token ids

VARIABLES
  status,    \* "absent", then "open", then "closed"
  grants,    \* grants[s]: requests entitled to add one token to s
  tokens     \* tokens[s]: the refresh tokens of s

ivars == <<status, grants, tokens>>

Init ==
  /\ status = [s \in Ids |-> "absent"]
  /\ grants = [s \in Ids |-> {}]
  /\ tokens = [s \in Ids |-> {}]

\* A sign-in opens a session and holds its first grant.
Open(s, g) ==
  /\ status[s] = "absent"
  /\ status' = [status EXCEPT ![s] = "open"]
  /\ grants' = [grants EXCEPT ![s] = {g}]
  /\ UNCHANGED tokens

\* A refresh found the session open.
Grant(s, g) ==
  /\ status[s] = "open"
  /\ grants' = [grants EXCEPT ![s] = @ \cup {g}]
  /\ UNCHANGED <<status, tokens>>

Mint(s, g, t) ==
  /\ g \in grants[s]
  /\ \A i \in Ids : t \notin tokens[i]
  /\ grants' = [grants EXCEPT ![s] = @ \ {g}]
  /\ tokens' = [tokens EXCEPT ![s] = @ \cup {t}]
  /\ UNCHANGED status

\* Requests end without using their grants.
Drop(G) ==
  /\ grants' = [s \in Ids |-> grants[s] \ G]
  /\ UNCHANGED <<status, tokens>>

Close(S) ==
  /\ \A s \in S : status[s] = "open"
  /\ status' = [s \in Ids |-> IF s \in S THEN "closed" ELSE status[s]]
  /\ UNCHANGED <<grants, tokens>>

Next ==
  \/ \E s \in Ids, g \in Grantees : Open(s, g)
  \/ \E s \in Ids, g \in Grantees : Grant(s, g)
  \/ \E s \in Ids, g \in Grantees, t \in Tokens : Mint(s, g, t)
  \/ \E G \in SUBSET Grantees : Drop(G)
  \/ \E S \in SUBSET Ids : Close(S)

Spec == Init /\ [][Next]_ivars
============================================================================
