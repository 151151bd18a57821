------------------------------ MODULE Passkey ------------------------------
(***************************************************************************)
(* Passkeys in authentication/: PasskeyService with its challenges in the  *)
(* key-value store, one action per awaited call.  The authenticators are   *)
(* outside: each signs a challenge with a counter that grows by one, or    *)
(* with none, and what it signed may be sent any number of times, late and *)
(* in any order.  verifyRegistrationResponse and                           *)
(* verifyAuthenticationResponse (@simplewebauthn/server) are modelled by   *)
(* their result: the challenge agrees, and the counter has grown.          *)
(*                                                                         *)
(* Each r in Requests is one call, served once; the challenge it makes is  *)
(* called r.  Users and identities are never deleted, so what only reads   *)
(* them is part of the step before it; the provider row and the issue of a *)
(* session are in Accounts and Sessions.                                   *)
(***************************************************************************)
EXTENDS Naturals

CONSTANTS
  Requests, Users, Creds, Nothing,
  OwnerOf,     \* OwnerOf[k]: the user who has the authenticator of k
  Counting,    \* the credentials whose authenticator counts
  MaxCount,    \* bound: assertions of one counting authenticator
  MayCall      \* MayCall[r]: the operations call r may be for

Completions == {"completeRegistration", "completeAuthentication"}
Operations  == Completions \cup {"start"}

ASSUME PasskeyAssumption ==
  /\ Nothing \notin Requests \cup Users \cup Creds \cup Operations
  /\ OwnerOf \in [Creds -> Users]
  /\ Counting \subseteq Creds
  /\ MaxCount \in Nat
  /\ MayCall \in [Requests -> SUBSET Operations]

VARIABLES
  challenges,  \* webauthn:challenge:<id>, by the call that made it
  issued,      \* the challenges that clients have got
  identities,  \* the users with a passkey identity, which is unique
  credentials, \* passkey_credentials: sign_count by credential_id, or Nothing
  counter,     \* the counter in each authenticator
  assertions,  \* what authenticators have signed
  sessions,    \* <<call, credential>>: a session was issued
  pc,
  req

challengeKeys == <<challenges, issued>>
passkeyRows   == <<identities, credentials>>
store == <<challengeKeys, passkeyRows>>
passkeyVars == <<store, counter, assertions, sessions, pc, req>>

Counts    == 0..MaxCount
Assertion == [challenge : Requests, cred : Creds, count : Counts]

Request ==
  [op        : Operations \cup {Nothing},
   challenge : Requests \cup {Nothing},      \* challengeId
   response  : Assertion \cup Creds \cup {Nothing},
   stored    : Counts \cup {Nothing},        \* the sign_count it read
   claim     : {"idle", "holds", "missed", "through", "refused"}, \* history: its challenge
   rivals    : SUBSET Requests] \* history: the calls that held its challenge with it

NoRequest ==
  [op |-> Nothing, challenge |-> Nothing, response |-> Nothing, stored |-> Nothing, claim |-> "idle",
   rivals |-> {}]

Ended  == {"done", "denied", "conflict", "failed"}
InFlightPlaces ==
  {"storeChallenge", "get", "del", "findIdentity", "createIdentity", "createCredential",
   "findCredential", "updateSignCount", "issue"}

Goto(r, place) == pc' = [pc EXCEPT ![r] = place]

PasskeyInit ==
  /\ challenges = {} /\ issued = {} /\ identities = {}
  /\ credentials = [k \in Creds |-> Nothing]
  /\ counter = [k \in Creds |-> 0]
  /\ assertions = {} /\ sessions = {}
  /\ pc = [r \in Requests |-> "idle"]
  /\ req = [r \in Requests |-> NoRequest]

-----------------------------------------------------------------------------
(* The calls                                                               *)

Arrive(r, op, challenge, response, first) ==
  /\ pc[r] = "idle"
  /\ op \in MayCall[r]
  /\ req' = [req EXCEPT ![r] = [NoRequest EXCEPT !.op = op, !.challenge = challenge,
                                                 !.response = response]]
  /\ Goto(r, first)
  /\ UNCHANGED <<store, counter, assertions, sessions>>

\* startRegistration and startAuthentication differ in what the client is
\* told about the user's credentials.
Start(r) == Arrive(r, "start", Nothing, Nothing, "storeChallenge")

\* The authenticator has made credential k for a challenge of its user.
CompleteRegistration(r) ==
  \E c \in issued, k \in Creds : Arrive(r, "completeRegistration", c, k, "get")

CompleteAuthentication(r) ==
  \E c \in issued, a \in assertions : Arrive(r, "completeAuthentication", c, a, "get")

\* The authenticator of k signs challenge c.
Sign(k, c) ==
  /\ credentials[k] # Nothing
  /\ c \in issued
  /\ LET count == IF k \in Counting THEN counter[k] + 1 ELSE 0
     IN /\ count <= MaxCount
        /\ counter' = [counter EXCEPT ![k] = count]
        /\ assertions' = assertions \cup {[challenge |-> c, cred |-> k, count |-> count]}
  /\ UNCHANGED <<store, sessions, pc, req>>

-----------------------------------------------------------------------------
(* Challenges                                                              *)

StoreChallenge(r) ==
  /\ pc[r] = "storeChallenge"
  /\ challenges' = challenges \cup {r}
  /\ issued' = issued \cup {r}
  /\ Goto(r, "done")
  /\ UNCHANGED <<passkeyRows, counter, assertions, sessions, req>>

\* CHALLENGE_TTL_SECONDS have passed, or the in-memory store was lost.
Expire(c) ==
  /\ c \in challenges
  /\ challenges' = challenges \ {c}
  /\ UNCHANGED <<issued, passkeyRows, counter, assertions, sessions, pc, req>>

GetChallenge(r) ==
  LET holding == {s \in Requests : req[s].claim = "holds" /\ req[s].challenge = req[r].challenge}
  IN /\ pc[r] = "get"
     /\ IF req[r].challenge \in challenges
        THEN req' = [s \in Requests |->
                       IF s = r THEN [req[r] EXCEPT !.claim = "holds", !.rivals = holding]
                       ELSE IF s \in holding THEN [req[s] EXCEPT !.rivals = @ \cup {r}] ELSE req[s]]
        ELSE req' = [req EXCEPT ![r].claim = "missed"]
     /\ Goto(r, "del")
     /\ UNCHANGED <<store, counter, assertions, sessions>>

\* Mutant: the challenge is left to expire.
LeaveChallenge(r) ==
  /\ pc[r] = "del"
  /\ req[r].claim = "holds"
  /\ req' = [req EXCEPT ![r].claim = "through"]
  /\ Goto(r, IF req[r].op = "completeRegistration" THEN "findIdentity" ELSE "findCredential")
  /\ UNCHANGED <<store, counter, assertions, sessions>>

\* del, whether there was a challenge or not.
DeleteChallenge(r) ==
  /\ pc[r] = "del"
  /\ challenges' = challenges \ {req[r].challenge}
  /\ \/ /\ req[r].claim = "holds"
        /\ req' = [req EXCEPT ![r].claim = "through"]
        /\ Goto(r, IF req[r].op = "completeRegistration" THEN "findIdentity" ELSE "findCredential")
     \/ /\ req[r].claim = "missed"
        /\ req' = [req EXCEPT ![r].claim = "refused"]
        /\ Goto(r, "denied")
  /\ UNCHANGED <<issued, passkeyRows, counter, assertions, sessions>>

-----------------------------------------------------------------------------
(* completeRegistration                                                    *)

FindIdentity(r) ==
  /\ pc[r] = "findIdentity"
  /\ Goto(r, IF OwnerOf[req[r].response] \in identities THEN "createCredential" ELSE "createIdentity")
  /\ UNCHANGED <<store, counter, assertions, sessions, req>>

\* (provider, user) is unique.
CreateIdentity(r) ==
  LET u == OwnerOf[req[r].response]
  IN /\ pc[r] = "createIdentity"
     /\ identities' = identities \cup {u}
     /\ Goto(r, IF u \in identities THEN "conflict" ELSE "createCredential")
     /\ UNCHANGED <<challengeKeys, credentials, counter, assertions, sessions, req>>

\* credential_id is unique.
CreateCredential(r) ==
  LET k == req[r].response
  IN /\ pc[r] = "createCredential"
     /\ \/ /\ credentials[k] = Nothing
           /\ credentials' = [credentials EXCEPT ![k] = 0]
           /\ Goto(r, "done")
        \/ /\ credentials[k] # Nothing
           /\ Goto(r, "conflict")
           /\ UNCHANGED credentials
     /\ UNCHANGED <<challengeKeys, identities, counter, assertions, sessions, req>>

-----------------------------------------------------------------------------
(* completeAuthentication                                                  *)

\* The counter of the library: it must grow, unless there is none.
Grown(count, stored) == count > stored \/ (count = 0 /\ stored = 0)

\* Mutant: the library is given no counter.
FindCredentialUncounted(r) ==
  LET a == req[r].response
  IN /\ pc[r] = "findCredential"
     /\ credentials[a.cred] # Nothing
     /\ a.challenge = req[r].challenge
     /\ req' = [req EXCEPT ![r].stored = credentials[a.cred]]
     /\ Goto(r, "updateSignCount")
     /\ UNCHANGED <<store, counter, assertions, sessions>>

\* findByCredentialId, and verifyAuthenticationResponse of what it found.
FindCredential(r) ==
  LET a      == req[r].response
      stored == credentials[a.cred]
      passes == a.challenge = req[r].challenge /\ stored # Nothing /\ Grown(a.count, stored)
  IN /\ pc[r] = "findCredential"
     /\ req' = [req EXCEPT ![r].stored = stored]
     /\ Goto(r, IF passes THEN "updateSignCount" ELSE "denied")
     /\ UNCHANGED <<store, counter, assertions, sessions>>

UpdateSignCount(r) ==
  /\ pc[r] = "updateSignCount"
  /\ credentials' = [credentials EXCEPT ![req[r].response.cred] = req[r].response.count]
  /\ Goto(r, "issue")
  /\ UNCHANGED <<challengeKeys, identities, counter, assertions, sessions, req>>

Issue(r) ==
  /\ pc[r] = "issue"
  /\ sessions' = sessions \cup {<<r, req[r].response>>}
  /\ Goto(r, "done")
  /\ UNCHANGED <<store, counter, assertions, req>>

StoreFails(r) ==
  /\ pc[r] \in InFlightPlaces
  /\ Goto(r, "failed")
  /\ UNCHANGED <<store, counter, assertions, sessions, req>>

PasskeyNext ==
  \/ \E r \in Requests :
       \/ Start(r) \/ CompleteRegistration(r) \/ CompleteAuthentication(r)
       \/ StoreChallenge(r) \/ GetChallenge(r) \/ DeleteChallenge(r)
       \/ FindIdentity(r) \/ CreateIdentity(r) \/ CreateCredential(r)
       \/ FindCredential(r) \/ UpdateSignCount(r) \/ Issue(r)
       \/ StoreFails(r)
  \/ \E c \in Requests : Expire(c) \/ \E k \in Creds : Sign(k, c)

PasskeySpec == PasskeyInit /\ [][PasskeyNext]_passkeyVars

-----------------------------------------------------------------------------
(* Correctness.                                                            *)

PasskeyTypeOK ==
  /\ challenges \subseteq issued /\ issued \subseteq Requests
  /\ identities \subseteq Users
  /\ credentials \in [Creds -> Counts \cup {Nothing}]
  /\ counter \in [Creds -> Counts]
  /\ assertions \subseteq Assertion
  /\ sessions \subseteq Requests \X assertions
  /\ pc \in [Requests -> InFlightPlaces \cup Ended \cup {"idle"}]
  /\ req \in [Requests -> Request]

\* The refinement mapping: callers and tokens are calls and challenges.
Uses == INSTANCE OneUse WITH
  Callers <- Requests, Tokens <- Requests, None <- Nothing,
  ever <- issued, stored <- challenges,
  phase <- [r \in Requests |-> req[r].claim],
  token <- [r \in Requests |-> req[r].challenge],
  rivals <- [r \in Requests |-> req[r].rivals]

(* A challenge is consumed the way a one-use token is: what OneUse says of *)
(* a token, and proves, holds of the challenges of PasskeyService.         *)
ConsumedAsOneUse == Uses!Spec

(* The stored counter of a credential goes back only if another sign-in    *)
(* wrote it after this one read it.                                        *)
CounterBackRaced ==
  [][\A k \in Creds : credentials[k] # Nothing /\ credentials'[k] < credentials[k] =>
       \E r \in Requests : /\ pc[r] = "updateSignCount" /\ pc'[r] = "issue"
                           /\ req[r].response.cred = k /\ req[r].stored # credentials[k]]_passkeyVars

-----------------------------------------------------------------------------
(* The inductive invariant: what a request q of call r carries at a place. *)

Registering == {"findIdentity", "createIdentity", "createCredential"}
SigningIn   == {"findCredential", "updateSignCount", "issue"}
Consuming   == {"get", "del"}

Fits(r, q, place) ==
  /\ place = "idle" => q = NoRequest
  /\ place \in {"idle", "storeChallenge"} => r \notin issued
  /\ place \in Consuming => q.op \in Completions /\ q.challenge # Nothing
  /\ place = "get" => q.claim = "idle"
  /\ place = "del" => q.claim \in {"holds", "missed"}
  /\ \/ place \in Registering
     \/ place \in Consuming /\ q.op = "completeRegistration"
     => q.response \in Creds
  /\ \/ place \in SigningIn
     \/ place \in Consuming /\ q.op = "completeAuthentication"
     => q.response \in assertions
  /\ place = "updateSignCount" => q.stored \in Counts /\ Grown(q.response.count, q.stored)

PasskeyInv == PasskeyTypeOK /\ \A r \in Requests : Fits(r, req[r], pc[r])

=============================================================================
