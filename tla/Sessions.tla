------------------------------ MODULE Sessions ------------------------------
(***************************************************************************)
(* Login sessions, rotating refresh tokens, access tokens and the deny-    *)
(* list of authentication/: AuthService with SessionRepository,            *)
(* RefreshTokenRepository, JwtTokenService, SessionRevocationService and   *)
(* JwtStrategy.                                                            *)
(*                                                                         *)
(* The service runs no database transaction around these handlers, so a    *)
(* request is a process that may be interrupted at every `await`: one      *)
(* action per awaited call, the rows it read kept in req[r].  Each r in    *)
(* Requests is one HTTP request and is served once, so it also names the   *)
(* rows it inserts: a sign-in r creates session r, and the refresh token   *)
(* that a sign-in or a refresh r inserts is token r (fresh uuids in the    *)
(* code).                                                                  *)
(***************************************************************************)
EXTENDS Naturals

CONSTANTS
  Users,        \* user rows
  Requests,     \* HTTP requests, each served once
  None,         \* SQL NULL, "no such row"
  MayCall,      \* MayCall[r]: the handlers request r may be for
  MayDisable,   \* users an operator may deactivate
  AccessTtl,    \* what jsonwebtoken makes of JWT_EXPIRES_IN, in ticks
  PlainTtl,     \* JWT_EXPIRES_IN is digits and one of s, m, h, d
  FallbackTtl,  \* the 900 seconds that stand for any other spelling, in ticks
  SessionTtl,   \* the 7 days of a session row and of a token row, in ticks
  SharedStore,  \* ON_REDIS: the deny-list outlives the process
  MaxTime       \* bound on the clock

AllKinds ==
  {"issue", "refresh", "signOut", "signOutAll", "changePassword"}

SessionIds == Requests
TokenIds   == Requests

ASSUME ConstantsAssumption ==
  /\ None \notin Users \cup Requests
  /\ MayCall \in [Requests -> SUBSET AllKinds]
  /\ MayDisable \subseteq Users
  /\ AccessTtl \in Nat \ {0}
  /\ PlainTtl \in BOOLEAN
  /\ FallbackTtl \in Nat \ {0}
  /\ SessionTtl \in Nat \ {0}
  /\ SharedStore \in BOOLEAN
  /\ MaxTime \in Nat

VARIABLES
  now,            \* the clock; starts at 1 so that 0 can mean "never"
  disabled,       \* users whose status is no longer 'active'
  sessionOwner,   \* sessions.user_id, None for a row not yet inserted
  sessionExpires, \* sessions.expires_at
  revoked,        \* sessions whose revoked_at is not NULL
  tokenSession,   \* refresh_tokens.session_id, None for no row
  tokenParent,    \* refresh_tokens.parent_id
  tokenExpires,   \* refresh_tokens.expires_at
  used,           \* refresh tokens whose used_at is not NULL
  tokenRevoked,   \* refresh tokens whose revoked_at is not NULL
  denyUntil,      \* expiry of the deny-list entry of a session, 0 for none
  forgotten,      \* history: sessions whose live deny mark a restart dropped
  heldRefresh,    \* refresh tokens delivered to a client
  heldAccess,     \* access tokens delivered to a client
  pc,             \* where a request is in its handler
  req             \* a request's arguments and the rows it has read

sessionVars == <<sessionOwner, sessionExpires, revoked>>
tokenVars   == <<tokenSession, tokenParent, tokenExpires, used, tokenRevoked>>
denyVars    == <<denyUntil, forgotten>>
clientVars  == <<heldRefresh, heldAccess>>
vars == <<now, disabled, sessionVars, tokenVars, denyVars, clientVars, pc, req>>

AccessToken == [session : SessionIds, iat : Nat]

Request ==
  [kind    : AllKinds \cup {None},
   user    : Users \cup {None},
   session : SessionIds \cup {None},   \* session being served or revoked
   token   : TokenIds \cup {None},     \* refresh token presented
   keep    : SessionIds \cup {None},   \* currentSessionId of changePassword
   began   : Nat,                      \* arrival time
   iat     : Nat,                      \* issue time of the signed JWT
   targets : SUBSET SessionIds,        \* sessions read for revocation
   chain   : SUBSET SessionIds,        \* targets whose chain is still to do
   deny    : SUBSET SessionIds]        \* targets whose deny mark is still to do

NoRequest ==
  [kind |-> None, user |-> None, session |-> None, token |-> None,
   keep |-> None, began |-> 0, iat |-> 0,
   targets |-> {}, chain |-> {}, deny |-> {}]

\* At these places a request has passed the session check (Granted) and the
\* user check (Issuing) of refreshToken, or has just created its session.
Issuing    == {"mark", "sign", "insert"}
Granted    == {"readUser"} \cup Issuing
Sequential == {"revokeSession", "revokeChain", "denyMark"}
Reusing    == {"reuseChain", "reuseSession", "reuseMark"}
Bulk       == {"list", "revokeAll", "each", "eachFailed"}
Final      == {"ok", "denied", "reused", "failed"}
Places     == {"idle", "create", "readSession", "readUser", "respond"}
                \cup Issuing \cup Sequential \cup Reusing \cup Bulk \cup Final

InFlight(r) == pc[r] \notin Final \cup {"idle"}

-----------------------------------------------------------------------------
(* Rows, the deny-list and what JwtStrategy accepts.                       *)

TokensOf(s) == {t \in TokenIds : tokenSession[t] = s}

\* Mutant: findById in place of findActiveById.
SessionActiveIgnoringRevocation(s) == sessionOwner[s] # None /\ sessionExpires[s] > now

\* SessionRepository.findActiveById and findActiveSessionsByUserId.
SessionActive(s) ==
  /\ sessionOwner[s] # None
  /\ s \notin revoked
  /\ sessionExpires[s] > now

\* SessionRevocationService.isRevoked.  Redis drops an entry at its expiry,
\* the in-memory store only after it.
Marked(s) == IF SharedStore THEN now < denyUntil[s] ELSE now <= denyUntil[s]

\* JwtStrategy: signature and exp are checked, then the deny-list.
Accepted(a) == now < a.iat + AccessTtl /\ ~Marked(a.session)

Goto(r, place) == pc' = [pc EXCEPT ![r] = place]

\* Mutant: the UPDATE skips tokens that were already exchanged.
RevokeUnusedOnly(s) == tokenRevoked' = tokenRevoked \cup (TokensOf(s) \ used)

\* RefreshTokenRepository.revokeSessionChain
RevokeSessionChain(s) == tokenRevoked' = tokenRevoked \cup TokensOf(s)

\* parseDurationToSeconds knows one spelling of a duration, jsonwebtoken knows
\* many ('1w', '2 days', a bare number), and nothing restricts the variable.
MarkTtl == IF PlainTtl THEN AccessTtl ELSE FallbackTtl

\* SessionRevocationService.markRevoked
MarkRevoked(s) ==
  /\ denyUntil' = [denyUntil EXCEPT ![s] = now + MarkTtl]
  /\ UNCHANGED forgotten

Init ==
  /\ now = 1
  /\ disabled = {}
  /\ sessionOwner = [s \in SessionIds |-> None]
  /\ sessionExpires = [s \in SessionIds |-> 0]
  /\ revoked = {}
  /\ tokenSession = [t \in TokenIds |-> None]
  /\ tokenParent = [t \in TokenIds |-> None]
  /\ tokenExpires = [t \in TokenIds |-> 0]
  /\ used = {}
  /\ tokenRevoked = {}
  /\ denyUntil = [s \in SessionIds |-> 0]
  /\ forgotten = {}
  /\ heldRefresh = {}
  /\ heldAccess = {}
  /\ pc = [r \in Requests |-> "idle"]
  /\ req = [r \in Requests |-> NoRequest]

-----------------------------------------------------------------------------
(* A request arrives with the given fields.                                *)

Arrive(r, fields, place) ==
  /\ pc[r] = "idle"
  /\ fields.kind \in MayCall[r]
  /\ req' = [req EXCEPT ![r] = fields]
  /\ Goto(r, place)

(* Sign-in by any method.  The credential checks belong to the methods;    *)
(* here the user's status is read, and much later the session is created.  *)
IssueStart(r, u) ==
  /\ u \notin disabled
  /\ Arrive(r, [NoRequest EXCEPT !.kind = "issue", !.user = u, !.session = r,
                                 !.began = now],
            "create")
  /\ UNCHANGED <<now, disabled, sessionVars, tokenVars, denyVars, clientVars>>

IssueCreateSession(r) ==
  /\ pc[r] = "create"
  /\ sessionOwner' = [sessionOwner EXCEPT ![r] = req[r].user]
  /\ sessionExpires' = [sessionExpires EXCEPT ![r] = now + SessionTtl]
  /\ Goto(r, "sign")
  /\ UNCHANGED <<now, disabled, revoked, tokenVars, denyVars, clientVars, req>>

\* generateTokenPair: the JWT carries its issue time.
SignAccess(r) ==
  /\ pc[r] = "sign"
  /\ req' = [req EXCEPT ![r].iat = now]
  /\ Goto(r, "insert")
  /\ UNCHANGED <<now, disabled, sessionVars, tokenVars, denyVars, clientVars>>

InsertToken(r) ==
  /\ pc[r] = "insert"
  /\ tokenSession' = [tokenSession EXCEPT ![r] = req[r].session]
  /\ tokenParent' = [tokenParent EXCEPT ![r] = req[r].token]
  /\ tokenExpires' = [tokenExpires EXCEPT ![r] = now + SessionTtl]
  /\ Goto(r, "respond")
  /\ UNCHANGED <<now, disabled, sessionVars, used, tokenRevoked, denyVars, clientVars, req>>

\* The handler returns and the client receives both tokens.
Respond(r) ==
  /\ pc[r] = "respond"
  /\ heldRefresh' = heldRefresh \cup {r}
  /\ heldAccess' = heldAccess \cup {[session |-> req[r].session, iat |-> req[r].iat]}
  /\ Goto(r, "ok")
  /\ UNCHANGED <<now, disabled, sessionVars, tokenVars, denyVars, req>>

-----------------------------------------------------------------------------
(* AuthService.refreshToken                                                *)

Refreshing(t) ==
  [NoRequest EXCEPT !.kind = "refresh", !.token = t, !.began = now,
                    !.session = tokenSession[t]]

\* A token no row has the hash of.
RefreshUnknown(r) ==
  /\ Arrive(r, [NoRequest EXCEPT !.kind = "refresh", !.began = now], "denied")
  /\ UNCHANGED <<now, disabled, sessionVars, tokenVars, denyVars, clientVars>>

\* Revoked, or expired before its first use.
RefreshRejected(r, t) ==
  /\ t \in heldRefresh
  /\ \/ t \in tokenRevoked
     \/ t \notin used /\ tokenExpires[t] < now
  /\ Arrive(r, Refreshing(t), "denied")
  /\ UNCHANGED <<now, disabled, sessionVars, tokenVars, denyVars, clientVars>>

\* Mutant: a token that is no longer good for a refresh counts as used.
RefreshUsedOrExpired(r, t) ==
  /\ t \in heldRefresh
  /\ t \notin tokenRevoked
  /\ t \in used \/ tokenExpires[t] <= now
  /\ Arrive(r, [Refreshing(t) EXCEPT !.targets = {tokenSession[t]}], "reuseChain")
  /\ UNCHANGED <<now, disabled, sessionVars, tokenVars, denyVars, clientVars>>

\* A used token: reuse detection, even when the token has expired.
RefreshReused(r, t) ==
  /\ t \in heldRefresh
  /\ t \notin tokenRevoked
  /\ t \in used
  /\ Arrive(r, [Refreshing(t) EXCEPT !.targets = {tokenSession[t]}], "reuseChain")
  /\ UNCHANGED <<now, disabled, sessionVars, tokenVars, denyVars, clientVars>>

RefreshStart(r, t) ==
  /\ t \in heldRefresh
  /\ t \notin tokenRevoked \cup used
  /\ tokenExpires[t] >= now
  /\ Arrive(r, Refreshing(t), "readSession")
  /\ UNCHANGED <<now, disabled, sessionVars, tokenVars, denyVars, clientVars>>

\* Mutant: the session is read but not tested.
RefreshSkipSessionCheck(r) ==
  /\ pc[r] = "readSession"
  /\ req' = [req EXCEPT ![r].user = sessionOwner[req[r].session]]
  /\ Goto(r, "readUser")
  /\ UNCHANGED <<now, disabled, sessionVars, tokenVars, denyVars, clientVars>>

RefreshReadSession(r) ==
  /\ pc[r] = "readSession"
  /\ \/ /\ SessionActive(req[r].session)
        /\ req' = [req EXCEPT ![r].user = sessionOwner[req[r].session]]
        /\ Goto(r, "readUser")
     \/ /\ ~SessionActive(req[r].session)
        /\ Goto(r, "denied")
        /\ UNCHANGED req
  /\ UNCHANGED <<now, disabled, sessionVars, tokenVars, denyVars, clientVars>>

\* Mutant: the replacement is issued without marking the token used.
RefreshWithoutMark(r) ==
  /\ pc[r] = "readUser"
  /\ Goto(r, IF req[r].user \in disabled THEN "denied" ELSE "sign")
  /\ UNCHANGED <<now, disabled, sessionVars, tokenVars, denyVars, clientVars, req>>

RefreshReadUser(r) ==
  /\ pc[r] = "readUser"
  /\ Goto(r, IF req[r].user \in disabled THEN "denied" ELSE "mark")
  /\ UNCHANGED <<now, disabled, sessionVars, tokenVars, denyVars, clientVars, req>>

\* markAsUsed updates the row whatever its used_at has become meanwhile.
RefreshMarkUsed(r) ==
  /\ pc[r] = "mark"
  /\ used' = used \cup {req[r].token}
  /\ Goto(r, "sign")
  /\ UNCHANGED <<now, disabled, sessionVars, tokenSession, tokenParent, tokenExpires,
                 tokenRevoked, denyVars, clientVars, req>>

ReuseRevokeChain(r) ==
  /\ pc[r] = "reuseChain"
  /\ RevokeSessionChain(req[r].session)
  /\ Goto(r, "reuseSession")
  /\ UNCHANGED <<now, disabled, sessionVars, tokenSession, tokenParent, tokenExpires,
                 used, denyVars, clientVars, req>>

ReuseRevokeSession(r) ==
  /\ pc[r] = "reuseSession"
  /\ revoked' = revoked \cup {req[r].session}
  /\ Goto(r, "reuseMark")
  /\ UNCHANGED <<now, disabled, sessionOwner, sessionExpires, tokenVars, denyVars,
                 clientVars, req>>

ReuseMark(r) ==
  /\ pc[r] = "reuseMark"
  /\ MarkRevoked(req[r].session)
  /\ Goto(r, "reused")
  /\ UNCHANGED <<now, disabled, sessionVars, tokenVars, clientVars, req>>

-----------------------------------------------------------------------------
(* AuthService.signOut (s is the session of the JWT) and revokeSession     *)
(* (s is any id the caller names): find the row, check the owner, revoke.  *)

SignOutStart(r, a, s) ==
  /\ Accepted(a)
  /\ LET owned == sessionOwner[s] = sessionOwner[a.session]
     IN  Arrive(r, [NoRequest EXCEPT !.kind = "signOut", !.began = now,
                      !.user = sessionOwner[a.session], !.session = s,
                      !.targets = IF owned THEN {s} ELSE {}],
                IF owned THEN "revokeSession" ELSE "denied")
  /\ UNCHANGED <<now, disabled, sessionVars, tokenVars, denyVars, clientVars>>

SignOutRevokeSession(r) ==
  /\ pc[r] = "revokeSession"
  /\ revoked' = revoked \cup {req[r].session}
  /\ Goto(r, "revokeChain")
  /\ UNCHANGED <<now, disabled, sessionOwner, sessionExpires, tokenVars, denyVars,
                 clientVars, req>>

SignOutRevokeChain(r) ==
  /\ pc[r] = "revokeChain"
  /\ RevokeSessionChain(req[r].session)
  /\ Goto(r, "denyMark")
  /\ UNCHANGED <<now, disabled, sessionVars, tokenSession, tokenParent, tokenExpires,
                 used, denyVars, clientVars, req>>

SignOutMark(r) ==
  /\ pc[r] = "denyMark"
  /\ MarkRevoked(req[r].session)
  /\ Goto(r, "ok")
  /\ UNCHANGED <<now, disabled, sessionVars, tokenVars, clientVars, req>>

-----------------------------------------------------------------------------
(* AuthService.signOutAll, and the part of changePassword that follows the *)
(* password update and spares the current session: read the active         *)
(* sessions, revoke all rows in one UPDATE, then treat each session read   *)
(* on its own (Promise.all).                                               *)

RevokeAllStart(r, a, kind) ==
  /\ Accepted(a)
  /\ Arrive(r, [NoRequest EXCEPT !.kind = kind, !.user = sessionOwner[a.session],
                  !.keep = IF kind = "changePassword" THEN a.session ELSE None,
                  !.began = now],
            "list")
  /\ UNCHANGED <<now, disabled, sessionVars, tokenVars, denyVars, clientVars>>

RevokeAllList(r) ==
  /\ pc[r] = "list"
  /\ req' = [req EXCEPT ![r].targets = {s \in SessionIds : /\ sessionOwner[s] = req[r].user
                                                           /\ SessionActive(s)
                                                           /\ s # req[r].keep}]
  /\ Goto(r, "revokeAll")
  /\ UNCHANGED <<now, disabled, sessionVars, tokenVars, denyVars, clientVars>>

RevokeAllForUser(r) ==
  /\ pc[r] = "revokeAll"
  /\ revoked' = revoked \cup {s \in SessionIds : /\ sessionOwner[s] = req[r].user
                                                 /\ s # req[r].keep}
  /\ req' = [req EXCEPT ![r].chain = req[r].targets]
  /\ Goto(r, "each")
  /\ UNCHANGED <<now, disabled, sessionOwner, sessionExpires, tokenVars, denyVars,
                 clientVars>>

\* Mutant: the chain is revoked but the session is never marked.
RevokeEachChainOnly(r, s) ==
  /\ pc[r] \in {"each", "eachFailed"}
  /\ s \in req[r].chain
  /\ RevokeSessionChain(s)
  /\ req' = [req EXCEPT ![r].chain = @ \ {s}]
  /\ UNCHANGED <<now, disabled, sessionVars, tokenSession, tokenParent, tokenExpires,
                 used, denyVars, clientVars, pc>>

RevokeEachChain(r, s) ==
  /\ pc[r] \in {"each", "eachFailed"}
  /\ s \in req[r].chain
  /\ RevokeSessionChain(s)
  /\ req' = [req EXCEPT ![r].chain = @ \ {s}, ![r].deny = @ \cup {s}]
  /\ UNCHANGED <<now, disabled, sessionVars, tokenSession, tokenParent, tokenExpires,
                 used, denyVars, clientVars, pc>>

RevokeEachMark(r, s) ==
  /\ pc[r] \in {"each", "eachFailed"}
  /\ s \in req[r].deny
  /\ MarkRevoked(s)
  /\ req' = [req EXCEPT ![r].deny = @ \ {s}]
  /\ UNCHANGED <<now, disabled, sessionVars, tokenVars, clientVars, pc>>

\* Mutant: a rejected promise is swallowed and nobody answers.
RevokeEachSwallowsError(r) ==
  /\ pc[r] = "each"
  /\ req[r].chain = {} /\ req[r].deny = {}
  /\ Goto(r, "ok")
  /\ UNCHANGED <<now, disabled, sessionVars, tokenVars, denyVars, clientVars, req>>

RevokeEachDone(r) ==
  /\ pc[r] \in {"each", "eachFailed"}
  /\ req[r].chain = {} /\ req[r].deny = {}
  /\ Goto(r, IF pc[r] = "each" THEN "ok" ELSE "failed")
  /\ UNCHANGED <<now, disabled, sessionVars, tokenVars, denyVars, clientVars, req>>

-----------------------------------------------------------------------------
(* Faults and the environment.                                             *)

\* A rejected promise (database, Redis): the handler throws where it stands.
CallFails(r) ==
  /\ InFlight(r)
  /\ pc[r] \notin {"each", "eachFailed"}
  /\ Goto(r, "failed")
  /\ UNCHANGED <<now, disabled, sessionVars, tokenVars, denyVars, clientVars, req>>

\* Promise.all answers with the error but the other sessions go on.
EachFails(r, s) ==
  /\ pc[r] \in {"each", "eachFailed"}
  /\ s \in req[r].chain \cup req[r].deny
  /\ req' = [req EXCEPT ![r].chain = @ \ {s}, ![r].deny = @ \ {s}]
  /\ Goto(r, "eachFailed")
  /\ UNCHANGED <<now, disabled, sessionVars, tokenVars, denyVars, clientVars>>

\* The process restarts: requests die, an in-memory deny-list is lost.
Restart ==
  /\ pc' = [r \in Requests |-> IF InFlight(r) THEN "failed" ELSE pc[r]]
  /\ IF SharedStore
     THEN UNCHANGED denyVars
     ELSE /\ denyUntil' = [s \in SessionIds |-> 0]
          /\ forgotten' = forgotten \cup {s \in SessionIds : Marked(s)}
  /\ UNCHANGED <<now, disabled, sessionVars, tokenVars, clientVars, req>>

\* No code of the service writes users.status; an operator does.
DisableUser(u) ==
  /\ u \in MayDisable \ disabled
  /\ disabled' = disabled \cup {u}
  /\ UNCHANGED <<now, sessionVars, tokenVars, denyVars, clientVars, pc, req>>

Tick ==
  /\ now < MaxTime
  /\ now' = now + 1
  /\ UNCHANGED <<disabled, sessionVars, tokenVars, denyVars, clientVars, pc, req>>

-----------------------------------------------------------------------------
ArriveStep(r) ==
  \/ \E u \in Users : IssueStart(r, u)
  \/ RefreshUnknown(r)
  \/ \E t \in TokenIds : RefreshRejected(r, t)
  \/ \E t \in TokenIds : RefreshReused(r, t)
  \/ \E t \in TokenIds : RefreshStart(r, t)
  \/ \E a \in heldAccess, s \in SessionIds : SignOutStart(r, a, s)
  \/ \E a \in heldAccess, k \in {"signOutAll", "changePassword"} : RevokeAllStart(r, a, k)

HandlerStep(r) ==
  \/ IssueCreateSession(r)
  \/ SignAccess(r)
  \/ InsertToken(r)
  \/ Respond(r)
  \/ RefreshReadSession(r)
  \/ RefreshReadUser(r)
  \/ RefreshMarkUsed(r)
  \/ ReuseRevokeChain(r)
  \/ ReuseRevokeSession(r)
  \/ ReuseMark(r)
  \/ SignOutRevokeSession(r)
  \/ SignOutRevokeChain(r)
  \/ SignOutMark(r)
  \/ RevokeAllList(r)
  \/ RevokeAllForUser(r)
  \/ \E s \in SessionIds : RevokeEachChain(r, s)
  \/ \E s \in SessionIds : RevokeEachMark(r, s)
  \/ RevokeEachDone(r)

FaultStep(r) ==
  \/ CallFails(r)
  \/ \E s \in SessionIds : EachFails(r, s)

Next ==
  \/ \E r \in Requests : ArriveStep(r) \/ HandlerStep(r) \/ FaultStep(r)
  \/ Restart
  \/ \E u \in Users : DisableUser(u)
  \/ Tick

Spec == Init /\ [][Next]_vars

\* Node's event loop runs every pending continuation and the driver answers
\* or fails every call, so a handler that can move does.
FairSpec == Spec /\ \A r \in Requests : WF_vars(HandlerStep(r))
-----------------------------------------------------------------------------
(* Correctness.                                                            *)

TypeOK ==
  /\ now \in Nat \ {0}
  /\ disabled \subseteq Users
  /\ sessionOwner \in [SessionIds -> Users \cup {None}]
  /\ sessionExpires \in [SessionIds -> Nat]
  /\ revoked \subseteq SessionIds
  /\ tokenSession \in [TokenIds -> SessionIds \cup {None}]
  /\ tokenParent \in [TokenIds -> TokenIds \cup {None}]
  /\ tokenExpires \in [TokenIds -> Nat]
  /\ used \subseteq TokenIds
  /\ tokenRevoked \subseteq TokenIds
  /\ denyUntil \in [SessionIds -> Nat]
  /\ forgotten \subseteq SessionIds
  /\ heldRefresh \subseteq TokenIds
  /\ heldAccess \subseteq AccessToken
  /\ pc \in [Requests -> Places]
  /\ req \in [Requests -> Request]

\* A sign-out, bulk sign-out, password change or reuse detection that ran to
\* its end; req[r].targets are the sessions it set out to revoke.
Completed(r) == pc[r] \in {"ok", "reused"}

\* a was signed for a session that r set out to revoke, before r arrived.
SignedOutBy(r, a) == a.session \in req[r].targets /\ a.iat <= req[r].began

(* Once a request that revokes sessions has answered, every access token   *)
(* signed up to its arrival is rejected for MarkTtl at least, counted from *)
(* that arrival; when a token lives no longer than MarkTtl, that is for    *)
(* good.  Only a restart that drops a live mark of an in-memory deny-list  *)
(* undoes it.                                                              *)
SignedOutAccessRejected ==
  \A r \in Requests, a \in heldAccess :
    /\ Completed(r) /\ SignedOutBy(r, a)
    /\ a.session \notin forgotten
    /\ now < req[r].began + MarkTtl \/ AccessTtl <= MarkTtl
    => ~Accepted(a)

(* The same without exceptions, as SECURITY.md has it; what a shared       *)
(* deny-list and a plain JWT_EXPIRES_IN give.                              *)
SignedOutForGood ==
  \A r \in Requests, a \in heldAccess :
    Completed(r) /\ SignedOutBy(r, a) => ~Accepted(a)

(* Once such a request has answered, its sessions are revoked and so is    *)
(* each of their refresh tokens that was inserted before it arrived.       *)
SignedOutRowsRevoked ==
  \A r \in Requests : Completed(r) =>
    /\ req[r].targets \subseteq revoked
    /\ \A t \in TokenIds :
         /\ tokenSession[t] \in req[r].targets
         /\ tokenExpires[t] < req[r].began + SessionTtl
         => t \in tokenRevoked

(* Rotation never leaves a refresh token redeemable next to its            *)
(* replacement, wherever the request that rotates it is interrupted, and   *)
(* a replacement stays in its parent's session.                            *)
ReplacedTokensAreUsed ==
  \A t \in TokenIds : tokenParent[t] # None =>
    /\ tokenParent[t] \in used
    /\ tokenSession[tokenParent[t]] = tokenSession[t]

(* Reuse detection accuses a client only when another request has          *)
(* presented the very same token before.                                   *)
NoFalseAlarm ==
  \A r \in Requests : pc[r] \in Reusing \cup {"reused"} =>
    \E q \in Requests \ {r} :
      /\ req[q].token = req[r].token
      /\ req[q].targets = {}

\* A session that is revoked, or whose user is disabled, and no request is
\* left that passed the corresponding check of refreshToken before.
Drained(s) ==
  \/ /\ s \in revoked
     /\ \A r \in Requests :
          pc[r] \in Granted => req[r].session # s
  \/ /\ sessionOwner[s] \in disabled
     /\ \A r \in Requests : pc[r] \in Issuing => req[r].session # s

(* A drained session stays drained and gets no further refresh token,      *)
(* whatever tokens of it are still unrevoked and whoever presents them.    *)
DrainedIsFinal ==
  [][\A s \in SessionIds :
       Drained(s) => Drained(s)' /\ TokensOf(s)' = TokensOf(s)]_vars

(* Every request that starts is answered: the handlers never wait for one  *)
(* another.                                                                *)
RequestsTerminate == \A r \in Requests : InFlight(r) ~> ~InFlight(r)

-----------------------------------------------------------------------------
(* Refinement: a request holds a grant from the moment it has read the     *)
(* session as active (or created it) until it inserts the token or ends.   *)

Status == [s \in SessionIds |-> IF sessionOwner[s] = None THEN "absent"
                               ELSE IF s \in revoked THEN "closed" ELSE "open"]

Grants == [s \in SessionIds |->
             {r \in Requests : pc[r] \in Granted /\ req[r].session = s}]

Minted == [s \in SessionIds |-> TokensOf(s)]

Issuance == INSTANCE SessionIssuance WITH
  Ids <- SessionIds, Grantees <- Requests, Tokens <- TokenIds,
  status <- Status, grants <- Grants, tokens <- Minted

(* The handlers, interleaved, failing and restarted, implement the         *)
(* issuance discipline of SessionIssuance.                                 *)
ImplementsIssuance == Issuance!Spec

=============================================================================
