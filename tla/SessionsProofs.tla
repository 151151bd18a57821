--------------------------- MODULE SessionsProofs ---------------------------
(***************************************************************************)
(* Proofs about Sessions, for any set of users and requests, any times to  *)
(* live, and with every handler, fault, restart and clock tick in play.    *)
(***************************************************************************)
EXTENDS Sessions, TLAPS

(***************************************************************************)
(* The inductive invariant.  TypeOK is not inductive by itself: what a     *)
(* request writes comes from what it holds, which depends on its place.    *)
(***************************************************************************)

\* What a request holds at each place of its handler.
RequestInv(r) ==
  /\ req[r].began <= now
  /\ pc[r] \in {"idle", "create"} => sessionOwner[r] = None
  /\ pc[r] \in {"idle", "create", "readSession"} \cup Granted => tokenSession[r] = None
  /\ pc[r] = "create" =>
       req[r].session = r /\ req[r].user \in Users /\ req[r].token = None
  /\ pc[r] \in {"readSession", "respond"} \cup Granted \cup Sequential \cup Reusing =>
       /\ req[r].session \in SessionIds
       /\ sessionOwner[req[r].session] # None
  /\ pc[r] \in {"readSession", "respond"} \cup Granted /\ req[r].token # None =>
       tokenSession[req[r].token] = req[r].session
  /\ pc[r] \in {"readSession", "readUser", "mark"} => req[r].token \in TokenIds
  /\ pc[r] = "readUser" => req[r].user = sessionOwner[req[r].session]
  /\ pc[r] = "respond" => tokenSession[r] = req[r].session
  /\ pc[r] \in {"idle", "create", "readSession", "respond"} \cup Granted =>
       req[r].targets = {}
  /\ pc[r] \in Sequential \cup Reusing => req[r].targets = {req[r].session}
  /\ pc[r] = "list" =>
       /\ req[r].user \in Users /\ req[r].token = None /\ req[r].targets = {}
  /\ pc[r] = "revokeAll" =>
       /\ req[r].user \in Users
       /\ \A s \in req[r].targets : sessionOwner[s] = req[r].user /\ s # req[r].keep

\* Every reference leads to a row: a token's session, what clients hold, and
\* the sessions that are revoked.
RowInv ==
  /\ \A t \in TokenIds : tokenSession[t] # None => sessionOwner[tokenSession[t]] # None
  /\ \A t \in heldRefresh : tokenSession[t] # None
  /\ \A a \in heldAccess : sessionOwner[a.session] # None
  /\ \A s \in revoked : sessionOwner[s] # None

LocalInv == TypeOK /\ RowInv /\ \A r \in Requests : RequestInv(r)

(* Every mark has a time to live, however JWT_EXPIRES_IN is spelled.       *)
LEMMA MarkTtlType == MarkTtl \in Nat
  BY ConstantsAssumption DEF ConstantsAssumption, MarkTtl

(* The initial state satisfies it.                                         *)
LEMMA LocalInit == Init => LocalInv
  BY ConstantsAssumption
  DEF ConstantsAssumption, Init, LocalInv, TypeOK, RowInv, RequestInv, NoRequest, Request,
      Places, Granted, Issuing, Sequential, Reusing, SessionIds, TokenIds, AllKinds

(* An arriving request leaves req and pc well typed.                       *)
LEMMA ArriveType ==
  ASSUME TypeOK, NEW r \in Requests, NEW fields \in Request, NEW place \in Places,
         Arrive(r, fields, place)
  PROVE  /\ pc' \in [Requests -> Places]
         /\ req' \in [Requests -> Request]
  BY DEF Arrive, Goto, TypeOK

(* Arrivals preserve the invariant.                                        *)
LEMMA ArriveStepLocal ==
  ASSUME LocalInv, NEW r \in Requests, ArriveStep(r)
  PROVE  LocalInv'
<1> USE ConstantsAssumption DEF ConstantsAssumption, SessionIds, TokenIds
<1> TypeOK /\ RowInv /\ \A q \in Requests : RequestInv(q)
  BY DEF LocalInv
<1>p. /\ {"create", "denied", "reuseChain", "readSession", "revokeSession", "list"}
           \subseteq Places
  BY DEF Places, Reusing, Sequential, Bulk, Final
<1>1. ASSUME NEW u \in Users, IssueStart(r, u) PROVE LocalInv'
  <2>1. [NoRequest EXCEPT !.kind = "issue", !.user = u, !.session = r,
                          !.began = now] \in Request
    BY <1>1 DEF IssueStart, NoRequest, Request, AllKinds, TypeOK, RowInv, AccessToken, Refreshing
  <2>2. TypeOK'
    BY <1>1, <1>p, <2>1, ArriveType DEF IssueStart, TypeOK, sessionVars, tokenVars,
       clientVars, denyVars
  <2>3. RowInv'
    BY <1>1 DEF IssueStart, RowInv, sessionVars, tokenVars, clientVars, denyVars
  <2>4. \A q \in Requests : RequestInv(q)'
    BY <1>1 DEF IssueStart, Arrive, Goto, Refreshing, NoRequest, RequestInv, RowInv, TypeOK,
       Granted, Issuing,
       Sequential, Reusing, sessionVars, tokenVars
  <2>5. QED BY <2>2, <2>3, <2>4 DEF LocalInv
<1>2. ASSUME RefreshUnknown(r) PROVE LocalInv'
  <2>1. [NoRequest EXCEPT !.kind = "refresh", !.began = now] \in Request
    BY <1>2 DEF RefreshUnknown, NoRequest, Request, AllKinds, TypeOK, RowInv, AccessToken, Refreshing
  <2>2. TypeOK'
    BY <1>2, <1>p, <2>1, ArriveType DEF RefreshUnknown, TypeOK, sessionVars, tokenVars,
       clientVars, denyVars
  <2>3. RowInv'
    BY <1>2 DEF RefreshUnknown, RowInv, sessionVars, tokenVars, clientVars, denyVars
  <2>4. \A q \in Requests : RequestInv(q)'
    BY <1>2 DEF RefreshUnknown, Arrive, Goto, Refreshing, NoRequest, RequestInv, RowInv,
       TypeOK, Granted, Issuing,
       Sequential, Reusing, sessionVars, tokenVars
  <2>5. QED BY <2>2, <2>3, <2>4 DEF LocalInv
<1>3. ASSUME NEW t \in TokenIds, RefreshRejected(r, t) PROVE LocalInv'
  <2>1. Refreshing(t) \in Request
    BY <1>3 DEF RefreshRejected, NoRequest, Request, AllKinds, TypeOK, RowInv, AccessToken, Refreshing
  <2>2. TypeOK'
    BY <1>3, <1>p, <2>1, ArriveType DEF RefreshRejected, TypeOK, sessionVars, tokenVars,
       clientVars, denyVars
  <2>3. RowInv'
    BY <1>3 DEF RefreshRejected, RowInv, sessionVars, tokenVars, clientVars, denyVars
  <2>4. \A q \in Requests : RequestInv(q)'
    BY <1>3 DEF RefreshRejected, Arrive, Goto, Refreshing, NoRequest, RequestInv, RowInv,
       TypeOK, Granted, Issuing,
       Sequential, Reusing, sessionVars, tokenVars
  <2>5. QED BY <2>2, <2>3, <2>4 DEF LocalInv
<1>4. ASSUME NEW t \in TokenIds, RefreshReused(r, t) PROVE LocalInv'
  <2>1. [Refreshing(t) EXCEPT !.targets = {tokenSession[t]}] \in Request
    <3>1. tokenSession[t] \in SessionIds
      BY <1>4 DEF RefreshReused, TypeOK, RowInv
    <3>2. QED BY <3>1 DEF NoRequest, Request, AllKinds, TypeOK, Refreshing
  <2>2. TypeOK'
    BY <1>4, <1>p, <2>1, ArriveType DEF RefreshReused, TypeOK, sessionVars, tokenVars,
       clientVars, denyVars
  <2>3. RowInv'
    BY <1>4 DEF RefreshReused, RowInv, sessionVars, tokenVars, clientVars, denyVars
  <2>4. \A q \in Requests : RequestInv(q)'
    BY <1>4 DEF RefreshReused, Arrive, Goto, Refreshing, NoRequest, RequestInv, RowInv,
       TypeOK, Granted, Issuing,
       Sequential, Reusing, sessionVars, tokenVars
  <2>5. QED BY <2>2, <2>3, <2>4 DEF LocalInv
<1>5. ASSUME NEW t \in TokenIds, RefreshStart(r, t) PROVE LocalInv'
  <2>1. Refreshing(t) \in Request
    BY <1>5 DEF RefreshStart, NoRequest, Request, AllKinds, TypeOK, RowInv, AccessToken, Refreshing
  <2>2. TypeOK'
    BY <1>5, <1>p, <2>1, ArriveType DEF RefreshStart, TypeOK, sessionVars, tokenVars,
       clientVars, denyVars
  <2>3. RowInv'
    BY <1>5 DEF RefreshStart, RowInv, sessionVars, tokenVars, clientVars, denyVars
  <2>4. \A q \in Requests : RequestInv(q)'
    BY <1>5 DEF RefreshStart, Arrive, Goto, Refreshing, NoRequest, RequestInv, RowInv,
       TypeOK, Granted, Issuing,
       Sequential, Reusing, sessionVars, tokenVars
  <2>5. QED BY <2>2, <2>3, <2>4 DEF LocalInv
<1>6. ASSUME NEW a \in heldAccess, NEW s \in SessionIds, SignOutStart(r, a, s) PROVE LocalInv'
  <2> DEFINE owned  == sessionOwner[s] = sessionOwner[a.session]
             fields == [NoRequest EXCEPT !.kind = "signOut", !.began = now,
                          !.user = sessionOwner[a.session], !.session = s,
                          !.targets = IF owned THEN {s} ELSE {}]
  <2>1. fields \in Request
    BY <1>6 DEF SignOutStart, NoRequest, Request, AllKinds, TypeOK, RowInv, AccessToken
  <2>2. Arrive(r, fields, IF owned THEN "revokeSession" ELSE "denied")
    BY <1>6 DEF SignOutStart
  <2>3. TypeOK'
    BY <1>6, <1>p, <2>1, <2>2, ArriveType DEF SignOutStart, TypeOK, sessionVars, tokenVars,
       clientVars, denyVars
  <2>4. RowInv'
    BY <1>6 DEF SignOutStart, RowInv, sessionVars, tokenVars, clientVars, denyVars
  <2>5. \A q \in Requests : RequestInv(q)'
    <3>1. owned => sessionOwner[s] # None
      BY DEF RowInv
    <3>2. /\ fields.began = now /\ fields.session = s
          /\ owned => fields.targets = {s}
      BY DEF NoRequest
    <3> HIDE DEF fields, owned
    <3>3. QED
      BY <1>6, <2>2, <3>1, <3>2 DEF SignOutStart, Arrive, Goto, RequestInv, TypeOK,
         Granted, Issuing, Sequential, Reusing, sessionVars, tokenVars, denyVars
  <2>6. QED BY <2>3, <2>4, <2>5 DEF LocalInv
<1>7. ASSUME NEW a \in heldAccess, NEW k \in {"signOutAll", "changePassword"},
             RevokeAllStart(r, a, k) PROVE LocalInv'
  <2> DEFINE u      == sessionOwner[a.session]
             keep   == IF k = "changePassword" THEN a.session ELSE None
             fields == [NoRequest EXCEPT !.kind = k, !.user = u, !.keep = keep,
                          !.began = now]
  <2>1. fields \in Request
    BY <1>7 DEF RevokeAllStart, NoRequest, Request, AllKinds, TypeOK, RowInv, AccessToken
  <2>2. Arrive(r, fields, "list")
    BY <1>7 DEF RevokeAllStart
  <2>3. TypeOK'
    BY <1>7, <1>p, <2>1, <2>2, ArriveType DEF RevokeAllStart, TypeOK, sessionVars, tokenVars,
       clientVars, denyVars
  <2>4. RowInv'
    BY <1>7 DEF RevokeAllStart, RowInv, sessionVars, tokenVars, clientVars, denyVars
  <2>5. \A q \in Requests : RequestInv(q)'
    <3>1. u \in Users
      BY DEF TypeOK, RowInv, AccessToken
    <3>2. fields.began = now /\ fields.user = u /\ fields.token = None
          /\ fields.targets = {}
      BY DEF NoRequest
    <3>3. UNCHANGED <<now, sessionOwner, tokenSession>>
      BY <1>7 DEF RevokeAllStart, sessionVars, tokenVars, denyVars
    <3> HIDE DEF fields, u, keep
    <3>4. QED
      BY <2>2, <3>1, <3>2, <3>3 DEF Arrive, Goto, RequestInv, TypeOK, Granted, Issuing,
         Sequential, Reusing
  <2>6. QED BY <2>3, <2>4, <2>5 DEF LocalInv
<1>8. QED
  BY <1>1, <1>2, <1>3, <1>4, <1>5, <1>6, <1>7 DEF ArriveStep

(* The steps of the handlers preserve the invariant.                       *)
LEMMA HandlerStepLocal ==
  ASSUME LocalInv, NEW r \in Requests, HandlerStep(r)
  PROVE  LocalInv'
<1> USE ConstantsAssumption DEF ConstantsAssumption, SessionIds, TokenIds
<1> TypeOK /\ RowInv /\ \A q \in Requests : RequestInv(q)
  BY DEF LocalInv
<1>p. Places = {"idle", "create", "readSession", "readUser", "respond", "mark", "sign",
        "insert", "revokeSession", "revokeChain", "denyMark", "reuseChain", "reuseSession",
        "reuseMark", "list", "revokeAll", "each", "eachFailed", "ok", "denied", "reused", "failed"}
  BY DEF Places, Issuing, Reusing, Sequential, Bulk, Final
<1>r. /\ req[r] \in Request
      /\ req[r].token \in TokenIds \cup {None}
      /\ req[r].iat \in Nat
      /\ req[r].targets \subseteq SessionIds
  BY DEF TypeOK, Request
<1>c. \A s \in SessionIds :
        [req[r] EXCEPT !.chain = @ \ {s}, !.deny = @ \cup {s}] \in Request
  BY <1>r DEF Request
<1> USE DEF Goto, RevokeSessionChain, MarkRevoked, TokensOf, TypeOK, RowInv, RequestInv,
        Granted, Issuing, Sequential, Reusing, sessionVars, tokenVars, clientVars, denyVars
<1>1. ASSUME IssueCreateSession(r) PROVE LocalInv'
  <2>2. TypeOK'
    BY <1>1, <1>p DEF IssueCreateSession
  <2>3. RowInv'
    BY <1>1 DEF IssueCreateSession
  <2>4. (\A q \in Requests : RequestInv(q))'
    BY <1>1 DEF IssueCreateSession
  <2>5. QED BY <2>2, <2>3, <2>4 DEF LocalInv
<1>2. ASSUME SignAccess(r) PROVE LocalInv'
  <2>1. [req[r] EXCEPT !.iat = now] \in Request
    BY <1>r DEF Request, TypeOK
  <2>2. TypeOK'
    BY <1>2, <1>p, <2>1 DEF SignAccess
  <2>3. RowInv'
    BY <1>2 DEF SignAccess
  <2>4. (\A q \in Requests : RequestInv(q))'
    BY <1>2 DEF SignAccess
  <2>5. QED BY <2>2, <2>3, <2>4 DEF LocalInv
<1>3. ASSUME InsertToken(r) PROVE LocalInv'
  <2>2. TypeOK'
    BY <1>3, <1>p, <1>r DEF InsertToken
  <2>3. RowInv'
    BY <1>3 DEF InsertToken
  <2>4. (\A q \in Requests : RequestInv(q))'
    BY <1>3 DEF InsertToken
  <2>5. QED BY <2>2, <2>3, <2>4 DEF LocalInv
<1>4. ASSUME Respond(r) PROVE LocalInv'
  <2>2. TypeOK'
    BY <1>4, <1>p, <1>r DEF AccessToken, Respond
  <2>3. RowInv'
    BY <1>4 DEF Respond
  <2>4. (\A q \in Requests : RequestInv(q))'
    BY <1>4 DEF Respond
  <2>5. QED BY <2>2, <2>3, <2>4 DEF LocalInv
<1>5. ASSUME RefreshReadSession(r) PROVE LocalInv'
  <2>1. [req[r] EXCEPT !.user = sessionOwner[req[r].session]] \in Request
    <3>1. pc[r] = "readSession"
      BY <1>5 DEF RefreshReadSession
    <3>2. sessionOwner[req[r].session] \in Users \cup {None}
      BY <3>1 DEF RequestInv, TypeOK
    <3>3. QED BY <1>r, <3>2 DEF Request
  <2>2. TypeOK'
    <3>1. UNCHANGED <<now, disabled, sessionVars, tokenVars, denyVars, clientVars>>
      BY <1>5 DEF RefreshReadSession
    <3>2. req' \in [Requests -> Request] /\ pc' \in [Requests -> Places]
      <4>1. req' \in [Requests -> Request]
        <5>1. \/ req' = [req EXCEPT ![r].user = sessionOwner[req[r].session]]
              \/ req' = req
          BY <1>5 DEF RefreshReadSession
        <5>2. QED BY <5>1, <2>1
      <4>2. pc' \in [Requests -> Places]
        BY <1>5, <1>p DEF RefreshReadSession
      <4>3. QED BY <4>1, <4>2
    <3>3. QED BY <3>1, <3>2
  <2>3. RowInv'
    BY <1>5 DEF RefreshReadSession
  <2>4. (\A q \in Requests : RequestInv(q))'
    <3>1. CASE SessionActive(req[r].session)
      <4>1. req' = [req EXCEPT ![r].user = sessionOwner[req[r].session]]
            /\ pc' = [pc EXCEPT ![r] = "readUser"] /\ pc[r] = "readSession"
        BY <1>5, <3>1 DEF RefreshReadSession, Goto
      <4>2. QED BY <1>5, <1>r, <4>1 DEF RefreshReadSession, TypeOK, Request, RequestInv, Granted,
               Issuing, Sequential, Reusing, sessionVars, tokenVars
    <3>2. CASE ~SessionActive(req[r].session)
      BY <1>5, <3>2 DEF RefreshReadSession, Goto, TypeOK, RequestInv, Granted, Issuing,
         Sequential, Reusing, sessionVars, tokenVars
    <3>3. QED BY <3>1, <3>2
  <2>5. QED BY <2>2, <2>3, <2>4 DEF LocalInv
<1>6. ASSUME RefreshReadUser(r) PROVE LocalInv'
  <2>2. TypeOK'
    BY <1>6, <1>p DEF RefreshReadUser
  <2>3. RowInv'
    BY <1>6 DEF RefreshReadUser
  <2>4. (\A q \in Requests : RequestInv(q))'
    BY <1>6 DEF RefreshReadUser
  <2>5. QED BY <2>2, <2>3, <2>4 DEF LocalInv
<1>7. ASSUME RefreshMarkUsed(r) PROVE LocalInv'
  <2>2. TypeOK'
    BY <1>7, <1>p DEF RefreshMarkUsed
  <2>3. RowInv'
    BY <1>7 DEF RefreshMarkUsed
  <2>4. (\A q \in Requests : RequestInv(q))'
    BY <1>7 DEF RefreshMarkUsed
  <2>5. QED BY <2>2, <2>3, <2>4 DEF LocalInv
<1>8. ASSUME ReuseRevokeChain(r) PROVE LocalInv'
  <2>2. TypeOK'
    BY <1>8, <1>p DEF ReuseRevokeChain
  <2>3. RowInv'
    BY <1>8 DEF ReuseRevokeChain
  <2>4. (\A q \in Requests : RequestInv(q))'
    BY <1>8 DEF ReuseRevokeChain
  <2>5. QED BY <2>2, <2>3, <2>4 DEF LocalInv
<1>9. ASSUME ReuseRevokeSession(r) PROVE LocalInv'
  <2>2. TypeOK'
    BY <1>9, <1>p DEF ReuseRevokeSession
  <2>3. RowInv'
    BY <1>9 DEF ReuseRevokeSession
  <2>4. (\A q \in Requests : RequestInv(q))'
    BY <1>9 DEF ReuseRevokeSession
  <2>5. QED BY <2>2, <2>3, <2>4 DEF LocalInv
<1>10. ASSUME ReuseMark(r) PROVE LocalInv'
  <2>2. TypeOK'
    BY <1>10, <1>p, MarkTtlType DEF ReuseMark
  <2>3. RowInv'
    BY <1>10 DEF ReuseMark
  <2>4. (\A q \in Requests : RequestInv(q))'
    BY <1>10 DEF ReuseMark
  <2>5. QED BY <2>2, <2>3, <2>4 DEF LocalInv
<1>11. ASSUME SignOutRevokeSession(r) PROVE LocalInv'
  <2>2. TypeOK'
    BY <1>11, <1>p DEF SignOutRevokeSession
  <2>3. RowInv'
    BY <1>11 DEF SignOutRevokeSession
  <2>4. (\A q \in Requests : RequestInv(q))'
    BY <1>11 DEF SignOutRevokeSession
  <2>5. QED BY <2>2, <2>3, <2>4 DEF LocalInv
<1>12. ASSUME SignOutRevokeChain(r) PROVE LocalInv'
  <2>2. TypeOK'
    BY <1>12, <1>p DEF SignOutRevokeChain
  <2>3. RowInv'
    BY <1>12 DEF SignOutRevokeChain
  <2>4. (\A q \in Requests : RequestInv(q))'
    BY <1>12 DEF SignOutRevokeChain
  <2>5. QED BY <2>2, <2>3, <2>4 DEF LocalInv
<1>13. ASSUME SignOutMark(r) PROVE LocalInv'
  <2>2. TypeOK'
    BY <1>13, <1>p, MarkTtlType DEF SignOutMark
  <2>3. RowInv'
    BY <1>13 DEF SignOutMark
  <2>4. (\A q \in Requests : RequestInv(q))'
    BY <1>13 DEF SignOutMark
  <2>5. QED BY <2>2, <2>3, <2>4 DEF LocalInv
<1>14. ASSUME RevokeAllForUser(r) PROVE LocalInv'
  <2>1. [req[r] EXCEPT !.chain = req[r].targets] \in Request
    BY <1>r DEF Request, TypeOK
  <2>2. TypeOK'
    BY <1>14, <1>p, <2>1 DEF RevokeAllForUser
  <2>3. RowInv'
    BY <1>14 DEF RevokeAllForUser
  <2>4. (\A q \in Requests : RequestInv(q))'
    BY <1>14 DEF RevokeAllForUser
  <2>5. QED BY <2>2, <2>3, <2>4 DEF LocalInv
<1>15. ASSUME NEW s \in SessionIds, RevokeEachChain(r, s) PROVE LocalInv'
  <2>1. [req[r] EXCEPT !.chain = @ \ {s}, !.deny = @ \cup {s}] \in Request
    BY <1>c
  <2>2. TypeOK'
    BY <1>15, <1>p, <2>1 DEF RevokeEachChain
  <2>3. RowInv'
    BY <1>15 DEF RevokeEachChain
  <2>4. (\A q \in Requests : RequestInv(q))'
    BY <1>15 DEF RevokeEachChain
  <2>5. QED BY <2>2, <2>3, <2>4 DEF LocalInv
<1>16. ASSUME NEW s \in SessionIds, RevokeEachMark(r, s) PROVE LocalInv'
  <2>1. [req[r] EXCEPT !.deny = @ \ {s}] \in Request
    BY <1>r DEF Request, TypeOK
  <2>2. TypeOK'
    BY <1>16, <1>p, <2>1, MarkTtlType DEF RevokeEachMark
  <2>3. RowInv'
    BY <1>16 DEF RevokeEachMark
  <2>4. (\A q \in Requests : RequestInv(q))'
    BY <1>16 DEF RevokeEachMark
  <2>5. QED BY <2>2, <2>3, <2>4 DEF LocalInv
<1>17. ASSUME RevokeEachDone(r) PROVE LocalInv'
  <2>2. TypeOK'
    BY <1>17, <1>p DEF RevokeEachDone
  <2>3. RowInv'
    BY <1>17 DEF RevokeEachDone
  <2>4. (\A q \in Requests : RequestInv(q))'
    BY <1>17 DEF RevokeEachDone
  <2>5. QED BY <2>2, <2>3, <2>4 DEF LocalInv
<1>18. ASSUME RevokeAllList(r) PROVE LocalInv'
  <2> DEFINE T == {s \in SessionIds : /\ sessionOwner[s] = req[r].user
                                      /\ SessionActive(s)
                                      /\ s # req[r].keep}
  <2>1. [req[r] EXCEPT !.targets = T] \in Request
    BY <1>r DEF Request
  <2>2. /\ pc[r] = "list" /\ pc' = [pc EXCEPT ![r] = "revokeAll"]
        /\ req' = [req EXCEPT ![r].targets = T]
        /\ UNCHANGED <<now, disabled, sessionVars, tokenVars, denyVars, clientVars>>
    BY <1>18 DEF RevokeAllList
  <2>3. \A s \in T : sessionOwner[s] = req[r].user /\ s # req[r].keep
    OBVIOUS
  <2> HIDE DEF T
  <2>4. TypeOK' /\ RowInv'
    BY <1>p, <2>1, <2>2
  <2>5. (\A q \in Requests : RequestInv(q))'
    BY <1>r, <2>2, <2>3 DEF Request
  <2>6. QED BY <2>4, <2>5 DEF LocalInv
<1>20. QED
  BY <1>1, <1>2, <1>3, <1>4, <1>5, <1>6, <1>7, <1>8, <1>9, <1>10, <1>11, <1>12, <1>13, <1>14,
     <1>15, <1>16, <1>17,
     <1>18 DEF HandlerStep

(* Failing calls preserve the invariant.                                   *)
LEMMA FaultStepLocal ==
  ASSUME LocalInv, NEW r \in Requests, FaultStep(r)
  PROVE  LocalInv'
<1> USE ConstantsAssumption DEF ConstantsAssumption, SessionIds, TokenIds
<1> TypeOK /\ RowInv /\ \A q \in Requests : RequestInv(q)
  BY DEF LocalInv
<1>p. {"failed", "eachFailed"} \subseteq Places
  BY DEF Places, Bulk, Final
<1>1. ASSUME CallFails(r) PROVE LocalInv'
  <2>1. TypeOK'
    BY <1>1, <1>p DEF CallFails, Goto, TypeOK, sessionVars, tokenVars, clientVars, denyVars
  <2>2. RowInv'
    BY <1>1 DEF CallFails, RowInv, sessionVars, tokenVars, clientVars, denyVars
  <2>3. (\A q \in Requests : RequestInv(q))'
    BY <1>1 DEF CallFails, Goto, TypeOK, RequestInv, Granted, Issuing, Sequential, Reusing,
       sessionVars, tokenVars
  <2>4. QED BY <2>1, <2>2, <2>3 DEF LocalInv
<1>2. ASSUME NEW s \in SessionIds, EachFails(r, s) PROVE LocalInv'
  <2>1. [req[r] EXCEPT !.chain = @ \ {s}, !.deny = @ \ {s}] \in Request
    <3>1. req[r] \in Request
      BY DEF TypeOK
    <3>2. QED BY <3>1 DEF Request
  <2>2. TypeOK'
    BY <1>2, <1>p, <2>1 DEF EachFails, Goto, TypeOK, sessionVars, tokenVars, clientVars, denyVars
  <2>3. RowInv'
    BY <1>2 DEF EachFails, RowInv, sessionVars, tokenVars, clientVars, denyVars
  <2>4. (\A q \in Requests : RequestInv(q))'
    BY <1>2 DEF EachFails, Goto, TypeOK, RequestInv, Granted, Issuing, Sequential, Reusing,
       sessionVars, tokenVars
  <2>5. QED BY <2>2, <2>3, <2>4 DEF LocalInv
<1>3. QED BY <1>1, <1>2 DEF FaultStep

(* So does every step of the specification.                                *)
LEMMA LocalStep == LocalInv /\ [Next]_vars => LocalInv'
<1> SUFFICES ASSUME LocalInv, [Next]_vars PROVE LocalInv'
  OBVIOUS
<1> USE ConstantsAssumption DEF ConstantsAssumption, SessionIds, TokenIds
<1> TypeOK /\ RowInv /\ \A q \in Requests : RequestInv(q)
  BY DEF LocalInv
<1>1. CASE \E r \in Requests : ArriveStep(r) \/ HandlerStep(r) \/ FaultStep(r)
  BY <1>1, ArriveStepLocal, HandlerStepLocal, FaultStepLocal
<1>2. CASE Restart
  <2>1. "failed" \in Places
    BY DEF Places, Final
  <2>2. TypeOK'
    BY <1>2, <2>1 DEF Restart, TypeOK, sessionVars, tokenVars, clientVars, denyVars
  <2>3. RowInv'
    BY <1>2 DEF Restart, RowInv, sessionVars, tokenVars, clientVars, denyVars
  <2>4. (\A q \in Requests : RequestInv(q))'
    BY <1>2 DEF Restart, InFlight, Final, TypeOK, RequestInv, Granted, Issuing, Sequential,
       Reusing, sessionVars, tokenVars, denyVars
  <2>5. QED BY <2>2, <2>3, <2>4 DEF LocalInv
<1>3. ASSUME NEW u \in Users, DisableUser(u) PROVE LocalInv'
  BY <1>3 DEF DisableUser, LocalInv, TypeOK, RowInv, RequestInv, sessionVars, tokenVars,
     clientVars, denyVars
<1>4. CASE Tick
  <2>1. \A q \in Requests : req[q].began \in Nat
    BY DEF TypeOK, Request
  <2>2. TypeOK' /\ RowInv'
    BY <1>4 DEF Tick, TypeOK, RowInv, sessionVars, tokenVars, clientVars, denyVars
  <2>3. (\A q \in Requests : RequestInv(q))'
    BY <1>4, <2>1 DEF Tick, TypeOK, RequestInv, sessionVars, tokenVars, denyVars
  <2>4. QED BY <2>2, <2>3 DEF LocalInv
<1>5. CASE UNCHANGED vars
  BY <1>5 DEF vars, LocalInv, TypeOK, RowInv, RequestInv, sessionVars, tokenVars, clientVars, denyVars
<1>6. QED
  BY <1>1, <1>2, <1>3, <1>4, <1>5 DEF Next

(* LocalInv holds throughout.                                              *)
LEMMA LocalAlways == Spec => []LocalInv
  BY LocalInit, LocalStep, PTL DEF Spec

(* The state is always well typed.                                         *)
THEOREM TypeCorrect == Spec => []TypeOK
<1>1. LocalInv => TypeOK
  BY DEF LocalInv
<1>2. QED
  BY <1>1, LocalAlways, PTL

-----------------------------------------------------------------------------
(* Safety.  Each property has an invariant of its own that follows the     *)
(* request through the places after the write it speaks of; all of them    *)
(* rest on LocalInv.                                                       *)

(***************************************************************************)
(* The deny-list: a mark lives for MarkTtl at least after the arrival of   *)
(* the request that set it, unless a restart drops it before.              *)
(***************************************************************************)

\* r has set its mark for session s.
Marks(r, s) ==
  \/ pc[r] \in {"ok", "reused"}
  \/ pc[r] = "each" /\ s \notin req[r].chain \cup req[r].deny

MarkInv ==
  /\ \A s \in SessionIds : denyUntil[s] <= now + MarkTtl
  /\ \A r \in Requests : \A s \in req[r].targets :
       Marks(r, s) => \/ denyUntil[s] >= req[r].began + MarkTtl
                      \/ now >= req[r].began + MarkTtl
                      \/ s \in forgotten

(***************************************************************************)
(* The rows: which sessions and tokens a revoking request has reached.     *)
(***************************************************************************)

\* r has revoked the tokens of s that were there when it arrived.
ChainDone(r, s) ==
  \/ pc[r] \in {"denyMark", "reuseSession", "reuseMark", "ok", "reused"}
  \/ pc[r] = "each" /\ s \notin req[r].chain

RequestRevokeInv(r) ==
  /\ pc[r] \in {"revokeChain", "denyMark", "reuseMark", "each", "ok", "reused"} =>
       req[r].targets \subseteq revoked
  /\ \A s \in req[r].targets, t \in TokenIds :
       /\ ChainDone(r, s)
       /\ tokenSession[t] = s
       /\ tokenExpires[t] < req[r].began + SessionTtl
       => t \in tokenRevoked

RevokeInv == \A r \in Requests : RequestRevokeInv(r)

(***************************************************************************)
(* Rotation: who marked a token used, and whose parent it is.              *)
(***************************************************************************)

AlarmInv ==
  /\ \A t \in used : \E q \in Requests :
       pc[q] # "idle" /\ req[q].token = t /\ req[q].targets = {}
  /\ \A r \in Requests : pc[r] \in Reusing \cup {"reused"} =>
       req[r].token \in used /\ req[r].targets # {}

ParentInv ==
  /\ \A t \in TokenIds : tokenParent[t] # None =>
       /\ tokenParent[t] \in used
       /\ tokenSession[t] # None
       /\ tokenSession[tokenParent[t]] = tokenSession[t]
  /\ \A r \in Requests : pc[r] \in {"sign", "insert"} /\ req[r].token # None =>
       req[r].token \in used

(***************************************************************************)
(* Restarts, operators and the clock leave a request's claims standing.    *)
(***************************************************************************)

(* A request's own step keeps every mark long enough.                      *)
LEMMA MarkRequestStep ==
  ASSUME LocalInv, MarkInv, NEW r \in Requests,
         ArriveStep(r) \/ HandlerStep(r) \/ FaultStep(r)
  PROVE  MarkInv'
<1> USE ConstantsAssumption, MarkTtlType DEF ConstantsAssumption, SessionIds, TokenIds
<1> TypeOK /\ RowInv /\ \A q \in Requests : RequestInv(q)
  BY DEF LocalInv
<1>r. \A q \in Requests : req[q] \in Request
  BY DEF TypeOK
<1> USE <1>r DEF Arrive, NoRequest, Refreshing, Goto, MarkRevoked, MarkInv, Marks,
        TypeOK, RowInv, RequestInv, Request, sessionVars, tokenVars, denyVars,
        Granted, Issuing, Sequential, Reusing
<1>1. ASSUME NEW u \in Users, IssueStart(r, u) PROVE MarkInv'
  BY <1>1 DEF IssueStart
<1>2. ASSUME RefreshUnknown(r) PROVE MarkInv'
  BY <1>2 DEF RefreshUnknown
<1>3. ASSUME NEW t \in TokenIds, RefreshRejected(r, t) PROVE MarkInv'
  BY <1>3 DEF RefreshRejected
<1>4. ASSUME NEW t \in TokenIds, RefreshReused(r, t) PROVE MarkInv'
  BY <1>4 DEF RefreshReused
<1>5. ASSUME NEW t \in TokenIds, RefreshStart(r, t) PROVE MarkInv'
  BY <1>5 DEF RefreshStart
<1>6. ASSUME NEW a \in heldAccess, NEW s \in SessionIds, SignOutStart(r, a, s) PROVE MarkInv'
  BY <1>6 DEF SignOutStart
<1>7. ASSUME NEW a \in heldAccess, NEW k \in {"signOutAll", "changePassword"},
             RevokeAllStart(r, a, k) PROVE MarkInv'
  BY <1>7 DEF RevokeAllStart
<1>8. ASSUME IssueCreateSession(r) PROVE MarkInv'
  BY <1>8 DEF IssueCreateSession
<1>9. ASSUME SignAccess(r) PROVE MarkInv'
  BY <1>9 DEF SignAccess
<1>10. ASSUME InsertToken(r) PROVE MarkInv'
  BY <1>10 DEF InsertToken
<1>11. ASSUME Respond(r) PROVE MarkInv'
  BY <1>11 DEF Respond
<1>12. ASSUME RefreshReadSession(r) PROVE MarkInv'
  <2>1. CASE SessionActive(req[r].session)
    <3>1. /\ pc[r] = "readSession" /\ pc' = [pc EXCEPT ![r] = "readUser"]
          /\ req' = [req EXCEPT ![r].user = sessionOwner[req[r].session]]
          /\ UNCHANGED <<now, sessionVars, tokenVars, denyVars>>
      BY <1>12, <2>1 DEF RefreshReadSession, Goto
    <3>2. QED
      BY <3>1
  <2>2. CASE ~SessionActive(req[r].session)
    <3>1. /\ pc[r] = "readSession" /\ pc' = [pc EXCEPT ![r] = "denied"]
          /\ UNCHANGED <<now, sessionVars, tokenVars, denyVars, req>>
      BY <1>12, <2>2 DEF RefreshReadSession, Goto
    <3>2. QED
      BY <3>1
  <2>3. QED BY <2>1, <2>2
<1>13. ASSUME RefreshReadUser(r) PROVE MarkInv'
  BY <1>13 DEF RefreshReadUser
<1>14. ASSUME RefreshMarkUsed(r) PROVE MarkInv'
  BY <1>14 DEF RefreshMarkUsed
<1>15. ASSUME ReuseRevokeChain(r) PROVE MarkInv'
  BY <1>15 DEF ReuseRevokeChain
<1>16. ASSUME ReuseRevokeSession(r) PROVE MarkInv'
  BY <1>16 DEF ReuseRevokeSession
<1>17. ASSUME ReuseMark(r) PROVE MarkInv'
  BY <1>17 DEF ReuseMark
<1>18. ASSUME SignOutRevokeSession(r) PROVE MarkInv'
  BY <1>18 DEF SignOutRevokeSession
<1>19. ASSUME SignOutRevokeChain(r) PROVE MarkInv'
  BY <1>19 DEF SignOutRevokeChain
<1>20. ASSUME SignOutMark(r) PROVE MarkInv'
  BY <1>20 DEF SignOutMark
<1>21. ASSUME RevokeAllForUser(r) PROVE MarkInv'
  BY <1>21 DEF RevokeAllForUser
<1>22. ASSUME NEW s \in SessionIds, RevokeEachChain(r, s) PROVE MarkInv'
  BY <1>22 DEF RevokeEachChain
<1>23. ASSUME NEW s \in SessionIds, RevokeEachMark(r, s) PROVE MarkInv'
  BY <1>23 DEF RevokeEachMark
<1>24. ASSUME RevokeEachDone(r) PROVE MarkInv'
  BY <1>24 DEF RevokeEachDone
<1>25. ASSUME CallFails(r) PROVE MarkInv'
  BY <1>25 DEF CallFails
<1>26. ASSUME NEW s \in SessionIds, EachFails(r, s) PROVE MarkInv'
  BY <1>26 DEF EachFails
<1>31. ASSUME RevokeAllList(r) PROVE MarkInv'
  BY <1>31 DEF RevokeAllList
<1>27. CASE ArriveStep(r)
  BY <1>27, <1>1, <1>2, <1>3, <1>4, <1>5, <1>6, <1>7 DEF ArriveStep
<1>28. CASE HandlerStep(r)
  BY <1>28, <1>8, <1>9, <1>10, <1>11, <1>12, <1>13, <1>14, <1>15,
     <1>16, <1>17, <1>18, <1>19, <1>20, <1>21, <1>22, <1>23, <1>24,
     <1>31 DEF HandlerStep
<1>29. CASE FaultStep(r)
  BY <1>29, <1>25, <1>26 DEF FaultStep
<1>30. QED
  BY <1>27, <1>28, <1>29

(* Every step of the specification preserves MarkInv.                       *)
LEMMA MarkStep ==
  ASSUME LocalInv, MarkInv, [Next]_vars
  PROVE  MarkInv'
<1> USE ConstantsAssumption, MarkTtlType DEF ConstantsAssumption, SessionIds, TokenIds
<1>r. TypeOK /\ \A q \in Requests : req[q] \in Request
  BY DEF LocalInv, TypeOK
<1>1. CASE \E r \in Requests : ArriveStep(r) \/ HandlerStep(r) \/ FaultStep(r)
  BY <1>1, MarkRequestStep
<1>2. CASE Restart
  BY <1>2, <1>r DEF Restart, InFlight, Final, TypeOK, Marked, MarkInv, Marks, Request,
     tokenVars, denyVars, sessionVars
<1>3. ASSUME NEW u \in Users, DisableUser(u) PROVE MarkInv'
  BY <1>3 DEF DisableUser, MarkInv, Marks, tokenVars, denyVars, sessionVars
<1>4. CASE Tick
  BY <1>4, <1>r DEF Tick, TypeOK, Request, MarkInv, Marks, tokenVars, denyVars, sessionVars
<1>5. CASE UNCHANGED vars
  BY <1>5 DEF vars, MarkInv, Marks, tokenVars, denyVars, sessionVars
<1>6. QED
  BY <1>1, <1>2, <1>3, <1>4, <1>5 DEF Next

(* MarkInv holds throughout.                                         *)
LEMMA MarkAlways == Spec => []MarkInv
<1>1. Init => MarkInv
  BY ConstantsAssumption, MarkTtlType DEF Init, MarkInv, Marks, NoRequest, SessionIds, TokenIds,
     ConstantsAssumption, Granted, Issuing, Sequential, Reusing
<1>2. LocalInv /\ MarkInv /\ [Next]_vars => MarkInv'
  BY MarkStep
<1>3. QED
  BY <1>1, <1>2, LocalAlways, PTL DEF Spec

(* A request's own step reaches the rows it claims to have reached.        *)
LEMMA RevokeRequestStep ==
  ASSUME LocalInv, RevokeInv, NEW r \in Requests,
         ArriveStep(r) \/ HandlerStep(r) \/ FaultStep(r)
  PROVE  RevokeInv'
<1> USE ConstantsAssumption DEF ConstantsAssumption, SessionIds, TokenIds
<1> TypeOK /\ RowInv /\ \A q \in Requests : RequestInv(q)
  BY DEF LocalInv
<1>r. \A q \in Requests : req[q] \in Request
  BY DEF TypeOK
<1> USE <1>r DEF Arrive, NoRequest, Refreshing, Goto, RevokeSessionChain, TokensOf,
        RevokeInv, RequestRevokeInv, ChainDone,
        TypeOK, RowInv, RequestInv, Request, sessionVars, tokenVars,
        Granted, Issuing, Sequential, Reusing
<1>1. ASSUME NEW u \in Users, IssueStart(r, u) PROVE RevokeInv'
  BY <1>1 DEF IssueStart
<1>2. ASSUME RefreshUnknown(r) PROVE RevokeInv'
  BY <1>2 DEF RefreshUnknown
<1>3. ASSUME NEW t \in TokenIds, RefreshRejected(r, t) PROVE RevokeInv'
  BY <1>3 DEF RefreshRejected
<1>4. ASSUME NEW t \in TokenIds, RefreshReused(r, t) PROVE RevokeInv'
  BY <1>4 DEF RefreshReused
<1>5. ASSUME NEW t \in TokenIds, RefreshStart(r, t) PROVE RevokeInv'
  BY <1>5 DEF RefreshStart
<1>6. ASSUME NEW a \in heldAccess, NEW s \in SessionIds, SignOutStart(r, a, s) PROVE RevokeInv'
  BY <1>6 DEF SignOutStart
<1>7. ASSUME NEW a \in heldAccess, NEW k \in {"signOutAll", "changePassword"},
             RevokeAllStart(r, a, k) PROVE RevokeInv'
  <2>1. /\ pc[r] = "idle" /\ pc' = [pc EXCEPT ![r] = "list"]
        /\ UNCHANGED <<now, sessionVars, tokenVars>>
        /\ \A p \in Requests \ {r} : req'[p] = req[p]
    BY <1>7 DEF RevokeAllStart, Arrive, Goto, TypeOK
  <2>2. QED
    BY <2>1
<1>8. ASSUME IssueCreateSession(r) PROVE RevokeInv'
  BY <1>8 DEF IssueCreateSession
<1>9. ASSUME SignAccess(r) PROVE RevokeInv'
  BY <1>9 DEF SignAccess
<1>10. ASSUME InsertToken(r) PROVE RevokeInv'
  BY <1>10 DEF InsertToken
<1>11. ASSUME Respond(r) PROVE RevokeInv'
  BY <1>11 DEF Respond
<1>12. ASSUME RefreshReadSession(r) PROVE RevokeInv'
  <2>1. CASE SessionActive(req[r].session)
    <3>1. /\ pc[r] = "readSession" /\ pc' = [pc EXCEPT ![r] = "readUser"]
          /\ req' = [req EXCEPT ![r].user = sessionOwner[req[r].session]]
          /\ UNCHANGED <<now, sessionVars, tokenVars, denyVars>>
      BY <1>12, <2>1 DEF RefreshReadSession, Goto
    <3>2. QED
      BY <3>1
  <2>2. CASE ~SessionActive(req[r].session)
    <3>1. /\ pc[r] = "readSession" /\ pc' = [pc EXCEPT ![r] = "denied"]
          /\ UNCHANGED <<now, sessionVars, tokenVars, denyVars, req>>
      BY <1>12, <2>2 DEF RefreshReadSession, Goto
    <3>2. QED
      BY <3>1
  <2>3. QED BY <2>1, <2>2
<1>13. ASSUME RefreshReadUser(r) PROVE RevokeInv'
  BY <1>13 DEF RefreshReadUser
<1>14. ASSUME RefreshMarkUsed(r) PROVE RevokeInv'
  BY <1>14 DEF RefreshMarkUsed
<1>15. ASSUME ReuseRevokeChain(r) PROVE RevokeInv'
  BY <1>15 DEF ReuseRevokeChain
<1>16. ASSUME ReuseRevokeSession(r) PROVE RevokeInv'
  BY <1>16 DEF ReuseRevokeSession
<1>17. ASSUME ReuseMark(r) PROVE RevokeInv'
  BY <1>17 DEF ReuseMark
<1>18. ASSUME SignOutRevokeSession(r) PROVE RevokeInv'
  BY <1>18 DEF SignOutRevokeSession
<1>19. ASSUME SignOutRevokeChain(r) PROVE RevokeInv'
  BY <1>19 DEF SignOutRevokeChain
<1>20. ASSUME SignOutMark(r) PROVE RevokeInv'
  BY <1>20 DEF SignOutMark
<1>21. ASSUME RevokeAllForUser(r) PROVE RevokeInv'
  BY <1>21 DEF RevokeAllForUser
<1>22. ASSUME NEW s \in SessionIds, RevokeEachChain(r, s) PROVE RevokeInv'
  BY <1>22 DEF RevokeEachChain
<1>23. ASSUME NEW s \in SessionIds, RevokeEachMark(r, s) PROVE RevokeInv'
  BY <1>23 DEF RevokeEachMark
<1>24. ASSUME RevokeEachDone(r) PROVE RevokeInv'
  BY <1>24 DEF RevokeEachDone
<1>25. ASSUME CallFails(r) PROVE RevokeInv'
  BY <1>25 DEF CallFails
<1>26. ASSUME NEW s \in SessionIds, EachFails(r, s) PROVE RevokeInv'
  BY <1>26 DEF EachFails
<1>31. ASSUME RevokeAllList(r) PROVE RevokeInv'
  BY <1>31 DEF RevokeAllList
<1>27. CASE ArriveStep(r)
  BY <1>27, <1>1, <1>2, <1>3, <1>4, <1>5, <1>6, <1>7 DEF ArriveStep
<1>28. CASE HandlerStep(r)
  BY <1>28, <1>8, <1>9, <1>10, <1>11, <1>12, <1>13, <1>14, <1>15,
     <1>16, <1>17, <1>18, <1>19, <1>20, <1>21, <1>22, <1>23, <1>24,
     <1>31 DEF HandlerStep
<1>29. CASE FaultStep(r)
  BY <1>29, <1>25, <1>26 DEF FaultStep
<1>30. QED
  BY <1>27, <1>28, <1>29

(* Every step of the specification preserves RevokeInv.                     *)
LEMMA RevokeStep ==
  ASSUME LocalInv, RevokeInv, [Next]_vars
  PROVE  RevokeInv'
<1> USE ConstantsAssumption DEF ConstantsAssumption, SessionIds, TokenIds
<1>r. TypeOK /\ \A q \in Requests : req[q] \in Request
  BY DEF LocalInv, TypeOK
<1>1. CASE \E r \in Requests : ArriveStep(r) \/ HandlerStep(r) \/ FaultStep(r)
  BY <1>1, RevokeRequestStep
<1>2. CASE Restart
  BY <1>2, <1>r DEF Restart, InFlight, Final, TypeOK, RevokeInv, RequestRevokeInv, ChainDone,
     tokenVars, sessionVars
<1>3. ASSUME NEW u \in Users, DisableUser(u) PROVE RevokeInv'
  BY <1>3 DEF DisableUser, RevokeInv, RequestRevokeInv, ChainDone, tokenVars, sessionVars
<1>4. CASE Tick
  BY <1>4, <1>r DEF Tick, TypeOK, Request, RevokeInv, RequestRevokeInv, ChainDone, tokenVars,
     sessionVars
<1>5. CASE UNCHANGED vars
  BY <1>5 DEF vars, RevokeInv, RequestRevokeInv, ChainDone, tokenVars, sessionVars
<1>6. QED
  BY <1>1, <1>2, <1>3, <1>4, <1>5 DEF Next

(* RevokeInv holds throughout.                                       *)
LEMMA RevokeAlways == Spec => []RevokeInv
<1>1. Init => RevokeInv
  BY ConstantsAssumption DEF Init, RevokeInv, RequestRevokeInv, ChainDone, NoRequest,
     SessionIds, TokenIds, ConstantsAssumption, Granted, Issuing, Sequential, Reusing
<1>2. LocalInv /\ RevokeInv /\ [Next]_vars => RevokeInv'
  BY RevokeStep
<1>3. QED
  BY <1>1, <1>2, LocalAlways, PTL DEF Spec

(* A request's own step marks a token before replacing it.                 *)
LEMMA ParentRequestStep ==
  ASSUME LocalInv, ParentInv, NEW r \in Requests,
         ArriveStep(r) \/ HandlerStep(r) \/ FaultStep(r)
  PROVE  ParentInv'
<1> USE ConstantsAssumption DEF ConstantsAssumption, SessionIds, TokenIds
<1> TypeOK /\ RowInv /\ \A q \in Requests : RequestInv(q)
  BY DEF LocalInv
<1>r. \A q \in Requests : req[q] \in Request
  BY DEF TypeOK
<1> USE <1>r DEF Arrive, NoRequest, Refreshing, Goto, ParentInv,
        TypeOK, RowInv, RequestInv, Request, sessionVars, tokenVars,
        Granted, Issuing, Sequential, Reusing
<1>1. ASSUME NEW u \in Users, IssueStart(r, u) PROVE ParentInv'
  BY <1>1 DEF IssueStart
<1>2. ASSUME RefreshUnknown(r) PROVE ParentInv'
  BY <1>2 DEF RefreshUnknown
<1>3. ASSUME NEW t \in TokenIds, RefreshRejected(r, t) PROVE ParentInv'
  BY <1>3 DEF RefreshRejected
<1>4. ASSUME NEW t \in TokenIds, RefreshReused(r, t) PROVE ParentInv'
  BY <1>4 DEF RefreshReused
<1>5. ASSUME NEW t \in TokenIds, RefreshStart(r, t) PROVE ParentInv'
  BY <1>5 DEF RefreshStart
<1>6. ASSUME NEW a \in heldAccess, NEW s \in SessionIds, SignOutStart(r, a, s) PROVE ParentInv'
  BY <1>6 DEF SignOutStart
<1>7. ASSUME NEW a \in heldAccess, NEW k \in {"signOutAll", "changePassword"},
             RevokeAllStart(r, a, k) PROVE ParentInv'
  BY <1>7 DEF RevokeAllStart
<1>8. ASSUME IssueCreateSession(r) PROVE ParentInv'
  BY <1>8 DEF IssueCreateSession
<1>9. ASSUME SignAccess(r) PROVE ParentInv'
  BY <1>9 DEF SignAccess
<1>10. ASSUME InsertToken(r) PROVE ParentInv'
  BY <1>10 DEF InsertToken
<1>11. ASSUME Respond(r) PROVE ParentInv'
  BY <1>11 DEF Respond
<1>12. ASSUME RefreshReadSession(r) PROVE ParentInv'
  <2>1. CASE SessionActive(req[r].session)
    <3>1. /\ pc[r] = "readSession" /\ pc' = [pc EXCEPT ![r] = "readUser"]
          /\ req' = [req EXCEPT ![r].user = sessionOwner[req[r].session]]
          /\ UNCHANGED <<now, sessionVars, tokenVars, denyVars>>
      BY <1>12, <2>1 DEF RefreshReadSession, Goto
    <3>2. QED
      BY <3>1
  <2>2. CASE ~SessionActive(req[r].session)
    <3>1. /\ pc[r] = "readSession" /\ pc' = [pc EXCEPT ![r] = "denied"]
          /\ UNCHANGED <<now, sessionVars, tokenVars, denyVars, req>>
      BY <1>12, <2>2 DEF RefreshReadSession, Goto
    <3>2. QED
      BY <3>1
  <2>3. QED BY <2>1, <2>2
<1>13. ASSUME RefreshReadUser(r) PROVE ParentInv'
  BY <1>13 DEF RefreshReadUser
<1>14. ASSUME RefreshMarkUsed(r) PROVE ParentInv'
  BY <1>14 DEF RefreshMarkUsed
<1>15. ASSUME ReuseRevokeChain(r) PROVE ParentInv'
  BY <1>15 DEF ReuseRevokeChain
<1>16. ASSUME ReuseRevokeSession(r) PROVE ParentInv'
  BY <1>16 DEF ReuseRevokeSession
<1>17. ASSUME ReuseMark(r) PROVE ParentInv'
  BY <1>17 DEF ReuseMark
<1>18. ASSUME SignOutRevokeSession(r) PROVE ParentInv'
  BY <1>18 DEF SignOutRevokeSession
<1>19. ASSUME SignOutRevokeChain(r) PROVE ParentInv'
  BY <1>19 DEF SignOutRevokeChain
<1>20. ASSUME SignOutMark(r) PROVE ParentInv'
  BY <1>20 DEF SignOutMark
<1>21. ASSUME RevokeAllForUser(r) PROVE ParentInv'
  BY <1>21 DEF RevokeAllForUser
<1>22. ASSUME NEW s \in SessionIds, RevokeEachChain(r, s) PROVE ParentInv'
  BY <1>22 DEF RevokeEachChain
<1>23. ASSUME NEW s \in SessionIds, RevokeEachMark(r, s) PROVE ParentInv'
  BY <1>23 DEF RevokeEachMark
<1>24. ASSUME RevokeEachDone(r) PROVE ParentInv'
  BY <1>24 DEF RevokeEachDone
<1>25. ASSUME CallFails(r) PROVE ParentInv'
  BY <1>25 DEF CallFails
<1>26. ASSUME NEW s \in SessionIds, EachFails(r, s) PROVE ParentInv'
  BY <1>26 DEF EachFails
<1>31. ASSUME RevokeAllList(r) PROVE ParentInv'
  BY <1>31 DEF RevokeAllList
<1>27. CASE ArriveStep(r)
  BY <1>27, <1>1, <1>2, <1>3, <1>4, <1>5, <1>6, <1>7 DEF ArriveStep
<1>28. CASE HandlerStep(r)
  BY <1>28, <1>8, <1>9, <1>10, <1>11, <1>12, <1>13, <1>14, <1>15,
     <1>16, <1>17, <1>18, <1>19, <1>20, <1>21, <1>22, <1>23, <1>24,
     <1>31 DEF HandlerStep
<1>29. CASE FaultStep(r)
  BY <1>29, <1>25, <1>26 DEF FaultStep
<1>30. QED
  BY <1>27, <1>28, <1>29

(* Every step of the specification preserves ParentInv.                     *)
LEMMA ParentStep ==
  ASSUME LocalInv, ParentInv, [Next]_vars
  PROVE  ParentInv'
<1> USE ConstantsAssumption DEF ConstantsAssumption, SessionIds, TokenIds
<1>r. TypeOK /\ \A q \in Requests : req[q] \in Request
  BY DEF LocalInv, TypeOK
<1>1. CASE \E r \in Requests : ArriveStep(r) \/ HandlerStep(r) \/ FaultStep(r)
  BY <1>1, ParentRequestStep
<1>2. CASE Restart
  BY <1>2, <1>r DEF Restart, InFlight, Final, TypeOK, ParentInv, tokenVars, sessionVars
<1>3. ASSUME NEW u \in Users, DisableUser(u) PROVE ParentInv'
  BY <1>3 DEF DisableUser, ParentInv, tokenVars, sessionVars
<1>4. CASE Tick
  BY <1>4, <1>r DEF Tick, TypeOK, Request, ParentInv, tokenVars, sessionVars
<1>5. CASE UNCHANGED vars
  BY <1>5 DEF vars, ParentInv, tokenVars, sessionVars
<1>6. QED
  BY <1>1, <1>2, <1>3, <1>4, <1>5 DEF Next

(* ParentInv holds throughout.                                       *)
LEMMA ParentAlways == Spec => []ParentInv
<1>1. Init => ParentInv
  BY ConstantsAssumption DEF Init, ParentInv, NoRequest, SessionIds, TokenIds,
     ConstantsAssumption, Granted, Issuing, Sequential, Reusing
<1>2. LocalInv /\ ParentInv /\ [Next]_vars => ParentInv'
  BY ParentStep
<1>3. QED
  BY <1>1, <1>2, LocalAlways, PTL DEF Spec

(***************************************************************************)
(* Reuse detection: what a request was asked never changes, tokens are     *)
(* marked used by RefreshMarkUsed alone, and RefreshReused alone leads to  *)
(* the places of reuse detection.                                          *)
(***************************************************************************)
Accusing == Reusing \cup {"reused"}

ArgumentsKept(r) ==
  /\ \A q \in Requests : pc[q] # "idle" =>
       /\ pc'[q] # "idle"
       /\ req'[q].token = req[q].token
       /\ req[q].token # None => req'[q].targets = req[q].targets
  /\ used' = used \/ RefreshMarkUsed(r)
  /\ \A q \in Requests : pc'[q] \in Accusing =>
       pc[q] \in Accusing \/ (q = r /\ \E t \in TokenIds : RefreshReused(r, t))

(* A request's own step keeps the arguments of all requests.               *)
LEMMA ArgumentsKeptStep ==
  ASSUME LocalInv, NEW r \in Requests,
         ArriveStep(r) \/ HandlerStep(r) \/ FaultStep(r)
  PROVE  ArgumentsKept(r)
<1> USE ConstantsAssumption DEF ConstantsAssumption, SessionIds, TokenIds
<1> TypeOK /\ RowInv /\ \A q \in Requests : RequestInv(q)
  BY DEF LocalInv
<1>r. \A q \in Requests : req[q] \in Request
  BY DEF TypeOK
<1> USE <1>r DEF Arrive, NoRequest, Refreshing, Goto, ArgumentsKept, Accusing,
        TypeOK, RowInv, RequestInv, Request, sessionVars, tokenVars,
        Granted, Issuing, Sequential, Reusing
<1>1. ASSUME NEW u \in Users, IssueStart(r, u) PROVE ArgumentsKept(r)
  BY <1>1 DEF IssueStart
<1>2. ASSUME RefreshUnknown(r) PROVE ArgumentsKept(r)
  BY <1>2 DEF RefreshUnknown
<1>3. ASSUME NEW t \in TokenIds, RefreshRejected(r, t) PROVE ArgumentsKept(r)
  BY <1>3 DEF RefreshRejected
<1>4. ASSUME NEW t \in TokenIds, RefreshReused(r, t) PROVE ArgumentsKept(r)
  <2>1. /\ pc[r] = "idle" /\ pc' = [pc EXCEPT ![r] = "reuseChain"]
        /\ \A q \in Requests \ {r} : req'[q] = req[q]
        /\ used' = used
    BY <1>4 DEF RefreshReused
  <2>2. \E x \in TokenIds : RefreshReused(r, x)
    BY <1>4
  <2>3. QED
    BY <2>1, <2>2
<1>5. ASSUME NEW t \in TokenIds, RefreshStart(r, t) PROVE ArgumentsKept(r)
  BY <1>5 DEF RefreshStart
<1>6. ASSUME NEW a \in heldAccess, NEW s \in SessionIds, SignOutStart(r, a, s) PROVE ArgumentsKept(r)
  BY <1>6 DEF SignOutStart
<1>7. ASSUME NEW a \in heldAccess, NEW k \in {"signOutAll", "changePassword"},
             RevokeAllStart(r, a, k) PROVE ArgumentsKept(r)
  BY <1>7 DEF RevokeAllStart
<1>8. ASSUME IssueCreateSession(r) PROVE ArgumentsKept(r)
  BY <1>8 DEF IssueCreateSession
<1>9. ASSUME SignAccess(r) PROVE ArgumentsKept(r)
  BY <1>9 DEF SignAccess
<1>10. ASSUME InsertToken(r) PROVE ArgumentsKept(r)
  BY <1>10 DEF InsertToken
<1>11. ASSUME Respond(r) PROVE ArgumentsKept(r)
  BY <1>11 DEF Respond
<1>12. ASSUME RefreshReadSession(r) PROVE ArgumentsKept(r)
  <2>1. CASE SessionActive(req[r].session)
    <3>1. /\ pc[r] = "readSession" /\ pc' = [pc EXCEPT ![r] = "readUser"]
          /\ req' = [req EXCEPT ![r].user = sessionOwner[req[r].session]]
          /\ UNCHANGED <<now, sessionVars, tokenVars, denyVars>>
      BY <1>12, <2>1 DEF RefreshReadSession, Goto
    <3>2. QED
      BY <3>1
  <2>2. CASE ~SessionActive(req[r].session)
    <3>1. /\ pc[r] = "readSession" /\ pc' = [pc EXCEPT ![r] = "denied"]
          /\ UNCHANGED <<now, sessionVars, tokenVars, denyVars, req>>
      BY <1>12, <2>2 DEF RefreshReadSession, Goto
    <3>2. QED
      BY <3>1
  <2>3. QED BY <2>1, <2>2
<1>13. ASSUME RefreshReadUser(r) PROVE ArgumentsKept(r)
  BY <1>13 DEF RefreshReadUser
<1>14. ASSUME RefreshMarkUsed(r) PROVE ArgumentsKept(r)
  BY <1>14 DEF RefreshMarkUsed
<1>15. ASSUME ReuseRevokeChain(r) PROVE ArgumentsKept(r)
  BY <1>15 DEF ReuseRevokeChain
<1>16. ASSUME ReuseRevokeSession(r) PROVE ArgumentsKept(r)
  BY <1>16 DEF ReuseRevokeSession
<1>17. ASSUME ReuseMark(r) PROVE ArgumentsKept(r)
  BY <1>17 DEF ReuseMark
<1>18. ASSUME SignOutRevokeSession(r) PROVE ArgumentsKept(r)
  BY <1>18 DEF SignOutRevokeSession
<1>19. ASSUME SignOutRevokeChain(r) PROVE ArgumentsKept(r)
  BY <1>19 DEF SignOutRevokeChain
<1>20. ASSUME SignOutMark(r) PROVE ArgumentsKept(r)
  BY <1>20 DEF SignOutMark
<1>21. ASSUME RevokeAllForUser(r) PROVE ArgumentsKept(r)
  BY <1>21 DEF RevokeAllForUser
<1>22. ASSUME NEW s \in SessionIds, RevokeEachChain(r, s) PROVE ArgumentsKept(r)
  BY <1>22 DEF RevokeEachChain
<1>23. ASSUME NEW s \in SessionIds, RevokeEachMark(r, s) PROVE ArgumentsKept(r)
  BY <1>23 DEF RevokeEachMark
<1>24. ASSUME RevokeEachDone(r) PROVE ArgumentsKept(r)
  BY <1>24 DEF RevokeEachDone
<1>25. ASSUME CallFails(r) PROVE ArgumentsKept(r)
  BY <1>25 DEF CallFails
<1>26. ASSUME NEW s \in SessionIds, EachFails(r, s) PROVE ArgumentsKept(r)
  BY <1>26 DEF EachFails
<1>31. ASSUME RevokeAllList(r) PROVE ArgumentsKept(r)
  BY <1>31 DEF RevokeAllList
<1>27. CASE ArriveStep(r)
  BY <1>27, <1>1, <1>2, <1>3, <1>4, <1>5, <1>6, <1>7 DEF ArriveStep
<1>28. CASE HandlerStep(r)
  BY <1>28, <1>8, <1>9, <1>10, <1>11, <1>12, <1>13, <1>14, <1>15,
     <1>16, <1>17, <1>18, <1>19, <1>20, <1>21, <1>22, <1>23, <1>24,
     <1>31 DEF HandlerStep
<1>29. CASE FaultStep(r)
  BY <1>29, <1>25, <1>26 DEF FaultStep
<1>30. QED
  BY <1>27, <1>28, <1>29

(* A request's own step preserves AlarmInv.                                *)
LEMMA AlarmRequestStep ==
  ASSUME LocalInv, AlarmInv, NEW r \in Requests,
         ArriveStep(r) \/ HandlerStep(r) \/ FaultStep(r)
  PROVE  AlarmInv'
<1> USE DEF TokenIds
<1>1. ArgumentsKept(r)
  BY ArgumentsKeptStep
<1>2. RequestInv(r) /\ used \subseteq Requests /\ pc \in [Requests -> Places]
        /\ req \in [Requests -> Request]
  BY DEF LocalInv, TypeOK
<1>n. None \notin Requests /\ \A q \in Requests : req[q].token \in Requests \cup {None}
  BY <1>2, ConstantsAssumption DEF ConstantsAssumption, Request
<1>3. ASSUME NEW t \in used'
      PROVE  \E q \in Requests :
               pc'[q] # "idle" /\ req'[q].token = t /\ req'[q].targets = {}
  <2>1. CASE t \in used
    <3>1. PICK q \in Requests : pc[q] # "idle" /\ req[q].token = t /\ req[q].targets = {}
      BY <2>1 DEF AlarmInv
    <3>2. t # None
      BY <2>1, <1>2, <1>n
    <3>3. QED
      BY <3>1, <3>2, <1>1 DEF ArgumentsKept
  <2>2. CASE t \notin used
    <3>1. RefreshMarkUsed(r)
      BY <2>2, <1>1, <1>3 DEF ArgumentsKept
    <3>2. pc[r] = "mark" /\ t = req[r].token
      BY <3>1, <2>2, <1>3 DEF RefreshMarkUsed
    <3>3. req[r].targets = {}
      BY <3>2, <1>2 DEF RequestInv, Granted, Issuing, Sequential, Reusing
    <3>4. req[r].token # None
      BY <3>2, <1>2, <1>n DEF RequestInv
    <3>5. QED
      BY <3>2, <3>3, <3>4, <1>1 DEF ArgumentsKept
  <2>3. QED BY <2>1, <2>2
<1>4. ASSUME NEW p \in Requests, pc'[p] \in Accusing
      PROVE  req'[p].token \in used' /\ req'[p].targets # {}
  <2>1. CASE pc[p] \in Accusing
    <3>1. req[p].token \in used /\ req[p].targets # {}
      BY <2>1 DEF AlarmInv, Accusing
    <3>2. pc[p] # "idle"
      BY <2>1 DEF Accusing, Reusing
    <3>3. used \subseteq used'
      BY <1>1 DEF ArgumentsKept, RefreshMarkUsed
    <3>4. req[p].token # None
      BY <3>1, <1>2, <1>n
    <3>5. QED
      BY <3>1, <3>2, <3>3, <3>4, <1>1 DEF ArgumentsKept
  <2>2. ASSUME NEW t \in TokenIds, RefreshReused(r, t), p = r
        PROVE  req'[p].token \in used' /\ req'[p].targets # {}
    BY <2>2, <1>2 DEF RefreshReused, Arrive, Refreshing, NoRequest, tokenVars
  <2>3. QED
    BY <2>1, <2>2, <1>1, <1>4 DEF ArgumentsKept
<1>5. QED
  BY <1>3, <1>4 DEF AlarmInv, Accusing

(* Every step of the specification preserves AlarmInv.                     *)
LEMMA AlarmStep ==
  ASSUME LocalInv, AlarmInv, [Next]_vars
  PROVE  AlarmInv'
<1>1. CASE \E r \in Requests : ArriveStep(r) \/ HandlerStep(r) \/ FaultStep(r)
  BY <1>1, AlarmRequestStep
<1>2. CASE Restart
  <2>1. pc \in [Requests -> Places] /\ UNCHANGED <<used, req>>
    BY <1>2 DEF Restart, LocalInv, TypeOK, tokenVars
  <2>2. \A q \in Requests :
          /\ pc[q] # "idle" => pc'[q] # "idle"
          /\ pc'[q] \in Accusing => pc[q] \in Accusing
    BY <1>2 DEF Restart, InFlight, Final, Accusing, Reusing
  <2>3. QED
    BY <2>1, <2>2 DEF AlarmInv, Accusing
<1>3. ASSUME NEW u \in Users, DisableUser(u) PROVE AlarmInv'
  BY <1>3 DEF DisableUser, AlarmInv, tokenVars
<1>4. CASE Tick
  BY <1>4 DEF Tick, AlarmInv, tokenVars
<1>5. CASE UNCHANGED vars
  BY <1>5 DEF vars, AlarmInv, tokenVars
<1>6. QED
  BY <1>1, <1>2, <1>3, <1>4, <1>5 DEF Next

(* AlarmInv holds throughout.                                              *)
LEMMA AlarmAlways == Spec => []AlarmInv
<1>1. Init => AlarmInv
  BY DEF Init, AlarmInv, Reusing
<1>2. LocalInv /\ AlarmInv /\ [Next]_vars => AlarmInv'
  BY AlarmStep
<1>3. QED
  BY <1>1, <1>2, LocalAlways, PTL DEF Spec

(***************************************************************************)
(* The properties.                                                         *)
(***************************************************************************)

(* No access token signed up to the arrival of a request that revokes its  *)
(* session is accepted once that request has answered: within MarkTtl of   *)
(* that arrival, and ever after if no token lives longer than that; unless *)
(* a restart dropped a live mark of the session.                           *)
THEOREM SignedOutAccess == Spec => []SignedOutAccessRejected
<1>1. LocalInv /\ MarkInv => SignedOutAccessRejected
  <2> SUFFICES ASSUME LocalInv, MarkInv, NEW r \in Requests, NEW a \in heldAccess,
                      Completed(r), SignedOutBy(r, a), a.session \notin forgotten,
                      now < req[r].began + MarkTtl \/ AccessTtl <= MarkTtl
               PROVE  ~Accepted(a)
    BY DEF SignedOutAccessRejected
  <2>1. \/ denyUntil[a.session] >= req[r].began + MarkTtl
        \/ now >= req[r].began + MarkTtl
    BY DEF MarkInv, Marks, Completed, SignedOutBy
  <2>2. /\ now \in Nat /\ AccessTtl \in Nat /\ a.session \in SessionIds
        /\ a.iat \in Nat /\ req[r].began \in Nat /\ denyUntil[a.session] \in Nat
    <3>1. a \in AccessToken /\ req[r] \in Request /\ denyUntil \in [SessionIds -> Nat]
            /\ now \in Nat
      BY DEF LocalInv, TypeOK
    <3>2. QED
      BY <3>1, ConstantsAssumption DEF ConstantsAssumption, AccessToken, Request
  <2>3. a.iat <= req[r].began
    BY DEF SignedOutBy
  <2>4. CASE now < req[r].began + MarkTtl
    BY <2>1, <2>2, <2>4, MarkTtlType DEF Accepted, Marked
  <2>5. CASE now >= req[r].began + MarkTtl /\ AccessTtl <= MarkTtl
    BY <2>2, <2>3, <2>5, MarkTtlType DEF Accepted
  <2>6. QED
    BY <2>2, <2>4, <2>5, MarkTtlType
<1>2. QED
  BY <1>1, LocalAlways, MarkAlways, PTL

(* Only a restart that empties an in-memory deny-list drops a mark.        *)
LEMMA SharedMarksKept ==
  ASSUME SharedStore, forgotten = {}, [Next]_vars PROVE forgotten' = {}
<1> USE DEF denyVars
<1>1. ASSUME NEW r \in Requests, ArriveStep(r) PROVE forgotten' = {}
  BY <1>1 DEF ArriveStep, IssueStart, RefreshUnknown, RefreshRejected, RefreshReused,
     RefreshStart, SignOutStart, RevokeAllStart
<1>2. ASSUME NEW r \in Requests, HandlerStep(r) PROVE forgotten' = {}
  BY <1>2 DEF HandlerStep, MarkRevoked, IssueCreateSession, SignAccess, InsertToken, Respond,
     RefreshReadSession, RefreshReadUser, RefreshMarkUsed, ReuseRevokeChain,
     ReuseRevokeSession, ReuseMark, SignOutRevokeSession, SignOutRevokeChain, SignOutMark,
     RevokeAllList, RevokeAllForUser, RevokeEachChain, RevokeEachMark, RevokeEachDone
<1>3. ASSUME NEW r \in Requests, FaultStep(r) PROVE forgotten' = {}
  BY <1>3 DEF FaultStep, CallFails, EachFails
<1>4. CASE Restart
  BY <1>4 DEF Restart
<1>5. QED
  BY <1>1, <1>2, <1>3, <1>4 DEF Next, vars, DisableUser, Tick

(* What SECURITY.md says of the deny-list, and under which configuration   *)
(* it is so: the store is shared, and JWT_EXPIRES_IN is spelled the way    *)
(* parseDurationToSeconds reads it, or its tokens live no longer than the  *)
(* fallback.                                                               *)
THEOREM SignedOutIsForGood ==
  ASSUME SharedStore, PlainTtl \/ AccessTtl <= FallbackTtl
  PROVE  Spec => []SignedOutForGood
<1>1. AccessTtl <= MarkTtl
  BY ConstantsAssumption DEF ConstantsAssumption, MarkTtl
<1>2. Init => forgotten = {}
  BY DEF Init
<1>3. forgotten = {} /\ [Next]_vars => (forgotten = {})'
  BY SharedMarksKept
<1>4. SignedOutAccessRejected /\ forgotten = {} => SignedOutForGood
  BY <1>1 DEF SignedOutAccessRejected, SignedOutForGood
<1>5. QED
  BY <1>2, <1>3, <1>4, SignedOutAccess, PTL DEF Spec

(* A request that revokes sessions has, once it has answered, revoked them *)
(* and every token of theirs inserted before it arrived.                   *)
THEOREM SignedOutRows == Spec => []SignedOutRowsRevoked
<1>1. RevokeInv => SignedOutRowsRevoked
  <2> SUFFICES ASSUME RevokeInv, NEW r \in Requests, Completed(r)
               PROVE  /\ req[r].targets \subseteq revoked
                      /\ \A t \in TokenIds :
                           /\ tokenSession[t] \in req[r].targets
                           /\ tokenExpires[t] < req[r].began + SessionTtl
                           => t \in tokenRevoked
    BY DEF SignedOutRowsRevoked
  <2>1. RequestRevokeInv(r) /\ pc[r] \in {"ok", "reused"}
    BY DEF RevokeInv, Completed
  <2>2. QED
    BY <2>1 DEF RequestRevokeInv, ChainDone
<1>2. QED
  BY <1>1, RevokeAlways, PTL

(* A refresh token that has a replacement is used, and the replacement is  *)
(* in the same session.                                                    *)
THEOREM ReplacedTokens == Spec => []ReplacedTokensAreUsed
<1>1. ParentInv => ReplacedTokensAreUsed
  BY DEF ParentInv, ReplacedTokensAreUsed
<1>2. QED
  BY <1>1, ParentAlways, PTL

(* Reuse detection is only ever started for a token that another request   *)
(* presented before.                                                       *)
THEOREM AlarmsAreTrue == Spec => []NoFalseAlarm
<1>1. AlarmInv => NoFalseAlarm
  <2> SUFFICES ASSUME AlarmInv, NEW r \in Requests, pc[r] \in Accusing
               PROVE  \E q \in Requests \ {r} :
                        /\ req[q].token = req[r].token
                        /\ req[q].targets = {}
    BY DEF NoFalseAlarm, Accusing
  <2>1. req[r].token \in used /\ req[r].targets # {}
    BY DEF AlarmInv, Accusing
  <2>2. PICK q \in Requests : req[q].token = req[r].token /\ req[q].targets = {}
    BY <2>1 DEF AlarmInv
  <2>3. QED
    BY <2>1, <2>2
<1>2. QED
  BY <1>1, AlarmAlways, PTL

-----------------------------------------------------------------------------
(* Sessions implements SessionIssuance, and a drained session stays so.    *)
(* Both follow from what one step of a request does to the rows and to the *)
(* set of requests that have passed the checks of refreshToken.            *)

\* r's step leaves the other requests alone, and rows only grow.
Frame(r) ==
  /\ \A q \in Requests \ {r} : pc'[q] = pc[q] /\ req'[q] = req[q]
  /\ disabled' = disabled
  /\ revoked \subseteq revoked'
  /\ \A s \in SessionIds : sessionOwner[s] # None => sessionOwner'[s] = sessionOwner[s]

\* r holds no grant after its step that it did not hold before.
NoGain(r) ==
  pc'[r] \in Granted =>
    /\ pc[r] \in Granted
    /\ req'[r].session = req[r].session
    /\ pc'[r] \in Issuing => pc[r] \in Issuing \/ req[r].user \notin disabled

\* r closes the sessions S and ends up without a grant.
Closing(r, S) ==
  /\ S \subseteq SessionIds
  /\ \A s \in S : sessionOwner[s] # None
  /\ revoked' = revoked \cup S
  /\ pc[r] \notin Granted /\ pc'[r] \notin Granted
  /\ UNCHANGED <<sessionOwner, tokenSession>>

\* r neither opens nor closes a session nor inserts a token.
Quiet(r) ==
  /\ UNCHANGED <<sessionOwner, revoked, tokenSession>>
  /\ NoGain(r)

\* A refresh finds its session active.
Granting(r) ==
  /\ pc[r] = "readSession" /\ pc'[r] = "readUser"
  /\ req[r].session \in SessionIds /\ SessionActive(req[r].session)
  /\ req'[r].session = req[r].session
  /\ UNCHANGED <<sessionOwner, revoked, tokenSession>>

\* A sign-in inserts its session row.
Opening(r) ==
  /\ pc[r] = "create" /\ pc'[r] = "sign"
  /\ req[r].session = r /\ req'[r].session = r
  /\ sessionOwner[r] = None
  /\ \E u \in Users : sessionOwner' = [sessionOwner EXCEPT ![r] = u]
  /\ UNCHANGED <<revoked, tokenSession>>

\* A token row is inserted.
Minting(r) ==
  /\ pc[r] = "insert" /\ pc'[r] = "respond"
  /\ tokenSession[r] = None
  /\ req[r].session \in SessionIds
  /\ tokenSession' = [tokenSession EXCEPT ![r] = req[r].session]
  /\ UNCHANGED <<sessionOwner, revoked>>

StepKinds(r) ==
  \/ Quiet(r)
  \/ Granting(r)
  \/ Opening(r)
  \/ Minting(r)
  \/ \E S \in SUBSET SessionIds : Closing(r, S)

(* A request's step is of one of these kinds.                              *)
LEMMA StepKind ==
  ASSUME LocalInv, NEW r \in Requests,
         ArriveStep(r) \/ HandlerStep(r) \/ FaultStep(r)
  PROVE  Frame(r) /\ StepKinds(r)
<1> USE ConstantsAssumption DEF ConstantsAssumption, SessionIds, TokenIds
<1> TypeOK /\ RowInv /\ \A q \in Requests : RequestInv(q)
  BY DEF LocalInv
<1>r. \A q \in Requests : req[q] \in Request
  BY DEF TypeOK
<1> USE <1>r DEF Arrive, Goto, TypeOK, RowInv, RequestInv, Request, sessionVars, tokenVars,
        Granted, Issuing, Sequential, Reusing, Bulk, Final, InFlight
<1>1. ASSUME NEW u \in Users, IssueStart(r, u) PROVE Frame(r) /\ StepKinds(r)
  <2>1. Frame(r)
    BY <1>1 DEF Frame, IssueStart
  <2>2. Quiet(r)
    BY <1>1 DEF Quiet, NoGain, IssueStart
  <2>3. QED BY <2>1, <2>2 DEF StepKinds
<1>2. ASSUME RefreshUnknown(r) PROVE Frame(r) /\ StepKinds(r)
  <2>1. Frame(r)
    BY <1>2 DEF Frame, RefreshUnknown
  <2>2. Quiet(r)
    BY <1>2 DEF Quiet, NoGain, RefreshUnknown
  <2>3. QED BY <2>1, <2>2 DEF StepKinds
<1>3. ASSUME NEW t \in TokenIds, RefreshRejected(r, t) PROVE Frame(r) /\ StepKinds(r)
  <2>1. Frame(r)
    BY <1>3 DEF Frame, RefreshRejected
  <2>2. Quiet(r)
    BY <1>3 DEF Quiet, NoGain, RefreshRejected
  <2>3. QED BY <2>1, <2>2 DEF StepKinds
<1>4. ASSUME NEW t \in TokenIds, RefreshReused(r, t) PROVE Frame(r) /\ StepKinds(r)
  <2>1. Frame(r)
    BY <1>4 DEF Frame, RefreshReused
  <2>2. Quiet(r)
    BY <1>4 DEF Quiet, NoGain, RefreshReused
  <2>3. QED BY <2>1, <2>2 DEF StepKinds
<1>5. ASSUME NEW t \in TokenIds, RefreshStart(r, t) PROVE Frame(r) /\ StepKinds(r)
  <2>1. Frame(r)
    BY <1>5 DEF Frame, RefreshStart
  <2>2. Quiet(r)
    BY <1>5 DEF Quiet, NoGain, RefreshStart
  <2>3. QED BY <2>1, <2>2 DEF StepKinds
<1>6. ASSUME NEW a \in heldAccess, NEW s \in SessionIds, SignOutStart(r, a, s) PROVE Frame(r) /\ StepKinds(r)
  <2>1. Frame(r)
    BY <1>6 DEF Frame, SignOutStart
  <2>2. Quiet(r)
    BY <1>6 DEF Quiet, NoGain, SignOutStart
  <2>3. QED BY <2>1, <2>2 DEF StepKinds
<1>7. ASSUME NEW a \in heldAccess, NEW k \in {"signOutAll", "changePassword"},
             RevokeAllStart(r, a, k) PROVE Frame(r) /\ StepKinds(r)
  <2>1. Frame(r)
    BY <1>7 DEF Frame, RevokeAllStart
  <2>2. Quiet(r)
    BY <1>7 DEF Quiet, NoGain, RevokeAllStart
  <2>3. QED BY <2>1, <2>2 DEF StepKinds
<1>8. ASSUME IssueCreateSession(r) PROVE Frame(r) /\ StepKinds(r)
  <2>1. Frame(r)
    BY <1>8 DEF Frame, IssueCreateSession
  <2>2. req[r].user \in Users /\ sessionOwner' = [sessionOwner EXCEPT ![r] = req[r].user]
    BY <1>8 DEF IssueCreateSession
  <2>3. /\ pc[r] = "create" /\ pc'[r] = "sign"
        /\ req[r].session = r /\ req'[r].session = r
        /\ sessionOwner[r] = None
        /\ UNCHANGED <<revoked, tokenSession>>
    BY <1>8 DEF IssueCreateSession
  <2>4. Opening(r)
    BY <2>2, <2>3 DEF Opening
  <2>5. QED BY <2>1, <2>4 DEF StepKinds
<1>9. ASSUME SignAccess(r) PROVE Frame(r) /\ StepKinds(r)
  <2>1. Frame(r)
    BY <1>9 DEF Frame, SignAccess
  <2>2. Quiet(r)
    BY <1>9 DEF Quiet, NoGain, SignAccess
  <2>3. QED BY <2>1, <2>2 DEF StepKinds
<1>10. ASSUME InsertToken(r) PROVE Frame(r) /\ StepKinds(r)
  <2>1. Frame(r)
    BY <1>10 DEF Frame, InsertToken
  <2>2. Minting(r)
    BY <1>10 DEF Minting, InsertToken
  <2>3. QED BY <2>1, <2>2 DEF StepKinds
<1>11. ASSUME Respond(r) PROVE Frame(r) /\ StepKinds(r)
  <2>1. Frame(r)
    BY <1>11 DEF Frame, Respond
  <2>2. Quiet(r)
    BY <1>11 DEF Quiet, NoGain, Respond
  <2>3. QED BY <2>1, <2>2 DEF StepKinds
<1>12. ASSUME RefreshReadSession(r) PROVE Frame(r) /\ StepKinds(r)
  <2>1. Frame(r)
    BY <1>12 DEF Frame, RefreshReadSession
  <2>2. CASE SessionActive(req[r].session)
    <3>1. Granting(r)
      BY <1>12, <2>2 DEF Granting, RefreshReadSession
    <3>2. QED BY <2>1, <3>1 DEF StepKinds
  <2>3. CASE ~SessionActive(req[r].session)
    <3>1. Quiet(r)
      BY <1>12, <2>3 DEF Quiet, NoGain, RefreshReadSession
    <3>2. QED BY <2>1, <3>1 DEF StepKinds
  <2>4. QED BY <2>2, <2>3
<1>13. ASSUME RefreshReadUser(r) PROVE Frame(r) /\ StepKinds(r)
  <2>1. Frame(r)
    BY <1>13 DEF Frame, RefreshReadUser
  <2>2. Quiet(r)
    BY <1>13 DEF Quiet, NoGain, RefreshReadUser
  <2>3. QED BY <2>1, <2>2 DEF StepKinds
<1>14. ASSUME RefreshMarkUsed(r) PROVE Frame(r) /\ StepKinds(r)
  <2>1. Frame(r)
    BY <1>14 DEF Frame, RefreshMarkUsed
  <2>2. Quiet(r)
    BY <1>14 DEF Quiet, NoGain, RefreshMarkUsed
  <2>3. QED BY <2>1, <2>2 DEF StepKinds
<1>15. ASSUME ReuseRevokeChain(r) PROVE Frame(r) /\ StepKinds(r)
  <2>1. Frame(r)
    BY <1>15 DEF Frame, ReuseRevokeChain, RevokeSessionChain
  <2>2. Quiet(r)
    BY <1>15 DEF Quiet, NoGain, ReuseRevokeChain, RevokeSessionChain
  <2>3. QED BY <2>1, <2>2 DEF StepKinds
<1>16. ASSUME ReuseRevokeSession(r) PROVE Frame(r) /\ StepKinds(r)
  <2> DEFINE S == {req[r].session}
  <2>1. Frame(r)
    BY <1>16 DEF Frame, ReuseRevokeSession
  <2>2. S \subseteq SessionIds /\ Closing(r, S)
    BY <1>16 DEF Closing, ReuseRevokeSession
  <2>3. QED BY <2>1, <2>2 DEF StepKinds
<1>17. ASSUME ReuseMark(r) PROVE Frame(r) /\ StepKinds(r)
  <2>1. Frame(r)
    BY <1>17 DEF Frame, ReuseMark
  <2>2. Quiet(r)
    BY <1>17 DEF Quiet, NoGain, ReuseMark
  <2>3. QED BY <2>1, <2>2 DEF StepKinds
<1>18. ASSUME SignOutRevokeSession(r) PROVE Frame(r) /\ StepKinds(r)
  <2> DEFINE S == {req[r].session}
  <2>1. Frame(r)
    BY <1>18 DEF Frame, SignOutRevokeSession
  <2>2. S \subseteq SessionIds /\ Closing(r, S)
    BY <1>18 DEF Closing, SignOutRevokeSession
  <2>3. QED BY <2>1, <2>2 DEF StepKinds
<1>19. ASSUME SignOutRevokeChain(r) PROVE Frame(r) /\ StepKinds(r)
  <2>1. Frame(r)
    BY <1>19 DEF Frame, SignOutRevokeChain, RevokeSessionChain
  <2>2. Quiet(r)
    BY <1>19 DEF Quiet, NoGain, SignOutRevokeChain, RevokeSessionChain
  <2>3. QED BY <2>1, <2>2 DEF StepKinds
<1>20. ASSUME SignOutMark(r) PROVE Frame(r) /\ StepKinds(r)
  <2>1. Frame(r)
    BY <1>20 DEF Frame, SignOutMark
  <2>2. Quiet(r)
    BY <1>20 DEF Quiet, NoGain, SignOutMark
  <2>3. QED BY <2>1, <2>2 DEF StepKinds
<1>21. ASSUME RevokeAllForUser(r) PROVE Frame(r) /\ StepKinds(r)
  <2> DEFINE S == {s \in SessionIds : sessionOwner[s] = req[r].user /\ s # req[r].keep}
  <2>1. Frame(r)
    BY <1>21 DEF Frame, RevokeAllForUser
  <2>2. S \subseteq SessionIds /\ Closing(r, S)
    BY <1>21 DEF Closing, RevokeAllForUser
  <2>3. QED BY <2>1, <2>2 DEF StepKinds
<1>22. ASSUME NEW s \in SessionIds, RevokeEachChain(r, s) PROVE Frame(r) /\ StepKinds(r)
  <2>1. Frame(r)
    BY <1>22 DEF Frame, RevokeEachChain, RevokeSessionChain
  <2>2. Quiet(r)
    BY <1>22 DEF Quiet, NoGain, RevokeEachChain, RevokeSessionChain
  <2>3. QED BY <2>1, <2>2 DEF StepKinds
<1>23. ASSUME NEW s \in SessionIds, RevokeEachMark(r, s) PROVE Frame(r) /\ StepKinds(r)
  <2>1. Frame(r)
    BY <1>23 DEF Frame, RevokeEachMark
  <2>2. Quiet(r)
    BY <1>23 DEF Quiet, NoGain, RevokeEachMark
  <2>3. QED BY <2>1, <2>2 DEF StepKinds
<1>24. ASSUME RevokeEachDone(r) PROVE Frame(r) /\ StepKinds(r)
  <2>1. Frame(r)
    BY <1>24 DEF Frame, RevokeEachDone
  <2>2. Quiet(r)
    BY <1>24 DEF Quiet, NoGain, RevokeEachDone
  <2>3. QED BY <2>1, <2>2 DEF StepKinds
<1>25. ASSUME CallFails(r) PROVE Frame(r) /\ StepKinds(r)
  <2>1. Frame(r)
    BY <1>25 DEF Frame, CallFails
  <2>2. Quiet(r)
    BY <1>25 DEF Quiet, NoGain, CallFails
  <2>3. QED BY <2>1, <2>2 DEF StepKinds
<1>26. ASSUME NEW s \in SessionIds, EachFails(r, s) PROVE Frame(r) /\ StepKinds(r)
  <2>1. Frame(r)
    BY <1>26 DEF Frame, EachFails
  <2>2. Quiet(r)
    BY <1>26 DEF Quiet, NoGain, EachFails
  <2>3. QED BY <2>1, <2>2 DEF StepKinds
<1>31. ASSUME RevokeAllList(r) PROVE Frame(r) /\ StepKinds(r)
  <2>1. Frame(r)
    BY <1>31 DEF Frame, RevokeAllList
  <2>2. Quiet(r)
    BY <1>31 DEF Quiet, NoGain, RevokeAllList
  <2>3. QED BY <2>1, <2>2 DEF StepKinds
<1>27. CASE ArriveStep(r)
  BY <1>27, <1>1, <1>2, <1>3, <1>4, <1>5, <1>6, <1>7 DEF ArriveStep
<1>28. CASE HandlerStep(r)
  BY <1>28, <1>8, <1>9, <1>10, <1>11, <1>12, <1>13, <1>14, <1>15,
     <1>16, <1>17, <1>18, <1>19, <1>20, <1>21, <1>22, <1>23, <1>24,
     <1>31 DEF HandlerStep
<1>29. CASE FaultStep(r)
  BY <1>29, <1>25, <1>26 DEF FaultStep
<1>30. QED
  BY <1>27, <1>28, <1>29

(***************************************************************************)
(* A drained session stays drained and gets no further token.              *)
(***************************************************************************)
DrainedStep ==
  \A s \in SessionIds : Drained(s) => Drained(s)' /\ TokensOf(s)' = TokensOf(s)

(* One request's step.                                                     *)
LEMMA RequestDrained ==
  ASSUME LocalInv, NEW r \in Requests,
         ArriveStep(r) \/ HandlerStep(r) \/ FaultStep(r)
  PROVE  DrainedStep
<1> USE ConstantsAssumption DEF ConstantsAssumption, SessionIds, TokenIds
<1> SUFFICES ASSUME NEW s \in SessionIds, Drained(s)
             PROVE  Drained(s)' /\ TokensOf(s)' = TokensOf(s)
  BY DEF DrainedStep
<1>1. Frame(r) /\ StepKinds(r)
  BY StepKind
<1>2. /\ TypeOK /\ RowInv /\ RequestInv(r) /\ sessionOwner[s] # None
      /\ sessionOwner'[s] = sessionOwner[s]
  BY <1>1 DEF LocalInv, RowInv, TypeOK, Drained, Frame
<1>3. (pc[r] \in Issuing => req[r].session # s)
        /\ (s \in revoked => \/ sessionOwner[s] \in disabled
                             \/ pc[r] \in Granted => req[r].session # s)
  BY DEF Drained, Granted
<1>4. CASE Quiet(r)
  <2>1. TokensOf(s)' = TokensOf(s)
    BY <1>4 DEF Quiet, TokensOf
  <2>2. ASSUME pc'[r] \in Granted
        PROVE  /\ pc[r] \in Granted /\ req'[r].session = req[r].session
               /\ pc'[r] \in Issuing => pc[r] \in Issuing \/ req[r].user \notin disabled
    BY <2>2, <1>4 DEF Quiet, NoGain
  <2>3. pc[r] \in Granted \ Issuing => req[r].user = sessionOwner[req[r].session]
    BY <1>2 DEF RequestInv, Granted
  <2>4. Drained(s)'
    BY <2>2, <2>3, <1>1, <1>2, <1>4 DEF Quiet, Drained, Frame, Granted
  <2>5. QED BY <2>1, <2>4
<1>5. CASE Granting(r)
  BY <1>5, <1>1, <1>2 DEF Granting, SessionActive, Drained, Frame, TokensOf, Granted, Issuing
<1>6. CASE Opening(r)
  BY <1>6, <1>1, <1>2 DEF Opening, Drained, Frame, TokensOf
<1>7. CASE Minting(r)
  <2>1. req[r].session # s
    BY <1>7 DEF Minting, Drained, Granted, Issuing
  <2>2. QED
    BY <2>1, <1>7, <1>1, <1>2 DEF Minting, Drained, Frame, TokensOf, TypeOK, Granted, Issuing
<1>8. ASSUME NEW S \in SUBSET SessionIds, Closing(r, S)
      PROVE  Drained(s)' /\ TokensOf(s)' = TokensOf(s)
  BY <1>8, <1>1, <1>2 DEF Closing, Drained, Frame, TokensOf, Granted
<1>9. QED
  BY <1>1, <1>4, <1>5, <1>6, <1>7, <1>8 DEF StepKinds

(* However requests, failures, restarts, deactivations and the clock       *)
(* interleave, a drained session gets no further refresh token.            *)
THEOREM DrainedSessions == Spec => DrainedIsFinal
<1>1. LocalInv /\ [Next]_vars => [DrainedStep]_vars
  <2> SUFFICES ASSUME LocalInv, Next PROVE DrainedStep
    OBVIOUS
  <2>1. CASE \E r \in Requests : ArriveStep(r) \/ HandlerStep(r) \/ FaultStep(r)
    BY <2>1, RequestDrained
  <2>2. CASE Restart
    BY <2>2 DEF Restart, DrainedStep, Drained, TokensOf, sessionVars, tokenVars, InFlight,
        Granted, Issuing, Final, LocalInv, TypeOK
  <2>3. ASSUME NEW u \in Users, DisableUser(u) PROVE DrainedStep
    BY <2>3 DEF DisableUser, DrainedStep, Drained, TokensOf, sessionVars, tokenVars
  <2>4. CASE Tick
    BY <2>4 DEF Tick, DrainedStep, Drained, TokensOf, sessionVars, tokenVars
  <2>5. QED
    BY <2>1, <2>2, <2>3, <2>4 DEF Next
<1>2. QED
  BY <1>1, LocalAlways, PTL DEF Spec, DrainedIsFinal, DrainedStep

(***************************************************************************)
(* Refinement.                                                             *)
(***************************************************************************)

(* A quiet step only lets grants go.                                       *)
LEMMA QuietRefines ==
  ASSUME LocalInv, NEW r \in Requests, Frame(r), Quiet(r)
  PROVE  [Issuance!Next]_Issuance!ivars
<1>1. Status' = Status /\ Minted' = Minted
  BY DEF Quiet, Status, Minted, TokensOf
<1>2. CASE Grants' = Grants
  BY <1>1, <1>2 DEF Issuance!ivars
<1>3. CASE Grants' # Grants
  <2> DEFINE gone == IF pc'[r] \in Granted THEN {} ELSE {r}
  <2>1. Grants' = [s \in SessionIds |-> Grants[s] \ gone]
    BY DEF Quiet, NoGain, Frame, Grants
  <2>2. Issuance!Drop(gone) /\ gone \in SUBSET Requests
    BY <1>1, <2>1 DEF Issuance!Drop
  <2>3. QED
    BY <2>2 DEF Issuance!Next
<1>4. QED
  BY <1>2, <1>3

(* Finding the session active is obtaining a grant.                        *)
LEMMA GrantingRefines ==
  ASSUME LocalInv, NEW r \in Requests, Frame(r), Granting(r)
  PROVE  [Issuance!Next]_Issuance!ivars
<1> DEFINE i == req[r].session
<1>1. i \in SessionIds /\ Status[i] = "open" /\ Status' = Status /\ Minted' = Minted
  BY DEF Granting, SessionActive, Status, Minted, TokensOf
<1>2. Grants' = [Grants EXCEPT ![i] = @ \cup {r}]
  <2>1. \A s \in SessionIds :
          Grants'[s] = IF s = i THEN Grants[s] \cup {r} ELSE Grants[s]
    BY DEF Granting, Frame, Grants, Granted, Issuing
  <2>2. QED
    BY <2>1 DEF Grants
<1>3. Issuance!Grant(i, r)
  BY <1>1, <1>2 DEF Issuance!Grant
<1>4. QED
  BY <1>1, <1>3 DEF Issuance!Next

(* Inserting the session row opens the session.                            *)
LEMMA OpeningRefines ==
  ASSUME LocalInv, NEW r \in Requests, Frame(r), Opening(r)
  PROVE  [Issuance!Next]_Issuance!ivars
<1> USE ConstantsAssumption DEF ConstantsAssumption, SessionIds
<1>1. /\ r \notin revoked
      /\ \A q \in Requests : pc[q] \in Granted /\ q # r => req[q].session # r
      /\ sessionOwner \in [SessionIds -> Users \cup {None}]
  BY DEF Opening, LocalInv, TypeOK, RowInv, RequestInv, Granted, Issuing
<1>2. Minted' = Minted
  BY DEF Opening, Minted, TokensOf
<1>3. Status[r] = "absent" /\ Status' = [Status EXCEPT ![r] = "open"]
  <2>1. \A s \in SessionIds : Status'[s] = IF s = r THEN "open" ELSE Status[s]
    BY <1>1 DEF Opening, Status
  <2>2. QED
    BY <2>1 DEF Opening, Status
<1>4. Grants' = [Grants EXCEPT ![r] = {r}]
  <2>1. \A s \in SessionIds : Grants'[s] = IF s = r THEN {r} ELSE Grants[s]
    BY <1>1 DEF Opening, Frame, Grants, Granted, Issuing
  <2>2. QED
    BY <2>1 DEF Grants
<1>5. Issuance!Open(r, r)
  BY <1>2, <1>3, <1>4 DEF Issuance!Open
<1>6. QED
  BY <1>5 DEF Issuance!Next

(* Inserting the token row uses the grant up.                              *)
LEMMA MintingRefines ==
  ASSUME LocalInv, NEW r \in Requests, Frame(r), Minting(r)
  PROVE  [Issuance!Next]_Issuance!ivars
<1> USE ConstantsAssumption DEF ConstantsAssumption, SessionIds, TokenIds
<1> DEFINE i == req[r].session
<1>1. i \in SessionIds /\ r \in Grants[i] /\ Status' = Status
  BY DEF Minting, Grants, Status, Granted, Issuing
<1>2. \A s \in SessionIds : r \notin Minted[s]
  BY DEF Minting, Minted, TokensOf
<1>3. Minted' = [Minted EXCEPT ![i] = @ \cup {r}]
  <2>1. tokenSession' = [tokenSession EXCEPT ![r] = i] /\ tokenSession[r] = None
          /\ tokenSession \in [TokenIds -> SessionIds \cup {None}]
    BY DEF Minting, LocalInv, TypeOK
  <2>2. \A s \in SessionIds : Minted'[s] = IF s = i THEN Minted[s] \cup {r} ELSE Minted[s]
    BY <2>1 DEF Minted, TokensOf
  <2>3. QED
    BY <2>2 DEF Minted
<1>4. Grants' = [Grants EXCEPT ![i] = @ \ {r}]
  <2>1. \A s \in SessionIds : Grants'[s] = IF s = i THEN Grants[s] \ {r} ELSE Grants[s]
    BY DEF Minting, Frame, Grants, Granted, Issuing
  <2>2. QED
    BY <2>1 DEF Grants
<1>5. Issuance!Mint(i, r, r)
  BY <1>1, <1>2, <1>3, <1>4 DEF Issuance!Mint
<1>6. QED
  BY <1>1, <1>5 DEF Issuance!Next

(* Revoking sessions closes those that are still open.                     *)
LEMMA ClosingRefines ==
  ASSUME LocalInv, NEW r \in Requests, Frame(r),
         NEW S \in SUBSET SessionIds, Closing(r, S)
  PROVE  [Issuance!Next]_Issuance!ivars
<1> DEFINE C == S \ revoked
<1>1. Minted' = Minted
  BY DEF Closing, Minted, TokensOf
<1>2. Grants' = Grants
  BY DEF Closing, Frame, Grants
<1>3. \A s \in C : Status[s] = "open"
  BY DEF Closing, Status
<1>4. Status' = [s \in SessionIds |-> IF s \in C THEN "closed" ELSE Status[s]]
  BY DEF Closing, Status
<1>5. Issuance!Close(C) /\ C \in SUBSET SessionIds
  BY <1>1, <1>2, <1>3, <1>4 DEF Issuance!Close
<1>6. QED
  BY <1>5 DEF Issuance!Next

(* The request handlers, interleaved, failing and restarted, implement     *)
(* SessionIssuance: a refresh token is added to a session only by a request*)
(* that found the session open, and at most one by each.                   *)
THEOREM Refinement == Spec => ImplementsIssuance
<1>1. Init => Issuance!Init
  BY ConstantsAssumption
  DEF ConstantsAssumption, Init, Issuance!Init, Status, Grants, Minted, TokensOf,
      SessionIds, TokenIds, Granted, Issuing
<1>2. LocalInv /\ [Next]_vars => [Issuance!Next]_Issuance!ivars
  <2> SUFFICES ASSUME LocalInv, [Next]_vars PROVE [Issuance!Next]_Issuance!ivars
    OBVIOUS
  <2>1. ASSUME NEW r \in Requests, ArriveStep(r) \/ HandlerStep(r) \/ FaultStep(r)
        PROVE  [Issuance!Next]_Issuance!ivars
    <3>1. Frame(r) /\ StepKinds(r)
      BY <2>1, StepKind
    <3>2. QED
      BY <3>1, QuietRefines, GrantingRefines, OpeningRefines, MintingRefines,
         ClosingRefines DEF StepKinds
  <2>2. CASE Restart
    <3> DEFINE gone == {r \in Requests : InFlight(r)}
    <3>1. Status' = Status /\ Minted' = Minted
      BY <2>2 DEF Restart, Status, Minted, TokensOf, sessionVars, tokenVars
    <3>2. Grants' = [s \in SessionIds |-> Grants[s] \ gone]
      BY <2>2 DEF Restart, Grants, InFlight, Granted, Issuing, Final
    <3>3. Issuance!Drop(gone) /\ gone \in SUBSET Requests
      BY <3>1, <3>2 DEF Issuance!Drop
    <3>4. QED
      BY <3>3 DEF Issuance!Next
  <2>3. CASE (\E u \in Users : DisableUser(u)) \/ Tick \/ UNCHANGED vars
    <3>1. UNCHANGED <<sessionOwner, revoked, tokenSession, pc, req>>
      BY <2>3 DEF DisableUser, Tick, vars, sessionVars, tokenVars
    <3>2. QED
      BY <3>1 DEF Issuance!ivars, Status, Grants, Minted, TokensOf
  <2>4. QED
    BY <2>1, <2>2, <2>3 DEF Next
<1>3. QED
  BY <1>1, <1>2, LocalAlways, PTL DEF Spec, ImplementsIssuance, Issuance!Spec
=============================================================================
