---------------------------- MODULE AccessProofs ----------------------------
(***************************************************************************)
(* Proofs about Access, for any calls, roles, permissions and routes, and  *)
(* any lifetimes of entries, tokens and calls; and about Throttler, the    *)
(* guard in front of those of Access.  The two share nothing but the       *)
(* requests that pass from one to the other.                               *)
(***************************************************************************)
EXTENDS Access, Throttler, FiniteSetTheorems, TLAPS

\* What c says was so within n ticks, by the histories gone, lost and still;
\* and it is now, if nothing has changed for longer.
RecentIn(c, n, gone, lost, still, now) ==
  /\ \A x \in c.roles : gone[x] <= n
  /\ \A k \in c.codes : \E x \in Roles : gone[x] <= n /\ lost[<<x, k>>] <= n
  /\ still > n => c = now

Recent(c, n) == RecentIn(c, n, roleGone, linkGone, quiet, Current)

\* A call that has read the roles and not yet their permissions.
RolesNow == [roles |-> assigned, codes |-> {}]
RolesRecent(c, n) == RecentIn(c, n, roleGone, linkGone, quiet, RolesNow)

HeldNow ==
  /\ \A x \in assigned : roleGone[x] = 0
  /\ \A l \in links : linkGone[l] = 0

CacheRecent ==
  cache.left > 0 => Recent(cache.claims, Latency + CacheTtl - cache.left)

TokensRecent ==
  \A t \in tokens : Recent(t.claims, TokenStale + 1 - t.left)

CallRecent(r) ==
  /\ pc[r] = "findPermissions" => RolesRecent(claims[r], age[r]) /\ claims[r].codes = {}
  /\ pc[r] = "set" => Recent(claims[r], age[r])
  /\ pc[r] = "sign" => Recent(claims[r], Latency + CacheTtl - 1 + age[r])
  /\ pc[r] \in {"isRevoked", "handler"} => Recent(claims[r], TokenStale + age[r])
  /\ pc[r] = "handler" => Opens(claims[r], route[r])

CallsRecent == \A r \in Calls : CallRecent(r)

AccessInv == TypeOK /\ HeldNow /\ CacheRecent /\ TokensRecent /\ CallsRecent

-----------------------------------------------------------------------------
\* The bounds are natural numbers.
LEMMA Bounds ==
  /\ CacheTtl \in Nat /\ AccessTtl \in Nat /\ AccessTtl >= 1
  /\ Latency \in Nat /\ Latency >= 1
  /\ TokenStale \in Nat /\ TokenStale = 2 * Latency + CacheTtl + AccessTtl - 2
  /\ HandlerStale = TokenStale + Latency /\ LongAgo = HandlerStale + 1
  /\ LongAgo \in Nat
BY AccessAssumption DEF TokenStale, HandlerStale, LongAgo

\* What getUserAccess may answer are claims.
LEMMA ClaimsTypes ==
  ASSUME TypeOK
  PROVE  /\ NoClaims \in Claims
         /\ cache.claims \in Claims
         /\ \A t \in tokens : t.claims \in Claims
         /\ [roles |-> assigned, codes |-> {}] \in Claims
         /\ \A r \in Calls : [claims[r] EXCEPT !.codes = CodesOf(claims[r].roles)] \in Claims
BY DEF TypeOK, Claims, NoClaims, CodesOf

\* A call that continues with claims, or ends, keeps the types.
LEMMA ContinueTypes ==
  ASSUME TypeOK, NEW r \in Calls, NEW place \in Busy, NEW c \in Claims,
         Continue(r, place, c) \/ End(r) \/ Got(r, c) \/ Load(r, c)
                               \/ \E o \in Operations : Arrive(r, o, place, c)
  PROVE  /\ pc' \in [Calls -> Busy \cup {"idle"}]
         /\ op' \in [Calls -> Operations]
         /\ claims' \in [Calls -> Claims]
         /\ route' \in [Calls -> Claims]
         /\ age' \in [Calls -> 0 .. Latency]
<1>1. /\ NoClaims \in Claims /\ 0 \in 0 .. Latency /\ "read" \in Operations
      /\ "set" \in Busy /\ "sign" \in Busy
  BY ClaimsTypes, Bounds DEF Operations, Busy
<1>2. \A p \in Busy : Continue(r, p, c) =>
        /\ pc' \in [Calls -> Busy \cup {"idle"}]
        /\ op' \in [Calls -> Operations]
        /\ claims' \in [Calls -> Claims]
        /\ route' \in [Calls -> Claims]
        /\ age' \in [Calls -> 0 .. Latency]
  BY DEF TypeOK, Continue, Goto
<1>3. CASE End(r)
  BY <1>1, <1>3 DEF TypeOK, End, Goto
<1>4. CASE \E o \in Operations : Arrive(r, o, place, c)
  BY <1>4 DEF TypeOK, Arrive, Goto
<1> QED BY <1>1, <1>2, <1>3, <1>4 DEF Got, Load

\* Every variable keeps its type.
LEMMA AccessTypesNext ==
  ASSUME TypeOK, [Next]_vars
  PROVE  TypeOK'
<1> USE Bounds
<1>e. Older(quiet) \in 0 .. LongAgo /\ \A n \in 0 .. LongAgo : Older(n) \in 0 .. LongAgo
  BY DEF Older, TypeOK
<1>1. CASE UNCHANGED vars
  BY <1>1 DEF TypeOK, vars, grants, calls, history
<1>2. ASSUME NEW r \in Calls, CallStep(r) PROVE TypeOK'
  <2>1. CASE ArriveForAccess(r)
    <3>1. UNCHANGED <<grants, cache, tokens, history>>
      BY <2>1 DEF ArriveForAccess
    <3>2. /\ NoClaims \in Claims /\ "get" \in Busy
          /\ \E o \in Operations : Arrive(r, o, "get", NoClaims)
      BY <2>1, ClaimsTypes DEF ArriveForAccess, Busy, Operations
    <3> QED BY <3>1, <3>2, ContinueTypes DEF TypeOK, grants, history
  <2>2. CASE GetAccess(r)
    <3>1. UNCHANGED <<grants, cache, tokens, history>>
      BY <2>2 DEF GetAccess
    <3>2. \E c \in Claims, place \in Busy : Continue(r, place, c) \/ Got(r, c)
      BY <2>2, ClaimsTypes DEF GetAccess, Busy
    <3> QED BY <3>1, <3>2, ContinueTypes DEF TypeOK, grants, history
  <2>3. CASE FindRoles(r) \/ FindPermissions(r)
    <3>1. UNCHANGED <<grants, cache, tokens, history>>
      BY <2>3 DEF FindRoles, FindPermissions
    <3>2. \E c \in Claims, place \in Busy : Continue(r, place, c) \/ Load(r, c)
      BY <2>3, ClaimsTypes DEF FindRoles, FindPermissions, Busy
    <3> QED BY <3>1, <3>2, ContinueTypes DEF TypeOK, grants, history
  <2>4. CASE Set(r)
    <3>1. UNCHANGED <<grants, tokens, history>> /\ Got(r, claims[r]) /\ claims[r] \in Claims
      BY <2>4 DEF Set, TypeOK
    <3>2. cache' \in [claims : Claims, left : 0 .. CacheTtl] /\ "set" \in Busy
      BY <2>4, <3>1 DEF Set, Busy
    <3> QED BY <3>1, <3>2, ContinueTypes DEF TypeOK, grants, history
  <2>5. CASE Sign(r)
    <3>1. UNCHANGED <<grants, cache, history>> /\ End(r) /\ claims[r] \in Claims
      BY <2>5 DEF Sign, TypeOK
    <3>2. tokens' \subseteq [claims : Claims, left : 1 .. AccessTtl] /\ "set" \in Busy
      BY <2>5, <3>1 DEF Sign, TypeOK, Busy
    <3> QED BY <3>1, <3>2, ContinueTypes DEF TypeOK, grants, history
  <2>6. CASE Present(r)
    <3>1. UNCHANGED <<grants, cache, tokens, history>>
      BY <2>6 DEF Present
    <3>2. \E c \in Claims, place \in Busy : \E o \in Operations : Arrive(r, o, place, c)
      BY <2>6, ClaimsTypes DEF Present, Busy, Operations
    <3> QED BY <3>1, <3>2, ContinueTypes DEF TypeOK, grants, history
  <2>7. CASE Pass(r)
    BY <2>7, AccessAssumption DEF Pass, Goto, TypeOK, Busy, grants, history
  <2>8. CASE Finish(r)
    <3>1. UNCHANGED <<grants, cache, tokens, history>> /\ End(r) /\ NoClaims \in Claims /\ "set" \in Busy
      BY <2>8, ClaimsTypes DEF Finish, Busy
    <3> QED BY <3>1, ContinueTypes DEF TypeOK, grants, history
  <2>9. CASE AssignRole(r) \/ RevokeRole(r)
    <3>1. /\ NoClaims \in Claims /\ "invalidate" \in Busy /\ "read" \in Operations
          /\ Arrive(r, "read", "invalidate", NoClaims)
      BY <2>9, ClaimsTypes DEF AssignRole, RevokeRole, Busy, Operations
    <3>2. assigned' \subseteq Roles /\ roleGone' \in [Roles -> 0 .. LongAgo]
      BY <2>9 DEF AssignRole, RevokeRole, TypeOK
    <3>3. quiet' \in 0 .. LongAgo /\ UNCHANGED <<links, cache, tokens, linkGone>>
      BY <2>9 DEF AssignRole, RevokeRole, TypeOK, Rewritten
    <3> QED BY <3>1, <3>2, <3>3, ContinueTypes DEF TypeOK
  <2>10. CASE InvalidateCache(r)
    <3>1. /\ NoClaims \in Claims /\ "get" \in Busy /\ Continue(r, "get", NoClaims)
          /\ UNCHANGED <<grants, tokens, history>>
      BY <2>10, ClaimsTypes DEF InvalidateCache, Busy
    <3>2. cache' \in [claims : Claims, left : 0 .. CacheTtl]
      BY <2>10, <3>1 DEF InvalidateCache, NoEntry
    <3> QED BY <3>1, <3>2, ContinueTypes DEF TypeOK, grants, history
  <2> QED BY <1>2, <2>1, <2>2, <2>3, <2>4, <2>5, <2>6, <2>7, <2>8, <2>9, <2>10 DEF CallStep
<1>3. CASE GrantPermission \/ RevokePermission
  BY <1>3 DEF GrantPermission, RevokePermission, Rewritten, TypeOK, calls, Links
<1>4. CASE DeleteRole
  BY <1>4 DEF DeleteRole, Rewritten, TypeOK, calls
<1>5. CASE Restart
  BY <1>5, ClaimsTypes DEF Restart, TypeOK, NoEntry, grants, history, Operations
<1>6. CASE Tick
  <2>1. cache' \in [claims : Claims, left : 0 .. CacheTtl]
    BY <1>6, ClaimsTypes DEF Tick, TypeOK, NoEntry, Aged
  <2>2. tokens' \subseteq [claims : Claims, left : 1 .. AccessTtl]
    BY <1>6 DEF Tick, TypeOK, Aged
  <2>3. age' \in [Calls -> 0 .. Latency]
    BY <1>6 DEF Tick, TypeOK
  <2>4. roleGone' \in [Roles -> 0 .. LongAgo] /\ linkGone' \in [Links -> 0 .. LongAgo]
    BY <1>6, <1>e DEF Tick, TypeOK
  <2> QED BY <1>6, <1>e, <2>1, <2>2, <2>3, <2>4 DEF Tick, TypeOK, grants
<1> QED BY <1>1, <1>2, <1>3, <1>4, <1>5, <1>6 DEF Next

-----------------------------------------------------------------------------
\* What was so within n ticks was so within more.
LEMMA Weaken ==
  ASSUME NEW c \in Claims, NEW n \in Int, NEW m \in Int, n <= m,
         NEW gone \in [Roles -> Nat], NEW lost \in [Links -> Nat], NEW still \in Nat, NEW now,
         RecentIn(c, n, gone, lost, still, now)
  PROVE  RecentIn(c, m, gone, lost, still, now)
<1>1. \A x \in c.roles : gone[x] <= m
  BY DEF RecentIn, Claims
<1>2. ASSUME NEW k \in c.codes PROVE \E x \in Roles : gone[x] <= m /\ lost[<<x, k>>] <= m
  <2>1. PICK x \in Roles : gone[x] <= n /\ lost[<<x, k>>] <= n
    BY DEF RecentIn
  <2>2. gone[x] \in Nat /\ lost[<<x, k>>] \in Nat
    BY DEF Links, Claims
  <2> QED BY <2>1, <2>2
<1>3. still > m => c = now
  BY DEF RecentIn
<1> QED BY <1>1, <1>2, <1>3 DEF RecentIn

\* Histories that only start again, and count on otherwise, keep it.
LEMMA Restarted ==
  ASSUME NEW c \in Claims, NEW n \in Nat, NEW now, NEW now2,
         NEW gone \in [Roles -> Nat], NEW lost \in [Links -> Nat], NEW still \in Nat,
         NEW gone2 \in [Roles -> Nat], NEW lost2 \in [Links -> Nat], NEW still2 \in Nat,
         \A x \in Roles : gone2[x] <= gone[x],
         \A l \in Links : lost2[l] <= lost[l],
         still2 = 0 \/ (still2 = still /\ now2 = now),
         RecentIn(c, n, gone, lost, still, now)
  PROVE  RecentIn(c, n, gone2, lost2, still2, now2)
<1>1. \A x \in c.roles : gone2[x] <= n
  <2> SUFFICES ASSUME NEW x \in c.roles PROVE gone2[x] <= n
    OBVIOUS
  <2>1. gone[x] <= n /\ x \in Roles
    BY DEF RecentIn, Claims
  <2>2. gone[x] \in Nat /\ gone2[x] \in Nat /\ gone2[x] <= gone[x]
    BY <2>1
  <2> QED BY <2>1, <2>2
<1>2. ASSUME NEW k \in c.codes PROVE \E x \in Roles : gone2[x] <= n /\ lost2[<<x, k>>] <= n
  <2>1. PICK x \in Roles : gone[x] <= n /\ lost[<<x, k>>] <= n
    BY DEF RecentIn
  <2>2. <<x, k>> \in Links
    BY DEF Links, Claims
  <2>3. gone[x] \in Nat /\ gone2[x] \in Nat /\ gone2[x] <= gone[x]
    OBVIOUS
  <2>4. \A l \in Links : lost[l] \in Nat /\ lost2[l] \in Nat /\ lost2[l] <= lost[l]
    OBVIOUS
  <2>5. lost[<<x, k>>] \in Nat /\ lost2[<<x, k>>] \in Nat /\ lost2[<<x, k>>] <= lost[<<x, k>>]
    BY <2>2, <2>4, Zenon
  <2>6. gone2[x] <= n
    BY <2>1, <2>3
  <2>7. lost2[<<x, k>>] <= n
    BY <2>1, <2>5
  <2> QED BY <2>6, <2>7, Zenon
<1>3. still2 > n => c = now2
  BY DEF RecentIn
<1> QED BY <1>1, <1>2, <1>3 DEF RecentIn

\* A tick later it was so within one tick more.
LEMMA Ticked ==
  ASSUME NEW c \in Claims, NEW n \in Nat, NEW now,
         NEW gone \in [Roles -> Nat], NEW lost \in [Links -> Nat], NEW still \in Nat,
         NEW gone2 \in [Roles -> Nat], NEW lost2 \in [Links -> Nat], NEW still2 \in Nat,
         \A x \in Roles : gone2[x] <= gone[x] + 1,
         \A l \in Links : lost2[l] <= lost[l] + 1,
         still2 <= still + 1,
         RecentIn(c, n, gone, lost, still, now)
  PROVE  RecentIn(c, n + 1, gone2, lost2, still2, now)
<1>1. \A x \in c.roles : gone2[x] <= n + 1
  <2> SUFFICES ASSUME NEW x \in c.roles PROVE gone2[x] <= n + 1
    OBVIOUS
  <2>1. gone[x] <= n /\ x \in Roles
    BY DEF RecentIn, Claims
  <2>2. gone[x] \in Nat /\ gone2[x] \in Nat /\ gone2[x] <= gone[x] + 1
    BY <2>1
  <2> QED BY <2>1, <2>2
<1>2. ASSUME NEW k \in c.codes PROVE \E x \in Roles : gone2[x] <= n + 1 /\ lost2[<<x, k>>] <= n + 1
  <2>1. PICK x \in Roles : gone[x] <= n /\ lost[<<x, k>>] <= n
    BY DEF RecentIn
  <2>2. <<x, k>> \in Links
    BY DEF Links, Claims
  <2>3. gone[x] \in Nat /\ gone2[x] \in Nat /\ gone2[x] <= gone[x] + 1
    OBVIOUS
  <2>4. \A l \in Links : lost[l] \in Nat /\ lost2[l] \in Nat /\ lost2[l] <= lost[l] + 1
    OBVIOUS
  <2>5. lost[<<x, k>>] \in Nat /\ lost2[<<x, k>>] \in Nat /\ lost2[<<x, k>>] <= lost[<<x, k>>] + 1
    BY <2>2, <2>4, Zenon
  <2>6. gone2[x] <= n + 1
    BY <2>1, <2>3
  <2>7. lost2[<<x, k>>] <= n + 1
    BY <2>1, <2>5
  <2> QED BY <2>6, <2>7, Zenon
<1>3. still2 > n + 1 => c = now
  BY DEF RecentIn
<1> QED BY <1>1, <1>2, <1>3 DEF RecentIn

\* The types that the three lemmas above ask for.
LEMMA HistoryTypes ==
  ASSUME TypeOK
  PROVE  roleGone \in [Roles -> Nat] /\ linkGone \in [Links -> Nat] /\ quiet \in Nat
BY Bounds DEF TypeOK

\* What is read from the database now is recent.
LEMMA ReadRoles ==
  ASSUME TypeOK, HeldNow, NEW n \in Nat
  PROVE  /\ RolesRecent(RolesNow, n)
         /\ assigned = {} => Recent(NoClaims, n)
<1>1. \A x \in assigned : roleGone[x] <= n
  BY DEF HeldNow
<1>2. RolesRecent(RolesNow, n)
  BY <1>1 DEF RolesRecent, RecentIn, RolesNow
<1>3. ASSUME assigned = {} PROVE NoClaims = Current
  BY <1>3 DEF NoClaims, Current, CodesOf
<1>4. NoClaims.roles = {} /\ NoClaims.codes = {}
  BY DEF NoClaims
<1> QED BY <1>2, <1>3, <1>4 DEF Recent, RecentIn

LEMMA ReadPermissions ==
  ASSUME TypeOK, HeldNow, NEW c \in Claims, NEW n \in Nat, RolesRecent(c, n), c.codes = {}
  PROVE  Recent([c EXCEPT !.codes = CodesOf(c.roles)], n)
<1> DEFINE d == [c EXCEPT !.codes = CodesOf(c.roles)]
<1>1. d.roles = c.roles /\ d.codes = CodesOf(c.roles) /\ c.roles \subseteq Roles
  BY DEF Claims
<1>2. \A x \in d.roles : roleGone[x] <= n
  BY <1>1 DEF RolesRecent, RecentIn
<1>3. \A k \in d.codes : \E x \in Roles : roleGone[x] <= n /\ linkGone[<<x, k>>] <= n
  <2> SUFFICES ASSUME NEW k \in CodesOf(c.roles)
               PROVE  \E x \in Roles : roleGone[x] <= n /\ linkGone[<<x, k>>] <= n
    BY <1>1
  <2>1. PICK x \in c.roles : <<x, k>> \in links
    BY DEF CodesOf
  <2>2. roleGone[x] <= n /\ linkGone[<<x, k>>] = 0 /\ x \in Roles
    BY <1>1, <1>2, <2>1 DEF HeldNow
  <2> QED BY <2>2
<1>4. ASSUME quiet > n PROVE d = Current
  <2>1. c = RolesNow
    BY <1>4 DEF RolesRecent, RecentIn
  <2> QED BY <2>1 DEF RolesNow, Current
<1> QED BY <1>2, <1>3, <1>4 DEF Recent, RecentIn

-----------------------------------------------------------------------------
\* A step at which no time passes.
HistoryRestarted ==
  /\ \A x \in Roles : roleGone'[x] <= roleGone[x]
  /\ \A l \in Links : linkGone'[l] <= linkGone[l]
  /\ quiet' = 0 \/ (quiet' = quiet /\ UNCHANGED grants)

\* It leaves recent what was.
LEMMA RecentRestarted ==
  ASSUME TypeOK, TypeOK', HistoryRestarted, NEW c \in Claims, NEW n \in Nat
  PROVE  /\ Recent(c, n) => RecentIn(c, n, roleGone', linkGone', quiet', Current')
         /\ RolesRecent(c, n) => RecentIn(c, n, roleGone', linkGone', quiet', RolesNow')
<1>1. /\ roleGone \in [Roles -> Nat] /\ linkGone \in [Links -> Nat] /\ quiet \in Nat
      /\ roleGone' \in [Roles -> Nat] /\ linkGone' \in [Links -> Nat] /\ quiet' \in Nat
  BY Bounds DEF TypeOK
<1>2. UNCHANGED grants => Current' = Current /\ RolesNow' = RolesNow
  BY DEF grants, Current, RolesNow, CodesOf
<1>3. quiet' = 0 \/ (quiet' = quiet /\ Current' = Current)
  BY <1>2 DEF HistoryRestarted
<1>4. quiet' = 0 \/ (quiet' = quiet /\ RolesNow' = RolesNow)
  BY <1>2 DEF HistoryRestarted
<1>5. Recent(c, n) => RecentIn(c, n, roleGone', linkGone', quiet', Current')
  BY <1>1, <1>3, Restarted DEF HistoryRestarted, Recent
<1>6. RolesRecent(c, n) => RecentIn(c, n, roleGone', linkGone', quiet', RolesNow')
  BY <1>1, <1>4, Restarted DEF HistoryRestarted, RolesRecent
<1> QED BY <1>5, <1>6

\* A call that does not move stays as recent as it was.
LEMMA CallKept ==
  ASSUME AccessInv, TypeOK', HistoryRestarted, NEW r \in Calls,
         pc'[r] = pc[r], claims'[r] = claims[r], route'[r] = route[r], age'[r] = age[r]
  PROVE  CallRecent(r)'
<1>1. CallRecent(r) /\ claims[r] \in Claims /\ age[r] \in Nat /\ TypeOK
  BY Bounds DEF AccessInv, CallsRecent, TypeOK
<1>2. Latency + CacheTtl - 1 + age[r] \in Nat /\ TokenStale + age[r] \in Nat
  BY <1>1, Bounds
<1>3. pc[r] = "findPermissions" =>
        RecentIn(claims'[r], age'[r], roleGone', linkGone', quiet', RolesNow') /\ claims'[r].codes = {}
  BY <1>1, RecentRestarted DEF CallRecent
<1>4. pc[r] = "set" => RecentIn(claims'[r], age'[r], roleGone', linkGone', quiet', Current')
  BY <1>1, RecentRestarted DEF CallRecent
<1>5. pc[r] = "sign" =>
        RecentIn(claims'[r], Latency + CacheTtl - 1 + age'[r], roleGone', linkGone', quiet', Current')
  BY <1>1, <1>2, RecentRestarted DEF CallRecent
<1>6. pc[r] \in {"isRevoked", "handler"} =>
        RecentIn(claims'[r], TokenStale + age'[r], roleGone', linkGone', quiet', Current')
  BY <1>1, <1>2, RecentRestarted DEF CallRecent
<1>7. pc[r] = "handler" => Opens(claims'[r], route'[r])
  BY <1>1 DEF CallRecent
<1> QED BY <1>3, <1>4, <1>5, <1>6, <1>7 DEF CallRecent, Recent, RolesRecent

\* Neither do the entry and the tokens that a step leaves alone.
LEMMA CacheKept ==
  ASSUME AccessInv, TypeOK', HistoryRestarted, cache' = cache \/ cache' = NoEntry
  PROVE  CacheRecent'
<1>1. CASE cache' = NoEntry
  BY <1>1 DEF CacheRecent, NoEntry
<1>2. CASE cache' = cache
  <2> SUFFICES ASSUME cache.left > 0
               PROVE  RecentIn(cache.claims, Latency + CacheTtl - cache.left, roleGone', linkGone', quiet', Current')
    BY <1>2 DEF CacheRecent, Recent
  <2>1. /\ TypeOK /\ cache.claims \in Claims /\ Latency + CacheTtl - cache.left \in Nat
        /\ Recent(cache.claims, Latency + CacheTtl - cache.left)
    BY Bounds DEF AccessInv, TypeOK, CacheRecent
  <2> QED BY <2>1, RecentRestarted
<1> QED BY <1>1, <1>2

LEMMA TokenKept ==
  ASSUME AccessInv, TypeOK', HistoryRestarted, NEW t \in tokens
  PROVE  RecentIn(t.claims, TokenStale + 1 - t.left, roleGone', linkGone', quiet', Current')
<1>1. t.claims \in Claims /\ t.left \in 1 .. AccessTtl /\ TypeOK
  BY DEF AccessInv, TypeOK
<1>2. TokenStale + 1 - t.left \in Nat
  BY <1>1, Bounds
<1> QED BY <1>1, <1>2, RecentRestarted DEF AccessInv, TokensRecent

LEMMA TokensKept ==
  ASSUME AccessInv, TypeOK', HistoryRestarted, tokens' = tokens
  PROVE  TokensRecent'
BY TokenKept DEF TokensRecent, Recent

-----------------------------------------------------------------------------
\* Nothing is cached, signed or in flight at first.
LEMMA InitAccess == Init => AccessInv
<1> SUFFICES ASSUME Init
             PROVE  AccessInv
  OBVIOUS
<1>1. NoClaims \in Claims /\ "read" \in Operations /\ 0 \in 0 .. LongAgo /\ LongAgo \in 0 .. LongAgo
  BY Bounds DEF NoClaims, Claims, Operations
<1>2. TypeOK
  BY <1>1, Bounds, AccessAssumption DEF Init, TypeOK, NoEntry
<1>3. HeldNow
  BY AccessAssumption DEF Init, HeldNow
<1>4. CacheRecent /\ TokensRecent /\ CallsRecent
  BY DEF Init, CacheRecent, NoEntry, TokensRecent, CallsRecent, CallRecent
<1> QED BY <1>2, <1>3, <1>4 DEF AccessInv

\* A call that continues with an access that is recent enough, or ends.
LEMMA GotRecent ==
  ASSUME AccessInv, TypeOK', UNCHANGED <<grants, history>>, NEW r \in Calls, NEW c \in Claims,
         Got(r, c),
         Recent(c, Latency + CacheTtl - 1 + age[r])
  PROVE  CallRecent(r)'
<1>1. CASE op[r] = "issue"
  <2>1. pc'[r] = "sign" /\ claims'[r] = c /\ age'[r] = age[r]
    BY <1>1 DEF Got, Continue, Goto, AccessInv, TypeOK
  <2>2. Latency + CacheTtl - 1 + age[r] \in Nat /\ HistoryRestarted /\ TypeOK
    BY Bounds DEF AccessInv, TypeOK, HistoryRestarted, history, grants
  <2>3. RecentIn(c, Latency + CacheTtl - 1 + age'[r], roleGone', linkGone', quiet', Current')
    BY <2>1, <2>2, RecentRestarted
  <2> QED BY <2>1, <2>3 DEF CallRecent, Recent
<1>2. CASE op[r] # "issue"
  BY <1>2 DEF Got, End, Goto, AccessInv, TypeOK, CallRecent
<1> QED BY <1>1, <1>2

\* Caching what a call loaded is no matter for how recent it is.
LEMMA LoadRecent ==
  ASSUME AccessInv, TypeOK', UNCHANGED <<grants, history>>, NEW r \in Calls, NEW c \in Claims,
         Load(r, c), Recent(c, age[r])
  PROVE  CallRecent(r)'
<1>1. age[r] \in Nat /\ HistoryRestarted /\ TypeOK
  BY Bounds DEF AccessInv, TypeOK, HistoryRestarted, history, grants
<1>2. CASE CacheTtl > 0
  <2>1. pc'[r] = "set" /\ claims'[r] = c /\ age'[r] = age[r]
    BY <1>1, <1>2 DEF Load, Continue, Goto, TypeOK
  <2>2. RecentIn(c, age'[r], roleGone', linkGone', quiet', Current')
    BY <1>1, <2>1, RecentRestarted
  <2> QED BY <2>1, <2>2 DEF CallRecent, Recent
<1>3. CASE ~(CacheTtl > 0)
  <2>1. /\ age[r] \in Int /\ Latency + CacheTtl - 1 + age[r] \in Int
        /\ age[r] <= Latency + CacheTtl - 1 + age[r]
    BY <1>1, Bounds
  <2>2. Recent(c, Latency + CacheTtl - 1 + age[r])
    BY <1>1, <2>1, Weaken, HistoryTypes DEF Recent
  <2> QED BY <1>3, <2>2, GotRecent DEF Load
<1> QED BY <1>2, <1>3

\* A call that is away from where claims matter says nothing of them.
LEMMA PlaceRecent ==
  ASSUME NEW r \in Calls, pc'[r] \in {"idle", "invalidate", "get", "findRoles"}
  PROVE  CallRecent(r)'
BY DEF CallRecent

\* A call moves itself alone.
LEMMA OthersKept ==
  ASSUME TypeOK, NEW r \in Calls, CallStep(r), NEW s \in Calls, s # r
  PROVE  pc'[s] = pc[s] /\ claims'[s] = claims[s] /\ route'[s] = route[s] /\ age'[s] = age[s]
<1>1. CASE ArriveForAccess(r) \/ Present(r) \/ AssignRole(r) \/ RevokeRole(r)
  BY <1>1 DEF ArriveForAccess, Present, AssignRole, RevokeRole, Arrive, Goto, TypeOK
<1>2. CASE GetAccess(r) \/ FindRoles(r) \/ FindPermissions(r) \/ Set(r) \/ InvalidateCache(r)
  <2>1. \E c, place : Continue(r, place, c) \/ End(r)
    BY <1>2 DEF GetAccess, FindRoles, FindPermissions, Set, InvalidateCache, Load, Got
  <2> QED BY <2>1 DEF Continue, End, Goto, TypeOK
<1>3. CASE Sign(r) \/ Finish(r)
  BY <1>3 DEF Sign, Finish, End, Goto, TypeOK
<1>4. CASE Pass(r)
  BY <1>4 DEF Pass, Goto, TypeOK
<1> QED BY <1>1, <1>2, <1>3, <1>4 DEF CallStep

-----------------------------------------------------------------------------
\* getUserAccess: what a call gets from the cache, the database or its own
\* load is as recent as the place it reaches asks for.
LEMMA AccessStep ==
  ASSUME AccessInv, TypeOK', NEW r \in Calls,
         GetAccess(r) \/ FindRoles(r) \/ FindPermissions(r)
  PROVE  CallRecent(r)'
<1>1. /\ TypeOK /\ HeldNow /\ age[r] \in Nat /\ claims[r] \in Claims /\ NoClaims \in Claims
      /\ cache.claims \in Claims /\ RolesNow \in Claims
      /\ [claims[r] EXCEPT !.codes = CodesOf(claims[r].roles)] \in Claims
  BY ClaimsTypes, Bounds DEF AccessInv, TypeOK, RolesNow
<1>2. UNCHANGED <<grants, history>>
  BY DEF GetAccess, FindRoles, FindPermissions
<1>3. CASE GetAccess(r)
  <2>1. CASE cache.left > 0
    <3>1. /\ Latency + CacheTtl - cache.left \in Int /\ Latency + CacheTtl - 1 + age[r] \in Int
          /\ Latency + CacheTtl - cache.left <= Latency + CacheTtl - 1 + age[r]
      BY <1>1, <2>1, Bounds DEF TypeOK
    <3>2. Recent(cache.claims, Latency + CacheTtl - 1 + age[r])
      BY <1>1, <2>1, <3>1, Weaken, HistoryTypes DEF Recent, AccessInv, CacheRecent
    <3> QED BY <1>1, <1>2, <1>3, <2>1, <3>2, GotRecent DEF GetAccess
  <2>2. CASE ~(cache.left > 0)
    BY <1>1, <1>3, <2>2, PlaceRecent DEF GetAccess, Continue, Goto, TypeOK
  <2> QED BY <2>1, <2>2
<1>4. CASE FindRoles(r)
  <2>1. CASE assigned = {}
    BY <1>1, <1>2, <1>4, <2>1, ReadRoles, LoadRecent DEF FindRoles
  <2>2. CASE assigned # {}
    <3>1. pc'[r] = "findPermissions" /\ claims'[r] = RolesNow /\ age'[r] = age[r]
      BY <1>1, <1>4, <2>2 DEF FindRoles, Continue, Goto, TypeOK, RolesNow
    <3>2. HistoryRestarted
      BY <1>1, <1>2, HistoryTypes DEF HistoryRestarted, history, grants
    <3>3. RecentIn(RolesNow, age'[r], roleGone', linkGone', quiet', RolesNow')
      BY <1>1, <3>1, <3>2, ReadRoles, RecentRestarted
    <3>4. claims'[r].codes = {}
      BY <3>1 DEF RolesNow
    <3> QED BY <3>1, <3>3, <3>4 DEF CallRecent, RolesRecent
  <2> QED BY <2>1, <2>2
<1>5. CASE FindPermissions(r)
  <2>1. RolesRecent(claims[r], age[r]) /\ claims[r].codes = {}
    BY <1>5 DEF FindPermissions, AccessInv, CallsRecent, CallRecent
  <2>2. Recent([claims[r] EXCEPT !.codes = CodesOf(claims[r].roles)], age[r])
    BY <1>1, <2>1, ReadPermissions
  <2> QED BY <1>1, <1>2, <1>5, <2>2, LoadRecent DEF FindPermissions
<1> QED BY <1>3, <1>4, <1>5

\* Set: the entry starts with the age of the load, at most Latency.
LEMMA SetStep ==
  ASSUME AccessInv, TypeOK', NEW r \in Calls, Set(r)
  PROVE  CacheRecent' /\ CallRecent(r)'
<1>1. /\ TypeOK /\ claims[r] \in Claims /\ age[r] \in Nat /\ age[r] <= Latency
      /\ Recent(claims[r], age[r]) /\ UNCHANGED <<grants, history>>
  BY Bounds DEF AccessInv, TypeOK, CallsRecent, CallRecent, Set
<1>2. HistoryRestarted
  BY <1>1, HistoryTypes DEF HistoryRestarted, history, grants
<1>3. cache'.claims = claims[r] /\ Latency + CacheTtl - cache'.left = Latency
  BY <1>1, Bounds DEF Set
<1>4. Recent(claims[r], Latency)
  BY <1>1, Bounds, Weaken, HistoryTypes DEF Recent
<1>5. RecentIn(claims[r], Latency, roleGone', linkGone', quiet', Current')
  BY <1>1, <1>2, <1>4, Bounds, RecentRestarted
<1>6. CacheRecent'
  BY <1>3, <1>5 DEF CacheRecent, Recent
<1>7. /\ age[r] \in Int /\ Latency + CacheTtl - 1 + age[r] \in Int
      /\ age[r] <= Latency + CacheTtl - 1 + age[r]
  BY <1>1, Bounds
<1>8. Recent(claims[r], Latency + CacheTtl - 1 + age[r])
  BY <1>1, <1>7, Weaken, HistoryTypes DEF Recent
<1> QED BY <1>1, <1>6, <1>8, GotRecent DEF Set

\* Sign: the token starts with the age of what was got.
LEMMA SignStep ==
  ASSUME AccessInv, TypeOK', NEW r \in Calls, Sign(r)
  PROVE  TokensRecent' /\ CallRecent(r)'
<1>1. /\ TypeOK /\ claims[r] \in Claims /\ age[r] \in Nat /\ age[r] <= Latency
      /\ Recent(claims[r], Latency + CacheTtl - 1 + age[r]) /\ UNCHANGED <<grants, history>>
  BY Bounds DEF AccessInv, TypeOK, CallsRecent, CallRecent, Sign
<1>2. HistoryRestarted
  BY <1>1, HistoryTypes DEF HistoryRestarted, history, grants
<1>3. /\ TokenStale + 1 - AccessTtl \in Nat /\ Latency + CacheTtl - 1 + age[r] \in Int
      /\ Latency + CacheTtl - 1 + age[r] <= TokenStale + 1 - AccessTtl
  BY <1>1, Bounds
<1>4. Recent(claims[r], TokenStale + 1 - AccessTtl)
  BY <1>1, <1>3, Weaken, HistoryTypes DEF Recent
<1>5. RecentIn(claims[r], TokenStale + 1 - AccessTtl, roleGone', linkGone', quiet', Current')
  BY <1>1, <1>2, <1>3, <1>4, RecentRestarted
<1>6. TokensRecent'
  <2> SUFFICES ASSUME NEW t \in tokens'
               PROVE  RecentIn(t.claims, TokenStale + 1 - t.left, roleGone', linkGone', quiet', Current')
    BY DEF TokensRecent, Recent
  <2>1. CASE t \in tokens
    BY <1>2, <2>1, TokenKept
  <2>2. CASE t = [claims |-> claims[r], left |-> AccessTtl]
    BY <1>5, <2>2
  <2> QED BY <2>1, <2>2 DEF Sign
<1>7. pc'[r] = "idle"
  BY <1>1 DEF Sign, End, Goto, TypeOK
<1> QED BY <1>6, <1>7, PlaceRecent

\* Present, Pass: a token says what its signer said, aged by its life so far.
LEMMA RequestStep ==
  ASSUME AccessInv, TypeOK', NEW r \in Calls, Present(r) \/ Pass(r)
  PROVE  CallRecent(r)'
<1>1. /\ TypeOK /\ age[r] \in Nat /\ claims[r] \in Claims /\ UNCHANGED <<grants, history>>
  BY Bounds DEF AccessInv, TypeOK, Present, Pass
<1>2. HistoryRestarted
  BY <1>1, HistoryTypes DEF HistoryRestarted, history, grants
<1>3. TokenStale + age[r] \in Nat
  BY <1>1, Bounds
<1>4. CASE Present(r)
  <2>1. PICK t \in tokens : Arrive(r, "request", "isRevoked", t.claims)
    BY <1>4 DEF Present
  <2>2. t.claims \in Claims /\ t.left \in 1 .. AccessTtl
    BY <1>1, <2>1 DEF TypeOK
  <2>3. /\ TokenStale + 1 - t.left \in Int
        /\ TokenStale + 1 - t.left <= TokenStale + age[r]
    BY <1>1, <2>2, Bounds
  <2>4. Recent(t.claims, TokenStale + age[r])
    BY <1>1, <1>3, <2>2, <2>3, Weaken, HistoryTypes DEF Recent, AccessInv, TokensRecent
  <2>5. pc'[r] = "isRevoked" /\ claims'[r] = t.claims /\ age'[r] = age[r]
    BY <1>1, <2>1 DEF Arrive, Goto, TypeOK
  <2>6. RecentIn(t.claims, TokenStale + age'[r], roleGone', linkGone', quiet', Current')
    BY <1>1, <1>2, <1>3, <2>2, <2>4, <2>5, RecentRestarted
  <2> QED BY <2>5, <2>6 DEF CallRecent, Recent
<1>5. CASE Pass(r)
  <2>1. /\ pc'[r] = "handler" /\ claims'[r] = claims[r] /\ age'[r] = age[r]
        /\ Opens(claims'[r], route'[r])
    BY <1>1, <1>5 DEF Pass, Goto, TypeOK
  <2>2. Recent(claims[r], TokenStale + age[r])
    BY <1>5 DEF Pass, AccessInv, CallsRecent, CallRecent
  <2>3. RecentIn(claims[r], TokenStale + age'[r], roleGone', linkGone', quiet', Current')
    BY <1>1, <1>2, <1>3, <2>1, <2>2, RecentRestarted
  <2> QED BY <2>1, <2>3 DEF CallRecent, Recent
<1> QED BY <1>4, <1>5

\* A step of one call.
LEMMA CallStepKeeps ==
  ASSUME AccessInv, TypeOK', NEW r \in Calls, CallStep(r)
  PROVE  AccessInv'
<1>1. TypeOK /\ HeldNow
  BY DEF AccessInv
<1>2. HistoryRestarted
  <2>1. CASE UNCHANGED <<grants, history>>
    BY <1>1, <2>1, HistoryTypes DEF HistoryRestarted, history, grants
  <2>2. CASE AssignRole(r) \/ RevokeRole(r)
    <3>1. \A x \in Roles : roleGone'[x] <= roleGone[x]
      BY <1>1, <2>2, HistoryTypes DEF AssignRole, RevokeRole
    <3>2. \A l \in Links : linkGone'[l] <= linkGone[l]
      BY <1>1, <2>2, HistoryTypes DEF AssignRole, RevokeRole
    <3>3. quiet' = 0 \/ (quiet' = quiet /\ UNCHANGED grants)
      BY <2>2 DEF AssignRole, RevokeRole, Rewritten
    <3> QED BY <3>1, <3>2, <3>3 DEF HistoryRestarted
  <2> QED BY <2>1, <2>2 DEF CallStep, ArriveForAccess, GetAccess, FindRoles, FindPermissions,
                            Set, Sign, Present, Pass, Finish, InvalidateCache
<1>3. HeldNow'
  <2>1. CASE UNCHANGED <<grants, history>>
    BY <1>1, <2>1 DEF HeldNow, grants, history
  <2>2. CASE AssignRole(r) \/ RevokeRole(r)
    BY <1>1, <2>2 DEF HeldNow, AssignRole, RevokeRole, TypeOK
  <2> QED BY <2>1, <2>2 DEF CallStep, ArriveForAccess, GetAccess, FindRoles, FindPermissions,
                            Set, Sign, Present, Pass, Finish, InvalidateCache
<1>4. CacheRecent'
  <2>1. CASE Set(r)
    BY <2>1, SetStep
  <2>2. CASE ~Set(r)
    <3>1. cache' = cache \/ cache' = NoEntry
      BY <2>2 DEF CallStep, ArriveForAccess, GetAccess, FindRoles, FindPermissions, Sign,
                  Present, Pass, Finish, AssignRole, RevokeRole, InvalidateCache
    <3> QED BY <1>2, <3>1, CacheKept
  <2> QED BY <2>1, <2>2
<1>5. TokensRecent'
  <2>1. CASE Sign(r)
    BY <2>1, SignStep
  <2>2. CASE ~Sign(r)
    <3>1. tokens' = tokens
      BY <2>2 DEF CallStep, ArriveForAccess, GetAccess, FindRoles, FindPermissions, Set,
                  Present, Pass, Finish, AssignRole, RevokeRole, InvalidateCache
    <3> QED BY <1>2, <3>1, TokensKept
  <2> QED BY <2>1, <2>2
<1>6. CallRecent(r)'
  <2>1. CASE ArriveForAccess(r) \/ AssignRole(r) \/ RevokeRole(r) \/ InvalidateCache(r) \/ Finish(r)
    <3>1. pc'[r] \in {"idle", "invalidate", "get", "findRoles"}
      BY <1>1, <2>1 DEF ArriveForAccess, AssignRole, RevokeRole, InvalidateCache, Finish,
                        Arrive, Continue, End, Goto, TypeOK
    <3> QED BY <3>1, PlaceRecent
  <2>2. CASE GetAccess(r) \/ FindRoles(r) \/ FindPermissions(r)
    BY <2>2, AccessStep
  <2>3. CASE Set(r)
    BY <2>3, SetStep
  <2>4. CASE Sign(r)
    BY <2>4, SignStep
  <2>5. CASE Present(r) \/ Pass(r)
    BY <2>5, RequestStep
  <2> QED BY <2>1, <2>2, <2>3, <2>4, <2>5 DEF CallStep
<1>7. ASSUME NEW s \in Calls PROVE CallRecent(s)'
  BY <1>1, <1>2, <1>6, <1>7, OthersKept, CallKept
<1> QED BY <1>3, <1>4, <1>5, <1>7 DEF AccessInv, CallsRecent

\* A step of the clock: everything recent is a tick older.
LEMMA TickKeeps ==
  ASSUME AccessInv, TypeOK', Tick
  PROVE  AccessInv'
<1>1. TypeOK /\ HeldNow
  BY DEF AccessInv
<1>2. /\ roleGone \in [Roles -> Nat] /\ linkGone \in [Links -> Nat] /\ quiet \in Nat
      /\ roleGone' \in [Roles -> Nat] /\ linkGone' \in [Links -> Nat] /\ quiet' \in Nat
  BY <1>1, Bounds DEF TypeOK
<1>3. \A n \in Nat : Older(n) <= n + 1
  BY Bounds DEF Older
<1>4. /\ \A x \in Roles : roleGone'[x] <= roleGone[x] + 1
      /\ \A l \in Links : linkGone'[l] <= linkGone[l] + 1
      /\ quiet' <= quiet + 1
  BY <1>2, <1>3 DEF Tick
<1>5. Current' = Current /\ RolesNow' = RolesNow
  BY DEF Tick, grants, Current, RolesNow, CodesOf
<1>6. ASSUME NEW c \in Claims, NEW n \in Nat
      PROVE  /\ Recent(c, n) => RecentIn(c, n + 1, roleGone', linkGone', quiet', Current')
             /\ RolesRecent(c, n) => RecentIn(c, n + 1, roleGone', linkGone', quiet', RolesNow')
  BY <1>2, <1>4, <1>5, Ticked DEF Recent, RolesRecent
<1>7. HeldNow'
  BY <1>1 DEF HeldNow, Tick, TypeOK, grants
<1>8. CacheRecent'
  <2>1. CASE cache.left > 1
    <3>1. cache'.claims = cache.claims /\ cache'.left = cache.left - 1
      BY <1>1, <2>1 DEF Tick, Aged, TypeOK
    <3>2. /\ cache.claims \in Claims /\ Latency + CacheTtl - cache.left \in Nat
          /\ Latency + CacheTtl - cache'.left = Latency + CacheTtl - cache.left + 1
          /\ Recent(cache.claims, Latency + CacheTtl - cache.left)
      BY <1>1, <2>1, <3>1, Bounds DEF TypeOK, AccessInv, CacheRecent
    <3> QED BY <1>6, <3>1, <3>2 DEF CacheRecent, Recent
  <2>2. CASE ~(cache.left > 1)
    BY <2>2 DEF Tick, CacheRecent, NoEntry
  <2> QED BY <2>1, <2>2
<1>9. TokensRecent'
  <2> SUFFICES ASSUME NEW t \in tokens, t.left > 1
               PROVE  RecentIn(Aged(t).claims, TokenStale + 1 - Aged(t).left, roleGone', linkGone', quiet', Current')
    BY DEF TokensRecent, Recent, Tick
  <2>1. Aged(t).claims = t.claims /\ Aged(t).left = t.left - 1
    BY <1>1 DEF Aged, TypeOK
  <2>2. /\ t.claims \in Claims /\ TokenStale + 1 - t.left \in Nat
        /\ TokenStale + 1 - Aged(t).left = TokenStale + 1 - t.left + 1
        /\ Recent(t.claims, TokenStale + 1 - t.left)
    BY <1>1, <2>1, Bounds DEF TypeOK, AccessInv, TokensRecent
  <2> QED BY <1>6, <2>1, <2>2
<1>10. ASSUME NEW r \in Calls PROVE CallRecent(r)'
  <2>1. CASE pc[r] = "idle"
    BY <2>1, PlaceRecent DEF Tick
  <2>2. CASE pc[r] # "idle"
    <3>1. /\ CallRecent(r) /\ claims[r] \in Claims /\ age[r] \in Nat
          /\ pc'[r] = pc[r] /\ claims'[r] = claims[r] /\ route'[r] = route[r]
          /\ age'[r] = age[r] + 1
      BY <1>1, <2>2, Bounds DEF AccessInv, CallsRecent, TypeOK, Tick
    <3>2. /\ Latency + CacheTtl - 1 + age[r] \in Nat /\ TokenStale + age[r] \in Nat
          /\ Latency + CacheTtl - 1 + age'[r] = Latency + CacheTtl - 1 + age[r] + 1
          /\ TokenStale + age'[r] = TokenStale + age[r] + 1
      BY <3>1, Bounds
    <3>3. pc[r] = "findPermissions" =>
            RecentIn(claims'[r], age'[r], roleGone', linkGone', quiet', RolesNow') /\ claims'[r].codes = {}
      BY <1>6, <3>1 DEF CallRecent
    <3>4. pc[r] = "set" => RecentIn(claims'[r], age'[r], roleGone', linkGone', quiet', Current')
      BY <1>6, <3>1 DEF CallRecent
    <3>5. pc[r] = "sign" =>
            RecentIn(claims'[r], Latency + CacheTtl - 1 + age'[r], roleGone', linkGone', quiet', Current')
      BY <1>6, <3>1, <3>2 DEF CallRecent
    <3>6. pc[r] \in {"isRevoked", "handler"} =>
            RecentIn(claims'[r], TokenStale + age'[r], roleGone', linkGone', quiet', Current')
      BY <1>6, <3>1, <3>2 DEF CallRecent
    <3>7. pc[r] = "handler" => Opens(claims'[r], route'[r])
      BY <3>1 DEF CallRecent
    <3> QED BY <3>1, <3>3, <3>4, <3>5, <3>6, <3>7 DEF CallRecent, Recent, RolesRecent
  <2> QED BY <2>1, <2>2
<1> QED BY <1>7, <1>8, <1>9, <1>10 DEF AccessInv, CallsRecent

\* The invariant is inductive.
LEMMA AccessNext ==
  ASSUME AccessInv, [Next]_vars
  PROVE  AccessInv'
<1>1. TypeOK /\ TypeOK' /\ HeldNow
  BY AccessTypesNext DEF AccessInv
<1>2. CASE UNCHANGED vars
  <2>1. HistoryRestarted /\ HeldNow' /\ UNCHANGED <<cache, tokens, calls>>
    BY <1>1, <1>2, HistoryTypes DEF vars, grants, history, HistoryRestarted, HeldNow
  <2> QED BY <1>1, <2>1, CallKept, CacheKept, TokensKept DEF AccessInv, CallsRecent, calls
<1>3. CASE \E r \in Calls : CallStep(r)
  BY <1>1, <1>3, CallStepKeeps
<1>4. CASE GrantPermission \/ RevokePermission \/ DeleteRole
  <2>1. \A x \in Roles : roleGone'[x] <= roleGone[x]
    BY <1>1, <1>4, HistoryTypes DEF GrantPermission, RevokePermission, DeleteRole
  <2>2. \A l \in Links : linkGone'[l] <= linkGone[l]
    BY <1>1, <1>4, HistoryTypes DEF GrantPermission, RevokePermission, DeleteRole
  <2>3. quiet' = 0 \/ (quiet' = quiet /\ UNCHANGED grants)
    BY <1>4 DEF GrantPermission, RevokePermission, DeleteRole, Rewritten
  <2>4. HistoryRestarted
    BY <2>1, <2>2, <2>3 DEF HistoryRestarted
  <2>5. HeldNow'
    BY <1>1, <1>4 DEF HeldNow, TypeOK, GrantPermission, RevokePermission, DeleteRole
  <2>6. UNCHANGED <<cache, tokens, calls>>
    BY <1>4 DEF GrantPermission, RevokePermission, DeleteRole
  <2> QED BY <1>1, <2>4, <2>5, <2>6, CallKept, CacheKept, TokensKept DEF AccessInv, CallsRecent, calls
<1>5. CASE Restart
  <2>1. HistoryRestarted /\ HeldNow' /\ cache' = NoEntry /\ tokens' = tokens
    BY <1>1, <1>5, HistoryTypes DEF Restart, grants, history, HistoryRestarted, HeldNow
  <2>2. \A r \in Calls : CallRecent(r)'
    BY <1>5, PlaceRecent DEF Restart
  <2> QED BY <1>1, <2>1, <2>2, CacheKept, TokensKept DEF AccessInv, CallsRecent
<1>6. CASE Tick
  BY <1>1, <1>6, TickKeeps
<1> QED BY <1>2, <1>3, <1>4, <1>5, <1>6 DEF Next

\* The invariant holds in every reachable state.
THEOREM AccessInductive == Spec => []AccessInv
<1>1. Init => AccessInv
  BY InitAccess
<1>2. AccessInv /\ [Next]_vars => AccessInv'
  BY AccessNext
<1> QED BY <1>1, <1>2, PTL DEF Spec

\* The guards are monotone: who holds more is let through at least as far.
LEMMA GuardsMonotone ==
  ASSUME NEW less, NEW more, NEW required,
         less.roles \subseteq more.roles, less.codes \subseteq more.codes,
         Opens(less, required)
  PROVE  Opens(more, required)
BY DEF Opens, RolesGuard, PermissionsGuard, HasSuperRole

\* RolesGuard, PermissionsGuard: what was taken away opens no route any more
\* once HandlerStale ticks are over.
THEOREM AccessOpened == Spec => []OpenedByWhatWasHeld
<1>1. AccessInv => OpenedByWhatWasHeld
  <2> SUFFICES ASSUME AccessInv, NEW r \in Calls, pc[r] = "handler"
               PROVE  Opens(HeldWithin(HandlerStale), route[r])
    BY DEF OpenedByWhatWasHeld
  <2>1. /\ Recent(claims[r], TokenStale + age[r]) /\ Opens(claims[r], route[r]) /\ TypeOK
        /\ claims[r] \in Claims
    BY DEF AccessInv, CallsRecent, CallRecent, TypeOK
  <2>2. /\ TokenStale + age[r] \in Int /\ HandlerStale \in Int
        /\ TokenStale + age[r] <= HandlerStale
    BY <2>1, Bounds DEF TypeOK
  <2>3. Recent(claims[r], HandlerStale)
    BY <2>1, <2>2, Weaken, HistoryTypes DEF Recent
  <2>4. claims[r].roles \subseteq HeldWithin(HandlerStale).roles
    BY <2>1, <2>3 DEF Recent, RecentIn, HeldWithin, Claims
  <2>5. claims[r].codes \subseteq HeldWithin(HandlerStale).codes
    BY <2>1, <2>3 DEF Recent, RecentIn, HeldWithin, Claims
  <2> QED BY <2>1, <2>4, <2>5, GuardsMonotone
<1> QED BY <1>1, AccessInductive, PTL

\* generateTokenPair, getUserAccess: once the grants have rested for
\* TokenStale ticks, every token says what the database says.
THEOREM AccessCatchesUp == Spec => []TokensCatchUp
<1>1. AccessInv => TokensCatchUp
  <2> SUFFICES ASSUME AccessInv, quiet > TokenStale, NEW t \in tokens
               PROVE  t.claims = Current
    BY DEF TokensCatchUp
  <2>1. Recent(t.claims, TokenStale + 1 - t.left) /\ t.left \in 1 .. AccessTtl /\ quiet \in Nat
    BY HistoryTypes DEF AccessInv, TokensRecent, TypeOK
  <2>2. quiet > TokenStale + 1 - t.left
    BY <2>1, Bounds
  <2> QED BY <2>1, <2>2 DEF Recent, RecentIn
<1> QED BY <1>1, AccessInductive, PTL

-----------------------------------------------------------------------------
(***************************************************************************)
(* Throttler, for any requests, window, limit, block and clock.            *)
(***************************************************************************)

\* Of two sets of requests the smaller one has no larger cardinality.
LEMMA Fewer ==
  ASSUME NEW S \in SUBSET Requests, NEW T \in SUBSET S
  PROVE  /\ Cardinality(T) <= Cardinality(S)
         /\ Cardinality(S) \in Nat /\ Cardinality(T) \in Nat
<1>1. IsFiniteSet(S) /\ IsFiniteSet(T)
  BY ThrottlerAssumption, FS_Subset
<1> QED BY <1>1, FS_Subset, FS_CardinalityType

\* A step after which no window has other requests keeps FitWithin.
LEMMA FitShrinks ==
  ASSUME FitWithin,
         \A t \in 0..MaxTime : Within(Fit, t)' \subseteq Within(Fit, t)
  PROVE  FitWithin'
<1> SUFFICES ASSUME NEW t \in 0..MaxTime
             PROVE  Cardinality(Within(Fit, t)') <= Limit
  BY DEF FitWithin, Within
<1>1. Within(Fit, t) \in SUBSET Requests
  BY DEF Within, Fit, Counted
<1>2. Cardinality(Within(Fit, t)') <= Cardinality(Within(Fit, t))
  BY <1>1, Fewer
<1>3. /\ Cardinality(Within(Fit, t)) \in Nat /\ Cardinality(Within(Fit, t)') \in Nat
      /\ Limit \in Nat
  BY <1>1, Fewer, ThrottlerAssumption
<1> QED BY <1>2, <1>3 DEF FitWithin

\* Nothing has been counted at first.
LEMMA InitThrottler == ThrottlerInit => ThrottlerInv
<1> SUFFICES ASSUME ThrottlerInit
             PROVE  ThrottlerInv
  OBVIOUS
<1>1. ThrottlerTypeOK /\ HitsKept /\ OverBlocked
  BY ThrottlerAssumption DEF ThrottlerInit, ThrottlerTypeOK, Request, NoRequest, HitsKept,
     Counted, OverBlocked
<1>2. \A t \in 0..MaxTime : Within(Fit, t) = {}
  BY DEF ThrottlerInit, NoRequest, Fit, Counted, Within
<1>3. FitWithin
  BY <1>2, FS_EmptySet, ThrottlerAssumption DEF FitWithin
<1> QED BY <1>1, <1>3 DEF ThrottlerInv

\* Whoever is counted now and is young enough for the window of a request
\* that has read its clock is found in that window.
LEMMA KeptInWindow ==
  ASSUME ThrottlerTypeOK, HitsKept, NEW r \in Requests, NEW g \in Counted,
         req[g].at > clock - Ttl
  PROVE  g \in Window(req[r].at)
<1>1. req[r].at \in Nat /\ req[g].at \in Nat /\ req[r].at <= clock
  BY DEF ThrottlerTypeOK, Request, HitsKept, Counted
<1>2. clock \in Nat /\ Ttl \in Nat /\ hitsUntil \in Nat
  BY ThrottlerAssumption DEF ThrottlerTypeOK
<1>3. g \in hits /\ req[g].at + Ttl <= hitsUntil
  BY DEF HitsKept
<1>4. clock < hitsUntil /\ req[g].at > req[r].at - Ttl
  BY <1>1, <1>2, <1>3
<1> QED BY <1>3, <1>4 DEF Window, Live

\* The transaction on the window: what it keeps is no more than it counts,
\* and holds every request that the windows to come can still contain.
LEMMA MultiThrottler ==
  ASSUME ThrottlerInv, NEW r \in Requests, Multi(r)
  PROVE  ThrottlerInv'
<1> USE ThrottlerAssumption
<1> DEFINE kept == Window(req[r].at) \cup {r}
           total == Cardinality(kept)
<1>1. /\ req[r].pc = "multi"
      /\ hits' = kept
      /\ hitsUntil' = clock + Ttl
      /\ req' = [req EXCEPT ![r].pc = AfterMulti(total), ![r].total = total,
                            ![r].prompt = (clock = req[r].at)]
      /\ UNCHANGED <<clock, blockUntil>>
  BY DEF Multi
<1>2. kept \in SUBSET Requests
  BY DEF ThrottlerInv, ThrottlerTypeOK, Window, Live
<1>3. total \in Nat
  BY <1>2, Fewer
<1> HIDE DEF kept, total
<1>4. /\ clock \in Nat /\ Ttl \in Nat /\ hitsUntil \in Nat /\ hitsUntil <= clock + Ttl
      /\ req \in [Requests -> Request]
  BY DEF ThrottlerInv, ThrottlerTypeOK
<1>5. AfterMulti(total) \in {"set", "pttl", "passed", "refused"}
  BY DEF AfterMulti
<1>6. PICK p \in BOOLEAN : p = (clock = req[r].at)
  OBVIOUS
<1>7. req' \in [Requests -> Request]
  <2>1. req' = [req EXCEPT ![r].pc = AfterMulti(total), ![r].total = total, ![r].prompt = p]
    BY <1>1, <1>6
  <2>2. [req[r] EXCEPT !.pc = AfterMulti(total), !.total = total, !.prompt = p] \in Request
    BY <1>3, <1>4, <1>5, <1>6 DEF Request
  <2> QED BY <2>1, <2>2, <1>4
<1>8. ThrottlerTypeOK'
  BY <1>1, <1>2, <1>4, <1>7 DEF ThrottlerTypeOK, ThrottlerInv
<1>9. /\ \A g \in Requests \ {r} : req'[g] = req[g]
      /\ req'[r].pc = AfterMulti(total) /\ req'[r].total = total /\ req'[r].at = req[r].at
      /\ req'[r].lapsed = req[r].lapsed
      /\ req'[r].prompt => clock = req[r].at
  BY <1>1, <1>4 DEF Request
<1>10. \A g \in Counted : req[g].at > clock - Ttl => g \in hits'
  BY <1>1, KeptInWindow DEF ThrottlerInv, kept
<1>11. r \in hits'
  BY <1>1 DEF kept
<1>12. \A g \in Requests : req'[g].at = req[g].at /\ req[g].at \in Nat /\ req[g].at <= clock
  BY <1>4, <1>9 DEF Request, ThrottlerInv, HitsKept
<1>13. Counted' \subseteq Counted \cup {r}
  BY <1>9 DEF Counted
<1>14. HitsKept'
  BY <1>1, <1>4, <1>10, <1>11, <1>12, <1>13 DEF HitsKept, Counted
<1>15. OverBlocked'
  <2>1. AfterMulti(total) = "set" => BlockFor > 0 /\ total > Limit
    BY <1>3 DEF AfterMulti
  <2>2. AfterMulti(total) \in {"pttl", "passed"} => ~(total > Limit)
    BY <1>3 DEF AfterMulti
  <2> QED BY <1>1, <1>9, <2>1, <2>2 DEF ThrottlerInv, OverBlocked
<1>16. FitWithin'
  <2>1. CASE r \notin Fit'
    <3>1. \A t \in 0..MaxTime : Within(Fit, t)' \subseteq Within(Fit, t)
      BY <1>9, <1>12, <1>13, <2>1 DEF Within, Fit, Counted
    <3> QED BY <3>1, FitShrinks DEF ThrottlerInv
  <2>2. CASE r \in Fit'
    <3>1. clock = req[r].at /\ total <= Limit
      BY <1>9, <2>2 DEF Fit
    <3>2. Fit' \subseteq Fit \cup {r}
      BY <1>9, <1>13 DEF Fit, Counted
    <3> SUFFICES ASSUME NEW t \in 0..MaxTime
                 PROVE  Cardinality(Within(Fit, t)') <= Limit
      BY DEF FitWithin, Within
    <3>3. CASE t < clock
      <4>1. Within(Fit, t)' \in SUBSET Within(Fit, t)
        <5>1. \A g \in Within(Fit, t)' : g \in Fit \cup {r} /\ t - Ttl < req[g].at /\ req[g].at <= t
          BY <3>2, <1>12 DEF Within, Fit, Counted
        <5>2. r \notin Within(Fit, t)'
          BY <5>1, <3>1, <3>3, <1>4, <1>12
        <5> QED BY <5>1, <5>2 DEF Within
      <4>2. Within(Fit, t) \in SUBSET Requests
        BY DEF Within, Fit, Counted
      <4>3. Cardinality(Within(Fit, t)) <= Limit
        BY DEF ThrottlerInv, FitWithin
      <4>4. Cardinality(Within(Fit, t)') <= Cardinality(Within(Fit, t))
        BY <4>1, <4>2, Fewer
      <4>5. Cardinality(Within(Fit, t)) \in Nat /\ Cardinality(Within(Fit, t)') \in Nat
        BY <4>1, <4>2, Fewer
      <4> QED BY <4>3, <4>4, <4>5
    <3>4. CASE clock <= t
      <4>1. \A g \in Within(Fit, t)' : g \in Counted \cup {r} /\ req[g].at > clock - Ttl
        BY <3>2, <3>4, <1>4, <1>11, <1>12 DEF Within, Fit, Counted
      <4>2. Within(Fit, t)' \in SUBSET hits'
        BY <4>1, <1>10, <1>11
      <4>3. /\ Cardinality(Within(Fit, t)') <= total
            /\ Cardinality(Within(Fit, t)') \in Nat
        BY <4>2, <1>1, <1>2, Fewer DEF total
      <4> QED BY <4>3, <3>1, <1>3
    <3> QED BY <3>3, <3>4, <1>4
  <2> QED BY <2>1, <2>2
<1> QED BY <1>8, <1>14, <1>15, <1>16 DEF ThrottlerInv

\* The clock ticks: hits only grow older, and a block that expires is noted
\* in those that are about to ask for it.
LEMMA TickThrottler ==
  ASSUME ThrottlerInv, ClockTick
  PROVE  ThrottlerInv'
<1> USE ThrottlerAssumption
<1>1. /\ clock' = clock + 1 /\ clock \in Nat /\ clock < MaxTime
      /\ UNCHANGED <<hits, hitsUntil, blockUntil>>
      /\ blockUntil \in Nat /\ hitsUntil \in Nat /\ hits \subseteq Requests
      /\ hitsUntil <= clock + Ttl /\ blockUntil <= clock + BlockFor
      /\ req \in [Requests -> Request]
  BY DEF ClockTick, ThrottlerInv, ThrottlerTypeOK
<1>2. req' \in [Requests -> Request]
  BY <1>1 DEF ClockTick, Request
<1>3. ThrottlerTypeOK'
  BY <1>1, <1>2 DEF ThrottlerTypeOK
<1>4. \A r \in Requests :
        /\ req'[r].pc = req[r].pc /\ req'[r].at = req[r].at /\ req'[r].total = req[r].total
        /\ req'[r].prompt = req[r].prompt
        /\ req[r].lapsed => req'[r].lapsed
        /\ req[r].pc = "pttl" /\ blockUntil = clock + 1 => req'[r].lapsed
  BY <1>1 DEF ClockTick, Request
<1>5. Counted' = Counted /\ Fit' = Fit
  BY <1>4 DEF Counted, Fit
<1>6. \A r \in Requests : req[r].at \in Nat
  BY <1>1 DEF Request
<1>7. HitsKept'
  BY <1>1, <1>4, <1>5, <1>6 DEF HitsKept, Counted, ThrottlerInv
<1>8. OverBlocked'
  <2> SUFFICES ASSUME NEW r \in Requests
               PROVE  /\ req'[r].pc = "set" => BlockFor > 0 /\ req'[r].total > Limit
                      /\ req'[r].pc = "pttl" /\ req'[r].total > Limit
                            => req'[r].lapsed \/ clock' < blockUntil'
                      /\ req'[r].pc = "passed" /\ req'[r].total > Limit => req'[r].lapsed
    BY DEF OverBlocked
  <2> QED BY <1>1, <1>4 DEF ThrottlerInv, OverBlocked
<1>9. \A t \in 0..MaxTime : Within(Fit, t)' \subseteq Within(Fit, t)
  BY <1>4, <1>5 DEF Within, Fit, Counted
<1> QED BY <1>3, <1>7, <1>8, <1>9, FitShrinks DEF ThrottlerInv

\* Redis runs a call it does not answer: the window keeps whom the others
\* count on, and a block that lives is left as it is.
LEMMA UnansweredThrottler ==
  ASSUME ThrottlerInv, NEW r \in Requests, Unanswered(r)
  PROVE  ThrottlerInv'
<1> USE ThrottlerAssumption
<1>1. /\ UNCHANGED <<clock, req>>
      /\ clock \in Nat /\ Ttl \in Nat /\ hitsUntil \in Nat /\ hitsUntil <= clock + Ttl
      /\ blockUntil \in Nat /\ blockUntil <= clock + BlockFor
      /\ hits \subseteq Requests
  BY DEF Unanswered, ThrottlerInv, ThrottlerTypeOK
<1>2. /\ hitsUntil <= hitsUntil' /\ hitsUntil' \in Nat /\ hitsUntil' <= clock + Ttl
      /\ blockUntil <= blockUntil' /\ blockUntil' \in Nat /\ blockUntil' <= clock + BlockFor
  BY <1>1 DEF Unanswered, BeginBlock
<1>3. hits' \subseteq Requests
  BY <1>1 DEF Unanswered, Window, Live
<1>4. ThrottlerTypeOK'
  BY <1>1, <1>2, <1>3 DEF ThrottlerTypeOK, ThrottlerInv
<1>5. \A g \in Counted : req[g].at > clock - Ttl => g \in hits'
  BY KeptInWindow DEF Unanswered, ThrottlerInv, HitsKept
<1>6. /\ Counted' = Counted
      /\ \A g \in Requests : req[g].at \in Nat
  BY <1>1 DEF Counted, ThrottlerInv, ThrottlerTypeOK, Request
<1>7. HitsKept'
  BY <1>1, <1>2, <1>5, <1>6 DEF HitsKept, ThrottlerInv, Counted
<1>8. OverBlocked'
  BY <1>1, <1>2 DEF OverBlocked, ThrottlerInv
<1>9. \A t \in 0..MaxTime : Within(Fit, t)' \subseteq Within(Fit, t)
  BY <1>1 DEF Within, Fit, Counted
<1> QED BY <1>4, <1>7, <1>8, <1>9, FitShrinks DEF ThrottlerInv

\* A request moves on without touching the window.
LEMMA MoveThrottler ==
  ASSUME ThrottlerInv, NEW r \in Requests,
         Increment(r) \/ SetBlock(r) \/ Pttl(r) \/ CallFails(r)
  PROVE  ThrottlerInv'
<1> USE ThrottlerAssumption
<1>1. /\ UNCHANGED <<clock, hits, hitsUntil>>
      /\ \A g \in Requests \ {r} : req'[g] = req[g]
      /\ req'[r].total = req[r].total /\ req'[r].lapsed = req[r].lapsed
      /\ req'[r].prompt = req[r].prompt
      /\ req' \in [Requests -> Request]
      /\ req'[r].at \in {req[r].at, clock}
      /\ req'[r].pc \in {"set", "pttl", "passed"} =>
            req[r].pc \in {"set", "pttl", "passed"} /\ req'[r].at = req[r].at
  BY DEF Increment, SetBlock, Pttl, CallFails, ThrottlerInv, ThrottlerTypeOK, Request
<1>2. /\ blockUntil' \in Nat /\ blockUntil' <= clock + BlockFor
      /\ blockUntil <= blockUntil' /\ clock \in Nat /\ blockUntil \in Nat
  BY DEF Increment, SetBlock, BeginBlock, Pttl, CallFails, ThrottlerInv, ThrottlerTypeOK
<1>3. ThrottlerTypeOK'
  BY <1>1, <1>2 DEF ThrottlerTypeOK, ThrottlerInv
<1>4. HitsKept'
  BY <1>1, <1>2 DEF HitsKept, Counted, ThrottlerInv
<1>5. /\ req'[r].pc # "set"
      /\ req'[r].pc = "pttl" /\ req'[r].total > Limit => req'[r].lapsed \/ clock' < blockUntil'
      /\ req'[r].pc = "passed" /\ req'[r].total > Limit => req'[r].lapsed
  BY <1>1, <1>2 DEF Increment, SetBlock, BeginBlock, Pttl, CallFails, ThrottlerInv,
     ThrottlerTypeOK, Request, OverBlocked
<1>6. OverBlocked'
  BY <1>1, <1>2, <1>5 DEF OverBlocked, ThrottlerInv
<1>7. req'[r].pc \in {"pttl", "passed"} /\ req'[r].total <= Limit => req[r].pc # "set"
  BY <1>1, <1>2 DEF ThrottlerInv, OverBlocked, ThrottlerTypeOK, Request
<1>8. \A t \in 0..MaxTime : Within(Fit, t)' \subseteq Within(Fit, t)
  BY <1>1, <1>7 DEF Within, Fit, Counted
<1> QED BY <1>3, <1>4, <1>6, <1>8, FitShrinks DEF ThrottlerInv

\* Every step keeps the inductive invariant.
LEMMA NextThrottler == ThrottlerInv /\ [ThrottlerNext]_throttlerVars => ThrottlerInv'
<1> SUFFICES ASSUME ThrottlerInv, [ThrottlerNext]_throttlerVars
             PROVE  ThrottlerInv'
  OBVIOUS
<1>1. CASE UNCHANGED throttlerVars
  BY <1>1 DEF throttlerVars, ThrottlerInv, ThrottlerTypeOK, HitsKept, Counted, OverBlocked,
     FitWithin, Fit, Within
<1> QED BY <1>1, MultiThrottler, TickThrottler, UnansweredThrottler, MoveThrottler DEF ThrottlerNext

\* Those that have passed in time are among the fit ones.
LEMMA InvWithinLimit == ThrottlerInv => WithinLimit
<1> SUFFICES ASSUME ThrottlerInv, NEW t \in 0..MaxTime
             PROVE  Cardinality(Within(InTime, t)) <= Limit
  BY DEF WithinLimit
<1>1. Within(InTime, t) \in SUBSET Within(Fit, t)
  BY ThrottlerAssumption
     DEF Within, InTime, Passed, Fit, Counted, ThrottlerInv, OverBlocked, ThrottlerTypeOK, Request
<1>2. Within(Fit, t) \in SUBSET Requests
  BY DEF Within, Fit, Counted
<1>3. /\ Cardinality(Within(InTime, t)) <= Cardinality(Within(Fit, t))
      /\ Cardinality(Within(Fit, t)) \in Nat /\ Cardinality(Within(InTime, t)) \in Nat
  BY <1>1, <1>2, Fewer
<1>4. Cardinality(Within(Fit, t)) <= Limit /\ Limit \in Nat
  BY ThrottlerAssumption DEF ThrottlerInv, FitWithin
<1> QED BY <1>3, <1>4

\* The keys and records of the throttler are what increment expects.
THEOREM ThrottlerTypes == ThrottlerSpec => []ThrottlerTypeOK
<1>1. ThrottlerInv => ThrottlerTypeOK
  BY DEF ThrottlerInv
<1> QED BY <1>1, InitThrottler, NextThrottler, PTL DEF ThrottlerSpec

\* However many requests and instances, and whatever ttl, limit and block:
\* of those counted in time, with no block expiring under them, increment
\* lets at most limit through in any window.
THEOREM ThrottlerWithinLimit == ThrottlerSpec => []WithinLimit
BY InitThrottler, NextThrottler, InvWithinLimit, PTL DEF ThrottlerSpec

(***************************************************************************)
(* The other direction: a request that is refused was preceded by one that *)
(* really exceeded the limit.                                              *)
(***************************************************************************)

(* A block was begun, and a refusal given, by a request over the limit;    *)
(* what such a request counted in time was sent within its window.         *)
OverCounted ==
  /\ blockUntil > 0 \/ (\E r \in Requests : req[r].pc = "refused") =>
       \E g \in Requests : req[g].total > Limit
  /\ hits \subseteq Sent
  /\ \A g \in Requests :
       /\ req[g].pc \in {"idle", "multi"} => req[g].total = 0
       /\ req[g].total > Limit /\ req[g].prompt => Cardinality(Within(Sent, req[g].at)) > Limit

\* Requests stay sent, with the score they have.
LEMMA SentStays ==
  ASSUME ThrottlerTypeOK, ThrottlerNext
  PROVE  /\ Sent \subseteq Sent'
         /\ \A g \in Sent : req'[g].at = req[g].at
<1>1. CASE ClockTick
  BY <1>1 DEF ClockTick, ThrottlerTypeOK, Request, Sent
<1>2. ASSUME NEW r \in Requests,
             Increment(r) \/ Multi(r) \/ SetBlock(r) \/ Pttl(r) \/ Unanswered(r) \/ CallFails(r)
      PROVE  /\ Sent \subseteq Sent'
             /\ \A g \in Sent : req'[g].at = req[g].at
  <2>1. /\ \A g \in Requests \ {r} : req'[g] = req[g]
        /\ req'[r].pc # "idle" \/ req[r].pc = "idle"
        /\ req[r].pc # "idle" => req'[r].at = req[r].at
    BY <1>2 DEF Increment, Multi, AfterMulti, SetBlock, Pttl, Unanswered, CallFails,
       ThrottlerTypeOK, Request
  <2> QED BY <2>1 DEF Sent
<1> QED BY <1>1, <1>2 DEF ThrottlerNext

\* A window that was exceeded stays exceeded.
LEMMA WindowStays ==
  ASSUME ThrottlerTypeOK, ThrottlerNext, NEW t \in Nat, Cardinality(Within(Sent, t)) > Limit
  PROVE  Cardinality(Within(Sent, t)') > Limit
<1>1. Within(Sent, t) \in SUBSET (Within(Sent, t)')
  BY SentStays DEF Within
<1>2. Within(Sent, t)' \in SUBSET Requests
  BY DEF Within, Sent
<1> QED BY <1>1, <1>2, Fewer, ThrottlerAssumption

\* Steps that count nothing keep what is known of those over the limit.
LEMMA QuietOver ==
  ASSUME ThrottlerInv, OverCounted, ThrottlerNext,
         hits' \subseteq Sent',
         \A g \in Requests :
           /\ req'[g].total = req[g].total /\ req'[g].prompt = req[g].prompt
           /\ req'[g].pc \in {"idle", "multi"} => req[g].pc \in {"idle", "multi"},
         \/ blockUntil' > 0 \/ (\E r \in Requests : req'[r].pc = "refused")
         => \E g \in Requests : req[g].total > Limit
  PROVE  OverCounted'
<1>1. \A g \in Requests : req[g].at \in Nat /\ req[g].total \in Nat
  BY DEF ThrottlerInv, ThrottlerTypeOK, Request
<1>2. ASSUME NEW g \in Requests, req[g].total > Limit
      PROVE  g \in Sent
  <2>1. req[g].pc = "idle" => req[g].total = 0
    BY DEF OverCounted
  <2> QED BY <1>1, <1>2, <2>1, ThrottlerAssumption DEF Sent
<1>3. ASSUME NEW g \in Requests, req'[g].total > Limit, req'[g].prompt
      PROVE  Cardinality(Within(Sent, req[g].at)') > Limit
  <2>1. PICK t \in Nat : t = req[g].at
    BY <1>1
  <2>2. req'[g].at = t
    BY <1>2, <1>3, <2>1, SentStays DEF ThrottlerInv
  <2>3. Cardinality(Within(Sent, t)) > Limit
    BY <1>3, <2>1 DEF OverCounted
  <2>4. Cardinality(Within(Sent, t)') > Limit
    BY <2>3, WindowStays DEF ThrottlerInv
  <2> QED BY <2>2, <2>4 DEF Within
<1>4. \A g \in Requests : req'[g].pc \in {"idle", "multi"} => req'[g].total = 0
  BY DEF OverCounted
<1>5. \/ blockUntil' > 0 \/ (\E r \in Requests : req'[r].pc = "refused")
      => \E g \in Requests : req'[g].total > Limit
  OBVIOUS
<1> QED BY <1>3, <1>4, <1>5 DEF OverCounted

\* The transaction counts no more than was sent within its window, if its
\* hit is counted in time: the hits it keeps are older than the clock.
LEMMA MultiOver ==
  ASSUME ThrottlerInv, OverCounted, NEW r \in Requests, Multi(r)
  PROVE  OverCounted'
<1> USE ThrottlerAssumption
<1> DEFINE kept == Window(req[r].at) \cup {r}
           total == Cardinality(kept)
<1>1. /\ req[r].pc = "multi" /\ clock' = clock /\ blockUntil' = blockUntil
      /\ hits' = kept
      /\ req' = [req EXCEPT ![r].pc = AfterMulti(total), ![r].total = total,
                            ![r].prompt = (clock = req[r].at)]
  BY DEF Multi
<1>2. kept \in SUBSET Requests
  BY DEF ThrottlerInv, ThrottlerTypeOK, Window, Live
<1>3. total \in Nat
  BY <1>2, Fewer
<1>4. /\ req \in [Requests -> Request] /\ clock \in Nat /\ Ttl \in Nat
      /\ \A g \in Requests : req[g].at \in Nat /\ req[g].total \in Nat /\ req[g].at <= clock
  BY DEF ThrottlerInv, ThrottlerTypeOK, HitsKept, Request
<1>5. \A g \in kept : g \in Sent /\ (g # r => req[g].at > req[r].at - Ttl)
  BY <1>1 DEF Sent, Window, Live, OverCounted
<1> HIDE DEF kept, total
<1>6. /\ AfterMulti(total) \in {"set", "pttl", "passed", "refused"}
      /\ AfterMulti(total) = "refused" => total > Limit
  BY <1>3 DEF AfterMulti
<1>7. /\ \A g \in Requests \ {r} : req'[g] = req[g]
      /\ req'[r].pc = AfterMulti(total) /\ req'[r].total = total /\ req'[r].at = req[r].at
      /\ req'[r].prompt => clock = req[r].at
  BY <1>1, <1>4 DEF Request
<1>8. ThrottlerNext
  BY DEF ThrottlerNext
<1>9. hits' \subseteq Sent'
  BY <1>1, <1>5, <1>8, SentStays DEF ThrottlerInv
<1>10. blockUntil' > 0 \/ (\E g \in Requests : req'[g].pc = "refused")
       => \E g \in Requests : req'[g].total > Limit
  <2>1. CASE req'[r].pc = "refused"
    BY <2>1, <1>6, <1>7
  <2>2. CASE req'[r].pc # "refused"
    <3>1. blockUntil' > 0 \/ (\E g \in Requests : req'[g].pc = "refused")
          => \E g \in Requests \ {r} : req[g].total > Limit
      <4>1. req[r].total = 0
        BY <1>1 DEF OverCounted
      <4>2. blockUntil' > 0 \/ (\E g \in Requests : req'[g].pc = "refused")
            => \E g \in Requests : req[g].total > Limit
        BY <1>1, <1>7, <2>2 DEF OverCounted
      <4> QED BY <4>1, <4>2
    <3> QED BY <3>1, <1>7
  <2> QED BY <2>1, <2>2
<1>11. \A g \in Requests : req'[g].pc \in {"idle", "multi"} => req'[g].total = 0
  BY <1>6, <1>7 DEF OverCounted
<1>12. ASSUME NEW g \in Requests, req'[g].total > Limit, req'[g].prompt
       PROVE  Cardinality(Within(Sent, req[g].at)') > Limit
  <2>1. CASE g = r
    <3>1. clock = req[r].at /\ total > Limit
      BY <2>1, <1>7, <1>12
    <3>2. \A h \in kept : req[h].at <= req[r].at /\ req[r].at - Ttl < req[h].at
      BY <3>1, <1>2, <1>4, <1>5
    <3>3. \A h \in Requests : req'[h].at = req[h].at
      BY <1>7
    <3>4. kept \in SUBSET (Within(Sent, req[r].at)')
      BY <1>1, <1>2, <1>9, <3>2, <3>3 DEF Within
    <3>5. Within(Sent, req[r].at)' \in SUBSET Requests
      BY DEF Within, Sent
    <3>6. total <= Cardinality(Within(Sent, req[r].at)')
          /\ Cardinality(Within(Sent, req[r].at)') \in Nat
      BY <3>4, <3>5, Fewer DEF total
    <3> QED BY <2>1, <3>1, <3>6, <1>3
  <2>2. CASE g # r
    <3>1. PICK t \in Nat : t = req[g].at
      BY <1>4
    <3>2. Cardinality(Within(Sent, t)) > Limit
      BY <2>2, <3>1, <1>7, <1>12 DEF OverCounted
    <3>3. Cardinality(Within(Sent, t)') > Limit
      BY <3>2, <1>8, WindowStays DEF ThrottlerInv
    <3>4. req'[g].at = t
      BY <2>2, <3>1, <1>7
    <3> QED BY <3>3, <3>4 DEF Within
  <2> QED BY <2>1, <2>2
<1> QED BY <1>9, <1>10, <1>11, <1>12 DEF OverCounted

\* No other step counts; a block begins for a request over the limit, and a
\* refusal finds a block.
LEMMA OtherOver ==
  ASSUME ThrottlerInv, OverCounted, ThrottlerNext, ~\E r \in Requests : Multi(r)
  PROVE  OverCounted'
<1> USE ThrottlerAssumption
<1>1. req \in [Requests -> Request] /\ clock \in Nat /\ blockUntil \in Nat
  BY DEF ThrottlerInv, ThrottlerTypeOK
<1>2. CASE ClockTick
  <2>1. /\ UNCHANGED <<hits, blockUntil>>
        /\ \A g \in Requests : req'[g].total = req[g].total
                                /\ req'[g].prompt = req[g].prompt /\ req'[g].pc = req[g].pc
    BY <1>1, <1>2 DEF ClockTick, Request
  <2>2. hits' \subseteq Sent'
    BY <2>1 DEF OverCounted, Sent
  <2>3. blockUntil' > 0 \/ (\E r \in Requests : req'[r].pc = "refused")
        => \E g \in Requests : req[g].total > Limit
    BY <2>1 DEF OverCounted
  <2> QED BY <2>1, <2>2, <2>3, QuietOver
<1>3. ASSUME NEW r \in Requests,
             Increment(r) \/ SetBlock(r) \/ Pttl(r) \/ Unanswered(r) \/ CallFails(r)
      PROVE  OverCounted'
  <2>1. /\ \A g \in Requests \ {r} : req'[g] = req[g]
        /\ req'[r].total = req[r].total /\ req'[r].prompt = req[r].prompt
        /\ req'[r].pc \in {"idle", "multi"} => req[r].pc \in {"idle", "multi"}
    BY <1>1, <1>3 DEF Increment, SetBlock, Pttl, Unanswered, CallFails, Request
  <2>2. hits' \subseteq Sent'
    <3>1. hits' \subseteq Sent
      BY <1>3 DEF Increment, SetBlock, Pttl, Unanswered, CallFails, Window, Live, OverCounted, Sent
    <3> QED BY <3>1, SentStays DEF ThrottlerInv
  <2>3. req[r].pc = "set" => req[r].total > Limit
    BY DEF ThrottlerInv, OverBlocked
  <2>4. \/ blockUntil' = blockUntil
        \/ req[r].pc = "set"
    BY <1>3 DEF Increment, SetBlock, Pttl, Unanswered, CallFails
  <2>5. req'[r].pc = "refused" => blockUntil > 0 \/ req[r].pc = "refused"
    BY <1>1, <1>3 DEF Increment, SetBlock, Pttl, Unanswered, CallFails, Request
  <2>6. blockUntil' > 0 \/ (\E g \in Requests : req'[g].pc = "refused")
        => \E g \in Requests : req[g].total > Limit
    BY <2>1, <2>3, <2>4, <2>5 DEF OverCounted
  <2> QED BY <2>1, <2>2, <2>6, QuietOver
<1> QED BY <1>2, <1>3 DEF ThrottlerNext

\* Every step keeps what is known of those over the limit.
LEMMA NextOver == ThrottlerInv /\ OverCounted /\ [ThrottlerNext]_throttlerVars => OverCounted'
<1>1. CASE UNCHANGED throttlerVars
  BY <1>1 DEF throttlerVars, OverCounted, Sent, Within
<1> QED BY <1>1, MultiOver, OtherOver

\* Nothing is refused at first.
LEMMA InitOver == ThrottlerInit => OverCounted
BY ThrottlerAssumption DEF ThrottlerInit, NoRequest, OverCounted, Sent

\* However many requests and instances, and whatever ttl, limit and block:
\* increment refuses nobody before a request whose window really held more
\* than limit, or one that was counted late.
THEOREM ThrottlerRefusesForRate == ThrottlerSpec => []RefusedForRate
<1>1. ThrottlerInv /\ OverCounted => RefusedForRate
  BY ThrottlerAssumption DEF OverCounted, RefusedForRate, ThrottlerInv, ThrottlerTypeOK
<1> QED BY <1>1, InitThrottler, NextThrottler, InitOver, NextOver, PTL DEF ThrottlerSpec

=============================================================================
