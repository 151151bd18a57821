------------------------------- MODULE Access -------------------------------
(***************************************************************************)
(* What an access token of authentication/ lets its holder do, and how     *)
(* old the grants behind it may be: RbacService reads a user's roles and   *)
(* permissions and caches them, a sign-in or a refresh signs what it gets  *)
(* into a JWT, and RolesGuard and PermissionsGuard decide from the claims  *)
(* alone, while administrators change roles and permissions.               *)
(*                                                                         *)
(* One user is followed, through calls that come back for ever: each call  *)
(* is one action per awaited step that reads or writes what is modelled,   *)
(* and no call takes more than Latency ticks.  Instead of dates the state  *)
(* holds the ticks that are left or have passed, so that the clock needs   *)
(* no bound.  The rows behind the grants are in Rbac, sessions and the     *)
(* deny-list in Sessions.                                                  *)
(***************************************************************************)
EXTENDS Integers

CONSTANTS
  Calls,
  Roles,        \* names of roles; the default one, which opens nothing, is left out
  SuperRoles,   \* SUPER_ADMIN_ROLES
  SystemRoles,  \* roles that cannot be deleted
  Codes,        \* permission codes other than DEFAULT_USER_PERMISSIONS
  Wildcard,     \* the code '*'
  Seeded,       \* the links the database may start with
  Routes,       \* the roles and the permissions that handlers require
  CacheTtl,     \* RBAC_CACHE_TTL_MS, in ticks; 0 turns the cache off
  AccessTtl,    \* JWT_EXPIRES_IN, in ticks
  Latency       \* how long a call may take, in ticks

Links == Roles \X Codes

Claims == [roles : SUBSET Roles, codes : SUBSET Codes]

ASSUME AccessAssumption ==
  /\ SuperRoles \subseteq Roles
  /\ SystemRoles \subseteq Roles
  /\ Seeded \subseteq Links
  /\ Routes \subseteq Claims
  /\ CacheTtl \in Nat
  /\ AccessTtl \in Nat \ {0}
  /\ Latency \in Nat \ {0}

VARIABLES
  assigned,  \* the roles the user holds in the database
  links,     \* role_permissions, by code
  cache,     \* rbac:access:<user>
  tokens,    \* the user's access tokens that have not expired
  pc,
  op,        \* what a call does with the access it gets
  claims,    \* what a call has loaded, been answered or been presented
  route,     \* what the handler that a call has reached requires
  age,       \* ticks since a call arrived
  roleGone,  \* history: ticks since the user last held a role
  linkGone,  \* history: ticks since a role last had a code
  quiet      \* history: ticks since assigned or links last changed

grants  == <<assigned, links>>
calls   == <<pc, op, claims, route, age>>
history == <<roleGone, linkGone, quiet>>
vars    == <<grants, cache, tokens, calls, history>>

Operations == {"issue", "read", "request"}

Busy == {"invalidate", "get", "findRoles", "findPermissions", "set", "sign",
         "isRevoked", "handler"}

\* How old what a token says can be, and what a handler was opened with:
\* a call that loads it, a cache entry and a call that signs it, a token
\* and a call that presents it, the entry and the token in their last tick.
TokenStale   == 2 * Latency + CacheTtl + AccessTtl - 2
HandlerStale == TokenStale + Latency
LongAgo      == HandlerStale + 1

NoClaims == [roles |-> {}, codes |-> {}]
NoEntry  == [claims |-> NoClaims, left |-> 0]

CodesOf(R) == {c \in Codes : \E x \in R : <<x, c>> \in links}

\* What loadUserAccess would return if nothing happened meanwhile.
Current == [roles |-> assigned, codes |-> CodesOf(assigned)]

-----------------------------------------------------------------------------
(* The guards: what a route requires against what a token says.            *)

HasSuperRole(held) == held.roles \cap SuperRoles # {}

RolesGuard(held, required) ==
  \/ required.roles = {}
  \/ HasSuperRole(held)
  \/ held.roles \cap required.roles # {}

PermissionsGuard(held, required) ==
  \/ required.codes = {}
  \/ Wildcard \in held.codes
  \/ HasSuperRole(held)
  \/ required.codes \subseteq held.codes

Opens(held, required) == RolesGuard(held, required) /\ PermissionsGuard(held, required)

-----------------------------------------------------------------------------
Init ==
  /\ assigned \in SUBSET Roles
  /\ links = Seeded
  /\ cache = NoEntry
  /\ tokens = {}
  /\ pc = [r \in Calls |-> "idle"]
  /\ op = [r \in Calls |-> "read"]
  /\ claims = [r \in Calls |-> NoClaims]
  /\ route = [r \in Calls |-> NoClaims]
  /\ age = [r \in Calls |-> 0]
  /\ roleGone = [x \in Roles |-> IF x \in assigned THEN 0 ELSE LongAgo]
  /\ linkGone = [l \in Links |-> IF l \in links THEN 0 ELSE LongAgo]
  /\ quiet = 0

Goto(r, place) == pc' = [pc EXCEPT ![r] = place]

\* Call r goes on with c at place.
Continue(r, place, c) ==
  /\ Goto(r, place)
  /\ claims' = [claims EXCEPT ![r] = c]
  /\ UNCHANGED <<op, route, age>>

\* Call r has been answered or refused, or has failed.
End(r) ==
  /\ Goto(r, "idle")
  /\ op' = [op EXCEPT ![r] = "read"]
  /\ claims' = [claims EXCEPT ![r] = NoClaims]
  /\ route' = [route EXCEPT ![r] = NoClaims]
  /\ age' = [age EXCEPT ![r] = 0]

\* Call r arrives and goes on with c at place.
Arrive(r, o, place, c) ==
  /\ pc[r] = "idle"
  /\ Goto(r, place)
  /\ op' = [op EXCEPT ![r] = o]
  /\ claims' = [claims EXCEPT ![r] = c]
  /\ UNCHANGED <<route, age>>

-----------------------------------------------------------------------------
(* getUserAccess: for a sign-in or a refresh, which sign what they get     *)
(* into a token, and for calls that only answer it.                        *)

\* Mutant: a refresh signs what the old token said.
ArriveWithOldClaims(r) ==
  /\ \/ Arrive(r, "issue", "get", NoClaims)
     \/ \E t \in tokens : Arrive(r, "issue", "sign", t.claims)
  /\ UNCHANGED <<grants, cache, tokens, history>>

ArriveForAccess(r) ==
  /\ \E o \in {"issue", "read"} : Arrive(r, o, "get", NoClaims)
  /\ UNCHANGED <<grants, cache, tokens, history>>

\* Call r has got the access c.
Got(r, c) == IF op[r] = "issue" THEN Continue(r, "sign", c) ELSE End(r)

\* Mutant: a hit renews the entry.
GetAccessSliding(r) ==
  /\ pc[r] = "get"
  /\ IF cache.left > 0
       THEN Got(r, cache.claims) /\ cache' = [cache EXCEPT !.left = CacheTtl]
       ELSE Continue(r, "findRoles", NoClaims) /\ UNCHANGED cache
  /\ UNCHANGED <<grants, tokens, history>>

GetAccess(r) ==
  /\ pc[r] = "get"
  /\ IF cache.left > 0 THEN Got(r, cache.claims) ELSE Continue(r, "findRoles", NoClaims)
  /\ UNCHANGED <<grants, cache, tokens, history>>

\* The load is over, and is cached if there is a cache.
Load(r, c) == IF CacheTtl > 0 THEN Continue(r, "set", c) ELSE Got(r, c)

\* No role in the database: the default role and permissions.
FindRoles(r) ==
  /\ pc[r] = "findRoles"
  /\ IF assigned = {} THEN Load(r, NoClaims)
                      ELSE Continue(r, "findPermissions", [roles |-> assigned, codes |-> {}])
  /\ UNCHANGED <<grants, cache, tokens, history>>

FindPermissions(r) ==
  /\ pc[r] = "findPermissions"
  /\ Load(r, [claims[r] EXCEPT !.codes = CodesOf(claims[r].roles)])
  /\ UNCHANGED <<grants, cache, tokens, history>>

Set(r) ==
  /\ pc[r] = "set"
  /\ cache' = [claims |-> claims[r], left |-> CacheTtl]
  /\ Got(r, claims[r])
  /\ UNCHANGED <<grants, tokens, history>>

\* exp counts from the signature.  What the call still has to write, and
\* the way of its answer, only shorten the use of the token.
Sign(r) ==
  /\ pc[r] = "sign"
  /\ tokens' = tokens \cup {[claims |-> claims[r], left |-> AccessTtl]}
  /\ End(r)
  /\ UNCHANGED <<grants, cache, history>>

-----------------------------------------------------------------------------
(* A request to a guarded route: JwtStrategy, RolesGuard, PermissionsGuard. *)

\* Signature and exp are good; validate goes on to ask the deny-list.
Present(r) ==
  /\ \E t \in tokens : Arrive(r, "request", "isRevoked", t.claims)
  /\ UNCHANGED <<grants, cache, tokens, history>>

\* The session is not revoked, and the guards let the claims through.
Pass(r) ==
  /\ pc[r] = "isRevoked"
  /\ \E required \in Routes :
        /\ Opens(claims[r], required)
        /\ route' = [route EXCEPT ![r] = required]
  /\ Goto(r, "handler")
  /\ UNCHANGED <<op, claims, age>>
  /\ UNCHANGED <<grants, cache, tokens, history>>

\* Any step may fail, the deny-list or a guard may refuse, a handler answers.
Finish(r) ==
  /\ pc[r] # "idle"
  /\ End(r)
  /\ UNCHANGED <<grants, cache, tokens, history>>

-----------------------------------------------------------------------------
(* What administrators change.  A call that changes the user's roles       *)
(* invalidates the entry and answers the access anew; one that changes     *)
(* what roles open, or deletes a role, invalidates nothing.  A role that   *)
(* was deleted may be created and given again.                             *)

\* What a change of the grants does to the history.
Rewritten == quiet' = IF UNCHANGED grants THEN quiet ELSE 0

AssignRole(r) ==
  /\ Arrive(r, "read", "invalidate", NoClaims)
  /\ \E x \in Roles :
        /\ assigned' = assigned \cup {x}
        /\ roleGone' = [roleGone EXCEPT ![x] = 0]
  /\ UNCHANGED <<links, cache, tokens, linkGone>>
  /\ Rewritten

RevokeRole(r) ==
  /\ Arrive(r, "read", "invalidate", NoClaims)
  /\ \E x \in assigned : assigned' = assigned \ {x}
  /\ UNCHANGED <<links, cache, tokens, roleGone, linkGone>>
  /\ Rewritten

InvalidateCache(r) ==
  /\ pc[r] = "invalidate"
  /\ cache' = NoEntry
  /\ Continue(r, "get", NoClaims)
  /\ UNCHANGED <<grants, tokens, history>>

\* grantPermissionsToRole refuses '*': only the seed can link it.
GrantPermission ==
  /\ \E l \in Links \ links :
        /\ l[2] # Wildcard
        /\ links' = links \cup {l}
        /\ linkGone' = [linkGone EXCEPT ![l] = 0]
  /\ UNCHANGED <<assigned, cache, tokens, calls, roleGone>>
  /\ Rewritten

RevokePermission ==
  /\ \E l \in links : links' = links \ {l}
  /\ UNCHANGED <<assigned, cache, tokens, calls, roleGone, linkGone>>
  /\ Rewritten

DeleteRole ==
  /\ \E x \in Roles \ (SystemRoles \cup SuperRoles) :
        /\ assigned' = assigned \ {x}
        /\ links' = {l \in links : l[1] # x}
  /\ UNCHANGED <<cache, tokens, calls, roleGone, linkGone>>
  /\ Rewritten

-----------------------------------------------------------------------------
\* The process is killed and started again: calls and the in-memory store
\* are lost, signed tokens are not.
Restart ==
  /\ cache' = NoEntry
  /\ pc' = [r \in Calls |-> "idle"]
  /\ op' = [r \in Calls |-> "read"]
  /\ claims' = [r \in Calls |-> NoClaims]
  /\ route' = [r \in Calls |-> NoClaims]
  /\ age' = [r \in Calls |-> 0]
  /\ UNCHANGED <<grants, tokens, history>>

\* Ticks since something was last so, if it was gone for n of them.
Older(n) == IF n < LongAgo THEN n + 1 ELSE n

Aged(t) == [t EXCEPT !.left = @ - 1]

Tick ==
  /\ \A r \in Calls : pc[r] # "idle" => age[r] < Latency
  /\ age' = [r \in Calls |-> IF pc[r] = "idle" THEN 0 ELSE age[r] + 1]
  /\ cache' = IF cache.left > 1 THEN Aged(cache) ELSE NoEntry
  /\ tokens' = {Aged(t) : t \in {u \in tokens : u.left > 1}}
  /\ roleGone' = [x \in Roles |-> IF x \in assigned THEN 0 ELSE Older(roleGone[x])]
  /\ linkGone' = [l \in Links |-> IF l \in links THEN 0 ELSE Older(linkGone[l])]
  /\ quiet' = Older(quiet)
  /\ UNCHANGED <<grants, pc, op, claims, route>>

CallStep(r) ==
  \/ ArriveForAccess(r)
  \/ GetAccess(r)
  \/ FindRoles(r)
  \/ FindPermissions(r)
  \/ Set(r)
  \/ Sign(r)
  \/ Present(r)
  \/ Pass(r)
  \/ Finish(r)
  \/ AssignRole(r)
  \/ RevokeRole(r)
  \/ InvalidateCache(r)

Next ==
  \/ \E r \in Calls : CallStep(r)
  \/ GrantPermission
  \/ RevokePermission
  \/ DeleteRole
  \/ Restart
  \/ Tick

Spec == Init /\ [][Next]_vars

-----------------------------------------------------------------------------
\* Every variable has its type.
TypeOK ==
  /\ assigned \subseteq Roles
  /\ links \subseteq Links
  /\ cache \in [claims : Claims, left : 0 .. CacheTtl]
  /\ tokens \subseteq [claims : Claims, left : 1 .. AccessTtl]
  /\ pc \in [Calls -> Busy \cup {"idle"}]
  /\ op \in [Calls -> Operations]
  /\ claims \in [Calls -> Claims]
  /\ route \in [Calls -> Claims]
  /\ age \in [Calls -> 0 .. Latency]
  /\ roleGone \in [Roles -> 0 .. LongAgo]
  /\ linkGone \in [Links -> 0 .. LongAgo]
  /\ quiet \in 0 .. LongAgo

\* The roles the user has held within n ticks, and the codes those roles
\* have had within n ticks.
HeldWithin(n) ==
  LET held == {x \in Roles : roleGone[x] <= n}
  IN  [roles |-> held,
       codes |-> {c \in Codes : \E x \in held : linkGone[<<x, c>>] <= n}]

\* A handler runs only if what the user has really held within HandlerStale
\* ticks would have opened its route: however loads, cache entries, changes
\* that invalidate nothing, late sets, refreshes and restarts interleave,
\* what was taken away (revokeRoleFromUserByName, revokePermissionFromRole,
\* deleteRole) stops opening routes within a call each to load, to sign
\* and to present it, RBAC_CACHE_TTL_MS and JWT_EXPIRES_IN.
OpenedByWhatWasHeld ==
  \A r \in Calls : pc[r] = "handler" => Opens(HeldWithin(HandlerStale), route[r])

\* Once roles and permissions have stayed the same for TokenStale ticks,
\* every token in use says exactly what the database says: what was given
\* has arrived as surely as what was taken away has gone, although
\* grantPermissionsToRole invalidates no entry.
TokensCatchUp == quiet > TokenStale => \A t \in tokens : t.claims = Current

=============================================================================
