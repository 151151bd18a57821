-------------------------------- MODULE Rbac --------------------------------
(***************************************************************************)
(* Roles and permissions in authentication/: RbacService with its access   *)
(* cache over RbacRepository, and the grant of RbacBootstrapService.       *)
(* Only RbacRepository.deleteRole is a transaction; otherwise one action   *)
(* per awaited call.                                                       *)
(*                                                                         *)
(* Each r in Requests is one call, served once; the role, the membership   *)
(* it creates are called r.  Three names of roles are told apart: the      *)
(* super role and the default role, which the seed has stored, and one     *)
(* name that administrators create and delete at will.  A cached access    *)
(* may expire at any time.                                                 *)
(***************************************************************************)
EXTENDS Naturals, FiniteSets

CONSTANTS
  Requests,
  Users,
  Admins,        \* ADMIN_BOOTSTRAP_EMAILS: the users an earlier start gave the super role
  Codes,         \* permission codes
  Super, Default, Custom,
  None,
  MayCall,       \* MayCall[r]: the operations call r may be for
  MayName        \* the names of roles that administrators' calls may give

Operations ==
  {"getUserAccess", "assignRole", "assignDefault", "bootstrap", "revokeRole",
   "createRole", "grantPermission", "revokePermission", "deleteRole"}

SystemRoles == {Super, Default}
Names       == SystemRoles \cup {Custom}
RoleIds     == SystemRoles \cup Requests
MemberIds   == Admins \cup Requests

ASSUME RbacAssumption ==
  /\ Admins \subseteq Users /\ IsFiniteSet(Admins)
  /\ Super # Default /\ Custom \notin SystemRoles
  /\ Names \cap (Requests \cup Users) = {}
  /\ Users \cap Requests = {}
  /\ None \notin Requests \cup Users \cup Names \cup Codes \cup Operations
  /\ MayCall \in [Requests -> SUBSET Operations]
  /\ MayName \subseteq Names

VARIABLES
  roles,       \* roles, by the call that created them
  memberOf,    \* memberships: the user of each, None if there is no such row
  assigned,    \* membership_roles
  catalog,     \* permissions, by code
  links,       \* role_permissions
  cache,       \* rbac:access:<user>
  pc,
  req

roleRows       == <<roles, catalog, links>>
membershipRows == <<memberOf, assigned>>
store == <<roleRows, membershipRows>>
vars  == <<store, cache, pc, req>>

Access == [roles : SUBSET Names, permissions : SUBSET Codes]

\* The ghosts of an access that was loaded or cached: raced, the user's
\* entry was invalidated after the load; dated, something was changed
\* after it that invalidates no entry.
Loaded == [access : Access, raced : BOOLEAN, dated : BOOLEAN]
Nothing == [access |-> [roles |-> {}, permissions |-> {}], raced |-> FALSE, dated |-> FALSE]

Request ==
  [op       : Operations \cup {None},
   user     : Users \cup {None},
   role     : RoleIds \cup {None},
   code     : Codes \cup {None},
   member   : MemberIds \cup {None},
   found    : SUBSET RoleIds,           \* the roles its load found
   loaded   : Loaded,
   changed  : BOOLEAN,                  \* it changed the user's roles, its del is to come
   seen     : SUBSET (MemberIds \cup RoleIds), \* history: rows stored when it looked
   outlived : BOOLEAN,                  \* history: its role was deleted under it
   others   : Nat]                      \* history: super roles revoked since it counted

NoRequest ==
  [op |-> None, user |-> None, role |-> None, code |-> None, member |-> None,
   found |-> {}, loaded |-> Nothing, changed |-> FALSE, seen |-> {},
   outlived |-> FALSE, others |-> 0]

\* A call ends with an answer, a refusal or an error; nothing that happens
\* later depends on which.
Ended  == "ended"
Done   == Ended
Denied == Ended
Failed == Ended

InFlightPlaces ==
  {"count", "findMembership", "createMembership", "findAssigned", "saveAssigned",
   "removeRole", "invalidate", "get", "findRoles", "findPermissions", "set", "saveRole",
   "findOrCreatePermission", "savePermission", "findLink", "insertLink",
   "findPermission", "unlink", "deleteRole"}
Places == InFlightPlaces \cup {"idle"} \cup {Ended}

NameOf(role) == IF role \in SystemRoles THEN role ELSE Custom

Named(name)    == {role \in roles : NameOf(role) = name}
MembersOf(u)   == {m \in MemberIds : memberOf[m] = u}
HeldRoles(u)   == {role \in roles : \E m \in MembersOf(u) : <<m, role>> \in assigned}
RolesNamed(R)  == IF R = {} THEN {Default} ELSE {NameOf(role) : role \in R}
PermissionsOf(R) == {c \in Codes : \E role \in R : <<role, c>> \in links}

\* What loadUserAccess would find if nothing happened meanwhile.  The
\* default permissions, which every access has, are left out.
AccessOf(u) == [roles |-> RolesNamed(HeldRoles(u)), permissions |-> PermissionsOf(HeldRoles(u))]

\* findOne has no ORDER BY: any one of the rows.
OneOf(S) == IF S = {} THEN {None} ELSE S

SuperRows == {a \in assigned : a[2] = Super}

Goto(r, place) == pc' = [pc EXCEPT ![r] = place]

\* What the histories keep of a call that has ended.
Ghost(q) == [NoRequest EXCEPT !.user = IF q.changed THEN q.user ELSE None,
                              !.role = IF q.outlived THEN q.role ELSE None,
                              !.changed = q.changed, !.outlived = q.outlived, !.seen = q.seen]

\* Call r goes on with request q at place, or ends there.
Continue(r, q, place) ==
  /\ req' = [req EXCEPT ![r] = IF place = Ended THEN Ghost(q) ELSE q]
  /\ Goto(r, place)

\* Call r arrives, and its first await is done.
Arrive(r, op, request, place) ==
  /\ pc[r] = "idle"
  /\ op \in MayCall[r]
  /\ Continue(r, [request EXCEPT !.op = op], place)

Loading(s) == pc[s] \in {"findPermissions", "set"}

\* Call r ends with a change that invalidates nothing: every access loaded
\* or cached so far may be out of date from now on, and references to the
\* roles of gone may outlive them.
EndWithout(r, gone) ==
  /\ req' = [s \in Requests |->
               IF s = r THEN Ghost(req[s])
               ELSE [req[s] EXCEPT !.loaded.dated = @ \/ Loading(s),
                                   !.outlived = @ \/ (req[s].role \in gone /\ pc[s] \in InFlightPlaces)]]
  /\ cache' = [u \in Users |-> IF cache[u] = None THEN None ELSE [cache[u] EXCEPT !.dated = TRUE]]
  /\ Goto(r, Done)

EndUnannounced(r) == EndWithout(r, {})

Init ==
  /\ roles = SystemRoles
  /\ memberOf = [m \in MemberIds |-> IF m \in Admins THEN m ELSE None]
  /\ assigned = {<<m, Super>> : m \in Admins}
  /\ catalog = {}
  /\ links = {}
  /\ cache = [u \in Users |-> None]
  /\ pc = [r \in Requests |-> "idle"]
  /\ req = [r \in Requests |-> NoRequest]

-----------------------------------------------------------------------------
(* getUserAccess, alone or as the answer of an assignment or revocation    *)

\* Where the look into the cache for u takes a call.
AfterGet(u) == IF cache[u] # None THEN Done ELSE "findRoles"

GetAccessStart(r, u) ==
  /\ Arrive(r, "getUserAccess", [NoRequest EXCEPT !.user = u], AfterGet(u))
  /\ UNCHANGED <<store, cache>>

Get(r) ==
  /\ pc[r] = "get"
  /\ Continue(r, req[r], AfterGet(req[r].user))
  /\ UNCHANGED <<store, cache>>

\* A user without a role has the default one, without a second query.
FindRoles(r) ==
  /\ pc[r] = "findRoles"
  /\ LET held == HeldRoles(req[r].user) IN
       /\ req' = [req EXCEPT ![r].found = held,
                             ![r].loaded = [Nothing EXCEPT !.access.roles = RolesNamed(held)]]
       /\ Goto(r, IF held = {} THEN "set" ELSE "findPermissions")
  /\ UNCHANGED <<store, cache>>

FindPermissions(r) ==
  /\ pc[r] = "findPermissions"
  /\ req' = [req EXCEPT ![r].loaded.access.permissions = PermissionsOf(req[r].found)]
  /\ Goto(r, "set")
  /\ UNCHANGED <<store, cache>>

Set(r) ==
  /\ pc[r] = "set"
  /\ cache' = [cache EXCEPT ![req[r].user] = req[r].loaded]
  /\ Continue(r, req[r], Done)
  /\ UNCHANGED store

Expire(u) ==
  /\ cache[u] # None
  /\ cache' = [cache EXCEPT ![u] = None]
  /\ UNCHANGED <<store, pc, req>>

AfterInvalidate(r) == IF req[r].op = "assignDefault" THEN Done ELSE "get"

\* Mutant: the entry is left to its TTL.
LeaveCached(r) ==
  /\ pc[r] = "invalidate"
  /\ Continue(r, [req[r] EXCEPT !.changed = FALSE], AfterInvalidate(r))
  /\ UNCHANGED <<store, cache>>

InvalidateCache(r) ==
  /\ pc[r] = "invalidate"
  /\ LET u == req[r].user IN
       /\ cache' = [cache EXCEPT ![u] = None]
       /\ req' = [s \in Requests |->
                    IF s = r THEN IF AfterInvalidate(r) = Ended THEN NoRequest
                                  ELSE [req[s] EXCEPT !.changed = FALSE]
                    ELSE IF Loading(s) /\ req[s].user = u
                    THEN [req[s] EXCEPT !.loaded.raced = TRUE] ELSE req[s]]
  /\ Goto(r, AfterInvalidate(r))
  /\ UNCHANGED store

-----------------------------------------------------------------------------
(* assignRoleToUser, for an administrator, a new user or the bootstrap       *)

AssignStart(r, u, name) ==
  /\ pc[r] = "idle"
  /\ \E role \in OneOf(Named(name)) :
       \/ name \in MayName /\ Arrive(r, "assignRole", [NoRequest EXCEPT !.user = u, !.role = role],
                                     IF role = None THEN Denied ELSE "findMembership")
       \/ /\ name = Default /\ u \notin Admins
          /\ Arrive(r, "assignDefault", [NoRequest EXCEPT !.user = u, !.role = role], "findMembership")
       \/ /\ name = Super /\ u \in Admins
          /\ Arrive(r, "bootstrap", [NoRequest EXCEPT !.user = u, !.role = role], "findMembership")
  /\ UNCHANGED <<store, cache>>

FindMembership(r) ==
  /\ pc[r] = "findMembership"
  /\ \E m \in OneOf(MembersOf(req[r].user)) :
       Continue(r, [req[r] EXCEPT !.member = m, !.seen = IF m = None THEN MembersOf(req[r].user) ELSE {}],
                IF req[r].op = "revokeRole"
                THEN IF m = None THEN Denied ELSE "removeRole"
                ELSE IF m = None THEN "createMembership" ELSE "findAssigned")
  /\ UNCHANGED <<store, cache>>

CreateMembership(r) ==
  /\ pc[r] = "createMembership"
  /\ memberOf' = [memberOf EXCEPT ![r] = req[r].user]
  /\ req' = [req EXCEPT ![r].member = r]
  /\ Goto(r, "findAssigned")
  /\ UNCHANGED <<roleRows, assigned, cache>>

\* The bootstrap invalidates nothing.
AfterAssign(r) == IF req[r].op = "bootstrap" THEN Done ELSE "invalidate"

FindAssigned(r) ==
  /\ pc[r] = "findAssigned"
  /\ Continue(r, req[r], IF <<req[r].member, req[r].role>> \in assigned
                         THEN AfterAssign(r) ELSE "saveAssigned")
  /\ UNCHANGED <<store, cache>>

SaveAssigned(r) ==
  /\ pc[r] = "saveAssigned"
  /\ assigned' = assigned \cup {<<req[r].member, req[r].role>>}
  /\ IF req[r].op = "bootstrap"
     THEN EndUnannounced(r)
     ELSE /\ Continue(r, [req[r] EXCEPT !.changed = TRUE], AfterAssign(r))
          /\ UNCHANGED cache
  /\ UNCHANGED <<roleRows, memberOf>>

-----------------------------------------------------------------------------
(* revokeRoleFromUserByName                                                *)

RevokeStart(r, u, name, actor) ==
  /\ pc[r] = "idle"
  /\ \E role \in OneOf(Named(name)) :
       Arrive(r, "revokeRole", [NoRequest EXCEPT !.user = u, !.role = role],
              IF role = None THEN Denied
              ELSE IF name # Super THEN "findMembership"
              ELSE IF u = actor THEN Denied ELSE "count")
  /\ UNCHANGED <<store, cache>>

\* Mutant: the last holder but one is the last one refused.
CountToZero(r) ==
  /\ pc[r] = "count"
  /\ Continue(r, req[r], IF Cardinality(SuperRows) < 1 THEN Denied ELSE "findMembership")
  /\ UNCHANGED <<store, cache>>

CountUsersWithRole(r) ==
  /\ pc[r] = "count"
  /\ Continue(r, req[r], IF Cardinality(SuperRows) <= 1 THEN Denied ELSE "findMembership")
  /\ UNCHANGED <<store, cache>>

RemoveRole(r) ==
  /\ pc[r] = "removeRole"
  /\ LET row == <<req[r].member, req[r].role>> IN
       IF row \in assigned
       THEN /\ assigned' = assigned \ {row}
            /\ req' = [s \in Requests |->
                         IF s = r THEN [req[s] EXCEPT !.changed = TRUE]
                         ELSE IF row \in SuperRows /\ pc[s] \in {"findMembership", "removeRole"}
                         THEN [req[s] EXCEPT !.others = @ + 1] ELSE req[s]]
            /\ Goto(r, "invalidate")
       ELSE /\ Continue(r, req[r], Denied)
            /\ UNCHANGED assigned
  /\ UNCHANGED <<roleRows, memberOf, cache>>

-----------------------------------------------------------------------------
(* Roles and their permissions                                             *)

\* Mutant: a role is created whether or not there is one of the name.
CreateRoleAnyway(r, name) ==
  /\ pc[r] = "idle"
  /\ Arrive(r, "createRole", [NoRequest EXCEPT !.seen = Named(name)], "saveRole")
  /\ UNCHANGED <<store, cache>>

CreateRoleStart(r, name) ==
  /\ pc[r] = "idle"
  /\ \E role \in OneOf(Named(name)) :
       Arrive(r, "createRole", [NoRequest EXCEPT !.role = role, !.seen = Named(name)],
              IF role = None THEN "saveRole" ELSE Done)
  /\ UNCHANGED <<store, cache>>

SaveRole(r) ==
  /\ pc[r] = "saveRole"
  /\ roles' = roles \cup {r}
  /\ Continue(r, req[r], Done)
  /\ UNCHANGED <<membershipRows, catalog, links, cache>>

GrantStart(r, role, code) ==
  /\ Arrive(r, "grantPermission", [NoRequest EXCEPT !.role = role, !.code = code],
            IF role = None THEN Denied ELSE "findOrCreatePermission")
  /\ UNCHANGED <<store, cache>>

FindOrCreatePermission(r) ==
  /\ pc[r] = "findOrCreatePermission"
  /\ Goto(r, IF req[r].code \in catalog THEN "findLink" ELSE "savePermission")
  /\ UNCHANGED <<store, cache, req>>

\* code is unique.
SavePermission(r) ==
  /\ pc[r] = "savePermission"
  /\ catalog' = catalog \cup {req[r].code}
  /\ Continue(r, req[r], IF req[r].code \in catalog THEN Failed ELSE "findLink")
  /\ UNCHANGED <<membershipRows, roles, links, cache>>

FindLink(r) ==
  /\ pc[r] = "findLink"
  /\ Continue(r, req[r], IF <<req[r].role, req[r].code>> \in links THEN Done ELSE "insertLink")
  /\ UNCHANGED <<store, cache>>

\* (role, permission) is the primary key.
InsertLink(r) ==
  /\ pc[r] = "insertLink"
  /\ LET link == <<req[r].role, req[r].code>> IN
       IF link \in links
       THEN /\ Continue(r, req[r], Failed)
            /\ UNCHANGED <<links, cache>>
       ELSE /\ links' = links \cup {link}
            /\ EndUnannounced(r)
  /\ UNCHANGED <<membershipRows, roles, catalog>>

RevokePermissionStart(r, role, code) ==
  /\ Arrive(r, "revokePermission", [NoRequest EXCEPT !.role = role, !.code = code],
            IF role = None THEN Denied ELSE "findPermission")
  /\ UNCHANGED <<store, cache>>

FindPermission(r) ==
  /\ pc[r] = "findPermission"
  /\ Continue(r, req[r], IF req[r].code \in catalog THEN "unlink" ELSE Denied)
  /\ UNCHANGED <<store, cache>>

Unlink(r) ==
  /\ pc[r] = "unlink"
  /\ LET link == <<req[r].role, req[r].code>> IN
       IF link \in links
       THEN /\ links' = links \ {link}
            /\ EndUnannounced(r)
       ELSE /\ Continue(r, req[r], Denied)
            /\ UNCHANGED <<links, cache>>
  /\ UNCHANGED <<membershipRows, roles, catalog>>

DeleteRoleStart(r, role) ==
  /\ Arrive(r, "deleteRole", [NoRequest EXCEPT !.role = role],
            IF role \in SystemRoles \cup {None} THEN Denied ELSE "deleteRole")
  /\ UNCHANGED <<store, cache>>

\* Mutant: only the assignments are cleaned up.
DeleteRoleNotLinks(r) ==
  /\ pc[r] = "deleteRole"
  /\ assigned' = {a \in assigned : a[2] # req[r].role}
  /\ roles' = roles \ {req[r].role}
  /\ EndWithout(r, {req[r].role})
  /\ UNCHANGED <<memberOf, catalog, links>>

\* The transaction is rolled back if the role is gone.
DeleteRole(r) ==
  /\ pc[r] = "deleteRole"
  /\ LET role == req[r].role IN
       IF role \in roles
       THEN /\ assigned' = {a \in assigned : a[2] # role}
            /\ links' = {l \in links : l[1] # role}
            /\ roles' = roles \ {role}
            /\ EndWithout(r, {role})
       ELSE /\ Continue(r, req[r], Failed)
            /\ UNCHANGED <<assigned, links, roles, cache>>
  /\ UNCHANGED <<memberOf, catalog>>

-----------------------------------------------------------------------------
\* A rejected call of the database or the cache, or a restart.
CallFails(r) ==
  /\ pc[r] \in InFlightPlaces
  /\ Continue(r, req[r], Failed)
  /\ UNCHANGED <<store, cache>>

RequestStep(r) ==
  \/ \E u \in Users :
       \/ GetAccessStart(r, u)
       \/ \E name \in Names : AssignStart(r, u, name)
       \/ \E name \in MayName, actor \in Users : RevokeStart(r, u, name, actor)
  \/ Get(r) \/ FindRoles(r) \/ FindPermissions(r) \/ Set(r) \/ InvalidateCache(r)
  \/ FindMembership(r) \/ CreateMembership(r) \/ FindAssigned(r) \/ SaveAssigned(r)
  \/ CountUsersWithRole(r) \/ RemoveRole(r)
  \/ \E name \in MayName : CreateRoleStart(r, name)
  \/ SaveRole(r)
  \/ \E role \in roles \cup {None} :
       \/ \E code \in Codes : GrantStart(r, role, code) \/ RevokePermissionStart(r, role, code)
       \/ DeleteRoleStart(r, role)
  \/ FindOrCreatePermission(r) \/ SavePermission(r) \/ FindLink(r) \/ InsertLink(r)
  \/ FindPermission(r) \/ Unlink(r) \/ DeleteRole(r)
  \/ CallFails(r)

Next ==
  \/ \E r \in Requests : RequestStep(r)
  \/ \E u \in Users : Expire(u)

Spec == Init /\ [][Next]_vars

-----------------------------------------------------------------------------
(* Correctness.                                                            *)

TypeOK ==
  /\ roles \subseteq RoleIds
  /\ memberOf \in [MemberIds -> Users \cup {None}]
  /\ assigned \subseteq {m \in MemberIds : memberOf[m] # None} \X RoleIds
  /\ catalog \subseteq Codes
  /\ links \subseteq RoleIds \X catalog
  /\ cache \in [Users -> Loaded \cup {None}]
  /\ pc \in [Requests -> Places]
  /\ req \in [Requests -> Request]

(* The super role loses its last holder only to a revocation that another  *)
(* revocation of it overtook between the count and the removal.            *)
LastHolderRaced ==
  [][SuperRows # {} /\ SuperRows' = {} =>
       \E r \in Requests : pc[r] = "removeRole" /\ pc'[r] # pc[r] /\ req[r].others > 0]_vars

(* A cached access is what the database says, unless it was loaded before  *)
(* the last invalidation, something without invalidation changed since, or *)
(* a change of the user's roles has yet to invalidate it or died before.   *)
ChangePending(u) == \E r \in Requests : req[r].changed /\ req[r].user = u

CacheExplained ==
  \A u \in Users :
    \/ cache[u] = None
    \/ cache[u].raced
    \/ cache[u].dated
    \/ ChangePending(u)
    \/ cache[u].access = AccessOf(u)

(* A membership_roles or role_permissions row of a role that is gone was   *)
(* written by a call that had looked the role up before it was deleted.    *)
References == {a[2] : a \in assigned} \cup {l[1] : l \in links}

OrphansExplained ==
  \A role \in References \ roles : \E r \in Requests : req[r].role = role /\ req[r].outlived

(* Two memberships of one user, or two roles of one name, exist only if    *)
(* each was created by a call that looked before the other was stored.     *)
DuplicatesOverlapped ==
  /\ \A m \in MemberIds, n \in Requests :
       m # n /\ memberOf[m] # None /\ memberOf[m] = memberOf[n] => m \notin req[n].seen
  /\ \A role \in roles, n \in roles \cap Requests :
       role # n /\ NameOf(role) = NameOf(n) => role \notin req[n].seen

-----------------------------------------------------------------------------
(* The inductive invariant: what a request q of call r goes by at a place. *)

HasUser   == {"count", "findMembership", "createMembership", "findAssigned", "saveAssigned",
              "removeRole", "invalidate", "get", "findRoles", "findPermissions", "set"}
Assigning == {"count", "findMembership", "createMembership", "findAssigned", "saveAssigned",
              "removeRole"}
Holding   == {"findAssigned", "saveAssigned", "removeRole"}
Linking   == {"findOrCreatePermission", "savePermission", "findLink", "insertLink",
              "findPermission", "unlink"}
Created   == {"findAssigned", "saveAssigned", "invalidate", "get", "findRoles",
              "findPermissions", "set", Ended}

RequestOK(r, q, place) ==
  /\ place = "idle" => ~q.changed /\ ~q.outlived
  /\ place \in HasUser => q.user \in Users
  /\ place \in Assigning \cup Linking \cup {"deleteRole"} => q.role \in RoleIds
  /\ place \in Holding => q.member \in MemberIds /\ memberOf[q.member] = q.user
  /\ place \in Linking => q.code \in Codes
  /\ place \in {"findLink", "insertLink", "unlink"} => q.code \in catalog
  /\ place = "deleteRole" => q.role \notin SystemRoles
  /\ place \in {"count", "removeRole"} => q.op = "revokeRole"
  /\ q.op = "assignDefault" => q.role = Default
  /\ memberOf[r] # None => place \in Created
  /\ memberOf[r] # None \/ r \in roles \/ place \in {"createMembership", "saveRole"} => q.seen = {}

\* A role that is gone was deleted under the calls that go on with it.
OutlivedOK(q, place) ==
  place \in InFlightPlaces /\ q.role \notin roles \cup {None} => q.outlived

\* What is loaded so far is what the database says, or it is explained.
LoadOK(q, place) ==
  \/ ~(place \in {"findPermissions", "set"})
  \/ q.loaded.raced \/ q.loaded.dated \/ ChangePending(q.user)
  \/ /\ place = "findPermissions" /\ q.found = HeldRoles(q.user)
     /\ q.loaded.access.roles = RolesNamed(q.found)
  \/ place = "set" /\ q.loaded.access = AccessOf(q.user)

\* A revocation of the super role goes on while two hold it, those it was
\* overtaken by included.
CountOK(q, place) ==
  q.op = "revokeRole" /\ q.role = Super /\ place \in {"findMembership", "removeRole"} =>
    Cardinality(SuperRows) + q.others >= 2

Fits(r, q, place) ==
  RequestOK(r, q, place) /\ OutlivedOK(q, place) /\ LoadOK(q, place) /\ CountOK(q, place)

\* A role is unknown until the call that creates it has ended.
Known    == roles \cup References \cup {req[r].role : r \in Requests}
RolesInv == /\ SystemRoles \subseteq roles
            /\ \A r \in Requests : r \in Known => pc[r] = Ended

RbacInv == /\ TypeOK /\ IsFiniteSet(SuperRows) /\ RolesInv
           /\ CacheExplained /\ OrphansExplained
           /\ \A r \in Requests : Fits(r, req[r], pc[r])

=============================================================================
