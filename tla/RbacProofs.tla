---------------------------- MODULE RbacProofs ----------------------------
(***************************************************************************)
(* Proofs about Rbac, for any calls, users, roles and permission codes.    *)
(*                                                                         *)
(* RbacInv says of every call which of its fields are in use at its place  *)
(* and what they still have to do with the tables (Fits).  So a step that  *)
(* changes no row has only its own call to answer for (MoveKeeps), and one *)
(* that changes a row has to be shown harmless to the others (RowsKeep).   *)
(***************************************************************************)
EXTENDS Rbac, FiniteSetTheorems, TLAPS

\* A request keeps its type when one of its fields gets a value of its own.
LEMMA RequestTypes ==
  ASSUME NEW q \in Request
  PROVE  /\ NoRequest \in Request /\ Ghost(q) \in Request
         /\ \A v \in Users \cup {None} : [q EXCEPT !.user = v] \in Request
         /\ \A v \in RoleIds \cup {None} : [q EXCEPT !.role = v] \in Request
         /\ \A v \in Codes \cup {None} : [q EXCEPT !.code = v] \in Request
         /\ \A v \in MemberIds \cup {None} : [q EXCEPT !.member = v] \in Request
         /\ \A v \in Operations \cup {None} : [q EXCEPT !.op = v] \in Request
         /\ \A v \in BOOLEAN : [q EXCEPT !.changed = v] \in Request
         /\ \A v \in BOOLEAN : [q EXCEPT !.outlived = v] \in Request
         /\ \A v \in BOOLEAN : [q EXCEPT !.loaded.dated = v] \in Request
         /\ \A v \in BOOLEAN : [q EXCEPT !.loaded.raced = v] \in Request
         /\ \A v \in SUBSET Codes : [q EXCEPT !.loaded.access.permissions = v] \in Request
<1>1. Nothing \in Loaded
  BY DEF Nothing, Loaded, Access
<1>2. NoRequest \in Request
  BY <1>1 DEF NoRequest, Request
<1>3. Ghost(q) \in Request
  BY <1>1 DEF Ghost, NoRequest, Request
<1>4. q.loaded \in Loaded
  BY DEF Request
<1>5. \A v \in BOOLEAN : [q EXCEPT !.loaded.dated = v] \in Request
  BY <1>4 DEF Request, Loaded
<1>6. \A v \in BOOLEAN : [q EXCEPT !.loaded.raced = v] \in Request
  BY <1>4 DEF Request, Loaded
<1>7. \A v \in SUBSET Codes : [q EXCEPT !.loaded.access.permissions = v] \in Request
  BY <1>4 DEF Request, Loaded, Access
<1>8. /\ \A v \in Users \cup {None} : [q EXCEPT !.user = v] \in Request
      /\ \A v \in RoleIds \cup {None} : [q EXCEPT !.role = v] \in Request
      /\ \A v \in Codes \cup {None} : [q EXCEPT !.code = v] \in Request
      /\ \A v \in MemberIds \cup {None} : [q EXCEPT !.member = v] \in Request
  BY DEF Request
<1>9. /\ \A v \in Operations \cup {None} : [q EXCEPT !.op = v] \in Request
      /\ \A v \in BOOLEAN : [q EXCEPT !.changed = v] \in Request
      /\ \A v \in BOOLEAN : [q EXCEPT !.outlived = v] \in Request
  BY DEF Request
<1> QED BY <1>2, <1>3, <1>5, <1>6, <1>7, <1>8, <1>9

\* The requests that calls arrive with.
Blank(q) == /\ q \in Request /\ q.op = None /\ q.others = 0
            /\ ~q.changed /\ ~q.outlived

\* What the administrators' calls and getUserAccess start with is blank but
\* for the fields they fill in.
LEMMA RequestFields ==
  /\ \A u \in Users : Blank([NoRequest EXCEPT !.user = u])
  /\ \A u \in Users, role \in RoleIds \cup {None} :
       Blank([NoRequest EXCEPT !.user = u, !.role = role])
  /\ \A role \in RoleIds \cup {None}, code \in Codes :
       Blank([NoRequest EXCEPT !.role = role, !.code = code])
  /\ \A role \in RoleIds \cup {None}, seen \in SUBSET (MemberIds \cup RoleIds) :
       Blank([NoRequest EXCEPT !.role = role, !.seen = seen])
  /\ \A role \in RoleIds \cup {None} : Blank([NoRequest EXCEPT !.role = role])
<1>1. Nothing \in Loaded /\ 0 \in Nat
  BY DEF Nothing, Loaded, Access
<1>2. ASSUME NEW u \in Users PROVE Blank([NoRequest EXCEPT !.user = u])
  BY <1>1 DEF Blank, NoRequest, Request
<1>3. ASSUME NEW u \in Users, NEW role \in RoleIds \cup {None}
      PROVE  Blank([NoRequest EXCEPT !.user = u, !.role = role])
  BY <1>1 DEF Blank, NoRequest, Request
<1>4. ASSUME NEW role \in RoleIds \cup {None}, NEW code \in Codes
      PROVE  Blank([NoRequest EXCEPT !.role = role, !.code = code])
  BY <1>1 DEF Blank, NoRequest, Request
<1>5. ASSUME NEW role \in RoleIds \cup {None}, NEW seen \in SUBSET (MemberIds \cup RoleIds)
      PROVE  Blank([NoRequest EXCEPT !.role = role, !.seen = seen])
  BY <1>1 DEF Blank, NoRequest, Request
<1>6. ASSUME NEW role \in RoleIds \cup {None} PROVE Blank([NoRequest EXCEPT !.role = role])
  BY <1>1 DEF Blank, NoRequest, Request
<1> QED BY <1>2, <1>3, <1>4, <1>5, <1>6

\* What is read from the rows has the types of what it is kept in.
LEMMA ReadTypes ==
  ASSUME TypeOK
  PROVE  /\ \A u : HeldRoles(u) \in SUBSET RoleIds
         /\ \A R \in SUBSET RoleIds : RolesNamed(R) \in SUBSET Names /\ PermissionsOf(R) \in SUBSET Codes
         /\ \A u : MembersOf(u) \in SUBSET (MemberIds \cup RoleIds)
         /\ \A name : Named(name) \in SUBSET (MemberIds \cup RoleIds) /\ Named(name) \subseteq roles
         /\ SuperRows \subseteq assigned
BY DEF TypeOK, HeldRoles, RolesNamed, PermissionsOf, MembersOf, Named, SuperRows, NameOf,
       Names, SystemRoles, RoleIds

\* A call that has not ended is unknown as a role, and one that arrives has
\* no row of any kind.
LEMMA Unknown ==
  ASSUME RbacInv, NEW r \in Requests, pc[r] # Ended
  PROVE  /\ r \notin Known /\ r \notin roles
         /\ pc[r] = "idle" => ~req[r].changed /\ ~req[r].outlived /\ memberOf[r] = None
<1>1. r \notin Known
  BY DEF RbacInv, RolesInv
<1>2. RequestOK(r, req[r], pc[r])
  BY DEF RbacInv, Fits
<1> QED BY <1>1, <1>2 DEF Known, RequestOK, Created, Ended

-----------------------------------------------------------------------------
(* Steps of one call that change no row and no entry.                      *)

Moves(r, q, place) ==
  /\ req' = [req EXCEPT ![r] = q]
  /\ pc' = [pc EXCEPT ![r] = place]
  /\ UNCHANGED <<store, cache>>

\* The new request of a call keeps what the histories of others rest on.
Keeps(r, q) ==
  /\ req[r].changed => q.changed /\ q.user = req[r].user
  /\ req[r].outlived => q.outlived /\ q.role = req[r].role
  /\ q.role \in {req[r].role, None} \cup roles

\* A step that changes no row and no entry keeps the invariant if the new
\* request fits the new place.
LEMMA MoveKeeps ==
  ASSUME RbacInv, NEW r \in Requests, NEW q \in Request, NEW place \in Places,
         pc[r] # Ended, Moves(r, q, place), Keeps(r, q), Fits(r, q, place)
  PROVE  RbacInv'
<1> USE DEF RbacInv, TypeOK
<1>1. /\ UNCHANGED <<roles, memberOf, assigned, catalog, links, cache>>
      /\ pc' \in [Requests -> Places] /\ req' \in [Requests -> Request]
      /\ pc'[r] = place /\ req'[r] = q
      /\ \A s \in Requests : s # r => pc'[s] = pc[s] /\ req'[s] = req[s]
  BY DEF Moves, store, roleRows, membershipRows
<1>2. TypeOK' /\ SuperRows' = SuperRows /\ References' = References
  BY <1>1 DEF SuperRows, References
<1>3. /\ \A u : HeldRoles(u)' = HeldRoles(u) /\ AccessOf(u)' = AccessOf(u)
      /\ \A R : RolesNamed(R)' = RolesNamed(R)
  BY <1>1 DEF HeldRoles, AccessOf, MembersOf, RolesNamed, PermissionsOf
<1>4. \A u : ChangePending(u) => ChangePending(u)'
  BY <1>1 DEF ChangePending, Keeps
<1>5. RolesInv'
  <2>1. Known' \subseteq Known \cup {None}
    BY <1>1, <1>2 DEF Known, Keeps
  <2>2. r \notin Known
    BY Unknown
  <2> QED BY <1>1, <2>1, <2>2, RbacAssumption DEF RolesInv
<1>6. CacheExplained'
  BY <1>1, <1>3, <1>4 DEF CacheExplained
<1>7. OrphansExplained'
  <2> SUFFICES ASSUME NEW role \in References \ roles
               PROVE  \E s \in Requests : req'[s].role = role /\ req'[s].outlived
    BY <1>1, <1>2 DEF OrphansExplained
  <2>1. PICK s \in Requests : req[s].role = role /\ req[s].outlived
    BY DEF OrphansExplained
  <2> QED BY <1>1, <2>1 DEF Keeps
<1>8. ASSUME NEW s \in Requests PROVE Fits(s, req[s], pc[s])'
  <2>1. Fits(s, req'[s], pc'[s])
    BY <1>1
  <2> QED BY <2>1, <1>1, <1>2, <1>3, <1>4
        DEF Fits, RequestOK, OutlivedOK, LoadOK, CountOK
<1> QED BY <1>2, <1>5, <1>6, <1>7, <1>8

\* A call that ends with its request q.
LEMMA EndKeeps ==
  ASSUME RbacInv, NEW r \in Requests, NEW q \in Request,
         pc[r] # Ended, Continue(r, q, Ended), UNCHANGED <<store, cache>>,
         Keeps(r, q), memberOf[r] # None => q.seen = {}
  PROVE  RbacInv'
<1>1. Moves(r, Ghost(q), Ended)
  BY DEF Continue, Moves, Goto
<1>2. Ghost(q) \in Request /\ Ended \in Places
  BY RequestTypes DEF Places
<1>3. /\ Ghost(q).op = None /\ Ghost(q).seen = q.seen
      /\ Ghost(q).changed = q.changed /\ Ghost(q).outlived = q.outlived
      /\ q.changed => Ghost(q).user = q.user
      /\ Ghost(q).role = IF q.outlived THEN q.role ELSE None
  BY DEF Ghost, NoRequest
<1>4. Keeps(r, Ghost(q))
  BY <1>3 DEF Keeps
<1>5. Fits(r, Ghost(q), Ended)
  <2>1. r \notin roles
    BY Unknown
  <2>2. None \notin Operations
    BY RbacAssumption
  <2> QED BY <1>3, <2>1, <2>2 DEF Fits, RequestOK, OutlivedOK, LoadOK, CountOK, Ended, HasUser,
             Assigning, Linking, Holding, Created, InFlightPlaces, Operations
<1> QED BY <1>1, <1>2, <1>4, <1>5, MoveKeeps

\* A call that goes on with q, or ends.
LEMMA ContinueKeeps ==
  ASSUME RbacInv, NEW r \in Requests, NEW q \in Request, NEW place \in Places,
         pc[r] # Ended, Continue(r, q, place), UNCHANGED <<store, cache>>, Keeps(r, q),
         memberOf[r] # None => q.seen = {},
         place # Ended => Fits(r, q, place)
  PROVE  RbacInv'
<1>1. CASE place = Ended
  BY <1>1, EndKeeps
<1>2. CASE place # Ended
  <2>1. Moves(r, q, place)
    BY <1>2 DEF Continue, Moves, Goto
  <2> QED BY <1>2, <2>1, MoveKeeps
<1> QED BY <1>1, <1>2

\* A request that has just arrived.
Fresh(q) ==
  /\ q \in Request /\ q.op = None /\ q.role \in roles \cup {None}
  /\ ~q.changed /\ ~q.outlived

\* A call that arrives with q.
LEMMA ArriveKeeps ==
  ASSUME RbacInv, NEW r \in Requests, NEW q, Fresh(q), NEW op \in Operations,
         NEW place \in Places, Arrive(r, op, q, place), UNCHANGED <<store, cache>>,
         place # Ended => Fits(r, [q EXCEPT !.op = op], place)
  PROVE  RbacInv'
<1> DEFINE p == [q EXCEPT !.op = op]
<1>1. pc[r] = "idle" /\ Continue(r, p, place)
  BY DEF Arrive
<1>2. ~req[r].changed /\ ~req[r].outlived /\ memberOf[r] = None
  BY <1>1, Unknown DEF Ended
<1>3. p \in Request
  BY RequestTypes DEF Fresh
<1>4. Keeps(r, p)
  BY <1>2, <1>3 DEF Keeps, Fresh, NoRequest, Request
<1> QED BY <1>1, <1>2, <1>3, <1>4, ContinueKeeps DEF Ended

-----------------------------------------------------------------------------
(* getUserAccess and its cache.                                            *)

\* The parts of the invariant about one call, by name.
LEMMA FitsParts ==
  ASSUME RbacInv, NEW r \in Requests
  PROVE  /\ req[r] \in Request /\ pc[r] \in Places
         /\ RequestOK(r, req[r], pc[r]) /\ OutlivedOK(req[r], pc[r])
         /\ LoadOK(req[r], pc[r]) /\ CountOK(req[r], pc[r])
BY DEF RbacInv, TypeOK, Fits

\* A request that does not change keeps what it has.
LEMMA KeepsItself ==
  ASSUME RbacInv, NEW r \in Requests
  PROVE  Keeps(r, req[r])
BY DEF Keeps

\* getUserAccess up to the write of its entry: the answer it builds is what
\* the database says, or what has changed since is known.
LEMMA AccessKeeps ==
  ASSUME RbacInv, NEW r \in Requests,
         \/ \E u \in Users : GetAccessStart(r, u)
         \/ Get(r) \/ FindRoles(r) \/ FindPermissions(r)
  PROVE  RbacInv'
<1> USE FitsParts, KeepsItself
<1>1. ASSUME NEW u \in Users, GetAccessStart(r, u)
      PROVE  RbacInv'
  <2> DEFINE q == [NoRequest EXCEPT !.user = u]
  <2>1. Fresh(q)
    BY RequestTypes DEF Fresh, NoRequest
  <2>2. AfterGet(u) \in Places /\ (AfterGet(u) # Ended => AfterGet(u) = "findRoles")
    BY DEF AfterGet, Places, InFlightPlaces, Done
  <2>3. memberOf[r] = None /\ r \notin roles
    BY <1>1, Unknown DEF GetAccessStart, Arrive, Ended
  <2>4. Fits(r, [q EXCEPT !.op = "getUserAccess"], "findRoles")
    BY <2>3 DEF Fits, RequestOK, OutlivedOK, LoadOK, CountOK, NoRequest, HasUser, Assigning,
           Holding, Linking, Created
  <2> QED BY <1>1, <2>1, <2>2, <2>4, ArriveKeeps DEF GetAccessStart, Operations
<1>2. CASE Get(r)
  <2>1. AfterGet(req[r].user) \in {Ended, "findRoles"} /\ {Ended, "findRoles"} \subseteq Places
    BY DEF AfterGet, Places, InFlightPlaces, Done
  <2>2. Fits(r, req[r], "findRoles")
    BY <1>2 DEF Get, Fits, RequestOK, OutlivedOK, LoadOK, CountOK, HasUser, Assigning,
           Holding, Linking, Created, InFlightPlaces
  <2>3. memberOf[r] # None => req[r].seen = {}
    BY DEF RequestOK
  <2> QED BY <1>2, <2>1, <2>2, <2>3, ContinueKeeps DEF Get, Ended
<1>3. CASE FindRoles(r)
  <2> DEFINE held  == HeldRoles(req[r].user)
             q     == [req[r] EXCEPT !.found = held,
                                     !.loaded = [Nothing EXCEPT !.access.roles = RolesNamed(held)]]
             place == IF held = {} THEN "set" ELSE "findPermissions"
  <2>1. held \in SUBSET RoleIds /\ RolesNamed(held) \in SUBSET Names
    BY ReadTypes DEF RbacInv
  <2>2. [Nothing EXCEPT !.access.roles = RolesNamed(held)] \in Loaded
    BY <2>1 DEF Nothing, Loaded, Access
  <2>3. q \in Request
    BY <2>1, <2>2 DEF Request
  <2>4. Moves(r, q, place)
    BY <1>3 DEF FindRoles, Moves, Goto
  <2>5. Keeps(r, q)
    BY <2>3 DEF Keeps, Request
  <2>6. /\ q.op = req[r].op /\ q.user = req[r].user /\ q.role = req[r].role
        /\ q.seen = req[r].seen /\ q.outlived = req[r].outlived /\ q.found = held
        /\ q.loaded = [Nothing EXCEPT !.access.roles = RolesNamed(held)]
    BY DEF Request
  <2>7. q.loaded.access.roles = RolesNamed(held) /\ q.loaded.access.permissions = {}
    BY <2>6 DEF Nothing
  <2>8. q.loaded.access \in Access
    BY <2>3 DEF Request, Loaded
  <2>9. held = {} => q.loaded.access = AccessOf(req[r].user)
    BY <2>7, <2>8 DEF AccessOf, PermissionsOf, Access
  <2>10. Fits(r, q, place)
    BY <1>3, <2>6, <2>7, <2>9 DEF FindRoles, Fits, RequestOK, OutlivedOK, LoadOK, CountOK,
           HasUser, Assigning, Holding, Linking, Created, InFlightPlaces
  <2>11. place \in Places /\ pc[r] # Ended
    BY <1>3 DEF Places, InFlightPlaces, FindRoles, Ended
  <2> QED BY <2>3, <2>4, <2>5, <2>10, <2>11, MoveKeeps
<1>4. CASE FindPermissions(r)
  <2> DEFINE q == [req[r] EXCEPT !.loaded.access.permissions = PermissionsOf(req[r].found)]
  <2>1. PermissionsOf(req[r].found) \in SUBSET Codes
    BY DEF PermissionsOf
  <2>2. q \in Request
    BY <2>1, RequestTypes
  <2>3. Moves(r, q, "set")
    BY <1>4 DEF FindPermissions, Moves, Goto
  <2>4. Keeps(r, q)
    BY <2>2 DEF Keeps, Request
  <2>5. /\ q.op = req[r].op /\ q.user = req[r].user /\ q.role = req[r].role
        /\ q.seen = req[r].seen /\ q.outlived = req[r].outlived
    BY DEF Request
  <2>6. /\ q.loaded.raced = req[r].loaded.raced /\ q.loaded.dated = req[r].loaded.dated
        /\ q.loaded.access.roles = req[r].loaded.access.roles
        /\ q.loaded.access.permissions = PermissionsOf(req[r].found)
    BY DEF Request, Loaded, Access
  <2>7. q.loaded.access \in Access
    BY <2>2 DEF Request, Loaded
  <2>8. LoadOK(q, "set")
    BY <1>4, <2>5, <2>6, <2>7 DEF FindPermissions, LoadOK, AccessOf, Access
  <2>9. Fits(r, q, "set")
    BY <1>4, <2>5, <2>8 DEF FindPermissions, Fits, RequestOK, OutlivedOK, CountOK,
           HasUser, Assigning, Holding, Linking, Created, InFlightPlaces
  <2>10. "set" \in Places /\ pc[r] # Ended
    BY <1>4 DEF Places, InFlightPlaces, FindPermissions, Ended
  <2> QED BY <2>2, <2>3, <2>4, <2>9, <2>10, MoveKeeps
<1> QED BY <1>1, <1>2, <1>3, <1>4

-----------------------------------------------------------------------------
(* Steps of the other operations that change no row and no entry.          *)

\* A call that arrives has no row; what it asks for is there, or it ends.
LEMMA StartFits ==
  ASSUME RbacInv, NEW r \in Requests, pc[r] = "idle", NEW q, Fresh(q), q.others = 0,
         NEW op \in Operations,
         NEW place \in {"findMembership", "count", "saveRole", "findOrCreatePermission",
                        "findPermission", "deleteRole"},
         place \in {"findMembership", "count"} => q.user \in Users,
         place # "saveRole" => q.role \in RoleIds,
         place \in {"findOrCreatePermission", "findPermission"} => q.code \in Codes,
         place = "deleteRole" => q.role \notin SystemRoles,
         place = "count" => op = "revokeRole",
         place = "saveRole" => q.seen = {},
         op = "assignDefault" => q.role = Default,
         op = "revokeRole" /\ place = "findMembership" => q.role # Super
  PROVE  Fits(r, [q EXCEPT !.op = op], place)
<1>1. memberOf[r] = None /\ r \notin roles
  BY Unknown DEF Ended
<1> QED BY <1>1 DEF Fits, RequestOK, OutlivedOK, LoadOK, CountOK, HasUser, Assigning, Fresh, Request,
       Holding, Linking, Created, InFlightPlaces

\* The one role of a name that a query finds, if there is one.
LEMMA NamedRole ==
  ASSUME RbacInv, NEW name \in Names, NEW role \in OneOf(Named(name))
  PROVE  /\ role \in roles \cup {None} /\ role \in RoleIds \cup {None}
         /\ role = None => Named(name) = {}
         /\ role # None => role \in Named(name) /\ NameOf(role) = name
         /\ name \in SystemRoles => role = name
<1>1. roles \subseteq RoleIds /\ SystemRoles \subseteq roles
  BY DEF RbacInv, RolesInv, TypeOK
<1>2. None \notin RoleIds /\ Custom \notin SystemRoles
  BY RbacAssumption DEF RoleIds, Names
<1>3. name \in SystemRoles => name \in Named(name)
  BY <1>1 DEF Named, NameOf
<1>4. role \in Named(name) \/ (role = None /\ Named(name) = {})
  BY DEF OneOf
<1>5. Named(name) \subseteq roles /\ \A x \in Named(name) : NameOf(x) = name
  BY DEF Named
<1> QED BY <1>1, <1>2, <1>3, <1>4, <1>5 DEF NameOf

\* Arrivals.
LEMMA StartKeeps ==
  ASSUME RbacInv, NEW r \in Requests,
         \/ \E u \in Users, name \in Names : AssignStart(r, u, name)
         \/ \E u \in Users, actor \in Users, name \in MayName : RevokeStart(r, u, name, actor)
         \/ \E name \in MayName : CreateRoleStart(r, name)
         \/ \E role \in roles \cup {None} :
              \/ \E code \in Codes : GrantStart(r, role, code) \/ RevokePermissionStart(r, role, code)
              \/ DeleteRoleStart(r, role)
  PROVE  RbacInv'
<1> USE DEF Denied, Done, Ended
<1>1. /\ roles \subseteq RoleIds /\ None \notin RoleIds /\ MayName \subseteq Names
      /\ Super # Default
  BY RbacAssumption DEF RbacInv, TypeOK, RoleIds, Names
<1>2. {"findMembership", "count", "saveRole", "findOrCreatePermission", "findPermission",
       "deleteRole", "ended"} \subseteq Places
  BY DEF Places, InFlightPlaces
<1>3. \A o \in {"assignRole", "assignDefault", "bootstrap", "revokeRole", "createRole",
                "grantPermission", "revokePermission", "deleteRole"} : o \in Operations
  BY DEF Operations
<1>4. ASSUME NEW u \in Users, NEW name \in Names, AssignStart(r, u, name)
      PROVE  RbacInv'
  <2>1. PICK role \in OneOf(Named(name)), op \in {"assignRole", "assignDefault", "bootstrap"} :
          /\ Arrive(r, op, [NoRequest EXCEPT !.user = u, !.role = role],
                    IF role = None /\ op = "assignRole" THEN "ended" ELSE "findMembership")
          /\ op = "assignDefault" => name = Default
          /\ op = "bootstrap" => name = Super
    BY <1>4 DEF AssignStart
  <2> DEFINE q == [NoRequest EXCEPT !.user = u, !.role = role]
  <2>2. Fresh(q) /\ (role # None => role \in RoleIds)
    BY <1>1, NamedRole, RequestFields DEF Fresh, Blank, NoRequest
  <2>3. op # "assignRole" => role = name /\ name \in SystemRoles
    BY <2>1, NamedRole DEF SystemRoles
  <2>4. pc[r] = "idle" /\ q.others = 0 /\ q.user = u /\ q.role = role
    BY <2>1 DEF Arrive, NoRequest
  <2>5. role = None => op = "assignRole"
    BY <2>3, <1>1 DEF RoleIds, SystemRoles
  <2>6. role # None => Fits(r, [q EXCEPT !.op = op], "findMembership")
    <3>1. op = "assignDefault" => role = Default
      BY <2>1, <2>3
    <3> QED BY <3>1, <2>2, <2>4, <1>3, StartFits
  <2> QED BY <2>1, <2>2, <2>5, <2>6, <1>2, <1>3, <1>4, ArriveKeeps DEF AssignStart
<1>5. ASSUME NEW u \in Users, NEW actor \in Users, NEW name \in MayName, RevokeStart(r, u, name, actor)
      PROVE  RbacInv'
  <2>1. PICK role \in OneOf(Named(name)) :
          Arrive(r, "revokeRole", [NoRequest EXCEPT !.user = u, !.role = role],
              IF role = None THEN Denied
              ELSE IF name # Super THEN "findMembership"
              ELSE IF u = actor THEN Denied ELSE "count")
    BY <1>5 DEF RevokeStart
  <2> DEFINE q == [NoRequest EXCEPT !.user = u, !.role = role]
  <2>2. Fresh(q) /\ (role # None => role \in RoleIds)
    BY <1>1, NamedRole, RequestFields DEF Fresh, Blank, NoRequest
  <2>3. role # None /\ name # Super => role # Super
    BY <1>1, NamedRole DEF NameOf, SystemRoles
  <2>4. pc[r] = "idle" /\ q.others = 0 /\ q.user = u /\ q.role = role
    BY <2>1 DEF Arrive, NoRequest
  <2>5. role # None /\ name # Super => Fits(r, [q EXCEPT !.op = "revokeRole"], "findMembership")
    BY <2>2, <2>3, <2>4, <1>3, StartFits
  <2>6. role # None => Fits(r, [q EXCEPT !.op = "revokeRole"], "count")
    BY <2>2, <2>4, <1>3, StartFits
  <2> QED BY <2>1, <2>2, <2>5, <2>6, <1>2, <1>3, <1>5, ArriveKeeps DEF RevokeStart
<1>6. ASSUME NEW name \in MayName, CreateRoleStart(r, name)
      PROVE  RbacInv'
  <2>1. PICK role \in OneOf(Named(name)) :
          Arrive(r, "createRole", [NoRequest EXCEPT !.role = role, !.seen = Named(name)],
              IF role = None THEN "saveRole" ELSE Done)
    BY <1>6 DEF CreateRoleStart
  <2> DEFINE q == [NoRequest EXCEPT !.role = role, !.seen = Named(name)]
  <2>2. /\ Named(name) \in SUBSET (MemberIds \cup RoleIds)
        /\ role \in roles \cup {None} /\ role \in RoleIds \cup {None}
    BY <1>1, NamedRole, ReadTypes DEF RbacInv
  <2>3. Fresh(q)
    BY <2>2, RequestFields DEF Fresh, Blank, NoRequest
  <2>4. role = None => q.seen = {}
    BY <1>1, NamedRole DEF NoRequest
  <2>5. pc[r] = "idle" /\ q.others = 0
    BY <2>1 DEF Arrive, NoRequest
  <2>6. role = None => Fits(r, [q EXCEPT !.op = "createRole"], "saveRole")
    BY <2>3, <2>4, <2>5, <1>3, StartFits
  <2> QED BY <2>1, <2>3, <2>6, <1>2, <1>3, <1>6, ArriveKeeps DEF CreateRoleStart
<1>7. ASSUME NEW role \in roles \cup {None}, NEW code \in Codes,
             GrantStart(r, role, code) \/ RevokePermissionStart(r, role, code)
      PROVE  RbacInv'
  <2> DEFINE q == [NoRequest EXCEPT !.role = role, !.code = code]
  <2>1. Fresh(q) /\ (role # None => role \in RoleIds) /\ q.others = 0
    BY <1>1, RequestFields DEF Fresh, Blank, NoRequest
  <2>2. pc[r] = "idle" /\ q.code = code /\ q.role = role
    BY <1>7 DEF GrantStart, RevokePermissionStart, Arrive, NoRequest
  <2>3. role # None => /\ Fits(r, [q EXCEPT !.op = "grantPermission"], "findOrCreatePermission")
                       /\ Fits(r, [q EXCEPT !.op = "revokePermission"], "findPermission")
    BY <2>1, <2>2, <1>3, StartFits
  <2>4. CASE GrantStart(r, role, code)
    BY <2>1, <2>3, <2>4, <1>2, <1>3, ArriveKeeps DEF GrantStart
  <2>5. CASE RevokePermissionStart(r, role, code)
    BY <2>1, <2>3, <2>5, <1>2, <1>3, ArriveKeeps DEF RevokePermissionStart
  <2> QED BY <1>7, <2>4, <2>5
<1>8. ASSUME NEW role \in roles \cup {None}, DeleteRoleStart(r, role)
      PROVE  RbacInv'
  <2> DEFINE q == [NoRequest EXCEPT !.role = role]
  <2>1. Fresh(q) /\ (role # None => role \in RoleIds) /\ q.others = 0
    BY <1>1, RequestFields DEF Fresh, Blank, NoRequest
  <2>2. pc[r] = "idle" /\ q.role = role
    BY <1>8 DEF DeleteRoleStart, Arrive, NoRequest
  <2>3. role \notin SystemRoles \cup {None} => Fits(r, [q EXCEPT !.op = "deleteRole"], "deleteRole")
    BY <2>1, <2>2, <1>3, StartFits
  <2> QED BY <2>1, <2>3, <1>2, <1>3, <1>8, ArriveKeeps DEF DeleteRoleStart
<1> QED BY <1>4, <1>5, <1>6, <1>7, <1>8

\* Lookups of a call on its way, and a call that fails.
LEMMA LookupKeeps ==
  ASSUME RbacInv, NEW r \in Requests,
         \/ FindMembership(r) \/ FindAssigned(r) \/ CountUsersWithRole(r)
         \/ FindOrCreatePermission(r) \/ FindLink(r) \/ FindPermission(r) \/ CallFails(r)
  PROVE  RbacInv'
<1> USE FitsParts, KeepsItself DEF Denied, Done, Failed, Ended
<1>1. memberOf[r] # None => req[r].seen = {} /\ pc[r] \in Created
  BY DEF RequestOK
<1>2. {"removeRole", "createMembership", "findAssigned", "saveAssigned", "invalidate", "findMembership",
       "findLink", "savePermission", "insertLink", "unlink", "ended"} \subseteq Places
  BY DEF Places, InFlightPlaces
<1>3. CASE FindMembership(r)
  <2> DEFINE seenBy(m) == IF m = None THEN MembersOf(req[r].user) ELSE {}
             q(m)      == [req[r] EXCEPT !.member = m, !.seen = seenBy(m)]
             place(m)  == IF req[r].op = "revokeRole"
                          THEN IF m = None THEN "ended" ELSE "removeRole"
                          ELSE IF m = None THEN "createMembership" ELSE "findAssigned"
  <2>1. PICK m \in OneOf(MembersOf(req[r].user)) : Continue(r, q(m), place(m))
    BY <1>3 DEF FindMembership
  <2>2. /\ m \in MemberIds \cup {None}
        /\ m # None => memberOf[m] = req[r].user
        /\ m = None => MembersOf(req[r].user) = {}
    BY RbacAssumption DEF OneOf, MembersOf, MemberIds
  <2>3. seenBy(m) = {}
    BY <2>2
  <2>4. q(m) \in Request
    BY <2>2, <2>3 DEF Request
  <2>5. /\ q(m).op = req[r].op /\ q(m).user = req[r].user /\ q(m).role = req[r].role
        /\ q(m).outlived = req[r].outlived /\ q(m).others = req[r].others
        /\ q(m).changed = req[r].changed /\ q(m).member = m /\ q(m).seen = {}
    BY <2>3 DEF Request
  <2>6. Keeps(r, q(m))
    BY <2>5 DEF Keeps
  <2>7. memberOf[r] = None
    BY <1>1, <1>3 DEF FindMembership, Created
  <2>8. m # None => m \in MemberIds
    BY <2>2
  <2>9. place(m) # "ended" => Fits(r, q(m), place(m))
    BY <1>3, <2>2, <2>5, <2>7, <2>8, Unknown
       DEF FindMembership, Fits, RequestOK, OutlivedOK, LoadOK, CountOK, HasUser, Assigning,
           Holding, Linking, Created, InFlightPlaces
  <2> QED BY <1>2, <1>3, <2>1, <2>4, <2>5, <2>6, <2>9, ContinueKeeps DEF FindMembership
<1>4. CASE FindAssigned(r)
  <2>1. \A place \in {"saveAssigned", "invalidate"} : Fits(r, req[r], place)
    BY <1>4 DEF FindAssigned, Fits, RequestOK, OutlivedOK, LoadOK, CountOK, HasUser,
           Assigning, Holding, Linking, Created, InFlightPlaces
  <2> QED BY <1>1, <1>2, <1>4, <2>1, ContinueKeeps DEF FindAssigned, AfterAssign
<1>5. CASE CountUsersWithRole(r)
  <2>1. Cardinality(SuperRows) \in Nat /\ req[r].others \in Nat
    BY FS_CardinalityType DEF RbacInv, Request
  <2>2. Cardinality(SuperRows) > 1 => Fits(r, req[r], "findMembership")
    BY <1>5, <2>1 DEF CountUsersWithRole, Fits, RequestOK, OutlivedOK, LoadOK, CountOK, HasUser,
           Assigning, Holding, Linking, Created, InFlightPlaces
  <2> QED BY <1>1, <1>2, <1>5, <2>1, <2>2, ContinueKeeps DEF CountUsersWithRole
<1>6. CASE FindOrCreatePermission(r)
  <2> DEFINE place == IF req[r].code \in catalog THEN "findLink" ELSE "savePermission"
  <2>1. Fits(r, req[r], place)
    BY <1>6 DEF FindOrCreatePermission, Fits, RequestOK, OutlivedOK, LoadOK, CountOK, HasUser,
           Assigning, Holding, Linking, Created, InFlightPlaces
  <2>2. Moves(r, req[r], place)
    BY <1>6 DEF FindOrCreatePermission, Moves, Goto, RbacInv, TypeOK
  <2> QED BY <1>2, <1>6, <2>1, <2>2, MoveKeeps DEF FindOrCreatePermission
<1>7. CASE FindLink(r)
  <2>1. Fits(r, req[r], "insertLink")
    BY <1>7 DEF FindLink, Fits, RequestOK, OutlivedOK, LoadOK, CountOK, HasUser,
           Assigning, Holding, Linking, Created, InFlightPlaces
  <2> QED BY <1>1, <1>2, <1>7, <2>1, ContinueKeeps DEF FindLink
<1>8. CASE FindPermission(r)
  <2>1. req[r].code \in catalog => Fits(r, req[r], "unlink")
    BY <1>8 DEF FindPermission, Fits, RequestOK, OutlivedOK, LoadOK, CountOK, HasUser,
           Assigning, Holding, Linking, Created, InFlightPlaces
  <2> QED BY <1>1, <1>2, <1>8, <2>1, ContinueKeeps DEF FindPermission
<1>9. CASE CallFails(r)
  <2>1. pc[r] # "ended"
    BY <1>9 DEF CallFails, InFlightPlaces
  <2> QED BY <1>1, <1>2, <1>9, <2>1, ContinueKeeps DEF CallFails
<1> QED BY <1>3, <1>4, <1>5, <1>6, <1>7, <1>8, <1>9

-----------------------------------------------------------------------------
(* Steps that change rows.                                                 *)

\* What EndWithout leaves of the requests.
LEMMA EndWithoutEffect ==
  ASSUME RbacInv, NEW r \in Requests, NEW gone, EndWithout(r, gone)
  PROVE  /\ pc' \in [Requests -> Places] /\ pc'[r] = Ended
         /\ req' \in [Requests -> Request]
         /\ cache' \in [Users -> Loaded \cup {None}]
         /\ \A u \in Users : cache'[u] = None \/ cache'[u].dated
         /\ req'[r].seen = req[r].seen /\ req'[r].op = None
         /\ req'[r].role \in {req[r].role, None}
         /\ req[r].outlived => req'[r].outlived /\ req'[r].role = req[r].role
         /\ \A s \in Requests : s # r =>
              /\ pc'[s] = pc[s]
              /\ \/ pc[s] \in {"findPermissions", "set"} /\ req'[s].loaded.dated
                 \/ ~(pc[s] \in {"findPermissions", "set"})
              /\ req[s].outlived => req'[s].outlived
              /\ pc[s] \in InFlightPlaces /\ req[s].role \in gone => req'[s].outlived
              /\ req'[s].op = req[s].op /\ req'[s].user = req[s].user
              /\ req'[s].role = req[s].role /\ req'[s].code = req[s].code
              /\ req'[s].member = req[s].member /\ req'[s].seen = req[s].seen
              /\ req'[s].others = req[s].others
              /\ req'[s].changed = req[s].changed
              /\ pc[s] \notin InFlightPlaces => req'[s].outlived = req[s].outlived
<1> USE DEF RbacInv, TypeOK
<1> DEFINE p(s) == [req[s] EXCEPT !.loaded.dated = @ \/ Loading(s),
                                  !.outlived = @ \/ (req[s].role \in gone /\ pc[s] \in InFlightPlaces)]
<1>1. /\ req' = [s \in Requests |-> IF s = r THEN Ghost(req[r]) ELSE p(s)]
      /\ cache' = [u \in Users |-> IF cache[u] = None THEN None ELSE [cache[u] EXCEPT !.dated = TRUE]]
      /\ pc' = [pc EXCEPT ![r] = Ended]
  BY DEF EndWithout, Goto, Done
<1>2. /\ Ghost(req[r]) \in Request /\ Ghost(req[r]).op = None /\ Ghost(req[r]).seen = req[r].seen
      /\ Ghost(req[r]).role = IF req[r].outlived THEN req[r].role ELSE None
      /\ Ghost(req[r]).outlived = req[r].outlived
  BY RequestTypes DEF Ghost, NoRequest
<1>3. ASSUME NEW s \in Requests
      PROVE  /\ p(s) \in Request
             /\ Loading(s) => p(s).loaded.dated
             /\ p(s).outlived = (req[s].outlived \/ (req[s].role \in gone /\ pc[s] \in InFlightPlaces))
             /\ p(s).op = req[s].op /\ p(s).user = req[s].user
             /\ p(s).role = req[s].role /\ p(s).code = req[s].code
             /\ p(s).member = req[s].member /\ p(s).seen = req[s].seen
             /\ p(s).others = req[s].others /\ p(s).changed = req[s].changed
  <2>1. req[s].loaded \in Loaded /\ req[s].outlived \in BOOLEAN
    BY DEF Request
  <2> DEFINE d == req[s].loaded.dated \/ Loading(s)
             o == req[s].outlived \/ (req[s].role \in gone /\ pc[s] \in InFlightPlaces)
  <2>2. d \in BOOLEAN /\ o \in BOOLEAN
    BY <2>1 DEF Loaded
  <2>3. [req[s] EXCEPT !.loaded.dated = d] \in Request
    BY <2>2, RequestTypes
  <2>4. p(s) = [[req[s] EXCEPT !.loaded.dated = d] EXCEPT !.outlived = o]
    BY DEF Request
  <2>5. p(s) \in Request
    BY <2>2, <2>3, <2>4, RequestTypes
  <2> QED BY <2>1, <2>5 DEF Request, Loaded
<1>4. ASSUME NEW s \in Requests, pc[s] \notin InFlightPlaces
      PROVE  p(s).outlived = req[s].outlived
  <2>1. req[s].outlived \in BOOLEAN
    BY DEF Request
  <2>2. p(s).outlived = (req[s].outlived \/ (req[s].role \in gone /\ pc[s] \in InFlightPlaces))
    BY <1>3
  <2> HIDE DEF p
  <2> QED BY <2>1, <2>2, <1>4
<1>5. \A u \in Users : cache[u] # None => [cache[u] EXCEPT !.dated = TRUE] \in Loaded
  BY DEF Loaded
<1>6. cache' \in [Users -> Loaded \cup {None}] /\ \A u \in Users : cache'[u] = None \/ cache'[u].dated
  BY <1>1, <1>5 DEF Loaded
<1>7. pc' \in [Requests -> Places] /\ pc'[r] = Ended /\ \A s \in Requests : s # r => pc'[s] = pc[s]
  BY <1>1 DEF Places
<1>8. /\ req' \in [Requests -> Request] /\ req'[r] = Ghost(req[r])
      /\ \A s \in Requests : s # r => req'[s] = p(s)
  BY <1>1, <1>2, <1>3
<1> HIDE DEF p
<1>9. ASSUME NEW s \in Requests, s # r
      PROVE  /\ req'[s] = p(s) /\ pc'[s] = pc[s]
             /\ Loading(s) => req'[s].loaded.dated
             /\ req[s].outlived \/ (req[s].role \in gone /\ pc[s] \in InFlightPlaces) => req'[s].outlived
  BY <1>3, <1>7, <1>8, <1>9
<1>10. /\ req'[r].seen = req[r].seen /\ req'[r].op = None
       /\ req'[r].role \in {req[r].role, None}
       /\ req[r].outlived => req'[r].outlived /\ req'[r].role = req[r].role
  BY <1>2, <1>8
<1> QED BY <1>3, <1>4, <1>6, <1>7, <1>8, <1>9, <1>10 DEF Loading

\* A change that ends with EndWithout: everything loaded or cached is
\* dated, and whoever goes on with a role of gone outlives it.
LEMMA EndWithoutKeeps ==
  ASSUME RbacInv, NEW r \in Requests, NEW gone, EndWithout(r, gone),
         pc[r] \in InFlightPlaces, req[r].role \in RoleIds,
         UNCHANGED <<memberOf, catalog>>,
         roles' \subseteq roles, SystemRoles \subseteq roles', roles \ roles' \subseteq gone,
         assigned' \subseteq assigned \cup ({m \in MemberIds : memberOf[m] # None} \X {req[r].role}),
         links' \subseteq links \cup ({req[r].role} \X catalog),
         gone \cap References' = {},
         IsFiniteSet(SuperRows'), Cardinality(SuperRows') >= Cardinality(SuperRows)
  PROVE  RbacInv'
<1> USE DEF RbacInv, TypeOK
<1>1. TypeOK'
  BY EndWithoutEffect
<1>2. References' \subseteq References \cup {req[r].role}
  BY DEF References
<1>3. RolesInv'
  <2>1. Known' \subseteq Known \cup {None}
    BY <1>2, EndWithoutEffect DEF Known
  <2> QED BY <2>1, EndWithoutEffect, RbacAssumption DEF RolesInv
<1>4. CacheExplained'
  BY EndWithoutEffect DEF CacheExplained
<1>5. OrphansExplained'
  <2> SUFFICES ASSUME NEW role \in References' \ roles'
               PROVE  \E s \in Requests : req'[s].role = role /\ req'[s].outlived
    BY DEF OrphansExplained
  <2>1. role \notin roles
    OBVIOUS
  <2>2. CASE role \in References
    <3>1. PICK s \in Requests : req[s].role = role /\ req[s].outlived
      BY <2>1, <2>2 DEF OrphansExplained
    <3> QED BY <3>1, EndWithoutEffect
  <2>3. CASE role = req[r].role
    <3>1. req[r].outlived
      BY <2>1, <2>3, FitsParts, RbacAssumption DEF OutlivedOK, RoleIds, Names
    <3> QED BY <2>3, <3>1, EndWithoutEffect
  <2> QED BY <1>2, <2>2, <2>3
<1>6. \A s \in Requests : Cardinality(SuperRows) \in Nat /\ Cardinality(SuperRows') \in Nat
                          /\ req[s].others \in Nat
  BY FS_CardinalityType DEF Request
<1>7. r \notin roles
  BY Unknown DEF InFlightPlaces, Ended
<1>8. ASSUME NEW s \in Requests PROVE Fits(s, req[s], pc[s])'
  <2>1. Fits(s, req[s], pc[s])
    OBVIOUS
  <2>2. CASE s = r
    <3>1. None \notin Operations
      BY RbacAssumption
    <3> QED BY <2>1, <2>2, <3>1, <1>7, EndWithoutEffect
          DEF Fits, RequestOK, OutlivedOK, LoadOK, CountOK, Ended, HasUser, Assigning, Holding,
              Linking, Created, InFlightPlaces, Operations
  <2>3. CASE s # r
    <3>1. RequestOK(s, req[s], pc[s])'
      BY <2>1, <2>3, EndWithoutEffect DEF Fits, RequestOK, InFlightPlaces
    <3>2. OutlivedOK(req[s], pc[s])'
      BY <2>1, <2>3, EndWithoutEffect DEF Fits, OutlivedOK
    <3>3. LoadOK(req[s], pc[s])'
      BY <2>3, EndWithoutEffect DEF LoadOK
    <3>4. CountOK(req[s], pc[s])'
      BY <2>1, <2>3, <1>6, EndWithoutEffect DEF Fits, CountOK
    <3> QED BY <3>1, <3>2, <3>3, <3>4 DEF Fits
  <2> QED BY <2>2, <2>3
<1> QED BY <1>1, <1>3, <1>4, <1>5, <1>8

\* A step of r that adds rows, or takes an assignment of its user.
LEMMA RowsKeep ==
  ASSUME RbacInv, NEW r \in Requests, pc[r] # Ended,
         TypeOK', IsFiniteSet(SuperRows'), UNCHANGED <<cache, links>>,
         roles \subseteq roles', roles' \subseteq roles \cup {r}, r \in roles' => pc'[r] = Ended,
         catalog \subseteq catalog',
         \A m \in MemberIds : memberOf[m] # None => memberOf'[m] = memberOf[m],
         \A s \in Requests \ {r} :
           /\ memberOf'[s] = memberOf[s] /\ pc'[s] = pc[s]
           /\ req'[s] \in {req[s], [req[s] EXCEPT !.others = @ + 1]}
           /\ CountOK(req[s], pc[s])',
         \A role \in References' \ References :
           req'[r].role = role /\ (role \in roles' \/ req'[r].outlived),
         \A u \in Users : HeldRoles(u)' = HeldRoles(u) \/ (req'[r].changed /\ req'[r].user = u),
         Keeps(r, req'[r]), Fits(r, req[r], pc[r])'
  PROVE  RbacInv'
<1> USE DEF RbacInv
<1>1. ASSUME NEW s \in Requests, s # r
      PROVE  /\ req'[s].op = req[s].op /\ req'[s].user = req[s].user
             /\ req'[s].role = req[s].role /\ req'[s].code = req[s].code
             /\ req'[s].member = req[s].member /\ req'[s].seen = req[s].seen
             /\ req'[s].found = req[s].found /\ req'[s].loaded = req[s].loaded
             /\ req'[s].changed = req[s].changed /\ req'[s].outlived = req[s].outlived
  BY <1>1 DEF TypeOK, Request
<1>2. \A u : ChangePending(u) => ChangePending(u)'
  BY <1>1 DEF ChangePending, Keeps
<1>3. RolesInv'
  <2>1. r \notin Known
    BY Unknown
  <2>2. \A s \in Requests : req'[s].role \in Known \cup {None}
    BY <1>1 DEF Known, Keeps
  <2>3. References' \subseteq Known \cup {None}
    BY <2>2 DEF Known
  <2>4. Known' \subseteq Known \cup {None} \cup roles'
    BY <2>2, <2>3 DEF Known
  <2>5. Known' \subseteq Known \cup {None, r}
    BY <2>4 DEF Known
  <2>6. r \in Known' => r \in roles'
    BY <2>1, <2>4, RbacAssumption
  <2> QED BY <2>5, <2>6, RbacAssumption DEF RolesInv
<1>4. \A R : RolesNamed(R)' = RolesNamed(R) /\ PermissionsOf(R)' = PermissionsOf(R)
  BY DEF RolesNamed, PermissionsOf
<1>5. \A u \in Users : ChangePending(u)' \/ (HeldRoles(u)' = HeldRoles(u) /\ AccessOf(u)' = AccessOf(u))
  BY <1>4 DEF AccessOf, ChangePending
<1>6. CacheExplained'
  BY <1>2, <1>5 DEF CacheExplained
<1>7. OrphansExplained'
  <2> SUFFICES ASSUME NEW role \in References' \ roles'
               PROVE  \E s \in Requests : req'[s].role = role /\ req'[s].outlived
    BY DEF OrphansExplained
  <2>1. CASE role \in References
    <3>1. PICK s \in Requests : req[s].role = role /\ req[s].outlived
      BY <2>1 DEF OrphansExplained
    <3> QED BY <3>1, <1>1 DEF Keeps
  <2> QED BY <2>1
<1>8. ASSUME NEW s \in Requests PROVE Fits(s, req[s], pc[s])'
  <2>1. CASE s = r
    BY <2>1
  <2>2. CASE s # r
    <3>1. RequestOK(s, req[s], pc[s]) /\ OutlivedOK(req[s], pc[s]) /\ LoadOK(req[s], pc[s])
      BY DEF Fits
    <3>2. RequestOK(s, req[s], pc[s])'
      <4>1. pc[s] \in Holding => req[s].member \in MemberIds /\ memberOf[req[s].member] = req[s].user
                                 /\ req[s].user \in Users
        BY <3>1 DEF RequestOK, Holding, HasUser
      <4>2. pc[s] \in Holding => memberOf'[req[s].member] = req[s].user
        BY <4>1, RbacAssumption
      <4> QED BY <2>2, <3>1, <4>2, <1>1 DEF RequestOK
    <3>3. OutlivedOK(req[s], pc[s])'
      BY <2>2, <3>1, <1>1 DEF OutlivedOK
    <3>4. LoadOK(req[s], pc[s])'
      <4>1. pc[s] \in {"findPermissions", "set"} => req[s].user \in Users
        BY <3>1 DEF RequestOK, HasUser
      <4> QED BY <2>2, <3>1, <4>1, <1>1, <1>2, <1>4, <1>5 DEF LoadOK
    <3> QED BY <2>2, <3>2, <3>3, <3>4 DEF Fits
  <2> QED BY <2>1, <2>2
<1> QED BY <1>3, <1>6, <1>7, <1>8

\* A new membership: nothing is assigned to it.
LEMMA CreateMembershipKeeps ==
  ASSUME RbacInv, NEW r \in Requests, CreateMembership(r)
  PROVE  RbacInv'
<1> USE DEF RbacInv, TypeOK
<1>1. /\ pc[r] = "createMembership" /\ pc' = [pc EXCEPT ![r] = "findAssigned"]
      /\ req' = [req EXCEPT ![r].member = r]
      /\ memberOf' = [memberOf EXCEPT ![r] = req[r].user]
      /\ UNCHANGED <<roles, catalog, links, assigned, cache>>
  BY DEF CreateMembership, Goto, roleRows
<1>2. RequestOK(r, req[r], pc[r]) /\ OutlivedOK(req[r], pc[r])
  BY FitsParts
<1>3. /\ req[r].user \in Users /\ memberOf[r] = None /\ req[r].seen = {} /\ r \in MemberIds
      /\ req[r].role \in RoleIds
  BY <1>1, <1>2 DEF RequestOK, HasUser, Created, Ended, MemberIds, Assigning
<1>4. /\ [req[r] EXCEPT !.member = r] \in Request
      /\ "findAssigned" \in Places /\ "findAssigned" # Ended /\ pc[r] # Ended
  BY <1>1, <1>3 DEF Request, Places, InFlightPlaces, Ended
<1>5. /\ req'[r] \in Request /\ req'[r].op = req[r].op /\ req'[r].user = req[r].user
      /\ req'[r].role = req[r].role /\ req'[r].member = r /\ req'[r].seen = {}
      /\ req'[r].changed = req[r].changed /\ req'[r].outlived = req[r].outlived
  BY <1>1, <1>3, <1>4 DEF Request
<1>6. None \notin Users
  BY RbacAssumption
<1>7. TypeOK'
  BY <1>1, <1>3, <1>4, <1>6
<1>8. SuperRows' = SuperRows /\ References' = References
  BY <1>1 DEF SuperRows, References
<1>9. \A u \in Users : HeldRoles(u)' = HeldRoles(u)
  <2> SUFFICES ASSUME NEW u \in Users, NEW role \in roles
               PROVE  (\E m \in MembersOf(u)' : <<m, role>> \in assigned)
                        <=> (\E m \in MembersOf(u) : <<m, role>> \in assigned)
    BY <1>1 DEF HeldRoles
  <2>1. \A m \in MemberIds : <<m, role>> \in assigned => memberOf[m] # None
    OBVIOUS
  <2> QED BY <2>1, <1>1, <1>3, <1>6 DEF MembersOf
<1>10. \A s \in Requests \ {r} :
         /\ memberOf'[s] = memberOf[s] /\ pc'[s] = pc[s] /\ req'[s] = req[s]
         /\ CountOK(req[s], pc[s])'
  BY <1>1, <1>8, FitsParts DEF CountOK
<1>11. Fits(r, req[r], pc[r])'
  <2>1. r \notin roles
    BY <1>4, Unknown
  <2> QED BY <1>1, <1>2, <1>3, <1>5, <2>1 DEF Fits, RequestOK, OutlivedOK, LoadOK, CountOK, HasUser,
         Assigning, Holding, Linking, Created, InFlightPlaces
<1>12. Keeps(r, req'[r])
  BY <1>5 DEF Keeps
<1>13. \A m \in MemberIds : memberOf[m] # None => memberOf'[m] = memberOf[m]
  BY <1>1, <1>3
<1> QED BY <1>1, <1>3, <1>4, <1>7, <1>8, <1>9, <1>10, <1>11, <1>12, <1>13, Unknown, RowsKeep

\* A new assignment is announced, or it dates everything.
LEMMA SaveAssignedKeeps ==
  ASSUME RbacInv, NEW r \in Requests, SaveAssigned(r)
  PROVE  RbacInv'
<1> USE DEF RbacInv, TypeOK
<1> DEFINE row == <<req[r].member, req[r].role>>
<1>1. /\ pc[r] = "saveAssigned" /\ assigned' = assigned \cup {row}
      /\ UNCHANGED <<roles, catalog, links, memberOf>>
  BY DEF SaveAssigned, roleRows
<1>2. RequestOK(r, req[r], pc[r]) /\ OutlivedOK(req[r], pc[r])
  BY FitsParts
<1>3. /\ req[r].user \in Users /\ req[r].member \in MemberIds
      /\ memberOf[req[r].member] = req[r].user /\ req[r].role \in RoleIds
      /\ memberOf[r] # None => req[r].seen = {}
  BY <1>1, <1>2 DEF RequestOK, HasUser, Holding, Assigning
<1>4. None \notin Users /\ None \notin RoleIds
  BY RbacAssumption DEF RoleIds, Names
<1>5. assigned' \subseteq {m \in MemberIds : memberOf[m] # None} \X RoleIds
  BY <1>1, <1>3, <1>4
<1>6. /\ IsFiniteSet(SuperRows') /\ Cardinality(SuperRows') >= Cardinality(SuperRows)
      /\ Cardinality(SuperRows) \in Nat /\ Cardinality(SuperRows') \in Nat
  <2>1. IsFiniteSet(SuperRows \cup {row})
    BY FS_AddElement
  <2>2. SuperRows' = SuperRows \/ SuperRows' = SuperRows \cup {row}
    BY <1>1 DEF SuperRows
  <2>3. IsFiniteSet(SuperRows') /\ SuperRows \subseteq SuperRows'
    BY <2>1, <2>2
  <2> QED BY <2>3, FS_Subset, FS_CardinalityType
<1>7. References' = References \cup {req[r].role}
  <2>1. {a[2] : a \in assigned'} = {a[2] : a \in assigned} \cup {row[2]} /\ row[2] = req[r].role
    BY <1>1
  <2>2. {l[1] : l \in links'} = {l[1] : l \in links}
    BY <1>1
  <2> HIDE DEF row
  <2> QED BY <2>1, <2>2 DEF References
<1>8. "saveAssigned" \in InFlightPlaces /\ pc[r] # Ended
  BY <1>1 DEF InFlightPlaces, Ended
<1>9. CASE req[r].op = "bootstrap"
  <2>1. EndWithout(r, {})
    BY <1>9 DEF SaveAssigned, EndUnannounced
  <2> QED BY <2>1, <1>1, <1>3, <1>4, <1>6, <1>8, EndWithoutKeeps DEF RolesInv
<1>10. CASE req[r].op # "bootstrap"
  <2> DEFINE q == [req[r] EXCEPT !.changed = TRUE]
  <2>1. /\ req' = [req EXCEPT ![r] = q] /\ pc' = [pc EXCEPT ![r] = "invalidate"]
        /\ UNCHANGED cache
    BY <1>10 DEF SaveAssigned, Continue, AfterAssign, Goto, Ended
  <2>2. q \in Request
    BY DEF Request
  <2>3. /\ q.op = req[r].op /\ q.user = req[r].user /\ q.role = req[r].role /\ q.seen = req[r].seen
        /\ q.changed /\ q.outlived = req[r].outlived
    BY DEF Request
  <2>4. TypeOK'
    BY <1>1, <1>5, <2>1, <2>2 DEF Places, InFlightPlaces
  <2>5. Fits(r, req[r], pc[r])'
    <3>1. r \notin roles
      BY <1>8, Unknown
    <3>2. req'[r] = q /\ pc'[r] = "invalidate"
      BY <2>1
    <3> HIDE DEF q
    <3> QED BY <1>1, <1>2, <1>3, <2>3, <3>1, <3>2
          DEF Fits, RequestOK, OutlivedOK, LoadOK, CountOK, HasUser, Assigning, Holding, Linking,
              Created, InFlightPlaces
  <2>6. \A u \in Users : HeldRoles(u)' = HeldRoles(u) \/ u = req[r].user
    BY <1>1, <1>3 DEF HeldRoles, MembersOf
  <2>7. \A s \in Requests \ {r} : memberOf'[s] = memberOf[s] /\ pc'[s] = pc[s] /\ req'[s] = req[s]
    BY <1>1, <2>1
  <2>8. \A s \in Requests \ {r} : CountOK(req[s], pc[s])'
    <3>1. \A s \in Requests : req[s].others \in Nat
      BY DEF Request
    <3> QED BY <2>7, <3>1, <1>6, FitsParts DEF CountOK
  <2>9. Keeps(r, req'[r]) /\ req'[r].changed /\ req'[r].user = req[r].user /\ req'[r].role = req[r].role
    BY <2>1, <2>3 DEF Keeps
  <2>10. req[r].role \in roles' \/ req'[r].outlived
    BY <1>1, <1>2, <1>3, <1>4, <1>8, <2>1, <2>3 DEF OutlivedOK
  <2>11. r \notin roles'
    BY <1>1, <1>8, Unknown
  <2>12. \A role \in References' \ References :
           req'[r].role = role /\ (role \in roles' \/ req'[r].outlived)
    BY <1>7, <2>9, <2>10
  <2>13. \A u \in Users : HeldRoles(u)' = HeldRoles(u) \/ (req'[r].changed /\ req'[r].user = u)
    BY <2>6, <2>9
  <2>14. UNCHANGED <<roles, catalog, memberOf, cache, links>>
    BY <1>1, <2>1
  <2> HIDE DEF q, row
  <2> QED BY <1>6, <1>8, <2>4, <2>5, <2>7, <2>8, <2>9, <2>11, <2>12, <2>13, <2>14, RowsKeep
<1> QED BY <1>9, <1>10

\* A revocation overtakes those that have counted: they have counted one
\* holder more.
LEMMA RemoveRoleKeeps ==
  ASSUME RbacInv, NEW r \in Requests, RemoveRole(r)
  PROVE  RbacInv'
<1> USE DEF RbacInv, TypeOK
<1> DEFINE row == <<req[r].member, req[r].role>>
<1>1. pc[r] = "removeRole" /\ UNCHANGED <<roles, catalog, links, memberOf, cache>>
  BY DEF RemoveRole, roleRows
<1>2. RequestOK(r, req[r], pc[r]) /\ OutlivedOK(req[r], pc[r])
  BY FitsParts
<1>3. /\ req[r].user \in Users /\ req[r].member \in MemberIds
      /\ memberOf[req[r].member] = req[r].user /\ req[r].role \in RoleIds
      /\ memberOf[r] = None
  BY <1>1, <1>2 DEF RequestOK, HasUser, Holding, Assigning, Created, Ended
<1>4. "removeRole" \in InFlightPlaces /\ pc[r] # Ended
  BY <1>1 DEF InFlightPlaces, Ended
<1>5. CASE row \notin assigned
  <2>1. Continue(r, req[r], Ended) /\ UNCHANGED <<store, cache>>
    BY <1>5 DEF RemoveRole, Denied, store, membershipRows, roleRows
  <2> QED BY <2>1, <1>3, <1>4, KeepsItself, EndKeeps
<1>6. CASE row \in assigned
  <2>1. /\ assigned' = assigned \ {row}
        /\ req' = [s \in Requests |->
                     IF s = r THEN [req[s] EXCEPT !.changed = TRUE]
                     ELSE IF row \in SuperRows /\ pc[s] \in {"findMembership", "removeRole"}
                     THEN [req[s] EXCEPT !.others = @ + 1] ELSE req[s]]
        /\ pc' = [pc EXCEPT ![r] = "invalidate"]
    BY <1>6 DEF RemoveRole, Goto
  <2>2. ASSUME NEW s \in Requests
        PROVE  /\ [req[s] EXCEPT !.changed = TRUE] \in Request
               /\ [req[s] EXCEPT !.others = @ + 1] \in Request
               /\ [req[s] EXCEPT !.others = @ + 1].others = req[s].others + 1
               /\ [req[s] EXCEPT !.others = @ + 1].op = req[s].op
               /\ [req[s] EXCEPT !.others = @ + 1].role = req[s].role
    <3>1. req[s] \in Request /\ req[s].others \in Nat /\ req[s].others + 1 \in Nat
      BY DEF Request
    <3> QED BY <3>1 DEF Request
  <2>3. TypeOK'
    BY <1>1, <2>1, <2>2 DEF Places, InFlightPlaces
  <2>4. SuperRows' = SuperRows \ {row}
    BY <2>1 DEF SuperRows
  <2>5. /\ IsFiniteSet(SuperRows')
        /\ row \in SuperRows => Cardinality(SuperRows') = Cardinality(SuperRows) - 1
        /\ row \notin SuperRows => SuperRows' = SuperRows
        /\ Cardinality(SuperRows) \in Nat
    BY <2>4, FS_RemoveElement, FS_CardinalityType
  <2>6. References' \subseteq References
    BY <1>1, <2>1 DEF References
  <2>7. /\ req'[r] = [req[r] EXCEPT !.changed = TRUE] /\ pc'[r] = "invalidate"
        /\ req'[r].op = req[r].op /\ req'[r].user = req[r].user /\ req'[r].role = req[r].role
        /\ req'[r].changed /\ req'[r].outlived = req[r].outlived /\ req'[r].seen = req[r].seen
    BY <2>1 DEF Request
  <2>8. \A s \in Requests \ {r} :
          /\ memberOf'[s] = memberOf[s] /\ pc'[s] = pc[s]
          /\ req'[s] \in {req[s], [req[s] EXCEPT !.others = @ + 1]}
          /\ row \in SuperRows /\ pc[s] \in {"findMembership", "removeRole"} =>
               req'[s] = [req[s] EXCEPT !.others = @ + 1]
          /\ ~(row \in SuperRows /\ pc[s] \in {"findMembership", "removeRole"}) => req'[s] = req[s]
    BY <1>1, <2>1
  <2>9. \A s \in Requests \ {r} : CountOK(req[s], pc[s])'
    <3> SUFFICES ASSUME NEW s \in Requests \ {r} PROVE CountOK(req[s], pc[s])'
      OBVIOUS
    <3>1. CountOK(req[s], pc[s]) /\ req[s].others \in Nat /\ pc'[s] = pc[s]
      BY <2>8, FitsParts DEF Request
    <3>2. CASE row \in SuperRows /\ pc[s] \in {"findMembership", "removeRole"}
      <4>1. /\ req'[s].op = req[s].op /\ req'[s].role = req[s].role
            /\ req'[s].others = req[s].others + 1
        BY <2>2, <2>8, <3>2
      <4> QED BY <2>5, <3>1, <3>2, <4>1 DEF CountOK
    <3>3. CASE ~(row \in SuperRows /\ pc[s] \in {"findMembership", "removeRole"})
      BY <2>5, <2>8, <3>1, <3>3 DEF CountOK
    <3> QED BY <3>2, <3>3
  <2>10. \A u \in Users : HeldRoles(u)' = HeldRoles(u) \/ u = req[r].user
    BY <1>1, <1>3, <2>1 DEF HeldRoles, MembersOf
  <2>11. r \notin roles
    BY <1>4, Unknown
  <2>12. Fits(r, req[r], pc[r])'
    <3> QED BY <1>1, <1>2, <1>3, <1>4, <2>7, <2>11
          DEF Fits, RequestOK, OutlivedOK, LoadOK, CountOK, HasUser, Assigning, Holding, Linking,
              Created, InFlightPlaces
  <2>13. Keeps(r, req'[r])
    BY <2>7 DEF Keeps
  <2>14. \A u \in Users : HeldRoles(u)' = HeldRoles(u) \/ (req'[r].changed /\ req'[r].user = u)
    BY <2>7, <2>10
  <2> HIDE DEF row
  <2> QED BY <1>1, <1>4, <2>3, <2>5, <2>6, <2>8, <2>9, <2>11, <2>12, <2>13, <2>14, RowsKeep
<1> QED BY <1>5, <1>6

\* Nothing refers to a role before it is created.
LEMMA SaveRoleKeeps ==
  ASSUME RbacInv, NEW r \in Requests, SaveRole(r)
  PROVE  RbacInv'
<1> USE DEF RbacInv, TypeOK
<1>1. /\ pc[r] = "saveRole" /\ roles' = roles \cup {r}
      /\ req' = [req EXCEPT ![r] = Ghost(req[r])] /\ pc' = [pc EXCEPT ![r] = Ended]
      /\ UNCHANGED <<memberOf, assigned, catalog, links, cache>>
  BY DEF SaveRole, Continue, Goto, Done, membershipRows
<1>2. RequestOK(r, req[r], pc[r]) /\ r \notin Known /\ r \in RoleIds /\ pc[r] # Ended
  BY <1>1, FitsParts, Unknown DEF RoleIds, Ended
<1>3. /\ Ghost(req[r]) \in Request /\ Ghost(req[r]).op = None
      /\ Ghost(req[r]).seen = req[r].seen /\ Ghost(req[r]).changed = req[r].changed
      /\ req[r].changed => Ghost(req[r]).user = req[r].user
      /\ Ghost(req[r]).outlived = req[r].outlived
      /\ Ghost(req[r]).role = IF req[r].outlived THEN req[r].role ELSE None
  BY RequestTypes DEF Ghost, NoRequest
<1>4. TypeOK'
  BY <1>1, <1>2, <1>3 DEF Places
<1>5. SuperRows' = SuperRows /\ References' = References
  BY <1>1 DEF SuperRows, References
<1>6. \A u \in Users : HeldRoles(u)' = HeldRoles(u)
  <2>1. \A m : <<m, r>> \notin assigned
    BY <1>2 DEF Known, References
  <2> QED BY <1>1, <2>1 DEF HeldRoles, MembersOf
<1>7. \A s \in Requests \ {r} :
        /\ memberOf'[s] = memberOf[s] /\ pc'[s] = pc[s] /\ req'[s] = req[s]
        /\ CountOK(req[s], pc[s])'
  BY <1>1, <1>5, FitsParts DEF CountOK
<1>8. Keeps(r, req'[r])
  BY <1>1, <1>3 DEF Keeps
<1>9. Fits(r, req[r], pc[r])'
  <2>1. req[r].seen = {}
    BY <1>1, <1>2 DEF RequestOK
  <2>2. None \notin Operations
    BY RbacAssumption
  <2> QED BY <1>1, <1>3, <2>1, <2>2 DEF Fits, RequestOK, OutlivedOK, LoadOK, CountOK, Ended,
         HasUser, Assigning, Holding, Linking, Created, InFlightPlaces, Operations
<1> QED BY <1>1, <1>2, <1>4, <1>5, <1>6, <1>7, <1>8, <1>9, RowsKeep

\* A new permission code.
LEMMA SavePermissionKeeps ==
  ASSUME RbacInv, NEW r \in Requests, SavePermission(r)
  PROVE  RbacInv'
<1> USE DEF RbacInv, TypeOK
<1>1. /\ pc[r] = "savePermission" /\ catalog' = catalog \cup {req[r].code}
      /\ Continue(r, req[r], IF req[r].code \in catalog THEN Failed ELSE "findLink")
      /\ UNCHANGED <<roles, memberOf, assigned, links, cache>>
  BY DEF SavePermission, membershipRows
<1>2. /\ RequestOK(r, req[r], pc[r]) /\ OutlivedOK(req[r], pc[r]) /\ r \notin roles /\ pc[r] # Ended
  BY <1>1, FitsParts, Unknown DEF Ended
<1>3. req[r].code \in Codes /\ memberOf[r] = None /\ req[r].role \in RoleIds
  BY <1>1, <1>2 DEF RequestOK, Linking, Created, Ended
<1>4. CASE req[r].code \in catalog
  <2>1. UNCHANGED <<store, cache>> /\ Continue(r, req[r], Ended)
    BY <1>1, <1>4 DEF store, roleRows, membershipRows, Failed
  <2> QED BY <1>2, <1>3, <2>1, KeepsItself, EndKeeps
<1>5. CASE req[r].code \notin catalog
  <2>1. req' = [req EXCEPT ![r] = req[r]] /\ pc' = [pc EXCEPT ![r] = "findLink"]
    BY <1>1, <1>5 DEF Continue, Goto, Ended
  <2>2. req' = req /\ pc'[r] = "findLink"
    BY <2>1
  <2>3. TypeOK'
    BY <1>1, <1>3, <2>1, <2>2 DEF Places, InFlightPlaces
  <2>4. SuperRows' = SuperRows /\ References' = References
    BY <1>1 DEF SuperRows, References
  <2>5. \A u \in Users : HeldRoles(u)' = HeldRoles(u)
    BY <1>1 DEF HeldRoles, MembersOf
  <2>6. \A s \in Requests \ {r} :
          /\ memberOf'[s] = memberOf[s] /\ pc'[s] = pc[s] /\ req'[s] = req[s]
          /\ CountOK(req[s], pc[s])'
    BY <1>1, <2>1, <2>2, <2>4, FitsParts DEF CountOK
  <2>7. Fits(r, req[r], pc[r])'
    BY <1>1, <1>2, <1>3, <2>2 DEF Fits, RequestOK, OutlivedOK, LoadOK, CountOK, HasUser, Assigning,
       Holding, Linking, Created, InFlightPlaces
  <2>8. Keeps(r, req'[r])
    BY <2>2, KeepsItself
  <2> QED BY <1>1, <1>2, <2>3, <2>4, <2>5, <2>6, <2>7, <2>8, RowsKeep
<1> QED BY <1>4, <1>5

\* Changes of a role that invalidate nothing.
LEMMA UnannouncedKeeps ==
  ASSUME RbacInv, NEW r \in Requests, InsertLink(r) \/ Unlink(r) \/ DeleteRole(r)
  PROVE  RbacInv'
<1> USE DEF RbacInv, TypeOK
<1>1. RequestOK(r, req[r], pc[r]) /\ pc[r] \in {"insertLink", "unlink", "deleteRole"}
  BY FitsParts DEF InsertLink, Unlink, DeleteRole
<1>2. /\ pc[r] \in InFlightPlaces /\ pc[r] # Ended /\ req[r].role \in RoleIds
      /\ pc[r] # "deleteRole" => req[r].code \in catalog
      /\ memberOf[r] = None
  BY <1>1 DEF RequestOK, InFlightPlaces, Linking, Created, Ended
<1>3. CASE Continue(r, req[r], Ended) /\ UNCHANGED <<store, cache>>
  BY <1>2, <1>3, KeepsItself, EndKeeps
<1>4. Cardinality(SuperRows) \in Nat
  BY FS_CardinalityType
<1>5. CASE InsertLink(r) \/ Unlink(r)
  <2> DEFINE link == <<req[r].role, req[r].code>>
  <2>1. CASE EndWithout(r, {}) /\ (links' = links \cup {link} \/ links' = links \ {link})
    <3>1. UNCHANGED <<memberOf, assigned, roles, catalog>>
      BY <1>5 DEF InsertLink, Unlink, membershipRows
    <3>2. SuperRows' = SuperRows
      BY <3>1 DEF SuperRows
    <3>3. links' \subseteq links \cup ({req[r].role} \X catalog)
      BY <1>1, <1>2, <1>5, <2>1 DEF InsertLink, Unlink
    <3> QED BY <1>2, <1>4, <2>1, <3>1, <3>2, <3>3, EndWithoutKeeps DEF RolesInv
  <2> QED BY <1>3, <1>5, <2>1 DEF InsertLink, Unlink, EndUnannounced, Failed, Denied, store, roleRows,
         membershipRows
<1>6. CASE DeleteRole(r)
  <2> DEFINE role == req[r].role
  <2>1. CASE role \in roles
    <3>1. /\ assigned' = {a \in assigned : a[2] # role}
          /\ links' = {l \in links : l[1] # role}
          /\ roles' = roles \ {role} /\ EndWithout(r, {role})
          /\ UNCHANGED <<memberOf, catalog>>
      BY <1>6, <2>1 DEF DeleteRole
    <3>2. role \notin SystemRoles
      BY <1>1, <1>6 DEF DeleteRole, RequestOK
    <3>3. SuperRows' = SuperRows
      BY <3>1, <3>2 DEF SuperRows, SystemRoles
    <3>4. {role} \cap References' = {}
      BY <3>1 DEF References
    <3>5. SystemRoles \subseteq roles' /\ roles' \subseteq roles /\ roles \ roles' \subseteq {role}
      BY <3>1, <3>2 DEF RolesInv
    <3> HIDE DEF role
    <3> QED BY <1>2, <1>4, <3>1, <3>3, <3>4, <3>5, EndWithoutKeeps
  <2> QED BY <1>3, <1>6, <2>1 DEF DeleteRole, Failed, store, roleRows, membershipRows
<1> QED BY <1>5, <1>6

-----------------------------------------------------------------------------
(* Steps that change the cache.                                            *)

\* A load is stored with what explains it.
LEMMA SetKeeps ==
  ASSUME RbacInv, NEW r \in Requests, Set(r)
  PROVE  RbacInv'
<1> USE DEF RbacInv, TypeOK
<1> DEFINE q == Ghost(req[r])
           u == req[r].user
<1>1. /\ pc[r] = "set" /\ cache' = [cache EXCEPT ![u] = req[r].loaded]
      /\ req' = [req EXCEPT ![r] = q] /\ pc' = [pc EXCEPT ![r] = Ended]
      /\ UNCHANGED <<roles, memberOf, assigned, catalog, links>>
  BY DEF Set, Continue, Goto, Done, store, roleRows, membershipRows
<1>2. /\ RequestOK(r, req[r], pc[r]) /\ LoadOK(req[r], pc[r]) /\ r \notin roles
      /\ pc[r] # Ended /\ r \notin Known
  BY <1>1, FitsParts, Unknown DEF Ended
<1>3. /\ u \in Users /\ req[r].loaded \in Loaded
      /\ memberOf[r] # None => req[r].seen = {}
  BY <1>1, <1>2, FitsParts DEF RequestOK, HasUser, Request
<1>4. /\ q \in Request /\ q.op = None
      /\ q.seen = req[r].seen /\ q.changed = req[r].changed
      /\ req[r].changed => q.user = u
      /\ q.outlived = req[r].outlived
      /\ q.role = IF req[r].outlived THEN req[r].role ELSE None
  BY RequestTypes DEF Ghost, NoRequest
<1> HIDE DEF q
<1>5. /\ req' \in [Requests -> Request] /\ pc' \in [Requests -> Places]
      /\ cache' \in [Users -> Loaded \cup {None}]
      /\ req'[r] = q /\ pc'[r] = Ended
      /\ \A s \in Requests \ {r} : req'[s] = req[s] /\ pc'[s] = pc[s]
  BY <1>1, <1>3, <1>4 DEF Places
<1>6. TypeOK' /\ SuperRows' = SuperRows /\ References' = References
  BY <1>1, <1>5 DEF SuperRows, References
<1>7. /\ \A v : HeldRoles(v)' = HeldRoles(v) /\ AccessOf(v)' = AccessOf(v)
      /\ \A R : RolesNamed(R)' = RolesNamed(R)
  BY <1>1 DEF HeldRoles, AccessOf, MembersOf, RolesNamed, PermissionsOf
<1>8. \A v : ChangePending(v) => ChangePending(v)'
  BY <1>4, <1>5 DEF ChangePending
<1>9. RolesInv'
  <2>1. Known' \subseteq Known \cup {None}
    BY <1>1, <1>4, <1>5, <1>6 DEF Known
  <2> QED BY <1>1, <1>2, <1>5, <2>1, RbacAssumption DEF RolesInv
<1>10. CacheExplained'
  <2> SUFFICES ASSUME NEW v \in Users
               PROVE  \/ cache'[v] = None \/ cache'[v].raced \/ cache'[v].dated
                      \/ ChangePending(v)' \/ cache'[v].access = AccessOf(v)'
    BY DEF CacheExplained
  <2>1. CASE v = u
    BY <1>1, <1>2, <1>3, <1>7, <1>8, <2>1 DEF LoadOK
  <2>2. CASE v # u
    <3>1. cache'[v] = cache[v]
      BY <1>1, <2>2
    <3> QED BY <1>7, <1>8, <3>1 DEF CacheExplained
  <2> QED BY <2>1, <2>2
<1>11. OrphansExplained'
  <2> SUFFICES ASSUME NEW role \in References \ roles
               PROVE  \E s \in Requests : req'[s].role = role /\ req'[s].outlived
    BY <1>1, <1>6 DEF OrphansExplained
  <2>1. PICK s \in Requests : req[s].role = role /\ req[s].outlived
    BY DEF OrphansExplained
  <2> QED BY <1>4, <1>5, <2>1
<1>12. ASSUME NEW s \in Requests PROVE Fits(s, req[s], pc[s])'
  <2>1. CASE s = r
    <3>1. None \notin Operations
      BY RbacAssumption
    <3> QED BY <1>1, <1>2, <1>3, <1>4, <1>5, <2>1, <3>1 DEF Fits, RequestOK, OutlivedOK,
               LoadOK, CountOK,
          Ended, HasUser, Assigning, Holding, Linking, Created, InFlightPlaces, Operations
  <2>2. CASE s # r
    BY <1>1, <1>5, <1>6, <1>7, <1>8, <2>2 DEF Fits, RequestOK, OutlivedOK, LoadOK, CountOK
  <2> QED BY <2>1, <2>2
<1> QED BY <1>6, <1>9, <1>10, <1>11, <1>12

\* An invalidation takes the entry, and whoever has loaded it meanwhile
\* is raced: the change it announces no longer needs to explain anything.
LEMMA InvalidateKeeps ==
  ASSUME RbacInv, NEW r \in Requests, InvalidateCache(r)
  PROVE  RbacInv'
<1> USE DEF RbacInv, TypeOK
<1> DEFINE u == req[r].user
           q == IF AfterInvalidate(r) = Ended THEN NoRequest ELSE [req[r] EXCEPT !.changed = FALSE]
<1>1. /\ pc[r] = "invalidate" /\ cache' = [cache EXCEPT ![u] = None]
      /\ req' = [s \in Requests |->
                   IF s = r THEN q
                   ELSE IF Loading(s) /\ req[s].user = u
                   THEN [req[s] EXCEPT !.loaded.raced = TRUE] ELSE req[s]]
      /\ pc' = [pc EXCEPT ![r] = AfterInvalidate(r)]
      /\ UNCHANGED <<roles, memberOf, assigned, catalog, links>>
  BY DEF InvalidateCache, Goto, store, roleRows, membershipRows
<1>2. /\ RequestOK(r, req[r], pc[r]) /\ OutlivedOK(req[r], pc[r]) /\ r \notin roles
      /\ pc[r] # Ended /\ r \notin Known
  BY <1>1, FitsParts, Unknown DEF Ended
<1>3. /\ u \in Users /\ (memberOf[r] # None => req[r].seen = {})
      /\ req[r].op = "assignDefault" => req[r].role = Default
  BY <1>1, <1>2 DEF RequestOK, HasUser
<1>4. /\ AfterInvalidate(r) \in {Ended, "get"} /\ {Ended, "get"} \subseteq Places
      /\ AfterInvalidate(r) = Ended => req[r].op = "assignDefault"
  BY DEF AfterInvalidate, Done, Ended, Places, InFlightPlaces
<1>5. q \in Request
  BY RequestTypes
<1>6. /\ AfterInvalidate(r) # Ended => /\ q.op = req[r].op /\ q.user = u /\ q.role = req[r].role
                                       /\ q.seen = req[r].seen /\ q.outlived = req[r].outlived
      /\ AfterInvalidate(r) = Ended => q.op = None /\ q.seen = {} /\ q.role = None
  BY DEF NoRequest, Request
<1> HIDE DEF q
<1>7. ASSUME NEW s \in Requests, s # r
      PROVE  /\ req'[s] \in Request /\ pc'[s] = pc[s]
             /\ req'[s].op = req[s].op /\ req'[s].user = req[s].user
             /\ req'[s].role = req[s].role /\ req'[s].code = req[s].code
             /\ req'[s].member = req[s].member /\ req'[s].seen = req[s].seen
             /\ req'[s].found = req[s].found /\ req'[s].others = req[s].others
             /\ req'[s].changed = req[s].changed /\ req'[s].outlived = req[s].outlived
             /\ IF Loading(s) /\ req[s].user = u THEN req'[s].loaded.raced
                ELSE req'[s].loaded = req[s].loaded
  <2>1. CASE Loading(s) /\ req[s].user = u
    <3>1. req'[s] = [req[s] EXCEPT !.loaded.raced = TRUE] /\ pc'[s] = pc[s]
      BY <1>1, <1>7, <2>1
    <3>2. req'[s] \in Request
      BY <3>1, RequestTypes
    <3> QED BY <2>1, <3>1, <3>2 DEF Request, Loaded
  <2>2. CASE ~(Loading(s) /\ req[s].user = u)
    BY <1>1, <1>7, <2>2
  <2> QED BY <2>1, <2>2
<1>8. /\ req'[r] = q /\ pc'[r] = AfterInvalidate(r)
      /\ pc' \in [Requests -> Places]
      /\ cache' \in [Users -> Loaded \cup {None}] /\ cache'[u] = None
      /\ \A v \in Users : v # u => cache'[v] = cache[v]
  BY <1>1, <1>3, <1>4
<1>9. req' \in [Requests -> Request]
  <2>1. \A s \in Requests : req'[s] \in Request
    BY <1>5, <1>7, <1>8
  <2>2. req' = [s \in Requests |-> req'[s]]
    BY <1>1
  <2> QED BY <2>1, <2>2
<1>10. TypeOK' /\ SuperRows' = SuperRows /\ References' = References
  BY <1>1, <1>8, <1>9 DEF SuperRows, References
<1>11. /\ \A v : HeldRoles(v)' = HeldRoles(v) /\ AccessOf(v)' = AccessOf(v)
       /\ \A R : RolesNamed(R)' = RolesNamed(R)
  BY <1>1 DEF HeldRoles, AccessOf, MembersOf, RolesNamed, PermissionsOf
<1>12. \A v : v # u /\ ChangePending(v) => ChangePending(v)'
  BY <1>7 DEF ChangePending
<1>13. RolesInv'
  <2>1. Known' \subseteq Known \cup {None}
    BY <1>1, <1>4, <1>6, <1>7, <1>8, <1>10 DEF Known
  <2> QED BY <1>1, <1>2, <1>7, <2>1, RbacAssumption DEF RolesInv
<1>14. CacheExplained'
  BY <1>8, <1>11, <1>12 DEF CacheExplained
<1>15. OrphansExplained'
  <2> SUFFICES ASSUME NEW role \in References \ roles
               PROVE  \E s \in Requests : req'[s].role = role /\ req'[s].outlived
    BY <1>1, <1>10 DEF OrphansExplained
  <2>1. PICK s \in Requests : req[s].role = role /\ req[s].outlived
    BY DEF OrphansExplained
  <2>2. s = r => AfterInvalidate(r) # Ended
    BY <1>3, <1>4, <2>1 DEF RolesInv, SystemRoles
  <2> QED BY <1>6, <1>7, <1>8, <2>1, <2>2
<1>16. ASSUME NEW s \in Requests PROVE Fits(s, req[s], pc[s])'
  <2>1. CASE s = r
    <3>1. None \notin Operations /\ (pc'[r] = "get" \/ pc'[r] = Ended)
      BY <1>4, <1>8, RbacAssumption
    <3> QED BY <1>1, <1>2, <1>3, <1>6, <1>8, <2>1, <3>1 DEF Fits, RequestOK, OutlivedOK,
               LoadOK, CountOK,
          Ended, HasUser, Assigning, Holding, Linking, Created, InFlightPlaces, Operations
  <2>2. CASE s # r
    <3>1. RequestOK(s, req[s], pc[s])' /\ OutlivedOK(req[s], pc[s])' /\ CountOK(req[s], pc[s])'
      BY <1>1, <1>7, <1>10, <2>2 DEF Fits, RequestOK, OutlivedOK, CountOK
    <3>2. LoadOK(req[s], pc[s])'
      <4>1. LoadOK(req[s], pc[s])
        BY DEF Fits
      <4> QED BY <1>7, <1>11, <1>12, <2>2, <4>1 DEF LoadOK, Loading
    <3> QED BY <3>1, <3>2 DEF Fits
  <2> QED BY <2>1, <2>2
<1> QED BY <1>10, <1>13, <1>14, <1>15, <1>16

\* An entry that expires needs no explanation.
LEMMA ExpireKeeps ==
  ASSUME RbacInv, (\E u \in Users : Expire(u)) \/ UNCHANGED vars
  PROVE  RbacInv'
<1>1. /\ UNCHANGED <<roles, memberOf, assigned, catalog, links, pc, req>>
      /\ cache' = cache \/ \E u \in Users : cache' = [cache EXCEPT ![u] = None]
  BY DEF Expire, vars, store, roleRows, membershipRows
<1>2. TypeOK'
  <2>1. cache' \in [Users -> Loaded \cup {None}]
    BY <1>1 DEF RbacInv, TypeOK
  <2> QED BY <1>1, <2>1 DEF RbacInv, TypeOK
<1>3. SuperRows' = SuperRows /\ References' = References /\ Known' = Known
  BY <1>1 DEF SuperRows, References, Known
<1>4. /\ \A v : HeldRoles(v)' = HeldRoles(v) /\ AccessOf(v)' = AccessOf(v)
      /\ \A v : ChangePending(v)' = ChangePending(v)
      /\ \A R : RolesNamed(R)' = RolesNamed(R)
  BY <1>1 DEF HeldRoles, AccessOf, MembersOf, RolesNamed, PermissionsOf, ChangePending
<1>5. ASSUME NEW r \in Requests PROVE Fits(r, req[r], pc[r])'
  BY <1>1, <1>3, <1>4 DEF RbacInv, Fits, RequestOK, OutlivedOK, LoadOK, CountOK
<1>6. CacheExplained'
  <2> SUFFICES ASSUME NEW v \in Users, cache'[v] # None
               PROVE  cache'[v].raced \/ cache'[v].dated \/ ChangePending(v) \/ cache'[v].access = AccessOf(v)
    BY <1>4 DEF CacheExplained
  <2>1. cache'[v] = cache[v]
    BY <1>1 DEF RbacInv, TypeOK
  <2> QED BY <2>1 DEF RbacInv, CacheExplained
<1> QED BY <1>1, <1>2, <1>3, <1>5, <1>6 DEF RbacInv, RolesInv, OrphansExplained

-----------------------------------------------------------------------------
\* The seed and what an earlier start granted satisfy the invariant.
LEMMA InitRbac == Init => RbacInv
<1> SUFFICES ASSUME Init PROVE RbacInv
  OBVIOUS
<1> USE DEF Init
<1>1. /\ NoRequest \in Request /\ NoRequest.role = None /\ NoRequest.op = None
      /\ NoRequest.seen = {} /\ ~NoRequest.changed /\ ~NoRequest.outlived
  <2>1. Nothing \in Loaded
    BY DEF Nothing, Loaded, Access
  <2> QED BY <2>1 DEF NoRequest, Request
<1>2. TypeOK
  BY <1>1, RbacAssumption DEF TypeOK, RoleIds, SystemRoles, MemberIds, Places
<1>3. IsFiniteSet(SuperRows)
  <2>1. IsFiniteSet(Admins)
    BY RbacAssumption
  <2> DEFINE f == [m \in Admins |-> <<m, Super>>]
  <2>2. f \in Surjection(Admins, {<<m, Super>> : m \in Admins})
    BY DEF Surjection
  <2>3. IsFiniteSet({<<m, Super>> : m \in Admins})
    BY <2>1, <2>2, FS_Surjection
  <2>4. SuperRows \subseteq {<<m, Super>> : m \in Admins}
    BY DEF SuperRows
  <2> QED BY <2>3, <2>4, FS_Subset
<1>4. References \subseteq SystemRoles
  BY DEF References, SystemRoles
<1>5. RolesInv
  BY <1>1, <1>4, RbacAssumption DEF RolesInv, Known, SystemRoles, Names
<1>6. CacheExplained /\ OrphansExplained
  BY <1>4 DEF CacheExplained, OrphansExplained
<1>7. ASSUME NEW r \in Requests PROVE Fits(r, req[r], pc[r])
  <2>1. memberOf[r] = None /\ r \notin roles /\ None \notin Operations
    BY RbacAssumption DEF MemberIds, Names
  <2> QED BY <1>1, <2>1 DEF Fits, RequestOK, OutlivedOK, LoadOK, CountOK, HasUser, Assigning, Holding,
         Linking, InFlightPlaces, Operations
<1> QED BY <1>2, <1>3, <1>5, <1>6, <1>7 DEF RbacInv

\* Every step keeps it.
LEMMA NextRbac == RbacInv /\ [Next]_vars => RbacInv'
<1> SUFFICES ASSUME RbacInv, [Next]_vars PROVE RbacInv'
  OBVIOUS
<1>1. ASSUME NEW r \in Requests, RequestStep(r) PROVE RbacInv'
  BY <1>1, AccessKeeps, SetKeeps, InvalidateKeeps, StartKeeps, LookupKeeps, CreateMembershipKeeps,
     SaveAssignedKeeps, RemoveRoleKeeps, SaveRoleKeeps, SavePermissionKeeps, UnannouncedKeeps
     DEF RequestStep
<1>2. ASSUME NEW u \in Users, Expire(u) PROVE RbacInv'
  BY <1>2, ExpireKeeps
<1>3. CASE UNCHANGED vars
  BY <1>3, ExpireKeeps
<1> QED BY <1>1, <1>2, <1>3 DEF Next

\* The invariant holds in every reachable state.
LEMMA RbacAlways == Spec => []RbacInv
BY InitRbac, NextRbac, PTL DEF Spec

\* The tables, the cache and the calls hold what rbac.service stores in them.
THEOREM RbacTypeCorrect == Spec => []TypeOK
<1>1. RbacInv => TypeOK
  BY DEF RbacInv
<1> QED BY RbacAlways, <1>1, PTL

\* getUserAccess, however many calls, users and roles: a cached access differs
\* from the database only if it was loaded before the last invalidation, if
\* something that invalidates nothing changed since, or if the change of the
\* user's roles has yet to invalidate it or died before it could.
THEOREM CachedAccess == Spec => []CacheExplained
<1>1. RbacInv => CacheExplained
  BY DEF RbacInv
<1> QED BY RbacAlways, <1>1, PTL

\* deleteRole: a row of a role that is gone was written by a call that had
\* looked the role up before.
THEOREM Orphans == Spec => []OrphansExplained
<1>1. RbacInv => OrphansExplained
  BY DEF RbacInv
<1> QED BY RbacAlways, <1>1, PTL

\* ensureMembership and createRole: two memberships of one user, or two roles
\* of one name, were each created by a call that looked before the other was
\* stored.
THEOREM DuplicateRows == Spec => []DuplicatesOverlapped
<1>1. RbacInv => DuplicatesOverlapped
  <2> SUFFICES ASSUME RbacInv PROVE DuplicatesOverlapped
    OBVIOUS
  <2>1. \A n \in Requests : memberOf[n] # None \/ n \in roles => req[n].seen = {}
    BY FitsParts DEF RequestOK
  <2> QED BY <2>1 DEF DuplicatesOverlapped
<1> QED BY RbacAlways, <1>1, PTL

\* Only a removal shrinks SuperRows.
LEMMA SuperRowsShrink ==
  ASSUME RbacInv, Next, SuperRows # {}, SuperRows' = {}
  PROVE  \E r \in Requests : pc[r] = "removeRole" /\ pc'[r] # pc[r] /\ req[r].others > 0
<1>1. ~(assigned \subseteq assigned')
  BY DEF SuperRows
<1>2. PICK r \in Requests : RemoveRole(r) \/ DeleteRole(r)
  BY <1>1 DEF Next, RequestStep, Expire, GetAccessStart, AssignStart, RevokeStart, Get, FindRoles,
     FindPermissions, Set, InvalidateCache, FindMembership, CreateMembership, FindAssigned,
     SaveAssigned, CountUsersWithRole, CreateRoleStart, SaveRole, GrantStart,
     RevokePermissionStart, DeleteRoleStart, FindOrCreatePermission, SavePermission, FindLink,
     InsertLink, FindPermission, Unlink, CallFails, store, membershipRows
<1>3. RequestOK(r, req[r], pc[r]) /\ CountOK(req[r], pc[r]) /\ req[r].others \in Nat
  BY FitsParts DEF Request
<1>4. CASE DeleteRole(r)
  <2>1. req[r].role # Super
    BY <1>3, <1>4 DEF DeleteRole, RequestOK, SystemRoles
  <2>2. SuperRows \subseteq SuperRows'
    BY <1>4, <2>1 DEF DeleteRole, SuperRows
  <2> QED BY <2>2
<1>5. CASE RemoveRole(r)
  <2> DEFINE row == <<req[r].member, req[r].role>>
  <2>1. pc[r] = "removeRole" /\ assigned' = assigned \ {row} /\ pc' = [pc EXCEPT ![r] = "invalidate"]
    BY <1>1, <1>5 DEF RemoveRole, Goto
  <2>2. SuperRows = {row}
    BY <2>1 DEF SuperRows
  <2>3. row \in SuperRows /\ Cardinality(SuperRows) = 1
    BY <2>2, FS_Singleton
  <2>4. req[r].role = Super
    BY <2>3 DEF SuperRows
  <2>5. req[r].others > 0
    BY <1>3, <2>1, <2>3, <2>4 DEF RequestOK, CountOK
  <2> QED BY <2>1, <2>5 DEF RbacInv, TypeOK
<1> QED BY <1>2, <1>4, <1>5

\* revokeRole: only a revocation that another one overtook between the count
\* of the holders and the removal takes the super role from its last holder.
THEOREM LastSuperAdmin == Spec => LastHolderRaced
<1>1. RbacInv /\ [Next]_vars =>
        [SuperRows # {} /\ SuperRows' = {} =>
           \E r \in Requests : pc[r] = "removeRole" /\ pc'[r] # pc[r] /\ req[r].others > 0]_vars
  BY SuperRowsShrink
<1> QED BY RbacAlways, <1>1, PTL DEF Spec, LastHolderRaced

=============================================================================
