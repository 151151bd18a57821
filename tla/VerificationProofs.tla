-------------------------- MODULE VerificationProofs --------------------------
(***************************************************************************)
(* Proofs about Verification, for any requests, limit of attempts and      *)
(* lives of the codes; and about Accounts, which takes over where a code   *)
(* or a link has been redeemed and shares no state with it.                *)
(***************************************************************************)
EXTENDS Verification, Accounts, TLAPS

(***************************************************************************)
(* The inductive invariant: which rows exist, and what a request that is   *)
(* at a place knows of its code.                                           *)
(***************************************************************************)
RequestInv(r) ==
  /\ ~Stored(r) => rows[r] = NoRow
  /\ pc[r] \in {"idle", "create"} => rows[r] = NoRow
  /\ pc[r] = "create" => req[r].purpose \in Purposes
  /\ pc[r] = "idle" => req[r].older = {}
  /\ pc[r] \in {"count", "recount", "exhaust", "consume"} =>
       req[r].code \in Requests /\ Stored(req[r].code)
  /\ pc[r] = "exhaust" => rows[req[r].code].attempts >= MaxAttempts
  /\ r \in accepted => pc[r] = "accepted"
  /\ \A c \in req[r].older : Stored(c) /\ rows[c].consumed

VerInv == TypeOK /\ ConsumedForAReason /\ \A r \in Requests : RequestInv(r)

(* What every step does to a row that exists: it is never deleted or put   *)
(* back.                                                                   *)
RowKept(c) ==
  /\ rows'[c].purpose = rows[c].purpose
  /\ rows'[c].expiresAt = rows[c].expiresAt
  /\ rows'[c].createdAt = rows[c].createdAt
  /\ rows'[c].attempts >= rows[c].attempts
  /\ rows[c].consumed => rows'[c].consumed

(* The initial state satisfies the invariant.                              *)
LEMMA VerInit == Init => VerInv
  BY VerificationAssumption
  DEF VerificationAssumption, Init, VerInv, TypeOK, ConsumedForAReason, RequestInv, Stored,
      NoRow, Row, NoRequest, Request, Places, InFlightPlaces

(* A request arrives with fields of its handler.                           *)
LEMMA ArriveType ==
  ASSUME TypeOK, NEW r \in Requests, NEW fields \in Request, NEW place \in Places,
         Arrive(r, fields, place)
  PROVE  /\ pc[r] = "idle"
         /\ pc' = [pc EXCEPT ![r] = place]
         /\ req' = [req EXCEPT ![r] = fields]
         /\ pc' \in [Requests -> Places]
         /\ req' \in [Requests -> Request]
  BY DEF Arrive, Goto, TypeOK

(* What one request's step leaves of the others: if rows are kept, the     *)
(* other requests untouched and every consumption explained, it is enough  *)
(* to look at the request that moved.                                      *)
LEMMA Frame ==
  ASSUME VerInv, TypeOK', NEW r \in Requests,
         r \notin accepted,
         accepted' \in {accepted, accepted \cup {r}},
         req[r].older = {} \/ (req'[r].older = req[r].older /\ req'[r].purpose = req[r].purpose),
         \A q \in Requests \ {r} : pc'[q] = pc[q] /\ req'[q] = req[q],
         \A q \in Requests \ {r} : ~Stored(q) => rows'[q] = NoRow,
         \A c \in Requests : Stored(c) => RowKept(c),
         \A c \in Requests : rows'[c].consumed => rows[c].consumed \/ Explained(c)',
         RequestInv(r)'
  PROVE  VerInv'
<1> USE VerificationAssumption DEF VerificationAssumption
<1>a. TypeOK /\ ConsumedForAReason /\ \A q \in Requests : RequestInv(q)
  BY DEF VerInv
<1>b. ASSUME NEW c \in Requests, Stored(c)
      PROVE  /\ Stored(c)'
             /\ rows'[c].purpose = rows[c].purpose
             /\ rows[c].attempts >= MaxAttempts => rows'[c].attempts >= MaxAttempts
             /\ rows[c].consumed => rows'[c].consumed
  <2>1. rows[c] \in Row /\ rows'[c] \in Row /\ RowKept(c)
    BY <1>a, <1>b DEF TypeOK
  <2>2. rows[c].attempts \in Nat /\ rows'[c].attempts \in Nat
    BY <2>1 DEF Row
  <2>3. QED BY <1>b, <2>1, <2>2 DEF RowKept, Stored
<1>1. ASSUME NEW q \in Requests \ {r} PROVE RequestInv(q)'
  <2>1. RequestInv(q) /\ pc'[q] = pc[q] /\ req'[q] = req[q] /\ req[q] \in Request
    BY <1>a DEF TypeOK
  <2>2. ~Stored(q)' => rows'[q] = NoRow
    BY <1>b
  <2>3. rows[q] = NoRow => rows'[q] = NoRow
    <3>1. rows[q] = NoRow => ~Stored(q)
      BY DEF Stored, NoRow
    <3>2. QED BY <3>1
  <2>4. \A c \in req'[q].older : Stored(c)' /\ rows'[c].consumed
    <3>1. req[q].older \subseteq Requests
      BY <2>1 DEF Request
    <3>2. QED BY <2>1, <3>1, <1>b DEF RequestInv
  <2>5. q \in accepted' => pc'[q] = "accepted"
    BY <2>1 DEF RequestInv
  <2>6. pc'[q] \in {"count", "recount", "exhaust", "consume"} =>
          req'[q].code \in Requests /\ Stored(req[q].code)'
    BY <2>1, <1>b DEF RequestInv, Stored
  <2>7. pc'[q] = "exhaust" => rows'[req'[q].code].attempts >= MaxAttempts
    BY <2>1, <1>b DEF RequestInv
  <2>8. QED BY <2>1, <2>2, <2>3, <2>4, <2>5, <2>6, <2>7 DEF RequestInv
<1>2. ASSUME NEW c \in Requests, rows[c].consumed PROVE Explained(c)'
  <2>0. Stored(c)
    BY <1>a, <1>2 DEF RequestInv, NoRow
  <2>1. CASE AcceptedWith(c) # {}
    <3>1. PICK q \in accepted : req[q].code = c
      BY <2>1 DEF AcceptedWith
    <3>2. q \in accepted' /\ req'[q].code = c
      BY <3>1, <1>a DEF TypeOK
    <3>3. QED BY <3>2 DEF Explained, AcceptedWith
  <2>2. CASE rows[c].attempts >= MaxAttempts
    BY <2>0, <2>2, <1>b DEF Explained
  <2>3. CASE \E q \in Requests : c \in req[q].older /\ req[q].purpose = rows[c].purpose
    <3>1. PICK q \in Requests : c \in req[q].older /\ req[q].purpose = rows[c].purpose
      BY <2>3
    <3>2. c \in req'[q].older /\ req'[q].purpose = rows'[c].purpose
      BY <3>1, <2>0, <1>b
    <3>3. QED BY <3>2 DEF Explained
  <2>4. QED BY <1>2, <1>a, <2>1, <2>2, <2>3 DEF ConsumedForAReason, Explained
<1>3. QED BY <1>1, <1>2 DEF VerInv, ConsumedForAReason

(* Retiring the codes of a purpose keeps every row.                        *)
LEMMA Revoking ==
  ASSUME TypeOK, NEW p \in Purposes, RevokeAllForTarget(p)
  PROVE  /\ rows' \in [Requests -> Row]
         /\ \A c \in Requests :
              /\ RowKept(c)
              /\ rows'[c].consumed <=> rows[c].consumed \/ rows[c].purpose = p
              /\ rows[c] = NoRow => rows'[c] = NoRow
<1> USE VerificationAssumption DEF VerificationAssumption
<1>1. ASSUME NEW c \in Requests
      PROVE  /\ rows'[c] \in Row /\ RowKept(c)
             /\ rows'[c].consumed <=> rows[c].consumed \/ rows[c].purpose = p
             /\ rows[c] = NoRow => rows'[c] = NoRow
  <2>1. rows'[c] = [rows[c] EXCEPT !.consumed = @ \/ rows[c].purpose = p]
    BY DEF RevokeAllForTarget
  <2>2. rows[c] \in Row
    BY DEF TypeOK
  <2>3. (rows[c].consumed \/ rows[c].purpose = p) \in BOOLEAN
    OBVIOUS
  <2>4. rows'[c].consumed = (rows[c].consumed \/ rows[c].purpose = p)
    BY <2>1, <2>2 DEF Row
  <2>5. rows'[c] \in Row
    BY <2>1, <2>2, <2>3 DEF Row
  <2>6. RowKept(c)
    BY <2>1, <2>2, <2>4 DEF Row, RowKept
  <2>7. ASSUME rows[c] = NoRow PROVE rows'[c] = NoRow
    <3>1. rows'[c] = [NoRow EXCEPT !.consumed = NoRow.consumed \/ NoRow.purpose = p]
      BY <2>1, <2>7
    <3>2. QED BY <3>1 DEF NoRow
  <2>8. QED BY <2>4, <2>5, <2>6, <2>7
<1>2. rows' = [c \in Requests |-> rows'[c]]
  BY DEF RevokeAllForTarget
<1>3. QED BY <1>1, <1>2

(* Changing one row, so that it is kept, keeps every row.                  *)
LEMMA OneRow ==
  ASSUME TypeOK, NEW c \in Requests, NEW row \in Row,
         rows' = [rows EXCEPT ![c] = row],
         row.purpose = rows[c].purpose, row.expiresAt = rows[c].expiresAt,
         row.createdAt = rows[c].createdAt, row.attempts >= rows[c].attempts,
         rows[c].consumed => row.consumed
  PROVE  /\ rows' \in [Requests -> Row]
         /\ \A d \in Requests : RowKept(d)
         /\ rows'[c] = row
         /\ \A d \in Requests \ {c} : rows'[d] = rows[d]
<1>1. rows'[c] = row /\ \A d \in Requests \ {c} : rows'[d] = rows[d]
  BY DEF TypeOK
<1>2. ASSUME NEW d \in Requests PROVE RowKept(d)
  <2>1. rows[d].attempts \in Nat
    BY DEF TypeOK, Row
  <2>2. QED BY <1>1, <2>1 DEF RowKept
<1>3. QED BY <1>1, <1>2 DEF TypeOK

(* A step of a send preserves the invariant and keeps the rows.            *)
LEMMA SendPreserves ==
  ASSUME VerInv, NEW r \in Requests, SendStep(r)
  PROVE  VerInv' /\ \A c \in Requests : Stored(c) => RowKept(c)
<1> USE VerificationAssumption DEF VerificationAssumption
<1>a. TypeOK /\ ConsumedForAReason /\ \A q \in Requests : RequestInv(q)
  BY DEF VerInv
<1>1. ASSUME NEW p \in Purposes, SendStart(r, p)
      PROVE  VerInv' /\ \A c \in Requests : Stored(c) => RowKept(c)
  <2> DEFINE fields == [NoRequest EXCEPT !.handler = "send", !.purpose = p,
                                         !.older = {c \in Requests : rows[c].purpose = p}]
  <2>1. fields \in Request /\ "create" \in Places
    BY DEF NoRequest, Request, Handlers, Places, InFlightPlaces
  <2>2. /\ pc[r] = "idle" /\ pc' = [pc EXCEPT ![r] = "create"]
        /\ req' = [req EXCEPT ![r] = fields]
        /\ pc' \in [Requests -> Places] /\ req' \in [Requests -> Request]
    <3>1. Arrive(r, fields, "create")
      BY <1>1 DEF SendStart
    <3>2. QED BY <3>1, <2>1, <1>a, ArriveType
  <2>3. UNCHANGED <<now, created, mailed, history>>
    BY <1>1 DEF SendStart
  <2>4. /\ rows' \in [Requests -> Row]
        /\ \A c \in Requests : /\ RowKept(c)
                               /\ rows'[c].consumed <=> rows[c].consumed \/ rows[c].purpose = p
                               /\ rows[c] = NoRow => rows'[c] = NoRow
    BY <1>1, <1>a, Revoking DEF SendStart
  <2>5. TypeOK'
    BY <1>a, <2>2, <2>3, <2>4 DEF TypeOK, history
  <2>6. /\ pc'[r] = "create" /\ req'[r].purpose = p
        /\ req'[r].older = {c \in Requests : rows[c].purpose = p}
        /\ r \notin accepted /\ accepted' = accepted /\ req[r].older = {} /\ rows[r] = NoRow
    BY <1>a, <2>2, <2>3 DEF TypeOK, NoRequest, RequestInv, history
  <2>7. ASSUME NEW c \in Requests, rows[c].purpose = p
        PROVE  Explained(c)' /\ Stored(c)' /\ rows'[c].consumed
    <3>1. Stored(c)
      BY <2>7, <1>a DEF RequestInv, NoRow
    <3>2. c \in req'[r].older /\ req'[r].purpose = rows'[c].purpose
      BY <2>4, <2>6, <2>7 DEF RowKept
    <3>3. QED BY <2>4, <2>7, <3>1, <3>2 DEF Explained, Stored, RowKept
  <2>8. RequestInv(r)'
    <3>1. rows'[r] = NoRow
      BY <2>4, <2>6
    <3>2. \A c \in req'[r].older : Stored(c)' /\ rows'[c].consumed
      BY <2>6, <2>7
    <3>3. QED BY <2>6, <3>1, <3>2 DEF RequestInv
  <2>9. /\ \A q \in Requests \ {r} : pc'[q] = pc[q] /\ req'[q] = req[q]
        /\ \A q \in Requests \ {r} : ~Stored(q) => rows'[q] = NoRow
        /\ \A c \in Requests : rows'[c].consumed => rows[c].consumed \/ Explained(c)'
    BY <1>a, <2>2, <2>4, <2>7 DEF TypeOK, RequestInv
  <2>10. VerInv'
    BY <2>4, <2>5, <2>6, <2>8, <2>9, Frame
  <2>11. QED BY <2>4, <2>10
<1>2. ASSUME CreateCode(r)
      PROVE  VerInv' /\ \A c \in Requests : Stored(c) => RowKept(c)
  <2> DEFINE row == [NoRow EXCEPT !.purpose = req[r].purpose,
                                  !.expiresAt = now + Life[req[r].purpose],
                                  !.createdAt = created + 1]
  <2>1. /\ pc[r] = "create" /\ pc' = [pc EXCEPT ![r] = "mail"]
        /\ rows' = [rows EXCEPT ![r] = row] /\ created' = created + 1
        /\ UNCHANGED <<now, mailed, req, history>>
    BY <1>2 DEF CreateCode, Goto
  <2>2. req[r].purpose \in Purposes /\ rows[r] = NoRow /\ r \notin accepted /\ RequestInv(r)
    BY <1>a, <2>1 DEF RequestInv
  <2>3. row \in Row /\ row.createdAt # 0 /\ ~row.consumed
    <3>1. now + Life[req[r].purpose] \in Nat /\ created + 1 \in Nat /\ created + 1 # 0
      BY <1>a, <2>2 DEF TypeOK
    <3>2. QED BY <2>2, <3>1 DEF Row, NoRow
  <2>4. TypeOK'
    BY <1>a, <2>1, <2>3 DEF TypeOK, Places, InFlightPlaces, history
  <2>5. /\ rows'[r] = row /\ pc'[r] = "mail"
        /\ \A c \in Requests \ {r} : rows'[c] = rows[c] /\ pc'[c] = pc[c]
    BY <1>a, <2>1 DEF TypeOK
  <2>6. ~Stored(r)
    BY <2>2 DEF Stored, NoRow
  <2>7. ASSUME NEW c \in Requests, Stored(c) PROVE RowKept(c)
    <3>1. rows[c].attempts \in Nat
      BY <1>a DEF TypeOK, Row
    <3>2. QED BY <2>5, <2>6, <2>7, <3>1 DEF RowKept
  <2>8. RequestInv(r)'
    <3>1. ASSUME NEW c \in req[r].older PROVE Stored(c)' /\ rows'[c].consumed
      <4>1. c \in Requests
        BY <1>a DEF TypeOK, Request
      <4>2. c # r /\ Stored(c) /\ rows[c].consumed
        BY <2>2, <2>6 DEF RequestInv
      <4>3. QED BY <4>1, <4>2, <2>5 DEF Stored
    <3>2. Stored(r)'
      BY <2>3, <2>5 DEF Stored
    <3>3. QED BY <2>1, <2>2, <2>5, <3>1, <3>2 DEF RequestInv, history
  <2>9. \A c \in Requests : rows'[c].consumed => rows[c].consumed \/ Explained(c)'
    BY <2>3, <2>5
  <2>10. VerInv'
    <3>1. /\ accepted' = accepted /\ req' = req
          /\ \A q \in Requests \ {r} : ~Stored(q) => rows'[q] = NoRow
      BY <1>a, <2>1, <2>5 DEF RequestInv, history
    <3>2. QED BY <2>2, <2>4, <2>5, <2>7, <2>8, <2>9, <3>1, Frame
  <2>11. QED BY <2>7, <2>10
<1>3. ASSUME SendMail(r)
      PROVE  VerInv' /\ \A c \in Requests : Stored(c) => RowKept(c)
  <2>1. /\ pc[r] = "mail" /\ pc' = [pc EXCEPT ![r] = "sent"] /\ mailed' = mailed \cup {r}
        /\ UNCHANGED <<now, rows, created, req, history>>
    BY <1>3 DEF SendMail, Goto
  <2>2. TypeOK'
    BY <1>a, <2>1 DEF TypeOK, Places, history
  <2>3. \A c \in Requests : RowKept(c)
    BY <1>a, <2>1 DEF TypeOK, Row, RowKept
  <2>4. RequestInv(r)' /\ r \notin accepted
    BY <1>a, <2>1 DEF TypeOK, RequestInv, Stored, history
  <2>5. VerInv'
    <3>1. /\ accepted' = accepted /\ req' = req
          /\ \A q \in Requests \ {r} : pc'[q] = pc[q] /\ (~Stored(q) => rows'[q] = NoRow)
          /\ \A c \in Requests : rows'[c].consumed => rows[c].consumed
      BY <1>a, <2>1 DEF RequestInv, history, TypeOK
    <3>2. QED BY <2>2, <2>3, <2>4, <3>1, Frame
  <2>6. QED BY <2>3, <2>5
<1>4. QED BY <1>1, <1>2, <1>3 DEF SendStep

(* A verification that arrives changes no row.                             *)
LEMMA ArrivalPreserves ==
  ASSUME VerInv, NEW r \in Requests, NEW h \in Handlers, NEW c \in Requests \cup {None},
         NEW place \in {"denied", "exhaust", "consume", "count"},
         Arrive(r, Verifying(h, c), place),
         place # "denied" => c \in Requests /\ Stored(c),
         place = "exhaust" => rows[c].attempts >= MaxAttempts,
         UNCHANGED <<now, rows, created, mailed, history>>
  PROVE  /\ VerInv'
         /\ \A d \in Requests : RowKept(d)
         /\ pc' = [pc EXCEPT ![r] = place] /\ pc[r] = "idle" /\ r \notin accepted
         /\ req'[r].code = c /\ req'[r].handler = h
         /\ \A q \in Requests \ {r} : req'[q] = req[q]
<1> USE VerificationAssumption DEF VerificationAssumption
<1>a. TypeOK /\ ConsumedForAReason /\ \A q \in Requests : RequestInv(q)
  BY DEF VerInv
<1> DEFINE fields == Verifying(h, c)
<1>1. fields \in Request /\ place \in Places /\ fields.older = {}
  BY DEF Verifying, NoRequest, Request, Places, InFlightPlaces
<1>2. /\ pc[r] = "idle" /\ pc' = [pc EXCEPT ![r] = place]
      /\ req' = [req EXCEPT ![r] = fields]
      /\ pc' \in [Requests -> Places] /\ req' \in [Requests -> Request]
  BY <1>1, <1>a, ArriveType
<1>3. TypeOK'
  BY <1>a, <1>2 DEF TypeOK, history
<1>4. /\ rows' = rows /\ accepted' = accepted /\ r \notin accepted /\ req[r].older = {}
      /\ req'[r] = fields /\ pc'[r] = place /\ rows[r] = NoRow
      /\ \A q \in Requests \ {r} : pc'[q] = pc[q] /\ req'[q] = req[q]
  BY <1>a, <1>2 DEF TypeOK, RequestInv, history
<1>5. \A d \in Requests : RowKept(d)
  BY <1>a, <1>4 DEF TypeOK, Row, RowKept
<1>6. req'[r].code = c /\ req'[r].handler = h
  BY <1>4 DEF Verifying, NoRequest
<1>7. RequestInv(r)'
  BY <1>1, <1>4, <1>6 DEF RequestInv, Stored
<1>8. \A q \in Requests \ {r} : ~Stored(q) => rows'[q] = NoRow
  BY <1>a, <1>4 DEF RequestInv
<1>9. VerInv'
  BY <1>3, <1>4, <1>5, <1>7, <1>8, Frame
<1>10. QED BY <1>2, <1>4, <1>5, <1>6, <1>9

(* A step that moves a request on without touching a row.                  *)
LEMMA MovePreserves ==
  ASSUME VerInv, NEW r \in Requests, NEW place \in {"exhaust", "denied", "failed"},
         pc[r] \in InFlightPlaces, pc' = [pc EXCEPT ![r] = place],
         place = "exhaust" =>
           pc[r] = "recount" /\ rows[req[r].code].attempts >= MaxAttempts,
         UNCHANGED <<now, rows, created, mailed, req, history>>
  PROVE  VerInv' /\ \A c \in Requests : RowKept(c)
<1> USE VerificationAssumption DEF VerificationAssumption
<1>a. TypeOK /\ ConsumedForAReason /\ \A q \in Requests : RequestInv(q)
  BY DEF VerInv
<1>1. TypeOK'
  BY <1>a DEF TypeOK, Places, InFlightPlaces, history
<1>2. /\ rows' = rows /\ accepted' = accepted /\ r \notin accepted /\ req' = req
      /\ pc'[r] = place /\ \A q \in Requests \ {r} : pc'[q] = pc[q]
  BY <1>a DEF TypeOK, RequestInv, history, InFlightPlaces
<1>3. \A c \in Requests : RowKept(c)
  BY <1>a, <1>2 DEF TypeOK, Row, RowKept
<1>4. RequestInv(r)'
  BY <1>a, <1>2 DEF RequestInv, Stored
<1>5. \A q \in Requests \ {r} : ~Stored(q) => rows'[q] = NoRow
  BY <1>a, <1>2 DEF RequestInv
<1>6. VerInv'
  BY <1>1, <1>2, <1>3, <1>4, <1>5, Frame
<1>7. QED BY <1>3, <1>6

(* A miss or a consumption, of the code the request found.                 *)
LEMMA RowStepPreserves ==
  ASSUME VerInv, NEW r \in Requests, NEW row \in Row,
         NEW place \in {"recount", "denied", "accepted"},
         pc[r] \in {"count", "exhaust", "consume"},
         rows' = [rows EXCEPT ![req[r].code] = row],
         row.purpose = rows[req[r].code].purpose,
         row.expiresAt = rows[req[r].code].expiresAt,
         row.createdAt = rows[req[r].code].createdAt,
         row.attempts >= rows[req[r].code].attempts,
         rows[req[r].code].consumed => row.consumed,
         row.consumed /\ ~rows[req[r].code].consumed =>
           row.attempts >= MaxAttempts \/ r \in accepted',
         pc' = [pc EXCEPT ![r] = place],
         accepted' = IF place = "accepted" THEN accepted \cup {r} ELSE accepted,
         reached' \in [Requests -> SUBSET Requests],
         UNCHANGED <<now, created, mailed, req>>
  PROVE  VerInv' /\ \A c \in Requests : RowKept(c)
<1> USE VerificationAssumption DEF VerificationAssumption
<1>a. TypeOK /\ ConsumedForAReason /\ \A q \in Requests : RequestInv(q)
  BY DEF VerInv
<1> DEFINE c == req[r].code
<1>1. /\ c \in Requests /\ Stored(c) /\ r \notin accepted /\ pc'[r] = place /\ RequestInv(r)
      /\ \A q \in Requests \ {r} : pc'[q] = pc[q]
  BY <1>a DEF RequestInv, TypeOK
<1>2. /\ rows' \in [Requests -> Row] /\ \A d \in Requests : RowKept(d)
      /\ rows'[c] = row /\ \A d \in Requests \ {c} : rows'[d] = rows[d]
  BY <1>1, <1>a, OneRow
<1>3. TypeOK'
  BY <1>a, <1>2 DEF TypeOK, Places, InFlightPlaces
<1>4. ASSUME NEW d \in Requests
      PROVE  /\ Stored(d)' <=> Stored(d)
             /\ ~Stored(d) => rows'[d] = rows[d]
             /\ rows[d].consumed => rows'[d].consumed
  BY <1>1, <1>2 DEF Stored, RowKept
<1>5. RequestInv(r)'
  <2>1. ~Stored(r)' => rows'[r] = NoRow
    BY <1>1, <1>4 DEF RequestInv
  <2>2. req[r].older \subseteq Requests
    BY <1>a DEF TypeOK, Request
  <2>3. \A d \in req[r].older : Stored(d)' /\ rows'[d].consumed
    BY <1>1, <1>4, <2>2 DEF RequestInv
  <2>4. pc'[r] \in {"count", "recount", "exhaust", "consume"} => Stored(req[r].code)'
    BY <1>1, <1>4 DEF Stored
  <2>5. r \in accepted' => pc'[r] = "accepted"
    BY <1>1
  <2>6. QED BY <1>1, <2>1, <2>3, <2>4, <2>5 DEF RequestInv
<1>6. ASSUME NEW d \in Requests, rows'[d].consumed PROVE rows[d].consumed \/ Explained(d)'
  <2>1. CASE d # c
    BY <2>1, <1>2, <1>6
  <2>2. CASE d = c /\ row.attempts >= MaxAttempts
    BY <2>2, <1>2 DEF Explained
  <2>3. CASE d = c /\ r \in accepted'
    <3>1. r \in AcceptedWith(d)'
      BY <2>3 DEF AcceptedWith
    <3>2. QED BY <3>1 DEF Explained
  <2>4. QED BY <1>2, <1>6, <2>1, <2>2, <2>3
<1>7. VerInv'
  <2>1. \A q \in Requests \ {r} : ~Stored(q) => rows'[q] = NoRow
    BY <1>a, <1>4 DEF RequestInv
  <2>2. accepted' \in {accepted, accepted \cup {r}}
    OBVIOUS
  <2>3. QED BY <1>1, <1>2, <1>3, <1>5, <1>6, <2>1, <2>2, Frame
<1>8. QED BY <1>2, <1>7

(* How a request comes to the point of consuming a code, and past it.      *)
Advance(q) ==
  /\ pc'[q] = "consume" =>
       \/ pc[q] = "consume" /\ req'[q] = req[q]
       \/ /\ req'[q].code \in Requests /\ Active(req'[q].code)
          /\ req'[q].handler = "otp" => rows[req'[q].code].attempts < MaxAttempts
  /\ q \in accepted => q \in accepted' /\ req'[q] = req[q]
  /\ q \in accepted' \ accepted => pc[q] = "consume" /\ req'[q] = req[q]

StepFacts ==
  /\ VerInv'
  /\ \A c \in Requests : Stored(c) => RowKept(c)
  /\ \A q \in Requests : Advance(q)
  /\ now' >= now

(* A step of a verification, with its way to the consumption.              *)
LEMMA VerifyPreserves ==
  ASSUME VerInv, NEW r \in Requests, VerifyStep(r)
  PROVE  StepFacts
<1> USE VerificationAssumption DEF VerificationAssumption
<1>a. TypeOK /\ ConsumedForAReason /\ \A q \in Requests : RequestInv(q)
  BY DEF VerInv
<1>n. now \in Nat
  BY <1>a DEF TypeOK
<1>b. ASSUME NEW h \in Handlers, NEW c \in Requests \cup {None},
             NEW place \in {"denied", "exhaust", "consume", "count"},
             Arrive(r, Verifying(h, c), place),
             place # "denied" => c \in Requests /\ Active(c),
             place = "exhaust" => rows[c].attempts >= MaxAttempts,
             place = "consume" /\ h = "otp" => rows[c].attempts < MaxAttempts,
             UNCHANGED <<now, rows, created, mailed, history>>
      PROVE  StepFacts
  <2>1. /\ VerInv' /\ (\A d \in Requests : RowKept(d))
        /\ pc' = [pc EXCEPT ![r] = place] /\ pc[r] = "idle" /\ r \notin accepted
        /\ req'[r].code = c /\ req'[r].handler = h
        /\ \A q \in Requests \ {r} : req'[q] = req[q]
    <3>1. place # "denied" => c \in Requests /\ Stored(c)
      BY <1>b DEF Active
    <3>2. QED BY <1>b, <3>1, ArrivalPreserves
  <2>2. accepted' = accepted
    BY <1>b DEF history
  <2>3. ASSUME NEW q \in Requests PROVE Advance(q)
    BY <2>1, <2>2, <1>a, <1>b DEF Advance, TypeOK
  <2>4. QED BY <2>1, <2>3, <1>b, <1>n DEF StepFacts
<1>c. ASSUME NEW place \in {"exhaust", "denied", "recount", "accepted"},
             pc' = [pc EXCEPT ![r] = place],
             req' = req, now' = now,
             accepted' = accepted \/ (accepted' = accepted \cup {r} /\ pc[r] = "consume"),
             VerInv', \A d \in Requests : RowKept(d)
      PROVE  StepFacts
  <2>1. ASSUME NEW q \in Requests PROVE Advance(q)
    BY <1>c, <1>a DEF Advance, TypeOK
  <2>2. QED BY <2>1, <1>c, <1>n DEF StepFacts
<1>1. CASE VerifyOtpExpired(r)
  BY <1>1, <1>b DEF VerifyOtpExpired, Handlers
<1>2. ASSUME NEW g \in mailed \cup {None}, VerifyOtpStart(r, g) PROVE StepFacts
  <2>1. PICK c \in FindActive("login") :
          /\ Arrive(r, Verifying("otp", c), Compare(c, g))
          /\ UNCHANGED <<now, rows, created, mailed, history>>
    BY <1>2 DEF VerifyOtpStart
  <2>2. c \in Requests /\ Active(c)
    BY DEF FindActive
  <2>3. rows[c].attempts \in Nat
    BY <1>a, <2>2 DEF TypeOK, Row
  <2>4. CASE rows[c].attempts >= MaxAttempts
    <3>1. Compare(c, g) = "exhaust"
      BY <2>4 DEF Compare
    <3>2. QED BY <1>b, <2>1, <2>2, <2>4, <3>1 DEF Handlers
  <2>5. CASE ~(rows[c].attempts >= MaxAttempts)
    <3>1. Compare(c, g) \in {"consume", "count"} /\ rows[c].attempts < MaxAttempts
      BY <2>3, <2>5 DEF Compare
    <3>2. QED BY <1>b, <2>1, <2>2, <3>1 DEF Handlers
  <2>6. QED BY <2>4, <2>5
<1>3. CASE IncrementAttempts(r)
  <2> DEFINE c == req[r].code
             row == [rows[c] EXCEPT !.attempts = @ + 1]
  <2>1. /\ pc[r] = "count" /\ pc' = [pc EXCEPT ![r] = "recount"]
        /\ rows' = [rows EXCEPT ![c] = row]
        /\ reached' \in {reached, [reached EXCEPT ![c] = @ \cup {r}]}
        /\ UNCHANGED <<now, created, mailed, req, accepted>>
    BY <1>3 DEF IncrementAttempts, Goto
  <2>2. c \in Requests /\ rows[c] \in Row /\ reached' \in [Requests -> SUBSET Requests]
    BY <1>a, <2>1 DEF RequestInv, TypeOK
  <2>3. /\ row \in Row /\ row.purpose = rows[c].purpose /\ row.expiresAt = rows[c].expiresAt
        /\ row.createdAt = rows[c].createdAt /\ row.attempts >= rows[c].attempts
        /\ row.consumed = rows[c].consumed
    BY <2>2 DEF Row
  <2>4. VerInv' /\ \A d \in Requests : RowKept(d)
    <3> HIDE DEF row, c
    <3>1. req[r].code = c
      BY DEF c
    <3>2. QED BY <2>1, <2>2, <2>3, <3>1, RowStepPreserves
  <2>5. QED BY <2>1, <2>4, <1>c
<1>4. CASE Recount(r)
  <2>1. PICK place \in {"exhaust", "denied"} :
          /\ pc[r] = "recount" /\ pc' = [pc EXCEPT ![r] = place]
          /\ place = "exhaust" => rows[req[r].code].attempts >= MaxAttempts
          /\ UNCHANGED <<now, rows, created, mailed, req, history>>
    BY <1>4 DEF Recount, Goto
  <2>2. VerInv' /\ \A d \in Requests : RowKept(d)
    BY <2>1, MovePreserves DEF InFlightPlaces
  <2>3. QED BY <2>1, <2>2, <1>c DEF history
<1>5. CASE Exhaust(r)
  <2> DEFINE c == req[r].code
             row == [rows[c] EXCEPT !.consumed = TRUE]
  <2>1. /\ pc[r] = "exhaust" /\ pc' = [pc EXCEPT ![r] = "denied"]
        /\ rows' = [rows EXCEPT ![c] = row]
        /\ UNCHANGED <<now, created, mailed, req, history>>
    BY <1>5 DEF Exhaust, ConsumeRow, Goto
  <2>2. /\ c \in Requests /\ rows[c] \in Row /\ reached' \in [Requests -> SUBSET Requests]
        /\ rows[c].attempts >= MaxAttempts /\ accepted' = accepted
    BY <1>a, <2>1 DEF RequestInv, TypeOK, history
  <2>3. /\ row \in Row /\ row.purpose = rows[c].purpose /\ row.expiresAt = rows[c].expiresAt
        /\ row.createdAt = rows[c].createdAt /\ row.attempts = rows[c].attempts
        /\ row.attempts >= rows[c].attempts /\ row.consumed
    <3>1. row.attempts = rows[c].attempts /\ rows[c].attempts \in Nat
      BY <2>2 DEF Row
    <3>2. row \in Row /\ row.consumed
      BY <2>2 DEF Row
    <3>3. QED BY <2>2, <3>1, <3>2 DEF Row
  <2>4. VerInv' /\ \A d \in Requests : RowKept(d)
    <3> HIDE DEF row, c
    <3>1. req[r].code = c
      BY DEF c
    <3>2. QED BY <2>1, <2>2, <2>3, <3>1, RowStepPreserves
  <2>5. QED BY <2>1, <2>2, <2>4, <1>c
<1>6. ASSUME NEW h \in {"magicLink", "verifyEmail"}, NEW c \in mailed, VerifyLinkExpired(r, h, c)
      PROVE  StepFacts
  BY <1>6, <1>b DEF VerifyLinkExpired, Handlers
<1>7. ASSUME NEW h \in {"magicLink", "verifyEmail"}, NEW c \in mailed, VerifyLinkStart(r, h, c)
      PROVE  StepFacts
  <2>1. /\ Active(c) /\ c \in Requests
        /\ Arrive(r, Verifying(h, c), "consume")
        /\ UNCHANGED <<now, rows, created, mailed, history>>
    BY <1>7, <1>a DEF VerifyLinkStart, LinkValid, TypeOK
  <2>2. QED BY <2>1, <1>b DEF Handlers
<1>8. CASE Consume(r)
  <2> DEFINE c == req[r].code
             row == [rows[c] EXCEPT !.consumed = TRUE]
  <2>1. /\ pc[r] = "consume" /\ pc' = [pc EXCEPT ![r] = "accepted"]
        /\ rows' = [rows EXCEPT ![c] = row] /\ accepted' = accepted \cup {r}
        /\ UNCHANGED <<now, created, mailed, req, reached>>
    BY <1>8 DEF Consume, ConsumeRow, Goto
  <2>2. c \in Requests /\ rows[c] \in Row /\ reached' \in [Requests -> SUBSET Requests]
    BY <1>a, <2>1 DEF RequestInv, TypeOK
  <2>3. /\ row \in Row /\ row.purpose = rows[c].purpose /\ row.expiresAt = rows[c].expiresAt
        /\ row.createdAt = rows[c].createdAt /\ row.attempts >= rows[c].attempts
        /\ row.consumed
    <3>1. row.attempts = rows[c].attempts /\ rows[c].attempts \in Nat
      BY <2>2 DEF Row
    <3>2. row \in Row /\ row.consumed
      BY <2>2 DEF Row
    <3>3. QED BY <2>2, <3>1, <3>2 DEF Row
  <2>4. VerInv' /\ \A d \in Requests : RowKept(d)
    <3> HIDE DEF row, c
    <3>1. req[r].code = c
      BY DEF c
    <3>2. QED BY <2>1, <2>2, <2>3, <3>1, RowStepPreserves
  <2>5. QED BY <2>1, <2>4, <1>c
<1>9. QED BY <1>1, <1>2, <1>3, <1>4, <1>5, <1>6, <1>7, <1>8 DEF VerifyStep

(* What any step does.                                                     *)
LEMMA Step == VerInv /\ [Next]_vars => StepFacts
<1> SUFFICES ASSUME VerInv, [Next]_vars PROVE StepFacts
  OBVIOUS
<1> USE VerificationAssumption DEF VerificationAssumption
<1>a. TypeOK /\ ConsumedForAReason /\ \A q \in Requests : RequestInv(q)
  BY DEF VerInv
<1>1. ASSUME NEW r \in Requests, SendStep(r) PROVE StepFacts
  <2>1. VerInv' /\ \A c \in Requests : Stored(c) => RowKept(c)
    BY <1>1, SendPreserves
  <2>2. accepted' = accepted /\ now' = now
    BY <1>1 DEF SendStep, SendStart, CreateCode, SendMail, history
  <2>3. ASSUME NEW q \in Requests PROVE Advance(q)
    <3>1. CASE \E p \in Purposes : SendStart(r, p)
      <4>1. PICK p \in Purposes : SendStart(r, p)
        BY <3>1
      <4>2. /\ pc[r] = "idle" /\ pc' = [pc EXCEPT ![r] = "create"]
            /\ \A t \in Requests \ {r} : req'[t] = req[t]
        BY <4>1, <1>a DEF SendStart, Arrive, Goto, TypeOK
      <4>3. QED BY <4>2, <2>2, <1>a DEF Advance, TypeOK, RequestInv
    <3>2. CASE CreateCode(r) \/ SendMail(r)
      BY <3>2, <2>2, <1>a DEF CreateCode, SendMail, Goto, Advance, TypeOK
    <3>3. QED BY <1>1, <3>1, <3>2 DEF SendStep
  <2>4. QED BY <2>1, <2>2, <2>3, <1>a DEF StepFacts, TypeOK
<1>2. ASSUME NEW r \in Requests, VerifyStep(r) PROVE StepFacts
  BY <1>2, VerifyPreserves
<1>3. ASSUME NEW r \in Requests, CallFails(r) PROVE StepFacts
  <2>1. /\ pc[r] \in InFlightPlaces /\ pc' = [pc EXCEPT ![r] = "failed"]
        /\ UNCHANGED <<now, rows, created, mailed, req, history>>
    BY <1>3 DEF CallFails, Goto
  <2>2. VerInv' /\ \A c \in Requests : RowKept(c)
    BY <2>1, MovePreserves
  <2>3. ASSUME NEW q \in Requests PROVE Advance(q)
    BY <2>1, <1>a DEF Advance, TypeOK, history
  <2>4. QED BY <2>1, <2>2, <2>3, <1>a DEF StepFacts, TypeOK
<1>4. CASE Tick \/ UNCHANGED vars
  <2>1. UNCHANGED <<rows, created, mailed, pc, req, history>> /\ now' \in {now, now + 1}
    BY <1>4 DEF Tick, vars
  <2>2. VerInv'
    BY <2>1, <1>a DEF VerInv, TypeOK, ConsumedForAReason, Explained, AcceptedWith, RequestInv,
        Stored, history
  <2>3. \A c \in Requests : RowKept(c)
    BY <2>1, <1>a DEF RowKept, TypeOK, Row
  <2>4. \A q \in Requests : Advance(q)
    BY <2>1 DEF Advance, history
  <2>5. QED BY <2>1, <2>2, <2>3, <2>4, <1>a DEF StepFacts, TypeOK
<1>5. QED BY <1>1, <1>2, <1>3, <1>4 DEF Next

(* The invariant holds in every reachable state.                           *)
LEMMA Invariance == Spec => []VerInv
<1>1. VerInv /\ [Next]_vars => VerInv'
  BY Step DEF StepFacts
<1>2. QED BY VerInit, <1>1, PTL DEF Spec

(***************************************************************************)
(* The state of codes and requests is always well typed.                   *)
(***************************************************************************)
THEOREM VerificationTypeCorrect == Spec => []TypeOK
<1>1. VerInv => TypeOK
  BY DEF VerInv
<1>2. QED BY Invariance, <1>1, PTL

(***************************************************************************)
(* A code is consumed only because it was accepted, ran out of attempts,   *)
(* or was retired by a later send of its purpose.                          *)
(***************************************************************************)
THEOREM CodesNotLost == Spec => []ConsumedForAReason
<1>1. VerInv => ConsumedForAReason
  BY DEF VerInv
<1>2. QED BY Invariance, <1>1, PTL

(***************************************************************************)
(* Two codes of a purpose are active together only if their sends          *)
(* overlapped.                                                             *)
(***************************************************************************)
THEOREM DuplicatesOverlapped == Spec => []ActiveTogetherOverlapped
<1>1. VerInv => ActiveTogetherOverlapped
  BY DEF VerInv, RequestInv, ActiveTogetherOverlapped, Active
<1>2. QED BY Invariance, <1>1, PTL

(* A spent code stays so, and is accepted no more.                         *)
LEMMA SpentStep ==
  ASSUME VerInv, StepFacts, NEW c \in Requests, Spent(c)
  PROVE  Spent(c)' /\ AcceptedWith(c)' = AcceptedWith(c)
<1>a. TypeOK /\ \A q \in Requests : RequestInv(q)
  BY DEF VerInv
<1>1. Stored(c) /\ ~Active(c) /\ RowKept(c) /\ rows[c] \in Row
  BY <1>a DEF Spent, StepFacts, TypeOK
<1>2. Stored(c)' /\ ~Active(c)'
  <2>1. now \in Nat /\ now' \in Nat /\ now' >= now /\ rows[c].expiresAt \in Nat
    BY <1>1, <1>a DEF StepFacts, VerInv, TypeOK, Row
  <2>2. QED BY <1>1, <2>1 DEF Active, Stored, RowKept
<1>3. \A r \in Requests : pc'[r] = "consume" => req'[r].code # c
  BY <1>1 DEF Spent, StepFacts, Advance
<1>4. \A r \in accepted' : req'[r].code = c <=> r \in accepted /\ req[r].code = c
  <2>1. accepted \subseteq Requests /\ accepted' \subseteq Requests
    BY <1>a DEF StepFacts, VerInv, TypeOK
  <2>2. QED BY <2>1 DEF Spent, StepFacts, Advance
<1>5. AcceptedWith(c)' = AcceptedWith(c)
  <2>1. accepted \subseteq accepted'
    BY <1>a DEF StepFacts, Advance, TypeOK
  <2>2. QED BY <1>4, <2>1 DEF AcceptedWith
<1>6. QED BY <1>2, <1>3, <1>5 DEF Spent

(***************************************************************************)
(* A code that is used, retired or expired, and that no verification still *)
(* running has found active, is never accepted again.                      *)
(***************************************************************************)
THEOREM SpentCodes == Spec => SpentIsFinal
<1>1. VerInv /\ [Next]_vars =>
        \A c \in Requests : Spent(c) => Spent(c)' /\ AcceptedWith(c)' = AcceptedWith(c)
  BY Step, SpentStep
<1>2. QED BY Invariance, <1>1, PTL DEF SpentIsFinal, Spec

(* An exhausted code stays so, and verifyOtp accepts it no more.           *)
LEMMA ExhaustedStep ==
  ASSUME VerInv, StepFacts, NEW c \in Requests, Exhausted(c)
  PROVE  /\ Exhausted(c)'
         /\ \A r \in accepted' \ accepted : req[r].handler = "otp" => req[r].code # c
<1> USE VerificationAssumption DEF VerificationAssumption
<1>a. TypeOK /\ \A q \in Requests : RequestInv(q)
  BY DEF VerInv
<1>1. rows[c] \in Row /\ rows'[c] \in Row /\ rows[c].attempts >= MaxAttempts
  BY <1>a DEF Exhausted, StepFacts, VerInv, TypeOK
<1>2. rows[c].attempts \in Nat /\ rows'[c].attempts \in Nat
  BY <1>1 DEF Row
<1>3. Stored(c)
  <2>1. ASSUME rows[c] = NoRow PROVE FALSE
    BY <1>1, <2>1 DEF NoRow
  <2>2. QED BY <1>a, <2>1 DEF RequestInv
<1>4. rows'[c].attempts >= MaxAttempts
  BY <1>1, <1>2, <1>3 DEF StepFacts, RowKept
<1>5. \A r \in Requests : pc'[r] = "consume" /\ req'[r].handler = "otp" => req'[r].code # c
  BY <1>1, <1>2 DEF Exhausted, StepFacts, Advance
<1>6. \A r \in accepted' \ accepted : req[r].handler = "otp" => req[r].code # c
  BY DEF Exhausted, StepFacts, Advance, VerInv, TypeOK
<1>7. QED BY <1>4, <1>5, <1>6 DEF Exhausted

(***************************************************************************)
(* A numeric code at its limit of attempts is never accepted by a          *)
(* verifyOtp that had not compared it before.                              *)
(***************************************************************************)
THEOREM ExhaustedCodes == Spec => ExhaustedIsFinal
<1>1. VerInv /\ [Next]_vars =>
        \A c \in Requests : Exhausted(c) =>
          /\ Exhausted(c)'
          /\ \A r \in accepted' \ accepted : req[r].handler = "otp" => req[r].code # c
  BY Step, ExhaustedStep
<1>2. QED BY Invariance, <1>1, PTL DEF ExhaustedIsFinal, Spec

(***************************************************************************)
(* The limit of attempts.  Whoever took a code to it reads the row again,  *)
(* finds it there, and consumes it: it is denied only after that.          *)
(***************************************************************************)
Limited(c) == rows[c].attempts >= MaxAttempts

Reached(c, r) ==
  /\ Limited(c)
  /\ req[r].code = c
  /\ pc[r] \in {"recount", "exhaust", "denied", "failed"}
  /\ pc[r] = "denied" => rows[c].consumed

ReachInv ==
  \A c \in Requests :
    /\ Limited(c) => reached[c] # {}
    /\ \A r \in reached[c] : Reached(c, r)

(* A step that leaves the attempts alone and undoes no consumption         *)
(* preserves it, if r had no code to retire or is still about to.          *)
LEMMA ReachFrame ==
  ASSUME TypeOK, ReachInv, NEW r \in Requests, NEW place,
         pc' = [pc EXCEPT ![r] = place],
         reached' = reached,
         \A q \in Requests \ {r} : req'[q] = req[q],
         \A c \in Requests : /\ rows'[c].attempts = rows[c].attempts
                             /\ rows[c].consumed => rows'[c].consumed,
         \/ pc[r] \notin {"recount", "exhaust", "denied", "failed"}
         \/ /\ req'[r] = req[r] /\ place \in {"exhaust", "denied", "failed"}
            /\ place = "denied" => ~Limited(req[r].code) \/ rows'[req[r].code].consumed
  PROVE  ReachInv'
<1>1. ASSUME NEW c \in Requests PROVE Limited(c)' => reached'[c] # {}
  BY DEF ReachInv, Limited
<1>2. ASSUME NEW c \in Requests, NEW q \in reached[c] PROVE Reached(c, q)'
  <2>1. q \in Requests /\ Reached(c, q) /\ pc'[r] = place
    BY <1>2 DEF ReachInv, TypeOK
  <2>2. CASE q # r
    BY <2>1, <2>2 DEF Reached, Limited, TypeOK
  <2>3. CASE q = r
    BY <2>1, <2>3 DEF Reached, Limited
  <2>4. QED BY <2>2, <2>3
<1>3. QED BY <1>1, <1>2 DEF ReachInv

(* The miss that takes a code to its limit is noted; one before is not.    *)
LEMMA ReachStep ==
  ASSUME VerInv, ReachInv, NEW r \in Requests, IncrementAttempts(r)
  PROVE  ReachInv'
<1> USE VerificationAssumption DEF VerificationAssumption
<1>0. PICK c \in Requests : c = req[r].code
  BY DEF IncrementAttempts, VerInv, RequestInv
<1>1. /\ pc[r] = "count" /\ pc' = [pc EXCEPT ![r] = "recount"] /\ req' = req
      /\ rows' = [rows EXCEPT ![c].attempts = @ + 1]
      /\ reached' = IF rows'[c].attempts >= MaxAttempts
                    THEN [reached EXCEPT ![c] = @ \cup {r}] ELSE reached
  BY <1>0 DEF IncrementAttempts, Goto
<1>2. TypeOK /\ rows[c] \in Row
  BY DEF VerInv, RequestInv, TypeOK
<1>3. /\ rows'[c].attempts = rows[c].attempts + 1 /\ rows[c].attempts \in Nat
      /\ rows'[c].consumed = rows[c].consumed
      /\ \A d \in Requests \ {c} : rows'[d] = rows[d]
  BY <1>1, <1>2 DEF TypeOK, Row
<1>4. /\ pc'[r] = "recount" /\ \A q \in Requests \ {r} : pc'[q] = pc[q]
      /\ \A d \in Requests : r \notin reached[d]
  BY <1>1, <1>2 DEF TypeOK, ReachInv, Reached
<1>5. /\ \A d \in Requests \ {c} : reached'[d] = reached[d]
      /\ Limited(c)' => reached'[c] = reached[c] \cup {r}
      /\ ~Limited(c)' => reached'[c] = reached[c]
  BY <1>1, <1>2 DEF TypeOK, Limited
<1>6. ASSUME NEW d \in Requests, NEW q \in reached[d] PROVE Reached(d, q)'
  <2>1. q \in Requests \ {r} /\ Reached(d, q)
    BY <1>2, <1>4, <1>6 DEF ReachInv, TypeOK
  <2>2. Limited(d)' /\ (rows[d].consumed => rows'[d].consumed)
    BY <1>2, <1>3, <2>1 DEF Reached, Limited
  <2>3. QED BY <1>1, <1>4, <2>1, <2>2 DEF Reached
<1>7. Limited(c)' => Reached(c, r)'
  BY <1>0, <1>1, <1>4 DEF Reached
<1>8. ASSUME NEW d \in Requests
      PROVE  /\ Limited(d)' => reached'[d] # {}
             /\ \A q \in reached'[d] : Reached(d, q)'
  <2>1. CASE d # c
    BY <1>3, <1>5, <1>6, <2>1 DEF ReachInv, Limited
  <2>2. CASE d = c /\ Limited(c)'
    <3>1. reached'[d] = reached[d] \cup {r}
      BY <1>5, <2>2
    <3>2. ASSUME NEW q \in reached'[d] PROVE Reached(d, q)'
      BY <3>1, <3>2, <1>6, <1>7, <2>2
    <3>3. QED BY <3>1, <3>2
  <2>3. CASE d = c /\ ~Limited(c)'
    <3>1. reached'[d] = reached[d]
      BY <1>5, <2>3
    <3>2. ASSUME NEW q \in reached'[d] PROVE Reached(d, q)'
      BY <3>1, <3>2, <1>6
    <3>3. QED BY <3>2, <2>3
  <2>4. QED BY <2>1, <2>2, <2>3
<1>9. QED BY <1>8 DEF ReachInv

(* Every step preserves it.                                                *)
LEMMA ReachPreserved == VerInv /\ ReachInv /\ [Next]_vars => ReachInv'
<1> SUFFICES ASSUME VerInv, ReachInv, [Next]_vars PROVE ReachInv'
  OBVIOUS
<1>a. TypeOK /\ \A r \in Requests : RequestInv(r)
  BY DEF VerInv
<1>b. \A c \in Requests : rows[c] \in Row
  BY <1>a DEF TypeOK
<1>c. ASSUME NEW r \in Requests, NEW fields, NEW place, Arrive(r, fields, place)
      PROVE  /\ pc[r] = "idle" /\ pc' = [pc EXCEPT ![r] = place]
             /\ \A q \in Requests \ {r} : req'[q] = req[q]
  BY <1>a, <1>c DEF Arrive, Goto, TypeOK
<1>1. ASSUME NEW r \in Requests, NEW p \in Purposes, SendStart(r, p) PROVE ReachInv'
  <2>1. /\ pc[r] = "idle" /\ pc' = [pc EXCEPT ![r] = "create"]
        /\ \A q \in Requests \ {r} : req'[q] = req[q]
    BY <1>1, <1>c DEF SendStart
  <2>2. ASSUME NEW c \in Requests
        PROVE  rows'[c].attempts = rows[c].attempts /\ (rows[c].consumed => rows'[c].consumed)
    BY <1>1, <1>b DEF SendStart, RevokeAllForTarget, Row
  <2>3. reached' = reached
    BY <1>1 DEF SendStart, history
  <2>4. QED BY <1>a, <2>1, <2>2, <2>3, ReachFrame
<1>2. ASSUME NEW r \in Requests, CreateCode(r) PROVE ReachInv'
  <2>1. pc[r] = "create" /\ pc' = [pc EXCEPT ![r] = "mail"] /\ reached' = reached /\ req' = req
    BY <1>2 DEF CreateCode, Goto, history
  <2>2. rows[r].attempts = 0 /\ rows'[r].attempts = 0 /\ ~rows[r].consumed
    BY <1>2, <1>a, <2>1 DEF CreateCode, RequestInv, NoRow, TypeOK
  <2>3. ASSUME NEW c \in Requests \ {r} PROVE rows'[c] = rows[c]
    BY <1>2, <1>a DEF CreateCode, TypeOK
  <2>4. QED BY <1>a, <2>1, <2>2, <2>3, ReachFrame
<1>3. ASSUME NEW r \in Requests, SendMail(r) \/ CallFails(r) PROVE ReachInv'
  <2>1. PICK place \in {"sent", "failed"} :
          /\ pc[r] \in InFlightPlaces /\ pc' = [pc EXCEPT ![r] = place]
          /\ place = "sent" => pc[r] = "mail"
    BY <1>3 DEF SendMail, CallFails, Goto, InFlightPlaces
  <2>2. rows' = rows /\ reached' = reached /\ req' = req
    BY <1>3 DEF SendMail, CallFails, history
  <2>3. QED BY <1>a, <2>1, <2>2, ReachFrame DEF InFlightPlaces
<1>4. ASSUME NEW r \in Requests, Recount(r) PROVE ReachInv'
  <2>1. PICK place \in {"exhaust", "denied"} :
          /\ pc' = [pc EXCEPT ![r] = place]
          /\ place = "denied" => ~Limited(req[r].code)
    BY <1>4 DEF Recount, Goto, Limited
  <2>2. rows' = rows /\ reached' = reached /\ req' = req
    BY <1>4 DEF Recount, history
  <2>3. QED BY <1>a, <2>1, <2>2, ReachFrame
<1>5. ASSUME NEW r \in Requests, Exhaust(r) \/ Consume(r) PROVE ReachInv'
  <2>1. PICK c \in Requests : c = req[r].code
    BY <1>5, <1>a DEF Exhaust, Consume, RequestInv
  <2>2. rows' = [rows EXCEPT ![c].consumed = TRUE] /\ reached' = reached /\ req' = req
    BY <1>5, <2>1 DEF Exhaust, Consume, ConsumeRow, history
  <2>3. /\ rows'[c] = [rows[c] EXCEPT !.consumed = TRUE]
        /\ \A d \in Requests \ {c} : rows'[d] = rows[d]
    BY <2>2, <1>a DEF TypeOK
  <2>4. rows'[c].consumed /\ rows'[c].attempts = rows[c].attempts
    BY <2>3, <1>b DEF Row
  <2>5. \A d \in Requests : /\ rows'[d].attempts = rows[d].attempts
                            /\ rows[d].consumed => rows'[d].consumed
    BY <2>3, <2>4
  <2>6. CASE Exhaust(r)
    <3>1. pc' = [pc EXCEPT ![r] = "denied"]
      BY <2>6 DEF Exhaust, Goto
    <3>2. QED BY <1>a, <2>1, <2>2, <2>4, <2>5, <3>1, ReachFrame
  <2>7. CASE Consume(r)
    <3>1. pc' = [pc EXCEPT ![r] = "accepted"] /\ pc[r] = "consume"
      BY <2>7 DEF Consume, Goto
    <3>2. QED BY <1>a, <2>2, <2>5, <3>1, ReachFrame
  <2>8. QED BY <1>5, <2>6, <2>7
<1>6. ASSUME NEW r \in Requests, NEW fields, NEW place, Arrive(r, fields, place),
             UNCHANGED <<rows, history>>
      PROVE  ReachInv'
  <2>1. rows' = rows /\ reached' = reached
    BY <1>6 DEF history
  <2>2. QED BY <1>a, <1>c, <1>6, <2>1, ReachFrame
<1>7. ASSUME NEW r \in Requests, VerifyOtpExpired(r) PROVE ReachInv'
  BY <1>6, <1>7 DEF VerifyOtpExpired
<1>8. ASSUME NEW r \in Requests, NEW g, VerifyOtpStart(r, g) PROVE ReachInv'
  BY <1>6, <1>8 DEF VerifyOtpStart
<1>9. ASSUME NEW r \in Requests, NEW h, NEW c,
             VerifyLinkExpired(r, h, c) \/ VerifyLinkStart(r, h, c)
      PROVE  ReachInv'
  BY <1>6, <1>9 DEF VerifyLinkExpired, VerifyLinkStart
<1>10. CASE Tick \/ UNCHANGED vars
  BY <1>10 DEF Tick, vars, history, ReachInv, Reached, Limited
<1>11. QED
  BY <1>1, <1>2, <1>3, <1>4, <1>5, <1>7, <1>8, <1>9, <1>10, ReachStep DEF Next, SendStep, VerifyStep

(***************************************************************************)
(* A code at its limit of attempts and not consumed is about to be: every  *)
(* verification that took it there is on its way to consume it, or died.   *)
(***************************************************************************)
THEOREM LimitAlwaysRetires == Spec => []LimitRetires
<1>1. Init => ReachInv
  <2>1. SUFFICES ASSUME Init, NEW c \in Requests PROVE ~Limited(c) /\ reached[c] = {}
    BY DEF ReachInv
  <2>2. rows[c].attempts = 0 /\ reached[c] = {}
    BY <2>1 DEF Init, NoRow
  <2>3. QED BY <2>2, VerificationAssumption DEF Limited, VerificationAssumption
<1>2. ReachInv => LimitRetires
  BY DEF ReachInv, Reached, Limited, LimitRetires, Retiring
<1>3. QED
  BY <1>1, <1>2, Invariance, ReachPreserved, PTL DEF Spec

-----------------------------------------------------------------------------
(***************************************************************************)
(* Accounts, for any calls, addresses, usernames, phones and accounts at   *)
(* a provider.                                                             *)
(***************************************************************************)

\* The typed state of one call, and what it knows.
LEMMA Typed ==
  ASSUME AccountsInv, NEW r \in Calls
  PROVE  /\ call[r] \in Call /\ at[r] \in SUBSET Steps /\ stage[r] \in Ended \cup {"idle", "open"}
         /\ Fits(r, call[r], at[r], stage[r])
         /\ call \in [Calls -> Call] /\ at \in [Calls -> SUBSET Steps]
         /\ stage \in [Calls -> Ended \cup {"idle", "open"}]
BY DEF AccountsInv, AccountsTypeOK

\* The key of an identity.
LEMMA Keys ==
  ASSUME NEW q, About(q), q.op # "verifyEmail"
  PROVE  q.code \in Providers /\ q.subject \in Subjects /\ KeyOf(q) \in Providers \X Subjects
<1>1. \A op \in Operations : CodeOf[op] \in Providers
  BY DEF CodeOf, Providers, Operations, Mailed
<1>2. q.code \in Providers
  BY <1>1 DEF About
<1>3. q.subject \in Subjects
  BY DEF About, Operations, Mailed, Names, Subjects
<1> QED BY <1>2, <1>3 DEF KeyOf

\* The codes by which operations are told apart.
LEMMA Codes ==
  ASSUME NEW q, About(q), q.op # "linkIdentity"
  PROVE  /\ q.code = "local" <=> q.op \in {"signUp", "signIn"}
         /\ q.code \in {"email_otp", "magic_link"} <=> q.op \in Mailed
BY DEF About, CodeOf, Operations, Mailed

\* Call r moves on with request q to the calls a, and to p.
Moves(r, q, a, p) ==
  /\ call' = [call EXCEPT ![r] = q]
  /\ at' = [at EXCEPT ![r] = a]
  /\ stage' = [stage EXCEPT ![r] = p]

\* No row is taken away or changes hands, and no user is created but r's.
Grows(r) ==
  /\ providers \subseteq providers' /\ password \subseteq password'
  /\ members \subseteq members' /\ devices \subseteq devices'
  /\ users \subseteq users' /\ users' \subseteq users \cup {r}
  /\ \A n \in Names : holder[n] # Absent => holder'[n] = holder[n]
  /\ \A k \in Providers \X Subjects : owner[k] # Absent => owner'[k] = owner[k]
  /\ linked \subseteq linked' /\ \A k \in linked' : k \in linked \/ owner[k] = Absent
  /\ \A s \in Calls : session[s] # Absent => session'[s] = session[s]

\* What a call has found stays true.
LEMMA FoundStays ==
  ASSUME NEW r, Grows(r), NEW q
  PROVE  /\ Known(q) /\ q.name \in Names => Known(q)'
         /\ KeyOf(q) \in Providers \X Subjects /\ Identified(q) => Identified(q)'
         /\ Linked(q) => Linked(q)'
<1>1. Known(q) /\ q.name \in Names => Known(q)'
  BY DEF Known, Grows
<1>2. KeyOf(q) \in Providers \X Subjects /\ Identified(q) => Identified(q)'
  BY DEF Identified, FindByProviderAndSubject, Grows
<1>3. Linked(q) => Linked(q)'
  BY DEF Linked, SignedIn, Grows
<1> QED BY <1>1, <1>2, <1>3

\* What a call is about has a name or a subject where the call needs one.
LEMMA AboutNames ==
  ASSUME NEW q, About(q)
  PROVE  /\ q.op \in Operations
         /\ q.op \in Mailed \cup {"signUp", "signIn", "verifyEmail"} => q.name \in Names
         /\ q.op = "providerLogin" /\ q.proven => q.name \in Names
         /\ q.op # "verifyEmail" => KeyOf(q) \in Providers \X Subjects
         /\ q.name # Absent => q.name \in Names
<1>1. Absent \notin Names
  BY AccountsAssumption DEF Subjects
<1> QED BY <1>1, Keys DEF About, Operations, Mailed, Names, Subjects

\* So does what holds of a call that has no user of its own yet,
LEMMA UnservedStays ==
  ASSUME NEW r, Grows(r), NEW s, NEW q, About(q), NEW step, Unserved(s, q, step)
  PROVE  Unserved(s, q, step)'
BY FoundStays, AboutNames DEF Unserved

\* what holds of one that has,
LEMMA ServedStays ==
  ASSUME NEW r, Grows(r), NEW s, NEW q, About(q), NEW step, Served(s, q, step), s # Absent
  PROVE  Served(s, q, step)'
<1>1. step = "identity" => /\ q.op \in Mailed => Known(q)'
                           /\ q.op = "providerLogin" => q.user = s \/ (q.proven /\ Known(q)')
                           /\ q.op = "linkIdentity" => Linked(q)'
  BY FoundStays, AboutNames DEF Served
<1>2. step \in {"password", "access", "device", "tokens", "issue"} => Identified(q)'
  BY FoundStays, AboutNames DEF Served, Mailed
<1>3. step \in {"tokens", "issue"} =>
        \/ q.user = q.owner /\ q.op # "signIn"
        \/ /\ q.op \in Mailed \cup {"signIn"} /\ Known(q)' /\ q.user # s
           /\ q.op = "signIn" => q.subject \in password'
           /\ q.op \in Mailed => KeyOf(q) \in linked'
  BY FoundStays, AboutNames DEF Served, Grows
<1>4. step = "issue" /\ q.user = s =>
        /\ s \in members'
        /\ q.name # Absent => holder'[q.name] = s
        /\ q.op = "signUp" => s \in devices' /\ q.subject \in password'
  BY AboutNames DEF Served, Grows
<1> QED BY <1>1, <1>2, <1>3, <1>4 DEF Served

\* and how far it is with the calls it awaits together.
LEMMA TogetherStays ==
  ASSUME NEW r, Grows(r), NEW s, NEW q, About(q), NEW a, NEW p, Together(s, q, a, p), s # Absent
  PROVE  Together(s, q, a, p)'
<1>1. q.op = "signUp" => q.name \in Names
  BY AboutNames
<1>2. q.op = "signUp" /\ Identified(q) => Identified(q)'
  BY FoundStays, AboutNames
<1>3. ASSUME NEW b, Result(s, q, b), q.op = "signUp", b \in Branches(q) PROVE Result(s, q, b)'
  <2>1. b \in {"password", "access", "device", "email"}
    BY <1>3 DEF Branches
  <2>2. CASE b = "email"
    BY <1>1, <1>3, <2>2 DEF Result, Grows
  <2>3. CASE b # "email"
    BY <1>3, <2>1, <2>3 DEF Result, Grows
  <2> QED BY <2>2, <2>3
<1>4. q.op = "signUp" /\ a \subseteq Branches(q) /\ p = "open" =>
        \A b \in Branches(q) \ a : Result(s, q, b)'
  BY <1>3 DEF Together
<1>5. \A n \in Names : holder[n] = s => holder'[n] = s
  BY DEF Grows
<1>6. /\ q.user = s /\ q.name \in Usernames => holder'[q.name] = s
      /\ q.user = s /\ q.op # "signUp" /\ q.name # Absent /\ "email" \notin a => holder'[q.name] = s
  BY <1>5, AboutNames DEF Together, Names
<1>7. Identified(q) /\ KeyOf(q) \notin linked => KeyOf(q) \notin linked'
  BY DEF Grows, Identified, FindByProviderAndSubject
<1> QED BY <1>2, <1>4, <1>6, <1>7 DEF Together, Branches

\* While r moves, the other calls keep what they know.
LEMMA OthersFit ==
  ASSUME AccountsInv, NEW r \in Calls, Busy(r), Grows(r),
         NEW q, NEW a, NEW p, Moves(r, q, a, p), NEW s \in Calls \ {r}
  PROVE  /\ call'[s] = call[s] /\ at'[s] = at[s] /\ stage'[s] = stage[s]
         /\ Fits(s, call[s], at[s], stage[s])'
<1>1. call'[s] = call[s] /\ at'[s] = at[s] /\ stage'[s] = stage[s]
  BY Typed DEF Moves
<1>2. s # Absent
  BY AccountsAssumption DEF Users
<1>3. Fits(s, call[s], at[s], stage[s])
  BY Typed
<1>4. at[s] # {} => call[s].beside
  BY DEF AccountsInv, BesideKnown, Busy
<1>5. PICK x, b, z : x = call[s] /\ b = at[s] /\ z = stage[s]
  OBVIOUS
<1>6. Fits(s, x, b, z) /\ (b # {} => x.beside)
  BY <1>3, <1>4, <1>5
<1>7. b # {} => Together(s, x, b, z)'
  BY <1>6, <1>2, TogetherStays DEF Fits
<1>8. \A step \in b : Unserved(s, x, step)' /\ Served(s, x, step)'
  BY <1>6, <1>2, UnservedStays, ServedStays DEF Fits
<1>9. Fits(s, x, b, z)'
  BY <1>6, <1>7, <1>8 DEF Fits
<1> QED BY <1>1, <1>5, <1>9

\* A call that created an account has it all.
Completed(r, q) ==
  q.user = r =>
    /\ r \in users \cap members \cap devices
    /\ owner[KeyOf(q)] = r
    /\ q.name # Absent => holder[q.name] = r
    /\ q.op = "signUp" => q.subject \in password
    /\ session[r] = [user |-> r, owner |-> r]

\* Why a call met a unique column.
Excused(r, q) ==
  \/ q.beside
  \/ q.op = "providerLogin" /\ ~q.proven
  \/ KeyOf(q) \in linked
  \/ Broken(r)

\* What the session of call r, with request q, is.
SessionOf(r, q) ==
  session[r] # Absent =>
    /\ session[r].user \in users /\ session[r].owner \in users
    /\ Signed(session[r], q.op)

\* What call r may do to the store and to itself keeps the invariant.
LEMMA StepKeeps ==
  ASSUME AccountsInv, NEW r \in Calls, Busy(r), Grows(r), AccountsTypeOK',
         NEW q \in Call, NEW a \in SUBSET Steps, NEW p \in Ended \cup {"open"},
         Moves(r, q, a, p), Fits(r, q, a, p)',
         q.op = call[r].op, q.user = r <=> r \in users',
         stage[r] # "open" => p = stage[r],
         a # {} \/ p = "conflict" => q.beside = call[r].beside,
         p = "conflict" => q.proven = call[r].proven /\ KeyOf(q) = KeyOf(call[r]),
         p = "open" \/ (p = "done" /\ q.user = r) => q.name = call[r].name,
         p = "done" => Completed(r, q)',
         p = "denied" => q.user # r,
         p = "conflict" => stage[r] = "conflict" \/ Excused(r, q)',
         \A n \in Names : \/ owner'[<<"local", n>>] = owner[<<"local", n>>]
                          \/ <<"local", n>> \in linked'
                          \/ /\ owner'[<<"local", n>>] = r
                             /\ q.op = "signUp" /\ q.name = n /\ p = "open",
         \A n \in password' : n \in password \/ <<"local", n>> \notin linked',
         MailedIdentitiesAgree',
         \A s \in Calls \ {r} : session'[s] = session[s],
         session'[r] = session[r] \/ (p = "done" /\ SessionOf(r, q)')
  PROVE  AccountsInv'
<1>1. r # Absent /\ Absent \notin Calls
  BY AccountsAssumption DEF Users
<1>2. /\ call'[r] = q /\ at'[r] = a /\ stage'[r] = p
      /\ \A s \in Calls \ {r} : /\ call'[s] = call[s] /\ at'[s] = at[s] /\ stage'[s] = stage[s]
                                /\ Fits(s, call[s], at[s], stage[s])'
  BY Typed, OthersFit DEF Moves
<1>3. \A s \in Calls : Fits(s, call[s], at[s], stage[s])'
  BY <1>2
<1>4. UsersOwn'
  BY <1>2 DEF AccountsInv, UsersOwn, Creator, Grows
<1>5. ASSUME NEW n \in Names, <<"local", n>> \in linked', n \in password' PROVE FALSE
  <2>1. n \in password
    BY <1>5
  <2>2. owner[<<"local", n>>] # Absent /\ <<"local", n>> \notin linked
    BY <2>1 DEF AccountsInv, AccountsTypeOK, LocalOwners
  <2> QED BY <1>5, <2>2 DEF Grows
<1>6. LocalOwners'
  <2> SUFFICES ASSUME NEW n \in Names, NEW s, s = owner'[<<"local", n>>], s # Absent,
                      <<"local", n>> \notin linked'
               PROVE  /\ s \in Calls
                      /\ call'[s].op = "signUp" /\ stage'[s] \in {"open", "done", "conflict", "failed"}
                      /\ stage'[s] = "open" => call'[s].name = n
                      /\ stage'[s] = "done" => holder'[n] = s
    BY <1>5 DEF LocalOwners
  <2>1. s \in users'
    BY DEF AccountsTypeOK, Providers, Subjects
  <2>2. CASE owner'[<<"local", n>>] # owner[<<"local", n>>]
    BY <2>2, <1>2
  <2>3. CASE owner'[<<"local", n>>] = owner[<<"local", n>>]
    <3>1. /\ s \in Calls /\ call[s].op = "signUp" /\ stage[s] \in {"open", "done", "conflict", "failed"}
          /\ stage[s] = "open" => call[s].name = n
          /\ stage[s] = "done" => holder[n] = s
      BY <2>3 DEF AccountsInv, LocalOwners, Grows
    <3>2. CASE s # r
      BY <3>1, <3>2, <1>1, <1>2, <2>1 DEF Grows
    <3>3. CASE s = r
      <4>1. q.user = r
        BY <2>1, <3>3
      <4>2. stage[r] = "open" /\ p = "done" => holder'[n] = r
        BY <4>1, <3>1, <3>3, <1>1, AccountsAssumption DEF Completed, Subjects
      <4>3. stage[r] = "done" => holder'[n] = r
        BY <3>1, <3>3, <1>1 DEF Grows
      <4>4. p \in {"open", "done", "conflict", "failed"}
        BY <4>1 DEF Ended
      <4>5. p = "open" => q.name = n
        BY <3>1, <3>3
      <4> QED BY <1>2, <3>1, <3>3, <4>2, <4>3, <4>4, <4>5
    <3> QED BY <3>2, <3>3
  <2> QED BY <2>2, <2>3
<1>7. SessionsExplained'
  <2> SUFFICES ASSUME NEW s \in Calls, session'[s] # Absent
               PROVE  /\ stage'[s] = "done"
                      /\ session'[s].user \in users' /\ session'[s].owner \in users'
                      /\ Signed(session[s], call[s].op)'
    BY DEF SessionsExplained
  <2>1. CASE session'[s] # session[s]
    BY <2>1, <1>2 DEF SessionOf
  <2>2. CASE session'[s] = session[s]
    <3>1. /\ stage[s] = "done" /\ session[s].user \in users /\ session[s].owner \in users
          /\ Signed(session[s], call[s].op)
      BY <2>2 DEF AccountsInv, SessionsExplained
    <3>2. stage'[s] = "done" /\ call'[s].op = call[s].op
      BY <3>1, <1>2
    <3>3. \A n \in Names, k \in Providers \X Subjects :
            session[s] = [user |-> holder[n], owner |-> owner[k]] =>
              session[s] = [user |-> holder'[n], owner |-> owner'[k]]
      <4>1. Absent \notin users
        BY <1>1, AccountsAssumption DEF AccountsInv, AccountsTypeOK
      <4> QED BY <3>1, <4>1 DEF Grows
    <3>4. /\ \A n \in password : n \in Names /\ <<"local", n>> \in Providers \X Subjects
          /\ \A e \in Emails, op \in Mailed : e \in Names /\ <<CodeOf[op], e>> \in Providers \X Subjects
      BY DEF AccountsInv, AccountsTypeOK, Providers, Subjects, Names, CodeOf, Mailed, Operations
    <3>5. Signed(session[s], call[s].op) => Signed(session[s], call[s].op)'
      <4>1. PICK t, op : t = session[s] /\ op = call[s].op
        OBVIOUS
      <4>2. /\ session'[s] = t /\ call'[s].op = op
            /\ password \subseteq password' /\ linked \subseteq linked'
        BY <2>2, <3>2, <4>1 DEF Grows
      <4>3. Signed(t, op) => Signed(t, op)'
        <5>1. \A n \in password : t = [user |-> holder[n], owner |-> owner[<<"local", n>>]] =>
                n \in password' /\ t = [user |-> holder'[n], owner |-> owner'[<<"local", n>>]]
          BY <3>3, <3>4, <4>1, <4>2
        <5>2. \A e \in Emails : op \in Mailed /\ <<CodeOf[op], e>> \in linked =>
                /\ <<CodeOf[op], e>> \in linked'
                /\ t = [user |-> holder[e], owner |-> owner[<<CodeOf[op], e>>]] =>
                     t = [user |-> holder'[e], owner |-> owner'[<<CodeOf[op], e>>]]
          BY <3>3, <3>4, <4>1, <4>2
        <5> QED BY <5>1, <5>2 DEF Signed
      <4>4. Signed(t, op)' => Signed(session[s], call[s].op)'
        BY <4>2 DEF Signed
      <4> QED BY <4>1, <4>3, <4>4
    <3> QED BY <2>2, <3>1, <3>2, <3>5 DEF Grows
  <2> QED BY <2>1, <2>2
<1>8. BesideKnown'
  BY <1>2 DEF AccountsInv, BesideKnown, Busy
<1>9. CompleteAccounts'
  <2> SUFFICES ASSUME NEW s \in Calls, stage'[s] = "done", call'[s].user = s
               PROVE  Completed(s, call[s])'
    BY DEF CompleteAccounts, Creator, Completed
  <2>1. CASE s = r
    BY <2>1, <1>2
  <2>2. CASE s # r
    <3>1. /\ s \in users \cap members \cap devices
          /\ owner[KeyOf(call[s])] = s
          /\ call[s].name # Absent => holder[call[s].name] = s
          /\ call[s].op = "signUp" => call[s].subject \in password
          /\ session[s] = [user |-> s, owner |-> s]
      BY <2>2, <1>2 DEF AccountsInv, CompleteAccounts, Creator
    <3>2. KeyOf(call[s]) \in Providers \X Subjects
      BY <2>2, <1>2, Typed DEF Fits
    <3>3. call[s].name # Absent => call[s].name \in Names
      BY Typed DEF Call
    <3> QED BY <3>1, <3>2, <3>3, <2>2, <1>1, <1>2 DEF Completed, Grows
  <2> QED BY <2>1, <2>2
<1>10. ConflictsExplained'
  <2> SUFFICES ASSUME NEW s \in Calls, stage'[s] = "conflict"
               PROVE  Excused(s, call[s])'
    BY DEF ConflictsExplained, Excused, Broken
  <2>1. stage[s] = "conflict" => Excused(s, call[s])
    BY DEF AccountsInv, ConflictsExplained, Excused, Broken
  <2>2. Broken(s) => Broken(s)'
    BY <1>2 DEF Broken
  <2> QED BY <1>2, <2>1, <2>2 DEF Excused, Grows
<1> QED BY <1>3, <1>4, <1>6, <1>7, <1>8, <1>9, <1>10 DEF AccountsInv

\* A call that has ended is kept as a request.
LEMMA Ghosts ==
  ASSUME NEW r \in Calls, NEW q \in Call, NEW outcome \in Ended
  PROVE  /\ Ghost(r, q, outcome) \in Call
         /\ Ghost(r, q, outcome).op = q.op
         /\ Ghost(r, q, outcome).user = r <=> q.user = r
         /\ outcome = "done" /\ q.user = r =>
              /\ KeyOf(Ghost(r, q, outcome)) = KeyOf(q)
              /\ Ghost(r, q, outcome).name = q.name
         /\ outcome = "conflict" => /\ KeyOf(Ghost(r, q, outcome)) = KeyOf(q)
                                    /\ Ghost(r, q, outcome).beside = q.beside
                                    /\ Ghost(r, q, outcome).proven = q.proven
<1>1. r # Absent
  BY AccountsAssumption DEF Users
<1>2. PICK made, kept : made = (outcome = "done" /\ q.user = r) /\ kept = (made \/ outcome = "conflict")
  OBVIOUS
<1>3. PICK code, subject, name, user, proven, beside :
        /\ code = IF kept THEN q.code ELSE Absent
        /\ subject = IF kept THEN q.subject ELSE Absent
        /\ name = IF made THEN q.name ELSE Absent
        /\ user = IF q.user = r THEN r ELSE Absent
        /\ proven = (q.proven /\ outcome = "conflict")
        /\ beside = (q.beside /\ outcome = "conflict")
  OBVIOUS
<1>4. Ghost(r, q, outcome) =
        [op |-> q.op, code |-> code, subject |-> subject, name |-> name, proven |-> proven,
         user |-> user, owner |-> Absent, marks |-> FALSE, beside |-> beside]
  <2>1. Ghost(r, q, outcome) =
          [NoCall EXCEPT !.op = q.op, !.code = code, !.subject = subject, !.name = name,
                         !.user = user, !.proven = proven, !.beside = beside]
    BY <1>2, <1>3 DEF Ghost
  <2> QED BY <2>1 DEF NoCall
<1>5. /\ code \in Providers \cup {Absent}
      /\ subject \in Subjects \cup {Absent} /\ name \in Names \cup {Absent} /\ user \in Users \cup {Absent}
      /\ proven \in BOOLEAN /\ beside \in BOOLEAN
  BY <1>3 DEF Call, Users
<1>6. Ghost(r, q, outcome) \in Call
  BY <1>4, <1>5 DEF Call
<1>7. outcome = "conflict" => proven = q.proven /\ beside = q.beside
  BY <1>3 DEF Call
<1>8. /\ Ghost(r, q, outcome).op = q.op /\ Ghost(r, q, outcome).code = code
      /\ Ghost(r, q, outcome).subject = subject
      /\ Ghost(r, q, outcome).name = name /\ Ghost(r, q, outcome).user = user
      /\ Ghost(r, q, outcome).proven = proven /\ Ghost(r, q, outcome).beside = beside
  BY <1>4
<1>9. kept => code = q.code /\ subject = q.subject
  BY <1>3
<1> QED BY <1>1, <1>2, <1>3, <1>6, <1>7, <1>8, <1>9 DEF KeyOf

\* The call of two requests.
SameCall(q, x) ==
  /\ q.op = x.op /\ q.code = x.code /\ q.subject = x.subject /\ q.name = x.name
  /\ q.proven = x.proven /\ q.beside = x.beside

\* Such requests are about the same.
LEMMA AboutSame ==
  ASSUME NEW q, NEW x, SameCall(q, x), About(x)
  PROVE  About(q)
BY DEF SameCall, About

\* The types of what is stored.
StoreTyped ==
  /\ providers \subseteq Providers
  /\ users \subseteq Users
  /\ holder \in [Names -> users \cup {Absent}]
  /\ verified \subseteq {e \in Emails : holder[e] # Absent}
  /\ owner \in [Providers \X Subjects -> users \cup {Absent}]
  /\ password \subseteq {n \in Names : owner[<<"local", n>>] # Absent}
  /\ linked \subseteq {k \in Providers \X Subjects : owner[k] # Absent}
  /\ tokens \subseteq {x \in Externals : owner[<<"oauth", x>>] # Absent}
  /\ members \subseteq users /\ devices \subseteq users
  /\ session \in [Calls -> Session \cup {Absent}]

\* A call that moves on, and rows that are typed, give a typed state.
LEMMA MovesTyped ==
  ASSUME AccountsTypeOK, NEW r \in Calls, NEW q \in Call, NEW a \in SUBSET Steps,
         NEW p \in Ended \cup {"open"}, Moves(r, q, a, p), StoreTyped'
  PROVE  AccountsTypeOK'
BY DEF AccountsTypeOK, StoreTyped, Moves

\* The call's other awaited calls have returned.
Last(r, step) == at[r] = {step} /\ stage[r] = "open"

\* A call keeps the invariant when it goes on to the next calls, if these fit, ...
LEMMA NextKeeps ==
  ASSUME AccountsInv, NEW r \in Calls, NEW step \in at[r], Last(r, step),
         NEW q \in Call, NEW next \in SUBSET Steps, next # {}, Return(r, step, q, next),
         Grows(r), StoreTyped', SameCall(q, call[r]), q.user = r <=> r \in users',
         Fits(r, q, next, "open")',
         \A n \in Names : \/ owner'[<<"local", n>>] = owner[<<"local", n>>]
                          \/ <<"local", n>> \in linked'
                          \/ owner'[<<"local", n>>] = r /\ q.op = "signUp" /\ q.name = n,
         \A n \in password' : n \in password \/ <<"local", n>> \notin linked',
         session' = session, MailedIdentitiesAgree'
  PROVE  AccountsInv'
<1>1. Moves(r, q, next, "open") /\ Busy(r)
  BY Typed DEF Last, Return, Moves, Busy
<1>2. AccountsTypeOK'
  BY <1>1, MovesTyped DEF AccountsInv
<1>3. /\ q.op = call[r].op /\ q.beside = call[r].beside /\ q.proven = call[r].proven
      /\ q.name = call[r].name /\ KeyOf(q) = KeyOf(call[r])
  BY DEF SameCall, KeyOf
<1>4. "open" \in Ended \cup {"open"} /\ stage[r] = "open"
  BY DEF Last
<1> QED BY <1>1, <1>2, <1>3, <1>4, StepKeeps

\* ... when it ends with its answer, ...
LEMMA EndKeeps ==
  ASSUME AccountsInv, NEW r \in Calls, NEW step \in at[r], Last(r, step),
         NEW q \in Call, Return(r, step, q, {}),
         Grows(r), StoreTyped', SameCall(q, call[r]), q.user = r <=> r \in users',
         Completed(r, q)', q.user = r => q.op # "verifyEmail",
         \A n \in Names : owner'[<<"local", n>>] = owner[<<"local", n>>] \/ <<"local", n>> \in linked',
         \A n \in password' : n \in password \/ <<"local", n>> \notin linked',
         MailedIdentitiesAgree',
         \A s \in Calls \ {r} : session'[s] = session[s],
         session'[r] = session[r] \/ SessionOf(r, q)'
  PROVE  AccountsInv'
<1>1. PICK g : g = Ghost(r, q, "done")
  OBVIOUS
<1>2. /\ g \in Call /\ g.op = q.op /\ (g.user = r <=> q.user = r)
      /\ q.user = r => KeyOf(g) = KeyOf(q) /\ g.name = q.name
  BY <1>1, Ghosts DEF Ended
<1>3. Moves(r, g, {}, "done") /\ Busy(r) /\ stage[r] = "open"
  BY <1>1, Typed DEF Last, Return, Moves, Busy
<1>4. AccountsTypeOK'
  BY <1>2, <1>3, MovesTyped DEF AccountsInv, Ended
<1>5. q.user = r => q.op \in Operations /\ KeyOf(q) \in Providers \X Subjects
  <2>1. About(call[r])
    BY Typed DEF Fits
  <2> QED BY <2>1, AboutNames DEF SameCall, KeyOf
<1>6. Fits(r, g, {}, "done")'
  BY <1>2, <1>5 DEF Fits
<1>7. Completed(r, g)' /\ (session'[r] = session[r] \/ SessionOf(r, g)')
  <2>1. Completed(r, g)'
    <3>1. q.user = r => Completed(r, q)' /\ KeyOf(g) = KeyOf(q) /\ g.name = q.name /\ g.op = q.op
      BY <1>2
    <3>2. g.user = r => q.user = r
      BY <1>2
    <3> QED BY <3>1, <3>2 DEF Completed, KeyOf
  <2>2. SessionOf(r, q)' => SessionOf(r, g)'
    BY <1>2 DEF SessionOf, Signed
  <2> QED BY <2>1, <2>2
<1>8. "done" \in Ended /\ g.op = call[r].op /\ (g.user = r => g.name = call[r].name)
  BY <1>2 DEF SameCall, Ended
<1> QED BY <1>2, <1>3, <1>4, <1>6, <1>7, <1>8, StepKeeps

\* ... and when others of its calls are under way, or one of them has thrown.
LEMMA GoesOn ==
  ASSUME AccountsInv, NEW r \in Calls, NEW step \in at[r],
         NEW q \in Call, NEW next \in SUBSET Steps, next # {}, Return(r, step, q, next),
         NEW rest, rest = at[r] \ {step}, NEW p, p = stage[r],
         Grows(r), StoreTyped', SameCall(q, call[r]), q.user = r <=> r \in users',
         rest # {} => Fits(r, q, rest, p)',
         Last(r, step) => Fits(r, q, next, "open")',
         owner' = owner, session' = session, MailedIdentitiesAgree',
         \A n \in password' : n \in password \/ <<"local", n>> \notin linked'
  PROVE  AccountsInv'
<1>1. Busy(r) /\ stage[r] \in {"open", "conflict", "failed"}
  BY Typed DEF Busy, Fits, Ended
<1>2. /\ q.op = call[r].op /\ q.beside = call[r].beside /\ q.proven = call[r].proven
      /\ q.name = call[r].name /\ KeyOf(q) = KeyOf(call[r])
  BY DEF SameCall, KeyOf
<1>3. CASE at[r] # {step}
  <2>1. Moves(r, q, rest, p)
    BY <1>1, <1>3, Typed DEF Return, Moves
  <2>2. rest # {} /\ rest \in SUBSET Steps
    BY <1>3, Typed
  <2>3. p \in {"open", "conflict", "failed"} /\ p \in Ended \cup {"open"}
    BY <1>1 DEF Ended
  <2>4. AccountsTypeOK'
    BY <2>1, <2>2, <2>3, MovesTyped DEF AccountsInv
  <2>5. Fits(r, q, rest, p)'
    BY <2>2
  <2> QED BY <1>1, <1>2, <2>1, <2>2, <2>3, <2>4, <2>5, StepKeeps
<1>4. CASE Last(r, step)
  BY <1>4, NextKeeps
<1>5. CASE at[r] = {step} /\ stage[r] # "open"
  <2>1. PICK g : g = Ghost(r, q, stage[r])
    OBVIOUS
  <2>2. /\ g \in Call /\ g.op = q.op /\ (g.user = r <=> q.user = r)
        /\ stage[r] = "conflict" => g.beside = q.beside /\ g.proven = q.proven /\ KeyOf(g) = KeyOf(q)
    BY <1>1, <1>5, <2>1, Ghosts DEF Ended
  <2>3. Moves(r, g, {}, p)
    BY <1>1, <1>5, <2>1, Typed DEF Return, Moves
  <2>4. p \in {"conflict", "failed"} /\ p \in Ended
    BY <1>1, <1>5 DEF Ended
  <2>5. AccountsTypeOK'
    BY <2>2, <2>3, <2>4, MovesTyped DEF AccountsInv
  <2>6. Fits(r, g, {}, p)'
    BY <2>4 DEF Fits
  <2>7. /\ g.op = call[r].op /\ (g.user = r <=> r \in users')
        /\ p = "conflict" => /\ g.beside = call[r].beside /\ g.proven = call[r].proven
                             /\ KeyOf(g) = KeyOf(call[r])
    BY <1>2, <2>2
  <2> QED BY <1>1, <1>5, <2>2, <2>3, <2>4, <2>5, <2>6, <2>7, StepKeeps
<1> QED BY <1>3, <1>4, <1>5 DEF Last

\* A call that is under way.
LEMMA Underway ==
  ASSUME AccountsInv, NEW r \in Calls, NEW step \in at[r],
         NEW q, q = call[r], NEW a, a = at[r], NEW p, p = stage[r]
  PROVE  /\ Busy(r) /\ r # Absent /\ p \in {"open", "conflict", "failed"}
         /\ q \in Call /\ a \subseteq Steps /\ (q.user = r <=> r \in users)
         /\ About(q) /\ Together(r, q, a, p) /\ Fits(r, q, a, p)
         /\ \A other \in a : Unserved(r, q, other) /\ Served(r, q, other)
         /\ p = "open" /\ ~q.beside => Alone(r, q, a)
         /\ call' = [call EXCEPT ![r] = q] <=> call' = call
<1>1. call \in [Calls -> Call] /\ r # Absent
  BY Typed, AccountsAssumption DEF Users
<1>2. q.user = r <=> r \in users
  BY DEF AccountsInv, UsersOwn, Creator
<1> QED BY <1>1, <1>2, Typed DEF Busy, Fits, Ended

\* The steps of signUp that other steps of the call run beside.
LEMMA Beside ==
  ASSUME AccountsInv, NEW r \in Calls, NEW step \in at[r], at[r] # {step}
  PROVE  /\ call[r].op = "signUp"
         /\ \/ at[r] \subseteq Opening
            \/ at[r] \subseteq Branches(call[r])
BY Underway DEF Together

\* A step that leaves the store as it is.
LEMMA SameStore ==
  ASSUME AccountsInv, NEW r \in Calls, UNCHANGED store
  PROVE  /\ Grows(r) /\ StoreTyped' /\ MailedIdentitiesAgree'
         /\ providers' = providers /\ users' = users /\ members' = members /\ devices' = devices
         /\ holder' = holder /\ verified' = verified /\ owner' = owner
         /\ password' = password /\ linked' = linked /\ tokens' = tokens /\ session' = session
<1>1. /\ providers' = providers /\ users' = users /\ members' = members /\ devices' = devices
      /\ holder' = holder /\ verified' = verified /\ owner' = owner
      /\ password' = password /\ linked' = linked /\ tokens' = tokens /\ session' = session
  BY DEF store, userRows, emailRows, identityRows
<1>2. StoreTyped' <=> StoreTyped
  BY <1>1 DEF StoreTyped
<1>3. StoreTyped
  BY DEF AccountsInv, AccountsTypeOK, StoreTyped
<1>4. MailedIdentitiesAgree'
  BY <1>1 DEF AccountsInv, MailedIdentitiesAgree
<1> QED BY <1>1, <1>2, <1>3, <1>4 DEF Grows

\* What is left of a Promise.all still fits when one of its calls is over.
LEMMA RestFits ==
  ASSUME AccountsInv, NEW r \in Calls, NEW step \in at[r], Grows(r),
         NEW q, SameCall(q, call[r]), q.owner = call[r].owner,
         q.user = call[r].user \/ (step = "user" /\ q.user = r),
         NEW rest, rest = at[r] \ {step}, rest # {},
         NEW p, p = stage[r] \/ p \in {"conflict", "failed"},
         stage' = [stage EXCEPT ![r] = p],
         p = "open" => \/ step \in {"provider", "insertProvider"}
                       \/ step = "user" /\ q.user = r
                       \/ step \in Branching /\ Result(r, q, step)',
         q.user = r /\ q.name \in Usernames => holder'[q.name] = r,
         "insertProvider" \in rest => providers' = providers,
         step # "email" => \A n \in Emails : holder'[n] = holder[n],
         step \notin {"email", "user"} => holder' = holder,
         owner' = owner
  PROVE  Fits(r, q, rest, p)'
<1> DEFINE x == call[r]
           a == at[r]
<1>1. /\ stage[r] \in {"open", "conflict", "failed"} /\ About(x) /\ Together(r, x, a, stage[r])
      /\ \A other \in a : Unserved(r, x, other) /\ Served(r, x, other)
      /\ stage[r] = "open" /\ ~x.beside => Alone(r, x, a)
      /\ r # Absent /\ x.op = "signUp" /\ (a \subseteq Opening \/ a \subseteq Branches(x))
  BY Underway, Beside
<1>2. About(q) /\ q.op = "signUp" /\ q.name \in Names /\ q.name = x.name /\ q.subject = x.subject
      /\ q.code = x.code /\ KeyOf(q) = KeyOf(x) /\ KeyOf(q) \in Providers \X Subjects
  BY <1>1, AboutSame, AboutNames DEF SameCall, KeyOf
<1>3. Branches(q) = Branches(x) /\ Opening \cap Branches(q) = {}
  BY <1>2 DEF Branches, Opening
<1>4. \A other \in rest : Unserved(r, q, other) /\ Served(r, q, other)
  <2> SUFFICES ASSUME NEW other \in rest PROVE Unserved(r, q, other) /\ Served(r, q, other)
    OBVIOUS
  <2>1. other \in Opening \cup Branching
    BY <1>1 DEF Opening, Branching, Branches
  <2>2. other \in Opening => Unserved(r, q, other) /\ Served(r, q, other)
    <3>1. other = "user" => q.user = x.user
      OBVIOUS
    <3>2. other = "user" => x.user = Absent
      BY <1>1 DEF Unserved
    <3> QED BY <1>2, <3>1, <3>2 DEF Unserved, Served, Opening, Mailed
  <2>3. other \in Branching => Unserved(r, q, other) /\ Served(r, q, other)
    <3>1. ASSUME other \in Branching PROVE step # "user" /\ q.user = x.user
      BY <1>1, <3>1 DEF Opening, Branching, Branches
    <3>2. Identified(x) => Identified(q)
      BY <1>2, <1>1 DEF Identified, FindByProviderAndSubject
    <3> QED BY <1>1, <1>2, <3>1, <3>2 DEF Unserved, Served, Branching, Mailed
  <2> QED BY <2>1, <2>2, <2>3
<1>5. \A other \in rest : Unserved(r, q, other)' /\ Served(r, q, other)'
  BY <1>1, <1>2, <1>4, UnservedStays, ServedStays
<1>6. Together(r, q, rest, p)'
  <2>1. rest \subseteq Opening \/ rest \subseteq Branches(q)
    BY <1>1, <1>3
  <2>2. p = "open" /\ rest \subseteq Opening /\ "user" \notin rest => q.user = r
    <3>1. p = "open" => stage[r] = "open"
      BY <1>1
    <3>2. rest \subseteq Opening => a \subseteq Opening
      BY <1>1, <1>3
    <3> QED BY <1>1, <3>1, <3>2 DEF Together, Branching, Opening
  <2>3. ASSUME rest \subseteq Branches(q)
        PROVE  q.user = r /\ q.owner = r /\ Identified(q)' /\ KeyOf(q) \notin linked'
    <3>1. a \subseteq Branches(x)
      BY <1>1, <1>3, <2>3
    <3>2. x.user = r /\ x.owner = r /\ Identified(x) /\ step # "user" /\ KeyOf(x) \notin linked
      BY <1>1, <3>1 DEF Together, Branches
    <3>3. Identified(q)
      BY <1>1, <1>2, <3>2 DEF Identified, FindByProviderAndSubject
    <3>4. KeyOf(q) \notin linked'
      BY <1>2, <3>2, <3>3 DEF Grows, Identified, FindByProviderAndSubject
    <3> QED BY <1>2, <3>2, <3>3, <3>4, FoundStays
  <2>4. ASSUME rest \subseteq Branches(q), p = "open" PROVE \A b \in Branches(q) \ rest : Result(r, q, b)'
    <3>1. a \subseteq Branches(x) /\ stage[r] = "open"
      BY <1>1, <1>3, <2>4
    <3>2. \A b \in Branches(x) \ a : Result(r, x, b)
      BY <1>1, <3>1 DEF Together
    <3>3. ASSUME NEW b \in Branches(x) \ a PROVE Result(r, q, b)'
      <4>1. Result(r, q, b)
        BY <3>2, <1>2 DEF Result
      <4>2. b \in {"password", "access", "device", "email"} /\ q.name \in Names
        BY <1>2 DEF Branches
      <4> HIDE DEF a, x
      <4> QED BY <4>1, <4>2, <1>1 DEF Result, Grows
    <3>4. Result(r, q, step)'
      BY <2>4, <3>1 DEF Branches
    <3> QED BY <1>3, <3>3, <3>4
  <2> QED BY <1>1, <1>2, <2>1, <2>2, <2>3, <2>4 DEF Together, Branches
<1>7. p = "open" /\ ~q.beside => Alone(r, q, rest)'
  <2> SUFFICES ASSUME p = "open", ~q.beside PROVE Alone(r, q, rest)'
    OBVIOUS
  <2>1. Alone(r, x, a)
    BY <1>1 DEF SameCall
  <2>2. Broken(r)' <=> Broken(r)
    BY Typed DEF Broken
  <2>3. rest \subseteq Opening => a \subseteq Opening
    BY <1>1, <1>3
  <2>4. "user" \in rest \/ "email" \in rest => step # "email" \/ holder' = holder
    BY <1>1, <1>2 DEF Opening, Branches
  <2>5. rest # {"identity"}
    BY <1>1 DEF Opening, Branches
  <2>6. q.code = x.code
    BY <1>2
  <2>7. "user" \in rest \/ "email" \in rest \/ (rest \subseteq Opening /\ q.name \in Emails) =>
          holder'[q.name] = holder[q.name]
    <3>1. step = "user" /\ "email" \in rest => FALSE
      BY <1>1 DEF Opening, Branches
    <3>2. step = "email" => ~("user" \in rest) /\ ~("email" \in rest) /\ ~(rest \subseteq Opening)
      BY <1>1, <1>3 DEF Opening, Branches
    <3> QED BY <3>1, <3>2
  <2>8. "user" \in rest \/ "email" \in rest \/ (rest \subseteq Opening /\ q.name \in Emails) =>
          q.name = Absent \/ holder'[q.name] = Absent
    BY <1>1, <1>2, <2>1, <2>3, <2>7 DEF Alone
  <2>9. rest \subseteq Opening => \/ owner'[KeyOf(q)] = Absent
                                \/ KeyOf(q) \in linked' \/ Broken(r)'
    BY <1>1, <1>2, <2>1, <2>2, <2>3 DEF Alone, FindByProviderAndSubject, Grows
  <2>10. "insertProvider" \in rest => q.code \notin providers'
    BY <2>1, <2>6 DEF Alone
  <2> QED BY <1>2, <2>5, <2>8, <2>9, <2>10 DEF Alone, FindByProviderAndSubject, Mailed
<1> QED BY <1>1, <1>2, <1>5, <1>6, <1>7 DEF Fits

\* A call that throws keeps the invariant.
LEMMA ThrowKeeps ==
  ASSUME AccountsInv, NEW r \in Calls, NEW step \in at[r],
         NEW error \in {"conflict", "failed", "denied"}, Throw(r, step, error), UNCHANGED store,
         error = "denied" => at[r] = {step} /\ stage[r] = "open" /\ call[r].user # r,
         error = "conflict" /\ stage[r] = "open" => Excused(r, call[r])
  PROVE  AccountsInv'
<1>1. PICK q, p, rest : /\ q = call[r] /\ p = (IF stage[r] = "open" THEN error ELSE stage[r])
                        /\ rest = at[r] \ {step}
  OBVIOUS
<1>2. /\ stage[r] \in {"open", "conflict", "failed"} /\ q \in Call /\ Busy(r) /\ r # Absent
      /\ (q.user = r <=> r \in users) /\ step \in Steps /\ rest \subseteq Steps
  BY <1>1, Underway
<1>3. /\ p \in {"conflict", "failed", "denied"} /\ p \in Ended
      /\ stage[r] # "open" => p = stage[r]
      /\ p = "denied" => rest = {} /\ q.user # r
  BY <1>1, <1>2 DEF Ended
<1>4. /\ Grows(r) /\ StoreTyped' /\ MailedIdentitiesAgree'
      /\ providers' = providers /\ users' = users /\ holder' = holder /\ owner' = owner
      /\ session' = session /\ linked' = linked /\ password' = password
  BY SameStore
<1>5. Broken(r)' <=> Broken(r)
  BY <1>1, Typed DEF Broken, Throw
<1>6. p = "conflict" => stage[r] = "conflict" \/ Excused(r, q)
  BY <1>1
<1>7. CASE rest # {}
  <2>1. Moves(r, q, rest, p)
    BY <1>1, <1>7, Typed DEF Throw, Moves
  <2>2. q.user = r /\ q.name \in Usernames => holder'[q.name] = r
    BY <1>1, <1>4, Underway DEF Together
  <2>3. Fits(r, q, rest, p)'
    BY <1>1, <1>3, <1>4, <1>7, <2>1, <2>2, RestFits DEF SameCall, Moves
  <2>4. AccountsTypeOK'
    BY <1>2, <1>3, <1>4, <2>1, MovesTyped DEF AccountsInv
  <2>5. p = "conflict" => stage[r] = "conflict" \/ Excused(r, q)'
    BY <1>4, <1>5, <1>6 DEF Excused
  <2> QED BY <1>1, <1>2, <1>3, <1>4, <1>7, <2>1, <2>3, <2>4, <2>5, StepKeeps
<1>8. CASE rest = {}
  <2>1. PICK g : g = Ghost(r, q, p)
    OBVIOUS
  <2>2. /\ g \in Call /\ g.op = q.op /\ (g.user = r <=> q.user = r)
        /\ p = "conflict" => g.beside = q.beside /\ g.proven = q.proven /\ KeyOf(g) = KeyOf(q)
    BY <1>2, <1>3, <2>1, Ghosts
  <2>3. Moves(r, g, {}, p)
    BY <1>1, <1>8, <2>1, Typed DEF Throw, Moves
  <2>4. AccountsTypeOK'
    BY <1>3, <1>4, <2>2, <2>3, MovesTyped DEF AccountsInv
  <2>5. Fits(r, g, {}, p)'
    BY <1>3 DEF Fits
  <2>6. p = "conflict" => stage[r] = "conflict" \/ Excused(r, g)'
    BY <1>4, <1>5, <1>6, <2>2 DEF Excused
  <2>7. g.op = call[r].op /\ (p = "conflict" => /\ g.beside = call[r].beside /\ g.proven = call[r].proven
                                                /\ KeyOf(g) = KeyOf(call[r]))
    BY <1>1, <2>2
  <2> QED BY <1>2, <1>3, <1>4, <2>2, <2>3, <2>4, <2>5, <2>6, <2>7, StepKeeps
<1> QED BY <1>7, <1>8

\* A step that has the call to itself.
LEMMA Single ==
  ASSUME AccountsInv, NEW r \in Calls, NEW step \in at[r],
         step \notin Opening \cup Branching \/ call[r].op # "signUp"
  PROVE  at[r] = {step} /\ (call[r].op # "signUp" \/ step \notin Opening \cup Branching => stage[r] = "open")
<1>1. Together(r, call[r], at[r], stage[r])
  BY Underway
<1>2. Branches(call[r]) \subseteq Branching
  BY DEF Branches, Branching
<1> QED BY <1>1, <1>2 DEF Together

\* What fits goes on fitting when nothing is stored.
LEMMA FitsSame ==
  ASSUME AccountsInv, NEW r \in Calls, UNCHANGED store,
         NEW q, NEW a, NEW p, Fits(r, q, a, p), Broken(r)' <=> Broken(r)
  PROVE  Fits(r, q, a, p)'
<1>1. /\ providers' = providers /\ members' = members /\ devices' = devices
      /\ holder' = holder /\ owner' = owner /\ password' = password /\ session' = session
      /\ linked' = linked /\ Grows(r) /\ r # Absent
  BY SameStore, AccountsAssumption DEF Users
<1>2. a # {} => Together(r, q, a, p)'
  BY <1>1, TogetherStays DEF Fits
<1>3. \A step \in a : Unserved(r, q, step)' /\ Served(r, q, step)'
  BY <1>1, UnservedStays, ServedStays DEF Fits
<1>4. Alone(r, q, a) => Alone(r, q, a)'
  BY <1>1 DEF Alone, FindByProviderAndSubject
<1> QED BY <1>2, <1>3, <1>4 DEF Fits

\* A call that reads keeps the invariant.
LEMMA ReadKeeps ==
  ASSUME AccountsInv, NEW r \in Calls, NEW step \in at[r], at[r] = {step}, stage[r] = "open",
         NEW q \in Call, NEW next \in SUBSET Steps, Return(r, step, q, next), UNCHANGED store,
         SameCall(q, call[r]), q.user = r <=> call[r].user = r,
         next # {} => Fits(r, q, next, "open"),
         next = {} => q.user # r
  PROVE  AccountsInv'
<1>1. /\ Grows(r) /\ StoreTyped' /\ MailedIdentitiesAgree'
      /\ users' = users /\ owner' = owner /\ session' = session /\ password' = password
  BY SameStore
<1>2. q.user = r <=> r \in users'
  BY <1>1, Underway
<1>3. Broken(r)' <=> Broken(r)
  BY Typed DEF Broken, Return
<1>4. next # {} => Fits(r, q, next, "open")'
  BY <1>3, FitsSame
<1>5. Last(r, step)
  BY DEF Last
<1>6. CASE next # {}
  BY <1>1, <1>2, <1>4, <1>5, <1>6, NextKeeps
<1>7. CASE next = {}
  <2>1. Completed(r, q)'
    BY <1>7 DEF Completed
  <2> QED BY <1>1, <1>2, <1>5, <1>7, <2>1, EndKeeps
<1> QED BY <1>6, <1>7

\* FindAddress
LEMMA FindAddressKeeps ==
  ASSUME AccountsInv, NEW r \in Calls, FindAddress(r)
  PROVE  AccountsInv'
<1>1. PICK q, held, known : /\ q = call[r] /\ held = holder[q.name]
                            /\ known = [q EXCEPT !.user = held, !.marks = q.name \notin verified]
  OBVIOUS
<1>2. "address" \in at[r]
  BY DEF FindAddress
<1>3. at[r] = {"address"} /\ stage[r] = "open"
  BY <1>2, Single DEF Opening, Branching
<1>4. /\ q \in Call /\ About(q) /\ q.user = Absent /\ r # Absent /\ r \notin users
      /\ q.op \in Mailed \cup {"signUp", "signIn", "providerLogin", "verifyEmail"}
      /\ q.op = "providerLogin" => q.proven
      /\ ~q.beside => Alone(r, q, {"address"})
      /\ q.name \in Names
  <2>1. /\ q \in Call /\ About(q) /\ Unserved(r, q, "address") /\ r # Absent
        /\ (q.user = r <=> r \in users) /\ (~q.beside => Alone(r, q, {"address"}))
    BY <1>1, <1>2, <1>3, Underway
  <2>2. q.op \in Mailed \cup {"signUp", "signIn", "providerLogin", "verifyEmail"} /\ q.user = Absent
        /\ (q.op = "providerLogin" => q.proven)
    BY <2>1 DEF Unserved
  <2> QED BY <2>1, <2>2, AboutNames
<1>5. held \in users \cup {Absent} /\ held # r /\ held \in Users \cup {Absent}
  BY <1>1, <1>4 DEF AccountsInv, AccountsTypeOK
<1>6. /\ known \in Call /\ SameCall(known, q) /\ known.user = held /\ SameCall(q, q)
      /\ known.marks \in BOOLEAN
  <2>1. /\ known \in Call /\ known.user = held /\ known.marks \in BOOLEAN
        /\ known.op = q.op /\ known.code = q.code /\ known.subject = q.subject
        /\ known.name = q.name /\ known.proven = q.proven /\ known.beside = q.beside
    <3>1. PICK marks \in BOOLEAN : marks = (q.name \notin verified)
      OBVIOUS
    <3>2. known = [q EXCEPT !.user = held, !.marks = marks]
      BY <1>1, <3>1
    <3> QED BY <1>4, <1>5, <3>2 DEF Call
  <2> QED BY <2>1 DEF SameCall
<1>7. About(known) /\ known.op = q.op /\ known.name = q.name /\ KeyOf(known) = KeyOf(q)
  BY <1>4, <1>6, AboutSame DEF SameCall, KeyOf
<1>8. CASE Deny(r, "address")
  BY <1>1, <1>2, <1>3, <1>4, <1>8, ThrowKeeps DEF Deny
<1>9. CASE /\ q.op = "signUp" /\ held = Absent /\ Return(r, "address", q, {"provider", "user"})
           /\ UNCHANGED store
  <2>1. \A step \in {"provider", "user"} : Unserved(r, q, step) /\ Served(r, q, step)
    BY <1>4, <1>9 DEF Unserved, Served, Mailed
  <2>2. Together(r, q, {"provider", "user"}, "open")
    BY <1>4, <1>9 DEF Together, Opening, Branches
  <2>3. ASSUME ~q.beside PROVE FindByProviderAndSubject(q) = Absent \/ KeyOf(q) \in linked \/ Broken(r)
    <3>1. PICK s : s = owner[<<"local", q.name>>]
      OBVIOUS
    <3>2. FindByProviderAndSubject(q) = s /\ KeyOf(q) = <<"local", q.name>>
      BY <1>4, <1>9, <3>1 DEF FindByProviderAndSubject, KeyOf, CodeOf, Operations, About
    <3>3. ASSUME s # Absent, KeyOf(q) \notin linked PROVE Broken(r)
      <4>1. /\ s \in Calls \ {r} /\ stage[s] \in {"open", "done", "conflict", "failed"}
            /\ stage[s] = "done" => holder[q.name] = s
        <5>1. s \in users
          BY <1>4, <3>1, <3>3 DEF AccountsInv, AccountsTypeOK, Providers, Subjects
        <5> QED BY <1>4, <3>1, <3>2, <3>3, <5>1 DEF AccountsInv, LocalOwners
      <4>2. stage[s] # "open"
        BY <1>1, <1>2, <2>3, <4>1, Typed DEF Fits, AccountsInv, BesideKnown, Busy
      <4> QED BY <1>1, <1>9, <3>3, <4>1, <4>2 DEF Broken
    <3> QED BY <3>2, <3>3
  <2>4. ~q.beside => Alone(r, q, {"provider", "user"})
    BY <1>1, <1>9, <2>3 DEF Alone, Mailed
  <2>5. Fits(r, q, {"provider", "user"}, "open")
    BY <1>4, <2>1, <2>2, <2>4 DEF Fits
  <2>6. {"provider", "user"} \in SUBSET Steps /\ {"provider", "user"} # {}
    BY DEF Steps
  <2> QED BY <1>1, <1>2, <1>3, <1>4, <1>6, <1>9, <2>5, <2>6, ReadKeeps
<1>10. CASE /\ q.op = "verifyEmail" /\ held # Absent /\ UNCHANGED store
            /\ Return(r, "address", known, IF known.marks THEN {"verify"} ELSE {})
  <2>1. Known(known) /\ known.user # r
    BY <1>1, <1>5, <1>6, <1>7, <1>10 DEF Known
  <2>2. Fits(r, known, {"verify"}, "open")
    BY <1>7, <1>10, <2>1 DEF Fits, Unserved, Served, Together, Alone, Steps, Mailed, Opening
  <2>3. PICK next : next = IF known.marks THEN {"verify"} ELSE {}
    OBVIOUS
  <2>4. next \in SUBSET Steps /\ (next # {} => Fits(r, known, next, "open"))
    BY <2>2, <2>3 DEF Steps
  <2> QED BY <1>1, <1>2, <1>3, <1>4, <1>6, <1>10, <2>1, <2>3, <2>4, ReadKeeps
<1>11. CASE /\ q.op = "providerLogin" /\ UNCHANGED store
            /\ Return(r, "address", known, IF held = Absent THEN {"user"} ELSE {"identity"})
  <2>1. ~q.beside => \/ FindByProviderAndSubject(known) = Absent
                     \/ KeyOf(known) \in linked \/ Broken(r)
    BY <1>4, <1>7, <1>11 DEF Alone, FindByProviderAndSubject
  <2>2. known.proven /\ (known.beside <=> q.beside) /\ known.user # r
    BY <1>4, <1>5, <1>6, <1>11 DEF SameCall
  <2>3. held = Absent => Fits(r, known, {"user"}, "open")
    BY <1>1, <1>6, <1>7, <1>11, <2>1, <2>2
       DEF Fits, Unserved, Served, Together, Alone, Steps, Mailed, Opening
  <2>4. held # Absent => Fits(r, known, {"identity"}, "open")
    <3>1. held # Absent => Known(known)
      BY <1>1, <1>6, <1>7 DEF Known
    <3> QED BY <1>7, <1>11, <2>1, <2>2, <3>1
            DEF Fits, Unserved, Served, Together, Alone, Steps, Mailed, Opening
  <2>5. PICK next : next = IF held = Absent THEN {"user"} ELSE {"identity"}
    OBVIOUS
  <2>6. next \in SUBSET Steps /\ next # {} /\ Fits(r, known, next, "open")
    BY <2>3, <2>4, <2>5 DEF Steps
  <2> QED BY <1>1, <1>2, <1>3, <1>4, <1>6, <1>11, <2>2, <2>5, <2>6, ReadKeeps
<1>12. CASE /\ q.op \in Mailed \cup {"signIn"} /\ (q.op = "signIn" => held # Absent)
            /\ UNCHANGED store /\ Return(r, "address", known, {"provider"})
  <2>1. known.user # r /\ (held # Absent => Known(known)) /\ (known.beside <=> q.beside)
    BY <1>1, <1>5, <1>6, <1>7 DEF Known, SameCall
  <2>2. Fits(r, known, {"provider"}, "open")
    BY <1>1, <1>6, <1>7, <1>12, <2>1
       DEF Fits, Unserved, Served, Together, Alone, Steps, Mailed, Opening
  <2>3. {"provider"} \in SUBSET Steps /\ {"provider"} # {}
    BY DEF Steps
  <2> QED BY <1>1, <1>2, <1>3, <1>4, <1>6, <1>12, <2>1, <2>2, <2>3, ReadKeeps
<1> QED BY <1>1, <1>4, <1>8, <1>9, <1>10, <1>11, <1>12 DEF FindAddress, Mailed

\* What the identity's code, once its row is there, is followed by.
LEMMA AfterProviderKeeps ==
  ASSUME AccountsInv, NEW r \in Calls, NEW step \in {"provider", "insertProvider"}, step \in at[r],
         Return(r, step, call[r], AfterProvider(call[r])),
         providers \subseteq providers', providers' \subseteq Providers,
         step = "provider" => providers' = providers,
         UNCHANGED <<userRows, emailRows, identityRows, session>>
  PROVE  AccountsInv'
<1>1. PICK q, p, rest, next : /\ q = call[r] /\ p = stage[r] /\ rest = at[r] \ {step}
                              /\ next = AfterProvider(q)
  OBVIOUS
<1>2. /\ q \in Call /\ About(q) /\ r # Absent /\ (q.user = r <=> r \in users)
      /\ Unserved(r, q, step) /\ Together(r, q, at[r], p) /\ SameCall(q, q)
      /\ p = "open" /\ ~q.beside => Alone(r, q, at[r])
  BY <1>1, Underway DEF SameCall
<1>3. /\ users' = users /\ members' = members /\ devices' = devices
      /\ holder' = holder /\ verified' = verified /\ owner' = owner
      /\ password' = password /\ linked' = linked /\ tokens' = tokens /\ session' = session
  BY DEF userRows, emailRows, identityRows
<1>4. Grows(r) /\ StoreTyped' /\ MailedIdentitiesAgree'
  BY <1>3 DEF Grows, StoreTyped, AccountsInv, AccountsTypeOK, MailedIdentitiesAgree
<1>5. rest # {} => Fits(r, q, rest, p)'
  <2>1. stage' = [stage EXCEPT ![r] = p] \/ rest = {}
    BY <1>1, Typed DEF Return
  <2>2. q.user = r /\ q.name \in Usernames => holder'[q.name] = r
    BY <1>2, <1>3 DEF Together
  <2> QED BY <1>1, <1>2, <1>3, <1>4, <2>1, <2>2, RestFits
<1>6. next \in SUBSET Steps /\ next # {}
  BY <1>1 DEF AfterProvider, Steps
<1>7. ASSUME at[r] = {step}, stage[r] = "open" PROVE Fits(r, q, next, "open")'
  <2>1. Together(r, q, {step}, "open") /\ (~q.beside => Alone(r, q, {step}))
    BY <1>1, <1>2, <1>7
  <2>2. Broken(r)' <=> Broken(r)
    BY <1>1, <1>6, <1>7, Typed DEF Broken, Return
  <2>3. CASE q.op = "signUp"
    <3>1. next = {"identity"} /\ q.user = r
      BY <1>1, <2>1, <2>3 DEF AfterProvider, Together, Opening, Mailed
    <3>2. Together(r, q, {"identity"}, "open")'
      BY <1>3, <2>1, <2>3, <3>1 DEF Together, Opening, Branches
    <3>3. ~q.beside => Alone(r, q, {"identity"})'
      BY <1>3, <2>1, <2>2, <2>3 DEF Alone, FindByProviderAndSubject, Mailed, Opening
    <3> QED BY <1>2, <2>3, <3>1, <3>2, <3>3 DEF Fits, Unserved, Served, Mailed
  <2>4. CASE q.op \in Mailed /\ q.user = Absent
    <3>1. next = {"user"} /\ q.op \notin {"signUp", "signIn", "linkIdentity", "verifyEmail", "providerLogin"}
      BY <1>1, <2>4 DEF AfterProvider, Mailed
    <3>2. Together(r, q, {"user"}, "open")'
      BY <1>2, <2>4, <3>1 DEF Together, Steps
    <3>3. ASSUME ~q.beside PROVE Alone(r, q, {"user"})'
      <4>1. holder[q.name] = Absent /\ q.name \in Emails /\ q.subject = q.name
        BY <1>2, <2>1, <2>4, <3>1, <3>3, AccountsAssumption DEF Alone, About, Subjects, Names
      <4>2. FindByProviderAndSubject(q) = Absent \/ KeyOf(q) \in linked
        <5>1. q.code \in {"email_otp", "magic_link"}
          BY <1>2, <2>4, <3>1, Codes
        <5> QED BY <4>1, <5>1 DEF FindByProviderAndSubject, KeyOf, AccountsInv, MailedIdentitiesAgree
      <4> QED BY <1>3, <4>1, <4>2 DEF Alone, FindByProviderAndSubject
    <3> QED BY <1>2, <2>4, <3>1, <3>2, <3>3 DEF Fits, Unserved, Served
  <2>5. CASE q.op \in Mailed /\ q.user # Absent /\ q.marks
    <3>1. next = {"verify"} /\ q.op # "signUp"
      BY <1>1, <2>5 DEF AfterProvider, Mailed
    <3>2. Known(q) /\ q.user # r
      BY <1>2, <2>5 DEF Unserved, Mailed
    <3>3. Known(q)'
      BY <1>3, <3>2 DEF Known
    <3> QED BY <1>2, <2>5, <3>1, <3>2, <3>3
            DEF Fits, Unserved, Served, Together, Alone, Steps, Mailed, Opening
  <2>6. CASE q.op # "signUp" /\ ~(q.op \in Mailed /\ (q.user = Absent \/ q.marks))
    <3>1. next = {"find"}
      BY <1>1, <2>6 DEF AfterProvider
    <3>2. /\ q.op \notin {"signUp", "verifyEmail"} /\ q.user # r
          /\ q.op \in Mailed \cup {"signIn"} => Known(q)
          /\ q.op \in {"verifyPhone", "providerLogin"} => q.user = Absent
          /\ q.op = "linkIdentity" => Linked(q)
      BY <1>2, <2>6 DEF Unserved
    <3>3. (Known(q) => Known(q)') /\ (Linked(q) => Linked(q)')
      BY <1>3 DEF Known, Linked, SignedIn
    <3>4. Unserved(r, q, "find")' /\ Served(r, q, "find")'
      BY <3>2, <3>3 DEF Unserved, Served
    <3>5. Together(r, q, {"find"}, "open")' /\ Alone(r, q, {"find"})'
      <4>1. q.op \in Mailed => q.user # Absent
        BY <2>6, <3>2, AccountsAssumption DEF Known
      <4> QED BY <1>2, <3>2, <4>1 DEF Together, Alone, Steps, Opening
    <3> QED BY <1>2, <3>1, <3>4, <3>5 DEF Fits
  <2> QED BY <2>3, <2>4, <2>5, <2>6 DEF Mailed
<1>8. Return(r, step, q, next)
  BY <1>1
<1>9. q.user = r <=> r \in users'
  BY <1>2, <1>3
<1>10. Last(r, step) => Fits(r, q, next, "open")'
  BY <1>7 DEF Last
<1> QED BY <1>1, <1>2, <1>3, <1>4, <1>5, <1>6, <1>8, <1>9, <1>10, GoesOn

\* FindProvider
LEMMA FindProviderKeeps ==
  ASSUME AccountsInv, NEW r \in Calls, FindProvider(r)
  PROVE  AccountsInv'
<1>1. PICK q, p, a : q = call[r] /\ p = stage[r] /\ a = (at[r] \ {"provider"}) \cup {"insertProvider"}
  OBVIOUS
<1>2. "provider" \in at[r]
  BY DEF FindProvider
<1>3. CASE UNCHANGED store /\ Return(r, "provider", q, AfterProvider(q))
  <2>1. providers' = providers /\ UNCHANGED <<userRows, emailRows, identityRows, session>>
    BY <1>3 DEF store
  <2> QED BY <1>1, <1>2, <1>3, <2>1, AfterProviderKeeps DEF AccountsInv, AccountsTypeOK
<1>4. CASE q.op = "signIn" /\ Deny(r, "provider")
  <2>1. at[r] = {"provider"} /\ stage[r] = "open"
    BY <1>1, <1>2, <1>4, Single
  <2>2. q.user # r
    BY <1>1, <1>2, <1>4, Underway DEF Unserved
  <2> QED BY <1>1, <1>2, <1>4, <2>1, <2>2, ThrowKeeps DEF Deny
<1>5. CASE /\ q.code \notin providers /\ q.op # "signIn"
           /\ at' = [at EXCEPT ![r] = a] /\ UNCHANGED <<store, stage, call>>
  <2>1. /\ q \in Call /\ About(q) /\ Busy(r) /\ r # Absent /\ (q.user = r <=> r \in users)
        /\ Unserved(r, q, "provider") /\ Together(r, q, at[r], p)
        /\ \A step \in at[r] : Unserved(r, q, step) /\ Served(r, q, step)
        /\ p = "open" /\ ~q.beside => Alone(r, q, at[r])
        /\ p \in {"open", "conflict", "failed"} /\ a \subseteq Steps /\ a # {}
    BY <1>1, <1>2, Underway DEF Steps
  <2>2. Grows(r) /\ StoreTyped' /\ MailedIdentitiesAgree' /\ owner' = owner /\ session' = session
        /\ users' = users /\ password' = password
    BY <1>5, SameStore
  <2>3. Moves(r, q, a, p)
    BY <1>1, <1>5, Typed DEF Moves
  <2>4. p \in Ended \cup {"open"}
    BY <2>1 DEF Ended
  <2>5. AccountsTypeOK'
    BY <2>1, <2>2, <2>3, <2>4, MovesTyped DEF AccountsInv
  <2>6. Unserved(r, q, "insertProvider") /\ Served(r, q, "insertProvider")
    BY <2>1 DEF Unserved, Served
  <2>7. at[r] \subseteq Opening \/ at[r] = {"provider"}
    BY <1>1, <1>2, Beside DEF Branches
  <2>8. Together(r, q, a, p)
    <3>1. q.op # "signUp" => p = "open" /\ a = {"insertProvider"}
      BY <1>1, <1>2, Single
    <3>2. q.op = "signUp" => a \subseteq Opening /\ ("user" \in a <=> "user" \in at[r])
                             /\ at[r] \subseteq Opening
      BY <1>1, <2>7 DEF Opening
    <3>3. (~(a \subseteq Branches(q)) /\ "issue" \notin a) \/ q.op # "signUp"
      BY <1>1, <3>2 DEF Branches, Opening
    <3> QED BY <1>1, <1>2, <2>1, <3>1, <3>2, <3>3, Single DEF Together, Steps
  <2>9. ASSUME p = "open", ~q.beside PROVE Alone(r, q, a)
    <3>1. Alone(r, q, at[r])
      BY <2>1, <2>9
    <3>2. a \subseteq Opening => at[r] \subseteq Opening
      BY <1>1, <2>7 DEF Opening
    <3>3. /\ a # {"identity"} /\ "address" \notin at[r] /\ "address" \notin a
          /\ \A step \in {"user", "email", "identity"} : step \in a => step \in at[r]
      BY <1>1, <2>7 DEF Opening
    <3>4. q.op # "signUp" /\ a \cap {"user", "email", "identity"} # {} =>
            at[r] \cap {"user", "email", "identity"} # {}
      BY <3>3
    <3> QED BY <1>5, <3>1, <3>2, <3>3, <3>4 DEF Alone
  <2>10. Fits(r, q, a, p)
    BY <1>1, <2>1, <2>6, <2>8, <2>9 DEF Fits
  <2>11. Broken(r)' <=> Broken(r)
    BY <1>5 DEF Broken
  <2>12. Fits(r, q, a, p)'
    BY <1>5, <2>10, <2>11, FitsSame
  <2>13. p = "conflict" => stage[r] = "conflict" \/ Excused(r, q)'
    BY <1>1
  <2>14. p # "done" /\ p # "denied"
    BY <2>1
  <2> QED BY <1>1, <2>1, <2>2, <2>3, <2>4, <2>5, <2>12, <2>13, <2>14, StepKeeps
<1> QED BY <1>1, <1>3, <1>4, <1>5 DEF FindProvider

\* InsertProvider
LEMMA InsertProviderKeeps ==
  ASSUME AccountsInv, NEW r \in Calls, InsertProvider(r)
  PROVE  AccountsInv'
<1>1. "insertProvider" \in at[r]
  BY DEF InsertProvider
<1>2. CASE /\ call[r].code \in providers /\ Throw(r, "insertProvider", "conflict")
           /\ UNCHANGED store
  <2>1. stage[r] = "open" => call[r].beside
    BY <1>1, <1>2, Underway DEF Alone
  <2> QED BY <1>1, <1>2, <2>1, ThrowKeeps DEF Excused
<1>3. CASE /\ Return(r, "insertProvider", call[r], AfterProvider(call[r]))
           /\ providers' = providers \cup {call[r].code}
           /\ UNCHANGED <<userRows, emailRows, identityRows, session>>
  <2>1. call[r].code \in Providers
    BY <1>1, Underway, Keys DEF Unserved
  <2>2. providers \subseteq providers' /\ providers' \subseteq Providers
    BY <1>3, <2>1 DEF AccountsInv, AccountsTypeOK
  <2> QED BY <1>1, <1>3, <2>2, AfterProviderKeeps
<1> QED BY <1>2, <1>3 DEF InsertProvider

\* CreateUser
LEMMA CreateUserKeeps ==
  ASSUME AccountsInv, NEW r \in Calls, CreateUser(r)
  PROVE  AccountsInv'
<1>1. PICK x, q, p, rest, next :
        /\ x = call[r] /\ q = [x EXCEPT !.user = r] /\ p = stage[r] /\ rest = at[r] \ {"user"}
        /\ next = IF x.op # "signUp" /\ x.name \in Emails THEN {"email"} ELSE {"identity"}
  OBVIOUS
<1>2. "user" \in at[r]
  BY DEF CreateUser
<1>3. /\ x \in Call /\ About(x) /\ r # Absent /\ x.user = Absent /\ r \notin users
      /\ x.op \notin {"signIn", "linkIdentity", "verifyEmail"}
      /\ Together(r, x, at[r], p)
      /\ p = "open" /\ ~x.beside => Alone(r, x, at[r])
  <2>1. Unserved(r, x, "user")
    BY <1>1, <1>2, Underway
  <2> QED BY <1>1, <1>2, <2>1, Underway DEF Unserved
<1>4. /\ q \in Call /\ SameCall(q, x) /\ q.user = r /\ q.owner = x.owner /\ About(q)
      /\ q.op = x.op /\ q.name = x.name /\ KeyOf(q) = KeyOf(x)
      /\ (q.proven <=> x.proven) /\ (q.beside <=> x.beside)
  <2>1. q \in Call /\ SameCall(q, x) /\ q.user = r /\ q.owner = x.owner
    BY <1>1, <1>3 DEF Call, SameCall, Users
  <2> QED BY <1>3, <2>1, AboutSame DEF SameCall, KeyOf
<1>5. CASE /\ x.name \in Usernames /\ holder[x.name] # Absent
           /\ Throw(r, "user", "conflict") /\ UNCHANGED store
  <2>1. x.name # Absent
    BY <1>5, AccountsAssumption DEF Subjects, Names
  <2>2. stage[r] = "open" => Excused(r, x)
    BY <1>1, <1>2, <1>3, <1>5, <2>1 DEF Alone, Excused
  <2> QED BY <1>1, <1>2, <1>5, <2>2, ThrowKeeps
<1>6. CASE /\ ~(x.name \in Usernames /\ holder[x.name] # Absent)
           /\ Return(r, "user", q, next)
           /\ users' = users \cup {r}
           /\ holder' = IF x.name \in Usernames THEN [holder EXCEPT ![x.name] = r] ELSE holder
           /\ UNCHANGED <<providers, members, devices, verified, identityRows, session>>
  <2>1. owner' = owner /\ password' = password /\ linked' = linked /\ tokens' = tokens
    BY <1>6 DEF identityRows
  <2>2. AccountsTypeOK /\ holder \in [Names -> users \cup {Absent}] /\ Usernames \subseteq Names
        /\ MailedIdentitiesAgree
    BY DEF AccountsInv, AccountsTypeOK, Names
  <2>3. /\ \A n \in Emails : holder'[n] = holder[n]
        /\ x.name \in Usernames => holder'[x.name] = r
        /\ \A n \in Names : holder'[n] = holder[n] \/ (holder[n] = Absent /\ holder'[n] = r)
        /\ holder' \in [Names -> users' \cup {Absent}]
    BY <1>6, <2>2, AccountsAssumption
  <2>4. Grows(r)
    BY <1>6, <2>1, <2>3 DEF Grows
  <2>5. StoreTyped'
    <3>1. {e \in Emails : holder[e] # Absent} \subseteq {e \in Emails : holder'[e] # Absent}
      BY <2>3
    <3> QED BY <1>6, <2>1, <2>2, <2>3, <3>1 DEF StoreTyped, AccountsTypeOK, Users
  <2>6. MailedIdentitiesAgree'
    BY <2>1, <2>2, <2>3 DEF MailedIdentitiesAgree
  <2>7. ASSUME rest # {} PROVE Fits(r, q, rest, p)'
    <3>1. stage' = [stage EXCEPT ![r] = p]
      BY <1>1, <1>6, <2>7, Typed DEF Return
    <3>2. providers' = providers /\ (q.user = r /\ q.name \in Usernames => holder'[q.name] = r)
      BY <1>4, <1>6, <2>3
    <3>3. SameCall(q, call[r]) /\ q.owner = call[r].owner
      BY <1>1, <1>4
    <3>4. \A n \in Emails : holder'[n] = holder[n]
      BY <2>3
    <3> HIDE DEF Branching
    <3> QED BY <1>1, <1>2, <1>4, <2>1, <2>4, <2>7, <3>1, <3>2, <3>3, <3>4, RestFits
  <2>8. next \in SUBSET Steps /\ next # {}
    BY <1>1 DEF Steps
  <2>9. ASSUME at[r] = {"user"}, stage[r] = "open" PROVE Fits(r, q, next, "open")'
    <3>1. Together(r, x, {"user"}, "open") /\ (~x.beside => Alone(r, x, {"user"}))
      BY <1>1, <1>3, <2>9
    <3>2. Broken(r)' <=> Broken(r)
      BY <1>6, <2>8, <2>9, Typed DEF Broken, Return
    <3>3. /\ ~q.beside => \/ FindByProviderAndSubject(q)' = Absent
                          \/ KeyOf(q) \in linked' \/ Broken(r)'
          /\ ~q.beside => q.name = Absent \/ holder[q.name] = Absent \/ (q.op = "providerLogin" /\ ~q.proven)
      BY <1>4, <2>1, <3>1, <3>2 DEF Alone, FindByProviderAndSubject, Opening
    <3>4. CASE next = {"email"}
      <4>1. q.op # "signUp" /\ q.name \in Emails /\ q.op \in Mailed \cup {"providerLogin"}
        BY <1>1, <1>3, <1>4, <3>4, AccountsAssumption DEF About, Operations, Subjects, Names
      <4>2. Together(r, q, {"email"}, "open")'
        BY <1>4, <4>1, AccountsAssumption DEF Together, Steps
      <4>3. ~q.beside => Alone(r, q, {"email"})'
        BY <1>3, <1>4, <2>3, <3>3, <4>1 DEF Alone, FindByProviderAndSubject
      <4> QED BY <1>4, <3>4, <4>1, <4>2, <4>3 DEF Fits, Unserved, Served
    <3>5. CASE next = {"identity"}
      <4>1. q.op = "signUp" \/ q.name \notin Emails
        BY <1>1, <1>4, <3>5
      <4>2. q.op # "signUp" => q.op \in {"verifyPhone", "providerLogin"} /\ q.name = Absent
        BY <1>3, <1>4, <4>1 DEF About, Operations, Mailed
      <4>3. Served(r, q, "identity")' /\ Unserved(r, q, "identity")'
        BY <1>3, <1>4, <4>2 DEF Served, Unserved, Mailed
      <4>4. Together(r, q, {"identity"}, "open")'
        BY <1>4, <2>3, <4>2 DEF Together, Steps, Opening, Branches
      <4>5. ~q.beside => Alone(r, q, {"identity"})'
        BY <1>3, <1>4, <2>3, <3>3, <4>2, AccountsAssumption
           DEF Alone, FindByProviderAndSubject, Opening, Mailed
      <4> QED BY <1>4, <3>5, <4>3, <4>4, <4>5 DEF Fits
    <3> QED BY <1>1, <3>4, <3>5
  <2>10. SameCall(q, call[r]) /\ (q.user = r <=> r \in users') /\ session' = session
    BY <1>1, <1>4, <1>6
  <2>11. PICK step : step = "user"
    OBVIOUS
  <2>12. step \in at[r] /\ Return(r, step, q, next)
    BY <1>2, <1>6, <2>11
  <2>13. rest = at[r] \ {step} /\ p = stage[r]
    BY <1>1, <2>11
  <2>14. Last(r, step) => Fits(r, q, next, "open")'
    BY <2>9, <2>11 DEF Last
  <2> QED BY <1>4, <2>1, <2>4, <2>5, <2>6, <2>7, <2>8, <2>10, <2>13, <2>12, <2>14, GoesOn
<1> QED BY <1>1, <1>5, <1>6 DEF CreateUser

\* CreateIdentity
LEMMA CreateIdentityKeeps ==
  ASSUME AccountsInv, NEW r \in Calls, CreateIdentity(r)
  PROVE  AccountsInv'
<1>1. PICK x, q, key :
        /\ x = call[r] /\ q = [x EXCEPT !.owner = x.user] /\ key = KeyOf(x)
  OBVIOUS
<1>2. PICK next :
           next = CASE x.op = "signUp"        -> Branches(x)
                     [] x.op = "providerLogin" -> {"tokens"}
                     [] x.op = "linkIdentity"  -> {}
                     [] OTHER -> IF Creator(r) THEN {"access"} ELSE {"issue"}
  OBVIOUS
<1>3. "identity" \in at[r]
  BY DEF CreateIdentity
<1>4. at[r] = {"identity"} /\ stage[r] = "open"
  BY <1>3, Single DEF Opening, Branching
<1>5. /\ x \in Call /\ About(x) /\ r # Absent /\ (x.user = r <=> r \in users)
      /\ Served(r, x, "identity") /\ Together(r, x, {"identity"}, "open")
      /\ ~x.beside => Alone(r, x, {"identity"})
  <2>1. x = call[r]
    BY <1>1
  <2> QED BY <2>1, <1>3, <1>4, Underway
<1>6. x.name # Absent => x.name \in Names
  BY <1>5, AboutNames
<1>7. x.op \in Mailed \cup {"signUp", "verifyPhone", "providerLogin", "linkIdentity"}
      /\ KeyOf(x) \in Providers \X Subjects /\ x.op \in Operations
  BY <1>5, AboutNames DEF Served, About, Operations
<1>8. CASE /\ FindByProviderAndSubject(x) # Absent
           /\ Throw(r, "identity", "conflict") /\ UNCHANGED store
  <2>1. Excused(r, x)
    BY <1>5, <1>8 DEF Alone, Excused
  <2> QED BY <1>1, <1>3, <1>8, <2>1, ThrowKeeps
<1>9. CASE /\ FindByProviderAndSubject(x) = Absent
           /\ Return(r, "identity", q, next)
           /\ owner' = [owner EXCEPT ![key] = x.user]
           /\ linked' = IF x.op = "linkIdentity" THEN linked \cup {key} ELSE linked
           /\ UNCHANGED <<providers, userRows, emailRows, password, tokens, session>>
  <2>1. /\ users' = users /\ members' = members /\ devices' = devices
        /\ holder' = holder /\ verified' = verified
        /\ password' = password /\ tokens' = tokens /\ session' = session /\ providers' = providers
    BY <1>9 DEF userRows, emailRows
  <2>2. x.user \in users /\ x.user # Absent
    <3>1. (Known(x) /\ x.name \in Names) \/ Linked(x) \/ x.user = r
      BY <1>5, <1>7, AboutNames DEF Served
    <3>2. Known(x) /\ x.name \in Names => x.user \in users
      BY <1>5 DEF Known, AccountsInv, AccountsTypeOK
    <3>3. Linked(x) => x.user \in users
      BY DEF Linked, SignedIn, AccountsInv, UsersOwn, SessionsExplained
    <3>4. Absent \notin users
      BY AccountsAssumption DEF AccountsInv, AccountsTypeOK
    <3> QED BY <1>5, <3>1, <3>2, <3>3, <3>4
  <2>3. key \in Providers \X Subjects /\ owner[key] = Absent
    BY <1>1, <1>7, <1>9 DEF FindByProviderAndSubject
  <2>4. /\ owner' \in [Providers \X Subjects -> users \cup {Absent}] /\ owner'[key] = x.user
        /\ \A k \in Providers \X Subjects : k # key => owner'[k] = owner[k]
    BY <1>9, <2>2, <2>3 DEF AccountsInv, AccountsTypeOK
  <2>5. linked \subseteq linked' /\ linked' \subseteq linked \cup {key} /\ key \notin linked
    BY <1>9, <2>3 DEF AccountsInv, AccountsTypeOK
  <2>6. Grows(r)
    BY <2>1, <2>3, <2>4, <2>5 DEF Grows
  <2>7. StoreTyped'
    <3>1. linked' \subseteq {k \in Providers \X Subjects : owner'[k] # Absent}
      BY <2>2, <2>3, <2>4, <2>5 DEF AccountsInv, AccountsTypeOK
    <3>2. password \subseteq {n \in Names : owner'[<<"local", n>>] # Absent}
      BY <2>3, <2>4 DEF AccountsInv, AccountsTypeOK, Providers, Subjects
    <3>3. tokens \subseteq {e \in Externals : owner'[<<"oauth", e>>] # Absent}
      BY <2>3, <2>4 DEF AccountsInv, AccountsTypeOK, Providers, Subjects
    <3> QED BY <2>1, <2>4, <3>2, <3>3, <3>1 DEF AccountsInv, AccountsTypeOK, StoreTyped
  <2>8. /\ q \in Call /\ SameCall(q, x) /\ q.user = x.user /\ q.owner = x.user /\ About(q)
        /\ q.op = x.op /\ q.name = x.name /\ KeyOf(q) = key /\ q.subject = x.subject
        /\ (q.proven <=> x.proven) /\ (q.beside <=> x.beside)
    <3>1. q \in Call /\ SameCall(q, x) /\ q.user = x.user /\ q.owner = x.user
      BY <1>1, <1>5, <2>2 DEF Call, SameCall, AccountsInv, AccountsTypeOK
    <3> QED BY <1>1, <1>5, <3>1, AboutSame DEF SameCall, KeyOf
  <2>9. Identified(q)'
    BY <1>1, <2>2, <2>4, <2>8 DEF Identified, FindByProviderAndSubject
  <2>10. MailedIdentitiesAgree'
    <3> SUFFICES ASSUME NEW e \in Emails, NEW code \in {"email_otp", "magic_link"}
                 PROVE  owner'[<<code, e>>] \in {Absent, holder'[e]} \/ <<code, e>> \in linked'
      BY DEF MailedIdentitiesAgree
    <3>1. CASE <<code, e>> = key /\ x.op # "linkIdentity"
      <4>1. x.op \in Mailed /\ x.subject = e
        BY <1>1, <1>5, <3>1, Codes DEF KeyOf
      <4> QED BY <1>5, <2>1, <2>4, <3>1, <4>1 DEF Served, Known, About
    <3>2. CASE <<code, e>> # key
      BY <2>1, <2>4, <2>5, <3>2 DEF AccountsInv, MailedIdentitiesAgree, Providers, Subjects, Names
    <3>3. CASE <<code, e>> = key /\ x.op = "linkIdentity"
      BY <1>9, <3>3
    <3> QED BY <3>1, <3>2, <3>3
  <2>11. next \in SUBSET Steps /\ (next = {} <=> x.op = "linkIdentity")
    BY <1>2 DEF Steps, Branches
  <2>12. \A n \in Names : \/ owner'[<<"local", n>>] = owner[<<"local", n>>]
                          \/ <<"local", n>> \in linked'
                          \/ owner'[<<"local", n>>] = r /\ q.op = "signUp" /\ q.name = n /\ next # {}
    <3> SUFFICES ASSUME NEW n \in Names, <<"local", n>> = key, x.op # "linkIdentity"
                 PROVE  owner'[<<"local", n>>] = r /\ q.op = "signUp" /\ q.name = n /\ next # {}
      BY <1>9, <2>4 DEF Providers, Subjects
    <3>1. x.op = "signUp"
      <4>1. x.code = "local"
        BY <1>1 DEF KeyOf
      <4> QED BY <1>5, <1>7, <4>1, Codes DEF Mailed
    <3> QED BY <1>1, <1>5, <2>4, <2>8, <2>11, <3>1 DEF Served, About, KeyOf
  <2>13. \A n \in password' : n \in password \/ <<"local", n>> \notin linked'
    BY <2>1
  <2>14. SameCall(q, call[r]) /\ (q.user = r <=> r \in users') /\ session' = session
    BY <1>1, <1>5, <2>1, <2>8
  <2>15. PICK step : step = "identity" /\ step \in at[r] /\ Last(r, step) /\ Return(r, step, q, next)
    BY <1>3, <1>4, <1>9 DEF Last
  <2>16. CASE x.op = "linkIdentity"
    <3>1. x.user # r
      BY <1>5, <2>16 DEF Served
    <3>2. Completed(r, q)' /\ Return(r, step, q, {})
      BY <2>8, <2>11, <2>16, <2>15, <3>1 DEF Completed
    <3>3. \A n \in Names : owner'[<<"local", n>>] = owner[<<"local", n>>] \/ <<"local", n>> \in linked'
      BY <2>8, <2>12, <2>16
    <3> QED BY <2>6, <2>7, <2>8, <2>10, <2>16, <2>14, <2>15, <2>13, <3>2, <3>3, EndKeeps
  <2>17. CASE x.op # "linkIdentity"
    <3>1. Fits(r, q, next, "open")'
      <4>1. CASE x.op = "signUp"
        <5>1. next = Branches(q) /\ q.user = r /\ q.owner = r
          BY <1>2, <1>5, <2>8, <4>1 DEF Branches, Served
        <5>2. \A b \in Branches(q) : Unserved(r, q, b)' /\ Served(r, q, b)'
          BY <1>5, <2>8, <2>9, <4>1, <5>1 DEF Branches, Unserved, Served
        <5>3. key \notin linked'
          BY <1>9, <2>5, <4>1
        <5>4. Together(r, q, Branches(q), "open")'
          BY <1>5, <2>1, <2>8, <2>9, <4>1, <5>1, <5>3 DEF Together, Branches, Opening
        <5>5. ~q.beside => Alone(r, q, Branches(q))'
          BY <1>5, <2>1, <2>8, <4>1 DEF Alone, Branches, Opening, Mailed
        <5>6. Branches(q) # {}
          BY DEF Branches
        <5> QED BY <2>8, <5>1, <5>2, <5>4, <5>5, <5>6 DEF Fits
      <4>2. CASE x.op = "providerLogin"
        <5>1. next = {"tokens"}
          BY <1>2, <4>2
        <5>2. Together(r, q, {"tokens"}, "open")'
          BY <1>5, <2>1, <2>8, <4>2 DEF Together, Steps
        <5>3. Alone(r, q, {"tokens"})'
          BY <2>8, <4>2 DEF Alone, Mailed
        <5>4. Unserved(r, q, "tokens")' /\ Served(r, q, "tokens")'
          BY <2>2, <2>8, <2>9, <4>2 DEF Unserved, Served
        <5> QED BY <2>8, <5>1, <5>2, <5>3, <5>4 DEF Fits
      <4>3. CASE x.op \in Mailed \cup {"verifyPhone"} /\ x.user = r
        <5>1. next = {"access"}
          BY <1>2, <1>1, <4>3 DEF Mailed, Creator
        <5>2. Together(r, q, {"access"}, "open")'
          BY <1>5, <2>1, <2>8, <4>3 DEF Together, Steps, Mailed
        <5>3. Alone(r, q, {"access"})'
          BY <2>2, <2>8, <4>3 DEF Alone, Mailed
        <5>4. Unserved(r, q, "access")' /\ Served(r, q, "access")'
          BY <2>2, <2>8, <2>9, <4>3 DEF Unserved, Served, Mailed
        <5> QED BY <2>8, <5>1, <5>2, <5>3, <5>4 DEF Fits
      <4>4. CASE x.op \in Mailed \cup {"verifyPhone"} /\ x.user # r
        <5>1. next = {"issue"}
          BY <1>2, <1>1, <4>4 DEF Mailed, Creator
        <5>2. Together(r, q, {"issue"}, "open")'
          BY <1>5, <2>1, <2>8, <4>4 DEF Together, Steps, Mailed
        <5>3. Alone(r, q, {"issue"})'
          BY <2>2, <2>8, <4>4 DEF Alone, Mailed
        <5>4. Unserved(r, q, "issue")' /\ Served(r, q, "issue")'
          BY <2>2, <2>8, <2>9, <4>4 DEF Unserved, Served, Mailed
        <5> QED BY <2>8, <5>1, <5>2, <5>3, <5>4 DEF Fits
      <4> QED BY <1>7, <2>17, <4>1, <4>2, <4>3, <4>4
    <3>2. next # {}
      BY <2>11, <2>17
    <3> QED BY <2>6, <2>7, <2>8, <2>10, <2>11, <2>12, <2>14, <2>15, <2>13, <3>1, <3>2, NextKeeps
  <2> QED BY <2>16, <2>17
<1> QED BY <1>2, <1>1, <1>8, <1>9 DEF CreateIdentity

\* A branch of signUp that has returned, with nothing else changed that the call relies on.
LEMMA BranchFits ==
  ASSUME AccountsInv, NEW r \in Calls, NEW step \in at[r], step \in Branching,
         NEW q, q = call[r], q.op = "signUp", Grows(r), Result(r, q, step)',
         step # "email" => holder' = holder, owner' = owner, providers' = providers,
         NEW p, p = stage[r], NEW rest, rest = at[r] \ {step},
         rest # {} => stage' = [stage EXCEPT ![r] = p]
  PROVE  /\ q.user = r /\ q \in Call /\ SameCall(q, call[r])
         /\ rest # {} => Fits(r, q, rest, p)'
         /\ Last(r, step) => Fits(r, q, {"issue"}, "open")'
<1>1. /\ q \in Call /\ About(q) /\ r # Absent /\ Together(r, q, at[r], p)
      /\ p \in {"open", "conflict", "failed"} /\ q.name \in Names
  BY Underway, AboutNames
<1>2. at[r] \subseteq Branches(q) /\ q.user = r /\ q.owner = r /\ Identified(q)
      /\ (p = "open" => \A b \in Branches(q) \ at[r] : Result(r, q, b))
      /\ (q.name \in Usernames => holder[q.name] = r)
  BY <1>1 DEF Together, Branching, Opening
<1>3. SameCall(q, call[r])
  BY DEF SameCall
<1>4. q.name \in Usernames => holder'[q.name] = r
  BY <1>1, <1>2 DEF Grows
<1>5. ASSUME rest # {} PROVE Fits(r, q, rest, p)'
  <2>1. step # "email" => \A n \in Emails : holder'[n] = holder[n]
    OBVIOUS
  <2>2. step # "user"
    BY DEF Branching
  <2> QED BY <1>1, <1>3, <1>4, <1>5, <2>1, <2>2, RestFits
<1>6. ASSUME Last(r, step) PROVE Fits(r, q, {"issue"}, "open")'
  <2>1. ASSUME NEW b \in Branches(q) PROVE Result(r, q, b)'
    <3>1. CASE b = step
      BY <3>1
    <3>2. CASE b # step
      <4>1. Result(r, q, b)
        BY <1>2, <1>6, <3>2 DEF Last
      <4>2. b \in {"password", "access", "device", "email"}
        BY DEF Branches
      <4> QED BY <1>1, <4>1, <4>2 DEF Result, Grows
    <3> QED BY <3>1, <3>2
  <2>2. Identified(q)'
    BY <1>2 DEF Identified, FindByProviderAndSubject
  <2>3. r \in members' /\ r \in devices' /\ q.subject \in password'
    BY <2>1 DEF Branches, Result
  <2>4. holder'[q.name] = r
    BY <1>1, <1>4, <2>1 DEF Branches, Result, Names
  <2>5. Unserved(r, q, "issue")' /\ Served(r, q, "issue")'
    BY <1>1, <1>2, <2>2, <2>3, <2>4 DEF Unserved, Served, Mailed
  <2>6. Together(r, q, {"issue"}, "open")'
    BY <1>2, <1>4 DEF Together, Opening, Branches
  <2>7. Alone(r, q, {"issue"})'
    BY DEF Alone, Opening, Mailed
  <2> QED BY <1>1, <2>5, <2>6, <2>7 DEF Fits
<1> QED BY <1>1, <1>2, <1>3, <1>5, <1>6

\* CreateEmail
LEMMA CreateEmailKeeps ==
  ASSUME AccountsInv, NEW r \in Calls, CreateEmail(r)
  PROVE  AccountsInv'
<1>1. PICK q, p, step, rest, next :
        /\ q = call[r] /\ p = stage[r] /\ step = "email" /\ rest = at[r] \ {step}
        /\ next = IF q.op = "signUp" THEN {"issue"} ELSE {"identity"}
  OBVIOUS
<1>2. step \in at[r]
  BY <1>1 DEF CreateEmail
<1>3. /\ q \in Call /\ About(q) /\ r # Absent /\ r \in users /\ q.user = r /\ q.name \in Emails
      /\ q.op \in Mailed \cup {"signUp", "providerLogin"} /\ SameCall(q, q)
      /\ p = "open" /\ ~q.beside => Alone(r, q, at[r])
  <2>1. Served(r, q, "email")
    BY <1>1, <1>2, Underway
  <2> QED BY <1>1, <1>2, <2>1, Underway DEF Served, SameCall
<1>4. CASE holder[q.name] # Absent /\ Throw(r, "email", "conflict") /\ UNCHANGED store
  <2>1. q.name # Absent
    BY <1>3, AccountsAssumption DEF Subjects, Names
  <2>2. stage[r] = "open" => Excused(r, q)
    BY <1>1, <1>2, <1>3, <1>4, <2>1 DEF Alone, Excused
  <2> QED BY <1>1, <1>2, <1>4, <2>2, ThrowKeeps
<1>5. CASE /\ holder[q.name] = Absent /\ Return(r, "email", q, next)
           /\ holder' = [holder EXCEPT ![q.name] = r]
           /\ verified' = verified \cup (IF q.proven THEN {q.name} ELSE {})
           /\ UNCHANGED <<providers, userRows, identityRows, session>>
  <2>1. /\ owner' = owner /\ password' = password /\ linked' = linked /\ tokens' = tokens
        /\ users' = users /\ members' = members /\ devices' = devices
        /\ providers' = providers /\ session' = session
    BY <1>5 DEF identityRows, userRows
  <2>2. AccountsTypeOK /\ holder \in [Names -> users \cup {Absent}] /\ Emails \subseteq Names
        /\ MailedIdentitiesAgree
    BY DEF AccountsInv, AccountsTypeOK, Names
  <2>3. /\ \A n \in Names : holder'[n] = IF n = q.name THEN r ELSE holder[n]
        /\ holder' \in [Names -> users \cup {Absent}]
    BY <1>3, <1>5, <2>2
  <2>4. Grows(r)
    BY <1>5, <2>1, <2>3 DEF Grows
  <2>5. StoreTyped'
    <3>1. verified' \subseteq {e \in Emails : holder'[e] # Absent}
      BY <1>3, <1>5, <2>2, <2>3 DEF AccountsTypeOK
    <3> QED BY <2>1, <2>2, <2>3, <3>1 DEF StoreTyped, AccountsTypeOK
  <2>6. MailedIdentitiesAgree'
    BY <1>5, <2>1, <2>2, <2>3 DEF MailedIdentitiesAgree
  <2>7. next \in SUBSET Steps /\ next # {} /\ Return(r, step, q, next)
    BY <1>1, <1>5 DEF Steps
  <2>8. rest # {} => stage' = [stage EXCEPT ![r] = p]
    BY <1>1, <2>7, Typed DEF Return
  <2>9. CASE q.op = "signUp"
    <3>1. Result(r, q, step)' /\ step \in Branching /\ next = {"issue"}
      BY <1>1, <1>3, <2>3, <2>2, <2>9 DEF Result, Branching
    <3>2. /\ rest # {} => Fits(r, q, rest, p)'
          /\ Last(r, step) => Fits(r, q, next, "open")'
      BY <1>1, <1>2, <2>1, <2>4, <2>8, <2>9, <3>1, BranchFits
    <3> QED BY <1>1, <1>2, <1>3, <2>1, <2>4, <2>5, <2>6, <2>7, <3>2, GoesOn
  <2>10. CASE q.op # "signUp"
    <3>1. /\ at[r] = {step} /\ next = {"identity"} /\ stage[r] = "open" /\ Last(r, step)
          /\ Together(r, q, {step}, "open")
      BY <1>1, <1>2, <2>10, Single, Underway DEF Last
    <3>2. Known(q)' /\ holder'[q.name] = r
      BY <1>3, <2>2, <2>3 DEF Known
    <3>3. Broken(r)' <=> Broken(r)
      BY <1>1, <3>1, <2>7, Typed DEF Broken, Return
    <3>4. ~q.beside => \/ FindByProviderAndSubject(q)' = Absent
                       \/ KeyOf(q) \in linked' \/ Broken(r)'
      BY <1>1, <1>3, <2>1, <2>10, <3>1, <3>3 DEF Alone, FindByProviderAndSubject
    <3>5. Served(r, q, "identity")' /\ Unserved(r, q, "identity")'
      BY <1>3, <2>10, <3>2 DEF Served, Unserved, Mailed
    <3>6. Together(r, q, {"identity"}, "open")'
      BY <2>10, <3>2 DEF Together, Steps
    <3>7. ~q.beside => Alone(r, q, {"identity"})'
      BY <1>3, <2>10, <3>4 DEF Alone, FindByProviderAndSubject
    <3>8. Fits(r, q, next, "open")'
      BY <1>3, <3>1, <3>5, <3>6, <3>7 DEF Fits
    <3>9. \A n \in Names : owner'[<<"local", n>>] = owner[<<"local", n>>]
      BY <2>1
    <3> QED BY <1>1, <1>2, <1>3, <2>1, <2>4, <2>5, <2>6, <2>7, <3>1, <3>8, <3>9, NextKeeps
  <2> QED BY <2>9, <2>10
<1> QED BY <1>1, <1>4, <1>5 DEF CreateEmail

\* What is stored for a call that has a user, once it has an identity.
LEMMA StoredUser ==
  ASSUME AccountsInv, NEW q, About(q), q.op # "verifyEmail", Identified(q)
  PROVE  q.owner \in users /\ q.owner # Absent
<1>1. KeyOf(q) \in Providers \X Subjects
  BY AboutNames
<1> QED BY <1>1 DEF Identified, FindByProviderAndSubject, AccountsInv, AccountsTypeOK

\* CreatePassword
LEMMA CreatePasswordKeeps ==
  ASSUME AccountsInv, NEW r \in Calls, CreatePassword(r)
  PROVE  AccountsInv'
<1>1. PICK q, p, step, rest, next :
        q = call[r] /\ p = stage[r] /\ step = "password" /\ rest = at[r] \ {step} /\ next = {"issue"}
  OBVIOUS
<1>2. /\ step \in at[r] /\ Return(r, step, q, next) /\ password' = password \cup {q.subject}
      /\ UNCHANGED <<providers, userRows, emailRows, owner, linked, tokens, session>>
  BY <1>1 DEF CreatePassword
<1>3. /\ q.op = "signUp" /\ Identified(q) /\ q.subject \in Names /\ (q.user = r <=> r \in users)
      /\ q \in Call /\ About(q)
  BY <1>1, <1>2, Underway DEF Served, About
<1>4. /\ users' = users /\ members' = members /\ devices' = devices
      /\ holder' = holder /\ verified' = verified
      /\ owner' = owner /\ linked' = linked
      /\ tokens' = tokens /\ providers' = providers /\ session' = session
  BY <1>2 DEF userRows, emailRows
<1>5. owner[<<"local", q.subject>>] # Absent /\ <<"local", q.subject>> \notin linked
  <2>1. KeyOf(q) = <<"local", q.subject>>
    BY <1>3 DEF About, CodeOf, Operations, KeyOf
  <2>2. KeyOf(q) \notin linked
    BY <1>1, <1>2, <1>3, Underway DEF Together, Opening
  <2> QED BY <1>3, <2>1, <2>2 DEF Identified, FindByProviderAndSubject
<1>6. \A n \in password' : n \in password \/ <<"local", n>> \notin linked'
  BY <1>2, <1>4, <1>5
<1>7. Grows(r) /\ StoreTyped' /\ MailedIdentitiesAgree'
  BY <1>2, <1>3, <1>4, <1>5 DEF Grows, StoreTyped, AccountsInv, AccountsTypeOK, MailedIdentitiesAgree
<1>8. Result(r, q, step)' /\ step \in Branching /\ next \in SUBSET Steps /\ next # {}
  BY <1>1, <1>2 DEF Result, Branching, Steps
<1>9. rest # {} => stage' = [stage EXCEPT ![r] = p]
  BY <1>1, <1>2, Typed DEF Return
<1>10. /\ SameCall(q, call[r]) /\ (rest # {} => Fits(r, q, rest, p)')
       /\ Last(r, step) => Fits(r, q, next, "open")'
  BY <1>1, <1>2, <1>3, <1>4, <1>7, <1>8, <1>9, BranchFits
<1> QED BY <1>1, <1>2, <1>3, <1>4, <1>7, <1>8, <1>10, <1>6, GoesOn

\* FindOrCreateDevice
LEMMA FindOrCreateDeviceKeeps ==
  ASSUME AccountsInv, NEW r \in Calls, FindOrCreateDevice(r)
  PROVE  AccountsInv'
<1>1. PICK q, p, step, rest, next :
        q = call[r] /\ p = stage[r] /\ step = "device" /\ rest = at[r] \ {step} /\ next = {"issue"}
  OBVIOUS
<1>2. /\ step \in at[r] /\ Return(r, step, q, next) /\ devices' = devices \cup {q.user}
      /\ UNCHANGED <<providers, users, members, emailRows, identityRows, session>>
  BY <1>1 DEF FindOrCreateDevice
<1>3. /\ q.op = "signUp" /\ (q.user = r <=> r \in users) /\ q \in Call
      /\ Together(r, q, at[r], p)
  BY <1>1, <1>2, Underway DEF Served
<1>4. /\ holder' = holder /\ verified' = verified /\ users' = users /\ members' = members
      /\ owner' = owner /\ password' = password /\ linked' = linked /\ tokens' = tokens
      /\ providers' = providers /\ session' = session
  BY <1>2 DEF emailRows, identityRows
<1>5. q.user = r
  BY <1>1, <1>2, <1>3 DEF Together, Opening
<1>6. Grows(r) /\ StoreTyped' /\ MailedIdentitiesAgree'
  BY <1>2, <1>3, <1>4, <1>5 DEF Grows, StoreTyped, AccountsInv, AccountsTypeOK, MailedIdentitiesAgree
<1>7. Result(r, q, step)' /\ step \in Branching /\ next \in SUBSET Steps /\ next # {}
  BY <1>1, <1>2, <1>5 DEF Result, Branching, Steps
<1>8. rest # {} => stage' = [stage EXCEPT ![r] = p]
  BY <1>1, <1>2, Typed DEF Return
<1>9. /\ SameCall(q, call[r]) /\ (rest # {} => Fits(r, q, rest, p)')
      /\ Last(r, step) => Fits(r, q, next, "open")'
  BY <1>1, <1>2, <1>3, <1>4, <1>6, <1>7, <1>8, BranchFits
<1> QED BY <1>1, <1>2, <1>3, <1>4, <1>6, <1>7, <1>9, GoesOn

\* AssignDefaultAccess
LEMMA AssignDefaultAccessKeeps ==
  ASSUME AccountsInv, NEW r \in Calls, AssignDefaultAccess(r)
  PROVE  AccountsInv'
<1>1. PICK q, p, step, rest, next :
        q = call[r] /\ p = stage[r] /\ step = "access" /\ rest = at[r] \ {step} /\ next = {"issue"}
  OBVIOUS
<1>2. /\ step \in at[r] /\ Return(r, step, q, next) /\ members' = members \cup {q.user}
      /\ UNCHANGED <<providers, users, devices, emailRows, identityRows, session>>
  BY <1>1 DEF AssignDefaultAccess
<1>3. /\ q.op \in Mailed \cup {"signUp", "verifyPhone", "providerLogin"} /\ q.user = r /\ r \in users
      /\ q \in Call /\ About(q) /\ Identified(q) /\ r # Absent
  BY <1>1, <1>2, Underway DEF Served
<1>4. /\ holder' = holder /\ verified' = verified /\ users' = users /\ devices' = devices
      /\ owner' = owner /\ password' = password /\ linked' = linked /\ tokens' = tokens
      /\ providers' = providers /\ session' = session
  BY <1>2 DEF emailRows, identityRows
<1>5. Grows(r) /\ StoreTyped' /\ MailedIdentitiesAgree'
  BY <1>2, <1>3, <1>4 DEF Grows, StoreTyped, AccountsInv, AccountsTypeOK, MailedIdentitiesAgree
<1>6. Result(r, q, step)' /\ step \in Branching /\ next \in SUBSET Steps /\ next # {}
  BY <1>1, <1>2, <1>3 DEF Result, Branching, Steps
<1>7. SameCall(q, call[r])
  BY <1>1 DEF SameCall
<1>8. CASE q.op = "signUp"
  <2>1. rest # {} => stage' = [stage EXCEPT ![r] = p]
    BY <1>1, <1>2, Typed DEF Return
  <2>2. /\ rest # {} => Fits(r, q, rest, p)'
        /\ Last(r, step) => Fits(r, q, next, "open")'
    BY <1>1, <1>2, <1>4, <1>5, <1>6, <1>8, <2>1, BranchFits
  <2> QED BY <1>1, <1>2, <1>3, <1>4, <1>5, <1>6, <1>7, <2>2, GoesOn
<1>9. CASE q.op # "signUp"
  <2>1. Last(r, step) /\ Together(r, q, {step}, "open")
    BY <1>1, <1>2, <1>9, Single, Underway DEF Last
  <2>2. q.owner = r
    BY <1>1, <1>2, Underway DEF Served
  <2>3. q.name # Absent => holder'[q.name] = r
    BY <1>1, <1>3, <1>4, <1>9, <2>1 DEF Together
  <2>4. Identified(q)'
    BY <1>3, <1>4 DEF Identified, FindByProviderAndSubject
  <2>5. Served(r, q, "issue")' /\ Unserved(r, q, "issue")'
    BY <1>2, <1>3, <1>9, <2>2, <2>3, <2>4 DEF Served, Unserved, Mailed
  <2>6. Together(r, q, {"issue"}, "open")'
    BY <1>1, <1>3, <1>4, <1>9, <2>1, <2>3 DEF Together, Steps
  <2>7. Alone(r, q, {"issue"})'
    BY <1>3, <1>9 DEF Alone, Mailed
  <2>8. Fits(r, q, next, "open")'
    BY <1>1, <1>3, <2>5, <2>6, <2>7 DEF Fits
  <2>9. \A n \in Names : owner'[<<"local", n>>] = owner[<<"local", n>>]
    BY <1>4
  <2> QED BY <1>1, <1>2, <1>3, <1>4, <1>5, <1>6, <1>7, <2>1, <2>8, <2>9, NextKeeps
<1> QED BY <1>8, <1>9

\* MarkAsVerified
LEMMA MarkAsVerifiedKeeps ==
  ASSUME AccountsInv, NEW r \in Calls, MarkAsVerified(r)
  PROVE  AccountsInv'
<1>1. PICK q, step, next :
        q = call[r] /\ step = "verify" /\ next = IF q.op = "verifyEmail" THEN {} ELSE {"find"}
  OBVIOUS
<1>2. /\ step \in at[r] /\ Return(r, step, q, next) /\ verified' = verified \cup {q.name}
      /\ UNCHANGED <<providers, userRows, holder, identityRows, session>>
  BY <1>1 DEF MarkAsVerified
<1>3. Last(r, step)
  BY <1>1, <1>2, Single DEF Last, Opening, Branching
<1>4. /\ q.op \in Mailed \cup {"verifyEmail"} /\ Known(q) /\ q.user # r /\ r # Absent
      /\ (q.user = r <=> r \in users) /\ q \in Call /\ About(q) /\ SameCall(q, call[r])
  BY <1>1, <1>2, Underway DEF Unserved, SameCall
<1>5. /\ holder' = holder /\ users' = users /\ members' = members /\ devices' = devices
      /\ owner' = owner /\ password' = password /\ linked' = linked /\ tokens' = tokens
      /\ providers' = providers /\ session' = session
  BY <1>2 DEF userRows, identityRows
<1>6. q.name \in Emails /\ holder[q.name] # Absent
  BY <1>4 DEF About, Known
<1>7. Grows(r) /\ StoreTyped' /\ MailedIdentitiesAgree'
  BY <1>2, <1>5, <1>6 DEF Grows, StoreTyped, AccountsInv, AccountsTypeOK, MailedIdentitiesAgree
<1>8. \A n \in Names : owner'[<<"local", n>>] = owner[<<"local", n>>]
  BY <1>5
<1>9. CASE q.op = "verifyEmail"
  <2>1. Completed(r, q)' /\ Return(r, step, q, {})
    BY <1>1, <1>2, <1>4, <1>9 DEF Completed
  <2> QED BY <1>2, <1>3, <1>4, <1>5, <1>7, <1>8, <2>1, EndKeeps
<1>10. CASE q.op # "verifyEmail"
  <2>1. next = {"find"} /\ q.op # "signUp" /\ q.op \in Mailed /\ q.user # Absent
    BY <1>1, <1>4, <1>10 DEF Known, Mailed
  <2>2. Known(q)'
    BY <1>4, <1>5 DEF Known
  <2>3. Unserved(r, q, "find")' /\ Served(r, q, "find")'
    BY <1>4, <2>1, <2>2 DEF Unserved, Served, Mailed
  <2>4. Together(r, q, {"find"}, "open")' /\ Alone(r, q, {"find"})'
    BY <1>4, <2>1 DEF Together, Alone, Steps
  <2>5. Fits(r, q, next, "open")' /\ next \in SUBSET Steps /\ next # {}
    BY <1>4, <2>1, <2>3, <2>4 DEF Fits, Steps
  <2> QED BY <1>2, <1>3, <1>4, <1>5, <1>7, <1>8, <2>5, NextKeeps
<1> QED BY <1>9, <1>10

\* PersistProviderTokens
LEMMA PersistProviderTokensKeeps ==
  ASSUME AccountsInv, NEW r \in Calls, PersistProviderTokens(r)
  PROVE  AccountsInv'
<1>1. PICK q, step, next :
        q = call[r] /\ step = "tokens" /\ next = IF Creator(r) THEN {"access"} ELSE {"issue"}
  OBVIOUS
<1>2. /\ step \in at[r] /\ Return(r, step, q, next) /\ tokens' = tokens \cup {q.subject}
      /\ UNCHANGED <<providers, userRows, emailRows, owner, password, linked, session>>
  BY <1>1 DEF PersistProviderTokens
<1>3. Last(r, step) /\ Together(r, q, {step}, "open")
  BY <1>1, <1>2, Single, Underway DEF Last, Opening, Branching
<1>4. /\ q.op = "providerLogin" /\ Identified(q) /\ q.user # Absent /\ q.user = q.owner /\ r # Absent
      /\ (q.user = r <=> r \in users) /\ q \in Call /\ About(q) /\ SameCall(q, call[r])
  <2>1. /\ Served(r, q, step) /\ r # Absent /\ (q.user = r <=> r \in users)
        /\ q \in Call /\ About(q)
    BY <1>1, <1>2, Underway
  <2>2. SameCall(q, call[r])
    BY <1>1 DEF SameCall
  <2> QED BY <1>1, <2>1, <2>2 DEF Served, Mailed
<1>5. /\ holder' = holder /\ verified' = verified
      /\ users' = users /\ members' = members /\ devices' = devices
      /\ owner' = owner /\ password' = password /\ linked' = linked
      /\ providers' = providers /\ session' = session
  BY <1>2 DEF userRows, emailRows
<1>6. q.subject \in Externals /\ owner[<<"oauth", q.subject>>] # Absent
  BY <1>4 DEF About, Identified, FindByProviderAndSubject, KeyOf, CodeOf, Operations, Mailed
<1>7. Grows(r) /\ StoreTyped' /\ MailedIdentitiesAgree'
  BY <1>2, <1>5, <1>6 DEF Grows, StoreTyped, AccountsInv, AccountsTypeOK, MailedIdentitiesAgree
<1>8. \A n \in Names : owner'[<<"local", n>>] = owner[<<"local", n>>]
  BY <1>5
<1>9. Identified(q)'
  BY <1>4, <1>5 DEF Identified, FindByProviderAndSubject
<1>10. Fits(r, q, next, "open")' /\ next \in SUBSET Steps /\ next # {}
  <2>1. CASE q.user = r
    <3>1. next = {"access"}
      BY <1>1, <2>1 DEF Creator
    <3>2. Unserved(r, q, "access")' /\ Served(r, q, "access")'
      BY <1>4, <1>9, <2>1 DEF Unserved, Served
    <3>3. Together(r, q, {"access"}, "open")'
      BY <1>1, <1>3, <1>4, <1>5 DEF Together, Steps
    <3>4. Alone(r, q, {"access"})'
      BY <1>4 DEF Alone
    <3> QED BY <1>4, <3>1, <3>2, <3>3, <3>4 DEF Fits, Steps
  <2>2. CASE q.user # r
    <3>1. next = {"issue"}
      BY <1>1, <2>2 DEF Creator
    <3>2. Unserved(r, q, "issue")' /\ Served(r, q, "issue")'
      BY <1>4, <1>9, <2>2 DEF Unserved, Served
    <3>3. Together(r, q, {"issue"}, "open")'
      BY <1>4, <2>2 DEF Together, Steps
    <3>4. Alone(r, q, {"issue"})'
      BY <1>4 DEF Alone
    <3> QED BY <1>4, <3>1, <3>2, <3>3, <3>4 DEF Fits, Steps
  <2> QED BY <2>1, <2>2
<1> QED BY <1>2, <1>3, <1>4, <1>5, <1>7, <1>8, <1>10, NextKeeps

\* IssueSession
LEMMA IssueSessionKeeps ==
  ASSUME AccountsInv, NEW r \in Calls, IssueSession(r)
  PROVE  AccountsInv'
<1>1. PICK q, step : q = call[r] /\ step = "issue"
  OBVIOUS
<1>2. /\ step \in at[r] /\ Return(r, step, q, {}) /\ devices' = devices \cup {q.user}
      /\ session' = [session EXCEPT ![r] = [user |-> q.user, owner |-> q.owner]]
      /\ UNCHANGED <<providers, users, members, emailRows, identityRows>>
  BY <1>1 DEF IssueSession
<1>3. Last(r, step)
  BY <1>1, <1>2, Single DEF Last, Opening, Branching
<1>4. /\ Identified(q) /\ q.user # Absent /\ r # Absent /\ q.op \notin {"linkIdentity", "verifyEmail"}
      /\ \/ q.user = q.owner /\ q.op # "signIn"
         \/ /\ q.op \in Mailed \cup {"signIn"} /\ Known(q) /\ q.user # r
            /\ q.op = "signIn" => q.subject \in password
            /\ q.op \in Mailed => KeyOf(q) \in linked
      /\ (q.user = r <=> r \in users) /\ q \in Call /\ About(q) /\ SameCall(q, call[r])
  BY <1>1, <1>2, Underway DEF Served, SameCall
<1>5. ASSUME q.user = r
      PROVE  /\ r \in members /\ (q.name # Absent => holder[q.name] = r)
             /\ q.op = "signUp" => q.subject \in password
  <2>1. Served(r, q, step)
    BY <1>1, <1>2, Underway
  <2> QED BY <1>1, <1>5, <2>1 DEF Served
<1>6. /\ holder' = holder /\ verified' = verified /\ users' = users /\ members' = members
      /\ owner' = owner /\ password' = password /\ linked' = linked
      /\ tokens' = tokens /\ providers' = providers
  BY <1>2 DEF emailRows, identityRows
<1>7. q.owner \in users /\ q.user \in users
  <2>1. q.owner \in users
    BY <1>4, StoredUser
  <2>2. Known(q) /\ q.op \in Mailed \cup {"signIn"} => q.user \in users
    BY <1>4, AboutNames DEF Known, AccountsInv, AccountsTypeOK
  <2> QED BY <1>4, <2>1, <2>2
<1>8. /\ session \in [Calls -> Session \cup {Absent}]
      /\ session'[r] = [user |-> q.user, owner |-> q.owner]
      /\ \A s \in Calls \ {r} : session'[s] = session[s]
  BY <1>2 DEF AccountsInv, AccountsTypeOK
<1>9. session[r] = Absent
  BY <1>3 DEF Last, AccountsInv, SessionsExplained
<1>10. session' \in [Calls -> Session \cup {Absent}]
  <2>1. [user |-> q.user, owner |-> q.owner] \in Session
    BY <1>7 DEF Session, AccountsInv, AccountsTypeOK
  <2> QED BY <1>2, <1>8, <2>1
<1>11. Grows(r) /\ StoreTyped' /\ MailedIdentitiesAgree'
  <2>1. devices' \subseteq users' /\ devices \subseteq devices'
    BY <1>2, <1>6, <1>7 DEF AccountsInv, AccountsTypeOK
  <2>2. Grows(r)
    BY <1>6, <1>8, <1>9, <2>1 DEF Grows
  <2>3. StoreTyped'
    BY <1>6, <1>10, <2>1 DEF StoreTyped, AccountsInv, AccountsTypeOK
  <2> QED BY <1>6, <2>2, <2>3 DEF AccountsInv, MailedIdentitiesAgree
<1>12. Completed(r, q)'
  <2> SUFFICES ASSUME q.user = r PROVE Completed(r, q)'
    BY DEF Completed
  <2>1. r \in members /\ (q.name # Absent => holder[q.name] = r)
        /\ (q.op = "signUp" => q.subject \in password)
    BY <1>5
  <2>2. r \in users
    BY <1>7
  <2>3. q.owner = r
    BY <1>4
  <2>4. owner[KeyOf(q)] = r
    BY <1>4, <2>3 DEF Identified, FindByProviderAndSubject
  <2>5. r \in users' /\ r \in members' /\ r \in devices'
    BY <1>2, <1>6, <2>1, <2>2
  <2>6. session'[r] = [user |-> r, owner |-> r]
    BY <1>8, <2>3
  <2> QED BY <1>6, <2>1, <2>4, <2>5, <2>6 DEF Completed
<1>13. SessionOf(r, q)'
  <2>1. session'[r].user = q.user /\ session'[r].owner = q.owner
    BY <1>8
  <2>2. ASSUME q.op = "signIn" PROVE Signed(session[r], q.op)'
    <3>1. q.subject \in password /\ q.subject = q.name /\ KeyOf(q) = <<"local", q.subject>> /\ Known(q)
      BY <1>4, <2>2 DEF About, CodeOf, Operations, KeyOf
    <3> QED BY <1>4, <1>6, <1>8, <2>2, <3>1 DEF Signed, Known, Identified, FindByProviderAndSubject
  <2>3. ASSUME q.op \in Mailed, q.user # q.owner PROVE Signed(session[r], q.op)'
    <3>1. /\ q.subject \in Emails /\ q.subject = q.name /\ KeyOf(q) = <<CodeOf[q.op], q.subject>>
          /\ Known(q) /\ KeyOf(q) \in linked
      BY <1>4, <2>3 DEF About, KeyOf, Mailed
    <3> QED BY <1>4, <1>6, <1>8, <2>3, <3>1 DEF Signed, Known, Identified, FindByProviderAndSubject
  <2>4. q.user = q.owner => Signed(session[r], q.op)'
    BY <2>1 DEF Signed
  <2>5. Signed(session[r], q.op)'
    BY <1>4, <2>2, <2>3, <2>4
  <2> QED BY <1>6, <1>7, <2>1, <2>5 DEF SessionOf
<1>14. \A n \in Names : owner'[<<"local", n>>] = owner[<<"local", n>>]
  BY <1>6
<1> QED BY <1>2, <1>3, <1>4, <1>6, <1>8, <1>11, <1>12, <1>13, <1>14, EndKeeps

\* FindIdentity
LEMMA FindIdentityKeeps ==
  ASSUME AccountsInv, NEW r \in Calls, FindIdentity(r)
  PROVE  AccountsInv'
<1>1. PICK q, step, found, known :
        /\ q = call[r] /\ step = "find" /\ found = FindByProviderAndSubject(q)
        /\ known = [q EXCEPT !.owner = found]
  OBVIOUS
<1>2. step \in at[r]
  BY <1>1 DEF FindIdentity
<1>3. at[r] = {step} /\ stage[r] = "open"
  BY <1>1, <1>2, Single DEF Opening, Branching
<1>4. /\ q \in Call /\ About(q) /\ r # Absent /\ (q.user = r <=> r \in users)
      /\ q.op \notin {"signUp", "verifyEmail"} /\ q.user # r
      /\ q.op \in Mailed \cup {"signIn"} => Known(q)
      /\ q.op \in {"verifyPhone", "providerLogin"} => q.user = Absent
      /\ q.op = "linkIdentity" => Linked(q)
  BY <1>1, <1>2, Underway DEF Unserved
<1>5. KeyOf(q) \in Providers \X Subjects
  BY <1>4, AboutNames
<1>6. found \in users \cup {Absent} /\ found \in Users \cup {Absent}
  BY <1>1, <1>5 DEF FindByProviderAndSubject, AccountsInv, AccountsTypeOK
<1>7. /\ known \in Call /\ SameCall(known, q) /\ known.user = q.user /\ known.owner = found
      /\ known.op = q.op /\ known.name = q.name /\ KeyOf(known) = KeyOf(q)
      /\ (known.proven <=> q.proven)
  BY <1>1, <1>4, <1>6 DEF Call, SameCall, KeyOf
<1>8. About(known)
  BY <1>4, <1>7, AboutSame
<1>9. /\ FindByProviderAndSubject(known) = found /\ (found # Absent => Identified(known))
      /\ Known(q) => Known(known)
      /\ Linked(q) => Linked(known)
  BY <1>1, <1>7 DEF FindByProviderAndSubject, Identified, Known, Linked
<1>10. SameCall(known, call[r]) /\ (known.user = r <=> call[r].user = r) /\ known.user # r
  BY <1>1, <1>4, <1>7
<1>11. CASE /\ q.op \in Mailed /\ UNCHANGED store
            /\ Return(r, "find", known, IF found = Absent THEN {"identity"} ELSE {"issue"})
  <2>1. PICK next : next = IF found = Absent THEN {"identity"} ELSE {"issue"}
    OBVIOUS
  <2>2. q.op \notin {"signUp", "signIn", "verifyPhone", "providerLogin", "linkIdentity", "verifyEmail"}
    BY <1>11 DEF Mailed
  <2>3. Known(known) /\ known.user # Absent
    BY <1>4, <1>9, <1>11 DEF Known
  <2>4. found # Absent => known.user = known.owner \/ KeyOf(known) \in linked
    <3>1. q.name \in Emails /\ q.subject = q.name /\ q.code \in {"email_otp", "magic_link"}
      BY <1>4, <1>11, <2>2, Codes DEF About
    <3>2. found \in {Absent, holder[q.name]} \/ KeyOf(q) \in linked
      BY <1>1, <3>1 DEF FindByProviderAndSubject, KeyOf, AccountsInv, MailedIdentitiesAgree
    <3> QED BY <1>4, <1>7, <1>11, <3>2 DEF Known
  <2>5. \A n \in next : Unserved(r, known, n) /\ Served(r, known, n)
    BY <1>7, <1>9, <1>10, <1>11, <2>1, <2>2, <2>3, <2>4 DEF Unserved, Served
  <2>6. Together(r, known, next, "open")
    BY <1>7, <1>10, <2>1, <2>2 DEF Together, Steps
  <2>7. Alone(r, known, next)
    BY <1>7, <1>9, <2>1, <2>2, <2>3 DEF Alone
  <2>8. Fits(r, known, next, "open") /\ next \in SUBSET Steps /\ next # {}
    BY <1>8, <2>1, <2>5, <2>6, <2>7 DEF Fits, Steps
  <2> QED BY <1>1, <1>2, <1>3, <1>7, <1>10, <1>11, <2>1, <2>8, ReadKeeps
<1>12. CASE /\ q.op \in {"verifyPhone", "providerLogin"} /\ UNCHANGED store
            /\ Return(r, "find", known,
                      IF found # Absent THEN {"findUser"}
                      ELSE IF q.proven THEN {"address"} ELSE {"user"})
  <2>1. PICK next : next = IF found # Absent THEN {"findUser"}
                           ELSE IF q.proven THEN {"address"} ELSE {"user"}
    OBVIOUS
  <2>2. /\ q.op \notin {"signUp", "signIn", "linkIdentity", "verifyEmail"} /\ q.op \notin Mailed
        /\ known.user = Absent
    BY <1>4, <1>7, <1>12 DEF Mailed
  <2>3. q.op = "verifyPhone" => known.name = Absent /\ ~known.proven
    BY <1>8, <1>7 DEF About
  <2>4. \A n \in next : Unserved(r, known, n) /\ Served(r, known, n)
    BY <1>7, <1>9, <1>10, <1>12, <2>1, <2>2, <2>3 DEF Unserved, Served
  <2>5. Together(r, known, next, "open")
    BY <1>7, <1>10, <2>1, <2>2 DEF Together, Steps
  <2>6. Alone(r, known, next)
    BY <1>7, <1>9, <1>12, <2>1, <2>2, <2>3 DEF Alone
  <2>7. Fits(r, known, next, "open") /\ next \in SUBSET Steps /\ next # {}
    BY <1>8, <2>1, <2>4, <2>5, <2>6 DEF Fits, Steps
  <2> QED BY <1>1, <1>2, <1>3, <1>7, <1>10, <1>12, <2>1, <2>7, ReadKeeps
<1>13. CASE /\ q.op = "linkIdentity" /\ UNCHANGED store
            /\ Return(r, "find", known, IF found = Absent THEN {"identity"} ELSE {})
  <2>1. PICK next : next = IF found = Absent THEN {"identity"} ELSE {}
    OBVIOUS
  <2>2. q.op \notin Mailed
    BY <1>13 DEF Mailed
  <2>3. Unserved(r, known, "identity") /\ Served(r, known, "identity")
    BY <1>4, <1>7, <1>9, <1>10, <1>13, <2>2 DEF Unserved, Served
  <2>4. Together(r, known, {"identity"}, "open")
    BY <1>7, <1>10, <1>13 DEF Together, Steps
  <2>5. found = Absent => Alone(r, known, {"identity"})
    BY <1>7, <1>9, <1>13, <2>2 DEF Alone
  <2>6. (next # {} => Fits(r, known, next, "open")) /\ next \in SUBSET Steps
    BY <1>8, <2>1, <2>3, <2>4, <2>5 DEF Fits, Steps
  <2> QED BY <1>1, <1>2, <1>3, <1>7, <1>10, <1>13, <2>1, <2>6, ReadKeeps
<1>14. CASE /\ q.op = "signIn" /\ found # Absent /\ UNCHANGED store
            /\ Return(r, "find", known, {"credential"})
  <2>1. Unserved(r, known, "credential") /\ Served(r, known, "credential")
    BY <1>4, <1>7, <1>9, <1>10, <1>14 DEF Unserved, Served
  <2>2. Together(r, known, {"credential"}, "open")
    BY <1>7, <1>10, <1>14 DEF Together, Steps
  <2>3. Alone(r, known, {"credential"})
    BY <1>7, <1>14 DEF Alone, Mailed
  <2>4. Fits(r, known, {"credential"}, "open") /\ {"credential"} \in SUBSET Steps
    BY <1>8, <2>1, <2>2, <2>3 DEF Fits, Steps
  <2> QED BY <1>1, <1>2, <1>3, <1>7, <1>10, <1>14, <2>4, ReadKeeps
<1>15. CASE Deny(r, "find")
  BY <1>1, <1>2, <1>3, <1>4, <1>15, ThrowKeeps DEF Deny
<1> QED BY <1>1, <1>11, <1>12, <1>13, <1>14, <1>15 DEF FindIdentity

\* FindUser
LEMMA FindUserKeeps ==
  ASSUME AccountsInv, NEW r \in Calls, FindUser(r)
  PROVE  AccountsInv'
<1>1. PICK q, step, known : /\ q = call[r] /\ step = "findUser"
                            /\ known = [q EXCEPT !.user = q.owner]
  OBVIOUS
<1>2. step \in at[r] /\ UNCHANGED store
  BY <1>1 DEF FindUser
<1>3. at[r] = {step} /\ stage[r] = "open"
  BY <1>1, <1>2, Single DEF Opening, Branching
<1>4. /\ q \in Call /\ About(q) /\ r # Absent /\ (q.user = r <=> r \in users)
      /\ q.op \in {"verifyPhone", "providerLogin", "linkIdentity"} /\ q.user # r
      /\ q.op = "linkIdentity" => Linked(q)
      /\ q.op # "linkIdentity" => Identified(q)
  BY <1>1, <1>2, Underway DEF Unserved
<1>5. q.op \notin Mailed \cup {"signUp", "signIn", "verifyEmail"}
  BY <1>4 DEF Mailed
<1>6. CASE q.op = "linkIdentity" /\ Return(r, step, q, {"provider"})
  <2>1. Unserved(r, q, "provider") /\ Served(r, q, "provider")
    BY <1>4, <1>5, <1>6 DEF Unserved, Served
  <2>2. Together(r, q, {"provider"}, "open") /\ Alone(r, q, {"provider"})
    BY <1>4, <1>5 DEF Together, Alone, Steps
  <2>3. Fits(r, q, {"provider"}, "open") /\ {"provider"} \in SUBSET Steps
    BY <1>4, <2>1, <2>2 DEF Fits, Steps
  <2>4. SameCall(q, call[r])
    BY <1>1 DEF SameCall
  <2> QED BY <1>1, <1>2, <1>3, <1>4, <1>6, <2>3, <2>4, ReadKeeps
<1>7. CASE /\ q.op \in {"verifyPhone", "providerLogin"}
           /\ Return(r, step, known, IF q.op = "verifyPhone" THEN {"issue"} ELSE {"tokens"})
  <2>1. q.owner \in users /\ q.owner # Absent /\ q.owner # r /\ q.owner \in Users
    BY <1>4, <1>7, StoredUser DEF AccountsInv, AccountsTypeOK
  <2>2. /\ known \in Call /\ SameCall(known, q) /\ known.user = q.owner /\ known.owner = q.owner
        /\ known.op = q.op /\ known.name = q.name /\ KeyOf(known) = KeyOf(q)
    BY <1>1, <1>4, <2>1 DEF Call, SameCall, KeyOf
  <2>3. About(known) /\ Identified(known)
    BY <1>4, <1>7, <2>2, AboutSame DEF Identified, FindByProviderAndSubject
  <2>4. PICK next : next = IF q.op = "verifyPhone" THEN {"issue"} ELSE {"tokens"}
    OBVIOUS
  <2>5. \A n \in next : Unserved(r, known, n) /\ Served(r, known, n)
    BY <1>5, <1>7, <2>1, <2>2, <2>3, <2>4 DEF Unserved, Served
  <2>6. Together(r, known, next, "open") /\ Alone(r, known, next)
    BY <1>5, <1>7, <2>1, <2>2, <2>4 DEF Together, Alone, Steps
  <2>7. Fits(r, known, next, "open") /\ next \in SUBSET Steps /\ next # {}
    BY <2>3, <2>4, <2>5, <2>6 DEF Fits, Steps
  <2>8. SameCall(known, call[r]) /\ (known.user = r <=> call[r].user = r)
    BY <1>1, <1>4, <2>1, <2>2
  <2> QED BY <1>2, <1>3, <1>7, <2>2, <2>4, <2>7, <2>8, ReadKeeps
<1>8. /\ q.op = "linkIdentity" => Return(r, step, q, {"provider"})
      /\ q.op = "verifyPhone" => Return(r, step, known, {"issue"})
      /\ q.op = "providerLogin" => Return(r, step, known, {"tokens"})
  BY <1>1 DEF FindUser
<1> QED BY <1>4, <1>6, <1>7, <1>8

\* FindCredential
LEMMA FindCredentialKeeps ==
  ASSUME AccountsInv, NEW r \in Calls, FindCredential(r)
  PROVE  AccountsInv'
<1>1. PICK q, step : q = call[r] /\ step = "credential"
  OBVIOUS
<1>2. step \in at[r]
  BY <1>1 DEF FindCredential
<1>3. at[r] = {step} /\ stage[r] = "open"
  BY <1>1, <1>2, Single DEF Opening, Branching
<1>4. /\ q \in Call /\ About(q) /\ q.op = "signIn" /\ Known(q) /\ Identified(q) /\ q.user # r
  BY <1>1, <1>2, Underway DEF Unserved
<1>5. CASE q.subject \in password /\ Return(r, step, q, {"issue"}) /\ UNCHANGED store
  <2>1. Unserved(r, q, "issue") /\ Served(r, q, "issue")
    BY <1>4, <1>5 DEF Unserved, Served, Known, Mailed
  <2>2. Together(r, q, {"issue"}, "open") /\ Alone(r, q, {"issue"})
    BY <1>4 DEF Together, Alone, Steps, Mailed
  <2>3. Fits(r, q, {"issue"}, "open") /\ {"issue"} \in SUBSET Steps
    BY <1>4, <2>1, <2>2 DEF Fits, Steps
  <2>4. SameCall(q, call[r])
    BY <1>1 DEF SameCall
  <2> QED BY <1>1, <1>2, <1>3, <1>4, <1>5, <2>3, <2>4, ReadKeeps
<1>6. CASE Deny(r, step)
  BY <1>1, <1>2, <1>3, <1>4, <1>6, ThrowKeeps DEF Deny
<1> QED BY <1>1, <1>5, <1>6 DEF FindCredential

\* AwaitFails
LEMMA CallFailsKeeps ==
  ASSUME AccountsInv, NEW r \in Calls, AwaitFails(r)
  PROVE  AccountsInv'
BY ThrowKeeps DEF AwaitFails

\* Calls are under way.
SomeBusy == \E s \in Calls : Busy(s)

\* The code of the identity that a call of op is about, whose client gives a code.
CodeFor(op, given) == IF op = "linkIdentity" THEN given ELSE CodeOf[op]

\* The request of a call as it is kept.
Comes(q, op, beside) == [q EXCEPT !.op = op, !.code = CodeFor(op, @), !.beside = beside]

\* A call that arrives keeps the invariant; those under way learn that it runs beside them.
LEMMA ArriveKeeps ==
  ASSUME AccountsInv, NEW r \in Calls, NEW op \in Operations, NEW q, NEW first \in Steps,
         Begin(r, op, q, first),
         NEW beside \in BOOLEAN, beside <=> SomeBusy,
         NEW x \in Call, x = Comes(q, op, beside),
         x.user # r, Fits(r, x, {first}, "open")
  PROVE  AccountsInv'
<1> DEFINE Now(s) == IF s = r THEN x
                     ELSE IF Busy(s) THEN [call[s] EXCEPT !.beside = TRUE] ELSE call[s]
<1>1. beside = \E s \in Calls : Busy(s)
  BY DEF SomeBusy
<1>2. /\ UNCHANGED store /\ stage[r] = "idle" /\ at[r] = {} /\ call[r] = NoCall
      /\ at' = [at EXCEPT ![r] = {first}] /\ stage' = [stage EXCEPT ![r] = "open"]
      /\ call' = [s \in Calls |-> Now(s)]
  BY <1>1, Typed DEF Begin, Fits, CodeFor, Comes
<1>3. /\ providers' = providers /\ users' = users /\ members' = members /\ devices' = devices
      /\ holder' = holder /\ verified' = verified /\ owner' = owner
      /\ password' = password /\ linked' = linked /\ tokens' = tokens /\ session' = session
      /\ Grows(r) /\ StoreTyped' /\ MailedIdentitiesAgree'
  BY <1>2, SameStore
<1>4. /\ at'[r] = {first} /\ stage'[r] = "open" /\ call'[r] = x
      /\ \A s \in Calls \ {r} : at'[s] = at[s] /\ stage'[s] = stage[s] /\ call'[s] = Now(s)
  BY <1>2, Typed
<1>5. ASSUME NEW s \in Calls \ {r}
      PROVE  /\ call'[s] \in Call
             /\ call'[s].op = call[s].op /\ call'[s].subject = call[s].subject
             /\ call'[s].code = call[s].code /\ KeyOf(call'[s]) = KeyOf(call[s])
             /\ call'[s].name = call[s].name /\ (call'[s].proven <=> call[s].proven)
             /\ call'[s].user = call[s].user /\ call'[s].owner = call[s].owner
             /\ Busy(s) => call'[s].beside
             /\ call[s].beside => call'[s].beside
             /\ ~Busy(s) => call'[s] = call[s]
  <2>1. call[s] \in Call
    BY Typed
  <2>2. CASE Busy(s)
    <3>1. call'[s] = [call[s] EXCEPT !.beside = TRUE]
      BY <1>4, <2>2
    <3>2. call'[s].code = call[s].code /\ call'[s].subject = call[s].subject
      BY <2>1, <3>1 DEF Call
    <3>3. KeyOf(call'[s]) = KeyOf(call[s])
      BY <3>2 DEF KeyOf
    <3> QED BY <2>1, <2>2, <3>1, <3>3 DEF Call
  <2>3. CASE ~Busy(s)
    <3>1. call'[s] = call[s]
      BY <1>4, <2>3
    <3> QED BY <2>1, <2>3, <3>1
  <2> QED BY <2>2, <2>3
<1>6. AccountsTypeOK'
  <2>1. call' \in [Calls -> Call]
    <3>1. \A s \in Calls : Now(s) \in Call
      BY <1>4, <1>5
    <3> QED BY <1>2, <3>1
  <2>2. at' \in [Calls -> SUBSET Steps] /\ stage' \in [Calls -> Ended \cup {"idle", "open"}]
    BY <1>2, Typed
  <2> QED BY <1>3, <2>1, <2>2 DEF AccountsTypeOK, StoreTyped
<1> HIDE DEF Now
<1>7. r # Absent /\ r \notin users /\ Absent \notin Calls
  BY <1>2, AccountsAssumption DEF Users, AccountsInv, UsersOwn, Creator, NoCall
<1>8. \A s \in Calls : Broken(s) => Broken(s)'
  BY <1>2, <1>4 DEF Broken
<1>9. \A s \in Calls : Fits(s, call[s], at[s], stage[s])'
  <2>1. Fits(r, x, {first}, "open")'
    <3>1. Broken(r)' <=> Broken(r)
      BY <1>4 DEF Broken
    <3> QED BY <1>2, <3>1, FitsSame
  <2>2. ASSUME NEW s \in Calls \ {r} PROVE Fits(s, call[s], at[s], stage[s])'
    <3>1. CASE Busy(s)
      <4>1. PICK z, y, a, p : z = call[s] /\ y = call'[s] /\ a = at[s] /\ p = stage[s]
        OBVIOUS
      <4>2. /\ Fits(s, z, a, p) /\ a # {} /\ p \notin {"idle", "done", "denied"} /\ s # Absent
            /\ y.op = z.op /\ y.subject = z.subject /\ y.name = z.name /\ (y.proven <=> z.proven)
            /\ y.code = z.code /\ KeyOf(y) = KeyOf(z)
            /\ y.user = z.user /\ y.owner = z.owner /\ y.beside
        BY <1>5, <3>1, <4>1, Typed, AccountsAssumption DEF Users, Busy, Fits
      <4>3. About(z) /\ Together(s, z, a, p) /\ \A step \in a : Unserved(s, z, step) /\ Served(s, z, step)
        BY <4>2 DEF Fits
      <4>4. /\ (Known(z) <=> Known(y)) /\ (Linked(z) <=> Linked(y)) /\ (Identified(z) <=> Identified(y))
            /\ Branches(z) = Branches(y) /\ \A b \in Steps : Result(s, z, b) <=> Result(s, y, b)
        BY <4>2 DEF Known, Linked, Identified, FindByProviderAndSubject, Branches, Result
      <4>5. About(y)
        BY <4>2, <4>3 DEF About
      <4>6. Together(s, y, a, p)
        <5>1. \A b \in Branches(y) : Result(s, z, b) <=> Result(s, y, b)
          BY <4>4 DEF Branches, Steps
        <5> QED BY <4>2, <4>3, <4>4, <5>1 DEF Together
      <4>7. \A step \in a : Unserved(s, y, step)
        BY <4>2, <4>3, <4>4 DEF Unserved
      <4>8. \A step \in a : Served(s, y, step)
        BY <4>2, <4>3, <4>4 DEF Served
      <4>9. Together(s, y, a, p)' /\ \A step \in a : Unserved(s, y, step)' /\ Served(s, y, step)'
        BY <1>3, <4>2, <4>5, <4>6, <4>7, <4>8, TogetherStays, UnservedStays, ServedStays
      <4>10. Fits(s, y, a, p)'
        BY <4>2, <4>5, <4>9 DEF Fits
      <4> QED BY <1>4, <4>1, <4>10
    <3>2. CASE ~Busy(s)
      <4>1. PICK z, a, p : z = call[s] /\ a = at[s] /\ p = stage[s]
        OBVIOUS
      <4>2. Fits(s, z, a, p) /\ a = {}
        BY <3>2, <4>1, Typed DEF Busy
      <4>3. p # "open"
        BY <4>2 DEF Fits
      <4>4. Fits(s, z, a, p)'
        BY <4>2, <4>3 DEF Fits
      <4> QED BY <1>4, <1>5, <3>2, <4>1, <4>4
    <3> QED BY <3>1, <3>2
  <2> QED BY <1>4, <2>1, <2>2
<1>10. UsersOwn'
  <2> SUFFICES ASSUME NEW s \in Calls PROVE s \in users' <=> call'[s].user = s
    BY <1>3 DEF AccountsInv, UsersOwn, Creator
  <2> QED BY <1>3, <1>4, <1>5, <1>7 DEF AccountsInv, UsersOwn, Creator
<1>11. LocalOwners'
  <2> SUFFICES ASSUME NEW n \in Names, NEW s, s = owner'[<<"local", n>>], s # Absent,
                      <<"local", n>> \notin linked'
               PROVE  /\ s \in Calls /\ call'[s].op = "signUp"
                      /\ stage'[s] \in {"open", "done", "conflict", "failed"}
                      /\ stage'[s] = "open" => call'[s].name = n
                      /\ stage'[s] = "done" => holder'[n] = s
    BY <1>3 DEF AccountsInv, LocalOwners
  <2>1. s \in Calls \ {r}
    BY <1>3, <1>6, <1>7 DEF AccountsInv, LocalOwners, AccountsTypeOK, Providers, Subjects
  <2> QED BY <1>3, <1>4, <1>5, <2>1 DEF AccountsInv, LocalOwners
<1>12. SessionsExplained'
  <2> SUFFICES ASSUME NEW s \in Calls, session'[s] # Absent
               PROVE  /\ stage'[s] = "done"
                      /\ session'[s].user \in users' /\ session'[s].owner \in users'
                      /\ Signed(session[s], call[s].op)'
    BY DEF SessionsExplained
  <2>1. s # r
    BY <1>2, <1>3 DEF AccountsInv, SessionsExplained
  <2>2. /\ stage[s] = "done" /\ session[s].user \in users /\ session[s].owner \in users
        /\ Signed(session[s], call[s].op)
    BY <1>3 DEF AccountsInv, SessionsExplained
  <2>3. stage'[s] = stage[s] /\ call'[s].op = call[s].op
    BY <1>4, <1>5, <2>1
  <2> QED BY <1>3, <2>2, <2>3 DEF Signed
<1>13. BesideKnown'
  <2> SUFFICES ASSUME NEW s \in Calls, NEW t \in Calls, s # t, at'[s] # {}, at'[t] # {}
               PROVE  call'[s].beside
    BY DEF BesideKnown, Busy
  <2>1. CASE s # r
    BY <1>4, <1>5, <2>1 DEF Busy
  <2>2. CASE s = r
    <3>1. Busy(t)
      BY <1>4, <2>2 DEF Busy
    <3>2. x.beside = beside
      BY DEF Call, Comes
    <3> QED BY <1>4, <2>2, <3>1, <3>2 DEF SomeBusy
  <2> QED BY <2>1, <2>2
<1>14. CompleteAccounts'
  <2> SUFFICES ASSUME NEW s \in Calls, stage'[s] = "done", call'[s].user = s
               PROVE  Completed(s, call[s])'
    BY DEF CompleteAccounts, Creator, Completed
  <2>1. s # r /\ stage[s] = "done" /\ call[s].user = s
    BY <1>4, <1>5
  <2>2. Completed(s, call[s])
    BY <2>1 DEF AccountsInv, CompleteAccounts, Creator, Completed
  <2> QED BY <1>3, <1>5, <2>1, <2>2 DEF Completed
<1>15. ConflictsExplained'
  <2> SUFFICES ASSUME NEW s \in Calls, stage'[s] = "conflict"
               PROVE  Excused(s, call[s])'
    BY DEF ConflictsExplained, Excused, Broken
  <2>1. s # r /\ stage[s] = "conflict"
    BY <1>4
  <2>2. Excused(s, call[s])
    BY <2>1 DEF AccountsInv, ConflictsExplained, Excused, Broken
  <2> QED BY <1>3, <1>5, <1>8, <2>1, <2>2 DEF Excused
<1> QED BY <1>3, <1>6, <1>9, <1>10, <1>11, <1>12, <1>13, <1>14, <1>15 DEF AccountsInv

\* A call that arrives with this subject, name, proof and user fits at its first step.
FitsFirst(r, op, code, subject, name, proven, user, first) ==
  \A x \in Call :
    /\ x.op = op /\ x.code = code /\ x.subject = subject
    /\ x.name = name /\ x.proven = proven /\ x.user = user
    =>
      /\ About(x) /\ Unserved(r, x, first) /\ Served(r, x, first)
      /\ Together(r, x, {first}, "open") /\ Alone(r, x, {first})

\* The state after such an arrival satisfies the invariant.
LEMMA ComesFitting ==
  ASSUME AccountsInv, NEW r \in Calls, NEW op \in Operations, NEW given \in Providers \cup {Absent},
         NEW code \in Providers, op = "linkIdentity" => code = given,
         op # "linkIdentity" => code = CodeOf[op], NEW subject \in Subjects \cup {Absent},
         NEW name \in Names \cup {Absent}, NEW proven \in BOOLEAN, NEW user \in Users \cup {Absent},
         NEW first \in Steps, user # r, NEW q,
         q = [op |-> Absent, code |-> given, subject |-> subject, name |-> name, proven |-> proven,
              user |-> user, owner |-> Absent, marks |-> FALSE, beside |-> FALSE],
         Begin(r, op, q, first), FitsFirst(r, op, code, subject, name, proven, user, first)
  PROVE  AccountsInv'
<1>1. PICK beside : beside = SomeBusy
  OBVIOUS
<1>2. code = CodeFor(op, given)
  BY DEF CodeFor
<1>3. PICK x : x = Comes(q, op, beside)
  OBVIOUS
<1>4. x = [op |-> op, code |-> code, subject |-> subject, name |-> name, proven |-> proven,
           user |-> user, owner |-> Absent, marks |-> FALSE, beside |-> beside]
  BY <1>3, <1>2 DEF Comes
<1>5. beside \in BOOLEAN
  BY <1>1 DEF SomeBusy
<1>6. /\ x \in Call /\ x.op = op /\ x.code = code /\ x.subject = subject
      /\ x.name = name /\ x.proven = proven /\ x.user = user
  BY <1>4, <1>5 DEF Call
<1>7. About(x) /\ Unserved(r, x, first) /\ Served(r, x, first) /\ Together(r, x, {first}, "open")
      /\ Alone(r, x, {first})
  BY <1>6 DEF FitsFirst
<1>8. Fits(r, x, {first}, "open")
  BY <1>7 DEF Fits
<1>9. (beside <=> SomeBusy) /\ x.user # r
  BY <1>1, <1>6
<1> QED BY <1>3, <1>5, <1>6, <1>8, <1>9, ArriveKeeps

\* The calls that arrive with an address: signUp, signIn, a mailed code or link, verifyEmail.
LEMMA NamedArrivalsKeep ==
  ASSUME AccountsInv, NEW r \in Calls, SignUp(r) \/ SignIn(r) \/ VerifyMailed(r) \/ VerifyEmail(r)
  PROVE  AccountsInv'
<1>1. /\ r # Absent /\ "address" \in Steps /\ Absent \in Users \cup {Absent} /\ Absent \in Providers \cup {Absent}
      /\ \A op \in Operations : CodeOf[op] \in Providers
  BY AccountsAssumption DEF Users, Steps, CodeOf, Operations, Providers, Mailed
<1>2. ASSUME NEW op \in Operations, NEW subject \in Subjects \cup {Absent}, NEW name \in Names,
             NEW proven \in BOOLEAN,
             \/ op \in {"signUp", "signIn"} /\ subject = name
             \/ op \in Mailed /\ name \in Emails /\ subject = name /\ proven
             \/ op = "verifyEmail" /\ name \in Emails
      PROVE  FitsFirst(r, op, CodeOf[op], subject, name, proven, Absent, "address")
  <2> SUFFICES ASSUME NEW x \in Call, x.op = op, x.code = CodeOf[op],
                      x.subject = subject, x.name = name,
                      x.proven = proven, x.user = Absent
               PROVE  /\ About(x) /\ Unserved(r, x, "address") /\ Served(r, x, "address")
                      /\ Together(r, x, {"address"}, "open") /\ Alone(r, x, {"address"})
    BY DEF FitsFirst
  <2>1. op \in Mailed \cup {"signUp", "signIn", "verifyEmail"} /\ op # "providerLogin"
    BY <1>2 DEF Mailed
  <2>2. About(x)
    BY <1>2, <2>1 DEF About, Mailed
  <2>3. Unserved(r, x, "address") /\ Served(r, x, "address")
    BY <2>1 DEF Unserved, Served
  <2>4. Together(r, x, {"address"}, "open")
    BY <1>1 DEF Together, Steps, Opening, Branches
  <2>5. Alone(r, x, {"address"})
    BY <2>1 DEF Alone, Opening
  <2> QED BY <2>2, <2>3, <2>4, <2>5
<1>3. ASSUME SignUp(r) PROVE AccountsInv'
  <2>1. PICK n \in Names : Begin(r, "signUp", [NoCall EXCEPT !.subject = n, !.name = n], "address")
    BY <1>3 DEF SignUp
  <2>2. PICK q : q = [NoCall EXCEPT !.subject = n, !.name = n]
    OBVIOUS
  <2>3. q = [op |-> Absent, code |-> Absent, subject |-> n, name |-> n, proven |-> FALSE,
             user |-> Absent, owner |-> Absent, marks |-> FALSE, beside |-> FALSE]
    BY <2>2 DEF NoCall
  <2>4. "signUp" \in Operations /\ n \in Subjects \cup {Absent} /\ n \in Names \cup {Absent} /\ FALSE \in BOOLEAN
    BY DEF Operations, Subjects
  <2>5. FitsFirst(r, "signUp", CodeOf["signUp"], n, n, FALSE, Absent, "address")
    BY <1>2, <2>4
  <2> QED BY <1>1, <2>1, <2>2, <2>3, <2>4, <2>5, ComesFitting
<1>4. ASSUME SignIn(r) PROVE AccountsInv'
  <2>1. PICK n \in Names : Begin(r, "signIn", [NoCall EXCEPT !.subject = n, !.name = n], "address")
    BY <1>4 DEF SignIn
  <2>2. PICK q : q = [NoCall EXCEPT !.subject = n, !.name = n]
    OBVIOUS
  <2>3. q = [op |-> Absent, code |-> Absent, subject |-> n, name |-> n, proven |-> FALSE,
             user |-> Absent, owner |-> Absent, marks |-> FALSE, beside |-> FALSE]
    BY <2>2 DEF NoCall
  <2>4. "signIn" \in Operations /\ n \in Subjects \cup {Absent} /\ n \in Names \cup {Absent} /\ FALSE \in BOOLEAN
    BY DEF Operations, Subjects
  <2>5. FitsFirst(r, "signIn", CodeOf["signIn"], n, n, FALSE, Absent, "address")
    BY <1>2, <2>4
  <2> QED BY <1>1, <2>1, <2>2, <2>3, <2>4, <2>5, ComesFitting
<1>5. ASSUME VerifyMailed(r) PROVE AccountsInv'
  <2>1. PICK e \in Emails, op \in Mailed :
          Begin(r, op, [NoCall EXCEPT !.subject = e, !.name = e, !.proven = TRUE], "address")
    BY <1>5 DEF VerifyMailed
  <2>2. PICK q : q = [NoCall EXCEPT !.subject = e, !.name = e, !.proven = TRUE]
    OBVIOUS
  <2>3. q = [op |-> Absent, code |-> Absent, subject |-> e, name |-> e, proven |-> TRUE,
             user |-> Absent, owner |-> Absent, marks |-> FALSE, beside |-> FALSE]
    BY <2>2 DEF NoCall
  <2>4. op \in Operations /\ e \in Names /\ e \in Subjects \cup {Absent} /\ e \in Names \cup {Absent}
        /\ TRUE \in BOOLEAN
    BY DEF Operations, Subjects, Names
  <2>5. FitsFirst(r, op, CodeOf[op], e, e, TRUE, Absent, "address")
    BY <1>2, <2>4
  <2>6. op # "linkIdentity"
    BY DEF Mailed
  <2> QED BY <1>1, <2>1, <2>2, <2>3, <2>4, <2>5, <2>6, ComesFitting
<1>6. ASSUME VerifyEmail(r) PROVE AccountsInv'
  <2>1. PICK e \in Emails :
          Begin(r, "verifyEmail", [NoCall EXCEPT !.name = e, !.proven = TRUE], "address")
    BY <1>6 DEF VerifyEmail
  <2>2. PICK q : q = [NoCall EXCEPT !.name = e, !.proven = TRUE]
    OBVIOUS
  <2>3. q = [op |-> Absent, code |-> Absent, subject |-> Absent, name |-> e, proven |-> TRUE,
             user |-> Absent, owner |-> Absent, marks |-> FALSE, beside |-> FALSE]
    BY <2>2 DEF NoCall
  <2>4. "verifyEmail" \in Operations /\ e \in Names /\ Absent \in Subjects \cup {Absent}
        /\ e \in Names \cup {Absent} /\ TRUE \in BOOLEAN
    BY DEF Operations, Names
  <2>5. FitsFirst(r, "verifyEmail", CodeOf["verifyEmail"], Absent, e, TRUE, Absent, "address")
    BY <1>2, <2>4
  <2> QED BY <1>1, <2>1, <2>2, <2>3, <2>4, <2>5, ComesFitting
<1> QED BY <1>3, <1>4, <1>5, <1>6

\* The others: verifyPhone, a provider login, linkIdentity.
LEMMA OtherArrivalsKeep ==
  ASSUME AccountsInv, NEW r \in Calls, VerifyPhone(r) \/ ProviderLogin(r) \/ LinkIdentity(r)
  PROVE  AccountsInv'
<1>1. /\ r # Absent /\ "provider" \in Steps /\ "findUser" \in Steps
      /\ Absent \in Users \cup {Absent} /\ Absent \in Providers \cup {Absent}
      /\ \A op \in Operations : CodeOf[op] \in Providers
  BY AccountsAssumption DEF Users, Steps, CodeOf, Operations, Providers, Mailed
<1>2. ASSUME VerifyPhone(r) PROVE AccountsInv'
  <2>1. PICK p \in Phones : Begin(r, "verifyPhone", [NoCall EXCEPT !.subject = p], "provider")
    BY <1>2 DEF VerifyPhone
  <2>2. PICK q : q = [NoCall EXCEPT !.subject = p]
    OBVIOUS
  <2>3. q = [op |-> Absent, code |-> Absent, subject |-> p, name |-> Absent, proven |-> FALSE,
             user |-> Absent, owner |-> Absent, marks |-> FALSE, beside |-> FALSE]
    BY <2>2 DEF NoCall
  <2>4. "verifyPhone" \in Operations /\ p \in Subjects \cup {Absent} /\ Absent \in Names \cup {Absent}
        /\ FALSE \in BOOLEAN
    BY DEF Operations, Subjects
  <2>5. FitsFirst(r, "verifyPhone", CodeOf["verifyPhone"], p, Absent, FALSE, Absent, "provider")
    <3> SUFFICES ASSUME NEW x \in Call, x.op = "verifyPhone", x.code = CodeOf["verifyPhone"],
                        x.subject = p, x.name = Absent,
                        x.proven = FALSE, x.user = Absent
                 PROVE  /\ About(x) /\ Unserved(r, x, "provider") /\ Served(r, x, "provider")
                        /\ Together(r, x, {"provider"}, "open") /\ Alone(r, x, {"provider"})
      BY DEF FitsFirst
    <3>1. About(x)
      BY <2>4 DEF About, Mailed
    <3>2. Unserved(r, x, "provider") /\ Served(r, x, "provider")
      BY <1>1 DEF Unserved, Served, Mailed
    <3>3. Together(r, x, {"provider"}, "open") /\ Alone(r, x, {"provider"})
      BY <1>1 DEF Together, Alone, Steps, Mailed
    <3> QED BY <3>1, <3>2, <3>3
  <2> QED BY <1>1, <2>1, <2>2, <2>3, <2>4, <2>5, ComesFitting
<1>3. ASSUME ProviderLogin(r) PROVE AccountsInv'
  <2>1. PICK p \in Profiles :
          Begin(r, "providerLogin",
                [NoCall EXCEPT !.subject = p.id, !.name = p.email, !.proven = p.emailVerified],
                "provider")
    BY <1>3 DEF ProviderLogin
  <2>2. PICK id, email, vouched, q :
          /\ id = p.id /\ email = p.email /\ vouched = p.emailVerified
          /\ q = [NoCall EXCEPT !.subject = id, !.name = email, !.proven = vouched]
    OBVIOUS
  <2>3. q = [op |-> Absent, code |-> Absent, subject |-> id, name |-> email, proven |-> vouched,
             user |-> Absent, owner |-> Absent, marks |-> FALSE, beside |-> FALSE]
    BY <2>2 DEF NoCall
  <2>4. /\ id \in Externals /\ email \in Emails \cup {Absent} /\ vouched \in BOOLEAN
        /\ email = Absent => ~vouched
    BY <2>2 DEF Profiles
  <2>5. "providerLogin" \in Operations /\ id \in Subjects \cup {Absent} /\ email \in Names \cup {Absent}
    BY <2>4 DEF Operations, Subjects, Names
  <2>6. FitsFirst(r, "providerLogin", CodeOf["providerLogin"], id, email, vouched, Absent, "provider")
    <3> SUFFICES ASSUME NEW x \in Call, x.op = "providerLogin", x.code = CodeOf["providerLogin"],
                        x.subject = id, x.name = email,
                        x.proven = vouched, x.user = Absent
                 PROVE  /\ About(x) /\ Unserved(r, x, "provider") /\ Served(r, x, "provider")
                        /\ Together(r, x, {"provider"}, "open") /\ Alone(r, x, {"provider"})
      BY DEF FitsFirst
    <3>1. About(x)
      BY <2>4, <2>5 DEF About, Mailed
    <3>2. Unserved(r, x, "provider") /\ Served(r, x, "provider")
      BY <1>1 DEF Unserved, Served, Mailed
    <3>3. Together(r, x, {"provider"}, "open") /\ Alone(r, x, {"provider"})
      BY <1>1 DEF Together, Alone, Steps, Mailed
    <3> QED BY <3>1, <3>2, <3>3
  <2>7. Begin(r, "providerLogin", q, "provider")
    BY <2>1, <2>2
  <2> QED BY <1>1, <2>3, <2>4, <2>5, <2>6, <2>7, ComesFitting
<1>4. ASSUME LinkIdentity(r) PROVE AccountsInv'
  <2>1. PICK code \in Linkable, e \in Subjects, user \in {v \in users : SignedIn(v)} :
          Begin(r, "linkIdentity",
                [NoCall EXCEPT !.code = code, !.subject = e, !.user = user], "findUser")
    BY <1>4 DEF LinkIdentity
  <2>2. PICK q : q = [NoCall EXCEPT !.code = code, !.subject = e, !.user = user]
    OBVIOUS
  <2>3. q = [op |-> Absent, code |-> code, subject |-> e, name |-> Absent, proven |-> FALSE,
             user |-> user, owner |-> Absent, marks |-> FALSE, beside |-> FALSE]
    BY <2>2 DEF NoCall
  <2>4. user \in users /\ user \in Users /\ SignedIn(user) /\ code \in Providers
    BY AccountsAssumption DEF AccountsInv, AccountsTypeOK
  <2>5. user # r
    <3>1. call[r] = NoCall
      BY <2>1, Typed DEF Begin, Fits
    <3>2. r \notin users
      BY <1>1, <3>1 DEF AccountsInv, UsersOwn, Creator, NoCall
    <3> QED BY <2>4, <3>2
  <2>6. "linkIdentity" \in Operations /\ e \in Subjects \cup {Absent} /\ Absent \in Names \cup {Absent}
        /\ FALSE \in BOOLEAN /\ user \in Users \cup {Absent}
    BY <2>4 DEF Operations
  <2>7. FitsFirst(r, "linkIdentity", code, e, Absent, FALSE, user, "findUser")
    <3> SUFFICES ASSUME NEW x \in Call, x.op = "linkIdentity", x.code = code, x.subject = e, x.name = Absent,
                        x.proven = FALSE, x.user = user
                 PROVE  /\ About(x) /\ Unserved(r, x, "findUser") /\ Served(r, x, "findUser")
                        /\ Together(r, x, {"findUser"}, "open") /\ Alone(r, x, {"findUser"})
      BY DEF FitsFirst
    <3>1. About(x)
      BY <2>4, <2>6 DEF About, Mailed
    <3>2. Linked(x)
      BY <2>4 DEF Linked
    <3>3. Unserved(r, x, "findUser") /\ Served(r, x, "findUser")
      BY <2>5, <3>2 DEF Unserved, Served
    <3>4. Together(r, x, {"findUser"}, "open") /\ Alone(r, x, {"findUser"})
      BY <2>5 DEF Together, Alone, Steps, Mailed
    <3> QED BY <3>1, <3>3, <3>4
  <2>8. Begin(r, "linkIdentity", q, "findUser")
    BY <2>1, <2>2
  <2> QED BY <1>1, <2>3, <2>4, <2>5, <2>6, <2>7, <2>8, ComesFitting
<1> QED BY <1>2, <1>3, <1>4

-----------------------------------------------------------------------------
\* The empty tables satisfy the invariant.
LEMMA InitAccounts == AccountsInit => AccountsInv
<1> SUFFICES ASSUME AccountsInit PROVE AccountsInv
  OBVIOUS
<1> USE DEF AccountsInit
<1>1. Absent \notin Calls /\ Calls \cap Residents = {}
  BY AccountsAssumption DEF Users
<1>2. AccountsTypeOK
  BY DEF AccountsTypeOK, Call, NoCall, Users
<1>3. \A r \in Calls : Fits(r, call[r], at[r], stage[r])
  BY DEF Fits
<1>4. UsersOwn
  BY <1>1 DEF UsersOwn, Creator, NoCall
<1>5. LocalOwners
  BY DEF LocalOwners, Providers, Subjects
<1>6. SessionsExplained /\ BesideKnown /\ CompleteAccounts /\ ConflictsExplained
  BY DEF SessionsExplained, BesideKnown, Busy, CompleteAccounts, ConflictsExplained
<1>7. MailedIdentitiesAgree
  BY DEF MailedIdentitiesAgree, Providers, Subjects, Names
<1> QED BY <1>2, <1>3, <1>4, <1>5, <1>6, <1>7 DEF AccountsInv

\* Every step keeps the invariant: the arrivals, the awaited calls and their
\* failures.
LEMMA NextAccounts == AccountsInv /\ [AccountsNext]_accountsVars => AccountsInv'
<1> SUFFICES ASSUME AccountsInv, [AccountsNext]_accountsVars PROVE AccountsInv'
  OBVIOUS
<1>1. ASSUME NEW r \in Calls,
             \/ SignUp(r) \/ SignIn(r) \/ VerifyMailed(r) \/ VerifyPhone(r) \/ ProviderLogin(r)
             \/ LinkIdentity(r) \/ VerifyEmail(r)
      PROVE  AccountsInv'
  BY <1>1, NamedArrivalsKeep, OtherArrivalsKeep
<1>2. ASSUME NEW r \in Calls,
             \/ FindAddress(r) \/ FindProvider(r) \/ InsertProvider(r) \/ CreateUser(r)
             \/ CreateIdentity(r) \/ CreateEmail(r) \/ CreatePassword(r) \/ AssignDefaultAccess(r)
      PROVE  AccountsInv'
  BY <1>2, FindAddressKeeps, FindProviderKeeps, InsertProviderKeeps, CreateUserKeeps,
     CreateIdentityKeeps, CreateEmailKeeps, CreatePasswordKeeps, AssignDefaultAccessKeeps
<1>3. ASSUME NEW r \in Calls,
             \/ FindOrCreateDevice(r) \/ MarkAsVerified(r) \/ FindIdentity(r) \/ FindUser(r)
             \/ FindCredential(r) \/ PersistProviderTokens(r) \/ IssueSession(r) \/ AwaitFails(r)
      PROVE  AccountsInv'
  BY <1>3, FindOrCreateDeviceKeeps, MarkAsVerifiedKeeps, FindIdentityKeeps, FindUserKeeps,
     FindCredentialKeeps, PersistProviderTokensKeeps, IssueSessionKeeps, CallFailsKeeps
<1>4. CASE UNCHANGED accountsVars
  <2>1. UNCHANGED store /\ at' = at /\ stage' = stage /\ call' = call
    BY <1>4 DEF accountsVars
  <2>2. /\ users' = users /\ members' = members /\ devices' = devices /\ holder' = holder
        /\ verified' = verified /\ owner' = owner /\ password' = password
        /\ linked' = linked /\ tokens' = tokens
        /\ session' = session /\ providers' = providers
    BY <2>1 DEF store, userRows, emailRows, identityRows
  <2>3. ASSUME NEW r \in Calls PROVE Fits(r, call[r], at[r], stage[r])'
    <3>1. PICK q, a, p : q = call[r] /\ a = at[r] /\ p = stage[r]
      OBVIOUS
    <3>2. Fits(r, q, a, p) /\ (Broken(r)' <=> Broken(r))
      BY <2>1, <3>1, Typed DEF Broken
    <3>3. Fits(r, q, a, p)'
      BY <2>1, <3>2, FitsSame
    <3> QED BY <2>1, <3>1, <3>3
  <2>4. AccountsTypeOK' /\ UsersOwn' /\ LocalOwners'
    BY <2>1, <2>2 DEF AccountsInv, AccountsTypeOK, UsersOwn, Creator, LocalOwners
  <2>5. SessionsExplained'
    BY <2>1, <2>2 DEF AccountsInv, SessionsExplained, Signed
  <2>6. AccountsTypeOK' /\ UsersOwn' /\ LocalOwners' /\ SessionsExplained'
    BY <2>4, <2>5
  <2>7. BesideKnown' /\ CompleteAccounts' /\ MailedIdentitiesAgree' /\ ConflictsExplained'
    BY <2>1, <2>2 DEF AccountsInv, BesideKnown, Busy, CompleteAccounts, Creator,
                      MailedIdentitiesAgree, ConflictsExplained
  <2> QED BY <2>3, <2>6, <2>7 DEF AccountsInv
<1> QED BY <1>1, <1>2, <1>3, <1>4 DEF AccountsNext

\* The invariant of every reachable state.
THEOREM AccountsInvariant == AccountsSpec => []AccountsInv
BY InitAccounts, NextAccounts, PTL DEF AccountsSpec

\* Every reachable state is typed: each row refers to a user who is there.
THEOREM AccountsTypes == AccountsSpec => []AccountsTypeOK
<1>1. AccountsInv => AccountsTypeOK
  BY DEF AccountsInv
<1> QED BY <1>1, AccountsInvariant, PTL

\* A call that created an account and answered left all of it behind, whatever
\* ran beside it and however its Promise.all was interleaved.
THEOREM AccountsComplete == AccountsSpec => []CompleteAccounts
<1>1. AccountsInv => CompleteAccounts
  BY DEF AccountsInv
<1> QED BY <1>1, AccountsInvariant, PTL

\* A code or a link mailed to an address signs in the user the address belongs to,
\* unless somebody linked that very identity.
THEOREM MailedAgree == AccountsSpec => []MailedIdentitiesAgree
<1>1. AccountsInv => MailedIdentitiesAgree
  BY DEF AccountsInv
<1> QED BY <1>1, AccountsInvariant, PTL

\* A call that ran alone meets a unique column only where an earlier call broke
\* off, where its identity was linked, or as a provider login with an unverified
\* address.
THEOREM ConflictsAreExplained == AccountsSpec => []ConflictsExplained
<1>1. AccountsInv => ConflictsExplained
  BY DEF AccountsInv
<1> QED BY <1>1, AccountsInvariant, PTL

\* A session mixes two users only as a signIn with the identity of a signUp that
\* was never answered, or by a mailed code or link whose identity was linked.
THEOREM MixedSessions == AccountsSpec => []MixedSessionsExplained
<1>1. AccountsInv => MixedSessionsExplained
  <2> SUFFICES ASSUME AccountsInv, NEW r \in Calls, session[r] # Absent,
                      session[r].user # session[r].owner
               PROVE  \/ /\ call[r].op = "signIn" /\ call[session[r].owner].op = "signUp"
                         /\ stage[session[r].owner] # "done"
                      \/ /\ call[r].op \in Mailed
                         /\ \E e \in Emails :
                              /\ <<CodeOf[call[r].op], e>> \in linked
                              /\ session[r] = [user |-> holder[e], owner |-> owner[<<CodeOf[call[r].op], e>>]]
    BY DEF MixedSessionsExplained
  <2>1. Signed(session[r], call[r].op)
    BY DEF AccountsInv, SessionsExplained
  <2>2. CASE call[r].op \in Mailed
    BY <2>1, <2>2 DEF Signed, Mailed
  <2>3. CASE call[r].op \notin Mailed
    <3>1. PICK n \in password : session[r] = [user |-> holder[n], owner |-> owner[<<"local", n>>]]
      BY <2>1, <2>3 DEF Signed
    <3>2. call[r].op = "signIn"
      BY <2>1, <2>3 DEF Signed
    <3>3. PICK s : s = owner[<<"local", n>>]
      OBVIOUS
    <3>4. session[r].owner = s /\ session[r].user = holder[n]
      BY <3>1, <3>3
    <3>5. n \in Names /\ s # Absent /\ <<"local", n>> \notin linked
      BY <3>3 DEF AccountsInv, AccountsTypeOK, LocalOwners
    <3>6. call[s].op = "signUp" /\ (stage[s] = "done" => holder[n] = s)
      BY <3>3, <3>5 DEF AccountsInv, LocalOwners
    <3> QED BY <3>2, <3>4, <3>6
  <2> QED BY <2>2, <2>3
<1> QED BY <1>1, AccountsInvariant, PTL

\* No step but CreateIdentity stores an identity.
LEMMA OwnersKept ==
  ASSUME NEW r \in Calls,
         \/ SignUp(r) \/ SignIn(r) \/ VerifyMailed(r) \/ VerifyPhone(r) \/ ProviderLogin(r)
         \/ LinkIdentity(r) \/ VerifyEmail(r)
         \/ FindAddress(r) \/ FindProvider(r) \/ InsertProvider(r) \/ CreateUser(r)
         \/ CreateEmail(r) \/ CreatePassword(r) \/ AssignDefaultAccess(r)
         \/ FindOrCreateDevice(r) \/ MarkAsVerified(r) \/ FindIdentity(r) \/ FindUser(r)
         \/ FindCredential(r) \/ PersistProviderTokens(r) \/ IssueSession(r) \/ AwaitFails(r)
  PROVE  owner' = owner
<1>1. UNCHANGED store \/ UNCHANGED identityRows => owner' = owner
  BY DEF store, identityRows
<1>2. SignUp(r) \/ SignIn(r) \/ VerifyMailed(r) \/ VerifyPhone(r) \/ ProviderLogin(r)
        \/ LinkIdentity(r) \/ VerifyEmail(r) => UNCHANGED store
  BY DEF SignUp, SignIn, VerifyMailed, VerifyPhone, ProviderLogin, LinkIdentity, VerifyEmail, Begin
<1>3. FindAddress(r) => UNCHANGED store
  BY DEF FindAddress, Deny
<1>4. FindProvider(r) => UNCHANGED store
  BY DEF FindProvider, Deny
<1>5. FindIdentity(r) => UNCHANGED store
  BY DEF FindIdentity, Deny
<1>6. FindUser(r) \/ FindCredential(r) \/ AwaitFails(r) => UNCHANGED store
  BY DEF FindUser, FindCredential, Deny, AwaitFails
<1>7. InsertProvider(r) \/ CreateUser(r) \/ CreateEmail(r) => UNCHANGED store \/ UNCHANGED identityRows
  BY DEF InsertProvider, CreateUser, CreateEmail
<1>8. AssignDefaultAccess(r) \/ FindOrCreateDevice(r) \/ MarkAsVerified(r) \/ IssueSession(r) =>
        UNCHANGED identityRows
  BY DEF AssignDefaultAccess, FindOrCreateDevice, MarkAsVerified, IssueSession
<1>9. CreatePassword(r) \/ PersistProviderTokens(r) => owner' = owner
  BY DEF CreatePassword, PersistProviderTokens
<1> QED BY <1>1, <1>2, <1>3, <1>4, <1>5, <1>6, <1>7, <1>8, <1>9

\* Call r stores the identity k for a user whom it may attach it to.
Attaches(r, k) ==
  /\ "identity" \in at[r] /\ at'[r] # at[r]
  /\ k = KeyOf(call[r])
  /\ \/ owner'[k] = r
     \/ call[r].proven /\ owner'[k] = holder[call[r].name]
     \/ call[r].op = "linkIdentity" /\ SignedIn(owner'[k])

\* The one awaited call that stores an identity has the right to attach it.
LEMMA CreateIdentityAttaches ==
  ASSUME AccountsInv, NEW r \in Calls, CreateIdentity(r),
         NEW k \in Providers \X Subjects, owner[k] # owner'[k]
  PROVE  Attaches(r, k)
<1>1. PICK x, q, key : /\ x = call[r] /\ q = [x EXCEPT !.owner = x.user]
                       /\ key = KeyOf(x)
  OBVIOUS
<1>2. PICK next : next = CASE x.op = "signUp"        -> Branches(x)
                           [] x.op = "providerLogin" -> {"tokens"}
                           [] x.op = "linkIdentity"  -> {}
                           [] OTHER -> IF Creator(r) THEN {"access"} ELSE {"issue"}
  OBVIOUS
<1>3. "identity" \in at[r] /\ at[r] = {"identity"} /\ stage[r] = "open"
  <2>1. "identity" \in at[r]
    BY DEF CreateIdentity
  <2> QED BY <2>1, Single DEF Opening, Branching
<1>4. Return(r, "identity", q, next) /\ owner' = [owner EXCEPT ![key] = x.user]
  <2>1. owner' # owner
    OBVIOUS
  <2>2. UNCHANGED store => owner' = owner
    BY DEF store, identityRows
  <2> QED BY <1>1, <1>2, <2>1, <2>2 DEF CreateIdentity
<1>5. k = key /\ owner'[k] = x.user
  BY <1>4 DEF AccountsInv, AccountsTypeOK
<1>6. at'[r] # at[r]
  <2>1. "identity" \notin next
    BY <1>2 DEF Branches
  <2>2. at'[r] = next
    BY <1>3, <1>4, Typed DEF Return
  <2> QED BY <1>3, <2>1, <2>2
<1>7. About(x) /\ Served(r, x, "identity")
  BY <1>1, <1>3, Underway
<1>8. \/ x.user = r
      \/ x.proven /\ x.user = holder[x.name]
      \/ x.op = "linkIdentity" /\ Linked(x)
  BY <1>7 DEF About, Served, Known, Operations
<1> QED BY <1>1, <1>3, <1>5, <1>6, <1>8 DEF Attaches, Linked

\* A new identity belongs to the user its own call created, to the holder of an
\* address the call has proven, or to the signed-in caller.
THEOREM IdentitiesAttachedByProof == AccountsSpec => AttachedByProof
<1>1. AccountsInv /\ [AccountsNext]_accountsVars =>
        [\A k \in Providers \X Subjects : owner[k] # owner'[k] =>
           \E r \in Calls :
             /\ "identity" \in at[r] /\ at'[r] # at[r]
             /\ k = KeyOf(call[r])
             /\ \/ owner'[k] = r
                \/ call[r].proven /\ owner'[k] = holder[call[r].name]
                \/ call[r].op = "linkIdentity" /\ SignedIn(owner'[k])]_accountsVars
  <2> SUFFICES ASSUME AccountsInv, AccountsNext, NEW k \in Providers \X Subjects, owner[k] # owner'[k]
               PROVE  \E r \in Calls : Attaches(r, k)
    BY DEF Attaches
  <2>1. PICK r \in Calls : CreateIdentity(r)
    BY OwnersKept DEF AccountsNext
  <2> QED BY <2>1, CreateIdentityAttaches
<1> QED BY <1>1, AccountsInvariant, PTL DEF AccountsSpec, AttachedByProof
=============================================================================
