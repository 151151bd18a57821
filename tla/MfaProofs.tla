------------------------------ MODULE MfaProofs ------------------------------
(***************************************************************************)
(* Proofs about Mfa, for any number of requests of any kind.               *)
(***************************************************************************)
EXTENDS Mfa, TLAPS

(***************************************************************************)
(* The inductive invariant: how factors, batches and recoveries relate to  *)
(* the places of the requests they are named after, and what a request     *)
(* that is about to write knows.                                           *)
(***************************************************************************)

\* Where the request that issued a batch ends.
Issued == {"verified", "signedIn"}

RequestInv(r) ==
  /\ pc[r] \in {"storeSecret", "enable", "disableFactor"} => req[r].factor \in factors
  /\ pc[r] \in {"deleteCodes", "createCodes"} => req[r].issuing
  /\ req[r].cut => pc[r] = "disabled"
  /\ r \in factors => pc[r] = "setUp"
  /\ r \in codes => pc[r] \in Issued
  /\ r \in recovered => pc[r] = "recovered"
  /\ \A c \in req[r].before : pc[c] \in Issued
  /\ pc[r] = "createCodes" => \A c \in codes : c \notin req[r].before

MfaInv ==
  /\ TypeOK
  /\ EnabledHasCodes
  /\ BatchesOverlapped
  /\ \A r \in Requests : RequestInv(r)

(* What every step of a request has in common: it leaves the others alone, *)
(* and adds to the tables at most the row of its own name.                 *)
Moves(r, place) ==
  /\ pc[r] \in InFlightPlaces \cup {"idle"}
  /\ pc' = [pc EXCEPT ![r] = place]
  /\ \A q \in Requests \ {r} : req'[q] = req[q]
  /\ factors \subseteq factors' /\ factors' \subseteq factors \cup {r}
  /\ codes' \subseteq codes \cup {r}
  /\ recovered \subseteq recovered' /\ recovered' \subseteq recovered \cup {r}

(* The initial state satisfies the invariant.                              *)
LEMMA MfaInit == Init => MfaInv
  BY MfaAssumption
  DEF MfaAssumption, Init, MfaInv, TypeOK, EnabledHasCodes, BatchesOverlapped, RequestInv,
      NoRequest, Request, Places, InFlightPlaces, Issued

(* Such a step keeps what is known of the other requests.                  *)
LEMMA Others ==
  ASSUME MfaInv, NEW r \in Requests, NEW place \in Places, Moves(r, place)
  PROVE  /\ pc' \in [Requests -> Places]
         /\ pc'[r] = place /\ \A q \in Requests \ {r} : pc'[q] = pc[q]
         /\ pc[r] \notin Issued /\ r \notin codes /\ r \notin factors /\ r \notin recovered
         /\ \A q \in Requests : r \notin req[q].before /\ req[q].before \subseteq Requests
         /\ \A q \in Requests \ {r} : RequestInv(q)'
<1>1. TypeOK /\ \A q \in Requests : RequestInv(q)
  BY DEF MfaInv
<1>2. /\ pc' \in [Requests -> Places] /\ pc'[r] = place
      /\ \A q \in Requests \ {r} : pc'[q] = pc[q]
  BY <1>1 DEF Moves, TypeOK
<1>3. pc[r] \notin Issued \cup {"setUp", "recovered", "disabled"}
  BY DEF Moves, InFlightPlaces, Issued
<1>4. r \notin codes /\ r \notin factors /\ r \notin recovered
  BY <1>1, <1>3 DEF RequestInv
<1>5. \A q \in Requests : r \notin req[q].before /\ req[q].before \subseteq Requests
  BY <1>1, <1>3 DEF RequestInv, TypeOK, Request
<1>6. ASSUME NEW q \in Requests \ {r} PROVE RequestInv(q)'
  <2>1. /\ RequestInv(q) /\ pc'[q] = pc[q] /\ req'[q] = req[q]
        /\ q \in codes' => q \in codes
        /\ q \in factors' => q \in factors
        /\ q \in recovered' => q \in recovered
    BY <1>1, <1>2 DEF Moves
  <2>2. \A c \in req'[q].before : pc'[c] \in Issued
    BY <1>2, <1>5, <2>1 DEF RequestInv
  <2>3. pc'[q] = "createCodes" => \A c \in codes' : c \notin req'[q].before
    BY <1>5, <2>1 DEF RequestInv, Moves
  <2>4. QED BY <2>1, <2>2, <2>3 DEF RequestInv, Moves
<1>7. QED BY <1>2, <1>3, <1>4, <1>5, <1>6

(* If it issues no batch, batches are as far apart as they were.           *)
LEMMA BatchFrame ==
  ASSUME MfaInv, NEW r \in Requests, NEW place \in Places, Moves(r, place),
         codes' \subseteq codes
  PROVE  BatchesOverlapped'
<1>1. r \notin codes
  BY Others
<1>2. codes \subseteq Requests
  BY DEF MfaInv, TypeOK
<1>3. QED BY <1>1, <1>2 DEF MfaInv, BatchesOverlapped, Moves

(* If it neither enables a factor nor deletes a code, and is not about to  *)
(* issue a batch unless it breaks off, codes are where they were.          *)
LEMMA EnabledFrame ==
  ASSUME MfaInv, NEW r \in Requests, NEW place \in Places, Moves(r, place),
         enabled' \subseteq enabled, codes \subseteq codes',
         \/ pc[r] \notin {"deleteCodes", "createCodes"}
         \/ place = "failed" /\ req' = req
  PROVE  EnabledHasCodes'
<1>1. /\ pc'[r] = place /\ \A q \in Requests \ {r} : pc'[q] = pc[q] /\ req'[q] = req[q]
  BY Others DEF Moves
<1>2. ~req[r].cut
  BY DEF MfaInv, RequestInv, Moves, InFlightPlaces
<1>3. CASE enabled = {}
  BY <1>3 DEF EnabledHasCodes
<1>4. CASE codes # {}
  BY <1>4 DEF EnabledHasCodes
<1>5. CASE \E q \in Requests : req[q].issuing /\ pc[q] \in {"deleteCodes", "createCodes", "failed"}
  <2>1. PICK q \in Requests : req[q].issuing /\ pc[q] \in {"deleteCodes", "createCodes", "failed"}
    BY <1>5
  <2>2. CASE q = r
    <3>1. pc[r] # "failed"
      BY DEF Moves, InFlightPlaces
    <3>2. req'[r].issuing /\ pc'[r] = "failed"
      BY <1>1, <2>1, <2>2, <3>1
    <3>3. QED BY <3>2 DEF EnabledHasCodes
  <2>3. CASE q # r
    <3>1. req'[q].issuing /\ pc'[q] \in {"deleteCodes", "createCodes", "failed"}
      BY <1>1, <2>1, <2>3
    <3>2. QED BY <3>1 DEF EnabledHasCodes
  <2>4. QED BY <2>2, <2>3
<1>6. CASE \E q \in Requests : req[q].cut
  <2>1. PICK q \in Requests : req[q].cut
    BY <1>6
  <2>2. q # r /\ req'[q].cut
    BY <1>1, <1>2, <2>1
  <2>3. QED BY <2>2 DEF EnabledHasCodes
<1>7. QED BY <1>3, <1>4, <1>5, <1>6 DEF MfaInv, EnabledHasCodes

(* A request that arrives changes no row.                                  *)
LEMMA ArrivalPreserves ==
  ASSUME MfaInv, NEW r \in Requests, NEW h \in Handlers, NEW f \in Requests \cup {None},
         NEW c \in Requests \cup {None}, NEW place \in Places, Arrive(r, h, f, c, place),
         place \in {"storeSecret", "enable", "disableFactor"} => f \in factors,
         place \notin {"deleteCodes", "createCodes"},
         UNCHANGED <<factorRows, codeRows, recovered>>
  PROVE  /\ MfaInv' /\ Moves(r, place)
         /\ req'[r].factor = f /\ req'[r].code = c
<1> DEFINE fields == [NoRequest EXCEPT !.handler = h, !.factor = f, !.code = c, !.before = codes]
<1>1. TypeOK /\ \A q \in Requests : RequestInv(q)
  BY DEF MfaInv
<1>2. /\ fields \in Request /\ fields.before = codes /\ ~fields.cut
      /\ fields.factor = f /\ fields.code = c
  BY <1>1 DEF TypeOK, NoRequest, Request
<1>3. /\ pc[r] = "idle" /\ pc' = [pc EXCEPT ![r] = place] /\ req' = [req EXCEPT ![r] = fields]
      /\ factors' = factors /\ secret' = secret /\ enabled' = enabled
      /\ codes' = codes /\ used' = used /\ recovered' = recovered
  BY DEF Arrive, Goto, factorRows, codeRows
<1>4. req'[r] = fields /\ req' \in [Requests -> Request]
  BY <1>1, <1>2, <1>3 DEF TypeOK
<1>5. Moves(r, place)
  BY <1>1, <1>3 DEF Moves, TypeOK
<1>6. /\ pc'[r] = place /\ pc' \in [Requests -> Places] /\ r \notin codes /\ r \notin factors
      /\ r \notin recovered /\ pc[r] \notin Issued
      /\ \A q \in Requests \ {r} : pc'[q] = pc[q] /\ RequestInv(q)'
  BY <1>5, Others
<1>7. TypeOK'
  BY <1>1, <1>3, <1>4, <1>6 DEF TypeOK
<1>8. RequestInv(r)'
  <2>1. \A d \in codes : pc'[d] \in Issued
    BY <1>1, <1>6 DEF TypeOK, RequestInv
  <2>2. QED BY <1>2, <1>3, <1>4, <1>6, <2>1 DEF RequestInv
<1>9. BatchesOverlapped' /\ EnabledHasCodes'
  <2>1. codes' \subseteq codes /\ codes \subseteq codes' /\ enabled' \subseteq enabled
        /\ pc[r] \notin {"deleteCodes", "createCodes"}
    BY <1>3
  <2>2. QED BY <1>5, <2>1, BatchFrame, EnabledFrame
<1>10. QED BY <1>2, <1>4, <1>5, <1>6, <1>7, <1>8, <1>9 DEF MfaInv

(* What every step is shown to do.                                         *)
Stepped(r) == MfaInv' /\ \E place \in Places : Moves(r, place)

(* A step that changes neither a batch nor an enabled flag for the worse   *)
(* needs only its types and its own request looked at.                     *)
LEMMA QuietPreserves ==
  ASSUME MfaInv, NEW r \in Requests, NEW place \in Places, Moves(r, place),
         TypeOK', RequestInv(r)', codes' = codes, enabled' \subseteq enabled,
         \/ pc[r] \notin {"deleteCodes", "createCodes"}
         \/ place = "failed" /\ req' = req
  PROVE  Stepped(r)
<1>1. \A q \in Requests \ {r} : RequestInv(q)'
  BY Others
<1>2. BatchesOverlapped' /\ EnabledHasCodes'
  BY BatchFrame, EnabledFrame
<1>3. QED BY <1>1, <1>2 DEF Stepped, MfaInv

(* The steps of setupTotp.                                                 *)
LEMMA SetupPreserves ==
  ASSUME MfaInv, NEW r \in Requests, SetupStart(r) \/ StoreSecret(r) \/ CreateFactor(r)
  PROVE  Stepped(r)
<1> USE MfaAssumption DEF MfaAssumption
<1>a. TypeOK /\ \A q \in Requests : RequestInv(q)
  BY DEF MfaInv
<1>1. CASE SetupStart(r)
  <2>1. PICK f \in FindTotp :
          Arrive(r, "setup", f, None,
                 IF f = None THEN "createFactor"
                 ELSE IF f \in enabled THEN "denied" ELSE "storeSecret")
    BY <1>1 DEF SetupStart
  <2> DEFINE place == IF f = None THEN "createFactor"
                      ELSE IF f \in enabled THEN "denied" ELSE "storeSecret"
  <2>2. f \in factors \cup {None} /\ f \in Requests \cup {None}
    BY <1>a, <2>1 DEF FindTotp, TypeOK
  <2>3. /\ place \in Places /\ place \notin {"deleteCodes", "createCodes"}
        /\ place \in {"storeSecret", "enable", "disableFactor"} => f \in factors
        /\ "setup" \in Handlers
    BY <2>2 DEF Places, InFlightPlaces, Handlers
  <2>4. UNCHANGED <<factorRows, codeRows, recovered>>
    BY <1>1 DEF SetupStart
  <2>5. MfaInv' /\ Moves(r, place)
    <3> HIDE DEF place
    <3>1. Arrive(r, "setup", f, None, place)
      BY <2>1 DEF place
    <3>2. QED BY <2>2, <2>3, <2>4, <3>1, ArrivalPreserves
  <2>6. QED BY <2>3, <2>5 DEF Stepped
<1>2. CASE StoreSecret(r)
  <2>1. /\ pc[r] = "storeSecret" /\ pc' = [pc EXCEPT ![r] = "setUp"]
        /\ secret' = [secret EXCEPT ![req[r].factor] = r] /\ req' = req
        /\ factors' = factors /\ enabled' = enabled /\ codes' = codes /\ used' = used
        /\ recovered' = recovered
    BY <1>2 DEF StoreSecret, Goto, codeRows
  <2>2. Moves(r, "setUp") /\ "setUp" \in Places
    BY <2>1 DEF Moves, InFlightPlaces, Places
  <2>3. /\ pc' \in [Requests -> Places] /\ pc'[r] = "setUp" /\ r \notin codes /\ r \notin recovered
        /\ \A q \in Requests : r \notin req[q].before /\ req[q].before \subseteq Requests
        /\ \A q \in Requests \ {r} : pc'[q] = pc[q]
    BY <2>2, Others
  <2>4. TypeOK'
    BY <1>a, <2>1, <2>3 DEF TypeOK
  <2>5. RequestInv(r)'
    BY <1>a, <2>1, <2>3 DEF RequestInv
  <2>6. QED BY <2>1, <2>2, <2>4, <2>5, QuietPreserves
<1>3. CASE CreateFactor(r)
  <2>1. /\ pc[r] = "createFactor" /\ pc' = [pc EXCEPT ![r] = "setUp"]
        /\ secret' = [secret EXCEPT ![r] = r] /\ req' = req
        /\ factors' = factors \cup {r} /\ enabled' = enabled /\ codes' = codes /\ used' = used
        /\ recovered' = recovered
    BY <1>3 DEF CreateFactor, Goto, codeRows
  <2>2. Moves(r, "setUp") /\ "setUp" \in Places
    BY <2>1 DEF Moves, InFlightPlaces, Places
  <2>3. /\ pc' \in [Requests -> Places] /\ pc'[r] = "setUp" /\ r \notin codes /\ r \notin recovered
        /\ \A q \in Requests : r \notin req[q].before /\ req[q].before \subseteq Requests
        /\ \A q \in Requests \ {r} : pc'[q] = pc[q]
    BY <2>2, Others
  <2>4. TypeOK'
    BY <1>a, <2>1, <2>3 DEF TypeOK
  <2>5. RequestInv(r)'
    BY <1>a, <2>1, <2>3 DEF RequestInv
  <2>6. QED BY <2>1, <2>2, <2>4, <2>5, QuietPreserves
<1>4. QED BY <1>1, <1>2, <1>3

(* verifyTotp: a code that is compared, at its endpoint or in a sign-in.   *)
LEMMA ComparedPlace ==
  ASSUME TypeOK, NEW f \in FindTotp, NEW s \in Requests \cup {None}
  PROVE  /\ f \in factors \cup {None}
         /\ Compared(f, s) \in {"denied", "touch", "enable"}
         /\ Compared(f, s) \in Places
         /\ Compared(f, s) = "enable" => f \in factors
  BY DEF TypeOK, FindTotp, Compared, Places, InFlightPlaces

(* A flag of a request is set.                                             *)
LEMMA FlagSet ==
  ASSUME TypeOK, NEW r \in Requests, NEW b \in BOOLEAN
  PROVE  /\ req' = [req EXCEPT ![r].issuing = b] =>
              /\ req' \in [Requests -> Request] /\ req'[r].issuing = b
              /\ req'[r].before = req[r].before /\ req'[r].cut = req[r].cut
         /\ req' = [req EXCEPT ![r].cut = b] =>
              /\ req' \in [Requests -> Request] /\ req'[r].cut = b
              /\ req'[r].before = req[r].before
  BY DEF TypeOK, Request

(* The steps of verifyTotp, and of the sign-in around it.                  *)
LEMMA VerifyPreserves ==
  ASSUME MfaInv, NEW r \in Requests,
         \/ \E s \in KnownSecrets \cup {None} : VerifyStart(r, s) \/ SignInStart(r, s)
         \/ SignInVerify(r) \/ Enable(r) \/ DeleteCodes(r) \/ CreateCodes(r) \/ Touch(r)
  PROVE  Stepped(r)
<1> USE MfaAssumption DEF MfaAssumption
<1>a. TypeOK /\ \A q \in Requests : RequestInv(q)
  BY DEF MfaInv
<1>b. KnownSecrets \subseteq Requests /\ factors \subseteq Requests
  BY <1>a DEF KnownSecrets, TypeOK
<1>c. {"signedIn", "denied", "otp", "deleteCodes", "createCodes", "verified"} \subseteq Places
  BY DEF Places, InFlightPlaces
<1>1. ASSUME NEW s \in KnownSecrets \cup {None}, VerifyStart(r, s) PROVE Stepped(r)
  <2>1. PICK f \in FindTotp : Arrive(r, "verify", f, s, Compared(f, s))
    BY <1>1 DEF VerifyStart
  <2>2. /\ f \in Requests \cup {None} /\ Compared(f, s) \in {"denied", "touch", "enable"}
        /\ Compared(f, s) \in Places
        /\ Compared(f, s) = "enable" => f \in factors
        /\ "verify" \in Handlers /\ s \in Requests \cup {None}
    BY <1>a, <1>b, ComparedPlace DEF Handlers
  <2>3. UNCHANGED <<factorRows, codeRows, recovered>>
    BY <1>1 DEF VerifyStart
  <2>4. MfaInv' /\ Moves(r, Compared(f, s))
    BY <2>1, <2>2, <2>3, ArrivalPreserves
  <2>5. QED BY <2>2, <2>4 DEF Stepped
<1>2. ASSUME NEW s \in KnownSecrets \cup {None}, SignInStart(r, s) PROVE Stepped(r)
  <2>1. PICK f \in FindTotp, place \in {"signedIn", "denied", "otp"} :
          Arrive(r, "signIn", f, s, place)
    BY <1>2 DEF SignInStart
  <2>2. f \in Requests \cup {None} /\ "signIn" \in Handlers /\ s \in Requests \cup {None}
    BY <1>b DEF FindTotp, Handlers
  <2>3. UNCHANGED <<factorRows, codeRows, recovered>>
    BY <1>2 DEF SignInStart
  <2>4. place \in Places
    BY <1>c
  <2>5. MfaInv' /\ Moves(r, place)
    BY <2>1, <2>2, <2>3, <2>4, ArrivalPreserves
  <2>6. QED BY <2>4, <2>5 DEF Stepped
<1>3. CASE SignInVerify(r)
  <2>1. PICK f \in FindTotp : /\ req' = [req EXCEPT ![r].factor = f]
                              /\ Goto(r, Compared(f, req[r].code))
    BY <1>3 DEF SignInVerify
  <2> DEFINE place == Compared(f, req[r].code)
  <2>2. /\ f \in factors \cup {None} /\ place \in {"denied", "touch", "enable"}
        /\ place \in Places
        /\ place = "enable" => f \in factors
    <3>1. req[r].code \in Requests \cup {None}
      BY <1>a DEF TypeOK, Request
    <3>2. QED BY <1>a, <3>1, ComparedPlace
  <2> HIDE DEF place
  <2>3. /\ pc[r] = "otp" /\ pc' = [pc EXCEPT ![r] = place]
        /\ req' = [req EXCEPT ![r].factor = f]
        /\ factors' = factors /\ secret' = secret /\ enabled' = enabled
        /\ codes' = codes /\ used' = used /\ recovered' = recovered
    BY <1>3, <2>1 DEF SignInVerify, Goto, factorRows, codeRows, place
  <2>4. Moves(r, place)
    BY <1>a, <2>3 DEF Moves, InFlightPlaces, TypeOK
  <2>5. /\ pc' \in [Requests -> Places] /\ pc'[r] = place /\ r \notin codes /\ r \notin recovered
        /\ r \notin factors
        /\ \A q \in Requests : r \notin req[q].before /\ req[q].before \subseteq Requests
        /\ \A q \in Requests \ {r} : pc'[q] = pc[q]
    BY <2>2, <2>4, Others
  <2>6. /\ req' \in [Requests -> Request] /\ req'[r].factor = f
        /\ req'[r].before = req[r].before /\ req'[r].cut = req[r].cut
    BY <1>a, <1>b, <2>2, <2>3 DEF TypeOK, Request
  <2>7. TypeOK'
    BY <1>a, <2>3, <2>5, <2>6 DEF TypeOK
  <2>8. RequestInv(r)'
    BY <1>a, <2>2, <2>3, <2>5, <2>6 DEF RequestInv
  <2>9. QED BY <2>2, <2>3, <2>4, <2>7, <2>8, QuietPreserves
<1>4. CASE Enable(r)
  <2>1. /\ pc[r] = "enable" /\ pc' = [pc EXCEPT ![r] = "deleteCodes"]
        /\ req' = [req EXCEPT ![r].issuing = TRUE]
        /\ factors' = factors /\ secret' = secret /\ enabled' = enabled \cup {req[r].factor}
        /\ codes' = codes /\ used' = used /\ recovered' = recovered
    BY <1>4 DEF Enable, Goto, codeRows
  <2>2. Moves(r, "deleteCodes")
    BY <1>a, <2>1 DEF Moves, InFlightPlaces, TypeOK
  <2>3. /\ pc' \in [Requests -> Places] /\ pc'[r] = "deleteCodes" /\ r \notin codes
        /\ r \notin recovered /\ r \notin factors
        /\ \A q \in Requests : r \notin req[q].before /\ req[q].before \subseteq Requests
        /\ \A q \in Requests \ {r} : pc'[q] = pc[q] /\ RequestInv(q)'
    BY <1>c, <2>2, Others
  <2>4. /\ req' \in [Requests -> Request] /\ req'[r].issuing
        /\ req'[r].before = req[r].before /\ req'[r].cut = req[r].cut
    BY <1>a, <2>1, FlagSet
  <2>5. TypeOK'
    BY <1>a, <2>1, <2>3, <2>4 DEF TypeOK, RequestInv
  <2>6. RequestInv(r)'
    BY <1>a, <2>1, <2>3, <2>4 DEF RequestInv
  <2>7. BatchesOverlapped'
    BY <1>c, <2>1, <2>2, BatchFrame
  <2>8. EnabledHasCodes'
    BY <2>3, <2>4 DEF EnabledHasCodes
  <2>9. QED BY <1>c, <2>2, <2>3, <2>5, <2>6, <2>7, <2>8 DEF Stepped, MfaInv
<1>5. CASE DeleteCodes(r)
  <2>1. /\ pc[r] = "deleteCodes" /\ pc' = [pc EXCEPT ![r] = "createCodes"] /\ req' = req
        /\ factors' = factors /\ secret' = secret /\ enabled' = enabled
        /\ codes' = {} /\ used' = {} /\ recovered' = recovered
    BY <1>5 DEF DeleteCodes, Goto, factorRows
  <2>2. Moves(r, "createCodes")
    BY <2>1 DEF Moves, InFlightPlaces
  <2>3. /\ pc' \in [Requests -> Places] /\ pc'[r] = "createCodes"
        /\ r \notin recovered /\ r \notin factors
        /\ \A q \in Requests : r \notin req[q].before /\ req[q].before \subseteq Requests
        /\ \A q \in Requests \ {r} : pc'[q] = pc[q] /\ RequestInv(q)'
    BY <1>c, <2>2, Others
  <2>4. TypeOK'
    BY <1>a, <2>1, <2>3 DEF TypeOK
  <2>5. RequestInv(r)'
    BY <1>a, <2>1, <2>3 DEF RequestInv
  <2>6. BatchesOverlapped'
    BY <2>1 DEF BatchesOverlapped
  <2>7. EnabledHasCodes'
    BY <1>a, <2>1, <2>3 DEF EnabledHasCodes, RequestInv
  <2>8. QED BY <1>c, <2>2, <2>3, <2>4, <2>5, <2>6, <2>7 DEF Stepped, MfaInv
<1>6. CASE CreateCodes(r)
  <2>1. /\ pc[r] = "createCodes" /\ pc' = [pc EXCEPT ![r] = Verified(r)] /\ req' = req
        /\ factors' = factors /\ secret' = secret /\ enabled' = enabled
        /\ codes' = codes \cup {r} /\ used' = used /\ recovered' = recovered
    BY <1>6 DEF CreateCodes, Goto, factorRows
  <2>2. Verified(r) \in Issued /\ Verified(r) \in Places
    BY <1>c DEF Verified, Issued
  <2>3. Moves(r, Verified(r))
    BY <2>1 DEF Moves, InFlightPlaces
  <2>4. /\ pc' \in [Requests -> Places] /\ pc'[r] = Verified(r)
        /\ r \notin recovered /\ r \notin factors
        /\ \A q \in Requests : r \notin req[q].before /\ req[q].before \subseteq Requests
        /\ \A q \in Requests \ {r} : pc'[q] = pc[q] /\ RequestInv(q)'
    BY <2>2, <2>3, Others
  <2>5. TypeOK'
    BY <1>a, <2>1, <2>4 DEF TypeOK
  <2>6. RequestInv(r)'
    BY <1>a, <2>1, <2>2, <2>4 DEF RequestInv, Issued
  <2>7. BatchesOverlapped'
    <3>1. \A c \in codes : c \notin req[r].before /\ r \notin req[c].before
      BY <1>a, <2>1, <2>4 DEF RequestInv, TypeOK
    <3>2. QED BY <2>1, <3>1 DEF MfaInv, BatchesOverlapped
  <2>8. EnabledHasCodes'
    BY <2>1 DEF EnabledHasCodes
  <2>9. QED BY <2>2, <2>3, <2>4, <2>5, <2>6, <2>7, <2>8 DEF Stepped, MfaInv
<1>7. CASE Touch(r)
  <2>1. /\ pc[r] = "touch" /\ pc' = [pc EXCEPT ![r] = Verified(r)] /\ req' = req
        /\ factors' = factors /\ secret' = secret /\ enabled' = enabled
        /\ codes' = codes /\ used' = used /\ recovered' = recovered
    BY <1>7 DEF Touch, Goto, factorRows, codeRows
  <2>2. Verified(r) \in Issued /\ Verified(r) \in Places
    BY <1>c DEF Verified, Issued
  <2>3. Moves(r, Verified(r))
    BY <2>1 DEF Moves, InFlightPlaces
  <2>4. /\ pc' \in [Requests -> Places] /\ pc'[r] = Verified(r)
        /\ r \notin codes /\ r \notin recovered /\ r \notin factors
        /\ \A q \in Requests : r \notin req[q].before /\ req[q].before \subseteq Requests
        /\ \A q \in Requests \ {r} : pc'[q] = pc[q]
    BY <2>2, <2>3, Others
  <2>5. TypeOK' /\ RequestInv(r)'
    BY <1>a, <2>1, <2>2, <2>4 DEF TypeOK, RequestInv, Issued
  <2>6. QED BY <2>1, <2>2, <2>3, <2>5, QuietPreserves
<1>8. QED BY <1>1, <1>2, <1>3, <1>4, <1>5, <1>6, <1>7

(* The steps of disableFactor and verifyRecoveryCode, and failing calls.   *)
LEMMA OtherPreserves ==
  ASSUME MfaInv, NEW r \in Requests,
         \/ \E f \in factors : DisableStart(r, f)
         \/ DisableFactor(r) \/ RevokeCodes(r)
         \/ \E c \in ShownCodes \cup {None} : RecoverStart(r, c)
         \/ MarkUsed(r) \/ CallFails(r)
  PROVE  Stepped(r)
<1> USE MfaAssumption DEF MfaAssumption
<1>a. TypeOK /\ \A q \in Requests : RequestInv(q)
  BY DEF MfaInv
<1>b. ShownCodes \subseteq Requests /\ factors \subseteq Requests
  BY <1>a DEF ShownCodes, TypeOK
<1>c. {"disableFactor", "revokeCodes", "disabled", "markUsed", "denied", "recovered", "failed"}
        \subseteq Places
  BY DEF Places, InFlightPlaces
<1>1. ASSUME NEW f \in factors, DisableStart(r, f) PROVE Stepped(r)
  <2>1. /\ Arrive(r, "disable", f, None, "disableFactor")
        /\ UNCHANGED <<factorRows, codeRows, recovered>>
        /\ "disable" \in Handlers /\ f \in Requests \cup {None}
    BY <1>1, <1>b DEF DisableStart, Handlers
  <2>2. MfaInv' /\ Moves(r, "disableFactor")
    BY <1>c, <2>1, ArrivalPreserves
  <2>3. QED BY <1>c, <2>2 DEF Stepped
<1>2. CASE DisableFactor(r)
  <2>1. /\ pc[r] = "disableFactor" /\ pc' = [pc EXCEPT ![r] = "revokeCodes"] /\ req' = req
        /\ factors' = factors /\ secret' = secret /\ enabled' = enabled \ {req[r].factor}
        /\ codes' = codes /\ used' = used /\ recovered' = recovered
    BY <1>2 DEF DisableFactor, Goto, codeRows
  <2>2. Moves(r, "revokeCodes")
    BY <2>1 DEF Moves, InFlightPlaces
  <2>3. /\ pc' \in [Requests -> Places] /\ pc'[r] = "revokeCodes"
        /\ r \notin codes /\ r \notin recovered /\ r \notin factors
        /\ \A q \in Requests : r \notin req[q].before /\ req[q].before \subseteq Requests
        /\ \A q \in Requests \ {r} : pc'[q] = pc[q]
    BY <1>c, <2>2, Others
  <2>4. TypeOK' /\ RequestInv(r)'
    BY <1>a, <2>1, <2>3 DEF TypeOK, RequestInv
  <2>5. QED BY <1>c, <2>1, <2>2, <2>4, QuietPreserves
<1>3. CASE RevokeCodes(r)
  <2>1. /\ pc[r] = "revokeCodes" /\ pc' = [pc EXCEPT ![r] = "disabled"]
        /\ req' = [req EXCEPT ![r].cut = (enabled # {})]
        /\ factors' = factors /\ secret' = secret /\ enabled' = enabled
        /\ codes' = {} /\ used' = {} /\ recovered' = recovered
    BY <1>3 DEF RevokeCodes, Goto, factorRows
  <2>2. Moves(r, "disabled")
    BY <1>a, <2>1 DEF Moves, InFlightPlaces, TypeOK
  <2>3. /\ pc' \in [Requests -> Places] /\ pc'[r] = "disabled"
        /\ r \notin recovered /\ r \notin factors
        /\ \A q \in Requests : r \notin req[q].before /\ req[q].before \subseteq Requests
        /\ \A q \in Requests \ {r} : pc'[q] = pc[q] /\ RequestInv(q)'
    BY <1>c, <2>2, Others
  <2>4. /\ req' \in [Requests -> Request] /\ req'[r].cut = (enabled # {})
        /\ req'[r].before = req[r].before
    <3>1. PICK b \in BOOLEAN : b = (enabled # {})
      OBVIOUS
    <3>2. req' = [req EXCEPT ![r].cut = b]
      BY <2>1, <3>1
    <3>3. QED BY <1>a, <3>1, <3>2, FlagSet
  <2>5. TypeOK' /\ RequestInv(r)'
    BY <1>a, <2>1, <2>3, <2>4 DEF TypeOK, RequestInv
  <2>6. BatchesOverlapped' /\ EnabledHasCodes'
    BY <2>1, <2>4 DEF BatchesOverlapped, EnabledHasCodes
  <2>7. QED BY <1>c, <2>2, <2>3, <2>5, <2>6 DEF Stepped, MfaInv
<1>4. ASSUME NEW c \in ShownCodes \cup {None}, RecoverStart(r, c) PROVE Stepped(r)
  <2>1. PICK place \in {"markUsed", "denied"} : Arrive(r, "recover", None, c, place)
    BY <1>4 DEF RecoverStart
  <2>2. /\ UNCHANGED <<factorRows, codeRows, recovered>>
        /\ "recover" \in Handlers /\ c \in Requests \cup {None} /\ place \in Places
    BY <1>4, <1>b, <1>c DEF RecoverStart, Handlers
  <2>3. MfaInv' /\ Moves(r, place)
    BY <2>1, <2>2, ArrivalPreserves
  <2>4. QED BY <2>2, <2>3 DEF Stepped
<1>5. CASE MarkUsed(r)
  <2>1. /\ pc[r] = "markUsed" /\ pc' = [pc EXCEPT ![r] = "recovered"] /\ req' = req
        /\ factors' = factors /\ secret' = secret /\ enabled' = enabled
        /\ codes' = codes /\ used' = used \cup ({req[r].code} \cap codes)
        /\ recovered' = recovered \cup {r}
    BY <1>5 DEF MarkUsed, Goto, factorRows
  <2>2. Moves(r, "recovered")
    BY <2>1 DEF Moves, InFlightPlaces
  <2>3. /\ pc' \in [Requests -> Places] /\ pc'[r] = "recovered"
        /\ r \notin codes /\ r \notin factors
        /\ \A q \in Requests : r \notin req[q].before /\ req[q].before \subseteq Requests
        /\ \A q \in Requests \ {r} : pc'[q] = pc[q]
    BY <1>c, <2>2, Others
  <2>4. TypeOK' /\ RequestInv(r)'
    BY <1>a, <2>1, <2>3 DEF TypeOK, RequestInv
  <2>5. QED BY <1>c, <2>1, <2>2, <2>4, QuietPreserves
<1>6. CASE CallFails(r)
  <2>1. /\ pc[r] \in InFlightPlaces /\ pc' = [pc EXCEPT ![r] = "failed"] /\ req' = req
        /\ factors' = factors /\ secret' = secret /\ enabled' = enabled
        /\ codes' = codes /\ used' = used /\ recovered' = recovered
    BY <1>6 DEF CallFails, Goto, factorRows, codeRows
  <2>2. Moves(r, "failed")
    BY <2>1 DEF Moves
  <2>3. /\ pc' \in [Requests -> Places] /\ pc'[r] = "failed"
        /\ r \notin codes /\ r \notin recovered /\ r \notin factors
        /\ \A q \in Requests : r \notin req[q].before /\ req[q].before \subseteq Requests
        /\ \A q \in Requests \ {r} : pc'[q] = pc[q]
    BY <1>c, <2>2, Others
  <2>4. ~req[r].cut
    BY <1>a, <2>1 DEF RequestInv, InFlightPlaces
  <2>5. TypeOK' /\ RequestInv(r)'
    BY <1>a, <2>1, <2>3, <2>4 DEF TypeOK, RequestInv
  <2>6. QED BY <1>c, <2>1, <2>2, <2>5, QuietPreserves
<1>7. QED BY <1>1, <1>2, <1>3, <1>4, <1>5, <1>6

(* Every step of a request is such a step.                                 *)
LEMMA MfaStep ==
  ASSUME MfaInv, NEW r \in Requests, RequestStep(r)
  PROVE  Stepped(r)
  BY SetupPreserves, VerifyPreserves, OtherPreserves DEF RequestStep

(* MfaInv holds throughout.                                                *)
LEMMA MfaAlways == Spec => []MfaInv
<1>1. MfaInv /\ [Next]_vars => MfaInv'
  <2> SUFFICES ASSUME MfaInv, [Next]_vars PROVE MfaInv'
    OBVIOUS
  <2>1. CASE UNCHANGED vars
    BY <2>1 DEF vars, factorRows, codeRows, MfaInv, TypeOK, EnabledHasCodes, BatchesOverlapped,
                RequestInv
  <2>2. CASE Next
    BY <2>2, MfaStep DEF Next, Stepped
  <2>3. QED BY <2>1, <2>2
<1>2. QED BY MfaInit, <1>1, PTL DEF Spec

(* Every reachable state is well typed: enabled factors exist, used codes  *)
(* are stored ones.                                                        *)
THEOREM MfaTypeCorrect == Spec => []TypeOK
<1>1. MfaInv => TypeOK
  BY DEF MfaInv
<1>2. QED BY MfaAlways, <1>1, PTL

(***************************************************************************)
(* An enabled factor has recovery codes, unless the verification that      *)
(* enabled one is still issuing them or broke off, or a disableFactor      *)
(* deleted them under a factor that was enabled meanwhile.                 *)
(***************************************************************************)
THEOREM EnabledFactorsHaveCodes == Spec => []EnabledHasCodes
<1>1. MfaInv => EnabledHasCodes
  BY DEF MfaInv
<1>2. QED BY MfaAlways, <1>1, PTL

(***************************************************************************)
(* Two batches of recovery codes are stored together only if neither was   *)
(* stored when the verification that issued the other arrived.             *)
(***************************************************************************)
THEOREM BatchesReplaced == Spec => []BatchesOverlapped
<1>1. MfaInv => BatchesOverlapped
  BY DEF MfaInv
<1>2. QED BY MfaAlways, <1>1, PTL

(***************************************************************************)
(* What a step does to codes that may still recover, and to secrets.       *)
(***************************************************************************)
Spends(r) ==
  /\ codes' \ used' \subseteq (codes \ used) \cup {r}
  /\ pc'[r] = "markUsed" => req'[r].code \in codes \ used
  /\ recovered' = recovered \/ (pc[r] = "markUsed" /\ recovered' = recovered \cup {r} /\ req' = req)

Replaces(r) ==
  /\ pc'[r] = "storeSecret" => req'[r].factor \notin enabled
  /\ \A f \in factors : secret'[f] = secret[f] \/ (pc[r] = "storeSecret" /\ req[r].factor = f)

(* An arrival neither spends nor replaces anything.                        *)
LEMMA ArrivalFacts ==
  ASSUME MfaInv, NEW r \in Requests, NEW h, NEW f, NEW c, NEW place,
         Arrive(r, h, f, c, place),
         place = "markUsed" => c \in codes \ used,
         place = "storeSecret" => f \notin enabled,
         UNCHANGED <<factorRows, codeRows, recovered>>
  PROVE  Spends(r) /\ Replaces(r)
<1>1. pc'[r] = place /\ req'[r].code = c /\ req'[r].factor = f
  BY DEF Arrive, Goto, MfaInv, TypeOK, NoRequest
<1>2. /\ secret' = secret /\ enabled' = enabled /\ codes' = codes /\ used' = used
      /\ recovered' = recovered
  BY DEF factorRows, codeRows
<1>3. QED BY <1>1, <1>2 DEF Spends, Replaces

(* No step of a request revives a code or replaces a secret unasked.       *)
LEMMA StepFacts ==
  ASSUME MfaInv, NEW r \in Requests, RequestStep(r)
  PROVE  Spends(r) /\ Replaces(r)
<1>a. TypeOK /\ \A q \in Requests : RequestInv(q)
  BY DEF MfaInv
<1>b. pc \in [Requests -> Places] /\ req \in [Requests -> Request] /\ used \subseteq codes
  BY <1>a DEF TypeOK
<1>1. CASE SetupStart(r)
  BY <1>1, ArrivalFacts DEF SetupStart
<1>2. ASSUME NEW s \in KnownSecrets \cup {None}, VerifyStart(r, s) \/ SignInStart(r, s)
      PROVE  Spends(r) /\ Replaces(r)
  BY <1>2, ArrivalFacts DEF VerifyStart, SignInStart, Compared
<1>3. ASSUME NEW f \in factors, DisableStart(r, f) PROVE Spends(r) /\ Replaces(r)
  BY <1>3, ArrivalFacts DEF DisableStart
<1>4. ASSUME NEW c \in ShownCodes \cup {None}, RecoverStart(r, c) PROVE Spends(r) /\ Replaces(r)
  BY <1>4, ArrivalFacts DEF RecoverStart, FindUnused
<1>5. CASE StoreSecret(r)
  <2>1. /\ pc[r] = "storeSecret" /\ pc'[r] = "setUp"
        /\ secret' = [secret EXCEPT ![req[r].factor] = r]
        /\ codes' = codes /\ used' = used /\ recovered' = recovered
    BY <1>5, <1>b DEF StoreSecret, Goto, codeRows
  <2>2. \A f \in factors : f # req[r].factor => secret'[f] = secret[f]
    BY <1>a, <2>1 DEF TypeOK
  <2>3. QED BY <2>1, <2>2 DEF Spends, Replaces
<1>6. CASE CreateFactor(r)
  <2>1. /\ pc[r] = "createFactor" /\ pc'[r] = "setUp" /\ secret' = [secret EXCEPT ![r] = r]
        /\ codes' = codes /\ used' = used /\ recovered' = recovered
    BY <1>6, <1>b DEF CreateFactor, Goto, codeRows
  <2>2. r \notin factors
    BY <1>a, <2>1 DEF RequestInv
  <2>3. \A f \in factors : secret'[f] = secret[f]
    BY <1>a, <2>1, <2>2 DEF TypeOK
  <2>4. QED BY <2>1, <2>3 DEF Spends, Replaces
<1>7. CASE SignInVerify(r)
  <2>1. pc'[r] \in {"denied", "touch", "enable"}
    BY <1>7, <1>b DEF SignInVerify, Goto, Compared
  <2>2. secret' = secret /\ codes' = codes /\ used' = used /\ recovered' = recovered
    BY <1>7 DEF SignInVerify, factorRows, codeRows
  <2>3. QED BY <2>1, <2>2 DEF Spends, Replaces
<1>8. CASE Enable(r)
  <2>1. /\ pc'[r] = "deleteCodes" /\ secret' = secret /\ codes' = codes /\ used' = used
        /\ recovered' = recovered
    BY <1>8, <1>b DEF Enable, Goto, codeRows
  <2>2. QED BY <2>1 DEF Spends, Replaces
<1>9. CASE DeleteCodes(r) \/ CreateCodes(r) \/ Touch(r) \/ DisableFactor(r) \/ RevokeCodes(r)
  <2>1. pc'[r] \in {"createCodes", "signedIn", "verified", "revokeCodes", "disabled"}
    BY <1>9, <1>b DEF DeleteCodes, CreateCodes, Touch, DisableFactor, RevokeCodes, Goto, Verified
  <2>2. /\ secret' = secret /\ recovered' = recovered
        /\ codes' \ used' \subseteq (codes \ used) \cup {r}
    BY <1>9 DEF DeleteCodes, CreateCodes, Touch, DisableFactor, RevokeCodes, factorRows, codeRows
  <2>3. QED BY <2>1, <2>2 DEF Spends, Replaces
<1>10. CASE MarkUsed(r)
  <2>1. /\ pc[r] = "markUsed" /\ pc'[r] = "recovered" /\ req' = req /\ secret' = secret
        /\ codes' = codes /\ used \subseteq used' /\ recovered' = recovered \cup {r}
    BY <1>10, <1>b DEF MarkUsed, Goto, factorRows
  <2>2. QED BY <2>1 DEF Spends, Replaces
<1>11. CASE CallFails(r)
  <2>1. /\ pc'[r] = "failed" /\ secret' = secret /\ codes' = codes /\ used' = used
        /\ recovered' = recovered
    BY <1>11, <1>b DEF CallFails, Goto, factorRows, codeRows
  <2>2. QED BY <2>1 DEF Spends, Replaces
<1>12. QED
  BY <1>1, <1>2, <1>3, <1>4, <1>5, <1>6, <1>7, <1>8, <1>9, <1>10, <1>11 DEF RequestStep

(***************************************************************************)
(* A recovery code that was used or deleted, and that no recovery still    *)
(* running has found, recovers nothing any more.                           *)
(***************************************************************************)
THEOREM RecoveryCodesOnce == Spec => SpentCodesStaySpent
<1> DEFINE StaysSpent ==
             \A c \in Requests : Spent(c) => Spent(c)' /\ RecoveredWith(c)' = RecoveredWith(c)
<1>1. MfaInv /\ [Next]_vars => StaysSpent
  <2> SUFFICES ASSUME MfaInv, [Next]_vars, NEW c \in Requests, Spent(c)
               PROVE  Spent(c)' /\ RecoveredWith(c)' = RecoveredWith(c)
    OBVIOUS
  <2>1. CASE UNCHANGED vars
    BY <2>1 DEF vars, factorRows, codeRows, Spent, RecoveredWith
  <2>2. CASE Next
    <3>1. PICK r \in Requests : RequestStep(r)
      BY <2>2 DEF Next
    <3>2. PICK place \in Places : Moves(r, place)
      BY <3>1, MfaStep DEF Stepped
    <3>3. Spends(r)
      BY <3>1, StepFacts
    <3>4. /\ \A q \in Requests \ {r} : pc'[q] = pc[q] /\ req'[q] = req[q]
          /\ r \notin recovered /\ pc[r] \notin Issued /\ recovered \subseteq Requests
      BY <3>2, Others DEF Moves, MfaInv, TypeOK
    <3>5. c # r /\ pc'[c] = "verified"
      BY <3>4 DEF Spent, Issued
    <3>6. Spent(c)'
      BY <3>3, <3>4, <3>5 DEF Spent, Spends
    <3>7. RecoveredWith(c)' = RecoveredWith(c)
      <4>1. CASE recovered' = recovered
        BY <3>4, <4>1 DEF RecoveredWith
      <4>2. CASE pc[r] = "markUsed" /\ recovered' = recovered \cup {r} /\ req' = req
        BY <4>2 DEF RecoveredWith, Spent
      <4>3. QED BY <3>3, <4>1, <4>2 DEF Spends
    <3>8. QED BY <3>6, <3>7
  <2>3. QED BY <2>1, <2>2
<1>2. QED BY MfaAlways, <1>1, PTL DEF Spec, SpentCodesStaySpent

(***************************************************************************)
(* The secret of an enabled factor is not replaced before it is disabled,  *)
(* once no setup that found it disabled is running.                        *)
(***************************************************************************)
THEOREM EnabledSecretsKept == Spec => SettledSecretKept
<1> DEFINE StaysSettled ==
             \A f \in Requests : Settled(f) =>
               secret'[f] = secret[f] /\ (f \in enabled' => Settled(f)')
<1>1. MfaInv /\ [Next]_vars => StaysSettled
  <2> SUFFICES ASSUME MfaInv, [Next]_vars, NEW f \in Requests, Settled(f)
               PROVE  secret'[f] = secret[f] /\ (f \in enabled' => Settled(f)')
    OBVIOUS
  <2>1. CASE UNCHANGED vars
    BY <2>1 DEF vars, factorRows, codeRows, Settled
  <2>2. CASE Next
    <3>1. PICK r \in Requests : RequestStep(r)
      BY <2>2 DEF Next
    <3>2. PICK place \in Places : Moves(r, place)
      BY <3>1, MfaStep DEF Stepped
    <3>3. Replaces(r) /\ f \in factors
      BY <3>1, StepFacts DEF Settled, MfaInv, TypeOK
    <3>4. \A q \in Requests \ {r} : pc'[q] = pc[q] /\ req'[q] = req[q]
      BY <3>2, Others DEF Moves
    <3>5. QED BY <3>3, <3>4 DEF Settled, Replaces
  <2>3. QED BY <2>1, <2>2
<1>2. QED BY MfaAlways, <1>1, PTL DEF Spec, SettledSecretKept
=============================================================================
