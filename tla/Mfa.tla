--------------------------------- MODULE Mfa ---------------------------------
(***************************************************************************)
(* The TOTP factor and the recovery codes of one user in authentication/:  *)
(* MfaService with MfaFactorRepository and MfaRecoveryCodeRepository, and  *)
(* the part of AuthService.signIn that enforces it.  No statement shares a *)
(* transaction with another: one action per awaited call.                  *)
(*                                                                         *)
(* Each r in Requests is one HTTP request, served once.  A setup r         *)
(* generates secret r and, if the user has no factor, factor r; a          *)
(* verification r that enables a factor issues the batch of recovery codes *)
(* r, whose codes all fare alike: one stands for the batch.  A TOTP code   *)
(* is valid for the secret it was computed from.                           *)
(***************************************************************************)
EXTENDS Naturals, FiniteSets

CONSTANTS
  Requests,
  None,
  MayCall       \* MayCall[r]: the handlers request r may be for

Handlers == {"setup", "verify", "signIn", "disable", "recover"}

ASSUME MfaAssumption ==
  /\ None \notin Requests \cup Handlers
  /\ MayCall \in [Requests -> SUBSET Handlers]

VARIABLES
  factors,   \* mfa_factors of type totp, by the setup that created them
  secret,    \* secret_enc of a factor
  enabled,   \* factors with is_enabled
  codes,     \* mfa_recovery_codes, by the verification that issued them
  used,      \* codes whose used_at is set
  pc,
  req,
  recovered  \* history: recoveries that were accepted

factorRows == <<factors, secret, enabled>>
codeRows   == <<codes, used>>
vars == <<factorRows, codeRows, pc, req, recovered>>

Request ==
  [handler : Handlers \cup {None},
   factor  : Requests \cup {None},     \* the factor found
   code    : Requests \cup {None},     \* the secret or the recovery code presented
   issuing : BOOLEAN,                  \* it has enabled the factor
   before  : SUBSET Requests,          \* history: codes stored when it arrived
   cut     : BOOLEAN]                  \* history: it deleted codes under an enabled factor

NoRequest == [handler |-> None, factor |-> None, code |-> None, issuing |-> FALSE,
              before |-> {}, cut |-> FALSE]

InFlightPlaces ==
  {"storeSecret", "createFactor", "otp", "enable", "touch", "deleteCodes", "createCodes",
   "disableFactor", "revokeCodes", "markUsed"}
Places == InFlightPlaces \cup
  {"idle", "setUp", "verified", "signedIn", "disabled", "recovered", "denied", "failed"}

\* findTotpByUserId has no ORDER BY: any one of the rows.
FindTotp == IF factors = {} THEN {None} ELSE factors

\* What a client has been told.
KnownSecrets == {s \in Requests : pc[s] = "setUp"}
ShownCodes   == {c \in Requests : pc[c] = "verified"}

Goto(r, place) == pc' = [pc EXCEPT ![r] = place]

Arrive(r, h, f, c, place) ==
  /\ pc[r] = "idle"
  /\ h \in MayCall[r]
  /\ req' = [req EXCEPT ![r] = [NoRequest EXCEPT !.handler = h, !.factor = f, !.code = c,
                                                 !.before = codes]]
  /\ Goto(r, place)

Init ==
  /\ factors = {}
  /\ secret = [f \in Requests |-> None]
  /\ enabled = {}
  /\ codes = {}
  /\ used = {}
  /\ pc = [r \in Requests |-> "idle"]
  /\ req = [r \in Requests |-> NoRequest]
  /\ recovered = {}

-----------------------------------------------------------------------------
(* setupTotp                                                               *)

\* Mutant: a setup may replace the secret of a factor that is enabled.
SetupAnyway(r) ==
  /\ \E f \in FindTotp :
       Arrive(r, "setup", f, None, IF f = None THEN "createFactor" ELSE "storeSecret")
  /\ UNCHANGED <<factorRows, codeRows, recovered>>

SetupStart(r) ==
  /\ \E f \in FindTotp :
       Arrive(r, "setup", f, None,
              IF f = None THEN "createFactor"
              ELSE IF f \in enabled THEN "denied" ELSE "storeSecret")
  /\ UNCHANGED <<factorRows, codeRows, recovered>>

StoreSecret(r) ==
  /\ pc[r] = "storeSecret"
  /\ secret' = [secret EXCEPT ![req[r].factor] = r]
  /\ Goto(r, "setUp")
  /\ UNCHANGED <<factors, enabled, codeRows, req, recovered>>

CreateFactor(r) ==
  /\ pc[r] = "createFactor"
  /\ factors' = factors \cup {r}
  /\ secret' = [secret EXCEPT ![r] = r]
  /\ Goto(r, "setUp")
  /\ UNCHANGED <<enabled, codeRows, req, recovered>>

-----------------------------------------------------------------------------
(* verifyTotp, called by its endpoint and by signIn                        *)

\* Where the code s, compared with the secret of factor f, takes it.
Compared(f, s) ==
  IF f = None \/ s = None \/ secret[f] # s THEN "denied"
  ELSE IF f \in enabled THEN "touch" ELSE "enable"

VerifyStart(r, s) ==
  /\ \E f \in FindTotp : Arrive(r, "verify", f, s, Compared(f, s))
  /\ UNCHANGED <<factorRows, codeRows, recovered>>

\* signIn: isTotpEnabled, ...
SignInStart(r, s) ==
  /\ \E f \in FindTotp :
       Arrive(r, "signIn", f, s,
              IF f \notin enabled THEN "signedIn" ELSE IF s = None THEN "denied" ELSE "otp")
  /\ UNCHANGED <<factorRows, codeRows, recovered>>

\* ... then verifyTotp, which looks the factor up again.
SignInVerify(r) ==
  /\ pc[r] = "otp"
  /\ \E f \in FindTotp :
       /\ req' = [req EXCEPT ![r].factor = f]
       /\ Goto(r, Compared(f, req[r].code))
  /\ UNCHANGED <<factorRows, codeRows, recovered>>

Enable(r) ==
  /\ pc[r] = "enable"
  /\ enabled' = enabled \cup {req[r].factor}
  /\ req' = [req EXCEPT ![r].issuing = TRUE]
  /\ Goto(r, "deleteCodes")
  /\ UNCHANGED <<factors, secret, codeRows, recovered>>

\* Mutant: the old codes are kept.
KeepOldCodes(r) ==
  /\ pc[r] = "deleteCodes"
  /\ Goto(r, "createCodes")
  /\ UNCHANGED <<factorRows, codeRows, req, recovered>>

DeleteCodes(r) ==
  /\ pc[r] = "deleteCodes"
  /\ codes' = {}
  /\ used' = {}
  /\ Goto(r, "createCodes")
  /\ UNCHANGED <<factorRows, req, recovered>>

\* signIn drops the codes that verifyTotp returns.
Verified(r) == IF req[r].handler = "signIn" THEN "signedIn" ELSE "verified"

\* Mutant: the entities are made but not saved.
CreateWithoutSave(r) ==
  /\ pc[r] = "createCodes"
  /\ Goto(r, Verified(r))
  /\ UNCHANGED <<factorRows, codeRows, req, recovered>>

CreateCodes(r) ==
  /\ pc[r] = "createCodes"
  /\ codes' = codes \cup {r}
  /\ Goto(r, Verified(r))
  /\ UNCHANGED <<factorRows, used, req, recovered>>

Touch(r) ==
  /\ pc[r] = "touch"
  /\ Goto(r, Verified(r))
  /\ UNCHANGED <<factorRows, codeRows, req, recovered>>

-----------------------------------------------------------------------------
(* disableFactor                                                           *)

DisableStart(r, f) ==
  /\ Arrive(r, "disable", f, None, "disableFactor")
  /\ UNCHANGED <<factorRows, codeRows, recovered>>

DisableFactor(r) ==
  /\ pc[r] = "disableFactor"
  /\ enabled' = enabled \ {req[r].factor}
  /\ Goto(r, "revokeCodes")
  /\ UNCHANGED <<factors, secret, codeRows, req, recovered>>

RevokeCodes(r) ==
  /\ pc[r] = "revokeCodes"
  /\ codes' = {}
  /\ used' = {}
  /\ req' = [req EXCEPT ![r].cut = enabled # {}]
  /\ Goto(r, "disabled")
  /\ UNCHANGED <<factorRows, recovered>>

-----------------------------------------------------------------------------
(* verifyRecoveryCode                                                      *)

\* Mutant: used_at is not part of the query.
FindStored == codes

FindUnused == codes \ used

RecoverStart(r, c) ==
  /\ Arrive(r, "recover", None, c, IF c \in FindUnused THEN "markUsed" ELSE "denied")
  /\ UNCHANGED <<factorRows, codeRows, recovered>>

\* An UPDATE by id: nothing happens to a row that is gone.
MarkUsed(r) ==
  /\ pc[r] = "markUsed"
  /\ used' = used \cup ({req[r].code} \cap codes)
  /\ recovered' = recovered \cup {r}
  /\ Goto(r, "recovered")
  /\ UNCHANGED <<factorRows, codes, req>>

-----------------------------------------------------------------------------
\* A rejected database call, or a restart of the process.
CallFails(r) ==
  /\ pc[r] \in InFlightPlaces
  /\ Goto(r, "failed")
  /\ UNCHANGED <<factorRows, codeRows, req, recovered>>

RequestStep(r) ==
  \/ SetupStart(r)
  \/ StoreSecret(r)
  \/ CreateFactor(r)
  \/ \E s \in KnownSecrets \cup {None} : VerifyStart(r, s) \/ SignInStart(r, s)
  \/ SignInVerify(r)
  \/ Enable(r)
  \/ DeleteCodes(r)
  \/ CreateCodes(r)
  \/ Touch(r)
  \/ \E f \in factors : DisableStart(r, f)
  \/ DisableFactor(r)
  \/ RevokeCodes(r)
  \/ \E c \in ShownCodes \cup {None} : RecoverStart(r, c)
  \/ MarkUsed(r)
  \/ CallFails(r)

Next == \E r \in Requests : RequestStep(r)

Spec == Init /\ [][Next]_vars

-----------------------------------------------------------------------------
(* Correctness.                                                            *)

TypeOK ==
  /\ factors \subseteq Requests
  /\ secret \in [Requests -> Requests \cup {None}]
  /\ enabled \subseteq factors
  /\ codes \subseteq Requests
  /\ used \subseteq codes
  /\ pc \in [Requests -> Places]
  /\ req \in [Requests -> Request]
  /\ recovered \subseteq Requests

(* A user whose factor is enabled has recovery codes, or a verification is *)
(* about to issue them or died on the way, or a disableFactor deleted them *)
(* while a factor was enabled.                                             *)
EnabledHasCodes ==
  enabled # {} =>
    \/ codes # {}
    \/ \E r \in Requests :
         /\ req[r].issuing
         /\ pc[r] \in {"deleteCodes", "createCodes", "failed"}
    \/ \E r \in Requests : req[r].cut

(* A batch of recovery codes replaces the one before: two batches are kept *)
(* together only if neither was stored when the verification that issued   *)
(* the other arrived.                                                      *)
BatchesOverlapped == \A c, d \in codes : c # d => c \notin req[d].before

(* A recovery code that was used or deleted, and that no recovery still    *)
(* running has found, recovers nothing any more.                           *)
Spent(c) ==
  /\ c \notin codes \ used
  /\ pc[c] = "verified"
  /\ \A r \in Requests : pc[r] = "markUsed" => req[r].code # c

RecoveredWith(c) == {r \in recovered : req[r].code = c}

SpentCodesStaySpent ==
  [][\A c \in Requests : Spent(c) => Spent(c)' /\ RecoveredWith(c)' = RecoveredWith(c)]_vars

(* Once a factor is enabled and no setup that found it disabled is still   *)
(* running, its secret is not replaced before it is disabled.              *)
Settled(f) ==
  /\ f \in enabled
  /\ \A r \in Requests : pc[r] = "storeSecret" => req[r].factor # f

SettledSecretKept ==
  [][\A f \in Requests : Settled(f) => secret'[f] = secret[f] /\ (f \in enabled' => Settled(f)')]_vars

=============================================================================
