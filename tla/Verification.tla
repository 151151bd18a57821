----------------------------- MODULE Verification -----------------------------
(***************************************************************************)
(* One-time codes and links of one target in authentication/:              *)
(* VerificationService with VerificationTokenRepository.  Sending retires  *)
(* the pending codes, stores a new one and mails it; verifying reads a     *)
(* code, compares, and only then counts a miss or consumes the code.  Each *)
(* statement is a transaction of its own: one action per awaited call.     *)
(*                                                                         *)
(* Each r in Requests is one HTTP request, served once; the code that a    *)
(* send r stores is code r, and knowing its secret is naming r.  "login"   *)
(* stands for every purpose of a numeric code.                             *)
(***************************************************************************)
EXTENDS Naturals

CONSTANTS
  Requests,
  None,
  MayCall,      \* MayCall[r]: the handlers request r may be for
  MaxAttempts,  \* 5
  Life,         \* Life[p]: how long a code of purpose p is valid, in ticks
  MaxTime       \* bound on the clock

Purposes == {"login", "magic_link", "verify_email"}
Handlers == {"send", "otp", "magicLink", "verifyEmail"}

ASSUME VerificationAssumption ==
  /\ None \notin Requests \cup Purposes \cup Handlers
  /\ MayCall \in [Requests -> SUBSET Handlers]
  /\ MaxAttempts \in Nat \ {0}
  /\ Life \in [Purposes -> Nat \ {0}]
  /\ MaxTime \in Nat

VARIABLES
  now,
  rows,      \* verification_tokens, by the request that stores it
  created,   \* how many rows were inserted
  mailed,    \* codes whose mail was sent
  pc,
  req,
  accepted,  \* history: requests that consumed the code they presented
  reached    \* history: reached[c], the requests whose miss took c to its limit or past it

history == <<accepted, reached>>
vars == <<now, rows, created, mailed, pc, req, history>>

Row ==
  [purpose   : Purposes \cup {None},
   attempts  : Nat,
   consumed  : BOOLEAN,
   expiresAt : Nat,
   createdAt : Nat]       \* rank among the insertions; 0 before this one

NoRow == [purpose |-> None, attempts |-> 0, consumed |-> FALSE,
          expiresAt |-> 0, createdAt |-> 0]

Request ==
  [handler : Handlers \cup {None},
   purpose : Purposes \cup {None},     \* of a send
   code    : Requests \cup {None},     \* the row a verification found
   older   : SUBSET Requests]          \* history: codes stored when a send began

NoRequest == [handler |-> None, purpose |-> None, code |-> None, older |-> {}]

Verifying(h, c) == [NoRequest EXCEPT !.handler = h, !.code = c]

InFlightPlaces == {"create", "mail", "count", "recount", "exhaust", "consume"}
Places == InFlightPlaces \cup {"idle", "sent", "accepted", "denied", "failed"}

Stored(c) == rows[c].createdAt # 0

Active(c) == Stored(c) /\ ~rows[c].consumed /\ rows[c].expiresAt > now

\* findActiveByTarget: the newest one.
FindActive(p) ==
  {c \in Requests :
     /\ Active(c) /\ rows[c].purpose = p
     /\ \A d \in Requests :
          Active(d) /\ rows[d].purpose = p => rows[d].createdAt <= rows[c].createdAt}

Goto(r, place) == pc' = [pc EXCEPT ![r] = place]

Arrive(r, fields, place) ==
  /\ pc[r] = "idle"
  /\ fields.handler \in MayCall[r]
  /\ req' = [req EXCEPT ![r] = fields]
  /\ Goto(r, place)

Init ==
  /\ now = 1
  /\ rows = [r \in Requests |-> NoRow]
  /\ created = 0
  /\ mailed = {}
  /\ pc = [r \in Requests |-> "idle"]
  /\ req = [r \in Requests |-> NoRequest]
  /\ accepted = {}
  /\ reached = [c \in Requests |-> {}]

-----------------------------------------------------------------------------
(* sendOtp, sendMagicLink, sendVerificationEmail                           *)

\* Mutant: the codes of every purpose are retired.
RevokeEveryPurpose(p) ==
  rows' = [c \in Requests |-> [rows[c] EXCEPT !.consumed = @ \/ Stored(c)]]

\* Mutant: codes that were tried already are left alone.
RevokeUntriedOnly(p) ==
  rows' = [c \in Requests |->
             [rows[c] EXCEPT !.consumed = @ \/ (rows[c].purpose = p /\ rows[c].attempts = 0)]]

RevokeAllForTarget(p) ==
  rows' = [c \in Requests |-> [rows[c] EXCEPT !.consumed = @ \/ rows[c].purpose = p]]

SendStart(r, p) ==
  /\ Arrive(r, [NoRequest EXCEPT !.handler = "send", !.purpose = p,
                                 !.older = {c \in Requests : rows[c].purpose = p}],
            "create")
  /\ RevokeAllForTarget(p)
  /\ UNCHANGED <<now, created, mailed, history>>

CreateCode(r) ==
  /\ pc[r] = "create"
  /\ created' = created + 1
  /\ rows' = [rows EXCEPT ![r] =
                [NoRow EXCEPT !.purpose = req[r].purpose,
                              !.expiresAt = now + Life[req[r].purpose],
                              !.createdAt = created + 1]]
  /\ Goto(r, "mail")
  /\ UNCHANGED <<now, mailed, req, history>>

SendMail(r) ==
  /\ pc[r] = "mail"
  /\ mailed' = mailed \cup {r}
  /\ Goto(r, "sent")
  /\ UNCHANGED <<now, rows, created, req, history>>

-----------------------------------------------------------------------------
(* verifyOtp, with the secret of code g, or a wrong one if g is None.      *)

VerifyOtpExpired(r) ==
  /\ FindActive("login") = {}
  /\ Arrive(r, Verifying("otp", None), "denied")
  /\ UNCHANGED <<now, rows, created, mailed, history>>

\* Mutant: the attempts of the code are not looked at before it is compared.
CompareUnlimited(c, g) == IF c = g THEN "consume" ELSE "count"

Compare(c, g) ==
  IF rows[c].attempts >= MaxAttempts THEN "exhaust"
  ELSE IF c = g THEN "consume" ELSE "count"

VerifyOtpStart(r, g) ==
  \E c \in FindActive("login") :
    /\ Arrive(r, Verifying("otp", c), Compare(c, g))
    /\ UNCHANGED <<now, rows, created, mailed, history>>

IncrementAttempts(r) ==
  /\ pc[r] = "count"
  /\ rows' = [rows EXCEPT ![req[r].code].attempts = @ + 1]
  /\ reached' = IF rows'[req[r].code].attempts >= MaxAttempts
                THEN [reached EXCEPT ![req[r].code] = @ \cup {r}]
                ELSE reached
  /\ Goto(r, "recount")
  /\ UNCHANGED <<now, created, mailed, req, accepted>>

\* Mutant: only a verification that finds the code past its limit retires it.
RecountTooLate(r) ==
  /\ pc[r] = "recount"
  /\ Goto(r, IF rows[req[r].code].attempts > MaxAttempts THEN "exhaust" ELSE "denied")
  /\ UNCHANGED <<now, rows, created, mailed, req, history>>

Recount(r) ==
  /\ pc[r] = "recount"
  /\ Goto(r, IF rows[req[r].code].attempts >= MaxAttempts THEN "exhaust" ELSE "denied")
  /\ UNCHANGED <<now, rows, created, mailed, req, history>>

\* VerificationTokenRepository.consume, keyed by the id alone
ConsumeRow(c) == rows' = [rows EXCEPT ![c].consumed = TRUE]

Exhaust(r) ==
  /\ pc[r] = "exhaust"
  /\ ConsumeRow(req[r].code)
  /\ Goto(r, "denied")
  /\ UNCHANGED <<now, created, mailed, req, history>>

-----------------------------------------------------------------------------
(* verifyMagicLink, verifyEmailToken, with the secret of code c.           *)

\* Mutant: consumed_at is not part of the query.
LinkUnexpired(h, c) ==
  /\ Stored(c) /\ rows[c].expiresAt > now
  /\ h = "verifyEmail" => rows[c].purpose = "verify_email"

LinkValid(h, c) ==
  /\ Active(c)
  /\ h = "verifyEmail" => rows[c].purpose = "verify_email"

VerifyLinkExpired(r, h, c) ==
  /\ ~LinkValid(h, c)
  /\ Arrive(r, Verifying(h, None), "denied")
  /\ UNCHANGED <<now, rows, created, mailed, history>>

VerifyLinkStart(r, h, c) ==
  /\ LinkValid(h, c)
  /\ Arrive(r, Verifying(h, c), "consume")
  /\ UNCHANGED <<now, rows, created, mailed, history>>

\* Every verification that succeeds ends here.
Consume(r) ==
  /\ pc[r] = "consume"
  /\ ConsumeRow(req[r].code)
  /\ accepted' = accepted \cup {r}
  /\ Goto(r, "accepted")
  /\ UNCHANGED <<now, created, mailed, req, reached>>

-----------------------------------------------------------------------------
\* A rejected call to the database or the mail server, or a restart.
CallFails(r) ==
  /\ pc[r] \in InFlightPlaces
  /\ Goto(r, "failed")
  /\ UNCHANGED <<now, rows, created, mailed, req, history>>

Tick ==
  /\ now < MaxTime
  /\ now' = now + 1
  /\ UNCHANGED <<rows, created, mailed, pc, req, history>>

SendStep(r) ==
  \/ \E p \in Purposes : SendStart(r, p)
  \/ CreateCode(r)
  \/ SendMail(r)

VerifyStep(r) ==
  \/ VerifyOtpExpired(r)
  \/ \E g \in mailed \cup {None} : VerifyOtpStart(r, g)
  \/ IncrementAttempts(r)
  \/ Recount(r)
  \/ Exhaust(r)
  \/ \E h \in {"magicLink", "verifyEmail"}, c \in mailed :
       VerifyLinkExpired(r, h, c) \/ VerifyLinkStart(r, h, c)
  \/ Consume(r)

Next ==
  \/ \E r \in Requests : SendStep(r) \/ VerifyStep(r) \/ CallFails(r)
  \/ Tick

Spec == Init /\ [][Next]_vars

-----------------------------------------------------------------------------
(* Correctness.                                                            *)

TypeOK ==
  /\ now \in Nat \ {0}
  /\ rows \in [Requests -> Row]
  /\ created \in Nat
  /\ mailed \subseteq Requests
  /\ pc \in [Requests -> Places]
  /\ req \in [Requests -> Request]
  /\ accepted \subseteq Requests
  /\ reached \in [Requests -> SUBSET Requests]

AcceptedWith(c) == {r \in accepted : req[r].code = c}

(* A code at its limit of attempts is retired by whoever brings it there.  *)
(* Increment, second read and consumption are three statements, and any    *)
(* number of verifications may pass the limit between them: while the code *)
(* is not consumed, each that did is still on its way to consume it, or    *)
(* died on that way.                                                       *)
Retiring(c, r) == req[r].code = c /\ pc[r] \in {"recount", "exhaust", "failed"}

LimitRetires ==
  \A c \in Requests :
    rows[c].attempts >= MaxAttempts /\ ~rows[c].consumed =>
      reached[c] # {} /\ \A r \in reached[c] : Retiring(c, r)

(* A code is used, retired or expired for good: once that is so and no     *)
(* verification that found it active is still running, no request is       *)
(* accepted with it again, whichever endpoint it comes to.                 *)
Spent(c) ==
  /\ Stored(c)
  /\ ~Active(c)
  /\ \A r \in Requests : pc[r] = "consume" => req[r].code # c

SpentIsFinal ==
  [][\A c \in Requests : Spent(c) => Spent(c)' /\ AcceptedWith(c)' = AcceptedWith(c)]_vars

(* A numeric code that reached its limit of attempts is of no further use  *)
(* to verifyOtp, even when the verification that reached the limit died    *)
(* before it consumed the code.                                            *)
Exhausted(c) ==
  /\ rows[c].attempts >= MaxAttempts
  /\ \A r \in Requests : pc[r] = "consume" /\ req[r].handler = "otp" => req[r].code # c

ExhaustedIsFinal ==
  [][\A c \in Requests : Exhausted(c) =>
       /\ Exhausted(c)'
       /\ \A r \in accepted' \ accepted : req[r].handler = "otp" => req[r].code # c]_vars

(* A code is never lost: it is consumed only because it was accepted, or   *)
(* ran out of attempts, or a later send of the same purpose retired it.    *)
Explained(c) ==
  \/ AcceptedWith(c) # {}
  \/ rows[c].attempts >= MaxAttempts
  \/ \E r \in Requests : c \in req[r].older /\ req[r].purpose = rows[c].purpose

ConsumedForAReason == \A c \in Requests : rows[c].consumed => Explained(c)

(* Two codes of a purpose are active together only if their sends          *)
(* overlapped: neither was stored when the other's send began.             *)
ActiveTogetherOverlapped ==
  \A c, d \in Requests :
    Active(c) /\ Active(d) /\ rows[c].purpose = rows[d].purpose =>
      c \notin req[d].older

=============================================================================
