---------------------------- MODULE PasswordLogin ----------------------------
(***************************************************************************)
(* The password credential of one local identity in authentication/:       *)
(* AuthService.signIn and changePassword with PasswordCredentialRepository *)
(* and PasswordHasher.needsRehash.  Verification and hashing take long     *)
(* (Argon2), every statement is a transaction of its own, and the handlers *)
(* keep working on the row they read first: one action per awaited call.   *)
(*                                                                         *)
(* Each r in Requests is one HTTP request, served once; a sign-in r that   *)
(* succeeds creates session r.  What happens to refresh tokens and the     *)
(* deny-list is in Sessions, what a TOTP code is worth is in Mfa.          *)
(***************************************************************************)
EXTENDS Naturals

CONSTANTS
  Passwords,    \* plaintext passwords
  First,        \* the password the account was created with
  Requests,
  None,
  MayCall,      \* MayCall[r]: the handlers request r may be for
  MaxAttempts,  \* 5
  LockTime,     \* 15 minutes, in ticks
  StaleFirst,   \* the first hash was made with another algorithm than today's default
  MfaEnabled,   \* the user has a confirmed TOTP factor
  MaxTime       \* bound on the clock

ASSUME PasswordAssumption ==
  /\ First \in Passwords
  /\ None \notin Passwords \cup Requests
  /\ MayCall \in [Requests -> SUBSET {"signIn", "change"}]
  /\ MaxAttempts \in Nat \ {0}
  /\ LockTime \in Nat \ {0}
  /\ StaleFirst \in BOOLEAN /\ MfaEnabled \in BOOLEAN
  /\ MaxTime \in Nat

VARIABLES
  now,            \* the clock; starts at 1 so that 0 can mean NULL
  password,       \* what password_hash is the hash of
  stale,          \* hash_algorithm is not the default one
  changedAt,      \* password_changed_at
  failedAttempts,
  lockedUntil,    \* locked_until, 0 for NULL
  sessions,       \* sign-ins whose session row exists
  revoked,        \* ... and is revoked
  pc,
  req,
  overtaken       \* history: requests under way when the lock was last set

credential  == <<password, stale, changedAt, failedAttempts, lockedUntil>>
sessionRows == <<sessions, revoked>>
vars == <<now, credential, sessionRows, pc, req, overtaken>>

Request ==
  [guess    : Passwords \cup {None},     \* dto.password, dto.currentPassword
   next     : Passwords \cup {None},     \* dto.newPassword
   keep     : Requests \cup {None},      \* currentSessionId
   seen     : Passwords \cup {None},     \* the credential as read, ...
   outdated : BOOLEAN,                   \* ... and its algorithm
   counting : BOOLEAN]                   \* between its increment and the end of recordFailedAttempt

NoRequest ==
  [guess |-> None, next |-> None, keep |-> None, seen |-> None,
   outdated |-> FALSE, counting |-> FALSE]

SignInPlaces == {"verify", "count", "recount", "lock", "reset", "otp", "rehash",
                 "rehashOnly", "session"}
ChangePlaces == {"verifyCurrent", "update", "revokeOthers"}
Places       == SignInPlaces \cup ChangePlaces
                  \cup {"idle", "signedIn", "changed", "denied", "lockedOut", "failed"}

InFlight(r) == pc[r] \in SignInPlaces \cup ChangePlaces

Goto(r, place) == pc' = [pc EXCEPT ![r] = place]

Locked == lockedUntil > now

Init ==
  /\ now = 1
  /\ password = First
  /\ stale = StaleFirst
  /\ changedAt = 1
  /\ failedAttempts = 0
  /\ lockedUntil = 0
  /\ sessions = {}
  /\ revoked = {}
  /\ pc = [r \in Requests |-> "idle"]
  /\ req = [r \in Requests |-> NoRequest]
  /\ overtaken = {}

-----------------------------------------------------------------------------
(* AuthService.signIn                                                      *)

Arrive(r, kind, fields, place) ==
  /\ pc[r] = "idle"
  /\ kind \in MayCall[r]
  /\ req' = [req EXCEPT ![r] = fields]
  /\ Goto(r, place)

SignInLocked(r, g) ==
  /\ Locked
  /\ Arrive(r, "signIn", [NoRequest EXCEPT !.guess = g], "lockedOut")
  /\ UNCHANGED <<now, credential, sessionRows, overtaken>>

\* Mutant: the lock is taken for over one instant before it is.
SignInBeforeLockEnds(r, g) ==
  /\ lockedUntil <= now + 1
  /\ Arrive(r, "signIn",
            [NoRequest EXCEPT !.guess = g, !.seen = password, !.outdated = stale],
            "verify")
  /\ UNCHANGED <<now, credential, sessionRows, overtaken>>

SignInStart(r, g) ==
  /\ ~Locked
  /\ Arrive(r, "signIn",
            [NoRequest EXCEPT !.guess = g, !.seen = password, !.outdated = stale],
            "verify")
  /\ UNCHANGED <<now, credential, sessionRows, overtaken>>

\* PasswordHasherService.verify, with the hash that was read.
Matches(r) == req[r].guess = req[r].seen

\* Mutant: any guess passes.
AcceptAnyPassword(r) ==
  /\ pc[r] = "verify"
  /\ Goto(r, "reset")
  /\ UNCHANGED <<now, credential, sessionRows, req, overtaken>>

VerifyPassword(r) ==
  /\ pc[r] = "verify"
  /\ Goto(r, IF Matches(r) THEN "reset" ELSE "count")
  /\ UNCHANGED <<now, credential, sessionRows, req, overtaken>>

\* recordFailedAttempt: the increment, ...
CountFailure(r) ==
  /\ pc[r] = "count"
  /\ failedAttempts' = failedAttempts + 1
  /\ req' = [req EXCEPT ![r].counting = TRUE]
  /\ Goto(r, "recount")
  /\ UNCHANGED <<now, password, stale, changedAt, lockedUntil, sessionRows, overtaken>>

\* Mutant: the account is locked one failure late.
RecountTooLate(r) ==
  /\ pc[r] = "recount"
  /\ \/ failedAttempts > MaxAttempts /\ Goto(r, "lock") /\ UNCHANGED req
     \/ /\ failedAttempts <= MaxAttempts
        /\ Goto(r, "denied")
        /\ req' = [req EXCEPT ![r].counting = FALSE]
  /\ UNCHANGED <<now, credential, sessionRows, overtaken>>

\* ... the row read again, ...
Recount(r) ==
  /\ pc[r] = "recount"
  /\ \/ failedAttempts >= MaxAttempts /\ Goto(r, "lock") /\ UNCHANGED req
     \/ /\ failedAttempts < MaxAttempts
        /\ Goto(r, "denied")
        /\ req' = [req EXCEPT ![r].counting = FALSE]
  /\ UNCHANGED <<now, credential, sessionRows, overtaken>>

\* ... and the lock.
LockCredential(r) ==
  /\ pc[r] = "lock"
  /\ lockedUntil' = now + LockTime
  /\ overtaken' = {q \in Requests : InFlight(q)}
  /\ req' = [req EXCEPT ![r].counting = FALSE]
  /\ Goto(r, "lockedOut")
  /\ UNCHANGED <<now, password, stale, changedAt, failedAttempts, sessionRows>>

ClearFailures ==
  /\ failedAttempts' = 0
  /\ lockedUntil' = 0
  /\ UNCHANGED overtaken

\* PasswordHasher.needsRehash looks at the row that was read.
AfterPassword(r) == IF req[r].outdated THEN "rehash" ELSE "session"

ResetAttempts(r) ==
  /\ pc[r] = "reset"
  /\ ClearFailures
  /\ Goto(r, IF MfaEnabled THEN "otp" ELSE AfterPassword(r))
  /\ UNCHANGED <<now, password, stale, changedAt, sessionRows, req>>

\* The code is missing, wrong or right.
VerifyOtp(r) ==
  /\ pc[r] = "otp"
  /\ \/ Goto(r, "denied")
     \/ Goto(r, AfterPassword(r))
  /\ UNCHANGED <<now, credential, sessionRows, req, overtaken>>

\* PasswordCredentialRepository.updatePassword
StorePassword(p) ==
  /\ password' = p
  /\ stale' = FALSE
  /\ changedAt' = now
  /\ ClearFailures

Rehash(r) ==
  /\ pc[r] \in {"rehash", "rehashOnly"}
  /\ StorePassword(req[r].guess)
  /\ Goto(r, IF pc[r] = "rehash" THEN "session" ELSE "failed")
  /\ UNCHANGED <<now, sessionRows, req>>

\* The rehash is one of several promises of a Promise.all: when another of
\* them rejects the sign-in fails, and the rehash goes on.
RehashSiblingFails(r) ==
  /\ pc[r] = "rehash"
  /\ Goto(r, "rehashOnly")
  /\ UNCHANGED <<now, credential, sessionRows, req, overtaken>>

CreateSession(r) ==
  /\ pc[r] = "session"
  /\ sessions' = sessions \cup {r}
  /\ Goto(r, "signedIn")
  /\ UNCHANGED <<now, credential, revoked, req, overtaken>>

-----------------------------------------------------------------------------
(* AuthService.changePassword, called with the session of a sign-in.       *)

ChangeStart(r, keep, g, next) ==
  /\ pc[keep] = "signedIn"
  /\ g # next
  /\ Arrive(r, "change",
            [NoRequest EXCEPT !.guess = g, !.next = next, !.keep = keep, !.seen = password],
            "verifyCurrent")
  /\ UNCHANGED <<now, credential, sessionRows, overtaken>>

\* A wrong current password is not counted.
VerifyCurrent(r) ==
  /\ pc[r] = "verifyCurrent"
  /\ Goto(r, IF Matches(r) THEN "update" ELSE "denied")
  /\ UNCHANGED <<now, credential, sessionRows, req, overtaken>>

UpdatePassword(r) ==
  /\ pc[r] = "update"
  /\ StorePassword(req[r].next)
  /\ Goto(r, "revokeOthers")
  /\ UNCHANGED <<now, sessionRows, req>>

RevokeOthers(r) ==
  /\ pc[r] = "revokeOthers"
  /\ revoked' = revoked \cup (sessions \ {req[r].keep})
  /\ Goto(r, "changed")
  /\ UNCHANGED <<now, credential, sessions, req, overtaken>>

-----------------------------------------------------------------------------
\* A rejected database call, or a restart of the process, ends the handler.
CallFails(r) ==
  /\ InFlight(r)
  /\ Goto(r, "failed")
  /\ UNCHANGED <<now, credential, sessionRows, req, overtaken>>

Tick ==
  /\ now < MaxTime
  /\ now' = now + 1
  /\ UNCHANGED <<credential, sessionRows, pc, req, overtaken>>

SignInStep(r) ==
  \/ \E g \in Passwords : SignInLocked(r, g)
  \/ \E g \in Passwords : SignInStart(r, g)
  \/ VerifyPassword(r)
  \/ CountFailure(r)
  \/ Recount(r)
  \/ LockCredential(r)
  \/ ResetAttempts(r)
  \/ VerifyOtp(r)
  \/ Rehash(r)
  \/ RehashSiblingFails(r)
  \/ CreateSession(r)

ChangeStep(r) ==
  \/ \E keep \in Requests, g, next \in Passwords : ChangeStart(r, keep, g, next)
  \/ VerifyCurrent(r)
  \/ UpdatePassword(r)
  \/ RevokeOthers(r)

Next ==
  \/ \E r \in Requests : SignInStep(r) \/ ChangeStep(r) \/ CallFails(r)
  \/ Tick

Spec == Init /\ [][Next]_vars

-----------------------------------------------------------------------------
(* Correctness.                                                            *)

TypeOK ==
  /\ now \in Nat \ {0}
  /\ password \in Passwords
  /\ stale \in BOOLEAN
  /\ changedAt \in Nat
  /\ failedAttempts \in Nat
  /\ lockedUntil \in Nat
  /\ sessions \subseteq Requests
  /\ revoked \subseteq Requests
  /\ pc \in [Requests -> Places]
  /\ req \in [Requests -> Request]
  /\ overtaken \subseteq Requests

(* The threshold is never passed unnoticed: once it is reached the lock is *)
(* set, or is being set by a request that counted its own failure, or that *)
(* request died on the way.                                                *)
ThresholdLocks ==
  failedAttempts >= MaxAttempts =>
    lockedUntil # 0 \/ \E r \in Requests : req[r].counting

(* While a lock is in force it opens no session and stays for its time,    *)
(* except for requests that go by what they read before: a sign-in that    *)
(* was under way when the lock was set, and knew the password, signs in    *)
(* and lifts the lock.  changePassword does not ask for a lock and lifts   *)
(* it, too.                                                                *)
LockoutHolds ==
  [][Locked =>
       /\ sessions' \ sessions \subseteq overtaken
       /\ lockedUntil' < lockedUntil =>
            \E r \in Requests :
              /\ pc[r] # pc'[r] /\ Matches(r)
              /\ \/ pc[r] \in {"reset", "rehash", "rehashOnly"} /\ r \in overtaken
                 \/ pc[r] = "update"]_vars

(* p is dead when it is not the password and no request that read it is    *)
(* still running.                                                          *)
Dead(p) ==
  /\ password # p
  /\ \A r \in Requests : InFlight(r) => req[r].seen # p

SessionsWith(p) == {s \in sessions : req[s].guess = p}

(* A dead password opens no further session, neither by sign-in nor by the *)
(* rehash of an old sign-in, until changePassword chooses it again.        *)
DeadPasswordsStayDead ==
  [][\A p \in Passwords : Dead(p) =>
       /\ SessionsWith(p)' = SessionsWith(p)
       /\ Dead(p)' \/ \E r \in Requests : pc[r] = "update" /\ req[r].next = p]_vars

=============================================================================
