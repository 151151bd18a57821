---------------------------- MODULE AuthUseCases ----------------------------
(***************************************************************************)
(* The use cases of backend-auth/ (Java) for one email address: register,  *)
(* verify and login, over the aggregate User.  A use case reads the        *)
(* aggregate, changes its copy and saves the whole of it; its ports are    *)
(* interfaces only, so that each call is one action, saves are upserts of  *)
(* a row without a version, and any call may throw.                        *)
(*                                                                         *)
(* Each q in Runs is one run of a use case; time is one clock, as          *)
(* Instant.now().                                                          *)
(***************************************************************************)
EXTENDS Integers, FiniteSets

CONSTANTS
  Runs,
  MayRun,       \* MayRun[q]: the calls q may be for
  MaxFailures,  \* 5 in User.recordLoginFailure
  LockFor,      \* 15 minutes there
  LastInstant   \* bound: the clock stops here

Calls == {"register", "verify", "login-good", "login-bad"}

ASSUME AuthUseCasesAssumption ==
  /\ MayRun \in [Runs -> SUBSET Calls]
  /\ MaxFailures \in Nat \ {0}
  /\ LockFor \in Nat \ {0}
  /\ LastInstant \in Nat

VARIABLES
  clock,
  user,        \* the row of the address
  token,       \* its verification token
  events,      \* the domain events published
  run,         \* of each call
  misses, lost \* history: failures saved since the last success; a stale save

useCaseVars == <<clock, user, token, events, run, misses, lost>>

User ==
  [status   : {"none", "PENDING", "ACTIVE", "LOCKED"},  \* none: no row
   verified : BOOLEAN,  \* emailVerifiedAt is set
   failed   : Nat,      \* failedAttempts
   until    : Nat]      \* lockUntil, 0 for null

NoUser  == [status |-> "none", verified |-> FALSE, failed |-> 0, until |-> 0]
NewUser == [NoUser EXCEPT !.status = "PENDING"]

Run ==
  [pc    : {"idle", "save", "issue-token", "publish", "mail", "audit", "find", "issue",
            "done", "refused", "failed"},
   call  : Calls \cup {"none"},
   copy  : User,      \* the aggregate it has read
   stale : BOOLEAN]   \* history: another call has saved since

NoRun == [pc |-> "idle", call |-> "none", copy |-> NoUser, stale |-> FALSE]

UseCaseInit ==
  /\ clock = 0
  /\ user = NoUser
  /\ token = "none"
  /\ events = {}
  /\ run = [q \in Runs |-> NoRun]
  /\ misses = 0
  /\ lost = FALSE

LockHolds(u) == u.status = "LOCKED" /\ clock < u.until

To(q, pc) == run' = [run EXCEPT ![q].pc = pc]

\* q saves u over the row; whoever holds another copy now holds a stale one.
Save(q, u, pc) ==
  /\ user' = u
  /\ lost' = (lost \/ run[q].stale)
  /\ run' = [p \in Runs |->
               IF p = q THEN [run[q] EXCEPT !.pc = pc, !.copy = u]
               ELSE [run[p] EXCEPT !.stale = @ \/ (run[p].copy # NoUser /\ run[p].pc = "save")]]

-----------------------------------------------------------------------------
\* Mutant: the lock comes one failure late.
FailureLate(u) ==
  IF u.failed + 1 > MaxFailures
  THEN [u EXCEPT !.failed = @ + 1, !.status = "LOCKED", !.until = clock + LockFor]
  ELSE [u EXCEPT !.failed = @ + 1]

\* User: what the aggregate makes of its copy.
Failure(u) ==
  IF u.failed + 1 >= MaxFailures
  THEN [u EXCEPT !.failed = @ + 1, !.status = "LOCKED", !.until = clock + LockFor]
  ELSE [u EXCEPT !.failed = @ + 1]

\* lockUntil is cleared before it is looked at: any locked copy unlocks.
Success(u) ==
  [u EXCEPT !.failed = 0, !.until = 0,
            !.status = IF @ # "LOCKED" THEN @ ELSE IF u.verified THEN "ACTIVE" ELSE "PENDING"]

\* Mutant: emailVerifiedAt is not set.
VerifiedUnset(u) == [u EXCEPT !.status = "ACTIVE"]

Verified(u) == [u EXCEPT !.status = "ACTIVE", !.verified = TRUE]

-----------------------------------------------------------------------------
InstantPasses ==
  /\ clock < LastInstant
  /\ clock' = clock + 1
  /\ UNCHANGED <<user, token, events, run, misses, lost>>

\* RegisterUseCase: existsByEmail.
Register(q) ==
  /\ run[q].pc = "idle"
  /\ "register" \in MayRun[q]
  /\ run' = [run EXCEPT ![q].call = "register",
                        ![q].pc = IF user # NoUser THEN "refused" ELSE "save"]
  /\ UNCHANGED <<clock, user, token, events, misses, lost>>

\* save: the unique index refuses the second of two.
SaveNew(q) ==
  /\ run[q].pc = "save" /\ run[q].call = "register"
  /\ IF user # NoUser THEN To(q, "failed") /\ UNCHANGED <<user, lost>>
     ELSE Save(q, NewUser, "issue-token")
  /\ UNCHANGED <<clock, token, events, misses>>

IssueVerifyToken(q) ==
  /\ run[q].pc = "issue-token"
  /\ token' = "issued"
  /\ To(q, "publish")
  /\ UNCHANGED <<clock, user, events, misses, lost>>

PublishRegistered(q) ==
  /\ run[q].pc = "publish" /\ run[q].call = "register"
  /\ events' = events \cup {"user.registered"}
  /\ To(q, "mail")
  /\ UNCHANGED <<clock, user, token, misses, lost>>

\* sendMail: the token is in the user's hands, unless it expired already.
SendMail(q) ==
  /\ run[q].pc = "mail"
  /\ token' = IF token = "issued" THEN "mailed" ELSE token
  /\ To(q, "audit")
  /\ UNCHANGED <<clock, user, events, misses, lost>>

SendAudit(q) ==
  /\ run[q].pc = "audit"
  /\ To(q, "done")
  /\ UNCHANGED <<clock, user, token, events, misses, lost>>

ExpireToken ==
  /\ token \in {"issued", "mailed"}
  /\ token' = "expired"
  /\ UNCHANGED <<clock, user, events, run, misses, lost>>

\* VerifyUseCase: consumeVerifyToken, of a token the user has.
Verify(q) ==
  /\ run[q].pc = "idle"
  /\ "verify" \in MayRun[q]
  /\ token \in {"mailed", "consumed", "expired"}
  /\ token' = IF token = "mailed" THEN "consumed" ELSE token
  /\ run' = [run EXCEPT ![q].call = "verify",
                        ![q].pc = IF token = "mailed" THEN "find" ELSE "refused"]
  /\ UNCHANGED <<clock, user, events, misses, lost>>

FindById(q) ==
  /\ run[q].pc = "find"
  /\ run' = [run EXCEPT ![q].pc = "save", ![q].copy = user]
  /\ UNCHANGED <<clock, user, token, events, misses, lost>>

\* verify and save: a copy verified already, or locked, throws.
SaveVerified(q) ==
  LET u == run[q].copy
  IN /\ run[q].pc = "save" /\ run[q].call = "verify"
     /\ IF (u.status = "ACTIVE" /\ u.verified) \/ LockHolds(u)
        THEN To(q, "refused") /\ UNCHANGED <<user, lost>>
        ELSE Save(q, Verified(u), "publish")
     /\ UNCHANGED <<clock, token, events, misses>>

PublishVerified(q) ==
  /\ run[q].pc = "publish" /\ run[q].call = "verify"
  /\ events' = events \cup {"user.verified"}
  /\ To(q, "done")
  /\ UNCHANGED <<clock, user, token, misses, lost>>

\* LoginUseCase: findByEmail.
Login(q) ==
  /\ run[q].pc = "idle"
  /\ \E c \in MayRun[q] \cap {"login-good", "login-bad"} :
       run' = [run EXCEPT ![q].call = c, ![q].copy = user,
                          ![q].pc = IF user = NoUser THEN "refused" ELSE "save"]
  /\ UNCHANGED <<clock, user, token, events, misses, lost>>

\* A wrong password, whether or not the account is locked.
SaveFailure(q) ==
  /\ run[q].pc = "save" /\ run[q].call = "login-bad"
  /\ Save(q, Failure(run[q].copy), "publish")
  /\ misses' = misses + 1
  /\ UNCHANGED <<clock, token, events>>

PublishFailed(q) ==
  /\ run[q].pc = "publish" /\ run[q].call = "login-bad"
  /\ events' = events \cup {"user.login_failed"}
  /\ To(q, "refused")
  /\ UNCHANGED <<clock, user, token, misses, lost>>

\* Mutant: the lock is not looked at.
SaveSuccessUnlocked(q) ==
  /\ run[q].pc = "save" /\ run[q].call = "login-good"
  /\ IF run[q].copy.status = "PENDING"
     THEN To(q, "refused") /\ UNCHANGED <<user, misses, lost>>
     ELSE Save(q, Success(run[q].copy), "issue") /\ misses' = 0
  /\ UNCHANGED <<clock, token, events>>

\* The right password: a locked or pending copy throws.
SaveSuccess(q) ==
  LET u == run[q].copy
  IN /\ run[q].pc = "save" /\ run[q].call = "login-good"
     /\ IF LockHolds(u) \/ u.status = "PENDING"
        THEN To(q, "refused") /\ UNCHANGED <<user, misses, lost>>
        ELSE Save(q, Success(u), "issue") /\ misses' = 0
     /\ UNCHANGED <<clock, token, events>>

\* issueAccess and issueRefresh.
IssueTokens(q) ==
  /\ run[q].pc = "issue"
  /\ To(q, "done")
  /\ UNCHANGED <<clock, user, token, events, misses, lost>>

\* A port throws, and what was done before stays.
PortThrows(q) ==
  /\ run[q].pc \notin {"idle", "done", "refused", "failed"}
  /\ To(q, "failed")
  /\ UNCHANGED <<clock, user, token, events, misses, lost>>

UseCaseNext ==
  \/ InstantPasses \/ ExpireToken
  \/ \E q \in Runs :
       \/ Register(q) \/ SaveNew(q) \/ IssueVerifyToken(q) \/ PublishRegistered(q)
       \/ SendMail(q) \/ SendAudit(q)
       \/ Verify(q) \/ FindById(q) \/ SaveVerified(q) \/ PublishVerified(q)
       \/ Login(q) \/ SaveFailure(q) \/ PublishFailed(q) \/ SaveSuccess(q) \/ IssueTokens(q)
       \/ PortThrows(q)

UseCaseSpec == UseCaseInit /\ [][UseCaseNext]_useCaseVars

-----------------------------------------------------------------------------
(* Correctness.                                                            *)

UseCaseTypeOK ==
  /\ clock \in 0..LastInstant
  /\ user \in User
  /\ token \in {"none", "issued", "mailed", "consumed", "expired"}
  /\ events \subseteq {"user.registered", "user.verified", "user.login_failed"}
  /\ run \in [Runs -> Run]
  /\ misses \in Nat
  /\ lost \in BOOLEAN

(* A lock ends before its time, and a verification is undone, only by the  *)
(* save of a copy that was read before: what a call reads and saves with   *)
(* nobody in between never does it.                                        *)
OnlyStaleSavesUndo ==
  [][\/ LockHolds(user) /\ ~(user'.status = "LOCKED" /\ user'.until >= user.until)
     \/ user.verified /\ ~user'.verified
     => \E q \in Runs : run[q].stale /\ run'[q].pc # run[q].pc]_useCaseVars

(* As long as no stale copy was saved, the row counts every failure since  *)
(* the last success, and at MaxFailures the account is locked or the user  *)
(* has verified the address once the lock was over.                        *)
FailuresCounted ==
  ~lost => /\ user.failed = misses
           /\ misses >= MaxFailures => user.status = "LOCKED" \/ user.verified

(* Nothing issues a second token: an unverified account is stuck with none *)
(* to present only if the first one expired, a call failed on the way, the *)
(* account was locked when it was presented, or a stale save undid it.     *)
StuckExplained ==
  user # NoUser /\ ~user.verified /\ token \notin {"issued", "mailed"}
    => \/ token = "expired" \/ lost
       \/ \E q \in Runs :
            /\ run[q].call \in {"register", "verify"}
            /\ \/ run[q].pc \notin {"idle", "done", "refused"}
               \/ run[q].call = "verify" /\ run[q].pc = "refused" /\ run[q].copy.status = "LOCKED"

-----------------------------------------------------------------------------
(* The inductive invariant.                                                *)

\* A row or a copy of one: no lock reaches further than one from now.
RowOK(u) ==
  /\ u.status = "none" => u = NoUser
  /\ u.until <= clock + LockFor

\* What a request holds is the row until somebody else saves, and who once
\* read a verified address still would, but for a stale save.
RunOK(r) ==
  /\ RowOK(r.copy)
  /\ r.copy.verified => user.verified \/ lost
  /\ r.pc \in {"find", "issue-token"} => user # NoUser
  /\ r.pc = "save" /\ r.call # "register" =>
       user # NoUser /\ r.copy # NoUser /\ (r.stale \/ r.copy = user)

\* Whoever answers for a user without a token, and for a token consumed in vain.
Registers(r) == r.call = "register" /\ r.pc \in {"issue-token", "failed"}
Presents(r) ==
  /\ r.call = "verify"
  /\ \/ r.pc \in {"find", "save", "failed"}
     \/ r.pc = "refused" /\ r.copy.status = "LOCKED"

TokenOK ==
  /\ token # "none" => user # NoUser
  /\ user # NoUser /\ token = "none" => \E q \in Runs : Registers(run[q])
  /\ token = "consumed" => user.verified \/ lost \/ \E q \in Runs : Presents(run[q])

UseCaseInv ==
  /\ UseCaseTypeOK
  /\ RowOK(user)
  /\ user = NoUser => misses = 0
  /\ FailuresCounted
  /\ TokenOK
  /\ \A q \in Runs : RunOK(run[q])

-----------------------------------------------------------------------------
(* What the documentation says, and the code does not do.                  *)

(* "chua verify -> 422" (AUTH_REQUEST_RESPONSE.md:80): tokens are issued   *)
(* to verified users only.                                                 *)
UnverifiedRefused ==
  \A q \in Runs :
    run[q].call = "login-good" /\ run[q].pc = "done" => run[q].copy.verified

=============================================================================
