----------------------------- MODULE LoginProofs -----------------------------
(***************************************************************************)
(* Proofs about PasswordLogin, for any passwords, requests, threshold and  *)
(* lock time; and about AuthUseCases, the sign-in of backend-auth, which   *)
(* shares no state with it.                                                *)
(***************************************************************************)
EXTENDS PasswordLogin, AuthUseCases, TLAPS

(***************************************************************************)
(* The inductive invariant: what a request carries at each place.          *)
(***************************************************************************)
RequestInv(r) ==
  /\ pc[r] \in SignInPlaces => req[r].guess \in Passwords
  /\ pc[r] \in ChangePlaces => req[r].next \in Passwords
  /\ pc[r] \in SignInPlaces \ {"verify", "count", "recount", "lock"} =>
       req[r].guess = req[r].seen
  /\ pc[r] \in {"update", "revokeOthers"} => req[r].guess = req[r].seen
  /\ pc[r] \in {"recount", "lock"} => req[r].counting
  /\ pc[r] = "idle" => ~req[r].counting /\ r \notin sessions
  /\ pc[r] \in SignInPlaces => r \notin sessions

LoginInv == TypeOK /\ ThresholdLocks /\ \A r \in Requests : RequestInv(r)

(* The initial state satisfies it.                                         *)
LEMMA LoginInit == Init => LoginInv
  BY PasswordAssumption
  DEF PasswordAssumption, Init, LoginInv, TypeOK, ThresholdLocks, RequestInv, NoRequest, Request,
      Places, SignInPlaces, ChangePlaces

(* An arriving request leaves req and pc well typed.                       *)
LEMMA ArriveType ==
  ASSUME TypeOK, NEW r \in Requests, NEW k, NEW fields \in Request, NEW place \in Places,
         Arrive(r, k, fields, place)
  PROVE  /\ pc' \in [Requests -> Places]
         /\ req' \in [Requests -> Request]
  BY DEF Arrive, Goto, TypeOK

(* A step of a sign-in preserves the invariant.                            *)
LEMMA SignInPreserves ==
  ASSUME LoginInv, NEW r \in Requests, SignInStep(r)
  PROVE  LoginInv'
<1> USE PasswordAssumption DEF PasswordAssumption
<1> TypeOK /\ ThresholdLocks /\ \A q \in Requests : RequestInv(q)
  BY DEF LoginInv
<1>p. Places = {"idle", "verify", "count", "recount", "lock", "reset", "otp", "rehash",
        "rehashOnly", "session", "verifyCurrent", "update", "revokeOthers", "signedIn",
        "changed", "denied", "lockedOut", "failed"}
  BY DEF Places, SignInPlaces, ChangePlaces
<1>r. /\ req[r] \in Request
      /\ [req[r] EXCEPT !.counting = TRUE] \in Request
      /\ [req[r] EXCEPT !.counting = FALSE] \in Request
  <2>1. req[r] \in Request
    BY DEF TypeOK
  <2>2. QED BY <2>1 DEF Request
<1> USE DEF Goto, TypeOK, RequestInv, ThresholdLocks, SignInPlaces, ChangePlaces, credential,
        sessionRows
<1>1. ASSUME NEW g \in Passwords, SignInLocked(r, g) PROVE LoginInv'
  <2>1. [NoRequest EXCEPT !.guess = g] \in Request
    BY DEF NoRequest, Request
  <2>2. TypeOK'
    BY <1>1, <1>p, <2>1, ArriveType DEF SignInLocked
  <2>3. (ThresholdLocks /\ \A q \in Requests : RequestInv(q))'
    BY <1>1 DEF SignInLocked, Arrive, NoRequest
  <2>4. QED BY <2>2, <2>3 DEF LoginInv
<1>2. ASSUME NEW g \in Passwords, SignInStart(r, g) PROVE LoginInv'
  <2>1. [NoRequest EXCEPT !.guess = g, !.seen = password, !.outdated = stale]
          \in Request
    BY DEF NoRequest, Request
  <2>2. TypeOK'
    BY <1>2, <1>p, <2>1, ArriveType DEF SignInStart
  <2>3. (ThresholdLocks /\ \A q \in Requests : RequestInv(q))'
    BY <1>2 DEF SignInStart, Arrive, NoRequest
  <2>4. QED BY <2>2, <2>3 DEF LoginInv
<1>3. ASSUME VerifyPassword(r) PROVE LoginInv'
  BY <1>3, <1>p DEF VerifyPassword, Matches, LoginInv
<1>4. ASSUME CountFailure(r) PROVE LoginInv'
  <2>1. TypeOK'
    BY <1>4, <1>p, <1>r DEF CountFailure
  <2>2. (ThresholdLocks /\ \A q \in Requests : RequestInv(q))'
    BY <1>4, <1>r DEF CountFailure, Request
  <2>3. QED BY <2>1, <2>2 DEF LoginInv
<1>5. ASSUME Recount(r) PROVE LoginInv'
  <2>1. CASE failedAttempts >= MaxAttempts
    BY <1>5, <2>1, <1>p DEF Recount, LoginInv
  <2>2. CASE failedAttempts < MaxAttempts
    <3>1. /\ pc[r] = "recount" /\ pc' = [pc EXCEPT ![r] = "denied"]
          /\ req' = [req EXCEPT ![r].counting = FALSE]
          /\ UNCHANGED <<now, credential, sessionRows, overtaken>>
      BY <1>5, <2>2 DEF Recount
    <3>2. TypeOK'
      BY <3>1, <1>p, <1>r
    <3>3. (ThresholdLocks /\ \A q \in Requests : RequestInv(q))'
      BY <3>1, <2>2, <1>r DEF Request
    <3>4. QED BY <3>2, <3>3 DEF LoginInv
  <2>3. QED BY <2>1, <2>2
<1>6. ASSUME LockCredential(r) PROVE LoginInv'
  <2>1. TypeOK'
    BY <1>6, <1>p, <1>r DEF LockCredential
  <2>2. (ThresholdLocks /\ \A q \in Requests : RequestInv(q))'
    BY <1>6, <1>r DEF LockCredential, Request
  <2>3. QED BY <2>1, <2>2 DEF LoginInv
<1>7. ASSUME ResetAttempts(r) PROVE LoginInv'
  BY <1>7, <1>p DEF ResetAttempts, ClearFailures, AfterPassword, LoginInv
<1>8. ASSUME VerifyOtp(r) PROVE LoginInv'
  BY <1>8, <1>p DEF VerifyOtp, AfterPassword, LoginInv
<1>9. ASSUME Rehash(r) PROVE LoginInv'
  <2>1. TypeOK'
    <3>1. stale' \in BOOLEAN
      BY <1>9 DEF Rehash, StorePassword
    <3>2. QED
      BY <1>9, <1>p, <3>1 DEF Rehash, StorePassword, ClearFailures
  <2>2. (ThresholdLocks /\ \A q \in Requests : RequestInv(q))'
    BY <1>9, <1>p DEF Rehash, StorePassword, ClearFailures
  <2>3. QED BY <2>1, <2>2 DEF LoginInv
<1>10. ASSUME RehashSiblingFails(r) PROVE LoginInv'
  BY <1>10, <1>p DEF RehashSiblingFails, LoginInv
<1>11. ASSUME CreateSession(r) PROVE LoginInv'
  BY <1>11, <1>p DEF CreateSession, LoginInv
<1>12. QED
  BY <1>1, <1>2, <1>3, <1>4, <1>5, <1>6, <1>7, <1>8, <1>9, <1>10, <1>11 DEF SignInStep

(* A step of a password change preserves the invariant.                    *)
LEMMA ChangePreserves ==
  ASSUME LoginInv, NEW r \in Requests, ChangeStep(r)
  PROVE  LoginInv'
<1> USE PasswordAssumption DEF PasswordAssumption
<1> TypeOK /\ ThresholdLocks /\ \A q \in Requests : RequestInv(q)
  BY DEF LoginInv
<1>p. {"verifyCurrent", "update", "revokeOthers", "changed", "denied"} \subseteq Places
  BY DEF Places, ChangePlaces
<1> USE DEF Goto, TypeOK, RequestInv, ThresholdLocks, SignInPlaces, ChangePlaces, credential,
        sessionRows
<1>1. ASSUME NEW keep \in Requests, NEW g \in Passwords, NEW next \in Passwords,
             ChangeStart(r, keep, g, next)
      PROVE  LoginInv'
  <2>1. [NoRequest EXCEPT !.guess = g, !.next = next, !.keep = keep, !.seen = password]
          \in Request
    BY DEF NoRequest, Request
  <2>2. TypeOK'
    BY <1>1, <1>p, <2>1, ArriveType DEF ChangeStart
  <2>3. (ThresholdLocks /\ \A q \in Requests : RequestInv(q))'
    BY <1>1 DEF ChangeStart, Arrive, NoRequest
  <2>4. QED BY <2>2, <2>3 DEF LoginInv
<1>2. ASSUME VerifyCurrent(r) PROVE LoginInv'
  BY <1>2, <1>p DEF VerifyCurrent, Matches, LoginInv
<1>3. ASSUME UpdatePassword(r) PROVE LoginInv'
  <2>1. TypeOK'
    <3>1. stale' \in BOOLEAN
      BY <1>3 DEF UpdatePassword, StorePassword
    <3>2. QED
      BY <1>3, <1>p, <3>1 DEF UpdatePassword, StorePassword, ClearFailures
  <2>2. (ThresholdLocks /\ \A q \in Requests : RequestInv(q))'
    BY <1>3, <1>p DEF UpdatePassword, StorePassword, ClearFailures
  <2>3. QED BY <2>1, <2>2 DEF LoginInv
<1>4. ASSUME RevokeOthers(r) PROVE LoginInv'
  BY <1>4, <1>p DEF RevokeOthers, LoginInv
<1>5. QED
  BY <1>1, <1>2, <1>3, <1>4 DEF ChangeStep

(* So does every step.                                                     *)
LEMMA LoginStep == LoginInv /\ [Next]_vars => LoginInv'
<1> SUFFICES ASSUME LoginInv, [Next]_vars PROVE LoginInv'
  OBVIOUS
<1>1. ASSUME NEW r \in Requests, CallFails(r) PROVE LoginInv'
  BY <1>1 DEF CallFails, Goto, InFlight, LoginInv, TypeOK, RequestInv, ThresholdLocks, Places,
     SignInPlaces, ChangePlaces, credential, sessionRows
<1>2. CASE Tick
  BY <1>2 DEF Tick, LoginInv, TypeOK, RequestInv, ThresholdLocks, credential, sessionRows
<1>3. CASE UNCHANGED vars
  BY <1>3 DEF vars, LoginInv, TypeOK, RequestInv, ThresholdLocks, credential, sessionRows
<1>4. QED
  BY <1>1, <1>2, <1>3, SignInPreserves, ChangePreserves DEF Next

(* LoginInv holds throughout.                                              *)
LEMMA LoginAlways == Spec => []LoginInv
  BY LoginInit, LoginStep, PTL DEF Spec

(* The state is always well typed.                                         *)
THEOREM LoginTypeCorrect == Spec => []TypeOK
<1>1. LoginInv => TypeOK
  BY DEF LoginInv
<1>2. QED
  BY <1>1, LoginAlways, PTL

(* A counter at or past the threshold means that the lock is set, or that  *)
(* a request that counted its failure has it still to set or died before.  *)
THEOREM ThresholdAlwaysLocks == Spec => []ThresholdLocks
<1>1. LoginInv => ThresholdLocks
  BY DEF LoginInv
<1>2. QED
  BY <1>1, LoginAlways, PTL

(***************************************************************************)
(* Dead passwords.                                                         *)
(***************************************************************************)
DeadStep ==
  \A p \in Passwords : Dead(p) =>
    /\ SessionsWith(p)' = SessionsWith(p)
    /\ Dead(p)' \/ \E r \in Requests : pc[r] = "update" /\ req[r].next = p

(* A sign-in writes only the password it read and proved.                  *)
LEMMA SignInKeepsDead ==
  ASSUME LoginInv, NEW r \in Requests, SignInStep(r)
  PROVE  DeadStep
<1> SUFFICES ASSUME NEW p \in Passwords, Dead(p)
             PROVE  SessionsWith(p)' = SessionsWith(p) /\ Dead(p)'
  BY DEF DeadStep
<1> TypeOK /\ RequestInv(r)
  BY DEF LoginInv
<1>r. req \in [Requests -> Request] /\ pc \in [Requests -> Places] /\ sessions \subseteq Requests
  BY DEF TypeOK
<1>d. InFlight(r) => req[r].seen # p
  BY DEF Dead
<1> USE <1>r, <1>d DEF Arrive, NoRequest, RequestInv, Request, Goto, InFlight, SignInPlaces,
        ChangePlaces, credential, sessionRows, Dead, SessionsWith
<1>1. ASSUME NEW g \in Passwords, SignInLocked(r, g)
      PROVE  SessionsWith(p)' = SessionsWith(p) /\ Dead(p)'
  BY <1>1 DEF SignInLocked
<1>2. ASSUME NEW g \in Passwords, SignInStart(r, g)
      PROVE  SessionsWith(p)' = SessionsWith(p) /\ Dead(p)'
  BY <1>2 DEF SignInStart
<1>3. CASE VerifyPassword(r)
  BY <1>3 DEF VerifyPassword, Matches
<1>4. CASE CountFailure(r)
  BY <1>4 DEF CountFailure
<1>5. CASE Recount(r)
  BY <1>5 DEF Recount
<1>6. CASE LockCredential(r)
  BY <1>6 DEF LockCredential
<1>7. CASE ResetAttempts(r)
  BY <1>7 DEF ResetAttempts, AfterPassword
<1>8. CASE VerifyOtp(r)
  BY <1>8 DEF VerifyOtp, AfterPassword
<1>9. CASE Rehash(r)
  BY <1>9 DEF Rehash, StorePassword
<1>10. CASE RehashSiblingFails(r)
  BY <1>10 DEF RehashSiblingFails
<1>11. CASE CreateSession(r)
  BY <1>11 DEF CreateSession
<1>12. QED
  BY <1>1, <1>2, <1>3, <1>4, <1>5, <1>6, <1>7, <1>8, <1>9, <1>10, <1>11 DEF SignInStep

(* A password change revives no password but the one it was asked for.     *)
LEMMA ChangeKeepsDead ==
  ASSUME LoginInv, NEW r \in Requests, ChangeStep(r)
  PROVE  DeadStep
<1> SUFFICES ASSUME NEW p \in Passwords, Dead(p)
             PROVE  /\ SessionsWith(p)' = SessionsWith(p)
                    /\ Dead(p)' \/ (pc[r] = "update" /\ req[r].next = p)
  BY DEF DeadStep
<1> TypeOK /\ RequestInv(r)
  BY DEF LoginInv
<1>r. req \in [Requests -> Request] /\ pc \in [Requests -> Places] /\ sessions \subseteq Requests
  BY DEF TypeOK
<1> USE <1>r DEF Arrive, NoRequest, RequestInv, Request, Goto, InFlight, SignInPlaces,
        ChangePlaces, credential, sessionRows, Dead, SessionsWith
<1>1. ASSUME NEW keep \in Requests, NEW g \in Passwords, NEW next \in Passwords,
             ChangeStart(r, keep, g, next)
      PROVE  SessionsWith(p)' = SessionsWith(p) /\ Dead(p)'
  BY <1>1 DEF ChangeStart
<1>2. CASE VerifyCurrent(r)
  BY <1>2 DEF VerifyCurrent, Matches
<1>3. CASE UpdatePassword(r)
  BY <1>3 DEF UpdatePassword, StorePassword
<1>4. CASE RevokeOthers(r)
  BY <1>4 DEF RevokeOthers
<1>5. QED
  BY <1>1, <1>2, <1>3, <1>4 DEF ChangeStep

(* Once no running request has read it any more, a password that was       *)
(* replaced opens no session again unless changePassword chooses it again. *)
THEOREM DeadPasswords == Spec => DeadPasswordsStayDead
<1>1. LoginInv /\ [Next]_vars => [DeadStep]_vars
  <2> SUFFICES ASSUME LoginInv, Next PROVE DeadStep
    OBVIOUS
  <2>1. ASSUME NEW r \in Requests, CallFails(r) PROVE DeadStep
    BY <2>1 DEF CallFails, Goto, InFlight, DeadStep, Dead, SessionsWith, LoginInv, TypeOK,
       SignInPlaces, ChangePlaces, credential, sessionRows
  <2>2. CASE Tick
    BY <2>2 DEF Tick, DeadStep, Dead, SessionsWith, InFlight, credential, sessionRows
  <2>3. QED
    BY <2>1, <2>2, SignInKeepsDead, ChangeKeepsDead DEF Next
<1>2. QED
  BY <1>1, LoginAlways, PTL DEF Spec, DeadPasswordsStayDead, DeadStep

(***************************************************************************)
(* The lock.  A sign-in that runs while a lock is in force was running when*)
(* it was set, because none starts under a lock.                           *)
(***************************************************************************)
LockInv ==
  /\ lockedUntil <= now + LockTime
  /\ Locked => \A r \in Requests : pc[r] \in SignInPlaces => r \in overtaken

\* What step r may do to a lock in force, and to the sessions under it.
LockStep ==
  Locked =>
    /\ sessions' \ sessions \subseteq overtaken
    /\ lockedUntil' < lockedUntil =>
         \E r \in Requests :
           /\ pc[r] # pc'[r] /\ Matches(r)
           /\ \/ pc[r] \in {"reset", "rehash", "rehashOnly"} /\ r \in overtaken
              \/ pc[r] = "update"

(* A step of r that leaves the lock and the sessions alone, and starts no  *)
(* sign-in, or starts one when there is no lock.                           *)
LEMMA LockFrame ==
  ASSUME TypeOK, LockInv, NEW r \in Requests, NEW place,
         pc' = [pc EXCEPT ![r] = place],
         UNCHANGED <<now, lockedUntil, overtaken, sessions>>,
         pc[r] \in SignInPlaces \/ place \notin SignInPlaces \/ ~Locked
  PROVE  LockInv' /\ LockStep
<1>1. ASSUME Locked, NEW q \in Requests, pc'[q] \in SignInPlaces
      PROVE  q \in overtaken
  <2>1. CASE q = r
    BY <1>1, <2>1 DEF LockInv, TypeOK
  <2>2. CASE q # r
    BY <1>1, <2>2 DEF LockInv, TypeOK
  <2>3. QED BY <2>1, <2>2
<1>2. LockInv'
  BY <1>1 DEF LockInv, Locked, SignInPlaces
<1>3. LockStep
  <2>1. sessions' \ sessions = {}
    OBVIOUS
  <2>2. ~(lockedUntil' < lockedUntil)
    BY DEF TypeOK
  <2>3. QED BY <2>1, <2>2 DEF LockStep
<1>4. QED BY <1>2, <1>3

(* A step of r that lifts the lock.                                        *)
LEMMA LockLifted ==
  ASSUME TypeOK, LockInv, NEW r \in Requests,
         now' = now, lockedUntil' = 0, UNCHANGED sessions,
         pc[r] # pc'[r], Matches(r),
         pc[r] \in {"reset", "rehash", "rehashOnly", "update"}
  PROVE  LockInv' /\ LockStep
<1> USE PasswordAssumption DEF PasswordAssumption
<1>1. LockInv'
  BY DEF LockInv, Locked, TypeOK
<1>2. ASSUME Locked, pc[r] # "update" PROVE r \in overtaken
  BY <1>2 DEF LockInv, SignInPlaces
<1>3. LockStep
  BY <1>2 DEF LockStep
<1>4. QED BY <1>1, <1>3

(* Every step keeps what LockInv says, and does to a lock what LockStep    *)
(* allows.                                                                 *)
LEMMA LockPreserved ==
  ASSUME LoginInv, LockInv, Next
  PROVE  LockInv' /\ LockStep
<1> USE PasswordAssumption DEF PasswordAssumption
<1>a. TypeOK /\ \A q \in Requests : RequestInv(q)
  BY DEF LoginInv
<1>1. ASSUME NEW r \in Requests, NEW g \in Passwords, SignInLocked(r, g) \/ SignInStart(r, g)
      PROVE  LockInv' /\ LockStep
  <2>1. PICK place \in {"lockedOut", "verify"} :
          /\ pc' = [pc EXCEPT ![r] = place]
          /\ place = "lockedOut" \/ ~Locked
    BY <1>1 DEF SignInLocked, SignInStart, Arrive, Goto
  <2>2. UNCHANGED <<now, lockedUntil, overtaken, sessions>>
    BY <1>1 DEF SignInLocked, SignInStart, credential, sessionRows
  <2>3. "lockedOut" \notin SignInPlaces
    BY DEF SignInPlaces
  <2>4. QED BY <1>a, <2>1, <2>2, <2>3, LockFrame
<1>2. ASSUME NEW r \in Requests,
             \/ VerifyPassword(r) \/ CountFailure(r) \/ Recount(r) \/ VerifyOtp(r)
             \/ RehashSiblingFails(r)
      PROVE  LockInv' /\ LockStep
  <2>1. PICK place : pc' = [pc EXCEPT ![r] = place]
    BY <1>2 DEF VerifyPassword, CountFailure, Recount, VerifyOtp, RehashSiblingFails, Goto
  <2>2. pc[r] \in SignInPlaces
    BY <1>2 DEF VerifyPassword, CountFailure, Recount, VerifyOtp, RehashSiblingFails,
       SignInPlaces
  <2>3. UNCHANGED <<now, lockedUntil, overtaken, sessions>>
    BY <1>2 DEF VerifyPassword, CountFailure, Recount, VerifyOtp, RehashSiblingFails,
       credential, sessionRows
  <2>4. QED BY <1>a, <2>1, <2>2, <2>3, LockFrame
<1>3. ASSUME NEW r \in Requests, VerifyCurrent(r) \/ RevokeOthers(r) \/ CallFails(r)
      PROVE  LockInv' /\ LockStep
  <2>1. PICK place \in {"update", "denied", "changed", "failed"} :
          pc' = [pc EXCEPT ![r] = place]
    BY <1>3 DEF VerifyCurrent, RevokeOthers, CallFails, Goto
  <2>2. place \notin SignInPlaces
    BY DEF SignInPlaces
  <2>3. UNCHANGED <<now, lockedUntil, overtaken, sessions>>
    BY <1>3 DEF VerifyCurrent, RevokeOthers, CallFails, credential, sessionRows
  <2>4. QED BY <1>a, <2>1, <2>2, <2>3, LockFrame
<1>4. ASSUME NEW r \in Requests, NEW keep \in Requests, NEW g \in Passwords,
             NEW next \in Passwords, ChangeStart(r, keep, g, next)
      PROVE  LockInv' /\ LockStep
  <2>1. pc' = [pc EXCEPT ![r] = "verifyCurrent"] /\ "verifyCurrent" \notin SignInPlaces
    BY <1>4 DEF ChangeStart, Arrive, Goto, SignInPlaces
  <2>2. UNCHANGED <<now, lockedUntil, overtaken, sessions>>
    BY <1>4 DEF ChangeStart, credential, sessionRows
  <2>3. QED BY <1>a, <2>1, <2>2, LockFrame
<1>5. ASSUME NEW r \in Requests, LockCredential(r)
      PROVE  LockInv' /\ LockStep
  <2>1. /\ lockedUntil' = now + LockTime /\ now' = now /\ sessions' = sessions
        /\ overtaken' = {q \in Requests : InFlight(q)}
        /\ pc' = [pc EXCEPT ![r] = "lockedOut"] /\ pc[r] = "lock"
    BY <1>5 DEF LockCredential, Goto, sessionRows
  <2>2. ASSUME NEW q \in Requests, pc'[q] \in SignInPlaces PROVE q \in overtaken'
    BY <1>a, <2>1, <2>2 DEF InFlight, SignInPlaces, TypeOK
  <2>3. LockInv'
    BY <1>a, <2>1, <2>2 DEF LockInv, TypeOK, SignInPlaces
  <2>4. ~(lockedUntil' < lockedUntil)
    BY <1>a, <2>1 DEF LockInv, TypeOK
  <2>5. QED BY <2>1, <2>3, <2>4 DEF LockStep
<1>6. ASSUME NEW r \in Requests, ResetAttempts(r) \/ Rehash(r) \/ UpdatePassword(r)
      PROVE  LockInv' /\ LockStep
  <2>1. /\ now' = now /\ lockedUntil' = 0 /\ UNCHANGED sessions
        /\ pc[r] \in {"reset", "rehash", "rehashOnly", "update"}
    BY <1>6 DEF ResetAttempts, Rehash, UpdatePassword, StorePassword, ClearFailures, sessionRows
  <2>2. pc[r] # pc'[r]
    BY <1>6, <1>a DEF ResetAttempts, AfterPassword, Rehash, UpdatePassword, Goto, TypeOK
  <2>3. Matches(r)
    BY <1>a, <2>1 DEF RequestInv, Matches, SignInPlaces, ChangePlaces
  <2>4. QED BY <1>a, <2>1, <2>2, <2>3, LockLifted
<1>7. ASSUME NEW r \in Requests, CreateSession(r)
      PROVE  LockInv' /\ LockStep
  <2>1. /\ pc[r] = "session" /\ pc' = [pc EXCEPT ![r] = "signedIn"]
        /\ UNCHANGED <<now, lockedUntil, overtaken>> /\ sessions' = sessions \cup {r}
    BY <1>7 DEF CreateSession, Goto, credential
  <2>2. Locked => r \in overtaken
    BY <2>1 DEF LockInv, SignInPlaces
  <2>3. ~(lockedUntil' < lockedUntil)
    BY <1>a, <2>1 DEF TypeOK
  <2>4. LockStep
    BY <2>1, <2>2, <2>3 DEF LockStep
  <2>5. ASSUME Locked, NEW q \in Requests, pc'[q] \in SignInPlaces PROVE q \in overtaken
    BY <1>a, <2>1, <2>5 DEF LockInv, TypeOK, SignInPlaces
  <2>6. LockInv'
    BY <2>1, <2>5 DEF LockInv, Locked, SignInPlaces
  <2>7. QED BY <2>4, <2>6
<1>8. CASE Tick
  <2>1. now' = now + 1 /\ UNCHANGED <<lockedUntil, overtaken, sessions, pc>>
    BY <1>8 DEF Tick, credential, sessionRows
  <2>2. LockInv'
    BY <1>a, <2>1 DEF LockInv, Locked, TypeOK, SignInPlaces
  <2>3. LockStep
    BY <1>a, <2>1 DEF LockStep, TypeOK
  <2>4. QED BY <2>2, <2>3
<1>9. QED
  BY <1>1, <1>2, <1>3, <1>4, <1>5, <1>6, <1>7, <1>8 DEF Next, SignInStep, ChangeStep

(* A lock in force opens no session and is lifted by nobody before its     *)
(* time, except by requests that read the credential before it was set and *)
(* knew the password, and by a password change.                            *)
THEOREM LockoutAlwaysHolds == Spec => LockoutHolds
<1>1. Init => LockInv
  BY PasswordAssumption DEF PasswordAssumption, Init, LockInv, Locked
<1>2. LoginInv /\ LockInv /\ [Next]_vars => LockInv'
  <2>1. CASE Next
    BY <2>1, LockPreserved
  <2>2. CASE UNCHANGED vars
    BY <2>2 DEF vars, LockInv, Locked, SignInPlaces, credential
  <2>3. QED BY <2>1, <2>2
<1>3. LoginInv /\ LockInv /\ [Next]_vars =>
        [Locked =>
           /\ sessions' \ sessions \subseteq overtaken
           /\ lockedUntil' < lockedUntil =>
                \E r \in Requests :
                  /\ pc[r] # pc'[r] /\ Matches(r)
                  /\ \/ pc[r] \in {"reset", "rehash", "rehashOnly"} /\ r \in overtaken
                     \/ pc[r] = "update"]_vars
  BY LockPreserved DEF LockStep
<1>4. QED
  BY <1>1, <1>2, <1>3, LoginAlways, PTL DEF Spec, LockoutHolds

-----------------------------------------------------------------------------
(***************************************************************************)
(* AuthUseCases, for any runs, threshold and lock time.                    *)
(***************************************************************************)

\* The bounds are natural numbers, and LockFor and MaxFailures are not 0.
LEMMA Bounds ==
  /\ MaxFailures \in Nat /\ MaxFailures >= 1
  /\ LockFor \in Nat /\ LockFor >= 1
  /\ LastInstant \in Nat
BY AuthUseCasesAssumption

\* What the aggregate makes of its copy is a row, of a user.
LEMMA Aggregates ==
  ASSUME NEW u \in User, RowOK(u), u # NoUser, clock \in Nat
  PROVE  /\ Failure(u) \in User /\ RowOK(Failure(u)) /\ Failure(u) # NoUser
         /\ Success(u) \in User /\ RowOK(Success(u)) /\ Success(u) # NoUser
         /\ Verified(u) \in User /\ RowOK(Verified(u)) /\ Verified(u) # NoUser
<1>1. u.status # "none"
  BY DEF RowOK
<1>2. /\ Failure(u) \in User /\ Failure(u).failed = u.failed + 1
      /\ Failure(u).status \in {u.status, "LOCKED"}
      /\ Failure(u).until \in {u.until, clock + LockFor}
  <2> DEFINE again == [u EXCEPT !.failed = u.failed + 1]
  <2>1. again \in User /\ again.failed = u.failed + 1 /\ again.until = u.until
        /\ again.status = u.status
    BY DEF User
  <2>2. clock + LockFor \in Nat
    BY Bounds
  <2>3. u.failed + 1 \in Nat
    BY DEF User
  <2>4. CASE u.failed + 1 >= MaxFailures
    <3>1. PICK n \in Nat : n = u.failed + 1
      BY <2>3
    <3>2. PICK t \in Nat : t = clock + LockFor
      BY <2>2
    <3>3. Failure(u) = [u EXCEPT !.failed = n, !.status = "LOCKED", !.until = t]
      BY <2>4, <3>1, <3>2 DEF Failure
    <3>4. /\ Failure(u) \in User /\ Failure(u).failed = n
          /\ Failure(u).until = t /\ Failure(u).status = "LOCKED"
      BY <3>3 DEF User
    <3> QED BY <3>1, <3>2, <3>4
  <2>5. CASE ~ (u.failed + 1 >= MaxFailures)
    <3>1. Failure(u) = again
      BY <2>5 DEF Failure
    <3> QED BY <3>1, <2>1
  <2> QED BY <2>4, <2>5
<1>3. /\ Success(u) \in User /\ Success(u).until = 0
      /\ Success(u).status # "none"
  BY <1>1 DEF Success, User
<1>4. /\ Verified(u) \in User /\ Verified(u).until = u.until
      /\ Verified(u).status = "ACTIVE"
  BY DEF Verified, User
<1>5. NoUser.status = "none"
  BY DEF NoUser
<1> QED BY <1>1, <1>2, <1>3, <1>4, <1>5, Bounds DEF RowOK

\* The invariant holds at first.
LEMMA InitUseCase == UseCaseInit => UseCaseInv
<1> SUFFICES ASSUME UseCaseInit PROVE UseCaseInv
  OBVIOUS
<1>1. NoUser \in User /\ ~NoUser.verified /\ NoUser.until = 0 /\ NoUser.failed = 0
  BY DEF NoUser, User
<1>2. RowOK(NoUser)
  BY <1>1, Bounds DEF RowOK, UseCaseInit
<1>3. \A q \in Runs : RunOK(run[q])
  BY <1>1, <1>2 DEF RunOK, UseCaseInit, NoRun
<1>4. NoRun \in Run
  BY <1>1 DEF NoRun, Run
<1>5. UseCaseTypeOK
  <2>1. run \in [Runs -> Run]
    BY <1>4 DEF UseCaseInit
  <2>2. clock \in 0..LastInstant /\ misses \in Nat
    BY Bounds DEF UseCaseInit
  <2>3. lost \in BOOLEAN /\ user \in User
    BY <1>1 DEF UseCaseInit
  <2> QED BY <2>1, <2>2, <2>3 DEF UseCaseTypeOK, UseCaseInit
<1> QED BY <1>1, <1>2, <1>3, <1>5, Bounds DEF UseCaseInit, UseCaseInv, TokenOK, FailuresCounted

\* A step of one call that saves nothing.
LEMMA MoveKeeps ==
  ASSUME UseCaseInv, NEW q \in Runs, NEW r \in Run, run' = [run EXCEPT ![q] = r],
         UNCHANGED <<clock, user, misses, lost>>,
         events' \subseteq {"user.registered", "user.verified", "user.login_failed"},
         RunOK(r),
         \/ /\ token' = token
            /\ Registers(run[q]) => Registers(r)
            /\ Presents(run[q]) => Presents(r) \/ user.verified \/ lost
         \/ token' \in {"issued", "mailed"} /\ user # NoUser
         \/ token' = "consumed" /\ user # NoUser /\ Presents(r)
  PROVE  UseCaseInv'
<1>1. run'[q] = r /\ \A p \in Runs : p # q => run'[p] = run[p]
  BY DEF UseCaseInv, UseCaseTypeOK
<1>2. UseCaseTypeOK'
  BY DEF UseCaseInv, UseCaseTypeOK
<1>3. RowOK(user)' /\ FailuresCounted' /\ (user = NoUser => misses = 0)'
  BY DEF UseCaseInv, RowOK, FailuresCounted
<1>4. \A p \in Runs : RunOK(run[p])'
  BY <1>1 DEF UseCaseInv, RunOK, RowOK
<1>5. TokenOK'
  <2>1. CASE token' = token
    <3>1. user # NoUser /\ token = "none" => \E p \in Runs : Registers(run'[p])
      BY <1>1, <2>1 DEF UseCaseInv, TokenOK, Registers, Presents
    <3>2. token = "consumed" =>
            user.verified \/ lost \/ \E p \in Runs : Presents(run'[p])
      BY <1>1, <2>1 DEF UseCaseInv, TokenOK, Registers, Presents
    <3> QED BY <2>1, <3>1, <3>2 DEF UseCaseInv, TokenOK, Registers, Presents
  <2>2. CASE token' # token
    BY <1>1, <2>2 DEF TokenOK, Registers, Presents
  <2> QED BY <2>1, <2>2
<1> QED BY <1>2, <1>3, <1>4, <1>5 DEF UseCaseInv

\* A save: whoever holds the row holds a stale copy from now on.
LEMMA SaveKeeps ==
  ASSUME UseCaseInv, NEW q \in Runs, NEW u \in User, NEW place \in {"issue-token", "publish", "issue"},
         run[q].pc = "save", Save(q, u, place), UNCHANGED <<clock, token, events>>,
         RowOK(u), u # NoUser, misses' \in Nat,
         user.verified /\ ~u.verified => run[q].stale,
         ~lost' => /\ u.failed = misses'
                   /\ misses' >= MaxFailures => u.status = "LOCKED" \/ u.verified,
         user = NoUser => run[q].call = "register" /\ place = "issue-token",
         run[q].call = "verify" => u.verified
  PROVE  UseCaseInv'
<1>0. UseCaseTypeOK /\ run[q] \in Run
  BY DEF UseCaseInv, UseCaseTypeOK
<1> DEFINE held(p) == run[p].stale \/ (run[p].copy # NoUser /\ run[p].pc = "save")
<1>1. /\ run'[q] = [run[q] EXCEPT !.pc = place, !.copy = u]
      /\ \A p \in Runs : p # q => run'[p] = [run[p] EXCEPT !.stale = held(p)]
      /\ user' = u /\ lost' = (lost \/ run[q].stale)
  BY DEF Save
<1>a. ASSUME NEW p \in Runs, p # q
      PROVE  /\ run'[p].pc = run[p].pc /\ run'[p].call = run[p].call
             /\ run'[p].copy = run[p].copy /\ run'[p].stale = held(p)
  <2>1. run[p] \in Run /\ run'[p] = [run[p] EXCEPT !.stale = held(p)]
    BY <1>0, <1>1, <1>a DEF UseCaseTypeOK
  <2> HIDE DEF held
  <2> QED BY <2>1 DEF Run
<1>2. UseCaseTypeOK'
  <2>1. run' \in [Runs -> Run]
    <3>1. ASSUME NEW p \in Runs PROVE run'[p] \in Run
      <4>1. run[p] \in Run /\ held(p) \in BOOLEAN
        BY <1>0 DEF UseCaseTypeOK, Run
      <4>2. [run[p] EXCEPT !.stale = held(p)] \in Run
        BY <4>1 DEF Run
      <4>3. [run[q] EXCEPT !.pc = place, !.copy = u] \in Run
        BY <1>0 DEF Run
      <4> HIDE DEF held
      <4> QED BY <1>1, <4>2, <4>3
    <3>2. run' = [p \in Runs |-> run'[p]]
      BY DEF Save
    <3> QED BY <3>1, <3>2
  <2>2. lost' \in BOOLEAN
    BY <1>0, <1>1 DEF UseCaseTypeOK, Run
  <2> QED BY <1>0, <1>1, <2>1, <2>2 DEF UseCaseTypeOK
<1>3. RowOK(user)' /\ FailuresCounted' /\ (user = NoUser => misses = 0)'
  BY <1>1 DEF RowOK, FailuresCounted
<1>4. ASSUME NEW p \in Runs, p # q PROVE RunOK(run[p])'
  <2>1. /\ run'[p].pc = run[p].pc /\ run'[p].call = run[p].call /\ run'[p].copy = run[p].copy
        /\ held(p) => run'[p].stale
    BY <1>4, <1>a
  <2>2. RunOK(run[p])
    BY DEF UseCaseInv
  <2> QED BY <1>1, <2>1, <2>2 DEF RunOK, RowOK
<1>5. RunOK(run[q])'
  <2>1. run'[q].pc = place /\ run'[q].copy = u
    BY <1>0, <1>1 DEF Run
  <2> QED BY <1>1, <2>1 DEF RunOK, RowOK
<1>6. TokenOK'
  <2>1. user # NoUser /\ token = "none" => \E p \in Runs : Registers(run[p])'
    <3>1. ASSUME NEW p \in Runs, Registers(run[p]) PROVE Registers(run[p])'
      <4>1. p # q
        BY <3>1 DEF Registers
      <4> QED BY <1>0, <1>1, <3>1, <4>1 DEF Registers, UseCaseTypeOK, Run
    <3> QED BY <3>1 DEF UseCaseInv, TokenOK
  <2>2. user = NoUser /\ token = "none" => Registers(run[q])'
    BY <1>0, <1>1 DEF Registers, Run
  <2>3. token = "consumed" => \/ user'.verified \/ lost'
                              \/ \E p \in Runs : Presents(run[p])'
    <3>1. ASSUME NEW p \in Runs, Presents(run[p]), p # q PROVE Presents(run[p])'
      BY <1>a, <3>1 DEF Presents
    <3>2. Presents(run[q]) => user'.verified
      BY <1>1 DEF Presents
    <3> QED BY <1>1, <3>1, <3>2 DEF UseCaseInv, TokenOK
  <2> QED BY <1>1, <2>1, <2>2, <2>3 DEF UseCaseInv, TokenOK
<1> QED BY <1>2, <1>3, <1>4, <1>5, <1>6 DEF UseCaseInv

\* Steps that only move a call on.
Walk(q) ==
  \/ Register(q) \/ IssueVerifyToken(q) \/ PublishRegistered(q) \/ SendMail(q) \/ SendAudit(q)
  \/ Verify(q) \/ FindById(q) \/ PublishVerified(q) \/ Login(q) \/ PublishFailed(q)
  \/ IssueTokens(q) \/ PortThrows(q)

\* None of them disturbs the invariant.
LEMMA WalkKeeps ==
  ASSUME UseCaseInv, NEW q \in Runs, Walk(q)
  PROVE  UseCaseInv'
<1>0. /\ run[q] \in Run /\ RunOK(run[q]) /\ user \in User /\ RowOK(user)
      /\ events \subseteq {"user.registered", "user.verified", "user.login_failed"}
      /\ run \in [Runs -> Run]
  BY DEF UseCaseInv, UseCaseTypeOK
<1>1. ASSUME NEW place \in {"publish", "mail", "audit", "done", "refused", "failed"}, To(q, place),
             UNCHANGED <<clock, user, misses, lost>>,
             events' \subseteq {"user.registered", "user.verified", "user.login_failed"},
             \/ token' = token /\ ~Registers(run[q]) /\ ~Presents(run[q])
             \/ token' = token /\ place = "failed"
             \/ token' \in {"issued", "mailed"} /\ user # NoUser
      PROVE  UseCaseInv'
  <2> DEFINE r == [run[q] EXCEPT !.pc = place]
  <2>1. r \in Run /\ r.pc = place /\ r.call = run[q].call /\ r.copy = run[q].copy
    BY <1>0 DEF Run
  <2>2. run' = [run EXCEPT ![q] = r]
    BY <1>1 DEF To
  <2>3. RunOK(r)
    BY <1>0, <2>1 DEF RunOK
  <2>4. place = "failed" => (Registers(run[q]) => Registers(r)) /\ (Presents(run[q]) => Presents(r))
    BY <2>1 DEF Registers, Presents
  <2> HIDE DEF r
  <2> QED BY <1>1, <2>1, <2>2, <2>3, <2>4, MoveKeeps
<1>2. ASSUME Register(q) PROVE UseCaseInv'
  <2> DEFINE place == IF user # NoUser THEN "refused" ELSE "save"
             r == [run[q] EXCEPT !.call = "register", !.pc = place]
  <2>1. r \in Run /\ r.pc = place /\ r.call = "register" /\ r.copy = run[q].copy
    BY <1>0 DEF Run, Calls
  <2>2. run' = [run EXCEPT ![q] = r]
    BY <1>2 DEF Register
  <2>3. RunOK(r)
    BY <1>0, <2>1 DEF RunOK
  <2>4. ~Registers(run[q]) /\ ~Presents(run[q])
    BY <1>2 DEF Register, Registers, Presents
  <2> HIDE DEF r
  <2> QED BY <1>0, <1>2, <2>1, <2>2, <2>3, <2>4, MoveKeeps DEF Register
<1>3. ASSUME IssueVerifyToken(q) PROVE UseCaseInv'
  <2>1. user # NoUser
    BY <1>0, <1>3 DEF RunOK, IssueVerifyToken
  <2> QED BY <1>0, <1>1, <1>3, <2>1 DEF IssueVerifyToken
<1>4. ASSUME PublishRegistered(q) \/ SendAudit(q) \/ PublishVerified(q) \/ PublishFailed(q)
             \/ IssueTokens(q)
      PROVE  UseCaseInv'
  <2>1. ~Registers(run[q]) /\ ~Presents(run[q])
    BY <1>4 DEF PublishRegistered, SendAudit, PublishVerified, PublishFailed, IssueTokens,
       Registers, Presents
  <2> QED BY <1>0, <1>1, <1>4, <2>1 DEF PublishRegistered, SendAudit, PublishVerified,
          PublishFailed, IssueTokens
<1>5. ASSUME SendMail(q) PROVE UseCaseInv'
  <2>1. ~Registers(run[q]) /\ ~Presents(run[q])
    BY <1>5 DEF SendMail, Registers, Presents
  <2>2. token # "none" => user # NoUser
    BY DEF UseCaseInv, TokenOK
  <2>3. token' = token \/ (token' = "mailed" /\ user # NoUser)
    BY <1>5, <2>2 DEF SendMail
  <2> QED BY <1>0, <1>1, <1>5, <2>1, <2>3 DEF SendMail
<1>6. ASSUME PortThrows(q) PROVE UseCaseInv'
  BY <1>0, <1>1, <1>6 DEF PortThrows
<1>7. ASSUME Verify(q) PROVE UseCaseInv'
  <2> DEFINE place == IF token = "mailed" THEN "find" ELSE "refused"
             r == [run[q] EXCEPT !.call = "verify", !.pc = place]
  <2>1. r \in Run /\ r.pc = place /\ r.call = "verify" /\ r.copy = run[q].copy
    BY <1>0 DEF Run, Calls
  <2>2. run' = [run EXCEPT ![q] = r]
    BY <1>7 DEF Verify
  <2> HIDE DEF r
  <2>3. user # NoUser
    BY <1>7 DEF Verify, UseCaseInv, TokenOK
  <2>4. RunOK(r)
    BY <1>0, <2>1, <2>3 DEF RunOK
  <2>5. ~Registers(run[q]) /\ ~Presents(run[q])
    BY <1>7 DEF Verify, Registers, Presents
  <2>6. token = "mailed" => Presents(r)
    BY <2>1 DEF Presents
  <2> QED BY <1>0, <1>7, <2>1, <2>2, <2>3, <2>4, <2>5, <2>6, MoveKeeps DEF Verify
<1>8. ASSUME FindById(q) PROVE UseCaseInv'
  <2> DEFINE r == [run[q] EXCEPT !.pc = "save", !.copy = user]
  <2>1. r \in Run /\ r.pc = "save" /\ r.call = run[q].call /\ r.copy = user
    BY <1>0 DEF Run
  <2>2. run' = [run EXCEPT ![q] = r]
    BY <1>8 DEF FindById
  <2> HIDE DEF r
  <2>3. RunOK(r)
    BY <1>0, <1>8, <2>1 DEF RunOK, FindById
  <2>4. ~Registers(run[q]) /\ (Presents(run[q]) => Presents(r))
    BY <1>8, <2>1 DEF FindById, Registers, Presents
  <2> QED BY <1>0, <1>8, <2>1, <2>2, <2>3, <2>4, MoveKeeps DEF FindById
<1>9. ASSUME Login(q) PROVE UseCaseInv'
  <2>1. PICK c \in Calls \ {"register", "verify"} :
          run' = [run EXCEPT ![q].call = c, ![q].copy = user,
                             ![q].pc = IF user = NoUser THEN "refused" ELSE "save"]
    BY <1>9 DEF Login, Calls
  <2> DEFINE place == IF user = NoUser THEN "refused" ELSE "save"
             r == [run[q] EXCEPT !.call = c, !.copy = user, !.pc = place]
  <2>2. r \in Run /\ r.pc = place /\ r.call = c /\ r.copy = user
    BY <1>0 DEF Run
  <2>3. run' = [run EXCEPT ![q] = r]
    BY <2>1
  <2>4. RunOK(r)
    BY <1>0, <2>2 DEF RunOK
  <2>5. ~Registers(run[q]) /\ ~Presents(run[q])
    BY <1>9 DEF Login, Registers, Presents
  <2> HIDE DEF r
  <2> QED BY <1>0, <1>9, <2>2, <2>3, <2>4, <2>5, MoveKeeps DEF Login
<1> QED BY <1>2, <1>3, <1>4, <1>5, <1>6, <1>7, <1>8, <1>9 DEF Walk

\* What a save that is not stale finds in its copy.
LEMMA Fresh ==
  ASSUME UseCaseInv, NEW q \in Runs, run[q].pc = "save", run[q].call # "register"
  PROVE  /\ run[q].copy \in User /\ RowOK(run[q].copy) /\ run[q].copy # NoUser
         /\ run[q].copy.failed \in Nat /\ clock \in Nat /\ run[q].stale \in BOOLEAN
         /\ ~run[q].stale => run[q].copy = user
         /\ run[q].copy.verified => user.verified \/ lost
         /\ user # NoUser
<1>1. RunOK(run[q]) /\ run[q] \in Run /\ UseCaseTypeOK /\ RowOK(user)
  BY DEF UseCaseInv, UseCaseTypeOK
<1> QED BY <1>1 DEF RunOK, Run, User, UseCaseTypeOK

\* Every save keeps the invariant.
LEMMA SavesKeep ==
  ASSUME UseCaseInv, NEW q \in Runs,
         SaveNew(q) \/ SaveVerified(q) \/ SaveFailure(q) \/ SaveSuccess(q)
  PROVE  UseCaseInv'
<1>0. /\ run[q] \in Run /\ RunOK(run[q]) /\ run \in [Runs -> Run]
      /\ misses \in Nat /\ clock \in Nat /\ FailuresCounted /\ lost \in BOOLEAN
      /\ events \subseteq {"user.registered", "user.verified", "user.login_failed"}
  BY DEF UseCaseInv, UseCaseTypeOK
<1>1. ASSUME run[q].pc = "save", NEW place \in {"refused", "failed"}, To(q, place),
             UNCHANGED <<clock, user, token, events, misses, lost>>,
             run[q].call = "verify" /\ place = "refused" =>
               run[q].copy.verified \/ run[q].copy.status = "LOCKED"
      PROVE  UseCaseInv'
  <2> DEFINE r == [run[q] EXCEPT !.pc = place]
  <2>1. r \in Run /\ r.pc = place /\ r.call = run[q].call /\ r.copy = run[q].copy
    BY <1>0 DEF Run
  <2>2. run' = [run EXCEPT ![q] = r]
    BY <1>1 DEF To
  <2>3. RunOK(r)
    BY <1>0, <2>1 DEF RunOK
  <2>4. ~Registers(run[q])
    BY <1>1 DEF Registers
  <2>5. Presents(run[q]) => Presents(r) \/ user.verified \/ lost
    BY <1>0, <1>1, <2>1 DEF Presents, RunOK
  <2> HIDE DEF r
  <2> QED BY <1>0, <1>1, <2>1, <2>2, <2>3, <2>4, <2>5, MoveKeeps
<1>2. ASSUME SaveNew(q) PROVE UseCaseInv'
  <2>1. CASE user # NoUser
    BY <1>0, <1>1, <1>2, <2>1 DEF SaveNew
  <2>2. CASE user = NoUser
    <3>1. /\ NewUser \in User /\ NewUser # NoUser /\ NewUser.failed = 0 /\ ~NewUser.verified
          /\ ~NoUser.verified /\ NewUser.until = 0 /\ NewUser.status = "PENDING"
      BY DEF NewUser, NoUser, User
    <3>2. RowOK(NewUser)
      BY <1>0, <3>1, Bounds DEF RowOK
    <3>3. misses = 0
      BY <2>2 DEF UseCaseInv
    <3> QED BY <1>0, <1>2, <2>2, <3>1, <3>2, <3>3, SaveKeeps, Bounds DEF SaveNew
  <2> QED BY <2>1, <2>2
<1>3. ASSUME SaveVerified(q) PROVE UseCaseInv'
  <2> DEFINE u == run[q].copy
  <2>1. run[q].pc = "save" /\ run[q].call = "verify"
    BY <1>3 DEF SaveVerified
  <2>2. CASE (u.status = "ACTIVE" /\ u.verified) \/ LockHolds(u)
    BY <1>0, <1>1, <1>3, <2>1, <2>2 DEF SaveVerified, LockHolds
  <2>3. CASE ~((u.status = "ACTIVE" /\ u.verified) \/ LockHolds(u))
    <3>1. Verified(u).verified /\ Verified(u).failed = u.failed
      BY <2>1, Fresh DEF Verified, User
    <3>2. ~lost /\ ~run[q].stale => u.failed = misses
      BY <1>0, <2>1, Fresh DEF FailuresCounted
    <3> QED BY <1>0, <1>3, <2>1, <2>3, <3>1, <3>2, Fresh, Aggregates, SaveKeeps
            DEF SaveVerified, Save
  <2> QED BY <2>2, <2>3
<1>4. ASSUME SaveFailure(q) PROVE UseCaseInv'
  <2> DEFINE u == run[q].copy
  <2>1. run[q].pc = "save" /\ run[q].call = "login-bad" /\ misses' = misses + 1
    BY <1>4 DEF SaveFailure
  <2>2. /\ Failure(u).failed = u.failed + 1 /\ Failure(u).verified = u.verified
        /\ u.failed + 1 >= MaxFailures => Failure(u).status = "LOCKED"
    BY <2>1, Fresh DEF Failure, User
  <2>3. ~lost /\ ~run[q].stale => u.failed = misses
    BY <1>0, <2>1, Fresh DEF FailuresCounted
  <2>4. user.verified /\ ~Failure(u).verified => run[q].stale
    BY <2>1, <2>2, Fresh
  <2>5. /\ u \in User /\ RowOK(u) /\ u # NoUser /\ user # NoUser
        /\ Failure(u) \in User /\ RowOK(Failure(u)) /\ Failure(u) # NoUser
    BY <1>0, <2>1, Fresh, Aggregates
  <2>6. Save(q, Failure(u), "publish") /\ UNCHANGED <<clock, token, events>>
    BY <1>4 DEF SaveFailure
  <2>7. ~lost' => ~lost /\ ~run[q].stale
    BY <2>6 DEF Save
  <2> HIDE DEF u
  <2> QED BY <1>0, <2>1, <2>2, <2>3, <2>4, <2>5, <2>6, <2>7, SaveKeeps
<1>5. ASSUME SaveSuccess(q) PROVE UseCaseInv'
  <2> DEFINE u == run[q].copy
  <2>1. run[q].pc = "save" /\ run[q].call = "login-good"
    BY <1>5 DEF SaveSuccess
  <2>2. CASE LockHolds(u) \/ u.status = "PENDING"
    BY <1>0, <1>1, <1>5, <2>1, <2>2 DEF SaveSuccess
  <2>3. CASE ~(LockHolds(u) \/ u.status = "PENDING")
    <3>1. Success(u).failed = 0 /\ Success(u).verified = u.verified
      BY <2>1, Fresh DEF Success, User
    <3>2. user.verified /\ ~Success(u).verified => run[q].stale
      BY <2>1, <3>1, Fresh
    <3> QED BY <1>0, <1>5, <2>1, <2>3, <3>1, <3>2, Fresh, Aggregates, SaveKeeps, Bounds
            DEF SaveSuccess
  <2> QED BY <2>2, <2>3
<1> QED BY <1>2, <1>3, <1>4, <1>5

\* The clock, and the token's expiry.
LEMMA OthersKeep ==
  ASSUME UseCaseInv, InstantPasses \/ ExpireToken \/ UNCHANGED useCaseVars
  PROVE  UseCaseInv'
<1>1. CASE InstantPasses
  <2>1. /\ UNCHANGED <<user, token, events, run, misses, lost>> /\ clock' = clock + 1
        /\ clock \in Nat /\ clock' \in 0..LastInstant
    BY <1>1, Bounds DEF InstantPasses, UseCaseInv, UseCaseTypeOK
  <2>2. ASSUME NEW u \in User, RowOK(u) PROVE RowOK(u)'
    BY <2>1, <2>2, Bounds DEF RowOK, User
  <2>3. user \in User /\ \A q \in Runs : run[q].copy \in User
    BY DEF UseCaseInv, UseCaseTypeOK, Run
  <2>4. RowOK(user)'
    BY <2>1, <2>2, <2>3 DEF UseCaseInv
  <2>5. ASSUME NEW q \in Runs PROVE RunOK(run[q])'
    <3>1. RunOK(run[q])
      BY DEF UseCaseInv
    <3>2. RowOK(run[q].copy)'
      BY <2>1, <2>2, <2>3, <3>1 DEF RunOK
    <3> QED BY <2>1, <3>1, <3>2 DEF RunOK
  <2>6. UseCaseTypeOK' /\ FailuresCounted' /\ TokenOK' /\ (user = NoUser => misses = 0)'
    BY <2>1 DEF UseCaseInv, UseCaseTypeOK, FailuresCounted, TokenOK
  <2> QED BY <2>4, <2>5, <2>6 DEF UseCaseInv
<1>2. CASE ExpireToken
  <2>1. /\ UNCHANGED <<clock, user, events, run, misses, lost>> /\ token' = "expired"
        /\ token # "none"
    BY <1>2 DEF ExpireToken
  <2> QED BY <2>1 DEF UseCaseInv, UseCaseTypeOK, FailuresCounted, TokenOK, RunOK, RowOK
<1>3. CASE UNCHANGED useCaseVars
  BY <1>3 DEF useCaseVars, UseCaseInv, UseCaseTypeOK, FailuresCounted, TokenOK, RunOK, RowOK
<1> QED BY <1>1, <1>2, <1>3

\* Every step keeps the invariant.
LEMMA NextUseCase == UseCaseInv /\ [UseCaseNext]_useCaseVars => UseCaseInv'
BY WalkKeeps, SavesKeep, OthersKeep DEF UseCaseNext, Walk

\* The invariant holds in every reachable state.
LEMMA UseCaseAlways == UseCaseSpec => []UseCaseInv
BY InitUseCase, NextUseCase, PTL DEF UseCaseSpec

\* The row, the token and the calls hold what the use cases store in them.
THEOREM UseCaseTypes == UseCaseSpec => []UseCaseTypeOK
<1>1. UseCaseInv => UseCaseTypeOK
  BY DEF UseCaseInv
<1> QED BY <1>1, UseCaseAlways, PTL

\* LoginUseCase, however many calls, whatever threshold and lock: without a
\* stale save no failure is lost, and the threshold locks.
THEOREM FailuresAlwaysCounted == UseCaseSpec => []FailuresCounted
<1>1. UseCaseInv => FailuresCounted
  BY DEF UseCaseInv
<1> QED BY <1>1, UseCaseAlways, PTL

\* VerifyUseCase and RegisterUseCase: who is stuck unverified and without a
\* token is so for one of the reasons known.
THEOREM StuckUsers == UseCaseSpec => []StuckExplained
<1>1. UseCaseInv => StuckExplained
  <2> SUFFICES ASSUME UseCaseInv, user # NoUser, ~user.verified, token \notin {"issued", "mailed"},
                      token # "expired", ~lost
               PROVE  \E q \in Runs :
                        /\ run[q].call \in {"register", "verify"}
                        /\ \/ run[q].pc \notin {"idle", "done", "refused"}
                           \/ run[q].call = "verify" /\ run[q].pc = "refused" /\ run[q].copy.status = "LOCKED"
    BY DEF StuckExplained
  <2>1. token \in {"none", "consumed"}
    BY DEF UseCaseInv, UseCaseTypeOK
  <2>2. PICK q \in Runs : Registers(run[q]) \/ Presents(run[q])
    BY <2>1 DEF UseCaseInv, TokenOK
  <2> QED BY <2>2 DEF Registers, Presents
<1> QED BY <1>1, UseCaseAlways, PTL

\* User and the use cases: only the save of a stale copy ends a lock early or
\* undoes a verification.
THEOREM OnlyStaleUndo == UseCaseSpec => OnlyStaleSavesUndo
<1> DEFINE Undone == \/ LockHolds(user) /\ ~(user'.status = "LOCKED" /\ user'.until >= user.until)
                     \/ user.verified /\ ~user'.verified
           Stale == \E q \in Runs : run[q].stale /\ run'[q].pc # run[q].pc
<1>1. ASSUME UseCaseInv, UseCaseNext, Undone PROVE Stale
  <2>0. UseCaseTypeOK /\ user \in User /\ clock \in Nat /\ user.until \in Nat
    BY <1>1 DEF UseCaseInv, UseCaseTypeOK, User
  <2>1. user' # user
    BY <1>1, <2>0 DEF LockHolds
  <2>2. PICK q \in Runs : SaveNew(q) \/ SaveVerified(q) \/ SaveFailure(q) \/ SaveSuccess(q)
    BY <1>1, <2>1 DEF UseCaseNext, InstantPasses, ExpireToken, Register, IssueVerifyToken,
       PublishRegistered,
       SendMail, SendAudit, Verify, FindById, PublishVerified, Login, PublishFailed, IssueTokens,
       PortThrows
  <2>3. PICK u : \E place \in {"issue-token", "publish", "issue"} :
          Save(q, u, place) /\ run[q].pc = "save"
    BY <2>1, <2>2 DEF SaveNew, SaveVerified, SaveFailure, SaveSuccess
  <2>4. run'[q].pc # run[q].pc
    <3>1. PICK place \in {"issue-token", "publish", "issue"} :
            run'[q] = [run[q] EXCEPT !.pc = place, !.copy = u] /\ run[q].pc = "save"
      BY <2>3 DEF Save
    <3> QED BY <2>0, <3>1 DEF UseCaseTypeOK, Run
  <2>5. CASE SaveNew(q)
    BY <1>1, <2>1, <2>5 DEF SaveNew, NoUser, LockHolds
  <2>6. ASSUME ~SaveNew(q), ~run[q].stale PROVE FALSE
    <3>1. run[q].call # "register"
      BY <2>2, <2>6 DEF SaveVerified, SaveFailure, SaveSuccess
    <3>2. run[q].copy = user /\ RowOK(user)
      BY <1>1, <2>3, <2>6, <3>1, Fresh
    <3>3. CASE SaveVerified(q)
      <4>1. user' = Verified(user) /\ ~LockHolds(user)
        BY <2>1, <3>2, <3>3 DEF SaveVerified, Save
      <4> QED BY <1>1, <2>0, <4>1 DEF Verified, User
    <3>4. CASE SaveSuccess(q)
      <4>1. user' = Success(user) /\ ~LockHolds(user)
        BY <2>1, <3>2, <3>4 DEF SaveSuccess, Save
      <4> QED BY <1>1, <2>0, <4>1 DEF Success, User
    <3>5. CASE SaveFailure(q)
      <4>1. user' = Failure(user)
        BY <3>2, <3>5 DEF SaveFailure, Save
      <4>2. /\ user'.verified = user.verified
            /\ user.status = "LOCKED" => user'.status = "LOCKED"
            /\ user'.until \in {user.until, clock + LockFor}
        BY <2>0, <4>1, Bounds DEF Failure, User
      <4>3. user'.until >= user.until
        BY <2>0, <3>2, <4>2, Bounds DEF RowOK
      <4> QED BY <1>1, <4>2, <4>3 DEF LockHolds
    <3> QED BY <2>2, <2>6, <3>3, <3>4, <3>5
  <2> QED BY <2>4, <2>5, <2>6
<1>2. UseCaseInv /\ [UseCaseNext]_useCaseVars => [Undone => Stale]_useCaseVars
  BY <1>1
<1> QED BY <1>2, UseCaseAlways, PTL DEF UseCaseSpec, OnlyStaleSavesUndo
=============================================================================
