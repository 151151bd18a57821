------------------------------ MODULE Accounts ------------------------------
(***************************************************************************)
(* How users, addresses and identities come to be in authentication/:      *)
(* AuthService.signUp, the accounts that a code, a link or a provider      *)
(* login creates on first use, linkIdentity, verifyEmailToken, and what    *)
(* signIn looks up.  No call is a transaction: one action per awaited      *)
(* call, and the branches of a Promise.all go on when another fails.       *)
(*                                                                         *)
(* Each r in Calls is one call, served once; the user it creates is        *)
(* called r.  Codes and links are taken as redeemed (Verification), the    *)
(* password as right (PasswordLogin); default access is one step here      *)
(* (Rbac), and so is the issue of a session (Sessions).                    *)
(***************************************************************************)
EXTENDS Naturals

CONSTANTS
  Calls,
  Residents,   \* users of before, with no name, phone or account of those below
  Emails, Usernames, Phones,
  Externals,   \* accounts at an OAuth provider
  Linkable,    \* the provider codes that assertMethodEnabled passes
  Absent,
  MayAsk       \* MayAsk[r]: the operations call r may be for

Mailed     == {"verifyOtp", "verifyMagicLink"}
Operations == Mailed \cup {"signUp", "signIn", "verifyPhone", "providerLogin",
                           "linkIdentity", "verifyEmail"}

\* The provider code of each operation's identity; linkIdentity takes the client's.
CodeOf ==
  [op \in Operations |->
    CASE op \in {"signUp", "signIn"} -> "local"
      [] op = "verifyOtp"            -> "email_otp"
      [] op = "verifyMagicLink"      -> "magic_link"
      [] op = "verifyPhone"          -> "phone_otp"
      [] OTHER                       -> "oauth"]
Providers == {"local", "email_otp", "magic_link", "phone_otp", "oauth"}

Users    == Calls \cup Residents
Names    == Emails \cup Usernames
Subjects == Names \cup Phones \cup Externals

ASSUME AccountsAssumption ==
  /\ Emails \cap Usernames = {}
  /\ Linkable \subseteq Providers
  /\ Calls \cap Residents = {}
  /\ Absent \notin Users \cup Subjects \cup Operations \cup Providers
  /\ MayAsk \in [Calls -> SUBSET Operations]

VARIABLES
  providers,   \* auth_providers, by code
  users,
  holder,      \* the user of a user_emails row or of users.username: both unique
  verified,    \* the addresses with a verified_at
  owner,       \* identities: the user of each (provider, subject), which is unique
  password,    \* the local subjects that have a password_credentials row
  linked,      \* history: the keys of the identities that linkIdentity stored
  tokens,      \* the external subjects with an oauth_tokens row
  members,     \* the users assignDefaultAccess has served
  devices,     \* the users with a device
  session,     \* the session each call issued
  at,          \* the awaited calls of each request that are under way
  stage,
  call

userRows     == <<users, members, devices>>
emailRows    == <<holder, verified>>
identityRows == <<owner, password, linked, tokens>>
store == <<providers, userRows, emailRows, identityRows, session>>
accountsVars  == <<store, at, stage, call>>

Steps ==
  {"address", "provider", "insertProvider", "user", "findUser", "find", "identity", "email",
   "password", "access", "device", "verify", "credential", "tokens", "issue"}

\* conflict: a unique column refused a row, which no handler catches.
Ended == {"done", "denied", "conflict", "failed"}

Session == [user : Users, owner : Users]

Call ==
  [op      : Operations \cup {Absent},
   code    : Providers \cup {Absent},  \* of the identity it is about, as is
   subject : Subjects \cup {Absent},
   name    : Names \cup {Absent},    \* the address or username it is about
   proven  : BOOLEAN,                \* the caller has shown that the address is theirs
   user    : Users \cup {Absent},    \* the user it goes on with
   owner   : Users \cup {Absent},    \* the user of the identity it goes on with
   marks   : BOOLEAN,                \* the row it found had no verified_at
   beside  : BOOLEAN]                \* history: other calls were under way with it

NoCall ==
  [op |-> Absent, code |-> Absent, subject |-> Absent, name |-> Absent, proven |-> FALSE,
   user |-> Absent, owner |-> Absent, marks |-> FALSE, beside |-> FALSE]

KeyOf(q)   == <<q.code, q.subject>>
Busy(r)    == at[r] # {}
Creator(r) == call[r].user = r

SignedIn(u) == u \in Residents \/ \E s \in Calls : session[s] # Absent /\ session[s].user = u

AccountsInit ==
  /\ providers = {} /\ users = Residents /\ verified = {} /\ password = {}
  /\ linked = {} /\ tokens = {} /\ members = {} /\ devices = {}
  /\ holder = [n \in Names |-> Absent]
  /\ owner = [k \in Providers \X Subjects |-> Absent]
  /\ session = [r \in Calls |-> Absent]
  /\ at = [r \in Calls |-> {}]
  /\ stage = [r \in Calls |-> "idle"]
  /\ call = [r \in Calls |-> NoCall]

-----------------------------------------------------------------------------
(* Steps of a request                                                      *)

\* Call r arrives with request q, and awaits first.
Begin(r, op, q, first) ==
  /\ stage[r] = "idle"
  /\ op \in MayAsk[r]
  /\ at' = [at EXCEPT ![r] = {first}]
  /\ stage' = [stage EXCEPT ![r] = "open"]
  /\ call' = [s \in Calls |->
                IF s = r THEN [q EXCEPT !.op = op,
                                        !.code = IF op = "linkIdentity" THEN @ ELSE CodeOf[op],
                                        !.beside = \E x \in Calls : Busy(x)]
                ELSE IF Busy(s) THEN [call[s] EXCEPT !.beside = TRUE] ELSE call[s]]
  /\ UNCHANGED store

\* What is kept of call r with request q when it has ended.
Ghost(r, q, outcome) ==
  LET opened == outcome = "done" /\ q.user = r
      kept   == opened \/ outcome = "conflict"
  IN [NoCall EXCEPT !.op = q.op,
                    !.code    = IF kept THEN q.code ELSE Absent,
                    !.subject = IF kept THEN q.subject ELSE Absent,
                    !.name    = IF opened THEN q.name ELSE Absent,
                    !.user    = IF q.user = r THEN r ELSE Absent,
                    !.proven  = q.proven /\ outcome = "conflict",
                    !.beside  = q.beside /\ outcome = "conflict"]

\* Mutant: goes on with the first branch of a Promise.all.
ReturnFirst(r, step, q, next) ==
  LET rest  == at[r] \ {step}
      moves == stage[r] = "open"
      ends  == moves /\ next = {}
  IN /\ at' = [at EXCEPT ![r] = IF moves THEN next ELSE rest]
     /\ stage' = [stage EXCEPT ![r] = IF ends THEN "done" ELSE @]
     /\ call' = [call EXCEPT ![r] = IF ends THEN Ghost(r, q, "done") ELSE q]

\* The awaited call step of r has returned.  The last one of a Promise.all
\* takes r on to the calls of next, unless another branch has thrown.
Return(r, step, q, next) ==
  LET rest    == at[r] \ {step}
      then    == IF rest = {} /\ stage[r] = "open" THEN next ELSE rest
      outcome == IF stage[r] = "open" THEN "done" ELSE stage[r]
  IN /\ at' = [at EXCEPT ![r] = then]
     /\ stage' = [stage EXCEPT ![r] = IF then = {} THEN outcome ELSE @]
     /\ call' = [call EXCEPT ![r] = IF then = {} THEN Ghost(r, q, outcome) ELSE q]

\* The awaited call step of r has thrown; the first error is the outcome.
Throw(r, step, error) ==
  LET outcome == IF stage[r] = "open" THEN error ELSE stage[r]
  IN /\ at' = [at EXCEPT ![r] = @ \ {step}]
     /\ stage' = [stage EXCEPT ![r] = outcome]
     /\ call' = [call EXCEPT ![r] = IF at[r] = {step} THEN Ghost(r, @, outcome) ELSE @]

Deny(r, step) == Throw(r, step, "denied") /\ UNCHANGED store

\* The database or the cache fails under a call, which stores nothing.
AwaitFails(r) ==
  /\ \E step \in at[r] : Throw(r, step, "failed")
  /\ UNCHANGED store

-----------------------------------------------------------------------------
(* The calls                                                               *)

SignUp(r) ==
  \E n \in Names :
    Begin(r, "signUp", [NoCall EXCEPT !.subject = n, !.name = n], "address")

SignIn(r) ==
  \E n \in Names :
    Begin(r, "signIn", [NoCall EXCEPT !.subject = n, !.name = n], "address")

\* A mailed code or magic link has been redeemed.
VerifyMailed(r) ==
  \E e \in Emails, op \in Mailed :
    Begin(r, op, [NoCall EXCEPT !.subject = e, !.name = e, !.proven = TRUE], "address")

VerifyPhone(r) ==
  \E p \in Phones : Begin(r, "verifyPhone", [NoCall EXCEPT !.subject = p], "provider")

\* What a strategy's validate returns: a provider vouches for the address
\* of a profile, or does not.
Profiles ==
  {p \in [id : Externals, email : Emails \cup {Absent}, emailVerified : BOOLEAN] :
     p.email = Absent => ~p.emailVerified}

ProviderLogin(r) ==
  \E p \in Profiles :
    Begin(r, "providerLogin",
          [NoCall EXCEPT !.subject = p.id, !.name = p.email, !.proven = p.emailVerified],
          "provider")

\* A signed-in user links whatever subject the client names, at any enabled
\* code: an account at a provider, or an address, a phone, a name.
LinkIdentity(r) ==
  \E code \in Linkable, k \in Subjects, u \in {v \in users : SignedIn(v)} :
    Begin(r, "linkIdentity",
          [NoCall EXCEPT !.code = code, !.subject = k, !.user = u], "findUser")

VerifyEmail(r) ==
  \E e \in Emails :
    Begin(r, "verifyEmail", [NoCall EXCEPT !.name = e, !.proven = TRUE], "address")

-----------------------------------------------------------------------------
(* The awaited calls                                                       *)

FindByProviderAndSubject(q) == owner[KeyOf(q)]

\* Mutant: signUp creates whatever it finds.
FindAddressUnused(r) ==
  /\ "address" \in at[r]
  /\ call[r].op = "signUp"
  /\ Return(r, "address", call[r], {"provider", "user"})
  /\ UNCHANGED store

\* UserEmailRepository.findByEmail, UserRepository.findByUsername.
FindAddress(r) ==
  LET q       == call[r]
      held    == holder[q.name]
      known   == [q EXCEPT !.user = held, !.marks = q.name \notin verified]
      refused == IF q.op = "signUp" THEN held # Absent
                 ELSE q.op \in {"signIn", "verifyEmail"} /\ held = Absent
  IN /\ "address" \in at[r]
     /\ \/ refused /\ Deny(r, "address")
        \/ /\ ~refused
           /\ CASE q.op = "signUp"        -> Return(r, "address", q, {"provider", "user"})
                [] q.op = "verifyEmail"   -> Return(r, "address", known,
                                                    IF known.marks THEN {"verify"} ELSE {})
                [] q.op = "providerLogin" -> Return(r, "address", known,
                                                    IF held = Absent THEN {"user"} ELSE {"identity"})
                [] OTHER                  -> Return(r, "address", known, {"provider"})
           /\ UNCHANGED store

\* The mailed calls decide on the row that FindAddress read.
AfterProvider(q) ==
  CASE q.op = "signUp"                  -> {"identity"}
    [] q.op \in Mailed /\ q.user = Absent -> {"user"}
    [] q.op \in Mailed /\ q.user # Absent -> IF q.marks THEN {"verify"} ELSE {"find"}
    [] OTHER                            -> {"find"}

\* AuthProviderRepository.findByCode, and the insert of findOrCreate.
FindProvider(r) ==
  LET code == call[r].code
  IN /\ "provider" \in at[r]
     /\ \/ /\ code \in providers
           /\ Return(r, "provider", call[r], AfterProvider(call[r]))
           /\ UNCHANGED store
        \/ /\ code \notin providers
           /\ call[r].op = "signIn"
           /\ Deny(r, "provider")
        \/ /\ code \notin providers
           /\ call[r].op # "signIn"
           /\ at' = [at EXCEPT ![r] = (@ \ {"provider"}) \cup {"insertProvider"}]
           /\ UNCHANGED <<store, stage, call>>

InsertProvider(r) ==
  LET code == call[r].code
  IN /\ "insertProvider" \in at[r]
     /\ IF code \in providers
        THEN Throw(r, "insertProvider", "conflict") /\ UNCHANGED store
        ELSE /\ Return(r, "insertProvider", call[r], AfterProvider(call[r]))
             /\ providers' = providers \cup {code}
             /\ UNCHANGED <<userRows, emailRows, identityRows, session>>

\* Mutant: the address is left to the identity.
CreateUserOnly(r) ==
  /\ "user" \in at[r]
  /\ Return(r, "user", [call[r] EXCEPT !.user = r], {"identity"})
  /\ users' = users \cup {r}
  /\ UNCHANGED <<providers, members, devices, emailRows, identityRows, session>>

CreateUser(r) ==
  LET q     == call[r]
      named == q.name \in Usernames
  IN /\ "user" \in at[r]
     /\ IF named /\ holder[q.name] # Absent
        THEN Throw(r, "user", "conflict") /\ UNCHANGED store
        ELSE /\ Return(r, "user", [q EXCEPT !.user = r],
                       IF q.op # "signUp" /\ q.name \in Emails THEN {"email"} ELSE {"identity"})
             /\ users' = users \cup {r}
             /\ holder' = IF named THEN [holder EXCEPT ![q.name] = r] ELSE holder
             /\ UNCHANGED <<providers, members, devices, verified, identityRows, session>>

\* What signUp does at once when its identity is stored.
Branches(q) ==
  {"password", "access", "device"} \cup (IF q.name \in Emails THEN {"email"} ELSE {})

CreateIdentity(r) ==
  LET q == call[r]
  IN /\ "identity" \in at[r]
     /\ IF FindByProviderAndSubject(q) # Absent
        THEN Throw(r, "identity", "conflict") /\ UNCHANGED store
        ELSE /\ Return(r, "identity", [q EXCEPT !.owner = q.user],
                       CASE q.op = "signUp"        -> Branches(q)
                         [] q.op = "providerLogin" -> {"tokens"}
                         [] q.op = "linkIdentity"  -> {}
                         [] OTHER -> IF Creator(r) THEN {"access"} ELSE {"issue"})
             /\ owner' = [owner EXCEPT ![KeyOf(q)] = q.user]
             /\ linked' = IF q.op = "linkIdentity" THEN linked \cup {KeyOf(q)} ELSE linked
             /\ UNCHANGED <<providers, userRows, emailRows, password, tokens, session>>

\* Mutant: the row of the address, whosever it is, is overwritten.
CreateEmailAnyway(r) ==
  LET q == call[r]
  IN /\ "email" \in at[r]
     /\ Return(r, "email", q, IF q.op = "signUp" THEN {"issue"} ELSE {"identity"})
     /\ holder' = [holder EXCEPT ![q.name] = r]
     /\ UNCHANGED <<providers, userRows, verified, identityRows, session>>

CreateEmail(r) ==
  LET q == call[r]
  IN /\ "email" \in at[r]
     /\ IF holder[q.name] # Absent
        THEN Throw(r, "email", "conflict") /\ UNCHANGED store
        ELSE /\ Return(r, "email", q, IF q.op = "signUp" THEN {"issue"} ELSE {"identity"})
             /\ holder' = [holder EXCEPT ![q.name] = r]
             /\ verified' = verified \cup (IF q.proven THEN {q.name} ELSE {})
             /\ UNCHANGED <<providers, userRows, identityRows, session>>

CreatePassword(r) ==
  /\ "password" \in at[r]
  /\ Return(r, "password", call[r], {"issue"})
  /\ password' = password \cup {call[r].subject}
  /\ UNCHANGED <<providers, userRows, emailRows, owner, linked, tokens, session>>

AssignDefaultAccess(r) ==
  /\ "access" \in at[r]
  /\ Return(r, "access", call[r], {"issue"})
  /\ members' = members \cup {call[r].user}
  /\ UNCHANGED <<providers, users, devices, emailRows, identityRows, session>>

FindOrCreateDevice(r) ==
  /\ "device" \in at[r]
  /\ Return(r, "device", call[r], {"issue"})
  /\ devices' = devices \cup {call[r].user}
  /\ UNCHANGED <<providers, users, members, emailRows, identityRows, session>>

\* markAsVerified, of an address whose row had no verified_at when read.
MarkAsVerified(r) ==
  LET q == call[r]
  IN /\ "verify" \in at[r]
     /\ Return(r, "verify", q, IF q.op = "verifyEmail" THEN {} ELSE {"find"})
     /\ verified' = verified \cup {q.name}
     /\ UNCHANGED <<providers, userRows, holder, identityRows, session>>

\* Mutant: a provider login looks for its address, verified or not.
FindIdentityOrAddress(r) ==
  LET q     == call[r]
      found == FindByProviderAndSubject(q)
  IN /\ "find" \in at[r]
     /\ q.op = "providerLogin"
     /\ Return(r, "find", [q EXCEPT !.owner = found],
               IF found # Absent THEN {"findUser"}
               ELSE IF q.name # Absent THEN {"address"} ELSE {"user"})
     /\ UNCHANGED store

FindIdentity(r) ==
  LET q     == call[r]
      found == FindByProviderAndSubject(q)
      known == [q EXCEPT !.owner = found]
  IN /\ "find" \in at[r]
     /\ \/ /\ q.op \in Mailed
           /\ Return(r, "find", known, IF found = Absent THEN {"identity"} ELSE {"issue"})
           /\ UNCHANGED store
        \/ /\ q.op \in {"verifyPhone", "providerLogin"}
           /\ Return(r, "find", known,
                     IF found # Absent THEN {"findUser"}
                     ELSE IF q.proven THEN {"address"} ELSE {"user"})
           /\ UNCHANGED store
        \/ /\ q.op = "linkIdentity" /\ found \in {Absent, q.user}
           /\ Return(r, "find", known, IF found = Absent THEN {"identity"} ELSE {})
           /\ UNCHANGED store
        \/ /\ q.op = "signIn" /\ found # Absent
           /\ Return(r, "find", known, {"credential"})
           /\ UNCHANGED store
        \/ /\ \/ q.op = "linkIdentity" /\ found \notin {Absent, q.user}
              \/ q.op = "signIn" /\ found = Absent
           /\ Deny(r, "find")

\* UserRepository.findById: of the identity's user, or of the caller.
FindUser(r) ==
  LET q == call[r]
  IN /\ "findUser" \in at[r]
     /\ CASE q.op = "linkIdentity" -> Return(r, "findUser", q, {"provider"})
          [] q.op = "verifyPhone"  -> Return(r, "findUser", [q EXCEPT !.user = q.owner], {"issue"})
          [] OTHER                 -> Return(r, "findUser", [q EXCEPT !.user = q.owner], {"tokens"})
     /\ UNCHANGED store

\* PasswordCredentialRepository.findByIdentityId.
FindCredential(r) ==
  /\ "credential" \in at[r]
  /\ IF call[r].subject \in password
     THEN Return(r, "credential", call[r], {"issue"}) /\ UNCHANGED store
     ELSE Deny(r, "credential")

PersistProviderTokens(r) ==
  /\ "tokens" \in at[r]
  /\ Return(r, "tokens", call[r], IF Creator(r) THEN {"access"} ELSE {"issue"})
  /\ tokens' = tokens \cup {call[r].subject}
  /\ UNCHANGED <<providers, userRows, emailRows, owner, password, linked, session>>

\* issueSessionAndTokens, and the ends of signUp and signIn.
IssueSession(r) ==
  LET q == call[r]
  IN /\ "issue" \in at[r]
     /\ Return(r, "issue", q, {})
     /\ session' = [session EXCEPT ![r] = [user |-> q.user, owner |-> q.owner]]
     /\ devices' = devices \cup {q.user}
     /\ UNCHANGED <<providers, users, members, emailRows, identityRows>>

AccountsNext ==
  \E r \in Calls :
    \/ SignUp(r) \/ SignIn(r) \/ VerifyMailed(r) \/ VerifyPhone(r) \/ ProviderLogin(r)
    \/ LinkIdentity(r) \/ VerifyEmail(r)
    \/ FindAddress(r) \/ FindProvider(r) \/ InsertProvider(r) \/ CreateUser(r)
    \/ CreateIdentity(r) \/ CreateEmail(r) \/ CreatePassword(r) \/ AssignDefaultAccess(r)
    \/ FindOrCreateDevice(r) \/ MarkAsVerified(r) \/ FindIdentity(r) \/ FindUser(r)
    \/ FindCredential(r) \/ PersistProviderTokens(r) \/ IssueSession(r)
    \/ AwaitFails(r)

AccountsSpec == AccountsInit /\ [][AccountsNext]_accountsVars

-----------------------------------------------------------------------------
(* Correctness.                                                            *)

AccountsTypeOK ==
  /\ providers \subseteq Providers
  /\ users \subseteq Users
  /\ holder \in [Names -> users \cup {Absent}]
  /\ verified \subseteq {e \in Emails : holder[e] # Absent}
  /\ owner \in [Providers \X Subjects -> users \cup {Absent}]
  /\ password \subseteq {n \in Names : owner[<<"local", n>>] # Absent}
  /\ linked \subseteq {k \in Providers \X Subjects : owner[k] # Absent}
  /\ tokens \subseteq {x \in Externals : owner[<<"oauth", x>>] # Absent}
  /\ members \subseteq users /\ devices \subseteq users
  /\ session \in [Calls -> Session \cup {Absent}]
  /\ at \in [Calls -> SUBSET Steps]
  /\ stage \in [Calls -> Ended \cup {"idle", "open"}]
  /\ call \in [Calls -> Call]

(* A call that created an account and answered left all of it behind: its  *)
(* address and its identity lead to it, and it has its credential, its     *)
(* default access and its device, whatever ran beside it.                  *)
CompleteAccounts ==
  \A r \in Calls : stage[r] = "done" /\ Creator(r) =>
    LET q == call[r]
    IN /\ r \in users \cap members \cap devices
       /\ owner[KeyOf(q)] = r
       /\ q.name # Absent => holder[q.name] = r
       /\ q.op = "signUp" => q.subject \in password
       /\ session[r] = [user |-> r, owner |-> r]

(* A code or a link mailed to an address, whoever redeemed it first, signs *)
(* in the user the address belongs to, unless somebody linked that very    *)
(* identity to an account of theirs.                                       *)
MailedIdentitiesAgree ==
  \A e \in Emails, code \in {"email_otp", "magic_link"} :
    owner[<<code, e>>] \in {Absent, holder[e]} \/ <<code, e>> \in linked

(* A session is of a user who is not the user of its identity in two ways  *)
(* only: a signIn with the identity of a signUp that another account       *)
(* forestalled on the address, or that failed before it took it; and a     *)
(* mailed code or link whose identity somebody else had linked.            *)
MixedSessionsExplained ==
  \A r \in Calls : session[r] # Absent /\ session[r].user # session[r].owner =>
    \/ LET s == session[r].owner
       IN call[r].op = "signIn" /\ call[s].op = "signUp" /\ stage[s] # "done"
    \/ /\ call[r].op \in Mailed
       /\ \E e \in Emails :
            LET k == <<CodeOf[call[r].op], e>>
            IN k \in linked /\ session[r] = [user |-> holder[e], owner |-> owner[k]]

(* A new identity belongs to the user its own call created, to the holder  *)
(* of an address the call has proven, or to the signed-in caller.          *)
AttachedByProof ==
  [][\A k \in Providers \X Subjects : owner[k] # owner'[k] =>
       \E r \in Calls :
         /\ "identity" \in at[r] /\ at'[r] # at[r]
         /\ k = KeyOf(call[r])
         /\ \/ owner'[k] = r
            \/ call[r].proven /\ owner'[k] = holder[call[r].name]
            \/ call[r].op = "linkIdentity" /\ SignedIn(owner'[k])]_accountsVars

(* A call that ran alone meets a unique column only if an earlier one      *)
(* broke off half-way, if somebody has linked the identity it creates, or  *)
(* if it is a provider login with an unverified address.                   *)
ConflictsExplained ==
  \A r \in Calls : stage[r] = "conflict" =>
    \/ call[r].beside
    \/ call[r].op = "providerLogin" /\ ~call[r].proven
    \/ KeyOf(call[r]) \in linked
    \/ \E s \in Calls \ {r} : stage[s] \in {"conflict", "failed"}

-----------------------------------------------------------------------------
(* The inductive invariant: what a call that is under way has found and    *)
(* done, and what it can rely on while it is alone.                        *)

Opening   == {"provider", "insertProvider", "user"}
Branching == {"password", "access", "device", "email"}

\* What a call is about, from its arrival to its end.
About(q) ==
  /\ q.op \in Operations
  /\ q.op \in {"signUp", "signIn"} => q.subject \in Names /\ q.name = q.subject
  /\ q.op \in Mailed => q.subject \in Emails /\ q.name = q.subject /\ q.proven
  /\ q.op = "verifyPhone" => q.subject \in Phones /\ q.name = Absent /\ ~q.proven
  /\ q.op = "providerLogin" => /\ q.subject \in Externals /\ q.name \in Emails \cup {Absent}
                               /\ q.proven => q.name # Absent
  /\ q.op = "linkIdentity" => q.code \in Providers /\ q.subject \in Subjects /\ q.name = Absent
  /\ q.op # "linkIdentity" => q.code = CodeOf[q.op]
  /\ q.op = "verifyEmail" => q.name \in Emails

\* It goes on with the user who holds the address, or with a signed-in one.
Known(q)  == q.user # Absent /\ q.user = holder[q.name]
Linked(q) == SignedIn(q.user)
Identified(q) == q.owner # Absent /\ q.owner = FindByProviderAndSubject(q)

\* What a branch of signUp leaves behind.
Result(r, q, branch) ==
  CASE branch = "password" -> q.subject \in password
    [] branch = "access"   -> r \in members
    [] branch = "device"   -> r \in devices
    [] branch = "email"    -> holder[q.name] = r

\* Call r, with request q, at the call step: before it has a user of its own, ...
Unserved(r, q, step) ==
  /\ step = "address" =>
       /\ q.user = Absent
       /\ q.op \in Mailed \cup {"signUp", "signIn", "providerLogin", "verifyEmail"}
       /\ q.op = "providerLogin" => q.proven
  /\ step \in {"provider", "insertProvider"} =>
       /\ q.op # "verifyEmail"
       /\ q.op = "signIn" => Known(q)
       /\ q.op \in Mailed => q.user = Absent \/ Known(q)
       /\ q.op \in {"verifyPhone", "providerLogin"} => q.user = Absent
       /\ q.op = "linkIdentity" => Linked(q)
       /\ q.op # "signUp" => q.user # r
  /\ step = "user" => q.user = Absent /\ q.op \notin {"signIn", "linkIdentity", "verifyEmail"}
  /\ step = "find" =>
       /\ q.op \notin {"signUp", "verifyEmail"}
       /\ q.op \in Mailed \cup {"signIn"} => Known(q)
       /\ q.op \in {"verifyPhone", "providerLogin"} => q.user = Absent
       /\ q.op = "linkIdentity" => Linked(q)
       /\ q.user # r
  /\ step = "findUser" =>
       /\ q.op \in {"verifyPhone", "providerLogin", "linkIdentity"}
       /\ q.op = "linkIdentity" => Linked(q)
       /\ q.op # "linkIdentity" => Identified(q)
       /\ q.user # r
  /\ step = "verify" => q.op \in Mailed \cup {"verifyEmail"} /\ Known(q) /\ q.user # r
  /\ step = "credential" => q.op = "signIn" /\ Known(q) /\ Identified(q) /\ q.user # r

\* ... and when it has one.
Served(r, q, step) ==
  /\ step = "email" => /\ q.user = r /\ q.name \in Emails
                       /\ q.op \in Mailed \cup {"signUp", "providerLogin"}
  /\ step = "identity" =>
       /\ q.op \notin {"signIn", "verifyEmail"}
       /\ q.op \in {"signUp", "verifyPhone"} => q.user = r
       /\ q.op \in Mailed => Known(q)
       /\ q.op = "providerLogin" => q.user = r \/ (q.proven /\ Known(q))
       /\ q.op = "linkIdentity" => Linked(q) /\ q.user # r
  /\ step \in {"password", "access", "device", "tokens", "issue"} => Identified(q) /\ q.user # Absent
  /\ step \in {"password", "device"} => q.op = "signUp"
  /\ step = "tokens" => q.op = "providerLogin"
  /\ step = "access" => /\ q.op \in Mailed \cup {"signUp", "verifyPhone", "providerLogin"}
                        /\ q.user = r /\ q.owner = r
  /\ step \in {"tokens", "issue"} =>
       /\ q.op \notin {"linkIdentity", "verifyEmail"}
       /\ \/ q.user = q.owner /\ q.op # "signIn"
          \/ /\ q.op \in Mailed \cup {"signIn"} /\ Known(q) /\ q.user # r
             /\ q.op = "signIn" => q.subject \in password
             /\ q.op \in Mailed => KeyOf(q) \in linked
  /\ step = "issue" /\ q.user = r =>
       /\ r \in members
       /\ q.name # Absent => holder[q.name] = r
       /\ q.op = "signUp" => r \in devices /\ q.subject \in password

\* The calls a that call r, with request q, has under way, and how far it is.
Together(r, q, a, p) ==
  /\ q.op # "signUp" => p = "open" /\ \E step \in Steps : a = {step}
  /\ q.op = "signUp" =>
       /\ \/ a \subseteq Opening \/ a \subseteq Branches(q)
          \/ a \in {{"address"}, {"identity"}, {"issue"}} /\ p = "open"
       /\ p = "open" /\ a \subseteq Opening /\ "user" \notin a => q.user = r
       /\ a \subseteq Branches(q) => /\ q.user = r /\ q.owner = r /\ Identified(q) /\ KeyOf(q) \notin linked
                                     /\ p = "open" => \A b \in Branches(q) \ a : Result(r, q, b)
       /\ "issue" \in a => q.user = r
  /\ q.user = r /\ q.name \in Usernames => holder[q.name] = r
  /\ q.user = r /\ q.op # "signUp" /\ q.name # Absent /\ "email" \notin a => holder[q.name] = r

\* Another call has broken off.
Broken(r) == \E s \in Calls \ {r} : stage[s] \in {"conflict", "failed"}

\* What no other call can change while r is alone: the rows it did not find.
Alone(r, q, a) ==
  /\ "insertProvider" \in a => q.code \notin providers
  /\ \/ "user" \in a \/ "email" \in a
     \/ q.op = "signUp" /\ (a \subseteq Opening \/ a = {"identity"}) /\ q.name \in Emails
     \/ q.op \in Mailed /\ q.user = Absent /\ "address" \notin a
     => \/ q.name = Absent \/ holder[q.name] = Absent
        \/ q.op = "providerLogin" /\ ~q.proven
  /\ \/ q.op = "signUp" /\ (a \subseteq Opening \/ a = {"identity"})
     \/ q.op # "signUp" /\ a \cap {"user", "email", "identity"} # {}
     \/ q.op = "providerLogin" /\ "address" \in a
     => FindByProviderAndSubject(q) = Absent \/ KeyOf(q) \in linked \/ Broken(r)

Fits(r, q, a, p) ==
  /\ p = "idle" => a = {} /\ q = NoCall
  /\ p \in {"done", "denied"} => a = {}
  /\ p = "done" /\ q.user = r => q.op \in Operations /\ KeyOf(q) \in Providers \X Subjects
  /\ p = "open" => a # {}
  /\ a # {} => About(q) /\ Together(r, q, a, p)
  /\ \A step \in a : Unserved(r, q, step) /\ Served(r, q, step)
  /\ p = "open" /\ ~q.beside => Alone(r, q, a)

\* A user is there from before, or as soon as its call goes on with it.
UsersOwn == Residents \subseteq users /\ \A r \in Calls : r \in users <=> Creator(r)

\* A local identity that is not linked is of a signUp, which takes the name if
\* it is answered; only such a one has a password.
LocalOwners ==
  \A n \in Names : LET s == owner[<<"local", n>>] IN
    /\ <<"local", n>> \in linked => n \notin password
    /\ s # Absent /\ <<"local", n>> \notin linked =>
         /\ s \in Calls /\ call[s].op = "signUp" /\ stage[s] \in {"open", "done", "conflict", "failed"}
         /\ stage[s] = "open" => call[s].name = n
         /\ stage[s] = "done" => holder[n] = s

\* The session of a call of op is of the user of its identity, or the call
\* took the holder of the address and the identity as it found it.
Signed(s, op) ==
  \/ s.user = s.owner
  \/ /\ op = "signIn"
     /\ \E n \in password : s = [user |-> holder[n], owner |-> owner[<<"local", n>>]]
  \/ /\ op \in Mailed
     /\ \E e \in Emails : /\ <<CodeOf[op], e>> \in linked
                          /\ s = [user |-> holder[e], owner |-> owner[<<CodeOf[op], e>>]]

\* Whose session a call has issued.
SessionsExplained ==
  \A r \in Calls : session[r] # Absent =>
    /\ stage[r] = "done"
    /\ session[r].user \in users /\ session[r].owner \in users
    /\ Signed(session[r], call[r].op)

\* Calls that are under way together know it.
BesideKnown ==
  \A r, s \in Calls : r # s /\ Busy(r) /\ Busy(s) => call[r].beside

AccountsInv ==
  /\ AccountsTypeOK
  /\ \A r \in Calls : Fits(r, call[r], at[r], stage[r])
  /\ UsersOwn /\ LocalOwners /\ SessionsExplained /\ BesideKnown
  /\ CompleteAccounts /\ MailedIdentitiesAgree /\ ConflictsExplained
=============================================================================
