----------------------------- MODULE OAuthState -----------------------------
(***************************************************************************)
(* The state tokens of the provider redirects in authentication/:          *)
(* createKvOAuthStateStore, for one provider.  A flow stores its token and *)
(* sets the one cookie the browser has for the provider; the callback      *)
(* comes back with the token, and with the cookie the browser has then.    *)
(* Answers overtake each other, a callback may be sent twice or by another *)
(* browser, and tokens and cookies expire.                                 *)
(*                                                                         *)
(* Each f in Flows is one redirect, and its token; each c in Callbacks is  *)
(* one callback.  What follows an accepted one is in Accounts.             *)
(***************************************************************************)

CONSTANTS
  Flows, Callbacks, Browsers, None,
  BrowserOf    \* BrowserOf[f]: the browser that starts flow f

ASSUME OAuthStateAssumption ==
  /\ None \notin Flows
  /\ BrowserOf \in [Flows -> Browsers]

VARIABLES
  keys,      \* oauth:state:<provider>:<token>
  at,        \* of each flow
  jar,       \* the cookie oauth_state_<provider> of each browser
  lapsed,    \* history: the flows whose key, the browsers whose cookie expired
  call       \* of each callback

vars == <<keys, at, jar, lapsed, call>>

Call ==
  [pc      : {"idle", "get", "del", "accepted", "refused", "failed"},
   flow    : Flows \cup {None},     \* its state parameter
   browser : Browsers \cup {None},
   cookie  : Flows \cup {None},     \* its Cookie header
   claim   : {"idle", "holds", "missed", "through", "refused"}, \* history: its token
   rivals  : SUBSET Callbacks]      \* history: the callbacks that held it as well

NoCall == [pc |-> "idle", flow |-> None, browser |-> None, cookie |-> None,
           claim |-> "idle", rivals |-> {}]

Init ==
  /\ keys = {}
  /\ at = [f \in Flows |-> "idle"]
  /\ jar = [b \in Browsers |-> None]
  /\ lapsed = {}
  /\ call = [c \in Callbacks |-> NoCall]

-----------------------------------------------------------------------------
\* store: the key is set, and the redirect with its cookie is on its way.
Store(f) ==
  /\ at[f] = "idle"
  /\ keys' = keys \cup {f}
  /\ at' = [at EXCEPT ![f] = "redirected"]
  /\ UNCHANGED <<jar, lapsed, call>>

\* The browser takes the answer; a cookie that could not be set is lost.
Redirect(f) ==
  /\ at[f] = "redirected"
  /\ \/ jar' = [jar EXCEPT ![BrowserOf[f]] = f]
     \/ jar' = jar
  /\ at' = [at EXCEPT ![f] = IF jar' = jar THEN "bare" ELSE "consent"]
  /\ UNCHANGED <<keys, lapsed, call>>

\* STATE_TTL_SECONDS, of the key and of the cookie.
ExpireKey(f) ==
  /\ f \in keys
  /\ keys' = keys \ {f}
  /\ lapsed' = lapsed \cup {f}
  /\ UNCHANGED <<at, jar, call>>

ExpireCookie(b) ==
  /\ jar[b] # None
  /\ jar' = [jar EXCEPT ![b] = None]
  /\ lapsed' = lapsed \cup {b}
  /\ UNCHANGED <<keys, at, call>>

\* A browser brings back the state of a flow that has reached the provider.
Callback(c, f, b) ==
  /\ call[c].pc = "idle"
  /\ at[f] \in {"consent", "bare"}
  /\ call' = [call EXCEPT ![c] = [NoCall EXCEPT !.pc = "get", !.flow = f, !.browser = b,
                                                !.cookie = jar[b]]]
  /\ UNCHANGED <<keys, at, jar, lapsed>>

\* Mutant: the key is deleted before it is read.
GetDeleted(c) ==
  /\ call[c].pc = "get"
  /\ keys' = keys \ {call[c].flow}
  /\ call' = [call EXCEPT ![c].pc = "del", ![c].claim = "missed"]
  /\ UNCHANGED <<at, jar, lapsed>>

Get(c) ==
  LET holding == {d \in Callbacks : call[d].claim = "holds" /\ call[d].flow = call[c].flow}
  IN /\ call[c].pc = "get"
     /\ call' = IF call[c].flow \in keys
                THEN [d \in Callbacks |->
                        IF d = c THEN [call[c] EXCEPT !.pc = "del", !.claim = "holds", !.rivals = holding]
                        ELSE IF d \in holding THEN [call[d] EXCEPT !.rivals = @ \cup {c}] ELSE call[d]]
                ELSE [call EXCEPT ![c].pc = "del", ![c].claim = "missed"]
     /\ UNCHANGED <<keys, at, jar, lapsed>>

\* Mutant: what was accepted is left in the store.
DeleteRefused(c) ==
  LET q     == call[c]
      right == q.claim = "holds" /\ q.cookie = q.flow
  IN /\ q.pc = "del"
     /\ keys' = IF right THEN keys ELSE keys \ {q.flow}
     /\ call' = [call EXCEPT ![c].pc = IF right THEN "accepted" ELSE "refused",
                             ![c].claim = IF @ = "holds" THEN "through" ELSE "refused"]
     /\ UNCHANGED <<at, jar, lapsed>>

\* Mutant: the cookie is not compared.
DeleteUnbound(c) ==
  LET q == call[c]
  IN /\ q.pc = "del"
     /\ keys' = keys \ {q.flow}
     /\ call' = [call EXCEPT ![c].pc = IF q.claim = "holds" THEN "accepted" ELSE "refused",
                             ![c].claim = IF @ = "holds" THEN "through" ELSE "refused"]
     /\ UNCHANGED <<at, jar, lapsed>>

\* del, then the verdict: the key was there, and the cookie is the state.
Delete(c) ==
  LET q == call[c]
  IN /\ q.pc = "del"
     /\ keys' = keys \ {q.flow}
     /\ call' = [call EXCEPT ![c].pc = IF q.claim = "holds" /\ q.cookie = q.flow
                                       THEN "accepted" ELSE "refused",
                             ![c].claim = IF @ = "holds" THEN "through" ELSE "refused"]
     /\ UNCHANGED <<at, jar, lapsed>>

\* The key-value store fails: done is called with the error.
CallFails(c) ==
  /\ call[c].pc \in {"get", "del"}
  /\ call' = [call EXCEPT ![c].pc = "failed"]
  /\ UNCHANGED <<keys, at, jar, lapsed>>

Next ==
  \/ \E f \in Flows : Store(f) \/ Redirect(f) \/ ExpireKey(f)
  \/ \E b \in Browsers : ExpireCookie(b)
  \/ \E c \in Callbacks :
       \/ \E f \in Flows, b \in Browsers : Callback(c, f, b)
       \/ Get(c) \/ Delete(c) \/ CallFails(c)

Spec == Init /\ [][Next]_vars

-----------------------------------------------------------------------------
(* Correctness.                                                            *)

TypeOK ==
  /\ keys \subseteq {f \in Flows : at[f] # "idle"}
  /\ at \in [Flows -> {"idle", "redirected", "consent", "bare"}]
  /\ jar \in [Browsers -> Flows \cup {None}]
  /\ \A b \in Browsers : jar[b] # None => BrowserOf[jar[b]] = b
  /\ lapsed \subseteq Flows \cup Browsers
  /\ call \in [Callbacks -> Call]

(* A callback is accepted only from the browser that started its flow.     *)
OwnBrowserOnly ==
  \A c \in Callbacks : call[c].pc = "accepted" => call[c].browser = BrowserOf[call[c].flow]

(* A callback of the browser that started the flow is refused only if the  *)
(* key or the cookie expired, the cookie was lost, the flow called back    *)
(* before, or the browser started another flow meanwhile: one cookie per   *)
(* provider, so that of two tabs only the later one can finish.            *)
RefusalsExplained ==
  \A c \in Callbacks :
    LET f == call[c].flow
        b == call[c].browser
    IN call[c].pc = "refused" /\ b = BrowserOf[f] =>
         \/ f \in lapsed \/ b \in lapsed \/ at[f] = "bare"
         \/ \E d \in Callbacks \ {c} : call[d].flow = f
         \/ \E g \in Flows \ {f} : BrowserOf[g] = b /\ at[g] = "consent"

\* The refinement mapping: callers and tokens are callbacks and flows.
Claims == INSTANCE OneUse WITH
  Callers <- Callbacks, Tokens <- Flows,
  ever <- {f \in Flows : at[f] # "idle"}, stored <- keys,
  phase <- [c \in Callbacks |-> call[c].claim],
  token <- [c \in Callbacks |-> call[c].flow],
  rivals <- [c \in Callbacks |-> call[c].rivals]

(* A state token is consumed the way a one-use token is: what OneUse says  *)
(* of a token, and proves, holds of the states of the redirects.           *)
ImplementsOneUse == Claims!Spec

=============================================================================
