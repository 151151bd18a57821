-------------------------- MODULE OAuthStateProofs --------------------------
(***************************************************************************)
(* Proofs about OAuthState, for any flows, callbacks and browsers, and     *)
(* about Passkey, for any calls and authenticators: the two that consume   *)
(* one-use tokens of the key-value store, and share no state.              *)
(***************************************************************************)
EXTENDS OAuthState, Passkey, TLAPS

(***************************************************************************)
(* The inductive invariant: why a key or a cookie that was there is gone,  *)
(* and what a callback has seen of them.                                   *)
(***************************************************************************)
Reached == {"consent", "bare"}

KeysExplained ==
  \A f \in Flows :
    at[f] # "idle" /\ f \notin keys =>
      \/ f \in lapsed
      \/ \E d \in Callbacks : call[d].flow = f /\ call[d].pc \in {"accepted", "refused"}

\* Another flow of browser b has set its cookie after f did.
Overtaken(f, b) == \E g \in Flows \ {f} : BrowserOf[g] = b /\ at[g] = "consent"

JarExplained ==
  \A f \in Flows :
    at[f] = "consent" /\ jar[BrowserOf[f]] # f =>
      BrowserOf[f] \in lapsed \/ Overtaken(f, BrowserOf[f])

\* Why callback c finds no key, ...
Gone(c) ==
  \/ call[c].flow \in lapsed
  \/ \E d \in Callbacks \ {c} : call[d].flow = call[c].flow

\* ... and why its browser sends another cookie than it was given.
Displaced(c) ==
  \/ call[c].browser \in lapsed
  \/ at[call[c].flow] = "bare"
  \/ Overtaken(call[c].flow, call[c].browser)

CallInv(c) ==
  /\ call[c].pc = "idle" => call[c] = NoCall
  /\ call[c].pc # "idle" =>
       /\ call[c].flow \in Flows /\ call[c].browser \in Browsers
       /\ at[call[c].flow] \in Reached
       /\ call[c].cookie # None => BrowserOf[call[c].cookie] = call[c].browser
       /\ call[c].browser = BrowserOf[call[c].flow] /\ call[c].cookie # call[c].flow =>
            Displaced(c)
  /\ call[c].pc = "get" => call[c].claim = "idle"
  /\ call[c].pc = "del" => call[c].claim \in {"holds", "missed"}
  /\ call[c].pc = "accepted" => call[c].cookie = call[c].flow
  /\ call[c].pc = "refused" => call[c].claim = "refused" \/ call[c].cookie # call[c].flow
  /\ call[c].claim \in {"missed", "refused"} => Gone(c)

StateInv ==
  /\ TypeOK
  /\ KeysExplained
  /\ JarExplained
  /\ \A c \in Callbacks : CallInv(c)

(* The initial state satisfies it.                                         *)
LEMMA StateInit == Init => StateInv
  BY OAuthStateAssumption
  DEF OAuthStateAssumption, Init, StateInv, TypeOK, KeysExplained, JarExplained, CallInv,
      NoCall, Call

(* No step takes back what explains a key, a cookie or a refusal.          *)
Grows ==
  /\ lapsed \subseteq lapsed'
  /\ \A f \in Flows : at[f] \in Reached => at'[f] = at[f]
  /\ \A c \in Callbacks : call[c].pc # "idle" =>
       /\ call'[c].pc # "idle"
       /\ call'[c].flow = call[c].flow
       /\ call'[c].browser = call[c].browser
       /\ call'[c].cookie = call[c].cookie

(* Explanations last.                                                      *)
LEMMA ExplanationsLast ==
  ASSUME StateInv, Grows, NEW c \in Callbacks, call[c].pc # "idle"
  PROVE  /\ Gone(c) => Gone(c)'
         /\ Displaced(c) => Displaced(c)'
<1>a. TypeOK /\ \A d \in Callbacks : CallInv(d)
  BY DEF StateInv
<1>1. call'[c].flow = call[c].flow /\ call[c].flow \in Flows /\ call'[c].browser = call[c].browser
  BY <1>a DEF Grows, CallInv
<1>2. ASSUME Gone(c) PROVE Gone(c)'
  <2>1. CASE call[c].flow \in lapsed
    BY <1>1, <2>1 DEF Grows, Gone
  <2>2. CASE \E d \in Callbacks \ {c} : call[d].flow = call[c].flow
    <3>1. PICK d \in Callbacks \ {c} : call[d].flow = call[c].flow
      BY <2>2
    <3>2. call[d].pc # "idle"
      BY <1>a, <1>1, <3>1, OAuthStateAssumption DEF CallInv, NoCall, OAuthStateAssumption
    <3>3. call'[d].flow = call'[c].flow
      BY <1>1, <3>1, <3>2 DEF Grows
    <3>4. QED BY <3>3 DEF Gone
  <2>3. QED BY <1>2, <2>1, <2>2 DEF Gone
<1>3. ASSUME Displaced(c) PROVE Displaced(c)'
  BY <1>1, <1>3 DEF Grows, Displaced, Overtaken, Reached
<1>4. QED BY <1>2, <1>3

(* A callback that did not move keeps what is known of it.                 *)
LEMMA CallKept ==
  ASSUME StateInv, Grows, NEW c \in Callbacks,
         call'[c].pc = call[c].pc, call'[c].claim = call[c].claim,
         call[c].pc = "idle" => call'[c] = call[c]
  PROVE  CallInv(c)'
<1>a. CallInv(c)
  BY DEF StateInv
<1>1. CASE call[c].pc = "idle"
  BY <1>1, <1>a DEF CallInv, NoCall
<1>2. CASE call[c].pc # "idle"
  <2>1. /\ call'[c].flow = call[c].flow /\ call'[c].browser = call[c].browser
        /\ call'[c].cookie = call[c].cookie /\ at'[call[c].flow] = at[call[c].flow]
    BY <1>2, <1>a DEF Grows, CallInv
  <2>2. /\ Gone(c) => Gone(c)'
        /\ Displaced(c) => Displaced(c)'
    BY <1>2, ExplanationsLast
  <2>3. QED BY <1>2, <1>a, <2>1, <2>2 DEF CallInv
<1>3. QED BY <1>1, <1>2

(* A key is stored, taken to the provider, or expires; so does a cookie.   *)
LEMMA FlowSteps ==
  ASSUME StateInv,
         \/ \E f \in Flows : Store(f) \/ Redirect(f) \/ ExpireKey(f)
         \/ \E b \in Browsers : ExpireCookie(b)
  PROVE  StateInv' /\ call' = call
<1> USE OAuthStateAssumption DEF OAuthStateAssumption
<1>a. TypeOK /\ KeysExplained /\ JarExplained
  BY DEF StateInv
<1>b. /\ at \in [Flows -> {"idle", "redirected", "consent", "bare"}]
      /\ keys \subseteq {f \in Flows : at[f] # "idle"} /\ lapsed \subseteq Flows \cup Browsers
      /\ call \in [Callbacks -> Call]
      /\ jar \in [Browsers -> Flows \cup {None}]
      /\ \A b \in Browsers : jar[b] # None => BrowserOf[jar[b]] = b
  BY <1>a DEF TypeOK
<1>c. ASSUME Grows, call' = call PROVE \A c \in Callbacks : CallInv(c)'
  BY <1>c, CallKept
<1>1. ASSUME NEW f \in Flows, Store(f) PROVE StateInv' /\ call' = call
  <2>1. /\ at[f] = "idle" /\ keys' = keys \cup {f} /\ at' = [at EXCEPT ![f] = "redirected"]
        /\ jar' = jar /\ lapsed' = lapsed /\ call' = call
    BY <1>1 DEF Store
  <2>2. at'[f] = "redirected" /\ \A g \in Flows \ {f} : at'[g] = at[g]
    BY <1>b, <2>1
  <2>3. TypeOK'
    BY <1>b, <2>1, <2>2 DEF TypeOK
  <2>4. Grows
    BY <2>1, <2>2 DEF Grows, Reached
  <2>5. KeysExplained'
    BY <1>a, <2>1, <2>2 DEF KeysExplained
  <2>6. JarExplained'
    BY <1>a, <2>1, <2>2 DEF JarExplained, Overtaken
  <2>7. QED BY <1>c, <2>1, <2>3, <2>4, <2>5, <2>6 DEF StateInv
<1>2. ASSUME NEW f \in Flows, Redirect(f) PROVE StateInv' /\ call' = call
  <2>1. /\ at[f] = "redirected" /\ keys' = keys /\ lapsed' = lapsed /\ call' = call
        /\ at' \in [Flows -> {"idle", "redirected", "consent", "bare"}]
        /\ \A g \in Flows \ {f} : at'[g] = at[g]
        /\ at'[f] \in Reached
    BY <1>2, <1>b DEF Redirect, Reached
  <2>2. \/ jar' = jar /\ at'[f] = "bare"
        \/ jar' = [jar EXCEPT ![BrowserOf[f]] = f] /\ at'[f] = "consent"
    BY <1>2, <1>b DEF Redirect
  <2>3. /\ jar' \in [Browsers -> Flows \cup {None}]
        /\ \A b \in Browsers : jar'[b] # None => BrowserOf[jar'[b]] = b
    BY <1>b, <2>2
  <2>4. TypeOK'
    BY <1>b, <2>1, <2>3 DEF TypeOK, Reached
  <2>5. Grows
    BY <2>1 DEF Grows, Reached
  <2>6. KeysExplained'
    BY <1>a, <2>1 DEF KeysExplained
  <2>7. JarExplained'
    <3> SUFFICES ASSUME NEW g \in Flows, at'[g] = "consent", jar'[BrowserOf[g]] # g
                 PROVE  BrowserOf[g] \in lapsed' \/ Overtaken(g, BrowserOf[g])'
      BY DEF JarExplained
    <3>1. CASE g = f
      BY <3>1, <1>b, <2>1, <2>2 DEF JarExplained
    <3>2. CASE g # f /\ jar[BrowserOf[g]] = g
      <4>1. at'[f] = "consent" /\ BrowserOf[f] = BrowserOf[g]
        BY <1>b, <2>2, <3>2
      <4>2. QED BY <3>2, <4>1 DEF Overtaken
    <3>3. CASE g # f /\ jar[BrowserOf[g]] # g
      <4>1. BrowserOf[g] \in lapsed \/ Overtaken(g, BrowserOf[g])
        BY <1>a, <2>1, <3>3 DEF JarExplained
      <4>2. QED BY <2>1, <4>1 DEF Overtaken
    <3>4. QED BY <3>1, <3>2, <3>3
  <2>8. QED BY <1>c, <2>1, <2>4, <2>5, <2>6, <2>7 DEF StateInv
<1>3. ASSUME NEW f \in Flows, ExpireKey(f) PROVE StateInv' /\ call' = call
  <2>1. /\ keys' = keys \ {f} /\ lapsed' = lapsed \cup {f}
        /\ at' = at /\ jar' = jar /\ call' = call
    BY <1>3 DEF ExpireKey
  <2>2. TypeOK' /\ Grows /\ KeysExplained' /\ JarExplained'
    BY <1>a, <1>b, <2>1 DEF TypeOK, Grows, KeysExplained, JarExplained, Overtaken
  <2>3. QED BY <1>c, <2>1, <2>2 DEF StateInv
<1>4. ASSUME NEW b \in Browsers, ExpireCookie(b) PROVE StateInv' /\ call' = call
  <2>1. /\ jar' = [jar EXCEPT ![b] = None] /\ lapsed' = lapsed \cup {b}
        /\ keys' = keys /\ at' = at /\ call' = call
    BY <1>4 DEF ExpireCookie
  <2>2. TypeOK' /\ Grows /\ KeysExplained'
    BY <1>a, <1>b, <2>1 DEF TypeOK, Grows, KeysExplained
  <2>3. JarExplained'
    BY <1>a, <2>1 DEF JarExplained, Overtaken
  <2>4. QED BY <1>c, <2>1, <2>2, <2>3 DEF StateInv
<1>5. QED BY <1>1, <1>2, <1>3, <1>4

(* A callback moves: the others keep their places, rows and cookies theirs,*)
(* and only the key of a flow that was called back is deleted.             *)
LEMMA CallMoves ==
  ASSUME StateInv, NEW c \in Callbacks,
         call' \in [Callbacks -> Call],
         UNCHANGED <<at, jar, lapsed>>,
         keys' \subseteq keys,
         \A f \in keys \ keys' : call'[c].flow = f /\ call'[c].pc \in {"accepted", "refused"},
         call'[c].pc # "idle",
         call[c].pc \notin {"accepted", "refused"},
         call[c].pc # "idle" => /\ call'[c].flow = call[c].flow
                                /\ call'[c].browser = call[c].browser
                                /\ call'[c].cookie = call[c].cookie,
         \A d \in Callbacks \ {c} :
           \/ call'[d] = call[d]
           \/ call[d].pc # "idle" /\ \E R : call'[d] = [call[d] EXCEPT !.rivals = R]
  PROVE  /\ TypeOK' /\ KeysExplained' /\ JarExplained' /\ Grows
         /\ \A d \in Callbacks \ {c} : CallInv(d)'
<1>a. TypeOK /\ KeysExplained /\ JarExplained
  BY DEF StateInv
<1>b. call \in [Callbacks -> Call]
  BY <1>a DEF TypeOK
<1>1. TypeOK'
  BY <1>a DEF TypeOK
<1>2. ASSUME NEW d \in Callbacks \ {c}
      PROVE  /\ call'[d].flow = call[d].flow /\ call'[d].pc = call[d].pc
             /\ call'[d].browser = call[d].browser /\ call'[d].cookie = call[d].cookie
             /\ call'[d].claim = call[d].claim
             /\ call[d].pc = "idle" => call'[d] = call[d]
  BY <1>b DEF Call
<1>3. Grows
  BY <1>2 DEF Grows
<1>4. KeysExplained'
  <2> SUFFICES ASSUME NEW f \in Flows, at[f] # "idle", f \notin keys'
               PROVE  \/ f \in lapsed
                      \/ \E d \in Callbacks : call'[d].flow = f /\ call'[d].pc \in {"accepted", "refused"}
    BY DEF KeysExplained
  <2>1. CASE f \in keys
    BY <2>1
  <2>2. CASE f \notin keys
    <3>1. f \in lapsed \/ \E d \in Callbacks : call[d].flow = f /\ call[d].pc \in {"accepted", "refused"}
      BY <1>a, <2>2 DEF KeysExplained
    <3>2. QED BY <1>2, <3>1
  <2>3. QED BY <2>1, <2>2
<1>5. JarExplained'
  BY <1>a DEF JarExplained, Overtaken
<1>6. ASSUME NEW d \in Callbacks \ {c} PROVE CallInv(d)'
  BY <1>2, <1>3, CallKept
<1>7. QED BY <1>1, <1>3, <1>4, <1>5, <1>6

(* Each step of a callback preserves the invariant.                        *)
LEMMA CallSteps ==
  ASSUME StateInv, NEW c \in Callbacks,
         \/ \E f \in Flows, b \in Browsers : Callback(c, f, b)
         \/ Get(c) \/ Delete(c) \/ CallFails(c)
  PROVE  StateInv'
<1> USE OAuthStateAssumption DEF OAuthStateAssumption
<1>a. TypeOK /\ KeysExplained /\ JarExplained /\ \A d \in Callbacks : CallInv(d)
  BY DEF StateInv
<1>b. call \in [Callbacks -> Call] /\ call[c] \in Call
  BY <1>a DEF TypeOK
<1>1. ASSUME NEW f \in Flows, NEW b \in Browsers, Callback(c, f, b) PROVE StateInv'
  <2> DEFINE q == [NoCall EXCEPT !.pc = "get", !.flow = f, !.browser = b, !.cookie = jar[b]]
  <2>1. /\ call[c].pc = "idle" /\ at[f] \in Reached /\ call' = [call EXCEPT ![c] = q]
        /\ keys' = keys /\ at' = at /\ jar' = jar /\ lapsed' = lapsed
    BY <1>1 DEF Callback, Reached
  <2>2. jar[b] \in Flows \cup {None} /\ (jar[b] # None => BrowserOf[jar[b]] = b)
    BY <1>a DEF TypeOK
  <2>3. /\ q \in Call /\ q.pc = "get" /\ q.flow = f /\ q.browser = b /\ q.cookie = jar[b]
        /\ q.claim = "idle"
    BY <2>2 DEF Call, NoCall
  <2> HIDE DEF q
  <2>4. call'[c] = q /\ call' \in [Callbacks -> Call] /\ \A d \in Callbacks \ {c} : call'[d] = call[d]
    BY <1>b, <2>1, <2>3
  <2>5. /\ TypeOK' /\ KeysExplained' /\ JarExplained' /\ Grows
        /\ \A d \in Callbacks \ {c} : CallInv(d)'
    BY <2>1, <2>3, <2>4, CallMoves
  <2>6. b = BrowserOf[f] /\ jar[b] # f => Displaced(c)'
    BY <1>a, <2>1, <2>3, <2>4 DEF JarExplained, Displaced, Overtaken, Reached
  <2>7. CallInv(c)'
    BY <2>1, <2>2, <2>3, <2>4, <2>6 DEF CallInv
  <2>8. QED BY <2>5, <2>7 DEF StateInv
<1>2. ASSUME Get(c) PROVE StateInv'
  <2> DEFINE holding == {d \in Callbacks : call[d].claim = "holds" /\ call[d].flow = call[c].flow}
  <2>1. call[c].pc = "get" /\ keys' = keys /\ at' = at /\ jar' = jar /\ lapsed' = lapsed
    BY <1>2 DEF Get
  <2>2. call[c].flow \in Flows /\ at[call[c].flow] \in Reached
    BY <1>a, <2>1 DEF CallInv
  <2>3. PICK cl \in {"holds", "missed"} :
          /\ call'[c].pc = "del" /\ call'[c].claim = cl
          /\ call'[c].flow = call[c].flow /\ call'[c].browser = call[c].browser
          /\ call'[c].cookie = call[c].cookie
          /\ call' \in [Callbacks -> Call]
          /\ cl = "missed" => call[c].flow \notin keys
          /\ \A d \in Callbacks \ {c} :
               \/ call'[d] = call[d]
               \/ call[d].pc # "idle" /\ \E R : call'[d] = [call[d] EXCEPT !.rivals = R]
    <3>1. CASE call[c].flow \in keys
      <4>1. call' = [d \in Callbacks |->
                       IF d = c THEN [call[c] EXCEPT !.pc = "del", !.claim = "holds",
                                                     !.rivals = holding]
                       ELSE IF d \in holding THEN [call[d] EXCEPT !.rivals = @ \cup {c}]
                       ELSE call[d]]
        BY <1>2, <3>1 DEF Get
      <4>2. /\ [call[c] EXCEPT !.pc = "del", !.claim = "holds", !.rivals = holding] \in Call
            /\ \A d \in holding : [call[d] EXCEPT !.rivals = @ \cup {c}] \in Call
        BY <1>b DEF Call
      <4>3. call' \in [Callbacks -> Call]
        BY <1>b, <4>1, <4>2
      <4>4. ASSUME NEW d \in Callbacks \ {c}
            PROVE  \/ call'[d] = call[d]
                   \/ call[d].pc # "idle" /\ \E R : call'[d] = [call[d] EXCEPT !.rivals = R]
        <5>1. d \in holding => call[d].pc # "idle"
          BY <1>a DEF CallInv, NoCall
        <5>2. CASE d \in holding
          <6>1. call'[d] = [call[d] EXCEPT !.rivals = call[d].rivals \cup {c}]
            BY <4>1, <5>2
          <6>2. QED BY <5>1, <5>2, <6>1
        <5>3. CASE d \notin holding
          BY <4>1, <5>3
        <5>4. QED BY <5>2, <5>3
      <4>5. call'[c] = [call[c] EXCEPT !.pc = "del", !.claim = "holds", !.rivals = holding]
        BY <4>1
      <4>6. /\ call'[c].pc = "del" /\ call'[c].claim = "holds"
            /\ call'[c].flow = call[c].flow /\ call'[c].browser = call[c].browser
            /\ call'[c].cookie = call[c].cookie
        BY <1>b, <4>5 DEF Call
      <4>7. QED BY <4>3, <4>4, <4>6
    <3>2. CASE call[c].flow \notin keys
      <4>1. call' = [call EXCEPT ![c].pc = "del", ![c].claim = "missed"]
        BY <1>2, <3>2 DEF Get
      <4>2. call'[c] = [call[c] EXCEPT !.pc = "del", !.claim = "missed"]
        BY <1>b, <4>1
      <4>3. /\ call'[c] \in Call /\ call'[c].pc = "del" /\ call'[c].claim = "missed"
            /\ call'[c].flow = call[c].flow /\ call'[c].browser = call[c].browser
            /\ call'[c].cookie = call[c].cookie
        BY <1>b, <4>2 DEF Call
      <4>4. call' \in [Callbacks -> Call] /\ \A d \in Callbacks \ {c} : call'[d] = call[d]
        BY <1>b, <4>1, <4>3
      <4>5. QED BY <3>2, <4>3, <4>4
    <3>3. QED BY <3>1, <3>2
  <2>4. /\ TypeOK' /\ KeysExplained' /\ JarExplained' /\ Grows
        /\ \A d \in Callbacks \ {c} : CallInv(d)'
    BY <2>1, <2>3, CallMoves
  <2>5. cl = "missed" => Gone(c)'
    <3> SUFFICES ASSUME cl = "missed" PROVE Gone(c)'
      OBVIOUS
    <3>1. CASE call[c].flow \in lapsed
      BY <3>1, <2>1, <2>3 DEF Gone
    <3>2. CASE call[c].flow \notin lapsed
      <4>1. PICK d \in Callbacks : /\ call[d].flow = call[c].flow
                                   /\ call[d].pc \in {"accepted", "refused"}
        BY <1>a, <2>2, <2>3, <3>2 DEF KeysExplained, Reached
      <4>2. d # c /\ call'[d].flow = call[d].flow
        BY <2>1, <2>4, <4>1 DEF Grows
      <4>3. QED BY <2>3, <4>1, <4>2 DEF Gone
    <3>3. QED BY <3>1, <3>2
  <2>6. Displaced(c) => Displaced(c)'
    BY <2>1, <2>4, ExplanationsLast
  <2>7. CallInv(c)'
    BY <1>a, <2>1, <2>3, <2>5, <2>6 DEF CallInv
  <2>8. QED BY <2>4, <2>7 DEF StateInv
<1>3. ASSUME Delete(c) PROVE StateInv'
  <2> DEFINE right == call[c].claim = "holds" /\ call[c].cookie = call[c].flow
  <2>1. /\ call[c].pc = "del" /\ keys' = keys \ {call[c].flow}
        /\ at' = at /\ jar' = jar /\ lapsed' = lapsed
        /\ call' = [call EXCEPT ![c].pc = IF right THEN "accepted" ELSE "refused",
                                ![c].claim = IF @ = "holds" THEN "through" ELSE "refused"]
    BY <1>3 DEF Delete
  <2>2. PICK place \in {"accepted", "refused"}, cl \in {"through", "refused"} :
          /\ place = IF right THEN "accepted" ELSE "refused"
          /\ cl = IF call[c].claim = "holds" THEN "through" ELSE "refused"
    OBVIOUS
  <2>3. call'[c] = [call[c] EXCEPT !.pc = place, !.claim = cl]
    BY <1>b, <2>1, <2>2
  <2>4. /\ call'[c] \in Call /\ call'[c].pc = place /\ call'[c].claim = cl
        /\ call'[c].flow = call[c].flow /\ call'[c].browser = call[c].browser
        /\ call'[c].cookie = call[c].cookie
    BY <1>b, <2>3 DEF Call
  <2>5. call' \in [Callbacks -> Call] /\ \A d \in Callbacks \ {c} : call'[d] = call[d]
    BY <1>b, <2>1, <2>4
  <2>6. /\ TypeOK' /\ KeysExplained' /\ JarExplained' /\ Grows
        /\ \A d \in Callbacks \ {c} : CallInv(d)'
    BY <2>1, <2>4, <2>5, CallMoves
  <2>7. /\ Gone(c) => Gone(c)'
        /\ Displaced(c) => Displaced(c)'
    BY <2>1, <2>6, ExplanationsLast
  <2>8. CallInv(c)'
    BY <1>a, <2>1, <2>2, <2>4, <2>7 DEF CallInv
  <2>9. QED BY <2>6, <2>8 DEF StateInv
<1>4. ASSUME CallFails(c) PROVE StateInv'
  <2>1. /\ call[c].pc \in {"get", "del"} /\ call' = [call EXCEPT ![c].pc = "failed"]
        /\ keys' = keys /\ at' = at /\ jar' = jar /\ lapsed' = lapsed
    BY <1>4 DEF CallFails
  <2>2. call'[c] = [call[c] EXCEPT !.pc = "failed"]
    BY <1>b, <2>1
  <2>3. /\ call'[c] \in Call /\ call'[c].pc = "failed" /\ call'[c].claim = call[c].claim
        /\ call'[c].flow = call[c].flow /\ call'[c].browser = call[c].browser
        /\ call'[c].cookie = call[c].cookie
    BY <1>b, <2>2 DEF Call
  <2>4. call' \in [Callbacks -> Call] /\ \A d \in Callbacks \ {c} : call'[d] = call[d]
    BY <1>b, <2>1, <2>3
  <2>5. /\ TypeOK' /\ KeysExplained' /\ JarExplained' /\ Grows
        /\ \A d \in Callbacks \ {c} : CallInv(d)'
    BY <2>1, <2>3, <2>4, CallMoves
  <2>6. /\ Gone(c) => Gone(c)'
        /\ Displaced(c) => Displaced(c)'
    BY <2>1, <2>5, ExplanationsLast
  <2>7. CallInv(c)'
    BY <1>a, <2>1, <2>3, <2>6 DEF CallInv
  <2>8. QED BY <2>5, <2>7 DEF StateInv
<1>5. QED BY <1>1, <1>2, <1>3, <1>4

(* StateInv holds throughout.                                              *)
LEMMA StateAlways == Spec => []StateInv
<1>1. StateInv /\ [Next]_vars => StateInv'
  <2> SUFFICES ASSUME StateInv, [Next]_vars PROVE StateInv'
    OBVIOUS
  <2>1. CASE UNCHANGED vars
    BY <2>1 DEF vars, StateInv, TypeOK, KeysExplained, JarExplained, CallInv, Gone, Displaced,
                Overtaken
  <2>2. CASE Next
    BY <2>2, FlowSteps, CallSteps DEF Next
  <2>3. QED BY <2>1, <2>2
<1>2. QED BY StateInit, <1>1, PTL DEF Spec

(***************************************************************************)
(* A callback is accepted only from the browser that started its flow.     *)
(***************************************************************************)
THEOREM AcceptedFromOwnBrowser == Spec => []OwnBrowserOnly
<1>1. StateInv => OwnBrowserOnly
  BY OAuthStateAssumption DEF OAuthStateAssumption, StateInv, CallInv, OwnBrowserOnly
<1>2. QED BY StateAlways, <1>1, PTL

(***************************************************************************)
(* The browser that started a flow is refused only because something       *)
(* expired or was lost, the flow called back twice, or another tab began.  *)
(***************************************************************************)
THEOREM RefusedForAReason == Spec => []RefusalsExplained
<1>1. StateInv => RefusalsExplained
  BY DEF StateInv, CallInv, RefusalsExplained, Gone, Displaced, Overtaken
<1>2. QED BY StateAlways, <1>1, PTL

-----------------------------------------------------------------------------
(* The refinement of OneUse.                                               *)

\* A step of OAuthState that says nothing of a token.
Silent ==
  /\ {f \in Flows : at'[f] # "idle"} = {f \in Flows : at[f] # "idle"}
  /\ keys' = keys
  /\ \A c \in Callbacks : /\ call'[c].claim = call[c].claim
                          /\ call'[c].flow = call[c].flow
                          /\ call'[c].rivals = call[c].rivals

(* Such a step is a stutter of OneUse.                                     *)
LEMMA SilentRefines == ASSUME Silent PROVE UNCHANGED Claims!vars
  BY DEF Silent, Claims!vars

(* A step of a flow stores or expires its token, or says nothing.          *)
LEMMA FlowRefines ==
  ASSUME StateInv,
         \/ \E f \in Flows : Store(f) \/ Redirect(f) \/ ExpireKey(f)
         \/ \E b \in Browsers : ExpireCookie(b)
  PROVE  [Claims!Next]_Claims!vars
<1>a. /\ at \in [Flows -> {"idle", "redirected", "consent", "bare"}]
      /\ keys \subseteq {f \in Flows : at[f] # "idle"}
  BY DEF StateInv, TypeOK
<1>1. ASSUME NEW f \in Flows, Store(f) PROVE Claims!Next
  <2>1. /\ at[f] = "idle" /\ keys' = keys \cup {f} /\ at' = [at EXCEPT ![f] = "redirected"]
        /\ call' = call
    BY <1>1 DEF Store
  <2>2. {g \in Flows : at'[g] # "idle"} = {g \in Flows : at[g] # "idle"} \cup {f}
    BY <1>a, <2>1
  <2>3. Claims!Store(f)
    BY <2>1, <2>2 DEF Claims!Store
  <2>4. QED BY <2>3 DEF Claims!Next
<1>2. ASSUME NEW f \in Flows, Redirect(f) PROVE Silent
  <2>1. /\ at[f] = "redirected" /\ keys' = keys /\ call' = call
        /\ at'[f] # "idle" /\ \A g \in Flows \ {f} : at'[g] = at[g]
    BY <1>2, <1>a DEF Redirect
  <2>2. QED BY <2>1 DEF Silent
<1>3. ASSUME NEW f \in Flows, ExpireKey(f) PROVE Claims!Next
  <2>1. f \in keys /\ keys' = keys \ {f} /\ at' = at /\ call' = call
    BY <1>3 DEF ExpireKey
  <2>2. Claims!Expire(f)
    BY <2>1 DEF Claims!Expire
  <2>3. QED BY <2>2 DEF Claims!Next
<1>4. ASSUME NEW b \in Browsers, ExpireCookie(b) PROVE Silent
  BY <1>4 DEF ExpireCookie, Silent
<1>5. QED BY <1>1, <1>2, <1>3, <1>4, SilentRefines

(* A step of a callback presents, reads or deletes its token.              *)
LEMMA CallRefines ==
  ASSUME StateInv, NEW c \in Callbacks,
         \/ \E f \in Flows, b \in Browsers : Callback(c, f, b)
         \/ Get(c) \/ Delete(c) \/ CallFails(c)
  PROVE  [Claims!Next]_Claims!vars
<1> USE OAuthStateAssumption DEF OAuthStateAssumption
<1>a. CallInv(c) /\ call \in [Callbacks -> Call] /\ call[c] \in Call
  BY DEF StateInv, TypeOK
<1> DEFINE phase == [d \in Callbacks |-> call[d].claim]
           token == [d \in Callbacks |-> call[d].flow]
           rival == [d \in Callbacks |-> call[d].rivals]
           ever  == {f \in Flows : at[f] # "idle"}
<1>1. ASSUME NEW f \in Flows, NEW b \in Browsers, Callback(c, f, b) PROVE Claims!Next
  <2>1. /\ call[c] = NoCall /\ at' = at /\ keys' = keys
        /\ call' = [call EXCEPT ![c] = [NoCall EXCEPT !.pc = "get", !.flow = f, !.browser = b,
                                                      !.cookie = jar[b]]]
    BY <1>1, <1>a DEF Callback, CallInv
  <2>2. /\ call'[c].flow = f /\ call'[c].claim = "idle" /\ call'[c].rivals = {}
        /\ \A d \in Callbacks \ {c} : call'[d] = call[d]
    BY <1>a, <2>1 DEF NoCall
  <2>3. phase[c] = "idle" /\ token[c] = None
    BY <2>1 DEF NoCall
  <2>4. token' = [token EXCEPT ![c] = f] /\ phase' = phase /\ rival' = rival /\ ever' = ever
    <3>1. /\ call[c].claim = "idle" /\ call[c].rivals = {}
      BY <2>1 DEF NoCall
    <3>2. \A d \in Callbacks : /\ token'[d] = IF d = c THEN f ELSE token[d]
                              /\ phase'[d] = phase[d] /\ rival'[d] = rival[d]
      BY <2>2, <3>1
    <3>3. token' = [token EXCEPT ![c] = f]
      BY <3>2
    <3>4. phase' = phase /\ rival' = rival
      BY <3>2
    <3>5. QED BY <2>1, <3>3, <3>4
  <2>5. Claims!Present(c, f)
    BY <2>1, <2>3, <2>4 DEF Claims!Present
  <2>6. QED BY <2>5 DEF Claims!Next
<1>2. ASSUME Get(c) PROVE Claims!Next
  <2> DEFINE holding == {d \in Callbacks : call[d].claim = "holds" /\ call[d].flow = call[c].flow}
  <2>1. call[c].pc = "get" /\ keys' = keys /\ at' = at
    BY <1>2 DEF Get
  <2>2. phase[c] = "idle" /\ token[c] # None /\ token[c] = call[c].flow
    BY <1>a, <2>1 DEF CallInv
  <2>3. Claims!Rivals(c) = holding
    BY DEF Claims!Rivals
  <2>4. CASE call[c].flow \in keys
    <3>1. call' = [d \in Callbacks |->
                     IF d = c THEN [call[c] EXCEPT !.pc = "del", !.claim = "holds",
                                                   !.rivals = holding]
                     ELSE IF d \in holding THEN [call[d] EXCEPT !.rivals = @ \cup {c}]
                     ELSE call[d]]
      BY <1>2, <2>4 DEF Get
    <3>2. \A d \in Callbacks : call[d] \in Call
      BY <1>a
    <3>3. ASSUME NEW d \in Callbacks
          PROVE  /\ call'[d].claim = IF d = c THEN "holds" ELSE call[d].claim
                 /\ call'[d].flow = call[d].flow
                 /\ call'[d].rivals = IF d = c THEN holding
                                      ELSE IF d \in holding THEN call[d].rivals \cup {c}
                                      ELSE call[d].rivals
      <4> HIDE DEF holding
      <4>1. CASE d = c
        <5>1. call'[d] = [call[d] EXCEPT !.pc = "del", !.claim = "holds", !.rivals = holding]
          BY <3>1, <4>1
        <5>2. QED BY <3>2, <4>1, <5>1 DEF Call
      <4>2. CASE d # c /\ d \in holding
        <5>1. call'[d] = [call[d] EXCEPT !.rivals = call[d].rivals \cup {c}]
          BY <3>1, <4>2
        <5>2. QED BY <3>2, <4>2, <5>1 DEF Call
      <4>3. CASE d # c /\ d \notin holding
        BY <3>1, <4>3
      <4>4. QED BY <4>1, <4>2, <4>3
    <3>4. phase' = [phase EXCEPT ![c] = "holds"] /\ token' = token /\ ever' = ever
      BY <2>1, <3>3
    <3>5. rival' = [d \in Callbacks |-> CASE d = c       -> holding
                                          [] d \in holding -> rival[d] \cup {c}
                                          [] OTHER       -> rival[d]]
      <4>1. c \notin holding
        BY <2>2
      <4>2. \A d \in Callbacks :
              rival'[d] = CASE d = c       -> holding
                            [] d \in holding -> rival[d] \cup {c}
                            [] OTHER       -> rival[d]
        <5> HIDE DEF holding
        <5>1. QED BY <3>3, <4>1
      <4>3. QED BY <4>2
    <3>6. Claims!Read(c)
      BY <2>1, <2>2, <2>3, <2>4, <3>4, <3>5 DEF Claims!Read
    <3>7. QED BY <3>6 DEF Claims!Next
  <2>5. CASE call[c].flow \notin keys
    <3>1. call' = [call EXCEPT ![c].pc = "del", ![c].claim = "missed"]
      BY <1>2, <2>5 DEF Get
    <3>2. /\ call'[c].claim = "missed" /\ call'[c].flow = call[c].flow
          /\ call'[c].rivals = call[c].rivals
          /\ \A d \in Callbacks \ {c} : call'[d] = call[d]
      BY <1>a, <3>1 DEF Call
    <3>3. phase' = [phase EXCEPT ![c] = "missed"] /\ token' = token /\ rival' = rival /\ ever' = ever
      BY <2>1, <3>2
    <3>4. Claims!Read(c)
      BY <2>1, <2>2, <2>5, <3>3 DEF Claims!Read
    <3>5. QED BY <3>4 DEF Claims!Next
  <2>6. QED BY <2>4, <2>5
<1>3. ASSUME Delete(c) PROVE Claims!Next
  <2>1. /\ call[c].pc = "del" /\ keys' = keys \ {call[c].flow} /\ at' = at
        /\ call' = [call EXCEPT ![c].pc = IF call[c].claim = "holds" /\ call[c].cookie = call[c].flow
                                          THEN "accepted" ELSE "refused",
                                ![c].claim = IF @ = "holds" THEN "through" ELSE "refused"]
    BY <1>3 DEF Delete
  <2>2. /\ call'[c].claim = IF call[c].claim = "holds" THEN "through" ELSE "refused"
        /\ call'[c].flow = call[c].flow /\ call'[c].rivals = call[c].rivals
        /\ \A d \in Callbacks \ {c} : call'[d] = call[d]
    BY <1>a, <2>1 DEF Call
  <2>3. phase[c] \in {"holds", "missed"} /\ token[c] = call[c].flow
    BY <1>a, <2>1 DEF CallInv
  <2>4. /\ phase' = [phase EXCEPT ![c] = IF @ = "holds" THEN "through" ELSE "refused"]
        /\ token' = token /\ rival' = rival /\ ever' = ever
    <3>1. \A d \in Callbacks :
            /\ phase'[d] = IF d # c THEN phase[d]
                           ELSE IF phase[d] = "holds" THEN "through" ELSE "refused"
            /\ token'[d] = token[d] /\ rival'[d] = rival[d]
      BY <2>2
    <3>2. phase' = [phase EXCEPT ![c] = IF @ = "holds" THEN "through" ELSE "refused"]
      BY <3>1
    <3>3. token' = token /\ rival' = rival
      BY <3>1
    <3>4. QED BY <2>1, <3>2, <3>3
  <2>5. Claims!Delete(c)
    BY <2>1, <2>3, <2>4 DEF Claims!Delete
  <2>6. QED BY <2>5 DEF Claims!Next
<1>4. ASSUME CallFails(c) PROVE Silent
  <2>1. at' = at /\ keys' = keys /\ call' = [call EXCEPT ![c].pc = "failed"]
    BY <1>4 DEF CallFails
  <2>2. /\ call'[c].claim = call[c].claim /\ call'[c].flow = call[c].flow
        /\ call'[c].rivals = call[c].rivals
        /\ \A d \in Callbacks \ {c} : call'[d] = call[d]
    BY <1>a, <2>1 DEF Call
  <2>3. QED BY <2>1, <2>2 DEF Silent
<1>5. QED BY <1>1, <1>2, <1>3, <1>4, SilentRefines

(***************************************************************************)
(* A state token is read and deleted the way a one-use token is, whatever  *)
(* browsers, tabs and callbacks do.                                        *)
(***************************************************************************)
THEOREM StatesAreOneUse == Spec => ImplementsOneUse
<1>1. Init => Claims!Init
  BY DEF Init, Claims!Init, NoCall
<1>2. StateInv /\ [Next]_vars => [Claims!Next]_Claims!vars
  <2> SUFFICES ASSUME StateInv, [Next]_vars PROVE [Claims!Next]_Claims!vars
    OBVIOUS
  <2>1. CASE UNCHANGED vars
    BY <2>1 DEF vars, Claims!vars
  <2>2. CASE Next
    BY <2>2, FlowRefines, CallRefines DEF Next
  <2>3. QED BY <2>1, <2>2
<1>3. QED BY <1>1, <1>2, StateAlways, PTL DEF Spec, ImplementsOneUse, Claims!Spec

\* The theorems of OneUse, about the states.
Proved == INSTANCE OneUseProofs WITH
  Callers <- Callbacks, Tokens <- Flows,
  ever <- {f \in Flows : at[f] # "idle"}, stored <- keys,
  phase <- [c \in Callbacks |-> call[c].claim],
  token <- [c \in Callbacks |-> call[c].flow],
  rivals <- [c \in Callbacks |-> call[c].rivals]

(***************************************************************************)
(* Two callbacks go on with one state only if each read it while the other *)
(* held it.                                                                *)
(***************************************************************************)
THEOREM StatesUsedOnce == Spec => []Claims!UsedTwiceOverlapped
<1>1. Proved!Spec => []Proved!UsedTwiceOverlapped
  BY Proved!OneUseSafe DEF Proved!OneUseSafe
<1>2. Claims!Init => Proved!Init
  BY DEF Claims!Init, Proved!Init
<1>3. [Claims!Next]_Claims!vars => [Proved!Next]_Proved!vars
  BY DEF Claims!Next, Claims!vars, Claims!Store, Claims!Expire, Claims!Present, Claims!Read,
         Claims!Delete, Claims!Rivals, Proved!Next, Proved!vars, Proved!Store, Proved!Expire,
         Proved!Present, Proved!Read, Proved!Delete, Proved!Rivals
<1>4. Proved!UsedTwiceOverlapped => Claims!UsedTwiceOverlapped
  BY DEF Proved!UsedTwiceOverlapped, Claims!UsedTwiceOverlapped
<1>5. QED BY StatesAreOneUse, <1>1, <1>2, <1>3, <1>4, PTL DEF ImplementsOneUse, Claims!Spec,
             Proved!Spec

-----------------------------------------------------------------------------
(***************************************************************************)
(* Passkey, for any calls, users, authenticators and counters.             *)
(***************************************************************************)

\* Where a call may be.
Places == InFlightPlaces \cup Ended \cup {"idle"}

\* What a call carries, and what is left of it when it moves on.
LEMMA Carried ==
  ASSUME PasskeyInv, NEW r \in Requests
  PROVE  /\ req[r] \in Request /\ pc[r] \in Places /\ Fits(r, req[r], pc[r])
         /\ req \in [Requests -> Request] /\ pc \in [Requests -> Places]
BY DEF PasskeyInv, PasskeyTypeOK, Places

\* One call changes its request and its place.
Moves(r, q, place) ==
  /\ req' = [req EXCEPT ![r] = q]
  /\ pc' = [pc EXCEPT ![r] = place]

\* That leaves the invariant alone, if the request fits the place and no
\* challenge is issued but its own.
LEMMA MoveKeeps ==
  ASSUME PasskeyInv, NEW r \in Requests, NEW q \in Request, NEW place \in Places,
         Moves(r, q, place), Fits(r, q, place)', PasskeyTypeOK => PasskeyTypeOK',
         issued' \subseteq issued \cup {r}, assertions' = assertions
  PROVE  PasskeyInv'
<1>1. req'[r] = q /\ pc'[r] = place
  BY Carried DEF Moves
<1>2. \A s \in Requests : s # r => req'[s] = req[s] /\ pc'[s] = pc[s]
  BY Carried DEF Moves
<1>3. ASSUME NEW s \in Requests, s # r PROVE Fits(s, req[s], pc[s])'
  BY <1>2, <1>3, Carried DEF Fits
<1>4. Fits(r, req[r], pc[r])'
  BY <1>1
<1> QED BY <1>3, <1>4 DEF PasskeyInv

\* A step that changes neither what is stored or signed nor what a call is about.
LEMMA WalkKeeps ==
  ASSUME PasskeyInv, NEW r \in Requests, NEW q \in Request, NEW place \in Places,
         Moves(r, q, place), UNCHANGED <<store, counter, assertions, sessions>>,
         Fits(r, q, place)
  PROVE  PasskeyInv'
<1>1. PasskeyTypeOK => PasskeyTypeOK'
  BY Carried DEF PasskeyTypeOK, Moves, store, challengeKeys, passkeyRows, Places
<1>2. Fits(r, q, place)'
  BY DEF Fits, store, challengeKeys
<1> QED BY <1>1, <1>2, MoveKeeps DEF store, challengeKeys

\* The same, for a step that changes the place only.
LEMMA GoKeeps ==
  ASSUME PasskeyInv, NEW r \in Requests, NEW place \in Places, Goto(r, place), req' = req,
         PasskeyTypeOK => PasskeyTypeOK', Fits(r, req[r], place)',
         issued' \subseteq issued \cup {r}, assertions' = assertions
  PROVE  PasskeyInv'
<1>1. PICK q : q = req[r]
  OBVIOUS
<1>2. q \in Request /\ Moves(r, q, place)
  BY <1>1, Carried DEF Moves, Goto
<1>3. Fits(r, q, place)'
  BY <1>1
<1> QED BY <1>2, <1>3, MoveKeeps

\* No challenge is stored, and none signed or called for at first.
LEMMA InitPasskey == PasskeyInit => PasskeyInv
<1> SUFFICES ASSUME PasskeyInit PROVE PasskeyInv
  OBVIOUS
<1>1. NoRequest \in Request
  BY DEF NoRequest, Request
<1>2. 0 \in Counts
  BY PasskeyAssumption DEF Counts
<1>3. PasskeyTypeOK
  BY <1>1, <1>2 DEF PasskeyInit, PasskeyTypeOK
<1>4. \A r \in Requests : Fits(r, req[r], pc[r])
  BY DEF PasskeyInit, Fits, Consuming, Registering, SigningIn
<1> QED BY <1>3, <1>4 DEF PasskeyInv

\* The calls arrive.
LEMMA ArriveKeeps ==
  ASSUME PasskeyInv, NEW r \in Requests,
         Start(r) \/ CompleteRegistration(r) \/ CompleteAuthentication(r)
  PROVE  PasskeyInv'
<1>1. ASSUME NEW op \in Operations, NEW c \in Requests \cup {Nothing},
             NEW x \in assertions \cup Creds \cup {Nothing}, NEW first \in {"storeChallenge", "get"},
             Arrive(r, op, c, x, first), first = "get" => op \in Completions /\ c # Nothing,
             op = "completeRegistration" => x \in Creds,
             op = "completeAuthentication" => x \in assertions
      PROVE  PasskeyInv'
  <2> DEFINE q == [NoRequest EXCEPT !.op = op, !.challenge = c, !.response = x]
  <2>1. q \in Request /\ q.op = op /\ q.challenge = c /\ q.response = x /\ q.claim = "idle"
    BY DEF NoRequest, Request, PasskeyInv, PasskeyTypeOK
  <2>2. Moves(r, q, first) /\ UNCHANGED <<store, counter, assertions, sessions>> /\ pc[r] = "idle"
    BY <1>1 DEF Arrive, Moves, Goto
  <2>3. r \notin issued
    BY <2>2, Carried DEF Fits
  <2>4. first \in Places
    BY DEF Places, InFlightPlaces
  <2> HIDE DEF q
  <2>5. Fits(r, q, first)
    BY <1>1, <2>1, <2>3 DEF Fits, Consuming, Registering, SigningIn
  <2> QED BY <2>1, <2>2, <2>4, <2>5, WalkKeeps
<1>2. issued \subseteq Requests /\ Nothing \notin issued
  BY PasskeyAssumption DEF PasskeyInv, PasskeyTypeOK
<1>3. CASE Start(r)
  BY <1>1, <1>3 DEF Start, Operations, Completions
<1>4. CASE CompleteRegistration(r)
  BY <1>1, <1>2, <1>4 DEF CompleteRegistration, Operations, Completions
<1>5. CASE CompleteAuthentication(r)
  BY <1>1, <1>2, <1>5 DEF CompleteAuthentication, Operations, Completions
<1> QED BY <1>3, <1>4, <1>5

\* The challenge is stored, and deleted.
LEMMA ChallengeKeeps ==
  ASSUME PasskeyInv, NEW r \in Requests, StoreChallenge(r) \/ DeleteChallenge(r)
  PROVE  PasskeyInv'
<1>1. CASE StoreChallenge(r)
  <2>1. "done" \in Places
    BY DEF Places, Ended
  <2>2. PasskeyTypeOK => PasskeyTypeOK'
    BY <1>1, <2>1 DEF StoreChallenge, PasskeyTypeOK, Goto, passkeyRows, Places
  <2>3. Fits(r, req[r], "done")'
    BY DEF Fits, Consuming, Registering, SigningIn
  <2> QED BY <1>1, <2>1, <2>2, <2>3, GoKeeps DEF StoreChallenge
<1>2. CASE DeleteChallenge(r)
  <2>1. PICK claim \in {"through", "refused"}, place \in {"findIdentity", "findCredential", "denied"} :
          /\ req' = [req EXCEPT ![r].claim = claim] /\ Goto(r, place)
          /\ place = "findIdentity" => req[r].op = "completeRegistration"
          /\ place = "findCredential" => req[r].op # "completeRegistration"
    BY <1>2 DEF DeleteChallenge
  <2>2. pc[r] = "del" /\ UNCHANGED <<issued, passkeyRows, counter, assertions, sessions>>
        /\ challenges' \subseteq challenges
    BY <1>2 DEF DeleteChallenge
  <2>0. PICK q : q = [req[r] EXCEPT !.claim = claim]
    OBVIOUS
  <2>3. q \in Request /\ q.op = req[r].op /\ q.response = req[r].response
    BY <2>0, Carried DEF Request
  <2>4. Moves(r, q, place) /\ place \in Places
    BY <2>0, <2>1 DEF Moves, Goto, Places, InFlightPlaces, Ended
  <2>5. PasskeyTypeOK => PasskeyTypeOK'
    BY <2>2, <2>3, <2>4 DEF PasskeyTypeOK, Moves, passkeyRows, Places
  <2>6. Fits(r, q, place)'
    BY <2>1, <2>2, <2>3, Carried DEF Fits, Consuming, Registering, SigningIn, Completions
  <2> QED BY <2>2, <2>3, <2>4, <2>5, <2>6, MoveKeeps
<1> QED BY <1>1, <1>2

\* get adds the call to the rivals of those that hold its challenge.
LEMMA GetKeeps ==
  ASSUME PasskeyInv, NEW r \in Requests, GetChallenge(r)
  PROVE  PasskeyInv'
<1> DEFINE holding == {s \in Requests : req[s].claim = "holds" /\ req[s].challenge = req[r].challenge}
<1>0. "del" \in Places /\ pc[r] = "get"
  BY DEF GetChallenge, Places, InFlightPlaces
<1>1. CASE req[r].challenge \in challenges
  <2>1. req' = [s \in Requests |->
                  IF s = r THEN [req[r] EXCEPT !.claim = "holds", !.rivals = holding]
                  ELSE IF s \in holding THEN [req[s] EXCEPT !.rivals = @ \cup {r}] ELSE req[s]]
        /\ Goto(r, "del") /\ UNCHANGED <<store, counter, assertions, sessions>>
    BY <1>1 DEF GetChallenge
  <2>2. /\ req'[r] \in Request /\ req'[r].op = req[r].op /\ req'[r].challenge = req[r].challenge
        /\ req'[r].response = req[r].response /\ req'[r].claim = "holds"
    <3>1. holding \in SUBSET Requests
      OBVIOUS
    <3>2. req'[r] = [req[r] EXCEPT !.claim = "holds", !.rivals = holding]
      BY <2>1
    <3> HIDE DEF holding
    <3> QED BY <3>1, <3>2, Carried DEF Request
  <2>3. ASSUME NEW s \in Requests, s # r
        PROVE  /\ req'[s] \in Request /\ req'[s].op = req[s].op
               /\ req'[s].challenge = req[s].challenge /\ req'[s].claim = req[s].claim
               /\ req'[s].response = req[s].response /\ req'[s].stored = req[s].stored
               /\ s \notin holding => req'[s] = req[s]
    <3>1. CASE s \in holding
      <4>1. req'[s] = [req[s] EXCEPT !.rivals = req[s].rivals \cup {r}] /\ req[s] \in Request
        BY <2>1, <2>3, <3>1, Carried
      <4> HIDE DEF holding
      <4> QED BY <3>1, <4>1 DEF Request
    <3>2. CASE s \notin holding
      BY <2>1, <2>3, <3>2, Carried
    <3> QED BY <3>1, <3>2
  <2>4. PasskeyTypeOK'
    <3>1. req' \in [Requests -> Request]
      <4>1. req' = [s \in Requests |-> req'[s]]
        BY <2>1
      <4>2. \A s \in Requests : req'[s] \in Request
        BY <2>2, <2>3
      <4> QED BY <4>1, <4>2
    <3> QED BY <1>0, <2>1, <3>1 DEF PasskeyInv, PasskeyTypeOK, Goto, store, challengeKeys,
               passkeyRows, Places
  <2>5. ASSUME NEW s \in Requests, s # r PROVE Fits(s, req[s], pc[s])'
    <3>1. pc'[s] = pc[s]
      BY <2>1, <2>5, Carried DEF Goto
    <3>2. pc[s] # "idle" \/ s \notin holding
      BY Carried DEF Fits, NoRequest
    <3> HIDE DEF holding
    <3> QED BY <2>1, <2>3, <2>5, <3>1, <3>2, Carried DEF Fits, store, challengeKeys
  <2>6. Fits(r, req[r], pc[r])'
    <3>1. pc'[r] = "del" /\ issued' = issued /\ assertions' = assertions
      BY <2>1, Carried DEF Goto, store, challengeKeys
    <3> QED BY <1>0, <2>2, <3>1, Carried DEF Fits, Consuming, Registering, SigningIn
  <2> QED BY <2>4, <2>5, <2>6 DEF PasskeyInv
<1>2. CASE req[r].challenge \notin challenges
  <2> DEFINE q == [req[r] EXCEPT !.claim = "missed"]
  <2>1. Moves(r, q, "del") /\ UNCHANGED <<store, counter, assertions, sessions>>
    BY <1>2 DEF GetChallenge, Moves, Goto
  <2>2. /\ q \in Request /\ q.op = req[r].op /\ q.challenge = req[r].challenge
        /\ q.response = req[r].response /\ q.claim = "missed"
    BY Carried DEF Request
  <2> HIDE DEF q
  <2>3. Fits(r, q, "del")
    BY <1>0, <2>2, Carried DEF Fits, Consuming, Registering, SigningIn
  <2> QED BY <1>0, <2>1, <2>2, <2>3, WalkKeeps
<1> QED BY <1>1, <1>2

\* completeRegistration, once its challenge is consumed.
LEMMA RegisterKeeps ==
  ASSUME PasskeyInv, NEW r \in Requests,
         FindIdentity(r) \/ CreateIdentity(r) \/ CreateCredential(r)
  PROVE  PasskeyInv'
<1>1. PICK place \in {"createCredential", "createIdentity", "conflict", "done"} : Goto(r, place)
  BY DEF FindIdentity, CreateIdentity, CreateCredential
<1>2. /\ req' = req /\ issued' = issued /\ assertions' = assertions /\ pc[r] \in Registering
      /\ place \in Places /\ UNCHANGED <<challenges, counter, sessions>>
  BY <1>1 DEF FindIdentity, CreateIdentity, CreateCredential, store, challengeKeys, Registering,
     Places, InFlightPlaces, Ended
<1>3. req[r].response \in Creds /\ OwnerOf[req[r].response] \in Users
  BY <1>2, Carried, PasskeyAssumption DEF Fits
<1>4. PasskeyTypeOK => identities' \subseteq Users /\ credentials' \in [Creds -> Counts \cup {Nothing}]
  <2>1. 0 \in Counts
    BY PasskeyAssumption DEF Counts
  <2>2. CASE FindIdentity(r)
    BY <2>2 DEF FindIdentity, store, passkeyRows, PasskeyTypeOK
  <2>3. CASE CreateIdentity(r)
    BY <1>3, <2>3 DEF CreateIdentity, PasskeyTypeOK
  <2>4. CASE CreateCredential(r)
    BY <2>1, <2>4 DEF CreateCredential, PasskeyTypeOK
  <2> QED BY <2>2, <2>3, <2>4
<1>5. PasskeyTypeOK => PasskeyTypeOK'
  BY <1>1, <1>2, <1>4 DEF PasskeyTypeOK, Goto, Places
<1>6. Fits(r, req[r], place)'
  BY <1>1, <1>2, <1>3 DEF Fits, Registering, Consuming, SigningIn
<1> QED BY <1>1, <1>2, <1>5, <1>6, GoKeeps

\* completeAuthentication, once its challenge is consumed.
LEMMA SignInKeeps ==
  ASSUME PasskeyInv, NEW r \in Requests,
         FindCredential(r) \/ UpdateSignCount(r) \/ Issue(r)
  PROVE  PasskeyInv'
<1>1. pc[r] \in SigningIn
  BY DEF FindCredential, UpdateSignCount, Issue, SigningIn
<1>2. req[r].response \in assertions /\ req[r].response \in Assertion
  BY <1>1, Carried DEF Fits, PasskeyInv, PasskeyTypeOK
<1>3. req[r].response.cred \in Creds /\ req[r].response.count \in Counts
  BY <1>2 DEF Assertion
<1>4. CASE FindCredential(r)
  <2> DEFINE stored == credentials[req[r].response.cred]
             q == [req[r] EXCEPT !.stored = stored]
             passes == /\ req[r].response.challenge = req[r].challenge
                       /\ stored # Nothing /\ Grown(req[r].response.count, stored)
             place == IF passes THEN "updateSignCount" ELSE "denied"
  <2>1. Moves(r, q, place) /\ UNCHANGED <<store, counter, assertions, sessions>>
    BY <1>4 DEF FindCredential, Moves, Goto
  <2>2. stored \in Counts \cup {Nothing}
    BY <1>3 DEF PasskeyInv, PasskeyTypeOK
  <2>3. q \in Request /\ q.response = req[r].response /\ q.stored = stored
    BY <2>2, Carried DEF Request
  <2>4. place \in Places
    BY DEF Places, InFlightPlaces, Ended
  <2> HIDE DEF q
  <2>5. Fits(r, q, place)
    BY <1>2, <2>2, <2>3 DEF Fits, Consuming, Registering, SigningIn
  <2> HIDE DEF place
  <2> QED BY <2>1, <2>3, <2>4, <2>5, WalkKeeps
<1>5. CASE UpdateSignCount(r)
  <2>1. Goto(r, "issue") /\ "issue" \in Places /\ req' = req /\ issued' = issued
        /\ assertions' = assertions
    BY <1>5 DEF UpdateSignCount, Places, InFlightPlaces, challengeKeys
  <2>2. PasskeyTypeOK => PasskeyTypeOK'
    BY <1>3, <1>5, <2>1 DEF UpdateSignCount, PasskeyTypeOK, Goto, challengeKeys, Places
  <2>3. Fits(r, req[r], "issue")'
    BY <1>2, <2>1 DEF Fits, Consuming, Registering, SigningIn
  <2> QED BY <2>1, <2>2, <2>3, GoKeeps
<1>6. CASE Issue(r)
  <2>1. Goto(r, "done") /\ "done" \in Places /\ req' = req /\ issued' = issued
        /\ assertions' = assertions
    BY <1>6 DEF Issue, Places, Ended, store, challengeKeys
  <2>2. PasskeyTypeOK => PasskeyTypeOK'
    BY <1>2, <1>6, <2>1 DEF Issue, PasskeyTypeOK, Goto, store, challengeKeys, passkeyRows, Places
  <2>3. Fits(r, req[r], "done")'
    BY DEF Fits, Consuming, Registering, SigningIn
  <2> QED BY <2>1, <2>2, <2>3, GoKeeps
<1> QED BY <1>4, <1>5, <1>6

\* A port throws; a challenge expires; an authenticator signs.
LEMMA OthersKeep ==
  ASSUME PasskeyInv,
         \/ \E r \in Requests : StoreFails(r)
         \/ \E c \in Requests : Expire(c) \/ \E k \in Creds : Sign(k, c)
         \/ UNCHANGED passkeyVars
  PROVE  PasskeyInv'
<1>1. ASSUME NEW r \in Requests, StoreFails(r) PROVE PasskeyInv'
  <2>1. Goto(r, "failed") /\ "failed" \in Places /\ req' = req /\ issued' = issued
        /\ assertions' = assertions
    BY <1>1 DEF StoreFails, Places, Ended, store, challengeKeys
  <2>2. PasskeyTypeOK => PasskeyTypeOK'
    BY <1>1, <2>1 DEF StoreFails, PasskeyTypeOK, Goto, store, challengeKeys, passkeyRows, Places
  <2>3. Fits(r, req[r], "failed")'
    BY DEF Fits, Consuming, Registering, SigningIn
  <2> QED BY <2>1, <2>2, <2>3, GoKeeps
<1>2. ASSUME NEW c \in Requests, Expire(c) PROVE PasskeyInv'
  BY <1>2 DEF Expire, PasskeyInv, PasskeyTypeOK, Fits, passkeyRows
<1>3. ASSUME NEW c \in Requests, NEW k \in Creds, Sign(k, c) PROVE PasskeyInv'
  <2> DEFINE count == IF k \in Counting THEN counter[k] + 1 ELSE 0
             a == [challenge |-> c, cred |-> k, count |-> count]
  <2>1. /\ count <= MaxCount /\ counter' = [counter EXCEPT ![k] = count]
        /\ assertions' = assertions \cup {a} /\ UNCHANGED <<store, sessions, pc, req>>
    BY <1>3 DEF Sign
  <2>2. count \in Counts
    BY <2>1, PasskeyAssumption DEF Counts, PasskeyInv, PasskeyTypeOK
  <2>3. a \in Assertion
    BY <2>2 DEF Assertion
  <2> HIDE DEF count, a
  <2>4. PasskeyTypeOK'
    BY <2>1, <2>2, <2>3 DEF PasskeyInv, PasskeyTypeOK, store, challengeKeys, passkeyRows
  <2>5. ASSUME NEW r \in Requests PROVE Fits(r, req[r], pc[r])'
    BY <2>1, Carried DEF Fits, store, challengeKeys
  <2> QED BY <2>4, <2>5 DEF PasskeyInv
<1>4. CASE UNCHANGED passkeyVars
  BY <1>4 DEF passkeyVars, store, challengeKeys, passkeyRows, PasskeyInv, PasskeyTypeOK, Fits
<1> QED BY <1>1, <1>2, <1>3, <1>4

\* Every step keeps the invariant.
LEMMA NextPasskey == PasskeyInv /\ [PasskeyNext]_passkeyVars => PasskeyInv'
BY ArriveKeeps, ChallengeKeeps, GetKeeps, RegisterKeeps, SignInKeeps, OthersKeep DEF PasskeyNext

\* The invariant holds in every reachable state.
LEMMA PasskeyAlways == PasskeySpec => []PasskeyInv
BY InitPasskey, NextPasskey, PTL DEF PasskeySpec

\* The keys, rows and calls hold what PasskeyService stores in them.
THEOREM PasskeyTypes == PasskeySpec => []PasskeyTypeOK
<1>1. PasskeyInv => PasskeyTypeOK
  BY DEF PasskeyInv
<1> QED BY <1>1, PasskeyAlways, PTL

\* completeAuthentication, whatever is sent in whatever order: sign_count goes
\* back only under a sign-in that another one overtook.
THEOREM CountersGoForward == PasskeySpec => CounterBackRaced
<1> DEFINE Back(k) == credentials[k] # Nothing /\ credentials'[k] < credentials[k]
           Outrun(k) == \E r \in Requests : /\ pc[r] = "updateSignCount" /\ pc'[r] = "issue"
                                               /\ req[r].response.cred = k
                                               /\ req[r].stored # credentials[k]
<1>1. ASSUME PasskeyInv, PasskeyNext, NEW k \in Creds, Back(k) PROVE Outrun(k)
  <2>1. credentials[k] \in Counts /\ Counts \subseteq Nat /\ 0 \in Counts
    BY <1>1, PasskeyAssumption DEF PasskeyInv, PasskeyTypeOK, Counts
  <2>a. credentials[k] \in Nat
    BY <1>1, <2>1
  <2>2. credentials'[k] # credentials[k]
    BY <1>1, <2>a
  <2>3. PICK r \in Requests : UpdateSignCount(r)
    BY <1>1, <2>2 DEF PasskeyNext, Start, CompleteRegistration, CompleteAuthentication, Arrive,
       StoreChallenge, GetChallenge, DeleteChallenge, FindIdentity, CreateIdentity,
       CreateCredential, FindCredential, Issue, StoreFails, Expire, Sign, store, passkeyRows,
       PasskeyInv, PasskeyTypeOK
  <2>4. pc[r] = "updateSignCount" /\ pc'[r] = "issue"
    BY <1>1, <2>3, Carried DEF UpdateSignCount, Goto
  <2>5. /\ req[r].response \in Assertion /\ req[r].stored \in Counts
        /\ Grown(req[r].response.count, req[r].stored)
    BY <1>1, <2>4, Carried DEF Fits, SigningIn, PasskeyInv, PasskeyTypeOK
  <2>6. req[r].response.cred = k /\ credentials'[k] = req[r].response.count
    BY <1>1, <2>2, <2>3, <2>5 DEF UpdateSignCount, PasskeyInv, PasskeyTypeOK, Assertion
  <2>7. req[r].stored # credentials[k]
    <3>1. req[r].response.count \in Nat
      BY <2>1, <2>5 DEF Assertion
    <3> QED BY <1>1, <2>a, <2>5, <2>6, <3>1 DEF Grown
  <2> QED BY <2>4, <2>6, <2>7
<1>2. PasskeyInv /\ [PasskeyNext]_passkeyVars =>
        [\A k \in Creds : credentials[k] # Nothing /\ credentials'[k] < credentials[k] =>
           \E r \in Requests : /\ pc[r] = "updateSignCount" /\ pc'[r] = "issue"
                               /\ req[r].response.cred = k /\ req[r].stored # credentials[k]]_passkeyVars
  BY <1>1
<1> QED BY <1>2, PasskeyAlways, PTL DEF PasskeySpec, CounterBackRaced

(***************************************************************************)
(* The refinement: OneUse sees three fields of each request.               *)
(***************************************************************************)
phase  == [r \in Requests |-> req[r].claim]
token  == [r \in Requests |-> req[r].challenge]
rivals == [r \in Requests |-> req[r].rivals]

\* A step that leaves the challenges and those fields alone is a stutter.
Aside ==
  /\ UNCHANGED <<issued, challenges>>
  /\ \A r \in Requests : /\ req'[r].claim = req[r].claim
                         /\ req'[r].challenge = req[r].challenge
                         /\ req'[r].rivals = req[r].rivals

\* Such a step says nothing of a token.
LEMMA AsideStutters ==
  ASSUME Aside
  PROVE  UNCHANGED Uses!vars
BY DEF Aside, Uses!vars

\* Steps that are not about a challenge.
LEMMA AsideRefines ==
  ASSUME PasskeyInv, NEW r \in Requests,
         \/ Start(r) \/ FindIdentity(r) \/ CreateIdentity(r) \/ CreateCredential(r)
         \/ FindCredential(r) \/ UpdateSignCount(r) \/ Issue(r) \/ StoreFails(r)
  PROVE  Aside
<1>1. CASE Start(r)
  <2>1. /\ req' = [req EXCEPT ![r] = [NoRequest EXCEPT !.op = "start", !.challenge = Nothing,
                                                      !.response = Nothing]]
        /\ UNCHANGED <<issued, challenges>> /\ req[r] = NoRequest
    BY <1>1, Carried DEF Start, Arrive, store, challengeKeys, Fits
  <2> QED BY <2>1, Carried DEF Aside, NoRequest
<1>2. CASE FindCredential(r)
  <2>1. req' = [req EXCEPT ![r].stored = credentials[req[r].response.cred]]
        /\ UNCHANGED <<issued, challenges>>
    BY <1>2 DEF FindCredential, store, challengeKeys
  <2> QED BY <2>1, Carried DEF Aside, Request
<1>3. CASE ~Start(r) /\ ~FindCredential(r)
  BY <1>3 DEF FindIdentity, CreateIdentity, CreateCredential, UpdateSignCount, Issue, StoreFails,
     store, challengeKeys, Aside
<1> QED BY <1>1, <1>2, <1>3

\* A call that presents a challenge.
LEMMA ArriveRefines ==
  ASSUME PasskeyInv, NEW r \in Requests, CompleteRegistration(r) \/ CompleteAuthentication(r)
  PROVE  \E c \in Requests : Uses!Present(r, c)
<1>1. PICK c \in issued, op \in Completions, x \in assertions \cup Creds :
        Arrive(r, op, c, x, "get")
  BY DEF CompleteRegistration, CompleteAuthentication, Completions
<1>2. c \in Requests
  BY DEF PasskeyInv, PasskeyTypeOK
<1>3. /\ req' = [req EXCEPT ![r] = [NoRequest EXCEPT !.op = op, !.challenge = c, !.response = x]]
      /\ UNCHANGED <<issued, challenges>> /\ req[r] = NoRequest
  BY <1>1, Carried DEF Arrive, store, challengeKeys, Fits
<1>4. /\ req'[r].claim = req[r].claim /\ req'[r].challenge = c /\ req'[r].rivals = req[r].rivals
      /\ req[r].claim = "idle" /\ req[r].challenge = Nothing
      /\ \A s \in Requests : s # r => req'[s] = req[s]
  BY <1>3, Carried DEF NoRequest
<1>5. phase' = phase /\ rivals' = rivals /\ token' = [token EXCEPT ![r] = c]
  <2>1. \A s \in Requests : /\ phase'[s] = phase[s] /\ rivals'[s] = rivals[s]
                            /\ token'[s] = IF s = r THEN c ELSE token[s]
    BY <1>4 DEF phase, token, rivals
  <2> QED BY <2>1 DEF phase, token, rivals
<1>6. phase[r] = "idle" /\ token[r] = Nothing
  BY <1>4 DEF phase, token
<1>7. Uses!Present(r, c)
  BY <1>3, <1>5, <1>6 DEF Uses!Present, phase, token, rivals
<1> QED BY <1>2, <1>7

\* get.
LEMMA GetRefines ==
  ASSUME PasskeyInv, NEW r \in Requests, GetChallenge(r)
  PROVE  Uses!Read(r)
<1> DEFINE holding == {s \in Requests : req[s].claim = "holds" /\ req[s].challenge = req[r].challenge}
<1>1. /\ pc[r] = "get" /\ req[r].claim = "idle" /\ req[r].challenge # Nothing
      /\ UNCHANGED <<issued, challenges>>
  BY Carried DEF GetChallenge, Fits, Consuming, store, challengeKeys
<1>2. phase[r] = "idle" /\ token[r] = req[r].challenge /\ r \notin holding
  BY <1>1 DEF phase, token
<1>3. holding = {s \in Requests : phase[s] = "holds" /\ token[s] = token[r]}
  BY <1>2 DEF phase, token
<1>4. CASE req[r].challenge \in challenges
  <2>1. req' = [s \in Requests |->
                  IF s = r THEN [req[r] EXCEPT !.claim = "holds", !.rivals = holding]
                  ELSE IF s \in holding THEN [req[s] EXCEPT !.rivals = @ \cup {r}] ELSE req[s]]
    BY <1>4 DEF GetChallenge
  <2>2. /\ req'[r].claim = "holds" /\ req'[r].challenge = req[r].challenge
        /\ req'[r].rivals = holding
    <3>1. req'[r] = [req[r] EXCEPT !.claim = "holds", !.rivals = holding] /\ req[r] \in Request
      BY <2>1, Carried
    <3> HIDE DEF holding
    <3> QED BY <3>1 DEF Request
  <2>3. ASSUME NEW s \in Requests, s # r
        PROVE  /\ req'[s].challenge = req[s].challenge /\ req'[s].claim = req[s].claim
               /\ req'[s].rivals = IF s \in holding THEN req[s].rivals \cup {r} ELSE req[s].rivals
    <3>1. CASE s \in holding
      <4>1. req'[s] = [req[s] EXCEPT !.rivals = req[s].rivals \cup {r}] /\ req[s] \in Request
        BY <2>1, <2>3, <3>1, Carried
      <4> HIDE DEF holding
      <4> QED BY <3>1, <4>1 DEF Request
    <3>2. CASE s \notin holding
      BY <2>1, <2>3, <3>2
    <3> QED BY <3>1, <3>2
  <2> HIDE DEF holding
  <2>4. phase' = [phase EXCEPT ![r] = "holds"] /\ token' = token
    <3>1. \A s \in Requests : /\ phase'[s] = IF s = r THEN "holds" ELSE phase[s]
                              /\ token'[s] = token[s]
      BY <2>2, <2>3 DEF phase, token
    <3> QED BY <3>1 DEF phase, token
  <2>5. rivals' = [s \in Requests |-> CASE s = r         -> holding
                                       [] s \in holding -> rivals[s] \cup {r}
                                       [] OTHER         -> rivals[s]]
    <3>1. \A s \in Requests : rivals'[s] = CASE s = r         -> holding
                                            [] s \in holding -> rivals[s] \cup {r}
                                            [] OTHER         -> rivals[s]
      BY <1>2, <2>2, <2>3 DEF rivals
    <3> QED BY <3>1 DEF rivals
  <2> QED BY <1>1, <1>2, <1>3, <1>4, <2>4, <2>5
          DEF Uses!Read, Uses!Rivals, phase, token, rivals
<1>5. CASE req[r].challenge \notin challenges
  <2>1. req' = [req EXCEPT ![r].claim = "missed"]
    BY <1>5 DEF GetChallenge
  <2>2. /\ req'[r].claim = "missed" /\ req'[r].challenge = req[r].challenge
        /\ req'[r].rivals = req[r].rivals /\ \A s \in Requests : s # r => req'[s] = req[s]
    BY <2>1, Carried DEF Request
  <2>3. phase' = [phase EXCEPT ![r] = "missed"] /\ token' = token /\ rivals' = rivals
    <3>1. \A s \in Requests : /\ phase'[s] = IF s = r THEN "missed" ELSE phase[s]
                              /\ token'[s] = token[s] /\ rivals'[s] = rivals[s]
      BY <2>2 DEF phase, token, rivals
    <3> QED BY <3>1 DEF phase, token, rivals
  <2> QED BY <1>1, <1>2, <1>5, <2>3 DEF Uses!Read, phase, token, rivals
<1> QED BY <1>4, <1>5

\* del.
LEMMA DeleteRefines ==
  ASSUME PasskeyInv, NEW r \in Requests, DeleteChallenge(r)
  PROVE  Uses!Delete(r)
<1>1. /\ pc[r] = "del" /\ challenges' = challenges \ {req[r].challenge} /\ issued' = issued
  BY DEF DeleteChallenge
<1> DEFINE then == IF req[r].claim = "holds" THEN "through" ELSE "refused"
<1>2. req[r].claim \in {"holds", "missed"} /\ req' = [req EXCEPT ![r].claim = then]
  BY DEF DeleteChallenge
<1>3. /\ req'[r].claim = then /\ req'[r].challenge = req[r].challenge
      /\ req'[r].rivals = req[r].rivals /\ \A s \in Requests : s # r => req'[s] = req[s]
  BY <1>2, Carried DEF Request
<1>4. phase[r] = req[r].claim /\ token[r] = req[r].challenge
  BY DEF phase, token
<1>5. /\ phase' = [phase EXCEPT ![r] = IF @ = "holds" THEN "through" ELSE "refused"]
      /\ token' = token /\ rivals' = rivals
  <2>1. \A s \in Requests : /\ phase'[s] = IF s = r THEN then ELSE phase[s]
                            /\ token'[s] = token[s] /\ rivals'[s] = rivals[s]
    BY <1>3 DEF phase, token, rivals
  <2> QED BY <1>4, <2>1 DEF phase, token, rivals
<1> QED BY <1>1, <1>2, <1>4, <1>5 DEF Uses!Delete, phase, token, rivals

\* consumeChallenge: a challenge is read and deleted the way a one-use token
\* is, whatever calls overlap, die, or present it again.
THEOREM ChallengesAreOneUse == PasskeySpec => ConsumedAsOneUse
<1>1. PasskeyInit => Uses!Init
  BY DEF PasskeyInit, Uses!Init, NoRequest
<1>2. PasskeyInv /\ [PasskeyNext]_passkeyVars => [Uses!Next]_Uses!vars
  <2> SUFFICES ASSUME PasskeyInv, [PasskeyNext]_passkeyVars PROVE Uses!Next \/ UNCHANGED Uses!vars
    OBVIOUS
  <2>1. ASSUME NEW r \in Requests, StoreChallenge(r) PROVE Uses!Next
    <3>1. /\ r \notin issued /\ issued' = issued \cup {r} /\ challenges' = challenges \cup {r}
          /\ req' = req
      BY <2>1, Carried DEF StoreChallenge, Fits
    <3>2. Uses!Store(r)
      BY <3>1 DEF Uses!Store
    <3> QED BY <3>2 DEF Uses!Next
  <2>2. ASSUME NEW c \in Requests, Expire(c) PROVE Uses!Next
    <3>1. Uses!Expire(c)
      BY <2>2 DEF Expire, Uses!Expire
    <3> QED BY <3>1 DEF Uses!Next
  <2>3. ASSUME NEW c \in Requests, NEW k \in Creds, Sign(k, c) PROVE Aside
    BY <2>3 DEF Sign, Aside, store, challengeKeys
  <2>4. CASE UNCHANGED passkeyVars
    BY <2>4 DEF passkeyVars, store, challengeKeys, Uses!vars
  <2> QED BY <2>1, <2>2, <2>3, <2>4, AsideStutters, AsideRefines, ArriveRefines, GetRefines,
          DeleteRefines DEF PasskeyNext, Uses!Next
<1> QED BY <1>1, <1>2, PasskeyAlways, PTL DEF PasskeySpec, ConsumedAsOneUse, Uses!Spec

\* The theorems of OneUse, about the challenges.
ProvedUses == INSTANCE OneUseProofs WITH
  Callers <- Requests, Tokens <- Requests, None <- Nothing,
  ever <- issued, stored <- challenges,
  phase <- [r \in Requests |-> req[r].claim],
  token <- [r \in Requests |-> req[r].challenge],
  rivals <- [r \in Requests |-> req[r].rivals]

\* Two calls go on with one challenge only if each read it while the other
\* held it.
THEOREM ChallengesUsedOnce == PasskeySpec => []Uses!UsedTwiceOverlapped
<1>1. ProvedUses!Spec => []ProvedUses!UsedTwiceOverlapped
  BY ProvedUses!OneUseSafe DEF ProvedUses!OneUseSafe
<1>2. Uses!Init => ProvedUses!Init
  BY DEF Uses!Init, ProvedUses!Init
<1>3. [Uses!Next]_Uses!vars => [ProvedUses!Next]_ProvedUses!vars
  BY DEF Uses!Next, Uses!vars, Uses!Store, Uses!Expire, Uses!Present, Uses!Read,
     Uses!Delete, Uses!Rivals, ProvedUses!Next, ProvedUses!vars, ProvedUses!Store, ProvedUses!Expire,
     ProvedUses!Present, ProvedUses!Read, ProvedUses!Delete, ProvedUses!Rivals
<1>4. ProvedUses!UsedTwiceOverlapped => Uses!UsedTwiceOverlapped
  BY DEF ProvedUses!UsedTwiceOverlapped, Uses!UsedTwiceOverlapped
<1> QED BY ChallengesAreOneUse, <1>1, <1>2, <1>3, <1>4, PTL DEF ConsumedAsOneUse, Uses!Spec,
           ProvedUses!Spec
=============================================================================
