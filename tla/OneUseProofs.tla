---------------------------- MODULE OneUseProofs ----------------------------
(***************************************************************************)
(* Proofs about OneUse, for any callers and tokens.                        *)
(***************************************************************************)
EXTENDS OneUse, TLAPS

\* The state before anything is stored satisfies the inductive invariant.
LEMMA InitOneUse == Init => OneUseInv
BY DEF Init, OneUseInv, TypeOK, HitsOverlapped, ThroughDeleted, HitsStored, Phases, Hit

\* A get either misses, or finds every other caller that has the token
\* still holding it, because the first deletion takes it out of the store.
LEMMA ReadOneUse ==
  ASSUME OneUseInv, NEW c \in Callers, Read(c)
  PROVE  OneUseInv'
<1> USE DEF OneUseInv, TypeOK
<1>1. CASE token[c] \in stored
  <2>1. phase' = [phase EXCEPT ![c] = "holds"] /\ UNCHANGED <<ever, stored, token>>
    BY <1>1 DEF Read
  <2>2. rivals' = [d \in Callers |-> CASE d = c           -> Rivals(c)
                                       [] d \in Rivals(c) -> rivals[d] \cup {c}
                                       [] OTHER           -> rivals[d]]
    BY <1>1 DEF Read
  <2>3. Rivals(c) \subseteq Callers /\ c \notin Rivals(c)
    BY DEF Rivals, Read
  <2>4. TypeOK'
    BY <2>1, <2>2, <2>3 DEF Phases
  <2>5. ThroughDeleted' /\ HitsStored'
    BY <1>1, <2>1 DEF ThroughDeleted, HitsStored, Hit
  <2>6. \A d \in Callers : d # c /\ phase[d] \in Hit /\ token[d] = token[c] => d \in Rivals(c)
    BY <1>1 DEF ThroughDeleted, Hit, Rivals
  <2>7. \A d \in Callers : d # c /\ d \in Rivals(c) => c \in rivals'[d] /\ d \in rivals'[c]
    BY <2>2, <2>3
  <2>8. \A d \in Callers : d # c => rivals[d] \subseteq rivals'[d]
    BY <2>2
  <2>9. HitsOverlapped'
    <3> SUFFICES ASSUME NEW d \in Callers, NEW e \in Callers, d # e,
                        phase'[d] \in Hit, phase'[e] \in Hit, token'[d] = token'[e]
                 PROVE  d \in rivals'[e] /\ e \in rivals'[d]
      BY DEF HitsOverlapped
    <3>1. CASE d = c
      BY <3>1, <2>1, <2>6, <2>7
    <3>2. CASE e = c
      BY <3>2, <2>1, <2>6, <2>7
    <3>3. CASE d # c /\ e # c
      BY <3>3, <2>1, <2>8 DEF HitsOverlapped
    <3> QED BY <3>1, <3>2, <3>3
  <2> QED BY <2>4, <2>5, <2>9
<1>2. CASE token[c] \notin stored
  <2>1. phase' = [phase EXCEPT ![c] = "missed"] /\ UNCHANGED <<ever, stored, token, rivals>>
    BY <1>2 DEF Read
  <2> QED BY <2>1 DEF HitsOverlapped, ThroughDeleted, HitsStored, Hit, Phases
<1> QED BY <1>1, <1>2

\* Every step keeps the inductive invariant.
LEMMA NextOneUse == OneUseInv /\ [Next]_vars => OneUseInv'
<1> SUFFICES ASSUME OneUseInv, [Next]_vars
             PROVE  OneUseInv'
  OBVIOUS
<1> USE DEF OneUseInv, TypeOK, HitsOverlapped, ThroughDeleted, HitsStored
<1>1. ASSUME NEW t \in Tokens, Store(t)
      PROVE  OneUseInv'
  BY <1>1 DEF Store, Hit
<1>2. ASSUME NEW t \in Tokens, Expire(t)
      PROVE  OneUseInv'
  BY <1>2 DEF Expire
<1>3. ASSUME NEW c \in Callers, NEW t \in Tokens, Present(c, t)
      PROVE  OneUseInv'
  BY <1>3 DEF Present, Hit
<1>4. ASSUME NEW c \in Callers, Read(c)
      PROVE  OneUseInv'
  BY <1>4, ReadOneUse
<1>5. ASSUME NEW c \in Callers, Delete(c)
      PROVE  OneUseInv'
  <2>1. CASE phase[c] = "holds"
    BY <1>5, <2>1 DEF Delete, Hit, Phases
  <2>2. CASE phase[c] = "missed"
    BY <1>5, <2>2 DEF Delete, Hit, Phases
  <2> QED BY <1>5, <2>1, <2>2 DEF Delete
<1>6. CASE UNCHANGED vars
  BY <1>6 DEF vars
<1> QED BY <1>1, <1>2, <1>3, <1>4, <1>5, <1>6 DEF Next

\* The invariant holds throughout: types, and that a token some caller is
\* through with is out of the store.
THEOREM OneUseInductive == Spec => []OneUseInv
BY InitOneUse, NextOneUse, PTL DEF Spec

\* consumeChallenge and the OAuth state store: a token that one call has
\* consumed is accepted from another only if both read it at the same time.
THEOREM OneUseSafe == Spec => []UsedTwiceOverlapped
<1>1. OneUseInv => UsedTwiceOverlapped
  BY DEF OneUseInv, HitsOverlapped, UsedTwiceOverlapped, Hit
<1> QED BY InitOneUse, NextOneUse, <1>1, PTL DEF Spec
=============================================================================
