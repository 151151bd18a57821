----------------------------- MODULE Throttler -----------------------------
(***************************************************************************)
(* RedisThrottlerStorage.increment in authentication/, for one key (a      *)
(* route and an address): a sliding window of hits in a sorted set, and a  *)
(* block that a hit over the limit starts.  A request reads its instance's *)
(* clock, then sends the transaction on the window, then SET NX and PTTL   *)
(* on the block, each a call of its own; requests of several instances     *)
(* overtake each other, and the keys expire in between.                    *)
(*                                                                         *)
(* Time is one clock that ClockTick advances; the instances agree on it.   *)
(***************************************************************************)
EXTENDS Integers, FiniteSets

CONSTANTS
  Requests,
  Ttl, Limit,  \* of the throttler: the window, and the hits it allows
  BlockFor,    \* blockDuration: 0, or how long a block lasts
  MaxTime      \* bound: the clock stops here

ASSUME ThrottlerAssumption ==
  /\ IsFiniteSet(Requests)
  /\ Ttl \in Nat \ {0}
  /\ Limit \in Nat \ {0}
  /\ BlockFor \in Nat
  /\ MaxTime \in Nat

VARIABLES
  clock,
  hits, hitsUntil,  \* the sorted set of zkey: its members; when the key expires
  blockUntil,       \* when blockKey expires
  req               \* of each request

throttlerVars == <<clock, hits, hitsUntil, blockUntil, req>>

Request ==
  [pc     : {"idle", "multi", "set", "pttl", "passed", "refused", "failed"},
   at     : Nat,        \* its Date.now(), the score of its hit
   total  : Nat,        \* totalHits
   prompt : BOOLEAN,    \* history: its hit was counted while that was the time
   lapsed : BOOLEAN]    \* history: a block expired between its SET and its PTTL

NoRequest == [pc |-> "idle", at |-> 0, total |-> 0, prompt |-> FALSE, lapsed |-> FALSE]

ThrottlerInit ==
  /\ clock = 0
  /\ hits = {}
  /\ hitsUntil = 0
  /\ blockUntil = 0
  /\ req = [r \in Requests |-> NoRequest]

\* The members Redis still has, and those ZREMRANGEBYSCORE leaves at t.
Live == IF clock < hitsUntil THEN hits ELSE {}

\* Mutant: a hit that is as old as the window is not dropped.
WindowOpen(t) == {h \in Live : req[h].at >= t - Ttl}

Window(t) == {h \in Live : req[h].at > t - Ttl}

-----------------------------------------------------------------------------
ClockTick ==
  /\ clock < MaxTime
  /\ clock' = clock + 1
  /\ req' = [r \in Requests |->
               IF req[r].pc = "pttl" /\ blockUntil = clock + 1
               THEN [req[r] EXCEPT !.lapsed = TRUE] ELSE req[r]]
  /\ UNCHANGED <<hits, hitsUntil, blockUntil>>

\* now = Date.now().
Increment(r) ==
  /\ req[r].pc = "idle"
  /\ req' = [req EXCEPT ![r].pc = "multi", ![r].at = clock]
  /\ UNCHANGED <<clock, hits, hitsUntil, blockUntil>>

\* Mutant: no block is started.
AfterMultiUnset(total) ==
  IF BlockFor > 0 THEN "pttl" ELSE IF total > Limit THEN "refused" ELSE "passed"

\* Where the answer of the transaction takes a request.
AfterMulti(total) ==
  IF BlockFor > 0 THEN IF total > Limit THEN "set" ELSE "pttl"
  ELSE IF total > Limit THEN "refused" ELSE "passed"

\* MULTI: drop what left the window, add the hit, count, renew the expiry.
Multi(r) ==
  LET kept == Window(req[r].at) \cup {r}
      total == Cardinality(kept)
  IN /\ req[r].pc = "multi"
     /\ hits' = kept
     /\ hitsUntil' = clock + Ttl
     /\ req' = [req EXCEPT ![r].pc = AfterMulti(total), ![r].total = total,
                           ![r].prompt = (clock = req[r].at)]
     /\ UNCHANGED <<clock, blockUntil>>

\* SET blockKey PX NX: a block that lives is left as it is.
BeginBlock == blockUntil' = IF clock < blockUntil THEN blockUntil ELSE clock + BlockFor

SetBlock(r) ==
  /\ req[r].pc = "set"
  /\ BeginBlock
  /\ req' = [req EXCEPT ![r].pc = "pttl"]
  /\ UNCHANGED <<clock, hits, hitsUntil>>

\* PTTL blockKey: the verdict, whatever totalHits is.
Pttl(r) ==
  /\ req[r].pc = "pttl"
  /\ req' = [req EXCEPT ![r].pc = IF clock < blockUntil THEN "refused" ELSE "passed"]
  /\ UNCHANGED <<clock, hits, hitsUntil, blockUntil>>

\* Redis has run the transaction, or the SET, but the connection is lost
\* before it answers: the client sends it again, with the member and the
\* score it had, or gives up.
Unanswered(r) ==
  /\ \/ /\ req[r].pc = "multi"
        /\ hits' = Window(req[r].at) \cup {r}
        /\ hitsUntil' = clock + Ttl
        /\ UNCHANGED blockUntil
     \/ /\ req[r].pc = "set"
        /\ BeginBlock
        /\ UNCHANGED <<hits, hitsUntil>>
  /\ UNCHANGED <<clock, req>>

\* Redis does not answer: increment throws, and the guard with it.
CallFails(r) ==
  /\ req[r].pc \in {"multi", "set", "pttl"}
  /\ req' = [req EXCEPT ![r].pc = "failed"]
  /\ UNCHANGED <<clock, hits, hitsUntil, blockUntil>>

ThrottlerNext ==
  \/ ClockTick
  \/ \E r \in Requests :
       Increment(r) \/ Multi(r) \/ SetBlock(r) \/ Pttl(r) \/ Unanswered(r) \/ CallFails(r)

ThrottlerSpec == ThrottlerInit /\ [][ThrottlerNext]_throttlerVars

-----------------------------------------------------------------------------
(* Correctness.                                                            *)

(* The types; a hit in the set was counted, and no key outlives its time.  *)
ThrottlerTypeOK ==
  /\ clock \in 0..MaxTime
  /\ hits \subseteq Requests
  /\ hitsUntil \in Nat /\ hitsUntil <= clock + Ttl
  /\ blockUntil \in Nat /\ blockUntil <= clock + BlockFor
  /\ req \in [Requests -> Request]

Within(S, t) == {r \in S : t - Ttl < req[r].at /\ req[r].at <= t}

Passed == {r \in Requests : req[r].pc = "passed"}

(* Of the requests whose hit is counted in the tick of their clock reading *)
(* and whose block does not expire under them, at most Limit pass in any   *)
(* window of Ttl, however they interleave, and though others are late.     *)
InTime == {r \in Passed : req[r].prompt /\ ~req[r].lapsed}

WithinLimit == \A t \in 0..MaxTime : Cardinality(Within(InTime, t)) <= Limit

Sent == {r \in Requests : req[r].pc # "idle"}

(* Nobody is refused, and no block begins, before a request was really     *)
(* over the limit: unless its hit was counted late, and so among younger   *)
(* ones, the window up to it holds more than Limit requests, each of them  *)
(* sent once, though transactions overtake each other and are sent again.  *)
RefusedForRate ==
  (\E r \in Requests : req[r].pc = "refused") \/ clock < blockUntil =>
    \E g \in Requests :
      /\ req[g].total > Limit
      /\ req[g].prompt => Cardinality(Within(Sent, req[g].at)) > Limit

-----------------------------------------------------------------------------
(* The inductive invariant of the proof of WithinLimit.                    *)

Counted == {r \in Requests : req[r].pc \in {"set", "pttl", "passed"}}

(* A counted hit younger than Ttl is in the set, and the key is still      *)
(* there: neither an overtaking request nor the expiry drops it too early. *)
HitsKept ==
  /\ \A r \in Requests : req[r].at <= clock
  /\ \A r \in Counted : /\ req[r].at + Ttl <= hitsUntil
                        /\ req[r].at > clock - Ttl => r \in hits

(* A request over the limit is on its way to a block that lives.           *)
OverBlocked ==
  \A r \in Requests :
    /\ req[r].pc = "set" => BlockFor > 0 /\ req[r].total > Limit
    /\ req[r].pc = "pttl" /\ req[r].total > Limit => req[r].lapsed \/ clock < blockUntil
    /\ req[r].pc = "passed" /\ req[r].total > Limit => req[r].lapsed

(* Those counted in time and within the limit are at most Limit a window,  *)
(* whether they have passed already or still look for a block.             *)
Fit == {r \in Counted : req[r].pc # "set" /\ req[r].prompt /\ req[r].total <= Limit}

FitWithin == \A t \in 0..MaxTime : Cardinality(Within(Fit, t)) <= Limit

ThrottlerInv == ThrottlerTypeOK /\ HitsKept /\ OverBlocked /\ FitWithin

=============================================================================
