------------------------------ MODULE RateLimiter ------------------------------
(***************************************************************************)
(* checkRateLimit of apps/api/src/lib/rate-limit.ts: a bucket for each key *)
(* (a scope with a user, a player session or an address) counts from one   *)
(* in windows that begin with the first request after the last one ended.  *)
(*                                                                         *)
(* A request that passes is kept with the start of its window; no code     *)
(* reads that record.  Abstracted: the headers of the answer.              *)
(***************************************************************************)
EXTENDS Integers, FiniteSets

CONSTANTS
  Keys,       \* buildRateLimitKey
  Limit,      \* limit of the scope
  WindowMs    \* windowMs of the scope

VARIABLES
  now,       \* Date.now()
  buckets,   \* count and resetsAt of each key; no bucket is one that is over
  passed     \* requests that were allowed

limitVars == <<now, buckets, passed>>

LimitInit ==
  /\ now \in Nat
  /\ buckets = [k \in Keys |-> [count |-> 0, resetsAt |-> 0]]
  /\ passed = {}

LimitTypeOK ==
  /\ now \in Nat
  /\ buckets \in [Keys -> [count : Nat, resetsAt : Nat]]
  /\ passed \subseteq [key : Keys, nr : Nat, start : Nat, at : Nat]

Over(k) == now >= buckets[k].resetsAt

\* the window of a bucket
Start(k) == buckets[k].resetsAt - WindowMs

Passes(k, start) ==
  \E n \in Nat :
    /\ \A p \in passed : p.nr # n
    /\ passed' = passed \union {[key |-> k, nr |-> n, start |-> start, at |-> now]}

\* The first request of a window is allowed.
Opens(k) ==
  /\ Over(k)
  /\ buckets' = [buckets EXCEPT ![k] = [count |-> 1, resetsAt |-> now + WindowMs]]
  /\ Passes(k, now)
  /\ UNCHANGED now

Counts(k) ==
  /\ ~Over(k) /\ buckets[k].count < Limit
  /\ buckets' = [buckets EXCEPT ![k] = [count |-> @.count + 1, resetsAt |-> @.resetsAt]]
  /\ Passes(k, Start(k))
  /\ UNCHANGED now

\* Refused: the answer is 429 and the bucket stays as it is.
Refuses(k) ==
  /\ ~Over(k) /\ buckets[k].count >= Limit
  /\ UNCHANGED limitVars

Tick ==
  /\ now' = now + 1
  /\ UNCHANGED <<buckets, passed>>

LimitNext == Tick \/ \E k \in Keys : Opens(k) \/ Counts(k) \/ Refuses(k)

LimitSpec == LimitInit /\ [][LimitNext]_limitVars

-----------------------------------------------------------------------------
\* Requests of a key that passed at t or later, less than a window later.
Within(k, t) == {p \in passed : p.key = k /\ t <= p.at /\ p.at < t + WindowMs}

\* Around the edge of two windows a key may pass twice its limit, never more,
\* in whatever stretch of time as long as a window.
AtMostTwice == \A k \in Keys, t \in Nat : Cardinality(Within(k, t)) <= 2 * Limit
=============================================================================
