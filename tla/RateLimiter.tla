----------------------------- MODULE RateLimiter -----------------------------
(***************************************************************************)
(* The token buckets: internal/ratelimiter, which reads the clock, refills   *)
(* and takes a token in three steps, the last two under separate locks, and  *)
(* middleware/ratelimiter, which does all of it under one.                   *)
(*                                                                          *)
(* Time is in ticks and Rate in tokens per tick; a fraction of a token is    *)
(* left out by choosing the tick.                                            *)
(***************************************************************************)
EXTENDS Integers

CONSTANTS
  Requests,      (* concurrent requests                                    *)
  Rate,          (* tokens per tick                                        *)
  Burst,         (* New's burst, which is Rate when none is given          *)
  MaxTicks       (* bound: ticks                                           *)

ASSUME RateLimiterAssumption ==
  /\ Rate \in Nat \ {0}
  /\ Burst \in Nat \ {0}
  /\ MaxTicks \in Nat

VARIABLES
  ticks,         (* the clock                                              *)
  tokens,        (* rl.tokens: it may be negative                          *)
  lastRefill,    (* rl.lastRefill: it may go back                          *)
  request,       (* request[r]: [at, now]                                  *)
  admitted,      (* requests answered with 200 so far                      *)
  bucket         (* [tokens, last, admitted] of the middleware's bucket    *)

rlVars == <<ticks, tokens, lastRefill, request, admitted, bucket>>

RateInit ==
  /\ ticks = 0
  /\ tokens = Burst
  /\ lastRefill = 0
  /\ request = [r \in Requests |-> [at |-> "idle", now |-> 0]]
  /\ admitted = 0
  /\ bucket = [tokens |-> Burst, last |-> 0, admitted |-> 0]

ClockTicks ==
  /\ ticks < MaxTicks
  /\ ticks' = ticks + 1
  /\ UNCHANGED <<tokens, lastRefill, request, admitted, bucket>>

\* refill reads the clock before it waits for the lock.
ReadClock(r) ==
  /\ request[r].at = "idle"
  /\ request' = [request EXCEPT ![r] = [at |-> "read", now |-> ticks]]
  /\ UNCHANGED <<ticks, tokens, lastRefill, admitted, bucket>>

Capped(n) == IF n < Burst THEN n ELSE Burst

\* Mutant of Earned: the time since the last refill is never negative.
NeverNegative(now, last) == IF now < last THEN 0 ELSE (now - last) * Rate
Earned(now, last) == (now - last) * Rate

Refill(r) ==
  /\ request[r].at = "read"
  /\ tokens' = Capped(tokens + Earned(request[r].now, lastRefill))
  /\ lastRefill' = request[r].now
  /\ request' = [request EXCEPT ![r].at = "refilled"]
  /\ UNCHANGED <<ticks, admitted, bucket>>

\* Context cancelled: 503.
RefillCancelled(r) ==
  /\ request[r].at = "read"
  /\ tokens' = Capped(tokens + Earned(request[r].now, lastRefill))
  /\ lastRefill' = request[r].now
  /\ request' = [request EXCEPT ![r].at = "idle"]
  /\ UNCHANGED <<ticks, admitted, bucket>>

Take(r) ==
  /\ request[r].at = "refilled" /\ tokens >= 1
  /\ tokens' = tokens - 1
  /\ admitted' = admitted + 1
  /\ request' = [request EXCEPT ![r].at = "idle"]
  /\ UNCHANGED <<ticks, lastRefill, bucket>>

\* 429, with a Retry-After of recalcWaitTime.
TurnedAway(r) ==
  /\ request[r].at = "refilled" /\ tokens < 1
  /\ request' = [request EXCEPT ![r].at = "idle"]
  /\ UNCHANGED <<ticks, tokens, lastRefill, admitted, bucket>>

\* TokenBucket.consume, all under tb.mu.
Consume ==
  LET full == Capped(bucket.tokens + Earned(ticks, bucket.last))
      taken == IF full >= 1 THEN 1 ELSE 0
  IN /\ bucket' = [tokens |-> full - taken, last |-> ticks, admitted |-> bucket.admitted + taken]
     /\ UNCHANGED <<ticks, tokens, lastRefill, request, admitted>>

RequestStep(r) ==
  ReadClock(r) \/ Refill(r) \/ RefillCancelled(r) \/ Take(r) \/ TurnedAway(r)

RateNext == ClockTicks \/ (\E r \in Requests : RequestStep(r)) \/ Consume

RateSpec == RateInit /\ [][RateNext]_rlVars

RateTypeOK ==
  /\ ticks \in Nat
  /\ tokens \in Int /\ lastRefill \in Nat /\ admitted \in Nat
  /\ request \in [Requests -> [at : {"idle", "read", "refilled"}, now : Nat]]
  /\ bucket \in [tokens : Nat, last : Nat, admitted : Nat]

(* However the steps of concurrent requests interleave, and although a late  *)
(* refill sets lastRefill back, no more requests are admitted than the burst *)
(* and the tokens of the time that has passed (ratelimiter.go ServeHTTP,     *)
(* refill; token_bucket.go consume).                                         *)
AdmittedBounded ==
  /\ admitted <= Burst + Rate * ticks
  /\ bucket.admitted <= Burst + Rate * ticks
=============================================================================
