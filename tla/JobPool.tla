------------------------------- MODULE JobPool -------------------------------
(***************************************************************************)
(* What the scheduler promises about a job it has accepted, without saying *)
(* how: every successful Enqueue hands out a ticket; the ticket waits, is   *)
(* run by one of Concurrency workers, waits again if the run failed and a   *)
(* retry is left, and is finally done.  No ticket is run by two workers, at *)
(* most Concurrency run at a time, and a ticket is started at most          *)
(* MaxRetries + 1 times.  Scheduler.tla implements this specification.      *)
(***************************************************************************)
EXTENDS Integers, FiniteSets

CONSTANTS
  Tickets,       (* identities of the accepted Enqueue calls               *)
  Concurrency,   (* Options.Concurrency: the number of workers             *)
  MaxRetries     (* Options.MaxRetries: -1 is unlimited                    *)

VARIABLES
  place,         (* place[t]: "unused", "waiting", "running" or "done"     *)
  starts         (* starts[t]: how often t was started, if that is bounded *)

poolVars == <<place, starts>>

Running == {t \in Tickets : place[t] = "running"}

Unlimited == MaxRetries < 0

PoolInit ==
  /\ place = [t \in Tickets |-> "unused"]
  /\ starts = [t \in Tickets |-> 0]

Accept(t) ==
  /\ place[t] = "unused"
  /\ place' = [place EXCEPT ![t] = "waiting"]
  /\ UNCHANGED starts

Start(t) ==
  /\ place[t] = "waiting"
  /\ Cardinality(Running) < Concurrency
  /\ Unlimited \/ starts[t] <= MaxRetries
  /\ place' = [place EXCEPT ![t] = "running"]
  /\ starts' = [starts EXCEPT ![t] = IF Unlimited THEN @ ELSE @ + 1]

WaitForRetry(t) ==
  /\ place[t] = "running"
  /\ Unlimited \/ starts[t] <= MaxRetries
  /\ place' = [place EXCEPT ![t] = "waiting"]
  /\ UNCHANGED starts

\* A run ended without a retry, or a waiting ticket was given up by a shutdown.
Finish(t) ==
  /\ place[t] \in {"waiting", "running"}
  /\ place' = [place EXCEPT ![t] = "done"]
  /\ UNCHANGED starts

\* The process ended: whatever it had accepted is forgotten.
Forget ==
  /\ place' = [t \in Tickets |-> IF place[t] = "unused" THEN "unused" ELSE "done"]
  /\ UNCHANGED starts

PoolNext ==
  \/ \E t \in Tickets : Accept(t) \/ Start(t) \/ WaitForRetry(t) \/ Finish(t)
  \/ Forget

PoolSpec == PoolInit /\ [][PoolNext]_poolVars
=============================================================================
