--------------------------- MODULE SchedulerProps ---------------------------
(***************************************************************************)
(* The properties of Scheduler.tla and the mapping that shows it implements *)
(* JobPool.tla.                                                             *)
(***************************************************************************)
EXTENDS Scheduler

TypeOK ==
  /\ entering \subseteq Call
  /\ queue \in Seq(Job)
  /\ Len(queue) <= QueueCap
  /\ running \subseteq RunJob
  /\ exited \subseteq Workers
  /\ retrying \subseteq Job
  /\ shut \in ShutStages
  /\ issued \in 0..MaxTickets
  /\ runs \in [Tickets -> Nat]

-----------------------------------------------------------------------------
(* The jobs that a later Engine.Run call is going to get, and those some    *)
(* call has now.                                                            *)
Waiting(j) == (\E i \in 1..Len(queue) : queue[i] = j) \/ j \in retrying
RunningJob(j) == \E r \in running : r.job = j
Carries(t) == \E j \in Job : j.ticket = t /\ (Waiting(j) \/ RunningJob(j))

\* A worker runs one job at a time, and never after it has returned.
OneJobPerWorker ==
  /\ \A r, s \in running : r.worker = s.worker => r = s
  /\ \A r \in running : r.worker \notin exited

\* An accepted Enqueue is never multiplied: however it has been requeued by
\* retry goroutines, its ticket sits in one slot of the channel, or with one
\* retry goroutine, or with one worker.
QueueTicketsDistinct ==
  \A i, k \in 1..Len(queue) : queue[i].ticket = queue[k].ticket => i = k
RetryTicketsDistinct ==
  \A j, k \in retrying : j.ticket = k.ticket => j = k
RunTicketsDistinct ==
  \A r, s \in running : r.job.ticket = s.job.ticket => r = s
PlacesDisjoint ==
  /\ \A i \in 1..Len(queue) :
       /\ \A j \in retrying : queue[i].ticket # j.ticket
       /\ \A r \in running : queue[i].ticket # r.job.ticket
  /\ \A j \in retrying, r \in running : j.ticket # r.job.ticket
TicketInOnePlace ==
  /\ QueueTicketsDistinct
  /\ RetryTicketsDistinct
  /\ RunTicketsDistinct
  /\ PlacesDisjoint

\* The attempt number a job carries is the number of Engine.Run calls made for
\* it before, so the retry budget is spent exactly: a ticket never costs more
\* than MaxRetries + 1 calls.
AttemptsCountRuns ==
  Unlimited \/
    /\ \A i \in 1..Len(queue) : runs[queue[i].ticket] = queue[i].attempt
    /\ \A j \in retrying : runs[j.ticket] = j.attempt
    /\ \A r \in running : runs[r.job.ticket] = r.job.attempt + 1
RetryBudget ==
  /\ AttemptsCountRuns
  /\ Unlimited \/ \A t \in Tickets : runs[t] <= MaxRetries + 1

\* A ticket that has not been handed out is nowhere and has not been run: what
\* makes TicketInOnePlace and AttemptsCountRuns survive the next Enqueue.
OnlyIssued ==
  /\ \A i \in 1..Len(queue) : queue[i].ticket <= issued
  /\ \A j \in retrying : j.ticket <= issued
  /\ \A r \in running : r.job.ticket <= issued
  /\ \A t \in Tickets : t > issued => runs[t] = 0

\* Shutdown returns nil only when no Engine.Run call is in progress.
CleanShutdown == shut = "drained" => running = {} /\ exited = Workers

\* Unless the scheduler is stopped, every accepted job is settled: run, retried
\* as often as it may be, and gone.
TicketSettles == \A t \in Tickets : Carries(t) ~> (~Carries(t) \/ CtxCancelled)

\* A Shutdown call comes to an end: the workers notice the cancellation and
\* return (or the process is restarted).
ShutdownCompletes == CtxCancelled ~> (shut \in {"drained", "timedout", "up"})

-----------------------------------------------------------------------------
PlaceOf(t) ==
  IF t > issued THEN "unused"
  ELSE IF \E r \in running : r.job.ticket = t THEN "running"
  ELSE IF \/ \E i \in 1..Len(queue) : queue[i].ticket = t
          \/ \E j \in retrying : j.ticket = t
       THEN "waiting"
  ELSE "done"

Pool == INSTANCE JobPool
          WITH Concurrency <- Cardinality(Workers),
               place <- [t \in Tickets |-> PlaceOf(t)],
               starts <- runs

\* The channel, the worker goroutines and the retry goroutines together behave
\* as the pool of JobPool.tla.
ImplementsPool == Pool!PoolSpec
=============================================================================
