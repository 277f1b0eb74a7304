--------------------------- MODULE SchedulerProofs ---------------------------
(***************************************************************************)
(* Proofs about Scheduler.tla, for every number of workers and callers,      *)
(* every queue capacity, every MaxRetries and every bound on Enqueue calls:  *)
(* the safety invariants of SchedulerProps, and that the channel, the worker *)
(* goroutines and the retry goroutines are one pool of tickets (JobPool).    *)
(***************************************************************************)
EXTENDS SchedulerProps, SequenceTheorems, FiniteSetTheorems, TLAPS

LEMMA JobFields ==
  ASSUME NEW j \in Job
  PROVE  /\ j.workflowID \in Workflows
         /\ j.attempt \in Attempts
         /\ j.ticket \in Tickets
BY DEF Job

\* A first attempt is a job for every retry budget.
LEMMA FirstAttempt == 0 \in Attempts
BY SchedulerAssumption DEF Attempts, Unlimited

\* The job a retry goroutine holds is a job: its attempt is within the budget.
LEMMA NextAttemptIsJob ==
  ASSUME NEW j \in Job, RetryLeft(j)
  PROVE  /\ NextAttempt(j) \in Job
         /\ NextAttempt(j).ticket = j.ticket
         /\ NextAttempt(j).attempt = IF Unlimited THEN 0 ELSE j.attempt + 1
<1>1. CASE Unlimited
  BY <1>1 DEF NextAttempt, Job, Attempts
<1>2. CASE ~Unlimited
  BY <1>2, SchedulerAssumption DEF NextAttempt, RetryLeft, Job, Attempts, Unlimited
<1> QED BY <1>1, <1>2

-----------------------------------------------------------------------------
(* Type correctness.                                                        *)

LEMMA TypeInit == SchedInit => TypeOK
<1> SUFFICES ASSUME SchedInit PROVE TypeOK OBVIOUS
<1>1. <<>> \in Seq(Job) /\ Len(<<>>) = 0
  BY EmptySeq
<1>2. 0 <= QueueCap /\ issued \in 0..MaxTickets
  BY SchedulerAssumption DEF SchedInit
<1>3. runs \in [Tickets -> Nat]
  BY DEF SchedInit
<1> QED BY <1>1, <1>2, <1>3 DEF SchedInit, TypeOK, ShutStages

LEMMA TypeStep == TypeOK /\ [SchedNext]_schedVars => TypeOK'
<1> SUFFICES ASSUME TypeOK, [SchedNext]_schedVars PROVE TypeOK' OBVIOUS
<1> USE DEF TypeOK
<1>1. ASSUME NEW c \in Callers, NEW id \in Workflows, EnqueueCheck(c, id)
      PROVE  TypeOK'
  BY <1>1 DEF EnqueueCheck, Call
<1>2. ASSUME NEW e \in entering, EnqueueSend(e)
      PROVE  TypeOK'
  <2> DEFINE j == [workflowID |-> e.id, attempt |-> 0, ticket |-> issued + 1]
  <2>1. e.id \in Workflows
    BY DEF Call
  <2>2. issued' \in 1..MaxTickets
    BY <1>2, SchedulerAssumption DEF EnqueueSend
  <2>3. j \in Job
    BY <1>2, <2>1, <2>2, FirstAttempt DEF EnqueueSend, Job, Tickets
  <2>4. Append(queue, j) \in Seq(Job) /\ Len(Append(queue, j)) = Len(queue) + 1
    BY <2>3, AppendProperties
  <2>5. queue' \in Seq(Job) /\ Len(queue') <= QueueCap
    BY <1>2, <2>4, LenProperties, SchedulerAssumption DEF EnqueueSend
  <2> QED BY <1>2, <2>2, <2>5 DEF EnqueueSend
<1>3. ASSUME NEW e \in entering, EnqueueFull(e)
      PROVE  TypeOK'
  BY <1>3 DEF EnqueueFull
<1>4. ASSUME NEW w \in Workers, TakeJob(w)
      PROVE  TypeOK'
  <2>1. Head(queue) \in Job /\ Tail(queue) \in Seq(Job) /\ Len(Tail(queue)) = Len(queue) - 1
    BY <1>4, HeadTailProperties DEF TakeJob
  <2>2. queue' \in Seq(Job) /\ Len(queue') <= QueueCap
    BY <1>4, <2>1, LenProperties, SchedulerAssumption DEF TakeJob
  <2>3. running' \subseteq RunJob
    BY <1>4, <2>1 DEF TakeJob, RunJob
  <2>4. runs' \in [Tickets -> Nat]
    BY <1>4, <2>1, JobFields DEF TakeJob
  <2> QED BY <1>4, <2>2, <2>3, <2>4 DEF TakeJob
<1>5. ASSUME NEW w \in Workers, WorkerExit(w)
      PROVE  TypeOK'
  BY <1>5 DEF WorkerExit
<1>6. ASSUME NEW r \in running, JobDone(r)
      PROVE  TypeOK'
  BY <1>6 DEF JobDone
<1>7. ASSUME NEW r \in running, JobFailed(r)
      PROVE  TypeOK'
  <2>1. r.job \in Job
    BY DEF RunJob
  <2>2. retrying' \subseteq Job
    BY <1>7, <2>1, NextAttemptIsJob DEF JobFailed
  <2> QED BY <1>7, <2>2 DEF JobFailed
<1>8. ASSUME NEW j \in retrying, RetrySend(j)
      PROVE  TypeOK'
  <2>1. Append(queue, j) \in Seq(Job) /\ Len(Append(queue, j)) = Len(queue) + 1
    BY AppendProperties
  <2>2. queue' \in Seq(Job) /\ Len(queue') <= QueueCap
    BY <1>8, <2>1, LenProperties, SchedulerAssumption DEF RetrySend
  <2> QED BY <1>8, <2>2 DEF RetrySend
<1>9. ASSUME NEW j \in retrying, RetryGiveUp(j)
      PROVE  TypeOK'
  BY <1>9 DEF RetryGiveUp
<1>10. CASE ShutdownNext
  BY <1>10 DEF ShutdownNext, CancelCtx, CloseDone, ShutdownReturn, ShutdownTimeout,
               ShutdownStep, ShutStages
<1>11. CASE Restart
  <2>1. <<>> \in Seq(Job) /\ Len(<<>>) = 0
    BY EmptySeq
  <2>2. 0 <= QueueCap
    BY SchedulerAssumption
  <2> QED BY <1>11, <2>1, <2>2 DEF Restart, ShutStages
<1>12. CASE UNCHANGED schedVars
  BY <1>12 DEF schedVars
<1> QED BY <1>1, <1>2, <1>3, <1>4, <1>5, <1>6, <1>7, <1>8, <1>9, <1>10, <1>11, <1>12
        DEF SchedNext, RetryStep

\* Every reachable state of the scheduler is well typed; in particular the
\* channel never holds more than its capacity and a job's attempt number never
\* exceeds Options.MaxRetries.
THEOREM TypeCorrect == SchedSpec => []TypeOK
BY TypeInit, TypeStep, PTL DEF SchedSpec

-----------------------------------------------------------------------------
(* The workers.                                                             *)

\* A worker takes a job only between two jobs and before it returns.
LEMMA WorkersStep ==
  TypeOK /\ OneJobPerWorker /\ [SchedNext]_schedVars => OneJobPerWorker'
<1> SUFFICES ASSUME TypeOK, OneJobPerWorker, [SchedNext]_schedVars
             PROVE  OneJobPerWorker'
  OBVIOUS
<1> USE DEF OneJobPerWorker
<1>1. ASSUME running' \subseteq running, exited' = exited
      PROVE  OneJobPerWorker'
  BY <1>1
<1>2. ASSUME NEW w \in Workers, TakeJob(w)
      PROVE  OneJobPerWorker'
  BY <1>2 DEF TakeJob, Idle
<1>3. ASSUME NEW w \in Workers, WorkerExit(w)
      PROVE  OneJobPerWorker'
  BY <1>3 DEF WorkerExit, Idle
<1>4. CASE Restart
  BY <1>4 DEF Restart
<1>5. CASE UNCHANGED schedVars
  BY <1>5, <1>1 DEF schedVars
<1>6. CASE ShutdownNext
  BY <1>6, <1>1 DEF ShutdownNext, CancelCtx, CloseDone, ShutdownReturn, ShutdownTimeout,
                    ShutdownStep
<1>7. ASSUME NEW c \in Callers, NEW id \in Workflows, EnqueueCheck(c, id)
      PROVE  OneJobPerWorker'
  BY <1>7, <1>1 DEF EnqueueCheck
<1>8. ASSUME NEW e \in entering, EnqueueSend(e) \/ EnqueueFull(e)
      PROVE  OneJobPerWorker'
  BY <1>8, <1>1 DEF EnqueueSend, EnqueueFull
<1>9. ASSUME NEW r \in running, JobDone(r) \/ JobFailed(r)
      PROVE  OneJobPerWorker'
  BY <1>9, <1>1 DEF JobDone, JobFailed
<1>10. ASSUME NEW j \in retrying, RetryStep(j)
       PROVE  OneJobPerWorker'
  BY <1>10, <1>1 DEF RetryStep, RetrySend, RetryGiveUp
<1> QED BY <1>2, <1>3, <1>4, <1>5, <1>6, <1>7, <1>8, <1>9, <1>10 DEF SchedNext

LEMMA WorkersInit == SchedInit => OneJobPerWorker
BY DEF SchedInit, OneJobPerWorker

\* Two Engine.Run calls never share a worker goroutine, and none outlives its
\* worker.
THEOREM WorkersRunOneJob == SchedSpec => []OneJobPerWorker
BY WorkersInit, WorkersStep, TypeCorrect, PTL DEF SchedSpec

\* Shutdown waits for every worker, and a worker that has returned runs nothing.
LEMMA CleanShutdownStep ==
  TypeOK /\ OneJobPerWorker /\ CleanShutdown /\ [SchedNext]_schedVars => CleanShutdown'
<1> SUFFICES ASSUME TypeOK, OneJobPerWorker, CleanShutdown, [SchedNext]_schedVars,
                    shut' = "drained"
             PROVE  running' = {} /\ exited' = Workers
  BY DEF CleanShutdown
<1>1. CASE shut = "drained"
  <2>1. running = {} /\ exited = Workers
    BY <1>1 DEF CleanShutdown
  <2>2. ASSUME NEW w \in Workers PROVE ~Idle(w)
    BY <2>1 DEF Idle
  <2>3. CASE ShutdownNext
    BY <1>1, <2>3 DEF ShutdownNext, CancelCtx, CloseDone, ShutdownReturn, ShutdownTimeout,
                      ShutdownStep
  <2>4. CASE UNCHANGED schedVars
    BY <2>1, <2>4 DEF schedVars
  <2>5. CASE SchedNext /\ ~ShutdownNext
    BY <2>1, <2>2, <2>5 DEF SchedNext, EnqueueCheck, EnqueueSend, EnqueueFull, TakeJob,
                 WorkerExit, RetryStep, RetrySend, RetryGiveUp, Restart
  <2> QED BY <2>3, <2>4, <2>5
<1>2. CASE shut # "drained"
  <2>1. ShutdownReturn
    BY <1>2 DEF SchedNext, EnqueueCheck, EnqueueSend, EnqueueFull, TakeJob, WorkerExit,
                JobDone, JobFailed, RetryStep, RetrySend, RetryGiveUp, Restart, ShutdownNext,
                CancelCtx, CloseDone, ShutdownTimeout, ShutdownStep, schedVars
  <2>2. exited = Workers /\ running' = running /\ exited' = exited
    BY <2>1 DEF ShutdownReturn, ShutdownStep, AllExited
  <2>3. ASSUME NEW r \in running PROVE FALSE
    BY <2>2 DEF OneJobPerWorker, TypeOK, RunJob
  <2> QED BY <2>2, <2>3
<1> QED BY <1>1, <1>2

LEMMA CleanShutdownInit == SchedInit => CleanShutdown
BY DEF SchedInit, CleanShutdown

\* A Shutdown call that returns nil leaves no Engine.Run call behind.
THEOREM ShutdownIsClean == SchedSpec => []CleanShutdown
BY CleanShutdownInit, CleanShutdownStep, WorkersRunOneJob, TypeCorrect, PTL DEF SchedSpec

-----------------------------------------------------------------------------
(* The tickets.  The channel only grows at its end and shrinks at its head. *)

LEMMA QueueType ==
  ASSUME TypeOK
  PROVE  /\ Len(queue) \in Nat
         /\ \A i \in 1..Len(queue) : queue[i] \in Job
BY LenProperties, ElementOfSeq DEF TypeOK

LEMMA QueueSend ==
  ASSUME NEW q \in Seq(Job), NEW j \in Job
  PROVE  /\ Len(Append(q, j)) = Len(q) + 1
         /\ \A i \in 1..Len(Append(q, j)) :
              Append(q, j)[i] = IF i <= Len(q) THEN q[i] ELSE j
BY AppendProperties, LenProperties

LEMMA QueueReceive ==
  ASSUME NEW q \in Seq(Job), q # <<>>
  PROVE  /\ Len(q) \in Nat \ {0}
         /\ Head(q) = q[1]
         /\ Head(q) \in Job
         /\ Len(Tail(q)) = Len(q) - 1
         /\ \A i \in 1..Len(Tail(q)) : Tail(q)[i] = q[i + 1]
BY HeadTailProperties, EmptySeq

TicketInv == OnlyIssued /\ TicketInOnePlace

\* What a step does with the jobs: none moves, a new one enters the channel, one
\* moves from the channel to a worker, from a worker to a retry goroutine, from
\* there to the channel, and every place may lose a job.
LEMMA TicketStep ==
  TypeOK /\ TicketInv /\ [SchedNext]_schedVars => TicketInv'
<1> SUFFICES ASSUME TypeOK, TicketInv, [SchedNext]_schedVars PROVE TicketInv' OBVIOUS
<1> USE DEF TicketInv, OnlyIssued, TicketInOnePlace, QueueTicketsDistinct,
            RetryTicketsDistinct, RunTicketsDistinct, PlacesDisjoint
<1>1. ASSUME queue' = queue, running' \subseteq running, retrying' \subseteq retrying,
             issued' = issued, runs' = runs
      PROVE  TicketInv'
  BY <1>1
<1>2. ASSUME NEW c \in Callers, NEW id \in Workflows, EnqueueCheck(c, id)
      PROVE  TicketInv'
  BY <1>2, <1>1 DEF EnqueueCheck
<1>3. ASSUME NEW e \in entering, EnqueueSend(e)
      PROVE  TicketInv'
  <2> DEFINE j == [workflowID |-> e.id, attempt |-> 0, ticket |-> issued + 1]
  <2>1. issued \in Nat /\ issued + 1 \in Tickets
    BY <1>3, SchedulerAssumption DEF EnqueueSend, TypeOK, Tickets
  <2>2. j \in Job /\ j.ticket = issued + 1
    BY <2>1, FirstAttempt DEF Job, TypeOK, Call
  <2>3. queue' = Append(queue, j) /\ issued' = issued + 1
    BY <1>3 DEF EnqueueSend
  <2>4. UNCHANGED <<running, retrying, runs>>
    BY <1>3 DEF EnqueueSend
  <2> HIDE DEF j
  <2>5. /\ Len(queue') = Len(queue) + 1
        /\ \A i \in 1..Len(queue') : queue'[i] = IF i <= Len(queue) THEN queue[i] ELSE j
    BY <2>2, <2>3, QueueSend DEF TypeOK
  <2>6. \A i \in 1..Len(queue') : queue'[i].ticket <= issued' /\ queue'[i] \in Job
    BY <2>1, <2>2, <2>3, <2>5, QueueType, JobFields DEF Tickets
  <2>7. /\ \A k \in retrying' : k.ticket <= issued'
        /\ \A r \in running' : r.job.ticket <= issued'
        /\ \A t \in Tickets : t > issued' => runs'[t] = 0
    BY <2>1, <2>3, <2>4, JobFields DEF TypeOK, RunJob, Tickets
  <2>8. QueueTicketsDistinct'
    BY <2>1, <2>2, <2>5, QueueType, JobFields DEF Tickets
  <2>9. PlacesDisjoint'
    <3>1. \A k \in retrying : k.ticket # j.ticket
      BY <2>1, <2>2, JobFields DEF TypeOK, Tickets
    <3>2. \A r \in running : r.job.ticket # j.ticket
      BY <2>1, <2>2, JobFields DEF TypeOK, RunJob, Tickets
    <3>3. \A i \in 1..Len(queue') : queue'[i] = j \/ (i \in 1..Len(queue) /\ queue'[i] = queue[i])
      BY <2>5, QueueType
    <3> QED BY <2>4, <3>1, <3>2, <3>3
  <2> QED BY <2>4, <2>6, <2>7, <2>8, <2>9
<1>4. ASSUME NEW e \in entering, EnqueueFull(e)
      PROVE  TicketInv'
  BY <1>4, <1>1 DEF EnqueueFull
<1>5. ASSUME NEW w \in Workers, TakeJob(w)
      PROVE  TicketInv'
  <2>1. queue # <<>> /\ queue \in Seq(Job)
    BY <1>5 DEF TakeJob, TypeOK
  <2>2. /\ Len(queue) \in Nat \ {0}
        /\ Head(queue) = queue[1]
        /\ Head(queue) \in Job
        /\ Len(queue') = Len(queue) - 1
        /\ \A i \in 1..Len(queue') : queue'[i] = queue[i + 1]
    BY <1>5, <2>1, QueueReceive DEF TakeJob
  <2>3. /\ running' = running \cup {[worker |-> w, job |-> queue[1]]}
        /\ retrying' = retrying /\ issued' = issued
    BY <1>5, <2>2 DEF TakeJob
  <2>4. \A i \in 1..Len(queue') : i + 1 \in 1..Len(queue) /\ i + 1 # 1
    BY <2>2
  <2>5. 1 \in 1..Len(queue)
    BY <2>2
  <2>6. \A t \in Tickets : t > issued' => runs'[t] = 0
    <3>1. queue[1].ticket \in Tickets /\ queue[1].ticket <= issued
      BY <2>2, <2>5, JobFields
    <3>2. ASSUME NEW t \in Tickets, t > issued PROVE t # queue[1].ticket
      BY <3>1, <3>2 DEF TypeOK, Tickets
    <3> QED BY <1>5, <2>2, <2>3, <3>2 DEF TakeJob, TypeOK
  <2>7. OnlyIssued'
    BY <2>2, <2>3, <2>4, <2>5, <2>6
  <2>8. QueueTicketsDistinct'
    BY <2>2, <2>4
  <2>9. RunTicketsDistinct'
    BY <2>3, <2>5
  <2>10. PlacesDisjoint'
    BY <2>2, <2>3, <2>4, <2>5
  <2> QED BY <2>3, <2>7, <2>8, <2>9, <2>10
<1>6. ASSUME NEW w \in Workers, WorkerExit(w)
      PROVE  TicketInv'
  BY <1>6, <1>1 DEF WorkerExit
<1>7. ASSUME NEW r \in running, JobDone(r)
      PROVE  TicketInv'
  BY <1>7, <1>1 DEF JobDone
<1>8. ASSUME NEW r \in running, JobFailed(r)
      PROVE  TicketInv'
  <2>1. CASE ~RetryLeft(r.job)
    BY <1>8, <2>1, <1>1 DEF JobFailed
  <2>2. CASE RetryLeft(r.job)
    <3> DEFINE n == NextAttempt(r.job)
    <3>1. r.job \in Job /\ n.ticket = r.job.ticket
      BY <2>2, NextAttemptIsJob DEF TypeOK, RunJob
    <3>2. /\ running' = running \ {r} /\ retrying' = retrying \cup {n}
          /\ queue' = queue /\ issued' = issued /\ runs' = runs
      BY <1>8, <2>2 DEF JobFailed
    <3> HIDE DEF n
    <3> QED BY <3>1, <3>2
  <2> QED BY <2>1, <2>2
<1>9. ASSUME NEW j \in retrying, RetrySend(j)
      PROVE  TicketInv'
  <2>1. j \in Job
    BY DEF TypeOK
  <2>2. /\ queue' = Append(queue, j) /\ retrying' = retrying \ {j}
        /\ running' = running /\ issued' = issued /\ runs' = runs
    BY <1>9 DEF RetrySend
  <2>3. /\ Len(queue') = Len(queue) + 1
        /\ \A i \in 1..Len(queue') : queue'[i] = IF i <= Len(queue) THEN queue[i] ELSE j
    BY <2>1, <2>2, QueueSend DEF TypeOK
  <2>4. OnlyIssued'
    BY <2>2, <2>3, QueueType
  <2>5. QueueTicketsDistinct'
    BY <2>3, QueueType
  <2>6. PlacesDisjoint'
    BY <2>2, <2>3, QueueType
  <2> QED BY <2>2, <2>4, <2>5, <2>6
<1>10. ASSUME NEW j \in retrying, RetryGiveUp(j)
      PROVE  TicketInv'
  BY <1>10, <1>1 DEF RetryGiveUp
<1>11. CASE ShutdownNext
  BY <1>11, <1>1 DEF ShutdownNext, CancelCtx, CloseDone, ShutdownReturn, ShutdownTimeout,
                     ShutdownStep
<1>12. CASE Restart
  <2>1. Len(queue') = 0
    BY <1>12, EmptySeq DEF Restart
  <2> QED BY <1>12, <2>1 DEF Restart
<1>13. CASE UNCHANGED schedVars
  BY <1>13, <1>1 DEF schedVars
<1> QED BY <1>2, <1>3, <1>4, <1>5, <1>6, <1>7, <1>8, <1>9, <1>10, <1>11, <1>12, <1>13
        DEF SchedNext, RetryStep

LEMMA TicketInit == SchedInit => TicketInv
<1> SUFFICES ASSUME SchedInit PROVE TicketInv OBVIOUS
<1>1. Len(queue) = 0
  BY EmptySeq DEF SchedInit
<1> QED BY <1>1 DEF SchedInit, TicketInv, OnlyIssued, TicketInOnePlace, Tickets,
        QueueTicketsDistinct, RetryTicketsDistinct, RunTicketsDistinct, PlacesDisjoint

\* An accepted Enqueue call is in the hands of one goroutine or in one slot of
\* the channel, whatever retries and shutdowns happen to it.
THEOREM TicketsAreUnique == SchedSpec => []TicketInOnePlace
BY TicketInit, TicketStep, TypeCorrect, PTL DEF SchedSpec, TicketInv

-----------------------------------------------------------------------------
(* The retry budget.                                                        *)

\* The attempt number of a job counts the calls of Engine.Run made for its
\* ticket: distinct tickets make sure that nobody else's call is counted.
LEMMA BudgetStep ==
  TypeOK /\ TicketInv /\ RetryBudget /\ [SchedNext]_schedVars => RetryBudget'
<1> SUFFICES ASSUME TypeOK, TicketInv, RetryBudget, [SchedNext]_schedVars, ~Unlimited
             PROVE  RetryBudget'
  BY DEF RetryBudget, AttemptsCountRuns, Unlimited
<1> USE DEF RetryBudget, AttemptsCountRuns
<1>0. ~Unlimited'
  BY DEF Unlimited
<1>1. ASSUME queue' = queue, running' \subseteq running, retrying' \subseteq retrying,
             runs' = runs
      PROVE  RetryBudget'
  BY <1>0, <1>1
<1>2. ASSUME NEW c \in Callers, NEW id \in Workflows, EnqueueCheck(c, id)
      PROVE  RetryBudget'
  BY <1>2, <1>1 DEF EnqueueCheck
<1>3. ASSUME NEW e \in entering, EnqueueSend(e)
      PROVE  RetryBudget'
  <2> DEFINE j == [workflowID |-> e.id, attempt |-> 0, ticket |-> issued + 1]
  <2>1. issued \in Nat /\ issued + 1 \in Tickets
    BY <1>3, SchedulerAssumption DEF EnqueueSend, TypeOK, Tickets
  <2>2. j \in Job /\ j.ticket = issued + 1 /\ j.attempt = 0
    BY <2>1, FirstAttempt DEF Job, TypeOK, Call
  <2>3. /\ queue' = Append(queue, j)
        /\ UNCHANGED <<running, retrying, runs>>
    BY <1>3 DEF EnqueueSend
  <2>4. runs[issued + 1] = 0
    BY <2>1 DEF TicketInv, OnlyIssued
  <2> HIDE DEF j
  <2>5. \A i \in 1..Len(queue') : queue'[i] = j \/ (i \in 1..Len(queue) /\ queue'[i] = queue[i])
    BY <2>2, <2>3, QueueSend, QueueType DEF TypeOK
  <2> QED BY <1>0, <2>2, <2>3, <2>4, <2>5
<1>4. ASSUME NEW e \in entering, EnqueueFull(e)
      PROVE  RetryBudget'
  BY <1>4, <1>1 DEF EnqueueFull
<1>5. ASSUME NEW w \in Workers, TakeJob(w)
      PROVE  RetryBudget'
  <2> DEFINE j == queue[1]
  <2>1. /\ Len(queue) \in Nat \ {0}
        /\ Head(queue) = j
        /\ j \in Job
        /\ \A i \in 1..Len(queue') : i + 1 \in 2..Len(queue) /\ queue'[i] = queue[i + 1]
    BY <1>5, QueueReceive DEF TakeJob, TypeOK
  <2>2. 1 \in 1..Len(queue) /\ \A i \in 2..Len(queue) : i \in 1..Len(queue) /\ i # 1
    BY <2>1
  <2>3. j.ticket \in Tickets /\ j.attempt \in 0..MaxRetries
    BY <2>1, JobFields DEF Attempts
  <2>4. runs' = [runs EXCEPT ![j.ticket] = @ + 1] /\ runs[j.ticket] = j.attempt
    BY <1>5, <2>1, <2>2 DEF TakeJob
  <2>5. /\ runs'[j.ticket] = j.attempt + 1
        /\ \A t \in Tickets : t # j.ticket => runs'[t] = runs[t]
    BY <2>3, <2>4 DEF TypeOK
  <2>6. running' = running \cup {[worker |-> w, job |-> j]} /\ retrying' = retrying
    BY <1>5, <2>1 DEF TakeJob
  <2> HIDE DEF j
  <2>7. /\ \A i \in 2..Len(queue) : queue[i].ticket # j.ticket
        /\ \A k \in retrying : k.ticket # j.ticket
        /\ \A r \in running : r.job.ticket # j.ticket
    BY <2>2 DEF TicketInv, TicketInOnePlace, QueueTicketsDistinct, PlacesDisjoint, j
  <2>8. \A i \in 1..Len(queue') : runs'[queue'[i].ticket] = queue'[i].attempt
    BY <2>1, <2>2, <2>5, <2>7, QueueType, JobFields
  <2>9. \A k \in retrying' : runs'[k.ticket] = k.attempt
    BY <2>5, <2>6, <2>7, JobFields DEF TypeOK
  <2>10. \A r \in running' : runs'[r.job.ticket] = r.job.attempt + 1
    <3>1. ASSUME NEW r \in running PROVE runs'[r.job.ticket] = r.job.attempt + 1
      BY <2>5, <2>7, JobFields DEF TypeOK, RunJob
    <3> QED BY <2>5, <2>6, <3>1
  <2>11. \A t \in Tickets : runs'[t] <= MaxRetries + 1
    BY <2>3, <2>5, SchedulerAssumption
  <2> QED BY <2>8, <2>9, <2>10, <2>11
<1>6. ASSUME NEW w \in Workers, WorkerExit(w)
      PROVE  RetryBudget'
  BY <1>6, <1>1 DEF WorkerExit
<1>7. ASSUME NEW r \in running, JobDone(r)
      PROVE  RetryBudget'
  BY <1>7, <1>1 DEF JobDone
<1>8. ASSUME NEW r \in running, JobFailed(r)
      PROVE  RetryBudget'
  <2>1. CASE ~RetryLeft(r.job)
    BY <1>8, <2>1, <1>1 DEF JobFailed
  <2>2. CASE RetryLeft(r.job)
    <3> DEFINE n == NextAttempt(r.job)
    <3>1. n.ticket = r.job.ticket /\ n.attempt = r.job.attempt + 1
      BY <2>2, NextAttemptIsJob DEF TypeOK, RunJob
    <3>2. /\ running' = running \ {r} /\ retrying' = retrying \cup {n}
          /\ queue' = queue /\ runs' = runs
      BY <1>8, <2>2 DEF JobFailed
    <3> HIDE DEF n
    <3> QED BY <1>0, <3>1, <3>2
  <2> QED BY <2>1, <2>2
<1>9. ASSUME NEW j \in retrying, RetrySend(j)
      PROVE  RetryBudget'
  <2>1. /\ queue' = Append(queue, j) /\ retrying' = retrying \ {j}
        /\ running' = running /\ runs' = runs
    BY <1>9 DEF RetrySend
  <2>2. \A i \in 1..Len(queue') : queue'[i] = j \/ (i \in 1..Len(queue) /\ queue'[i] = queue[i])
    BY <2>1, QueueSend, QueueType DEF TypeOK
  <2> QED BY <1>0, <2>1, <2>2
<1>10. ASSUME NEW j \in retrying, RetryGiveUp(j)
      PROVE  RetryBudget'
  BY <1>10, <1>1 DEF RetryGiveUp
<1>11. CASE ShutdownNext
  BY <1>11, <1>1 DEF ShutdownNext, CancelCtx, CloseDone, ShutdownReturn, ShutdownTimeout,
                     ShutdownStep
<1>12. CASE Restart
  <2>1. Len(queue') = 0
    BY <1>12, EmptySeq DEF Restart
  <2> QED BY <1>12, <1>0, <2>1 DEF Restart
<1>13. CASE UNCHANGED schedVars
  BY <1>13, <1>1 DEF schedVars
<1> QED BY <1>2, <1>3, <1>4, <1>5, <1>6, <1>7, <1>8, <1>9, <1>10, <1>11, <1>12, <1>13
        DEF SchedNext, RetryStep

LEMMA BudgetInit == SchedInit => RetryBudget
<1> SUFFICES ASSUME SchedInit, ~Unlimited PROVE RetryBudget
  BY DEF RetryBudget, AttemptsCountRuns
<1>1. Len(queue) = 0
  BY EmptySeq DEF SchedInit
<1>2. \A t \in Tickets : runs[t] <= MaxRetries + 1
  BY SchedulerAssumption DEF SchedInit, Unlimited
<1> QED BY <1>1, <1>2 DEF SchedInit, RetryBudget, AttemptsCountRuns

\* With MaxRetries not negative, an accepted Enqueue call never costs more than
\* MaxRetries + 1 calls of Engine.Run.
THEOREM RetriesAreBounded == SchedSpec => []RetryBudget
BY BudgetInit, BudgetStep, TicketInit, TicketStep, TypeCorrect, PTL DEF SchedSpec

-----------------------------------------------------------------------------
(* Scheduler implements JobPool.                                             *)
Inv == TypeOK /\ OneJobPerWorker /\ TicketInv /\ RetryBudget

place == [t \in Tickets |-> PlaceOf(t)]

\* A step that leaves every ticket where it is and starts none.
LEMMA Stutter ==
  ASSUME \A t \in Tickets : PlaceOf(t)' = PlaceOf(t), runs' = runs
  PROVE  UNCHANGED Pool!poolVars
BY DEF Pool!poolVars, Tickets

\* A step that moves one ticket.
LEMMA Moves ==
  ASSUME NEW t \in Tickets, NEW to,
         PlaceOf(t)' = to,
         \A u \in Tickets \ {t} : PlaceOf(u)' = PlaceOf(u)
  PROVE  place' = [place EXCEPT ![t] = to]
BY DEF place, Tickets

\* A ticket is in one place, so finding a job with it tells the place.
LEMMA WhereTicketsAre ==
  ASSUME Inv
  PROVE  /\ \A r \in running : r.job.ticket \in Tickets /\ PlaceOf(r.job.ticket) = "running"
         /\ \A i \in 1..Len(queue) :
              queue[i].ticket \in Tickets /\ PlaceOf(queue[i].ticket) = "waiting"
         /\ \A j \in retrying : j.ticket \in Tickets /\ PlaceOf(j.ticket) = "waiting"
<1> USE DEF Inv
<1>1. issued \in Nat /\ \A t \in Tickets : t \in Nat
  BY DEF TypeOK, Tickets
<1>2. ASSUME NEW r \in running
      PROVE  r.job.ticket \in Tickets /\ PlaceOf(r.job.ticket) = "running"
  <2>1. r.job.ticket \in Tickets
    BY JobFields DEF TypeOK, RunJob
  <2>2. ~(r.job.ticket > issued)
    BY <1>1, <2>1 DEF TicketInv, OnlyIssued
  <2> QED BY <2>1, <2>2 DEF PlaceOf
<1>3. ASSUME NEW i \in 1..Len(queue)
      PROVE  queue[i].ticket \in Tickets /\ PlaceOf(queue[i].ticket) = "waiting"
  <2>1. queue[i].ticket \in Tickets
    BY QueueType, JobFields
  <2>2. ~(queue[i].ticket > issued)
    BY <1>1, <2>1 DEF TicketInv, OnlyIssued
  <2>3. \A r \in running : r.job.ticket # queue[i].ticket
    BY DEF TicketInv, TicketInOnePlace, PlacesDisjoint
  <2> QED BY <2>1, <2>2, <2>3 DEF PlaceOf
<1>4. ASSUME NEW j \in retrying
      PROVE  j.ticket \in Tickets /\ PlaceOf(j.ticket) = "waiting"
  <2>1. j.ticket \in Tickets
    BY JobFields DEF TypeOK
  <2>2. ~(j.ticket > issued)
    BY <1>1, <2>1 DEF TicketInv, OnlyIssued
  <2>3. \A r \in running : r.job.ticket # j.ticket
    BY DEF TicketInv, TicketInOnePlace, PlacesDisjoint
  <2> QED BY <2>1, <2>2, <2>3 DEF PlaceOf
<1> QED BY <1>2, <1>3, <1>4

\* An idle worker leaves room in the pool.
LEMMA IdleWorkerIsRoom ==
  ASSUME Inv, NEW w \in Workers, Idle(w)
  PROVE  Cardinality(Pool!Running) < Cardinality(Workers)
<1> DEFINE Tr == Pool!Running
           On(t) == CHOOSE r \in running : r.job.ticket = t
           f == [t \in Tr |-> On(t).worker]
<1>1. ASSUME NEW t \in Tr
      PROVE  On(t) \in running /\ On(t).job.ticket = t
  <2>1. t \in Tickets /\ PlaceOf(t) = "running"
    BY DEF Pool!Running, Tickets
  <2>2. \E r \in running : r.job.ticket = t
    BY <2>1 DEF PlaceOf
  <2> QED BY <2>2
<1>2. f \in [Tr -> Workers \ {w}]
  BY <1>1 DEF Inv, TypeOK, RunJob, Idle
<1>3. \A t, u \in Tr : f[t] = f[u] => t = u
  <2> SUFFICES ASSUME NEW t \in Tr, NEW u \in Tr, On(t).worker = On(u).worker PROVE t = u
    OBVIOUS
  <2>1. On(t) = On(u)
    BY <1>1 DEF Inv, OneJobPerWorker
  <2> QED BY <1>1, <2>1
<1> HIDE DEF f
<1>4. f \in Injection(Tr, Workers \ {w})
  BY <1>2, <1>3 DEF Injection, IsInjective
<1>5. IsFiniteSet(Workers) /\ IsFiniteSet(Workers \ {w})
      /\ Cardinality(Workers \ {w}) = Cardinality(Workers) - 1
  BY SchedulerAssumption, FS_RemoveElement
<1>6. Cardinality(Tr) <= Cardinality(Workers \ {w})
  BY <1>4, <1>5, FS_Injection
<1>7. Cardinality(Workers) \in Nat /\ Cardinality(Tr) \in Nat
  BY <1>4, <1>5, FS_Injection, FS_CardinalityType
<1> QED BY <1>5, <1>6, <1>7

-----------------------------------------------------------------------------
\* A step that leaves the jobs alone is a stutter of the pool.
LEMMA JobsUnmoved ==
  ASSUME running' = running, retrying' = retrying, queue' = queue,
         issued' = issued, runs' = runs
  PROVE  UNCHANGED Pool!poolVars
<1>1. \A t \in Tickets : PlaceOf(t)' = PlaceOf(t)
  BY DEF PlaceOf
<1> QED BY <1>1, Stutter

\* A successful Enqueue accepts the next ticket.
LEMMA EnqueueAccepts ==
  ASSUME Inv, NEW e \in entering, EnqueueSend(e), NEW t \in Tickets, t = issued + 1
  PROVE  Pool!Accept(t)
<1>1. issued \in Nat
  BY DEF Inv, TypeOK
<1>2. PlaceOf(t) = "unused"
  BY <1>1 DEF PlaceOf
<1> DEFINE j == [workflowID |-> e.id, attempt |-> 0, ticket |-> t]
<1>3. j \in Job /\ j.ticket = t /\ queue' = Append(queue, j)
  BY FirstAttempt DEF Job, Inv, TypeOK, Call, EnqueueSend
<1> HIDE DEF j
<1>4. /\ Len(queue) \in Nat /\ Len(queue') = Len(queue) + 1
      /\ \A i \in 1..Len(queue') : queue'[i] = IF i <= Len(queue) THEN queue[i] ELSE j
  BY <1>3, QueueSend, QueueType DEF Inv, TypeOK
<1>5. issued' = t /\ UNCHANGED <<running, retrying, runs>>
  BY DEF EnqueueSend
<1>6. \A r \in running : r.job.ticket # t
  BY <1>1, WhereTicketsAre DEF PlaceOf, Inv, TicketInv, OnlyIssued, Tickets
<1>7. PlaceOf(t)' = "waiting"
  <2>1. Len(queue') \in 1..Len(queue') /\ queue'[Len(queue')].ticket = t
    BY <1>3, <1>4
  <2>2. ~(t > issued')
    BY <1>1, <1>5
  <2> QED BY <1>5, <1>6, <2>1, <2>2 DEF PlaceOf
<1>8. ASSUME NEW u \in Tickets \ {t} PROVE PlaceOf(u)' = PlaceOf(u)
  <2>1. (u > issued') <=> (u > issued)
    BY <1>1, <1>5 DEF Tickets
  <2>2. (\E i \in 1..Len(queue') : queue'[i].ticket = u)
          <=> (\E i \in 1..Len(queue) : queue[i].ticket = u)
    BY <1>3, <1>4
  <2> QED BY <1>5, <2>1, <2>2 DEF PlaceOf
<1>9. place' = [place EXCEPT ![t] = "waiting"] /\ place[t] = "unused"
  BY <1>2, <1>7, <1>8, Moves DEF place
<1> QED BY <1>5, <1>9 DEF Pool!Accept, place

\* A worker starts the ticket at the head of the channel.
LEMMA TakeJobStarts ==
  ASSUME Inv, NEW w \in Workers, TakeJob(w), NEW t \in Tickets, t = Head(queue).ticket
  PROVE  Pool!Start(t)
<1>1. /\ Len(queue) \in Nat \ {0}
      /\ Head(queue) = queue[1]
      /\ Len(queue') = Len(queue) - 1
      /\ \A i \in 1..Len(queue') : queue'[i] = queue[i + 1]
  BY QueueReceive DEF TakeJob, Inv, TypeOK
<1>2. 1 \in 1..Len(queue) /\ queue[1].ticket = t
  BY <1>1
<1>3. PlaceOf(t) = "waiting" /\ ~(t > issued)
  BY <1>2, WhereTicketsAre DEF PlaceOf
<1>4. running' = running \cup {[worker |-> w, job |-> queue[1]]} /\ issued' = issued
      /\ retrying' = retrying
  BY <1>1 DEF TakeJob
<1>5. PlaceOf(t)' = "running"
  <2> DEFINE r == [worker |-> w, job |-> Head(queue)]
  <2>1. r \in running' /\ r.job.ticket = t
    BY <1>1, <1>4
  <2> QED BY <1>3, <1>4, <2>1 DEF PlaceOf
<1>6. ASSUME NEW u \in Tickets \ {t} PROVE PlaceOf(u)' = PlaceOf(u)
  <2>1. (\E i \in 1..Len(queue') : queue'[i].ticket = u)
          <=> (\E i \in 1..Len(queue) : queue[i].ticket = u)
    <3>1. ASSUME NEW i \in 1..Len(queue'), queue'[i].ticket = u
          PROVE  \E k \in 1..Len(queue) : queue[k].ticket = u
      BY <1>1, <3>1
    <3>2. ASSUME NEW i \in 1..Len(queue), queue[i].ticket = u
          PROVE  \E k \in 1..Len(queue') : queue'[k].ticket = u
      <4>1. i - 1 \in 1..Len(queue') /\ queue'[i - 1] = queue[i]
        BY <1>1, <1>2, <3>2
      <4> QED BY <3>2, <4>1
    <3> QED BY <3>1, <3>2
  <2>2. (\E r \in running' : r.job.ticket = u) <=> (\E r \in running : r.job.ticket = u)
    BY <1>2, <1>4
  <2> QED BY <1>4, <2>1, <2>2 DEF PlaceOf
<1>7. place' = [place EXCEPT ![t] = "running"] /\ place[t] = "waiting"
  BY <1>3, <1>5, <1>6, Moves DEF place
<1>8. Cardinality(Pool!Running) < Cardinality(Workers)
  BY IdleWorkerIsRoom DEF TakeJob
<1>9. Unlimited \/ runs[t] <= MaxRetries
  <2>1. Unlimited \/ (runs[t] = queue[1].attempt /\ queue[1].attempt \in Attempts)
    BY <1>2, QueueType, JobFields DEF Inv, RetryBudget, AttemptsCountRuns
  <2> QED BY <2>1, SchedulerAssumption DEF Attempts
<1>10. runs' = [runs EXCEPT ![t] = IF Unlimited THEN @ ELSE @ + 1]
  BY DEF TakeJob
<1>11. Pool!Unlimited = Unlimited
  BY DEF Pool!Unlimited, Unlimited
<1>12. Pool!Cardinality(Pool!Running) = Cardinality(Pool!Running)
  BY DEF Pool!Cardinality, Cardinality
<1> QED BY <1>7, <1>8, <1>9, <1>10, <1>11, <1>12 DEF Pool!Start, place

\* A worker that is done with a job either settles its ticket ...
LEMMA RunEndFinishes ==
  ASSUME Inv, NEW r \in running, JobDone(r) \/ (JobFailed(r) /\ ~RetryLeft(r.job))
  PROVE  Pool!Finish(r.job.ticket)
<1> DEFINE t == r.job.ticket
<1>1. /\ running' = running \ {r}
      /\ UNCHANGED <<queue, retrying, issued, runs>>
  BY DEF JobDone, JobFailed
<1>2. t \in Tickets /\ PlaceOf(t) = "running"
  BY WhereTicketsAre
<1>3. /\ \A s \in running' : s.job.ticket # t
      /\ \A i \in 1..Len(queue) : queue[i].ticket # t
      /\ \A j \in retrying : j.ticket # t
  BY <1>1 DEF Inv, TicketInv, TicketInOnePlace, RunTicketsDistinct, PlacesDisjoint
<1>4. PlaceOf(t)' = "done"
  BY <1>1, <1>2, <1>3 DEF PlaceOf
<1>5. ASSUME NEW u \in Tickets \ {t} PROVE PlaceOf(u)' = PlaceOf(u)
  BY <1>1 DEF PlaceOf
<1>6. place' = [place EXCEPT ![t] = "done"] /\ place[t] = "running"
  BY <1>2, <1>4, <1>5, Moves DEF place
<1> QED BY <1>1, <1>6 DEF Pool!Finish, place

\* ... or hands it to a retry goroutine, where it waits.
LEMMA RunFailureWaits ==
  ASSUME Inv, NEW r \in running, JobFailed(r), RetryLeft(r.job)
  PROVE  Pool!WaitForRetry(r.job.ticket)
<1> DEFINE t == r.job.ticket
           n == NextAttempt(r.job)
<1>1. r.job \in Job /\ n.ticket = t
  BY NextAttemptIsJob DEF Inv, TypeOK, RunJob
<1>2. /\ running' = running \ {r} /\ retrying' = retrying \cup {n}
      /\ UNCHANGED <<queue, issued, runs>>
  BY DEF JobFailed
<1> HIDE DEF n
<1>3. t \in Tickets /\ PlaceOf(t) = "running" /\ ~(t > issued)
  BY WhereTicketsAre DEF PlaceOf
<1>4. \A s \in running' : s.job.ticket # t
  BY <1>2 DEF Inv, TicketInv, TicketInOnePlace, RunTicketsDistinct
<1>5. PlaceOf(t)' = "waiting"
  BY <1>1, <1>2, <1>3, <1>4 DEF PlaceOf
<1>6. ASSUME NEW u \in Tickets \ {t} PROVE PlaceOf(u)' = PlaceOf(u)
  BY <1>1, <1>2 DEF PlaceOf
<1>7. place' = [place EXCEPT ![t] = "waiting"] /\ place[t] = "running"
  BY <1>3, <1>5, <1>6, Moves DEF place
<1>8. Unlimited \/ runs[t] <= MaxRetries
  <2>1. Unlimited \/ (runs[t] = r.job.attempt + 1 /\ r.job.attempt \in 0..MaxRetries)
    BY <1>1, JobFields DEF Inv, RetryBudget, AttemptsCountRuns, Attempts
  <2> QED BY <2>1, SchedulerAssumption DEF RetryLeft
<1> QED BY <1>2, <1>7, <1>8 DEF Pool!WaitForRetry, Pool!Unlimited, place, Unlimited

\* The ticket waits whether a retry goroutine or the channel has it.
LEMMA RetrySendStutters ==
  ASSUME Inv, NEW j \in retrying, RetrySend(j)
  PROVE  UNCHANGED Pool!poolVars
<1>1. j \in Job /\ queue \in Seq(Job)
  BY DEF Inv, TypeOK
<1>2. /\ queue' = Append(queue, j) /\ retrying' = retrying \ {j}
      /\ UNCHANGED <<running, issued, runs>>
  BY DEF RetrySend
<1>3. /\ Len(queue) \in Nat /\ Len(queue') = Len(queue) + 1
      /\ \A i \in 1..Len(queue') : queue'[i] = IF i <= Len(queue) THEN queue[i] ELSE j
  BY <1>1, <1>2, QueueSend, QueueType DEF Inv
<1>4. ASSUME NEW u \in Tickets PROVE PlaceOf(u)' = PlaceOf(u)
  <2> DEFINE InQueue == \E i \in 1..Len(queue) : queue[i].ticket = u
             InRetry == \E k \in retrying : k.ticket = u
  <2>1. InQueue' <=> (InQueue \/ j.ticket = u)
    <3>1. ASSUME NEW i \in 1..Len(queue'), queue'[i].ticket = u
          PROVE  InQueue \/ j.ticket = u
      BY <1>3, <3>1
    <3>2. ASSUME NEW i \in 1..Len(queue), queue[i].ticket = u
          PROVE  i \in 1..Len(queue') /\ queue'[i].ticket = u
      BY <1>3, <3>2
    <3>3. Len(queue') \in 1..Len(queue') /\ queue'[Len(queue')] = j
      BY <1>3
    <3> QED BY <3>1, <3>2, <3>3
  <2>2. InRetry <=> (InRetry' \/ j.ticket = u)
    BY <1>2
  <2>3. (InQueue \/ InRetry) <=> (InQueue' \/ InRetry')
    BY <2>1, <2>2
  <2> QED BY <1>2, <2>3 DEF PlaceOf
<1> QED BY <1>2, <1>4, Stutter

\* A retry goroutine that gives up settles its ticket.
LEMMA GiveUpFinishes ==
  ASSUME Inv, NEW j \in retrying, RetryGiveUp(j)
  PROVE  Pool!Finish(j.ticket)
<1> DEFINE t == j.ticket
<1>1. /\ retrying' = retrying \ {j}
      /\ UNCHANGED <<queue, running, issued, runs>>
  BY DEF RetryGiveUp
<1>2. t \in Tickets /\ PlaceOf(t) = "waiting"
  BY WhereTicketsAre
<1>3. /\ \A k \in retrying' : k.ticket # t
      /\ \A i \in 1..Len(queue) : queue[i].ticket # t
      /\ \A r \in running : r.job.ticket # t
  BY <1>1 DEF Inv, TicketInv, TicketInOnePlace, RetryTicketsDistinct, PlacesDisjoint
<1>4. PlaceOf(t)' = "done"
  BY <1>1, <1>2, <1>3 DEF PlaceOf
<1>5. ASSUME NEW u \in Tickets \ {t} PROVE PlaceOf(u)' = PlaceOf(u)
  BY <1>1 DEF PlaceOf
<1>6. place' = [place EXCEPT ![t] = "done"] /\ place[t] = "waiting"
  BY <1>2, <1>4, <1>5, Moves DEF place
<1> QED BY <1>1, <1>6 DEF Pool!Finish, place

\* A new process has forgotten every accepted ticket.
LEMMA RestartForgets ==
  ASSUME Restart
  PROVE  Pool!Forget
<1>1. /\ Len(queue') = 0 /\ running' = {} /\ retrying' = {}
      /\ UNCHANGED <<issued, runs>>
  BY EmptySeq DEF Restart
<1>2. ASSUME NEW t \in Tickets
      PROVE  PlaceOf(t)' = IF PlaceOf(t) = "unused" THEN "unused" ELSE "done"
  BY <1>1 DEF PlaceOf
<1>3. place' = [t \in Tickets |-> IF place[t] = "unused" THEN "unused" ELSE "done"]
  BY <1>2 DEF place, Tickets
<1> QED BY <1>1, <1>3 DEF Pool!Forget, place

-----------------------------------------------------------------------------
LEMMA PoolInitHolds == SchedInit => Pool!PoolInit
<1> SUFFICES ASSUME SchedInit PROVE Pool!PoolInit OBVIOUS
<1>1. ASSUME NEW t \in Tickets PROVE PlaceOf(t) = "unused"
  BY DEF SchedInit, PlaceOf, Tickets
<1> QED BY <1>1 DEF SchedInit, Pool!PoolInit

LEMMA PoolStep == Inv /\ [SchedNext]_schedVars => [Pool!PoolNext]_(Pool!poolVars)
<1> SUFFICES ASSUME Inv, [SchedNext]_schedVars
             PROVE  Pool!PoolNext \/ UNCHANGED Pool!poolVars
  OBVIOUS
<1>1. ASSUME NEW c \in Callers, NEW id \in Workflows, EnqueueCheck(c, id)
      PROVE  UNCHANGED Pool!poolVars
  BY <1>1, JobsUnmoved DEF EnqueueCheck
<1>2. ASSUME NEW e \in entering, EnqueueSend(e)
      PROVE  Pool!PoolNext
  <2>1. issued + 1 \in Tickets
    BY <1>2, SchedulerAssumption DEF EnqueueSend, Inv, TypeOK, Tickets
  <2>2. PICK t \in Tickets : t = issued + 1
    BY <2>1
  <2>3. Pool!Accept(t)
    BY <1>2, <2>2, EnqueueAccepts
  <2> QED BY <2>3 DEF Pool!PoolNext
<1>3. ASSUME NEW e \in entering, EnqueueFull(e)
      PROVE  UNCHANGED Pool!poolVars
  BY <1>3, JobsUnmoved DEF EnqueueFull
<1>4. ASSUME NEW w \in Workers, TakeJob(w)
      PROVE  Pool!PoolNext
  <2>1. Head(queue).ticket \in Tickets
    BY <1>4, QueueReceive, JobFields DEF TakeJob, Inv, TypeOK
  <2>2. PICK t \in Tickets : t = Head(queue).ticket
    BY <2>1
  <2>3. Pool!Start(t)
    BY <1>4, <2>2, TakeJobStarts
  <2> QED BY <2>3 DEF Pool!PoolNext
<1>5. ASSUME NEW w \in Workers, WorkerExit(w)
      PROVE  UNCHANGED Pool!poolVars
  BY <1>5, JobsUnmoved DEF WorkerExit
<1>6. ASSUME NEW r \in running, JobDone(r) \/ JobFailed(r)
      PROVE  Pool!PoolNext
  <2>1. r.job.ticket \in Tickets
    BY WhereTicketsAre
  <2>2. Pool!Finish(r.job.ticket) \/ Pool!WaitForRetry(r.job.ticket)
    BY <1>6, RunEndFinishes, RunFailureWaits
  <2> QED BY <2>1, <2>2 DEF Pool!PoolNext
<1>7. ASSUME NEW j \in retrying, RetrySend(j)
      PROVE  UNCHANGED Pool!poolVars
  BY <1>7, RetrySendStutters
<1>8. ASSUME NEW j \in retrying, RetryGiveUp(j)
      PROVE  Pool!PoolNext
  BY <1>8, GiveUpFinishes, WhereTicketsAre DEF Pool!PoolNext
<1>9. CASE ShutdownNext
  BY <1>9, JobsUnmoved DEF ShutdownNext, CancelCtx, CloseDone, ShutdownReturn,
                           ShutdownTimeout, ShutdownStep
<1>10. CASE Restart
  BY <1>10, RestartForgets DEF Pool!PoolNext
<1>11. CASE UNCHANGED schedVars
  BY <1>11, JobsUnmoved DEF schedVars
<1> QED BY <1>1, <1>2, <1>3, <1>4, <1>5, <1>6, <1>7, <1>8, <1>9, <1>10, <1>11
        DEF SchedNext, RetryStep

\* Every behaviour of the scheduler is a behaviour of the job pool: no accepted
\* job is run by two workers, no more than Concurrency jobs run at a time, none
\* is started more than MaxRetries + 1 times, and none comes back once settled.
THEOREM SchedulerImplementsPool == SchedSpec => ImplementsPool
<1>1. SchedSpec => []Inv
  BY TypeInit, TypeStep, WorkersInit, WorkersStep, TicketInit, TicketStep, BudgetInit,
     BudgetStep, PTL DEF SchedSpec, Inv
<1> QED BY <1>1, PoolInitHolds, PoolStep, PTL DEF SchedSpec, ImplementsPool, Pool!PoolSpec
=============================================================================
