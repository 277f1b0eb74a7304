--------------------------- MODULE LifecycleProofs ---------------------------
(***************************************************************************)
(* Proofs about Lifecycle.tla, for every set of workflows, workers and       *)
(* clients and every bound on requests, restarts and Enqueue calls.          *)
(***************************************************************************)
EXTENDS LifecycleProps, SchedulerProofs, FunctionTheorems

-----------------------------------------------------------------------------
(* Types.                                                                   *)

LEMMA RequestFields ==
  ASSUME LifeTypeOK, NEW c \in Clients, handler[c].op # "none"
  PROVE  /\ handler[c].id \in Workflows
         /\ handler[c].seen \in Statuses
         /\ handler[c].op \in {"cancel", "resume", "planning", "enqueue", "send"}
BY DEF LifeTypeOK, Requests, NoRequest

LEMMA RunFields ==
  ASSUME TypeOK, NEW r \in running
  PROVE  /\ r.worker \in Workers
         /\ r.job \in Job
         /\ r.job.workflowID \in Workflows
         /\ r.job.ticket \in Tickets
BY JobFields DEF TypeOK, RunJob

LEMMA SweepFields ==
  ASSUME LifeTypeOK, NEW a \in sweepAt
  PROVE  /\ a.id \in Workflows
         /\ a.step \in {"paused", "pending", "sending"}
         /\ a = [id |-> a.id, step |-> a.step]
BY DEF LifeTypeOK

\* The types are preserved field by field.
LEMMA SetHandlerType ==
  ASSUME LifeTypeOK, NEW c \in Clients, NEW f \in Workflows, NEW s \in Statuses,
         NEW op \in {"cancel", "resume", "planning", "enqueue", "send"},
         SetHandler(c, op, f, s)
  PROVE  handler' \in [Clients -> Requests \cup {NoRequest}]
<1>1. [op |-> op, id |-> f, seen |-> s] \in Requests
  BY DEF Requests
<1> QED BY <1>1 DEF LifeTypeOK, SetHandler

LEMMA ReplyType ==
  ASSUME LifeTypeOK, NEW c \in Clients, Reply(c)
  PROVE  handler' \in [Clients -> Requests \cup {NoRequest}]
BY DEF LifeTypeOK, Reply

LEMMA WriteType ==
  ASSUME LifeTypeOK, NEW f, NEW s \in Statuses, Write(f, s)
  PROVE  status' \in [Workflows -> Statuses \cup {"absent"}]
BY DEF LifeTypeOK, Write

LEMMA StatusNames ==
  /\ {"pending", "running", "paused", "completed", "failed", "cancelled"} \subseteq Statuses
  /\ \A s \in Statuses \cup {"absent"} : s # "absent" => s \in Statuses
BY DEF Statuses

LEMMA GotoType ==
  ASSUME LifeTypeOK, NEW w, NEW p \in Phases, Goto(w, p)
  PROVE  phase' \in [Workers -> Phases]
BY DEF LifeTypeOK, Goto

LEMMA BeginType ==
  ASSUME LifeTypeOK, NEW c, NEW op, Begin(c, op)
  PROVE  /\ requests' \in 0..MaxRequests
         /\ UNCHANGED <<phase, http, edited, bootVars, storeVars>>
BY LifecycleAssumption DEF LifeTypeOK, Begin

\* What store calls count, whether they are answered or not.
LEMMA FaultsType ==
  ASSUME LifeTypeOK, Answered \/ Fails \/ StoreFault
  PROVE  faults' \in 0..MaxFaults
BY LifecycleAssumption DEF LifeTypeOK, Answered, Fails, StoreFault

\* What the steps of a run do to the row, to the counts and to the ghosts.
LEMMA RunWrites ==
  ASSUME NEW r, RunStep(r)
  PROVE  /\ UNCHANGED <<apiVars, bootVars>>
         /\ \E p \in Phases : Goto(r.worker, p)
         /\ status' = status \/ \E s \in {"running", "completed", "cancelled", "failed"} :
                                  Write(r.job.workflowID, s)
         /\ faults' = faults \/ Answered \/ Fails
         /\ \/ unsaved' = unsaved
            \/ unsaved' = unsaved \cup {r.job.workflowID}
            \/ unsaved' = unsaved \ {r.job.workflowID}
<1> USE DEF Return, ReturnUnsaved, Proceed, SaveFails, Phases, storeVars
<1>1. CASE RunLoad(r)
  BY <1>1 DEF RunLoad
<1>2. CASE RunStart(r)
  BY <1>2 DEF RunStart
<1>3. CASE RunCheck(r)
  BY <1>3 DEF RunCheck
<1>4. CASE RunSave(r)
  BY <1>4 DEF RunSave
<1>5. CASE RunPhasesReturn(r)
  BY <1>5 DEF RunPhasesReturn
<1>6. CASE RunFinalCheck(r)
  BY <1>6 DEF RunFinalCheck
<1>7. CASE RunComplete(r)
  BY <1>7 DEF RunComplete
<1>8. CASE RunCancel(r)
  BY <1>8 DEF RunCancel
<1>9. CASE RunFail(r)
  BY <1>9 DEF RunFail
<1> QED BY <1>1, <1>2, <1>3, <1>4, <1>5, <1>6, <1>7, <1>8, <1>9 DEF RunStep

\* What they do for the scheduler.
LEMMA RunSchedules ==
  ASSUME NEW r, RunStep(r)
  PROVE  JobDone(r) \/ JobFailed(r) \/ UNCHANGED schedVars
<1> USE DEF Return, ReturnUnsaved, Proceed
<1>1. CASE RunLoad(r)
  BY <1>1 DEF RunLoad
<1>2. CASE RunStart(r)
  BY <1>2 DEF RunStart
<1>3. CASE RunCheck(r)
  BY <1>3 DEF RunCheck
<1>4. CASE RunSave(r)
  BY <1>4 DEF RunSave
<1>5. CASE RunPhasesReturn(r)
  BY <1>5 DEF RunPhasesReturn
<1>6. CASE RunFinalCheck(r)
  BY <1>6 DEF RunFinalCheck
<1>7. CASE RunComplete(r)
  BY <1>7 DEF RunComplete
<1>8. CASE RunCancel(r)
  BY <1>8 DEF RunCancel
<1>9. CASE RunFail(r)
  BY <1>9 DEF RunFail
<1> QED BY <1>1, <1>2, <1>3, <1>4, <1>5, <1>6, <1>7, <1>8, <1>9 DEF RunStep

LEMMA LifeTypeInit == Init => LifeTypeOK
BY LifecycleAssumption DEF Init, LifeTypeOK, Phases, NoRequest

\* The engine's steps write the status and the worker's phase only.
LEMMA RunType ==
  ASSUME TypeOK, LifeTypeOK, NEW r \in running, RunStep(r)
  PROVE  LifeTypeOK'
<1>1. UNCHANGED <<apiVars, bootVars>>
  BY RunWrites
<1>2. phase' \in [Workers -> Phases]
  BY RunWrites, GotoType
<1>3. status' \in [Workflows -> Statuses \cup {"absent"}]
  BY RunWrites, WriteType, StatusNames DEF LifeTypeOK
<1>4. faults' \in 0..MaxFaults
  BY RunWrites, FaultsType DEF LifeTypeOK
<1>5. unsaved' \subseteq Workflows
  BY RunWrites, RunFields DEF LifeTypeOK
<1> QED BY <1>1, <1>2, <1>3, <1>4, <1>5 DEF LifeTypeOK, apiVars, bootVars

LEMMA RequestType ==
  ASSUME LifeTypeOK, NEW c \in Clients, NEW f \in Workflows, Request(c, f)
  PROVE  LifeTypeOK'
<1>1. /\ requests' \in 0..MaxRequests
      /\ UNCHANGED <<phase, http, edited, bootVars, storeVars>>
  BY BeginType DEF Request, CreateRow, ReadForCancel, ReadForResume, ReadForPlanning
<1>2. status[f] # "absent" => status[f] \in Statuses
  BY StatusNames DEF LifeTypeOK
<1>3. status' \in [Workflows -> Statuses \cup {"absent"}]
  <2>1. CASE CreateRow(c, f)
    BY <2>1, WriteType, StatusNames DEF CreateRow
  <2>2. CASE ~CreateRow(c, f)
    BY <2>2 DEF LifeTypeOK, Request, ReadForCancel, ReadForResume, ReadForPlanning
  <2> QED BY <2>1, <2>2
<1>4. handler' \in [Clients -> Requests \cup {NoRequest}]
  <2>1. CASE CreateRow(c, f)
    BY <2>1, SetHandlerType, StatusNames DEF CreateRow, LifeTypeOK
  <2>2. CASE ReadForCancel(c, f)
    BY <2>2, <1>2, SetHandlerType DEF ReadForCancel, LifeTypeOK
  <2>3. CASE ReadForResume(c, f)
    BY <2>3, <1>2, SetHandlerType DEF ReadForResume, LifeTypeOK
  <2>4. CASE ReadForPlanning(c, f)
    BY <2>4, <1>2, SetHandlerType DEF ReadForPlanning
  <2> QED BY <2>1, <2>2, <2>3, <2>4 DEF Request
<1> QED BY <1>1, <1>3, <1>4 DEF LifeTypeOK, bootVars, storeVars

LEMMA HandlerType ==
  ASSUME LifeTypeOK, NEW c \in Clients, HandlerStep(c)
  PROVE  LifeTypeOK'
<1>1. handler[c].op # "none"
  BY DEF HandlerStep, WriteCancelled, WriteResumed, SavePlanning, HandlerFails, HandlerEnqueues,
         HandlerSends,
         Handles
<1>2. handler[c].id \in Workflows /\ handler[c].seen \in Statuses
  BY <1>1, RequestFields
<1>3. /\ requests' \in 0..MaxRequests
      /\ UNCHANGED <<phase, http, bootVars, unsaved>>
  BY DEF HandlerStep, WriteCancelled, WriteResumed, SavePlanning, HandlerFails, HandlerEnqueues,
         HandlerSends,
         LifeTypeOK, storeVars
<1>7. faults' \in 0..MaxFaults
  BY FaultsType DEF HandlerStep, WriteCancelled, WriteResumed, SavePlanning, HandlerFails,
         HandlerEnqueues, HandlerSends, LifeTypeOK, storeVars
<1>4. edited' \subseteq Workflows
  <2>1. CASE SavePlanning(c)
    BY <2>1, <1>2 DEF SavePlanning, LifeTypeOK
  <2>2. CASE ~SavePlanning(c)
    BY <2>2 DEF HandlerStep, WriteCancelled, WriteResumed, HandlerFails, HandlerEnqueues,
           HandlerSends,
                LifeTypeOK
  <2> QED BY <2>1, <2>2
<1>5. status' \in [Workflows -> Statuses \cup {"absent"}]
  <2>1. CASE WriteCancelled(c)
    BY <2>1, WriteType, StatusNames DEF WriteCancelled
  <2>2. CASE WriteResumed(c)
    BY <2>2, WriteType, StatusNames DEF WriteResumed
  <2>3. CASE SavePlanning(c)
    BY <2>3, <1>2, WriteType DEF SavePlanning
  <2>4. CASE HandlerEnqueues(c) \/ HandlerSends(c)
    BY <2>4 DEF HandlerEnqueues, HandlerSends, LifeTypeOK
  <2>5. CASE HandlerFails(c)
    BY <2>5, WriteType, StatusNames DEF HandlerFails, LifeTypeOK
  <2> QED BY <2>1, <2>2, <2>3, <2>4, <2>5 DEF HandlerStep
<1>6. handler' \in [Clients -> Requests \cup {NoRequest}]
  <2>1. CASE WriteResumed(c)
    BY <2>1, <1>2, SetHandlerType, StatusNames DEF WriteResumed
  <2>2. CASE HandlerEnqueues(c)
    BY <2>2, <1>2, SetHandlerType, ReplyType, StatusNames DEF HandlerEnqueues
  <2>3. CASE WriteCancelled(c) \/ SavePlanning(c) \/ HandlerFails(c) \/ HandlerSends(c)
    BY <2>3, ReplyType DEF WriteCancelled, SavePlanning, HandlerFails, HandlerSends
  <2> QED BY <2>1, <2>2, <2>3 DEF HandlerStep
<1> QED BY <1>3, <1>4, <1>5, <1>6, <1>7 DEF LifeTypeOK, bootVars, storeVars

LEMMA SweepType ==
  ASSUME LifeTypeOK, SweepStep
  PROVE  LifeTypeOK'
<1>1. UNCHANGED <<phase, apiVars, restarts, unsaved>>
  BY DEF SweepStep, SweepPause, SweepSetPending, SweepFails, SweepEnqueues, SweepSends,
         storeVars
<1>5. faults' \in 0..MaxFaults
  BY FaultsType DEF SweepStep, SweepPause, SweepSetPending, SweepFails, SweepEnqueues, SweepSends,
         LifeTypeOK, storeVars
<1>2. status' \in [Workflows -> Statuses \cup {"absent"}]
  <2>1. CASE SweepPause
    BY <2>1, WriteType, StatusNames DEF SweepPause
  <2>2. CASE SweepSetPending
    BY <2>2, WriteType, StatusNames DEF SweepSetPending
  <2>3. CASE SweepEnqueues \/ SweepSends
    BY <2>3 DEF SweepEnqueues, SweepSends, LifeTypeOK
  <2>4. CASE SweepFails
    BY <2>4, WriteType, StatusNames DEF SweepFails, LifeTypeOK
  <2> QED BY <2>1, <2>2, <2>3, <2>4 DEF SweepStep
<1>3. sweepAt' \subseteq [id : Workflows, step : {"paused", "pending", "sending"}]
  BY SweepFields DEF SweepStep, SweepPause, SweepSetPending, SweepFails, SweepEnqueues, SweepSends,
         SweepGoto,
         LifeTypeOK
<1>4. sweep' \subseteq Workflows /\ abandoned' \subseteq Workflows
  BY DEF SweepStep, SweepPause, SweepSetPending, SweepFails, SweepEnqueues, SweepSends, LifeTypeOK
<1> QED BY <1>1, <1>2, <1>3, <1>4, <1>5 DEF LifeTypeOK, apiVars

LEMMA LifeTypeStep == TypeOK /\ LifeTypeOK /\ [Next]_vars => LifeTypeOK'
<1> SUFFICES ASSUME TypeOK, LifeTypeOK, [Next]_vars PROVE LifeTypeOK' OBVIOUS
<1>1. ASSUME UNCHANGED lifeVars PROVE LifeTypeOK'
  BY <1>1 DEF LifeTypeOK, lifeVars, apiVars, bootVars, storeVars
<1>2. ASSUME NEW w \in Workers, WorkerTakes(w) PROVE LifeTypeOK'
  <2>1. phase' \in [Workers -> Phases]
    BY <1>2, GotoType DEF WorkerTakes, Phases
  <2> QED BY <1>2, <2>1 DEF WorkerTakes, LifeTypeOK, apiVars, bootVars, storeVars
<1>3. CASE StopHttp \/ StartHttp
  BY <1>3 DEF StopHttp, StartHttp, LifeTypeOK, bootVars, storeVars
<1>4. CASE NewProcess
  BY <1>4, LifecycleAssumption DEF NewProcess, LifeTypeOK, Phases
<1>5. CASE UNCHANGED vars \/ StopScheduler \/ (\E w \in Workers : WorkerExits(w))
                          \/ (\E j \in retrying : Retry(j))
  BY <1>5, <1>1 DEF vars, StopScheduler, WorkerExits, Retry
<1> QED BY <1>2, <1>3, <1>4, <1>5, RunType, RequestType, HandlerType, SweepType DEF Next

-----------------------------------------------------------------------------
(* The scheduler inside.                                                    *)

\* What a step does for the scheduler: nothing, or one of the scheduler's steps.
LEMMA SchedulerStep == LifeTypeOK /\ [Next]_vars => [SchedNext]_schedVars
<1> SUFFICES ASSUME LifeTypeOK, [Next]_vars PROVE [SchedNext]_schedVars OBVIOUS
<1>1. ASSUME NEW w \in Workers, WorkerTakes(w) \/ WorkerExits(w) PROVE SchedNext
  BY <1>1 DEF WorkerTakes, WorkerExits, SchedNext
<1>2. ASSUME NEW r \in running, RunStep(r) PROVE [SchedNext]_schedVars
  <2>1. JobDone(r) \/ JobFailed(r) \/ UNCHANGED schedVars
    BY <1>2, RunSchedules
  <2> QED BY <2>1 DEF SchedNext
<1>3. ASSUME NEW j \in retrying, Retry(j) PROVE SchedNext
  BY <1>3 DEF Retry, SchedNext
<1>4. ASSUME NEW c \in Clients, NEW f \in Workflows, Request(c, f) PROVE UNCHANGED schedVars
  BY <1>4 DEF Request, CreateRow, ReadForCancel, ReadForResume, ReadForPlanning, Begin
<1>5. ASSUME NEW c \in Clients, HandlerStep(c) PROVE [SchedNext]_schedVars
  <2>1. CASE HandlerEnqueues(c)
    <3>1. c \in Callers /\ handler[c].id \in Workflows
      BY <2>1, RequestFields DEF HandlerEnqueues, Handles, Clients
    <3>2. EnqueueCheck(c, handler[c].id) \/ UNCHANGED schedVars
      BY <2>1 DEF HandlerEnqueues
    <3> QED BY <3>1, <3>2 DEF SchedNext
  <2>2. CASE HandlerSends(c)
    BY <2>2 DEF HandlerSends, SchedNext
  <2>3. CASE WriteCancelled(c) \/ WriteResumed(c) \/ SavePlanning(c) \/ HandlerFails(c)
    BY <2>3 DEF WriteCancelled, WriteResumed, SavePlanning, HandlerFails
  <2> QED BY <1>5, <2>1, <2>2, <2>3 DEF HandlerStep
<1>6. CASE StopHttp \/ StartHttp \/ UNCHANGED vars
  BY <1>6 DEF StopHttp, StartHttp, vars
<1>7. CASE StopScheduler \/ NewProcess
  BY <1>7 DEF StopScheduler, NewProcess, SchedNext
<1>8. CASE SweepStep
  <2>1. CASE SweepEnqueues
    <3>1. PICK a \in sweepAt : EnqueueCheck(Boot, a.id)
      BY <2>1 DEF SweepEnqueues
    <3> QED BY <3>1, SweepFields, LifecycleAssumption DEF SchedNext
  <2>2. CASE SweepSends
    BY <2>2 DEF SweepSends, SchedNext
  <2>3. CASE SweepPause \/ SweepSetPending \/ SweepFails
    BY <2>3 DEF SweepPause, SweepSetPending, SweepFails
  <2> QED BY <1>8, <2>1, <2>2, <2>3 DEF SweepStep
<1> QED BY <1>1, <1>2, <1>3, <1>4, <1>5, <1>6, <1>7, <1>8 DEF Next

\* Every variable of the lifecycle keeps its type.
THEOREM LifecycleTypeCorrect == Spec => []LifeTypeOK
<1>1. Init => TypeOK /\ LifeTypeOK
  BY TypeInit, LifeTypeInit DEF Init
<1>2. TypeOK /\ LifeTypeOK /\ [Next]_vars => TypeOK' /\ LifeTypeOK'
  BY SchedulerStep, TypeStep, LifeTypeStep
<1> QED BY <1>1, <1>2, PTL DEF Spec

\* The server, its engine and its store use the scheduler as Scheduler.tla has
\* it: whatever is proved of every behaviour of the scheduler holds here.
THEOREM LifecycleUsesScheduler == Spec => SchedSpec
BY LifecycleTypeCorrect, SchedulerStep, PTL DEF Spec, Init, SchedSpec

\* So the whole server, through crashes and restarts, runs its workflows as the
\* pool of JobPool.tla.
THEOREM LifecycleImplementsPool == Spec => ImplementsPool
BY LifecycleUsesScheduler, SchedulerImplementsPool, PTL

-----------------------------------------------------------------------------
(* The jobs of a workflow.                                                  *)

(* The tickets of the jobs of f that the scheduler holds.                    *)
Held(f) ==
  {t \in Tickets :
     \/ \E i \in 1..Len(queue) : queue[i].workflowID = f /\ queue[i].ticket = t
     \/ \E j \in retrying : j.workflowID = f /\ j.ticket = t
     \/ \E r \in running : r.job.workflowID = f /\ r.job.ticket = t}

LEMMA HeldRun ==
  ASSUME TypeOK, NEW r \in running
  PROVE  r.job.ticket \in Held(r.job.workflowID)
BY RunFields DEF Held

\* Only a send by Enqueue gives a workflow another ticket: a job keeps its
\* workflow and its ticket on its way through channel, worker and retries.
LEMMA HeldShrinks ==
  ASSUME TypeOK, [SchedNext]_schedVars, issued' = issued, NEW f
  PROVE  Held(f)' \subseteq Held(f)
<1>0. Tickets' = Tickets
  BY DEF Tickets
<1>1. ASSUME queue' = queue, retrying' \subseteq retrying, running' \subseteq running
      PROVE  Held(f)' \subseteq Held(f)
  BY <1>0, <1>1 DEF Held
<1>2. ASSUME NEW e \in entering, EnqueueSend(e) PROVE FALSE
  BY <1>2 DEF EnqueueSend, TypeOK
<1>3. ASSUME NEW w \in Workers, TakeJob(w) PROVE Held(f)' \subseteq Held(f)
  <2>1. /\ Len(queue) \in Nat \ {0}
        /\ Head(queue) = queue[1]
        /\ Len(queue') = Len(queue) - 1
        /\ \A i \in 1..Len(queue') : queue'[i] = queue[i + 1]
    BY <1>3, QueueReceive DEF TakeJob, TypeOK
  <2>2. \A i \in 1..Len(queue') : i + 1 \in 1..Len(queue) /\ queue'[i] = queue[i + 1]
    BY <2>1
  <2>3. 1 \in 1..Len(queue)
    BY <2>1
  <2>4. retrying' = retrying /\ running' = running \cup {[worker |-> w, job |-> queue[1]]}
    BY <1>3, <2>1 DEF TakeJob
  <2> QED BY <1>0, <2>2, <2>3, <2>4 DEF Held
<1>4. ASSUME NEW r \in running, JobFailed(r) PROVE Held(f)' \subseteq Held(f)
  <2>1. CASE ~RetryLeft(r.job)
    BY <1>1, <1>4, <2>1 DEF JobFailed
  <2>2. CASE RetryLeft(r.job)
    <3> DEFINE n == NextAttempt(r.job)
    <3>1. n.ticket = r.job.ticket /\ n.workflowID = r.job.workflowID
      BY RunFields DEF NextAttempt, Job
    <3>2. queue' = queue /\ retrying' = retrying \cup {n} /\ running' = running \ {r}
      BY <1>4, <2>2 DEF JobFailed
    <3> HIDE DEF n
    <3> QED BY <1>0, <3>1, <3>2 DEF Held
  <2> QED BY <2>1, <2>2
<1>5. ASSUME NEW j \in retrying, RetrySend(j) PROVE Held(f)' \subseteq Held(f)
  <2>1. queue' = Append(queue, j) /\ retrying' = retrying \ {j} /\ running' = running
    BY <1>5 DEF RetrySend
  <2>2. \A i \in 1..Len(queue') : (i \in 1..Len(queue) /\ queue'[i] = queue[i]) \/ queue'[i] = j
    BY <2>1, QueueSend, QueueType DEF TypeOK
  <2> QED BY <1>0, <2>1, <2>2 DEF Held
<1>6. ASSUME Restart PROVE Held(f)' \subseteq Held(f)
  <2>1. Len(queue') = 0
    BY <1>6, EmptySeq DEF Restart
  <2> QED BY <1>6, <2>1 DEF Restart, Held
<1>7. ASSUME NEW c \in Callers, NEW id \in Workflows, EnqueueCheck(c, id)
      PROVE  Held(f)' \subseteq Held(f)
  BY <1>1, <1>7 DEF EnqueueCheck
<1>8. ASSUME NEW e \in entering, EnqueueFull(e) PROVE Held(f)' \subseteq Held(f)
  BY <1>1, <1>8 DEF EnqueueFull
<1>9. ASSUME NEW w \in Workers, WorkerExit(w) PROVE Held(f)' \subseteq Held(f)
  BY <1>1, <1>9 DEF WorkerExit
<1>10. ASSUME NEW r \in running, JobDone(r) PROVE Held(f)' \subseteq Held(f)
  BY <1>1, <1>10 DEF JobDone
<1>11. ASSUME NEW j \in retrying, RetryGiveUp(j) PROVE Held(f)' \subseteq Held(f)
  BY <1>1, <1>11 DEF RetryGiveUp
<1>12. CASE ShutdownNext \/ UNCHANGED schedVars
  BY <1>1, <1>12 DEF ShutdownNext, CancelCtx, CloseDone, ShutdownReturn, ShutdownTimeout,
                     ShutdownStep, schedVars
<1> QED BY <1>2, <1>3, <1>4, <1>5, <1>6, <1>7, <1>8, <1>9, <1>10, <1>11, <1>12
        DEF SchedNext, RetryStep

\* A send gives one ticket to the workflow it names.
LEMMA HeldSend ==
  ASSUME TypeOK, NEW e \in entering, EnqueueSend(e), NEW f
  PROVE  /\ f # e.id => Held(f)' \subseteq Held(f)
         /\ f = e.id => Held(f)' \subseteq Held(f) \cup {issued + 1}
<1> DEFINE j == [workflowID |-> e.id, attempt |-> 0, ticket |-> issued + 1]
<1>1. issued + 1 \in Tickets
  BY SchedulerAssumption DEF EnqueueSend, TypeOK, Tickets
<1>2. j \in Job /\ j.workflowID = e.id /\ j.ticket = issued + 1
  BY <1>1, FirstAttempt DEF Job, TypeOK, Call
<1>3. queue' = Append(queue, j) /\ retrying' = retrying /\ running' = running
  BY DEF EnqueueSend
<1> HIDE DEF j
<1>4. \A i \in 1..Len(queue') : (i \in 1..Len(queue) /\ queue'[i] = queue[i]) \/ queue'[i] = j
  BY <1>2, <1>3, QueueSend, QueueType DEF TypeOK
<1>5. Tickets' = Tickets
  BY DEF Tickets
<1>6. ASSUME NEW t \in Held(f)' PROVE t \in Held(f) \/ (f = e.id /\ t = issued + 1)
  BY <1>2, <1>3, <1>4, <1>5 DEF Held
<1> QED BY <1>6

\* A run that returns and is not retried takes its ticket with it.
LEMMA HeldReturn ==
  ASSUME TypeOK, TicketInOnePlace, NEW r \in running, JobDone(r) \/ JobFailed(r),
         retrying' = retrying, NEW f
  PROVE  Held(f)' \subseteq Held(f) \ {r.job.ticket}
<1>1. queue' = queue /\ running' = running \ {r} /\ Tickets' = Tickets
  BY DEF JobDone, JobFailed, Tickets
<1>2. \A s \in running' : s.job.ticket # r.job.ticket
  BY <1>1 DEF TicketInOnePlace, RunTicketsDistinct
<1>3. \A i \in 1..Len(queue') : queue'[i].ticket # r.job.ticket
  BY <1>1 DEF TicketInOnePlace, PlacesDisjoint
<1>4. \A j \in retrying' : j.ticket # r.job.ticket
  BY DEF TicketInOnePlace, PlacesDisjoint
<1> QED BY <1>1, <1>2, <1>3, <1>4 DEF Held

LEMMA HeldRestart ==
  ASSUME Restart, NEW f
  PROVE  Held(f)' = {}
<1>1. Len(queue') = 0
  BY EmptySeq DEF Restart
<1> QED BY <1>1 DEF Restart, Held

LEMMA HeldInit ==
  ASSUME SchedInit, NEW f
  PROVE  Held(f) = {}
<1>1. Len(queue) = 0
  BY EmptySeq DEF SchedInit
<1> QED BY <1>1 DEF SchedInit, Held

-----------------------------------------------------------------------------
(* The calls of Enqueue, the handlers and the recovery sweep.               *)

(* Who is inside Enqueue: a handler about to send, or the sweep.             *)
CallsInv ==
  \A e \in entering :
    IF e.caller = Boot
    THEN \E a \in sweepAt : a.step = "sending" /\ a.id = e.id
    ELSE handler[e.caller].op = "send" /\ handler[e.caller].id = e.id

(* A handler acts on what its first read returned.                           *)
HandlerInv ==
  \A c \in Clients :
    /\ handler[c].op = "resume" => handler[c].seen \in Resumable
    /\ handler[c].op \in {"enqueue", "send"} => handler[c].seen = "pending"

(* Handlers and sweep exclude each other, and the sweep is at one row.       *)
BootInv ==
  /\ http # "stopped" => shut = "up"
  /\ Sweeping => http = "off"
  /\ http = "off" => \A c \in Clients : handler[c] = NoRequest
  /\ \A a, b \in sweepAt : a = b

(* While the sweep goes on it alone writes the rows it has still to visit:   *)
(* the scheduler holds none of their jobs.                                   *)
SweepStatus(step) == IF step = "paused" THEN "paused" ELSE "pending"
RecoveryInv ==
  /\ \A a \in sweepAt :
       a.id \notin sweep /\ status[a.id] = SweepStatus(a.step) /\ Held(a.id) = {}
  /\ \A f \in sweep : status[f] = "running" /\ Held(f) = {}

EntryInv == CallsInv /\ HandlerInv /\ BootInv

\* The steps of the workers, the runs, the retries and the shutdown.
EngineStep ==
  \/ \E w \in Workers : WorkerTakes(w) \/ WorkerExits(w)
  \/ \E r \in running : RunStep(r)
  \/ \E j \in retrying : Retry(j)
  \/ StopScheduler

LEMMA EngineFrame ==
  ASSUME EngineStep
  PROVE  /\ UNCHANGED <<entering, issued, apiVars, bootVars>>
         /\ shut' # shut => http = "stopped"
<1>1. ASSUME NEW w \in Workers, WorkerTakes(w) \/ WorkerExits(w)
      PROVE  UNCHANGED <<entering, issued, shut, apiVars, bootVars>>
  BY <1>1 DEF WorkerTakes, WorkerExits, TakeJob, WorkerExit, lifeVars
<1>2. ASSUME NEW r \in running, RunStep(r)
      PROVE  UNCHANGED <<entering, issued, shut, apiVars, bootVars>>
  BY <1>2, RunWrites, RunSchedules DEF JobDone, JobFailed, schedVars
<1>3. ASSUME NEW j \in retrying, Retry(j)
      PROVE  UNCHANGED <<entering, issued, shut, apiVars, bootVars>>
  BY <1>3 DEF Retry, RetryStep, RetrySend, RetryGiveUp, lifeVars
<1>4. CASE StopScheduler
  BY <1>4 DEF StopScheduler, ShutdownNext, CancelCtx, CloseDone, ShutdownReturn, ShutdownTimeout,
              ShutdownStep, lifeVars
<1> QED BY <1>1, <1>2, <1>3, <1>4 DEF EngineStep

LEMMA RequestFrame ==
  ASSUME NEW c \in Clients, NEW f \in Workflows, Request(c, f)
  PROVE  /\ http = "on" /\ handler[c] = NoRequest
         /\ UNCHANGED <<schedVars, phase, http, edited, bootVars, storeVars>>
BY DEF Request, CreateRow, ReadForCancel, ReadForResume, ReadForPlanning, Begin

\* A request leaves its handler free, or at work on the row it has read.
LEMMA RequestHandler ==
  ASSUME LifeTypeOK, NEW c \in Clients, NEW f \in Workflows, Request(c, f)
  PROVE  /\ \A d \in Clients : d # c => handler'[d] = handler[d]
         /\ \/ handler'[c] = NoRequest
            \/ /\ handler'[c].id = f
               /\ \/ /\ handler'[c].op = "enqueue" /\ handler'[c].seen = "pending"
                     /\ status[f] = "absent" /\ Write(f, "pending")
                  \/ /\ handler'[c].op = "cancel" /\ status[f] \notin Terminal
                     /\ handler'[c].seen = status[f] /\ status' = status
                  \/ /\ handler'[c].op = "resume" /\ status[f] \in Resumable
                     /\ handler'[c].seen = status[f] /\ status' = status
                  \/ /\ handler'[c].op = "planning"
                     /\ handler'[c].seen = status[f] /\ status' = status
<1>1. handler[c] = NoRequest
  BY RequestFrame
<1>2. ASSUME NEW op, NEW s, SetHandler(c, op, f, s)
      PROVE  /\ \A d \in Clients : d # c => handler'[d] = handler[d]
             /\ handler'[c] = [op |-> op, id |-> f, seen |-> s]
  BY <1>2 DEF SetHandler, LifeTypeOK
<1>3. CASE UNCHANGED handler
  BY <1>1, <1>3
<1>4. CASE CreateRow(c, f) /\ handler' # handler
  <2>1. SetHandler(c, "enqueue", f, "pending") /\ status[f] = "absent" /\ Write(f, "pending")
    BY <1>4 DEF CreateRow
  <2>2. /\ \A d \in Clients : d # c => handler'[d] = handler[d]
        /\ handler'[c] = [op |-> "enqueue", id |-> f, seen |-> "pending"]
    BY <2>1, <1>2
  <2> QED BY <2>1, <2>2
<1>5. CASE ReadForCancel(c, f) /\ handler' # handler
  <2>1. SetHandler(c, "cancel", f, status[f]) /\ status[f] \notin Terminal /\ status' = status
    BY <1>5 DEF ReadForCancel
  <2>2. /\ \A d \in Clients : d # c => handler'[d] = handler[d]
        /\ handler'[c] = [op |-> "cancel", id |-> f, seen |-> status[f]]
    BY <2>1, <1>2
  <2> QED BY <2>1, <2>2
<1>6. CASE ReadForResume(c, f) /\ handler' # handler
  <2>1. SetHandler(c, "resume", f, status[f]) /\ status[f] \in Resumable /\ status' = status
    BY <1>6 DEF ReadForResume
  <2>2. /\ \A d \in Clients : d # c => handler'[d] = handler[d]
        /\ handler'[c] = [op |-> "resume", id |-> f, seen |-> status[f]]
    BY <2>1, <1>2
  <2> QED BY <2>1, <2>2
<1>7. CASE ReadForPlanning(c, f)
  <2>1. SetHandler(c, "planning", f, status[f]) /\ status' = status
    BY <1>7 DEF ReadForPlanning
  <2>2. /\ \A d \in Clients : d # c => handler'[d] = handler[d]
        /\ handler'[c] = [op |-> "planning", id |-> f, seen |-> status[f]]
    BY <2>1, <1>2
  <2> QED BY <2>1, <2>2
<1> QED BY <1>3, <1>4, <1>5, <1>6, <1>7 DEF Request

\* A handler's step: what it does to its own record, and to the status.
LEMMA HandlerFrame ==
  ASSUME LifeTypeOK, NEW c \in Clients, HandlerStep(c)
  PROVE  /\ handler[c] # NoRequest /\ handler[c].id \in Workflows
         /\ handler[c].op \in {"cancel", "resume", "planning", "enqueue", "send"}
         /\ UNCHANGED <<phase, http, bootVars, unsaved>>
         /\ \A d \in Clients : d # c => handler'[d] = handler[d]
<1>1. handler[c].op # "none"
  BY DEF HandlerStep, WriteCancelled, WriteResumed, SavePlanning, HandlerFails, HandlerEnqueues,
         HandlerSends,
         Handles
<1>2. UNCHANGED <<phase, http, bootVars, unsaved>>
  BY DEF HandlerStep, WriteCancelled, WriteResumed, SavePlanning, HandlerFails, HandlerEnqueues,
         HandlerSends,
         storeVars
<1>3. \A d \in Clients : d # c => handler'[d] = handler[d]
  BY DEF HandlerStep, WriteCancelled, WriteResumed, SavePlanning, HandlerFails, HandlerEnqueues,
         HandlerSends,
         SetHandler, Reply, LifeTypeOK
<1> QED BY <1>1, <1>2, <1>3, RequestFields DEF NoRequest

LEMMA HandlerCase ==
  ASSUME LifeTypeOK, NEW c \in Clients, HandlerStep(c)
  PROVE  \/ /\ handler[c].op = "cancel" /\ Write(handler[c].id, "cancelled")
            /\ handler'[c] = NoRequest /\ UNCHANGED <<schedVars, edited>>
         \/ /\ handler[c].op = "resume" /\ Write(handler[c].id, "pending")
            /\ handler'[c] = [op |-> "enqueue", id |-> handler[c].id, seen |-> "pending"]
            /\ UNCHANGED <<schedVars, edited>>
         \/ /\ handler[c].op = "planning" /\ Write(handler[c].id, handler[c].seen)
            /\ edited' = edited \cup {f \in {handler[c].id} : status[f] # handler[c].seen}
            /\ handler'[c] = NoRequest /\ UNCHANGED schedVars
         \/ /\ handler[c].op = "enqueue" /\ UNCHANGED <<status, edited>>
            /\ handler'[c] = [op |-> "send", id |-> handler[c].id, seen |-> "pending"]
            /\ EnqueueCheck(c, handler[c].id)
         \/ /\ handler[c].op = "enqueue" /\ UNCHANGED <<status, edited>>
            /\ handler'[c] = NoRequest /\ UNCHANGED schedVars
         \/ /\ handler[c].op \in {"cancel", "resume", "planning"} /\ UNCHANGED <<status, edited>>
            /\ handler'[c] = NoRequest /\ UNCHANGED schedVars
         \/ /\ handler[c].op = "resume" /\ Write(handler[c].id, "pending")
            /\ handler'[c] = NoRequest /\ UNCHANGED <<schedVars, edited>>
         \/ /\ handler[c].op = "send" /\ UNCHANGED <<status, edited>>
            /\ handler'[c] = NoRequest
            /\ \E e \in entering : e.caller = c /\ (EnqueueSend(e) \/ EnqueueFull(e))
<1>1. ASSUME NEW op, NEW f, NEW s, SetHandler(c, op, f, s)
      PROVE  handler'[c] = [op |-> op, id |-> f, seen |-> s]
  BY <1>1 DEF SetHandler, LifeTypeOK
<1>2. ASSUME Reply(c) PROVE handler'[c] = NoRequest
  BY <1>2 DEF Reply, LifeTypeOK
<1>3. CASE WriteCancelled(c)
  BY <1>2, <1>3 DEF WriteCancelled, Handles
<1>4. CASE WriteResumed(c)
  BY <1>1, <1>4 DEF WriteResumed, Handles
<1>5. CASE SavePlanning(c)
  BY <1>2, <1>5 DEF SavePlanning, Handles
<1>6. CASE HandlerEnqueues(c)
  BY <1>1, <1>2, <1>6 DEF HandlerEnqueues, Handles
<1>7. CASE HandlerSends(c)
  BY <1>2, <1>7 DEF HandlerSends, Handles
<1>8. CASE HandlerFails(c)
  BY <1>2, <1>8 DEF HandlerFails, Handles
<1> QED BY <1>3, <1>4, <1>5, <1>6, <1>7, <1>8 DEF HandlerStep

LEMMA EntryInit == Init => EntryInv
BY DEF Init, SchedInit, EntryInv, CallsInv, HandlerInv, BootInv, Sweeping, NoRequest

LEMMA CallsStep ==
  ASSUME TypeOK, LifeTypeOK, EntryInv, [Next]_vars
  PROVE  CallsInv'
<1> USE DEF CallsInv
<1>1. CASE EngineStep
  BY <1>1, EngineFrame DEF EntryInv, apiVars, bootVars, storeVars
<1>2. ASSUME NEW c \in Clients, NEW f \in Workflows, Request(c, f) PROVE CallsInv'
  <2>1. \A e \in entering : e.caller # Boot => e.caller # c
    BY <1>2, RequestFrame DEF EntryInv, NoRequest
  <2>2. \A e \in entering : e.caller # Boot => e.caller \in Clients
    BY DEF TypeOK, Call, Clients
  <2> QED BY <1>2, <2>1, <2>2, RequestFrame, RequestHandler DEF EntryInv, schedVars, bootVars,
         storeVars
<1>3. ASSUME NEW c \in Clients, HandlerStep(c) PROVE CallsInv'
  <2>1. \A e \in entering : e.caller # Boot => e.caller \in Clients
    BY DEF TypeOK, Call, Clients
  <2>2. c # Boot /\ sweepAt' = sweepAt
    BY <1>3, HandlerFrame DEF Clients, bootVars, storeVars
  <2>3. \A d \in Clients : d # c => handler'[d] = handler[d]
    BY <1>3, HandlerFrame
  <2>4. CASE UNCHANGED schedVars /\ handler[c].op # "send"
    <3>1. \A e \in entering : e.caller # c
      BY <2>2, <2>4 DEF EntryInv
    <3> QED BY <2>1, <2>2, <2>3, <2>4, <3>1 DEF EntryInv, schedVars
  <2>5. CASE EnqueueCheck(c, handler[c].id)
             /\ handler'[c] = [op |-> "send", id |-> handler[c].id, seen |-> "pending"]
    <3>1. /\ entering' = entering \cup {[caller |-> c, id |-> handler[c].id]}
          /\ \A e \in entering : e.caller # c
      BY <2>5 DEF EnqueueCheck
    <3> QED BY <2>1, <2>2, <2>3, <2>5, <3>1 DEF EntryInv
  <2>6. CASE \E e \in entering : e.caller = c /\ (EnqueueSend(e) \/ EnqueueFull(e))
    <3>1. PICK e \in entering : e.caller = c /\ entering' = entering \ {e}
      BY <2>6 DEF EnqueueSend, EnqueueFull
    <3>2. \A g \in entering : g.caller = c => g = e
      BY <2>2, <3>1 DEF EntryInv, TypeOK, Call
    <3> QED BY <2>1, <2>2, <2>3, <3>1, <3>2 DEF EntryInv
  <2> QED BY <1>3, <2>4, <2>5, <2>6, HandlerCase
<1>4. CASE SweepStep
  <2>1. UNCHANGED <<phase, apiVars, restarts, unsaved>>
    BY <1>4 DEF SweepStep, SweepPause, SweepSetPending, SweepFails, SweepEnqueues, SweepSends,
                storeVars
  <2>2. \A a, b \in sweepAt : a = b
    BY DEF EntryInv, BootInv
  <2>3. CASE SweepPause
    BY <2>1, <2>3 DEF SweepPause, EntryInv, apiVars, schedVars
  <2>4. CASE SweepSetPending
    <3>1. \A e \in entering : e.caller # Boot
      BY <2>2, <2>4 DEF SweepSetPending, EntryInv
    <3> QED BY <2>1, <2>4, <3>1 DEF SweepSetPending, EntryInv, apiVars, schedVars
  <2>5. CASE SweepEnqueues
    <3>1. PICK a \in sweepAt : EnqueueCheck(Boot, a.id) /\ SweepGoto(a.id, "sending")
      BY <2>5 DEF SweepEnqueues
    <3>2. /\ entering' = entering \cup {[caller |-> Boot, id |-> a.id]}
          /\ \A e \in entering : e.caller # Boot
          /\ sweepAt' = {[id |-> a.id, step |-> "sending"]}
      BY <3>1 DEF EnqueueCheck, SweepGoto
    <3> QED BY <2>1, <3>2 DEF EntryInv, apiVars
  <2>6. CASE SweepSends
    <3>1. PICK e \in entering : e.caller = Boot /\ entering' = entering \ {e}
      BY <2>6 DEF SweepSends, EnqueueSend, EnqueueFull
    <3>2. \A g \in entering : g.caller = Boot => g = e
      BY <2>2, <3>1 DEF EntryInv, TypeOK, Call
    <3> QED BY <2>1, <3>1, <3>2 DEF EntryInv, apiVars
  <2>7. CASE SweepFails
    <3>1. \A e \in entering : e.caller # Boot
      BY <2>2, <2>7 DEF SweepFails, EntryInv
    <3> QED BY <2>1, <2>7, <3>1 DEF SweepFails, EntryInv, apiVars, schedVars
  <2> QED BY <1>4, <2>3, <2>4, <2>5, <2>6, <2>7 DEF SweepStep
<1>5. CASE NewProcess
  BY <1>5 DEF NewProcess, Restart
<1>6. CASE StopHttp \/ StartHttp \/ UNCHANGED vars
  BY <1>6 DEF StopHttp, StartHttp, EntryInv, vars, schedVars, lifeVars, apiVars, bootVars, storeVars
<1> QED BY <1>1, <1>2, <1>3, <1>4, <1>5, <1>6 DEF Next, EngineStep

LEMMA HandlerInvStep ==
  ASSUME LifeTypeOK, EntryInv, [Next]_vars
  PROVE  HandlerInv'
<1> USE DEF HandlerInv
<1>1. CASE UNCHANGED handler
  BY <1>1 DEF EntryInv
<1>2. ASSUME NEW c \in Clients, NEW f \in Workflows, Request(c, f) PROVE HandlerInv'
  BY <1>2, RequestHandler DEF EntryInv, NoRequest
<1>3. ASSUME NEW c \in Clients, HandlerStep(c) PROVE HandlerInv'
  <2>1. \/ handler'[c] = NoRequest
        \/ \E op \in {"enqueue", "send"} :
             handler'[c] = [op |-> op, id |-> handler[c].id, seen |-> "pending"]
    BY <1>3, HandlerCase
  <2>2. /\ handler'[c].op # "resume"
        /\ handler'[c].op \in {"enqueue", "send"} => handler'[c].seen = "pending"
    BY <2>1 DEF NoRequest
  <2> QED BY <1>3, <2>2, HandlerFrame DEF EntryInv
<1>4. CASE NewProcess
  BY <1>4 DEF NewProcess, NoRequest
<1>5. CASE EngineStep \/ SweepStep \/ StopHttp \/ StartHttp \/ UNCHANGED vars
  BY <1>5, <1>1, EngineFrame DEF SweepStep, SweepPause, SweepSetPending, SweepFails, SweepEnqueues,
         SweepSends,
         StopHttp, StartHttp, vars, lifeVars, apiVars
<1> QED BY <1>2, <1>3, <1>4, <1>5 DEF Next, EngineStep

LEMMA BootStep ==
  ASSUME LifeTypeOK, EntryInv, [Next]_vars
  PROVE  BootInv'
<1> USE DEF BootInv, Sweeping
<1>1. CASE EngineStep
  BY <1>1, EngineFrame DEF EntryInv, apiVars, bootVars, storeVars
<1>2. ASSUME NEW c \in Clients, NEW f \in Workflows, Request(c, f) PROVE BootInv'
  BY <1>2, RequestFrame DEF EntryInv, bootVars, storeVars, schedVars
<1>3. ASSUME NEW c \in Clients, HandlerStep(c) PROVE BootInv'
  <2>1. http # "off"
    BY <1>3, HandlerFrame DEF EntryInv
  <2>2. shut' = shut
    BY <1>3, HandlerCase DEF EnqueueCheck, EnqueueSend, EnqueueFull, schedVars
  <2> QED BY <1>3, <2>1, <2>2, HandlerFrame DEF EntryInv, bootVars, storeVars
<1>4. CASE SweepStep
  <2>1. UNCHANGED <<shut, apiVars>> /\ Sweeping
    BY <1>4 DEF SweepStep, SweepPause, SweepSetPending, SweepFails, SweepEnqueues, SweepSends,
           schedVars,
                EnqueueCheck, EnqueueSend, EnqueueFull
  <2>2. \A a, b \in sweepAt' : a = b
    BY <1>4 DEF SweepStep, SweepPause, SweepSetPending, SweepFails, SweepEnqueues, SweepSends,
           SweepGoto
  <2> QED BY <2>1, <2>2 DEF EntryInv, apiVars
<1>5. CASE NewProcess
  BY <1>5 DEF NewProcess, Restart, LifeTypeOK
<1>6. CASE StopHttp \/ StartHttp \/ UNCHANGED vars
  BY <1>6 DEF StopHttp, StartHttp, EntryInv, vars, schedVars, lifeVars, apiVars, bootVars, storeVars
<1> QED BY <1>1, <1>2, <1>3, <1>4, <1>5, <1>6 DEF Next, EngineStep

LEMMA EntryStep == TypeOK /\ LifeTypeOK /\ EntryInv /\ [Next]_vars => EntryInv'
BY CallsStep, HandlerInvStep, BootStep DEF EntryInv

LEMMA EngineSchedNext ==
  ASSUME EngineStep
  PROVE  [SchedNext]_schedVars
<1>1. ASSUME NEW r \in running, RunStep(r)
      PROVE  JobDone(r) \/ JobFailed(r) \/ UNCHANGED schedVars
  BY <1>1, RunSchedules
<1>2. ASSUME NEW w \in Workers, WorkerTakes(w) \/ WorkerExits(w) PROVE SchedNext
  BY <1>2 DEF WorkerTakes, WorkerExits, SchedNext
<1> QED BY <1>1, <1>2 DEF EngineStep, SchedNext, Retry, StopScheduler

\* The engine writes only rows of which the scheduler holds a job.
LEMMA EngineKeeps ==
  ASSUME TypeOK, LifeTypeOK, EngineStep, NEW f \in Workflows, Held(f) = {}
  PROVE  status'[f] = status[f] /\ Held(f)' = {}
<1>1. Held(f)' = {}
  BY EngineFrame, EngineSchedNext, HeldShrinks
<1>2. ASSUME NEW r \in running, RunStep(r) PROVE status'[f] = status[f]
  <2>1. r.job.workflowID # f
    BY HeldRun
  <2>2. status' = status \/ \E s : Write(r.job.workflowID, s)
    BY <1>2, RunWrites
  <2> QED BY <2>1, <2>2 DEF Write, LifeTypeOK
<1>3. (\A r \in running : ~RunStep(r)) => status' = status
  BY DEF EngineStep, WorkerTakes, WorkerExits, Retry, StopScheduler, lifeVars
<1> QED BY <1>1, <1>2, <1>3

LEMMA RecoveryInit == Init => RecoveryInv
BY DEF Init, RecoveryInv

LEMMA RecoveryStep ==
  ASSUME TypeOK, LifeTypeOK, EntryInv, RecoveryInv, [Next]_vars
  PROVE  RecoveryInv'
<1> USE DEF RecoveryInv
<1>1. ASSUME UNCHANGED <<sweep, sweepAt>>, ~Sweeping PROVE RecoveryInv'
  BY <1>1 DEF Sweeping
<1>2. CASE EngineStep
  <2>1. UNCHANGED <<sweep, sweepAt>>
    BY <1>2, EngineFrame DEF bootVars, storeVars
  <2>2. \A f \in sweep : status'[f] = status[f] /\ Held(f)' = {}
    BY <1>2, EngineKeeps DEF LifeTypeOK
  <2>3. \A a \in sweepAt : status'[a.id] = status[a.id] /\ Held(a.id)' = {}
    BY <1>2, EngineKeeps, SweepFields
  <2> QED BY <2>1, <2>2, <2>3
<1>3. ASSUME NEW c \in Clients, NEW f \in Workflows, Request(c, f) PROVE RecoveryInv'
  BY <1>1, <1>3, RequestFrame DEF EntryInv, BootInv, bootVars, storeVars
<1>4. ASSUME NEW c \in Clients, HandlerStep(c) PROVE RecoveryInv'
  BY <1>1, <1>4, HandlerFrame DEF EntryInv, BootInv, bootVars, storeVars
<1>5. CASE SweepPause
  <2>1. PICK f \in sweep : Write(f, "paused") /\ sweep' = sweep \ {f} /\ SweepGoto(f, "paused")
    BY <1>5 DEF SweepPause
  <2>2. UNCHANGED schedVars
    BY <1>5 DEF SweepPause
  <2>3. \A g : Held(g)' = Held(g)
    BY <2>2 DEF Held, schedVars, Tickets
  <2>4. f \in Workflows /\ sweep \subseteq Workflows
    BY DEF LifeTypeOK
  <2>5. status'[f] = "paused" /\ \A g \in Workflows : g # f => status'[g] = status[g]
    BY <2>1, <2>4 DEF Write, LifeTypeOK
  <2>6. sweepAt' = {[id |-> f, step |-> "paused"]}
    BY <2>1 DEF SweepGoto
  <2> QED BY <2>1, <2>3, <2>4, <2>5, <2>6 DEF SweepStatus
<1>6. CASE SweepSetPending
  <2>1. PICK a \in sweepAt : a.step = "paused" /\ Write(a.id, "pending")
                             /\ SweepGoto(a.id, "pending")
    BY <1>6 DEF SweepSetPending
  <2>2. UNCHANGED schedVars /\ sweep' = sweep
    BY <1>6 DEF SweepSetPending
  <2>3. \A g : Held(g)' = Held(g)
    BY <2>2 DEF Held, schedVars, Tickets
  <2>4. a.id \in Workflows /\ sweep \subseteq Workflows
    BY SweepFields DEF LifeTypeOK
  <2>5. status'[a.id] = "pending" /\ \A g \in Workflows : g # a.id => status'[g] = status[g]
    BY <2>1, <2>4 DEF Write, LifeTypeOK
  <2>6. sweepAt' = {[id |-> a.id, step |-> "pending"]}
    BY <2>1 DEF SweepGoto
  <2> QED BY <2>1, <2>2, <2>3, <2>4, <2>5, <2>6 DEF SweepStatus
<1>7. CASE SweepEnqueues
  <2>1. PICK a \in sweepAt : a.step = "pending" /\ EnqueueCheck(Boot, a.id)
                             /\ SweepGoto(a.id, "sending")
    BY <1>7 DEF SweepEnqueues
  <2>2. \A g : Held(g)' = Held(g)
    BY <2>1 DEF Held, EnqueueCheck, Tickets
  <2>3. sweepAt' = {[id |-> a.id, step |-> "sending"]} /\ UNCHANGED <<status, sweep>>
    BY <1>7, <2>1 DEF SweepGoto, SweepEnqueues
  <2> QED BY <2>1, <2>2, <2>3 DEF SweepStatus
<1>8. CASE SweepSends
  <2>1. PICK a \in sweepAt, e \in entering :
           /\ e.caller = Boot
           /\ (EnqueueSend(e) /\ sweep' = sweep) \/ (EnqueueFull(e) /\ sweep' = {})
    BY <1>8 DEF SweepSends
  <2>2. e.id = a.id
    BY <2>1 DEF EntryInv, CallsInv, BootInv
  <2>3. sweepAt' = {} /\ status' = status
    BY <1>8 DEF SweepSends
  <2>4. CASE EnqueueFull(e)
    BY <2>1, <2>3, <2>4, SchedulerAssumption DEF EnqueueFull, EnqueueSend
  <2>5. CASE EnqueueSend(e)
    <3>1. sweep' \subseteq sweep
      BY <2>1
    <3>2. \A f \in sweep : f # a.id
      OBVIOUS
    <3>3. \A f \in sweep : Held(f)' = {}
      BY <2>2, <2>5, <3>2, HeldSend
    <3> QED BY <2>3, <3>1, <3>3
  <2> QED BY <2>1, <2>4, <2>5
<1>9. CASE NewProcess
  <2>1. Restart /\ sweepAt' = {} /\ status' = status
    BY <1>9 DEF NewProcess
  <2>2. \A f : Held(f)' = {}
    BY <2>1, HeldRestart
  <2> QED BY <1>9, <2>1, <2>2 DEF NewProcess
<1>10. CASE StopHttp \/ StartHttp \/ UNCHANGED vars
  <2>1. UNCHANGED <<schedVars, status, sweep, sweepAt>>
    BY <1>10 DEF StopHttp, StartHttp, vars, lifeVars, bootVars, storeVars
  <2>2. \A g : Held(g)' = Held(g)
    BY <2>1 DEF Held, schedVars, Tickets
  <2> QED BY <2>1, <2>2
<1>11. CASE SweepFails
  BY <1>11 DEF SweepFails
<1> QED BY <1>2, <1>3, <1>4, <1>5, <1>6, <1>7, <1>8, <1>9, <1>10, <1>11 DEF Next, EngineStep,
       SweepStep

-----------------------------------------------------------------------------
(* The runs.                                                                *)

\* What a step of a run does: it begins, it goes on, or it returns, having
\* written the outcome unless a store call failed.
LEMMA RunCase ==
  ASSUME TypeOK, LifeTypeOK, NEW r \in running, RunStep(r)
  PROVE  \/ /\ phase[r.worker] = "load" /\ status' = status /\ unsaved' = unsaved
            /\ \/ JobFailed(r)
               \/ UNCHANGED schedVars /\ status[r.job.workflowID] \notin Terminal
         \/ /\ Engaged(r) /\ Engaged(r)' /\ UNCHANGED schedVars
            /\ \/ status' = status
               \/ \E s \in {"running", "cancelled"} : Write(r.job.workflowID, s)
            /\ unsaved' = unsaved \/ unsaved' = unsaved \ {r.job.workflowID}
         \/ /\ Engaged(r) /\ unsaved' = unsaved
            /\ JobDone(r) \/ JobFailed(r)
            /\ \E s \in {"completed", "cancelled", "failed"} : Write(r.job.workflowID, s)
         \/ /\ Engaged(r) /\ JobFailed(r)
            /\ unsaved' = unsaved \cup {r.job.workflowID}
            /\ status' = status \/ \E s \in Statuses : Write(r.job.workflowID, s)
<1>0. ASSUME NEW p, Goto(r.worker, p) PROVE phase'[r.worker] = p
  BY <1>0, RunFields DEF Goto, LifeTypeOK
<1> USE <1>0 DEF Proceed, Return, ReturnUnsaved, At, Engaged, SaveFails, storeVars, Statuses
<1>1. CASE RunLoad(r)
  BY <1>1 DEF RunLoad
<1>2. CASE RunStart(r)
  BY <1>2 DEF RunStart
<1>3. CASE RunCheck(r)
  BY <1>3 DEF RunCheck
<1>4. CASE RunSave(r)
  BY <1>4 DEF RunSave
<1>5. CASE RunPhasesReturn(r)
  BY <1>5 DEF RunPhasesReturn
<1>6. CASE RunFinalCheck(r)
  BY <1>6 DEF RunFinalCheck
<1>7. CASE RunComplete(r)
  BY <1>7 DEF RunComplete
<1>8. CASE RunCancel(r)
  BY <1>8 DEF RunCancel
<1>9. CASE RunFail(r)
  BY <1>9 DEF RunFail
<1> QED BY <1>1, <1>2, <1>3, <1>4, <1>5, <1>6, <1>7, <1>8, <1>9 DEF RunStep

\* The other runs stay where they are.
LEMMA RunOthers ==
  ASSUME TypeOK, LifeTypeOK, OneJobPerWorker, NEW r \in running, RunStep(r)
  PROVE  /\ running' \subseteq running
         /\ \A s \in running \ {r} : s \in running' /\ phase'[s.worker] = phase[s.worker]
<1>1. \E p : Goto(r.worker, p)
  BY RunWrites
<1>2. \A s \in running \ {r} : s.worker # r.worker /\ s.worker \in Workers
  BY RunFields DEF OneJobPerWorker
<1>3. \A s \in running \ {r} : phase'[s.worker] = phase[s.worker]
  BY <1>1, <1>2, RunFields DEF Goto, LifeTypeOK
<1>4. running' = running \/ running' = running \ {r}
  BY RunCase DEF JobDone, JobFailed, schedVars
<1> QED BY <1>3, <1>4

\* A worker that takes a job was not running one.
LEMMA TakesOthers ==
  ASSUME TypeOK, LifeTypeOK, NEW w \in Workers, WorkerTakes(w)
  PROVE  /\ \A s \in running : s \in running' /\ phase'[s.worker] = phase[s.worker]
         /\ \A s \in running' \ running : phase'[s.worker] = "load"
         /\ status' = status
<1>1. \A s \in running : s.worker # w /\ s.worker \in Workers
  BY RunFields DEF WorkerTakes, TakeJob, Idle
<1>2. running' = running \cup {[worker |-> w, job |-> Head(queue)]}
  BY DEF WorkerTakes, TakeJob
<1>3. phase' = [phase EXCEPT ![w] = "load"] /\ status' = status
  BY DEF WorkerTakes, Goto
<1> QED BY <1>1, <1>2, <1>3 DEF LifeTypeOK

\* The steps of the engine that are not steps of a run or the take of a job.
LEMMA QuietEngine ==
  ASSUME EngineStep, \A w \in Workers : ~WorkerTakes(w), \A r \in running : ~RunStep(r)
  PROVE  UNCHANGED <<status, phase, running, unsaved>>
BY DEF EngineStep, WorkerExits, WorkerExit, Retry, RetryStep, RetrySend, RetryGiveUp, StopScheduler,
       ShutdownNext, CancelCtx, CloseDone, ShutdownReturn, ShutdownTimeout, ShutdownStep, lifeVars,
       storeVars

\* Nobody engages in the run of a completed or cancelled row ...
LEMMA EngagedShrinks ==
  ASSUME TypeOK, LifeTypeOK, OneJobPerWorker, EngineStep, NEW f, status[f] \in Terminal
  PROVE  EngagedRuns(f)' \subseteq EngagedRuns(f)
<1> USE DEF EngagedRuns, RunsOf, Engaged
<1>1. ASSUME NEW w \in Workers, WorkerTakes(w) PROVE EngagedRuns(f)' \subseteq EngagedRuns(f)
  BY <1>1, TakesOthers
<1>2. ASSUME NEW r \in running, RunStep(r) PROVE EngagedRuns(f)' \subseteq EngagedRuns(f)
  <2>1. r \in EngagedRuns(f)' => r \in EngagedRuns(f)
    <3>1. CASE Engaged(r)
      BY <3>1
    <3>2. CASE phase[r.worker] = "load" /\ JobFailed(r)
      BY <3>2 DEF JobFailed
    <3>3. CASE status[r.job.workflowID] \notin Terminal
      BY <3>3
    <3>4. \/ Engaged(r)
          \/ phase[r.worker] = "load" /\ JobFailed(r)
          \/ status[r.job.workflowID] \notin Terminal
      BY <1>2, RunCase
    <3> QED BY <3>1, <3>2, <3>3, <3>4
  <2> QED BY <1>2, <2>1, RunOthers
<1>3. CASE UNCHANGED <<status, phase, running>>
  BY <1>3
<1> QED BY <1>1, <1>2, <1>3, QuietEngine

\* ... and only engaged runs write.
LEMMA EngineWrites ==
  ASSUME TypeOK, LifeTypeOK, EngineStep, NEW f \in Workflows, status'[f] # status[f]
  PROVE  EngagedRuns(f) # {}
<1>1. ASSUME NEW w \in Workers, WorkerTakes(w) PROVE FALSE
  BY <1>1, TakesOthers
<1>2. PICK r \in running : RunStep(r)
  BY <1>1, QuietEngine
<1>3. Engaged(r) /\ \E s : Write(r.job.workflowID, s)
  BY <1>2, RunCase
<1>4. r.job.workflowID = f
  BY <1>3 DEF Write, LifeTypeOK
<1> QED BY <1>3, <1>4 DEF EngagedRuns, RunsOf

-----------------------------------------------------------------------------
(* A row that says running has a run behind it.                             *)

RunnerInv ==
  shut = "up" =>
    \A f \in Workflows \ (edited \cup abandoned \cup unsaved) :
      status[f] = "running" => f \in sweep \/ \E r \in RunsOf(f) : Engaged(r)

LEMMA RunnerInit == Init => RunnerInv
BY DEF Init, RunnerInv

LEMMA RunnerStep ==
  ASSUME TypeOK, LifeTypeOK, OneJobPerWorker, RunnerInv, [Next]_vars
  PROVE  RunnerInv'
<1> USE DEF RunnerInv
<1>1. ASSUME shut' = shut, running' = running, phase' = phase,
             edited \cup abandoned \subseteq edited' \cup abandoned', unsaved' = unsaved,
             \A f \in Workflows \ (edited' \cup abandoned') :
               status'[f] = "running" => status[f] = "running" /\ (f \in sweep => f \in sweep')
      PROVE  RunnerInv'
  BY <1>1 DEF RunsOf, Engaged
<1>2. CASE EngineStep
  <2>0. UNCHANGED <<edited, abandoned, sweep>>
    BY <1>2, EngineFrame DEF apiVars, bootVars, storeVars
  <2>1. CASE \E w \in Workers : WorkerTakes(w)
    <3>1. PICK w \in Workers : WorkerTakes(w)
      BY <2>1
    <3>2. shut' = shut /\ unsaved' = unsaved
      BY <3>1 DEF WorkerTakes, TakeJob, storeVars
    <3> QED BY <2>0, <3>1, <3>2, TakesOthers DEF RunsOf, Engaged
  <2>2. CASE \E r \in running : RunStep(r)
    <3>1. PICK r \in running : RunStep(r)
      BY <2>2
    <3>2. ASSUME NEW f \in Workflows \ (edited \cup abandoned), f \notin unsaved',
                 shut' = "up", status'[f] = "running"
          PROVE  f \in sweep \/ \E s \in RunsOf(f)' : Engaged(s)'
      <4>0. shut = "up" /\ r.job.workflowID \in Workflows
        BY <3>1, <3>2, RunSchedules, RunFields DEF JobDone, JobFailed, schedVars
      <4>1. CASE r.job.workflowID # f
        <5>1. status'[f] = status[f] /\ f \notin unsaved
          BY <3>1, <3>2, <4>1, RunWrites DEF Write, LifeTypeOK
        <5> QED BY <3>1, <3>2, <4>0, <4>1, <5>1, RunOthers DEF RunsOf, Engaged
      <4>2. CASE r.job.workflowID = f /\ ~Engaged(r)
        <5>1. status' = status /\ unsaved' = unsaved
          BY <3>1, <4>2, RunCase
        <5> QED BY <3>1, <3>2, <4>0, <4>2, <5>1, RunOthers DEF RunsOf, Engaged
      <4>3. CASE r.job.workflowID = f /\ Engaged(r)
        <5>1. ~ \E s \in {"completed", "cancelled", "failed"} : Write(r.job.workflowID, s)
          BY <3>2, <4>0, <4>3 DEF Write, LifeTypeOK
        <5>2. unsaved' # unsaved \cup {r.job.workflowID}
          BY <3>2, <4>3
        <5>3. phase[r.worker] # "load"
          BY <4>3 DEF Engaged
        <5>4. Engaged(r)' /\ UNCHANGED schedVars
          BY <3>1, <5>1, <5>2, <5>3, RunCase
        <5> QED BY <4>3, <5>4 DEF RunsOf, schedVars
      <4> QED BY <4>1, <4>2, <4>3
    <3> QED BY <2>0, <3>2
  <2>3. CASE UNCHANGED <<status, phase, running, unsaved>>
    <3>1. ASSUME NEW r \in running, RunStep(r) PROVE shut' = shut
      BY <3>1, RunSchedules DEF JobDone, JobFailed, schedVars
    <3>2. shut' = "up" => shut = "up"
      BY <1>2, <3>1 DEF EngineStep, WorkerTakes, WorkerExits, TakeJob, WorkerExit, Retry, RetryStep,
           RetrySend, RetryGiveUp, StopScheduler, ShutdownNext, CancelCtx, CloseDone,
           ShutdownReturn,
           ShutdownTimeout, ShutdownStep
    <3> QED BY <2>0, <2>3, <3>2 DEF RunsOf, Engaged
  <2> QED BY <1>2, <2>1, <2>2, <2>3, QuietEngine
<1>3. ASSUME NEW c \in Clients, NEW f \in Workflows, Request(c, f) PROVE RunnerInv'
  <2>1. status' = status \/ Write(f, "pending")
    BY <1>3 DEF Request, CreateRow, ReadForCancel, ReadForResume, ReadForPlanning
  <2>2. \A g \in Workflows : status'[g] = "running" => status[g] = "running"
    BY <2>1 DEF Write, LifeTypeOK
  <2> QED BY <1>1, <1>3, <2>2, RequestFrame DEF schedVars, bootVars, storeVars
<1>4. ASSUME NEW c \in Clients, HandlerStep(c) PROVE RunnerInv'
  <2>1. /\ edited \subseteq edited'
        /\ \A f \in Workflows \ edited' : status'[f] = "running" => status[f] = "running"
    BY <1>4, HandlerCase, HandlerFrame DEF Write, LifeTypeOK
  <2>2. UNCHANGED <<shut, running, phase, sweep, abandoned, unsaved>>
    BY <1>4, HandlerCase, HandlerFrame DEF EnqueueCheck, EnqueueSend, EnqueueFull, schedVars,
           bootVars, storeVars
  <2> QED BY <1>1, <2>1, <2>2
<1>5. CASE SweepStep
  <2>0. UNCHANGED <<shut, running, phase, edited, unsaved>>
    BY <1>5 DEF SweepStep, SweepPause, SweepSetPending, SweepFails, SweepEnqueues, SweepSends,
           EnqueueCheck,
                EnqueueSend, EnqueueFull, schedVars, apiVars, storeVars
  <2>1. CASE SweepPause
    <3>1. PICK f \in sweep : Write(f, "paused") /\ sweep' = sweep \ {f}
      BY <2>1 DEF SweepPause
    <3>2. \A g \in Workflows :
            status'[g] = "running" => status[g] = "running" /\ (g \in sweep => g \in sweep')
      BY <3>1 DEF Write, LifeTypeOK
    <3> QED BY <1>1, <2>0, <2>1, <3>2 DEF SweepPause
  <2>2. CASE SweepSetPending
    <3>1. PICK a \in sweepAt : Write(a.id, "pending")
      BY <2>2 DEF SweepSetPending
    <3>2. \A g \in Workflows : status'[g] = "running" => status[g] = "running"
      BY <3>1 DEF Write, LifeTypeOK
    <3> QED BY <1>1, <2>0, <2>2, <3>2 DEF SweepSetPending
  <2>3. CASE SweepEnqueues
    BY <1>1, <2>0, <2>3 DEF SweepEnqueues
  <2>4. CASE SweepSends
    <3>1. \/ sweep' = sweep /\ abandoned' = abandoned
          \/ sweep' = {} /\ abandoned' = abandoned \cup sweep
      BY <2>4 DEF SweepSends
    <3>2. status' = status
      BY <2>4 DEF SweepSends
    <3> QED BY <1>1, <2>0, <3>1, <3>2
  <2>5. CASE SweepFails
    <3>1. \A g \in Workflows : status'[g] = "running" => status[g] = "running"
      BY <2>5 DEF SweepFails, Write, LifeTypeOK
    <3>2. abandoned' = abandoned \cup sweep
      BY <2>5 DEF SweepFails
    <3> QED BY <1>1, <2>0, <3>1, <3>2
  <2> QED BY <1>5, <2>1, <2>2, <2>3, <2>4, <2>5 DEF SweepStep
<1>6. CASE NewProcess
  BY <1>6 DEF NewProcess
<1>7. CASE StopHttp \/ StartHttp \/ UNCHANGED vars
  BY <1>1, <1>7 DEF StopHttp, StartHttp, vars, schedVars, lifeVars, apiVars, bootVars, storeVars
<1> QED BY <1>2, <1>3, <1>4, <1>5, <1>6, <1>7 DEF Next, EngineStep

\* Once the process serves, the sweep is over.
LEMMA RunnerIsBehind == RunnerInv /\ BootInv => RunningRowHasRunner
BY DEF RunnerInv, BootInv, Sweeping, Up, RunningRowHasRunner

(* What every reachable state of the server satisfies.                       *)
LifeInv ==
  TypeOK /\ LifeTypeOK /\ OneJobPerWorker /\ TicketInOnePlace /\ EntryInv /\ RecoveryInv /\ RunnerInv

LEMMA LifeInvariant == Spec => []LifeInv
<1>1. Spec => []TypeOK /\ []OneJobPerWorker /\ []TicketInOnePlace
  BY LifecycleUsesScheduler, TypeCorrect, WorkersRunOneJob, TicketsAreUnique, PTL
<1>2. Spec => []EntryInv
  BY <1>1, EntryInit, EntryStep, LifecycleTypeCorrect, PTL DEF Spec
<1>3. TypeOK /\ LifeTypeOK /\ EntryInv /\ RecoveryInv /\ [Next]_vars => RecoveryInv'
  BY RecoveryStep
<1>4. Spec => []RecoveryInv
  BY <1>1, <1>2, <1>3, RecoveryInit, LifecycleTypeCorrect, PTL DEF Spec
<1>5. TypeOK /\ LifeTypeOK /\ OneJobPerWorker /\ RunnerInv /\ [Next]_vars => RunnerInv'
  BY RunnerStep
<1>6. Spec => []RunnerInv
  BY <1>1, <1>5, RunnerInit, LifecycleTypeCorrect, PTL DEF Spec
<1> QED BY <1>1, <1>2, <1>4, <1>6, LifecycleTypeCorrect, PTL DEF LifeInv

\* While the process serves, a row that says running has a run that will write
\* it again, whatever is cancelled, retried, crashes or is run twice, with any
\* number of clients, failing store calls and any retry budget; but for a row
\* whose last run could not store its outcome, one an aborted sweep did not come
\* to and one a racing planning edit wrote over.
THEOREM RunningRowsAreRun == Spec => []RunningRowHasRunner
<1>1. LifeInv => RunningRowHasRunner
  BY RunnerIsBehind DEF LifeInv, EntryInv
<1> QED BY <1>1, LifeInvariant, PTL

-----------------------------------------------------------------------------
(* A cancelled row.                                                         *)

LEMMA CancelledStep ==
  ASSUME LifeInv, Next, NEW f \in Workflows, status[f] = "cancelled", restarts' = restarts
  PROVE  IF status'[f] = "cancelled"
         THEN EngagedRuns(f)' \subseteq EngagedRuns(f) /\ Editors(f)' \subseteq Editors(f)
         ELSE EngagedRuns(f) # {} \/ Editors(f) # {}
<1> USE DEF LifeInv, EntryInv
<1>1. ASSUME UNCHANGED <<running, phase>> PROVE EngagedRuns(f)' = EngagedRuns(f)
  BY <1>1 DEF EngagedRuns, RunsOf, Engaged
<1>2. ASSUME UNCHANGED handler PROVE Editors(f)' = Editors(f)
  BY <1>2 DEF Editors
<1>3. CASE EngineStep
  <2>1. EngagedRuns(f)' \subseteq EngagedRuns(f)
    BY <1>3, EngagedShrinks DEF Terminal
  <2>2. Editors(f)' = Editors(f)
    BY <1>2, <1>3, EngineFrame DEF apiVars
  <2>3. status'[f] # "cancelled" => EngagedRuns(f) # {}
    BY <1>3, EngineWrites
  <2> QED BY <2>1, <2>2, <2>3
<1>4. ASSUME NEW c \in Clients, NEW g \in Workflows, Request(c, g)
      PROVE  status'[f] = "cancelled" /\ EngagedRuns(f)' = EngagedRuns(f)
             /\ Editors(f)' \subseteq Editors(f)
  <2>1. status'[f] = "cancelled"
    BY <1>4, RequestHandler DEF Request, CreateRow, ReadForCancel, ReadForResume, ReadForPlanning,
                                Write, LifeTypeOK
  <2>2. EngagedRuns(f)' = EngagedRuns(f)
    BY <1>1, <1>4, RequestFrame DEF schedVars
  <2>3. handler'[c].id = f => handler'[c] = NoRequest \/ handler'[c].seen = "cancelled"
    BY <1>4, RequestHandler DEF Terminal, Resumable
  <2> QED BY <1>4, <2>1, <2>2, <2>3, RequestHandler DEF Editors
<1>5. ASSUME NEW c \in Clients, HandlerStep(c)
      PROVE  IF status'[f] = "cancelled"
             THEN EngagedRuns(f)' = EngagedRuns(f) /\ Editors(f)' \subseteq Editors(f)
             ELSE Editors(f) # {}
  <2>1. UNCHANGED <<running, phase>>
    BY <1>5, HandlerCase, HandlerFrame DEF EnqueueCheck, EnqueueSend, EnqueueFull, schedVars
  <2>2. handler[c].op \in {"resume", "enqueue", "send"} => handler[c].seen # "cancelled"
    BY DEF HandlerInv, Resumable
  <2>3. handler[c].id # f => status'[f] = status[f] /\ c \notin Editors(f)'
    <3>1. status' = status \/ \E s : Write(handler[c].id, s)
      BY <1>5, HandlerCase
    <3>2. \/ handler'[c] = NoRequest
          \/ handler'[c] = [op |-> "enqueue", id |-> handler[c].id, seen |-> "pending"]
          \/ handler'[c] = [op |-> "send", id |-> handler[c].id, seen |-> "pending"]
      BY <1>5, HandlerCase
    <3>3. handler'[c] = NoRequest \/ handler'[c].id = handler[c].id
      BY <3>2
    <3>4. handler[c].id # f => status'[f] = status[f]
      BY <3>1 DEF Write, LifeTypeOK
    <3> QED BY <3>3, <3>4 DEF Editors
  <2>4. handler[c].id = f /\ handler[c].seen = "cancelled"
          => status'[f] = "cancelled" /\ c \notin Editors(f)'
    BY <1>5, <2>2, HandlerCase, HandlerFrame DEF Write, LifeTypeOK, Editors
  <2>5. handler[c].id = f /\ handler[c].seen # "cancelled" => c \in Editors(f)
    BY <1>5, HandlerFrame DEF Editors
  <2>6. \A d \in Clients \ {c} : d \in Editors(f)' => d \in Editors(f)
    BY <1>5, HandlerFrame DEF Editors
  <2>7. Editors(f)' \subseteq Clients
    BY DEF Editors
  <2> QED BY <1>1, <2>1, <2>3, <2>4, <2>5, <2>6, <2>7
<1>6. ASSUME SweepStep
      PROVE  status'[f] = "cancelled" /\ EngagedRuns(f)' = EngagedRuns(f)
             /\ Editors(f)' = Editors(f)
  <2>1. UNCHANGED <<running, phase, handler>>
    BY <1>6 DEF SweepStep, SweepPause, SweepSetPending, SweepFails, SweepEnqueues, SweepSends,
           EnqueueCheck,
                EnqueueSend, EnqueueFull, schedVars, apiVars
  <2>2. EngagedRuns(f)' = EngagedRuns(f) /\ Editors(f)' = Editors(f)
    BY <1>1, <1>2, <2>1
  <2>3. ASSUME SweepPause PROVE status'[f] = "cancelled"
    <3>1. PICK g \in sweep : Write(g, "paused")
      BY <2>3 DEF SweepPause
    <3> QED BY <3>1 DEF RecoveryInv, Write, LifeTypeOK
  <2>4. ASSUME SweepSetPending PROVE status'[f] = "cancelled"
    <3>1. PICK a \in sweepAt : a.step = "paused" /\ Write(a.id, "pending")
      BY <2>4 DEF SweepSetPending
    <3>2. status[a.id] = "paused"
      BY <3>1 DEF RecoveryInv, SweepStatus
    <3> QED BY <3>1, <3>2 DEF Write, LifeTypeOK
  <2>5. ASSUME SweepEnqueues \/ SweepSends PROVE status'[f] = "cancelled"
    BY <2>5 DEF SweepEnqueues, SweepSends
  <2>6. ASSUME SweepFails PROVE status'[f] = "cancelled"
    <3>1. CASE status' = status
      BY <3>1
    <3>2. CASE \E g \in sweep : Write(g, "paused")
      BY <3>2 DEF RecoveryInv, Write, LifeTypeOK
    <3>3. CASE \E a \in sweepAt : a.step = "paused" /\ Write(a.id, "pending")
      BY <3>3 DEF RecoveryInv, SweepStatus, Write, LifeTypeOK
    <3> QED BY <2>6, <3>1, <3>2, <3>3 DEF SweepFails
  <2> QED BY <1>6, <2>2, <2>3, <2>4, <2>5, <2>6 DEF SweepStep
<1>7. CASE NewProcess
  BY <1>7 DEF NewProcess, LifeTypeOK
<1>8. CASE StopHttp \/ StartHttp
  BY <1>1, <1>2, <1>8 DEF StopHttp, StartHttp, schedVars
<1> QED BY <1>3, <1>4, <1>5, <1>6, <1>7, <1>8 DEF Next, EngineStep

\* However many clients, workers and retries there are, only a run or a handler
\* that read the row before it was cancelled overwrites a cancelled row, and
\* nobody joins them while it is cancelled.
THEOREM CancelledRowsStay == Spec => CancelledRowNotRevived
<1> DEFINE Kept ==
      \A f \in Workflows :
        status[f] = "cancelled" /\ restarts' = restarts =>
          IF status'[f] = "cancelled"
          THEN EngagedRuns(f)' \subseteq EngagedRuns(f) /\ Editors(f)' \subseteq Editors(f)
          ELSE EngagedRuns(f) # {} \/ Editors(f) # {}
<1>1. LifeInv /\ [Next]_vars => [Kept]_vars
  BY CancelledStep
<1>2. Spec => [][Kept]_vars
  <2> HIDE DEF Kept
  <2> QED BY <1>1, LifeInvariant, PTL DEF Spec
<1> QED BY <1>2 DEF CancelledRowNotRevived

-----------------------------------------------------------------------------
(* One owner of a row.  Without scheduler retries, and as long as no two     *)
(* handlers are resuming one row at a time, a row is in the hands of one     *)
(* handler that is about to enqueue it, or of the one job the scheduler      *)
(* holds, or of nobody.                                                      *)

Owning == {"resume", "enqueue", "send"}
SerialResumes ==
  \A c, d \in Clients :
    /\ handler[c].op \in Owning
    /\ handler[d].op \in Owning
    /\ handler[c].id = handler[d].id
    => c = d

Unowned == {"absent", "completed"} \cup Resumable
OwnedStatus(op) == {"cancelled"} \cup (IF op = "resume" THEN Resumable ELSE {"pending"})
Owner(f) ==
  /\ \A t, u \in Held(f) : t = u
  /\ status[f] \in Unowned => Held(f) = {}
  /\ \A c \in Clients :
       handler[c].id = f /\ handler[c].op \in Owning =>
         Held(f) = {} /\ status[f] \in OwnedStatus(handler[c].op)

OwnerInv == retrying = {} /\ \A f \in Workflows \ edited : Owner(f)

LEMMA OwnerInit == Init => OwnerInv
<1> SUFFICES ASSUME Init PROVE OwnerInv
  OBVIOUS
<1>1. \A f : Held(f) = {}
  BY HeldInit DEF Init
<1> QED BY <1>1 DEF Init, SchedInit, OwnerInv, Owner, Owning, NoRequest

\* No retry goroutine is ever started.
LEMMA NoRetryStep ==
  ASSUME MaxRetries = 0, TypeOK, retrying = {}, [SchedNext]_schedVars
  PROVE  retrying' = {}
<1>1. ASSUME NEW r \in running PROVE ~RetryLeft(r.job)
  <2>1. r.job.attempt \in 0..0
    BY RunFields, JobFields DEF Attempts, Unlimited
  <2> QED BY <2>1 DEF RetryLeft, Unlimited
<1>2. ASSUME NEW r \in running, JobDone(r) \/ JobFailed(r) PROVE retrying' = {}
  BY <1>1, <1>2 DEF JobDone, JobFailed
<1> QED BY <1>2 DEF SchedNext, EnqueueCheck, EnqueueSend, EnqueueFull, TakeJob, WorkerExit,
       RetryStep,
           RetrySend, RetryGiveUp, ShutdownNext, CancelCtx, CloseDone, ShutdownReturn,
           ShutdownTimeout, ShutdownStep, Restart, schedVars

LEMMA OwnerKept ==
  ASSUME NEW f, Owner(f), status'[f] = status[f], Held(f)' \subseteq Held(f),
         \A c \in Clients :
           handler'[c].id = f /\ handler'[c].op \in Owning => handler'[c] = handler[c]
  PROVE  Owner(f)'
BY DEF Owner

LEMMA OwnerEngine ==
  ASSUME MaxRetries = 0, LifeInv, OwnerInv, EngineStep, NEW f \in Workflows, Owner(f)
  PROVE  Owner(f)'
<1> USE DEF LifeInv
<1>1. handler' = handler /\ Held(f)' \subseteq Held(f)
  BY EngineFrame, EngineSchedNext, HeldShrinks DEF apiVars
<1>2. CASE status'[f] = status[f]
  BY <1>1, <1>2, OwnerKept
<1>3. CASE status'[f] # status[f]
  <2>1. Held(f) # {}
    BY <1>3, EngineKeeps
  <2>2. PICK r \in running : RunStep(r)
    BY <1>3, QuietEngine, TakesOthers
  <2>3. r.job.workflowID = f /\ r.job.ticket \in Held(f)
    <3>1. \E s : Write(r.job.workflowID, s)
      BY <1>3, <2>2, RunCase
    <3> QED BY <1>3, <3>1, HeldRun DEF Write, LifeTypeOK
  <2>4. CASE \E s \in {"running", "cancelled"} : Write(f, s)
    BY <1>1, <2>1, <2>4 DEF Owner, Unowned, Resumable, Write, LifeTypeOK
  <2>5. CASE JobDone(r) \/ JobFailed(r)
    <3>1. retrying' = retrying
      BY <2>5, NoRetryStep, EngineSchedNext DEF OwnerInv
    <3>2. Held(f)' \subseteq Held(f) \ {r.job.ticket}
      BY <2>5, <3>1, HeldReturn
    <3>3. Held(f)' = {}
      BY <2>3, <3>2 DEF Owner
    <3> QED BY <1>1, <2>1, <3>3 DEF Owner
  <2> QED BY <1>3, <2>2, <2>3, <2>4, <2>5, RunCase
<1> QED BY <1>2, <1>3

LEMMA OwnerRequest ==
  ASSUME LifeInv, NEW c \in Clients, NEW g \in Workflows, Request(c, g),
         NEW f \in Workflows, Owner(f)
  PROVE  Owner(f)'
<1> USE DEF LifeInv
<1>1. Held(f)' = Held(f)
  BY RequestFrame DEF Held, schedVars, Tickets
<1>2. \A d \in Clients : d # c => handler'[d] = handler[d]
  BY RequestHandler
<1>3. CASE status' = status
  <2>1. handler'[c].id = f /\ handler'[c].op \in Owning => status[f] \in Resumable /\ handler'[c].op = "resume"
    <3>1. \/ handler'[c] = NoRequest
          \/ handler'[c].id = g /\ handler'[c].op \in {"cancel", "planning"}
          \/ handler'[c].id = g /\ handler'[c].op = "resume" /\ status[g] \in Resumable
      BY <1>3, RequestHandler DEF Write, LifeTypeOK
    <3> QED BY <3>1 DEF Owning, NoRequest
  <2> QED BY <1>1, <1>2, <1>3, <2>1 DEF Owner, OwnedStatus, Unowned
<1>4. CASE status' # status
  <2>1. Write(g, "pending") /\ status[g] = "absent"
    BY <1>4 DEF Request, CreateRow, ReadForCancel, ReadForResume, ReadForPlanning
  <2>2. /\ handler'[c] = NoRequest \/ handler'[c].id = g
        /\ handler'[c].op \in Owning => handler'[c].op = "enqueue"
    BY <1>4, <2>1, RequestHandler DEF NoRequest, Owning
  <2>3. CASE g = f
    <3>1. Held(f) = {} /\ status'[f] = "pending"
      BY <2>1, <2>3 DEF Owner, Unowned, Write, LifeTypeOK
    <3>2. \A d \in Clients : handler[d].id = f => handler[d].op \notin Owning
      BY <2>1, <2>3 DEF Owner, OwnedStatus, Resumable
    <3> QED BY <1>1, <1>2, <2>2, <3>1, <3>2 DEF Owner, OwnedStatus, Unowned, Resumable
  <2>4. CASE g # f
    <3>1. status'[f] = status[f]
      BY <2>1, <2>4 DEF Write, LifeTypeOK
    <3>2. handler'[c].id = f => handler'[c].op \notin Owning
      BY <2>2, <2>4 DEF NoRequest, Owning
    <3> QED BY <1>1, <1>2, <3>1, <3>2, OwnerKept
  <2> QED BY <2>3, <2>4
<1> QED BY <1>3, <1>4

LEMMA OwnerHandler ==
  ASSUME LifeInv, SerialResumes, NEW c \in Clients, HandlerStep(c),
         NEW f \in Workflows \ edited', Owner(f)
  PROVE  Owner(f)'
<1> USE DEF LifeInv
<1>1. \A d \in Clients : d # c => handler'[d] = handler[d]
  BY HandlerFrame
<1>2. handler[c].op \in Owning /\ handler[c].id = f =>
        \A d \in Clients \ {c} : handler[d].id = f => handler[d].op \notin Owning
  BY DEF SerialResumes
<1>3. ASSUME UNCHANGED schedVars PROVE Held(f)' = Held(f)
  BY <1>3 DEF Held, schedVars, Tickets
<1>4. CASE handler[c].op = "cancel" /\ Write(handler[c].id, "cancelled")
           /\ handler'[c] = NoRequest /\ UNCHANGED schedVars
  <2>1. status'[f] = status[f] \/ status'[f] = "cancelled"
    BY <1>4 DEF Write, LifeTypeOK
  <2>2. handler'[c].op \notin Owning
    BY <1>4 DEF NoRequest, Owning
  <2> QED BY <1>1, <1>3, <1>4, <2>1, <2>2 DEF Owner, OwnedStatus, Unowned, Resumable
<1>5. CASE handler[c].op = "resume" /\ Write(handler[c].id, "pending") /\ UNCHANGED schedVars
           /\ handler'[c] = [op |-> "enqueue", id |-> handler[c].id, seen |-> "pending"]
  <2>1. CASE handler[c].id = f
    <3>1. Held(f) = {} /\ status'[f] = "pending"
      BY <1>5, <2>1 DEF Owner, Owning, Write, LifeTypeOK
    <3>2. \A d \in Clients \ {c} : handler'[d].id = f => handler'[d].op \notin Owning
      BY <1>1, <1>2, <1>5, <2>1 DEF Owning
    <3> QED BY <1>3, <1>5, <3>1, <3>2 DEF Owner, OwnedStatus, Unowned, Resumable
  <2>2. CASE handler[c].id # f
    <3>1. status'[f] = status[f] /\ handler'[c].id # f
      BY <1>5, <2>2 DEF Write, LifeTypeOK
    <3> QED BY <1>1, <1>3, <1>5, <3>1, OwnerKept
  <2> QED BY <2>1, <2>2
<1>6. CASE /\ handler[c].op = "planning" /\ Write(handler[c].id, handler[c].seen)
           /\ edited' = edited \cup {g \in {handler[c].id} : status[g] # handler[c].seen}
           /\ handler'[c] = NoRequest /\ UNCHANGED schedVars
  <2>1. status'[f] = status[f]
    BY <1>6 DEF Write, LifeTypeOK
  <2>2. handler'[c].op \notin Owning
    BY <1>6 DEF NoRequest, Owning
  <2> QED BY <1>1, <1>3, <1>6, <2>1, <2>2, OwnerKept
<1>7. CASE handler[c].op = "enqueue" /\ status' = status /\ EnqueueCheck(c, handler[c].id)
           /\ handler'[c] = [op |-> "send", id |-> handler[c].id, seen |-> "pending"]
  <2>1. Held(f)' = Held(f)
    BY <1>7 DEF EnqueueCheck, Held, Tickets
  <2> QED BY <1>1, <1>7, <2>1 DEF Owner, Owning, OwnedStatus
<1>8. CASE handler[c].op = "enqueue" /\ status' = status /\ handler'[c] = NoRequest
           /\ UNCHANGED schedVars
  <2>2. handler'[c].op \notin Owning
    BY <1>8 DEF NoRequest, Owning
  <2> QED BY <1>1, <1>3, <1>8, <2>2, OwnerKept
<1>9. CASE handler[c].op = "send" /\ status' = status /\ handler'[c] = NoRequest
           /\ \E e \in entering : e.caller = c /\ (EnqueueSend(e) \/ EnqueueFull(e))
  <2>1. PICK e \in entering : e.caller = c /\ (EnqueueSend(e) \/ EnqueueFull(e))
    BY <1>9
  <2>2. e.id = handler[c].id
    BY <2>1 DEF EntryInv, CallsInv, Clients
  <2>3. handler'[c].op \notin Owning
    BY <1>9 DEF NoRequest, Owning
  <2>4. CASE EnqueueSend(e) /\ e.id = f
    <3>1. Held(f) = {} /\ status[f] \in OwnedStatus("send")
      BY <1>9, <2>2, <2>4 DEF Owner, Owning
    <3>2. Held(f)' \subseteq {issued + 1}
      BY <2>4, <3>1, HeldSend
    <3>3. \A d \in Clients : handler'[d].id = f => handler'[d].op \notin Owning
      BY <1>1, <1>2, <1>9, <2>2, <2>3, <2>4 DEF Owning
    <3> QED BY <1>9, <3>1, <3>2, <3>3 DEF Owner, OwnedStatus, Unowned, Resumable
  <2>5. CASE EnqueueFull(e) \/ e.id # f
    <3>1. Held(f)' \subseteq Held(f)
      <4>1. CASE EnqueueFull(e)
        BY <4>1 DEF EnqueueFull, Held, Tickets
      <4>2. CASE EnqueueSend(e) /\ e.id # f
        BY <4>2, HeldSend
      <4> QED BY <2>1, <2>5, <4>1, <4>2
    <3> QED BY <1>1, <1>9, <2>3, <3>1, OwnerKept
  <2> QED BY <2>1, <2>4, <2>5
<1>10. CASE handler[c].op \in {"cancel", "resume", "planning"} /\ status' = status
            /\ handler'[c] = NoRequest /\ UNCHANGED schedVars
  <2>1. handler'[c].op \notin Owning
    BY <1>10 DEF NoRequest, Owning
  <2> QED BY <1>1, <1>3, <1>10, <2>1, OwnerKept
<1>11. CASE handler[c].op = "resume" /\ Write(handler[c].id, "pending") /\ UNCHANGED schedVars
            /\ handler'[c] = NoRequest
  <2>1. handler'[c].op \notin Owning
    BY <1>11 DEF NoRequest, Owning
  <2>2. CASE handler[c].id = f
    <3>1. Held(f) = {} /\ status'[f] = "pending"
      BY <1>11, <2>2 DEF Owner, Owning, Write, LifeTypeOK
    <3>2. \A d \in Clients : handler'[d].id = f => handler'[d].op \notin Owning
      BY <1>1, <1>2, <1>11, <2>1, <2>2 DEF Owning
    <3> QED BY <1>3, <1>11, <3>1, <3>2 DEF Owner, Unowned, Resumable
  <2>3. CASE handler[c].id # f
    <3>1. status'[f] = status[f]
      BY <1>11, <2>3 DEF Write, LifeTypeOK
    <3> QED BY <1>1, <1>3, <1>11, <2>1, <3>1, OwnerKept
  <2> QED BY <2>2, <2>3
<1> QED BY <1>4, <1>5, <1>6, <1>7, <1>8, <1>9, <1>10, <1>11, HandlerCase

LEMMA OwnerSweep ==
  ASSUME LifeInv, SweepStep, NEW f \in Workflows, Owner(f)
  PROVE  Owner(f)'
<1> USE DEF LifeInv
<1>1. handler' = handler
  BY DEF SweepStep, SweepPause, SweepSetPending, SweepFails, SweepEnqueues, SweepSends, apiVars
<1>2. \A d \in Clients : handler'[d].op \notin Owning
  <2>1. Sweeping
    BY DEF SweepStep, SweepPause, SweepSetPending, SweepFails, SweepEnqueues, SweepSends, Sweeping
  <2> QED BY <1>1, <2>1 DEF EntryInv, BootInv, NoRequest, Owning
<1>3. ASSUME UNCHANGED schedVars PROVE Held(f)' = Held(f)
  BY <1>3 DEF Held, schedVars, Tickets
<1>4. CASE SweepPause
  <2>1. PICK g \in sweep : Write(g, "paused")
    BY <1>4 DEF SweepPause
  <2>2. f = g \/ status'[f] = status[f]
    BY <2>1 DEF Write, LifeTypeOK
  <2>3. Held(g) = {} /\ Held(f)' = Held(f)
    BY <1>3, <1>4 DEF RecoveryInv, SweepPause
  <2> QED BY <1>2, <2>2, <2>3 DEF Owner
<1>5. CASE SweepSetPending
  <2>1. PICK a \in sweepAt : Write(a.id, "pending")
    BY <1>5 DEF SweepSetPending
  <2>2. f = a.id \/ status'[f] = status[f]
    BY <2>1 DEF Write, LifeTypeOK
  <2>3. Held(a.id) = {} /\ Held(f)' = Held(f)
    BY <1>3, <1>5 DEF RecoveryInv, SweepSetPending
  <2> QED BY <1>2, <2>2, <2>3 DEF Owner
<1>6. CASE SweepEnqueues
  <2>1. Held(f)' = Held(f) /\ status' = status
    BY <1>6 DEF SweepEnqueues, EnqueueCheck, Held, Tickets
  <2> QED BY <1>2, <2>1 DEF Owner
<1>7. CASE SweepSends
  <2>1. PICK a \in sweepAt, e \in entering :
           /\ a.step = "sending" /\ e.caller = Boot
           /\ EnqueueSend(e) \/ EnqueueFull(e)
    BY <1>7 DEF SweepSends
  <2>2. e.id = a.id
    BY <2>1 DEF EntryInv, CallsInv, BootInv
  <2>3. status' = status
    BY <1>7 DEF SweepSends
  <2>4. CASE EnqueueSend(e) /\ e.id = f
    <3>1. Held(f) = {} /\ status[f] = "pending"
      BY <2>1, <2>2, <2>4 DEF RecoveryInv, SweepStatus
    <3>2. Held(f)' \subseteq {issued + 1}
      BY <2>4, <3>1, HeldSend
    <3> QED BY <1>2, <2>3, <3>1, <3>2 DEF Owner, Unowned, Resumable
  <2>5. CASE EnqueueFull(e) \/ e.id # f
    <3>1. Held(f)' \subseteq Held(f)
      <4>1. CASE EnqueueFull(e)
        BY <4>1 DEF EnqueueFull, Held, Tickets
      <4>2. CASE EnqueueSend(e) /\ e.id # f
        BY <4>2, HeldSend
      <4> QED BY <2>1, <2>5, <4>1, <4>2
    <3> QED BY <1>2, <2>3, <3>1 DEF Owner
  <2> QED BY <2>1, <2>4, <2>5
<1>8. CASE SweepFails
  <2>1. Held(f)' = Held(f)
    BY <1>3, <1>8 DEF SweepFails
  <2>2. CASE status'[f] = status[f]
    BY <1>2, <2>1, <2>2 DEF Owner
  <2>3. CASE f \in sweep \/ \E a \in sweepAt : a.id = f
    <3>1. Held(f) = {}
      BY <2>3 DEF RecoveryInv
    <3> QED BY <1>2, <2>1, <3>1 DEF Owner
  <2>4. status'[f] = status[f] \/ f \in sweep \/ \E a \in sweepAt : a.id = f
    BY <1>8 DEF SweepFails, Write, LifeTypeOK
  <2> QED BY <2>2, <2>3, <2>4
<1> QED BY <1>4, <1>5, <1>6, <1>7, <1>8 DEF SweepStep

\* A row once edited over stays marked.
LEMMA EditedGrows ==
  ASSUME LifeTypeOK, [Next]_vars
  PROVE  edited \subseteq edited'
<1>1. ASSUME NEW c \in Clients, NEW f \in Workflows, Request(c, f) PROVE edited' = edited
  BY <1>1, RequestFrame
<1>2. ASSUME NEW c \in Clients, HandlerStep(c) PROVE edited \subseteq edited'
  BY <1>2, HandlerCase
<1>3. CASE EngineStep \/ SweepStep \/ StopHttp \/ StartHttp \/ NewProcess \/ UNCHANGED vars
  BY <1>3, EngineFrame DEF SweepStep, SweepPause, SweepSetPending, SweepFails, SweepEnqueues,
         SweepSends,
       StopHttp, StartHttp, NewProcess, vars, lifeVars, apiVars
<1> QED BY <1>1, <1>2, <1>3 DEF Next, EngineStep

LEMMA OwnerStep ==
  ASSUME MaxRetries = 0, LifeInv, OwnerInv, SerialResumes, [Next]_vars
  PROVE  OwnerInv'
<1>0. retrying' = {}
  BY NoRetryStep, SchedulerStep DEF LifeInv, OwnerInv
<1>1. edited \subseteq edited'
  BY EditedGrows DEF LifeInv
<1>2. ASSUME NEW f \in Workflows \ edited' PROVE Owner(f)'
  <2>1. Owner(f)
    BY <1>1 DEF OwnerInv
  <2>2. CASE StopHttp \/ StartHttp \/ UNCHANGED vars
    <3>1. UNCHANGED <<schedVars, status, handler>>
      BY <2>2 DEF StopHttp, StartHttp, vars, lifeVars, apiVars
    <3>2. Held(f)' = Held(f)
      BY <3>1 DEF Held, schedVars, Tickets
    <3> QED BY <2>1, <3>1, <3>2, OwnerKept
  <2>3. CASE NewProcess
    <3>1. Held(f)' = {}
      BY <2>3, HeldRestart DEF NewProcess
    <3>2. \A c \in Clients : handler'[c].op \notin Owning
      BY <2>3 DEF NewProcess, NoRequest, Owning
    <3> QED BY <3>1, <3>2 DEF Owner
  <2> QED BY <2>1, <2>2, <2>3, OwnerEngine, OwnerRequest, OwnerHandler, OwnerSweep DEF Next,
         EngineStep
<1> QED BY <1>0, <1>2 DEF OwnerInv

LEMMA OwnerInvariant ==
  ASSUME MaxRetries = 0
  PROVE  Spec /\ []SerialResumes => []OwnerInv
<1>1. LifeInv /\ OwnerInv /\ SerialResumes /\ [Next]_vars => OwnerInv'
  BY OwnerStep
<1> QED BY <1>1, OwnerInit, LifeInvariant, PTL DEF Spec

\* Without scheduler retries, and as long as no two handlers are resuming one row
\* at a time, no workflow is run by two workers, through any number of clients,
\* cancels, crashes and recoveries, but for a racing planning edit.
THEOREM WorkflowsRunOnce == Spec /\ []SerialResumes => []SingleRun
<1>1. CASE MaxRetries # 0
  <2>1. SingleRun
    BY <1>1 DEF SingleRun
  <2> QED BY <2>1, PTL
<1>2. CASE MaxRetries = 0
  <2>1. LifeInv /\ OwnerInv => SingleRun
    <3> SUFFICES ASSUME LifeInv, OwnerInv, NEW r \in running, NEW s \in running,
                        r.job.workflowID = s.job.workflowID, r.job.workflowID \notin edited
                 PROVE  r = s
      BY DEF SingleRun
    <3>1. r.job.ticket = s.job.ticket
      BY HeldRun, RunFields DEF LifeInv, OwnerInv, Owner
    <3> QED BY <3>1 DEF LifeInv, TicketInOnePlace, RunTicketsDistinct
  <2> QED BY <1>2, <2>1, OwnerInvariant, LifeInvariant, PTL
<1> QED BY <1>1, <1>2

LEMMA CompletedStep ==
  ASSUME LifeInv, OwnerInv, [Next]_vars, NEW f \in Workflows \ edited',
         f \notin edited, status[f] = "completed"
  PROVE  status'[f] \in {"completed", "cancelled"}
<1> USE DEF LifeInv, EntryInv
<1>1. Held(f) = {}
  BY DEF OwnerInv, Owner, Unowned
<1>2. CASE EngineStep
  BY <1>1, <1>2, EngineKeeps
<1>3. ASSUME NEW c \in Clients, NEW g \in Workflows, Request(c, g) PROVE status'[f] = "completed"
  BY <1>3 DEF Request, CreateRow, ReadForCancel, ReadForResume, ReadForPlanning, Write, LifeTypeOK
<1>4. ASSUME NEW c \in Clients, HandlerStep(c) PROVE status'[f] \in {"completed", "cancelled"}
  <2>1. handler[c].op = "resume" => handler[c].id # f
    BY DEF OwnerInv, Owner, Owning, OwnedStatus, Resumable
  <2>2. CASE handler[c].op = "resume" /\ Write(handler[c].id, "pending")
    BY <2>1, <2>2 DEF Write, LifeTypeOK
  <2>3. CASE Write(handler[c].id, "cancelled")
    BY <2>3 DEF Write, LifeTypeOK
  <2>4. CASE /\ Write(handler[c].id, handler[c].seen)
             /\ edited' = edited \cup {g \in {handler[c].id} : status[g] # handler[c].seen}
    BY <2>4 DEF Write, LifeTypeOK
  <2>5. CASE status' = status
    BY <2>5
  <2> QED BY <1>4, <2>2, <2>3, <2>4, <2>5, HandlerCase
<1>5. CASE SweepPause
  <2>1. PICK g \in sweep : Write(g, "paused")
    BY <1>5 DEF SweepPause
  <2> QED BY <2>1 DEF RecoveryInv, Write, LifeTypeOK
<1>6. CASE SweepSetPending
  <2>1. PICK a \in sweepAt : a.step = "paused" /\ Write(a.id, "pending")
    BY <1>6 DEF SweepSetPending
  <2>2. status[a.id] = "paused"
    BY <2>1 DEF RecoveryInv, SweepStatus
  <2> QED BY <2>1, <2>2 DEF Write, LifeTypeOK
<1>7. CASE SweepEnqueues \/ SweepSends \/ StopHttp \/ StartHttp \/ NewProcess \/ UNCHANGED vars
  BY <1>7 DEF SweepEnqueues, SweepSends, StopHttp, StartHttp, NewProcess, vars, lifeVars
<1>8. CASE SweepFails
  <2>1. CASE \E g \in sweep : Write(g, "paused")
    BY <2>1 DEF RecoveryInv, Write, LifeTypeOK
  <2>2. CASE \E a \in sweepAt : a.step = "paused" /\ Write(a.id, "pending")
    BY <2>2 DEF RecoveryInv, SweepStatus, Write, LifeTypeOK
  <2> QED BY <1>8, <2>1, <2>2 DEF SweepFails
<1> QED BY <1>2, <1>3, <1>4, <1>5, <1>6, <1>7, <1>8 DEF Next, EngineStep, SweepStep

\* Under the same conditions a completed row is only ever overwritten by a
\* cancel request.
THEOREM CompletedRowsStay == Spec /\ []SerialResumes => CompletedStays
<1> DEFINE Kept ==
      \A f \in Workflows \ edited' :
        MaxRetries = 0 /\ status[f] = "completed" =>
          status'[f] \in {"completed", "cancelled"}
<1>1. CASE MaxRetries # 0
  <2>1. [Next]_vars => [Kept]_vars
    BY <1>1
  <2>2. Spec => [][Kept]_vars
    <3> HIDE DEF Kept
    <3> QED BY <2>1, PTL DEF Spec
  <2> QED BY <2>2 DEF CompletedStays
<1>2. CASE MaxRetries = 0
  <2>1. LifeInv /\ OwnerInv /\ SerialResumes /\ [Next]_vars => [Kept]_vars
    BY <1>2, CompletedStep, EditedGrows DEF LifeInv
  <2>2. Spec /\ []SerialResumes => [][Kept]_vars
    <3> HIDE DEF Kept
    <3> QED BY <1>2, <2>1, OwnerInvariant, LifeInvariant, PTL DEF Spec
  <2> QED BY <2>2 DEF CompletedStays
<1> QED BY <1>1, <1>2

\* In particular one client, whose requests come one after the other, never has
\* a workflow run twice at a time.
COROLLARY OneClientRunsOnce ==
  ASSUME \A c, d \in Clients : c = d
  PROVE  Spec => []SingleRun
<1>1. SerialResumes
  BY DEF SerialResumes
<1> QED BY <1>1, WorkflowsRunOnce, PTL

-----------------------------------------------------------------------------
(* A sweep of rows that fit in the channel.                                 *)

(* During the sweep the scheduler holds at most one job of a workflow.       *)
SweptOnceInv ==
  http = "off" => \A f \in Workflows : \A t, u \in Held(f) : t = u

LEMMA SweptOnceStep ==
  ASSUME LifeInv, SweptOnceInv, [Next]_vars
  PROVE  SweptOnceInv'
<1> USE DEF LifeInv, SweptOnceInv
<1>1. CASE EngineStep
  BY <1>1, EngineFrame, EngineSchedNext, HeldShrinks DEF apiVars
<1>2. ASSUME NEW c \in Clients, NEW f \in Workflows, Request(c, f) PROVE SweptOnceInv'
  BY <1>2, RequestFrame
<1>3. ASSUME NEW c \in Clients, HandlerStep(c) PROVE SweptOnceInv'
  BY <1>3, HandlerFrame DEF EntryInv, BootInv
<1>4. ASSUME UNCHANGED <<queue, retrying, running, http>> PROVE SweptOnceInv'
  BY <1>4 DEF Held, Tickets
<1>5. CASE SweepSends
  <2>1. PICK a \in sweepAt, e \in entering : e.caller = Boot /\ (EnqueueSend(e) \/ EnqueueFull(e))
    BY <1>5 DEF SweepSends
  <2>2. e.id = a.id /\ http' = http
    BY <1>5, <2>1 DEF EntryInv, CallsInv, BootInv, SweepSends, apiVars
  <2>3. CASE EnqueueSend(e)
    <3>1. Held(e.id)' \subseteq {issued + 1}
      BY <2>2, <2>3, HeldSend DEF RecoveryInv
    <3> QED BY <2>2, <2>3, <3>1, HeldSend
  <2>4. CASE EnqueueFull(e)
    BY <1>4, <2>2, <2>4 DEF EnqueueFull
  <2> QED BY <2>1, <2>3, <2>4
<1>6. CASE SweepPause \/ SweepSetPending \/ SweepFails \/ SweepEnqueues \/ UNCHANGED vars
  BY <1>4, <1>6 DEF SweepPause, SweepSetPending, SweepFails, SweepEnqueues, EnqueueCheck, vars,
         schedVars,
                    lifeVars, apiVars
<1>7. CASE NewProcess
  BY <1>7, HeldRestart DEF NewProcess
<1>8. CASE StopHttp \/ StartHttp
  BY <1>8 DEF StopHttp, StartHttp
<1> QED BY <1>1, <1>2, <1>3, <1>5, <1>6, <1>7, <1>8 DEF Next, EngineStep, SweepStep

\* While the sweep is at a row, the channel holds jobs of other workflows, one
\* each.
LEMMA SweepRoom ==
  ASSUME LifeInv, SweptOnceInv, IsFiniteSet(Workflows), NEW a \in sweepAt
  PROVE  Len(queue) < Cardinality(Workflows)
<1> USE DEF LifeInv
<1> DEFINE S == 1..Len(queue)
           T == Workflows \ {a.id}
           F == [i \in S |-> queue[i].workflowID]
<1>1. a.id \in Workflows /\ Held(a.id) = {}
  BY SweepFields DEF RecoveryInv
<1>2. \A i \in S : /\ queue[i].workflowID \in Workflows
                   /\ queue[i].ticket \in Held(queue[i].workflowID)
  BY QueueType, JobFields DEF Held
<1>3. F \in [S -> T]
  BY <1>1, <1>2
<1>4. http = "off"
  BY DEF EntryInv, BootInv, Sweeping
<1>5. ASSUME NEW i \in S, NEW k \in S, F[i] = F[k] PROVE i = k
  <2>1. queue[i].ticket = queue[k].ticket
    BY <1>2, <1>4, <1>5 DEF SweptOnceInv
  <2> QED BY <2>1 DEF TicketInOnePlace, QueueTicketsDistinct
<1>6. F \in Injection(S, T)
  <2> HIDE DEF F, S, T
  <2> QED BY <1>3, <1>5, Fun_IsInj
<1>7. IsFiniteSet(T) /\ Cardinality(T) = Cardinality(Workflows) - 1
  BY <1>1, FS_RemoveElement
<1>8. Cardinality(S) <= Cardinality(T)
  <2> HIDE DEF F, S, T
  <2> QED BY <1>6, <1>7, FS_Injection
<1>9. Cardinality(S) = Len(queue) /\ Len(queue) \in Nat
  <2>1. Len(queue) \in Nat
    BY QueueType
  <2>2. Cardinality(1..Len(queue)) = IF 1 > Len(queue) THEN 0 ELSE Len(queue) - 1 + 1
    BY <2>1, FS_Interval
  <2> QED BY <2>1, <2>2
<1>10. Cardinality(Workflows) \in Nat
  BY FS_CardinalityType
<1> HIDE DEF S, T
<1> QED BY <1>7, <1>8, <1>9, <1>10

\* Store calls that failed are never fewer.
LEMMA FaultsGrow ==
  ASSUME LifeTypeOK, [Next]_vars
  PROVE  faults <= faults'
<1>1. faults \in Nat
  BY LifecycleAssumption DEF LifeTypeOK
<1>2. Answered \/ Fails \/ StoreFault \/ faults' = faults => faults <= faults'
  BY <1>1 DEF Answered, Fails, StoreFault
<1>3. ASSUME NEW r \in running, RunStep(r) PROVE faults <= faults'
  BY <1>2, <1>3, RunWrites
<1>4. ASSUME NEW c \in Clients, HandlerStep(c) PROVE faults <= faults'
  BY <1>2, <1>4 DEF HandlerStep, WriteCancelled, WriteResumed, SavePlanning, HandlerFails,
                    HandlerEnqueues, HandlerSends, storeVars
<1>5. ASSUME NEW c \in Clients, NEW f \in Workflows, Request(c, f) PROVE faults <= faults'
  BY <1>2, <1>5, RequestFrame DEF storeVars
<1>6. CASE SweepStep
  BY <1>2, <1>6 DEF SweepStep, SweepPause, SweepSetPending, SweepFails, SweepEnqueues, SweepSends,
                    storeVars
<1>7. CASE (\E w \in Workers : WorkerTakes(w) \/ WorkerExits(w)) \/ (\E j \in retrying : Retry(j))
           \/ StopHttp \/ StopScheduler \/ NewProcess \/ StartHttp \/ UNCHANGED vars
  BY <1>2, <1>7 DEF WorkerTakes, WorkerExits, Retry, StopHttp, StopScheduler, NewProcess, StartHttp,
                    vars, lifeVars, storeVars
<1> QED BY <1>3, <1>4, <1>5, <1>6, <1>7 DEF Next

NoneAbandoned == faults = 0 => abandoned = {}

\* As long as no store call fails by itself, a recovery sweep of no more
\* workflows than the channel holds abandons none of them.
THEOREM SmallSweepsFinish ==
  ASSUME IsFiniteSet(Workflows), Cardinality(Workflows) <= QueueCap
  PROVE  Spec => []NoneAbandoned
<1>1. Init => SweptOnceInv /\ NoneAbandoned
  BY HeldInit DEF Init, SweptOnceInv, NoneAbandoned
<1>2. LifeInv /\ SweptOnceInv /\ [Next]_vars => SweptOnceInv'
  BY SweptOnceStep
<1>3. LifeInv /\ SweptOnceInv /\ NoneAbandoned /\ [Next]_vars => NoneAbandoned'
  <2> SUFFICES ASSUME LifeInv, SweptOnceInv, NoneAbandoned, [Next]_vars, faults' = 0
               PROVE  abandoned' = {}
    BY DEF NoneAbandoned
  <2>0. faults = 0 /\ abandoned = {}
    BY FaultsGrow, LifecycleAssumption DEF LifeInv, LifeTypeOK, NoneAbandoned
  <2>1. CASE SweepSends
    <3>1. PICK a \in sweepAt, e \in entering :
             \/ abandoned' = abandoned
             \/ EnqueueFull(e)
      BY <2>1 DEF SweepSends
    <3>2. Len(queue) < Cardinality(Workflows) /\ Len(queue) \in Nat
      BY SweepRoom, QueueType DEF LifeInv
    <3>3. ~EnqueueFull(e)
      BY <3>2, FS_CardinalityType, SchedulerAssumption DEF EnqueueFull
    <3> QED BY <2>0, <3>1, <3>3
  <2>2. ASSUME NEW c \in Clients, NEW f \in Workflows, Request(c, f) PROVE abandoned' = {}
    BY <2>0, <2>2, RequestFrame DEF bootVars, storeVars
  <2>3. ASSUME NEW c \in Clients, HandlerStep(c) PROVE abandoned' = {}
    BY <2>0, <2>3, HandlerFrame DEF bootVars, storeVars, LifeInv
  <2>4. CASE EngineStep
    BY <2>0, <2>4, EngineFrame DEF bootVars, storeVars
  <2>5. CASE SweepPause \/ SweepSetPending \/ SweepEnqueues \/ NewProcess \/ StopHttp \/ StartHttp
             \/ UNCHANGED vars
    BY <2>0, <2>5 DEF SweepPause, SweepSetPending, SweepFails, SweepEnqueues, NewProcess, StopHttp,
           StartHttp, vars,
                lifeVars, bootVars, storeVars
  <2>6. CASE SweepFails
    BY <2>0, <2>6 DEF SweepFails, StoreFault
  <2> QED BY <2>1, <2>2, <2>3, <2>4, <2>5, <2>6 DEF Next, EngineStep, SweepStep
<1> QED BY <1>1, <1>2, <1>3, LifeInvariant, PTL DEF Spec

=============================================================================
