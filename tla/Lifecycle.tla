------------------------------ MODULE Lifecycle ------------------------------
(***************************************************************************)
(* The life of a workflow row: the API handlers that create, cancel, resume *)
(* and edit it, the scheduler that queues it, the Engine.Run calls that     *)
(* load it once and save their own copy over it from then on, the shutdown, *)
(* and the recovery sweep of the next process.  The scheduler's part of     *)
(* every action is the action of Scheduler.tla.                             *)
(*                                                                          *)
(* Store calls are the atomic steps.  SaveWorkflow replaces the whole row,  *)
(* UpdateWorkflowStatus only its status; GetWorkflow is a copy that is      *)
(* stale as soon as somebody else writes.  Every store call of a run takes  *)
(* the scheduler's context and fails once that is cancelled; any store call *)
(* may also fail by itself, before the row is written or after it.          *)
(***************************************************************************)
EXTENDS Scheduler

CONSTANTS
  Boot,          (* the caller of Enqueue that is main, not a handler      *)
  ApiOps,        (* the operations clients use: a subset of AllOps         *)
  MaxRequests,   (* bound: API requests in a behaviour                     *)
  MaxRestarts,   (* bound: process restarts in a behaviour                 *)
  MaxFaults      (* bound: store calls that fail by themselves             *)

AllOps == {"create", "cancel", "resume", "planning"}

ASSUME LifecycleAssumption ==
  /\ Boot \in Callers
  /\ ApiOps \subseteq AllOps
  /\ MaxRequests \in Nat
  /\ MaxRestarts \in Nat
  /\ MaxFaults \in Nat

VARIABLES
  status,        (* status[f]: the status column of f's row, or "absent"   *)
  phase,         (* phase[w]: where the Engine.Run call of worker w is     *)
  handler,       (* handler[c]: the API handler goroutine c                *)
  http,          (* the HTTP server: "off" (booting), "on" or "stopped"    *)
  sweep,         (* running rows the recovery sweep has still to visit     *)
  sweepAt,       (* the row it is at: {} or {[id, step]}                   *)
  abandoned,     (* ghost: rows left by a sweep that an error ended        *)
  edited,        (* ghost: rows a planning edit has put an old status in   *)
  requests,      (* number of API requests so far                          *)
  restarts,      (* number of process restarts so far                      *)
  faults,        (* number of store calls that failed by themselves        *)
  unsaved        (* ghost: rows whose run a failing store call ended       *)

apiVars == <<handler, http, edited, requests>>
bootVars == <<sweep, sweepAt, abandoned, restarts>>
storeVars == <<faults, unsaved>>
lifeVars == <<status, phase, apiVars, bootVars, storeVars>>
vars == <<schedVars, lifeVars>>

Clients == Callers \ {Boot}
Statuses == {"pending", "running", "paused", "completed", "failed", "cancelled"}
(* Variants with a bug, with which the runs are tested: of Terminal,         *)
(* Resumable, ReadForPlanning and RunFail.                                   *)
OnlyCompleted == {"completed"}
AnyIdle == Statuses \ {"running"}

Terminal == {"completed", "cancelled"}      \* what Run and CancelWorkflow refuse
Resumable == {"paused", "failed"}           \* what ResumeWorkflow accepts
NoRequest == [op |-> "none", id |-> "none", seen |-> "none"]

(* "none": no run.  "load": about to read the row.  "start": about to save   *)
(* it as running.  "check": about to read the control state.  "work":        *)
(* between that check and the next save.  "final": phases done, last check   *)
(* ahead.  "complete", "cancel", "finalcancel", "fail": about to save that   *)
(* outcome, a cancel after a check on the way or after the last one.         *)
Phases ==
  {"none", "load", "start", "check", "work", "final", "complete", "cancel", "finalcancel", "fail"}

Init ==
  /\ SchedInit
  /\ status = [f \in Workflows |-> "absent"]
  /\ phase = [w \in Workers |-> "none"]
  /\ handler = [c \in Clients |-> NoRequest]
  /\ http = "on"
  /\ sweep = {}
  /\ sweepAt = {}
  /\ abandoned = {}
  /\ edited = {}
  /\ requests = 0
  /\ restarts = 0
  /\ faults = 0
  /\ unsaved = {}

Goto(w, p) == phase' = [phase EXCEPT ![w] = p]
Write(f, s) == status' = [status EXCEPT ![f] = s]

-----------------------------------------------------------------------------
(* Store calls that fail.                                                   *)

StoreFault == faults < MaxFaults /\ faults' = faults + 1

\* A store call of a run is answered, or it fails: the context is cancelled, or
\* the store itself fails.
Answered == ~CtxCancelled /\ UNCHANGED faults
Fails == IF CtxCancelled THEN UNCHANGED faults ELSE StoreFault

\* A failing save wrote nothing, or its answer was lost.
SaveFails(f, s) == Fails /\ (UNCHANGED status \/ Write(f, s))

-----------------------------------------------------------------------------
(* Engine.Run of the job r: one action per store call.                      *)

WorkerTakes(w) ==
  /\ TakeJob(w)
  /\ Goto(w, "load")
  /\ UNCHANGED <<status, apiVars, bootVars, storeVars>>

WorkerExits(w) ==
  /\ WorkerExit(w)
  /\ UNCHANGED lifeVars

\* Run returned: nil, ErrPaused or ErrCancelled, or another error.
Return(r, how) ==
  /\ IF how = "error" THEN JobFailed(r) ELSE JobDone(r)
  /\ Goto(r.worker, "none")

\* Run returned a store's error without saving an outcome.
ReturnUnsaved(r) ==
  /\ Return(r, "error")
  /\ unsaved' = unsaved \cup {r.job.workflowID}

At(r, p) == r \in running /\ phase[r.worker] = p
Proceed(r, p) == Goto(r.worker, p) /\ UNCHANGED schedVars

RunLoad(r) ==
  /\ At(r, "load")
  /\ \/ Fails /\ Return(r, "error")
     \/ Answered /\ IF status[r.job.workflowID] \in Terminal THEN Return(r, "error")
                     ELSE Proceed(r, "start")
  /\ UNCHANGED <<status, unsaved, apiVars, bootVars>>

RunStart(r) ==
  /\ At(r, "start")
  /\ \/ SaveFails(r.job.workflowID, "running") /\ ReturnUnsaved(r)
     \/ /\ Answered /\ Write(r.job.workflowID, "running")
        /\ Proceed(r, "check")
        /\ unsaved' = unsaved \ {r.job.workflowID}
  /\ UNCHANGED <<apiVars, bootVars>>

\* checkControlState at the head of every persona, attempt, task and cycle.
RunCheck(r) ==
  /\ At(r, "check")
  /\ \/ Fails /\ Proceed(r, "fail")
     \/ Answered /\ Proceed(r, IF status[r.job.workflowID] = "cancelled" THEN "cancel" ELSE "work")
  /\ UNCHANGED <<status, unsaved, apiVars, bootVars>>

\* A save on the way: the engine's copy, whose status is running.  The errors of
\* some saves end the phases, those of others are dropped.
RunSave(r) ==
  /\ At(r, "work")
  /\ \/ SaveFails(r.job.workflowID, "running") /\ \E p \in {"check", "fail"} : Proceed(r, p)
     \/ Answered /\ Write(r.job.workflowID, "running") /\ Proceed(r, "check")
  /\ UNCHANGED <<unsaved, apiVars, bootVars>>

\* runPhases returned nil, or an error of its own.
RunPhasesReturn(r) ==
  /\ At(r, "work")
  /\ \E p \in {"final", "fail"} : Proceed(r, p)
  /\ UNCHANGED <<status, apiVars, bootVars, storeVars>>

\* The last checkControlState: its errors leave Run without a transition.
RunFinalCheck(r) ==
  /\ At(r, "final")
  /\ \/ Fails /\ ReturnUnsaved(r)
     \/ /\ Answered
        /\ Proceed(r, IF status[r.job.workflowID] = "cancelled" THEN "finalcancel" ELSE "complete")
        /\ UNCHANGED unsaved
  /\ UNCHANGED <<status, apiVars, bootVars>>

RunComplete(r) ==
  /\ At(r, "complete")
  /\ \/ SaveFails(r.job.workflowID, "completed") /\ ReturnUnsaved(r)
     \/ /\ Answered /\ Write(r.job.workflowID, "completed")
        /\ Return(r, "nil")
        /\ UNCHANGED unsaved
  /\ UNCHANGED <<apiVars, bootVars>>

\* transition(cancelled).  When it cannot be saved the error is an ordinary one:
\* the phases fail with it, or Run returns it after the last check.
RunCancel(r) ==
  /\ \/ At(r, "cancel") \/ At(r, "finalcancel")
  /\ \/ /\ SaveFails(r.job.workflowID, "cancelled")
        /\ \/ At(r, "cancel") /\ Proceed(r, "fail") /\ UNCHANGED unsaved
           \/ At(r, "finalcancel") /\ ReturnUnsaved(r)
     \/ /\ Answered /\ Write(r.job.workflowID, "cancelled")
        /\ Return(r, "cancelled")
        /\ UNCHANGED unsaved
  /\ UNCHANGED <<apiVars, bootVars>>

\* A variant with a bug: the failure is not stored.
FailUnsaved(r) ==
  /\ At(r, "fail")
  /\ Return(r, "error")
  /\ UNCHANGED <<status, apiVars, bootVars, storeVars>>

\* transition(failed), whose own error is dropped: the row goes on saying running.
RunFail(r) ==
  /\ At(r, "fail")
  /\ \/ SaveFails(r.job.workflowID, "failed") /\ ReturnUnsaved(r)
     \/ /\ Answered /\ Write(r.job.workflowID, "failed")
        /\ Return(r, "error")
        /\ UNCHANGED unsaved
  /\ UNCHANGED <<apiVars, bootVars>>

RunStep(r) ==
  \/ RunLoad(r) \/ RunStart(r) \/ RunCheck(r) \/ RunSave(r) \/ RunPhasesReturn(r)
  \/ RunFinalCheck(r) \/ RunComplete(r) \/ RunCancel(r) \/ RunFail(r)

Retry(j) ==
  /\ RetryStep(j)
  /\ UNCHANGED lifeVars

-----------------------------------------------------------------------------
(* The API handlers.  A request first reads the row (checkWorkflowOwnership) *)
(* and later acts on what it saw.                                            *)
Begin(c, op) ==
  /\ http = "on"
  /\ handler[c] = NoRequest
  /\ op \in ApiOps
  /\ requests < MaxRequests
  /\ requests' = requests + 1
  /\ UNCHANGED <<schedVars, phase, http, edited, bootVars, storeVars>>

SetHandler(c, op, f, seen) ==
  handler' = [handler EXCEPT ![c] = [op |-> op, id |-> f, seen |-> seen]]
Reply(c) == handler' = [handler EXCEPT ![c] = NoRequest]
Handles(c, op) == handler[c].op = op

\* CreateWorkflow: the row is inserted as pending; if then the upload session
\* cannot be consumed the handler returns, leaving the row.
CreateRow(c, f) ==
  /\ Begin(c, "create")
  /\ status[f] = "absent"
  /\ Write(f, "pending")
  /\ SetHandler(c, "enqueue", f, "pending") \/ UNCHANGED handler

ReadForCancel(c, f) ==
  /\ Begin(c, "cancel")
  /\ status[f] # "absent"
  /\ IF status[f] \in Terminal THEN UNCHANGED handler
     ELSE SetHandler(c, "cancel", f, status[f])
  /\ UNCHANGED status

WriteCancelled(c) ==
  /\ Handles(c, "cancel")
  /\ Write(handler[c].id, "cancelled")
  /\ Reply(c)
  /\ UNCHANGED <<schedVars, phase, http, edited, requests, bootVars, storeVars>>

ReadForResume(c, f) ==
  /\ Begin(c, "resume")
  /\ status[f] # "absent"
  /\ IF status[f] \in Resumable THEN SetHandler(c, "resume", f, status[f])
     ELSE UNCHANGED handler
  /\ UNCHANGED status

WriteResumed(c) ==
  /\ Handles(c, "resume")
  /\ Write(handler[c].id, "pending")
  /\ SetHandler(c, "enqueue", handler[c].id, "pending")
  /\ UNCHANGED <<schedVars, phase, http, edited, requests, bootVars, storeVars>>

\* UpdateWorkflowPlanning: read the row, edit the plan, save the row as read.
ReadForPlanning(c, f) ==
  /\ Begin(c, "planning")
  /\ status[f] # "absent"
  /\ SetHandler(c, "planning", f, status[f])
  /\ UNCHANGED status

SavePlanning(c) ==
  /\ Handles(c, "planning")
  /\ Write(handler[c].id, handler[c].seen)
  /\ edited' = edited \cup {f \in {handler[c].id} : status[f] # handler[c].seen}
  /\ Reply(c)
  /\ UNCHANGED <<schedVars, phase, http, requests, bootVars, storeVars>>

\* sched.Enqueue of a handler: refused at once, or past the check of done ...
HandlerEnqueues(c) ==
  /\ Handles(c, "enqueue")
  /\ \/ EnqueueCheck(c, handler[c].id) /\ SetHandler(c, "send", handler[c].id, "pending")
     \/ DoneClosed /\ Reply(c) /\ UNCHANGED schedVars
  /\ UNCHANGED <<status, phase, http, edited, requests, bootVars, storeVars>>

\* ... and then queued, or refused because the queue is full.  Neither
\* CreateWorkflow nor ResumeWorkflow takes the pending status back.
HandlerSends(c) ==
  /\ Handles(c, "send")
  /\ \E e \in entering : e.caller = c /\ (EnqueueSend(e) \/ EnqueueFull(e))
  /\ Reply(c)
  /\ UNCHANGED <<status, phase, http, edited, requests, bootVars, storeVars>>

\* The store call of a handler fails, and the client is told so.  Had a lost
\* answer's write been a cancel or an edit, the row is as after a success; a
\* resumed row is pending and not enqueued.
HandlerFails(c) ==
  /\ StoreFault
  /\ \/ handler[c].op \in {"cancel", "resume", "planning"} /\ UNCHANGED status
     \/ Handles(c, "resume") /\ Write(handler[c].id, "pending")
  /\ Reply(c)
  /\ UNCHANGED <<schedVars, phase, http, edited, requests, bootVars, unsaved>>

HandlerStep(c) ==
  \/ WriteCancelled(c) \/ WriteResumed(c) \/ SavePlanning(c) \/ HandlerFails(c)
  \/ HandlerEnqueues(c) \/ HandlerSends(c)

Request(c, f) ==
  \/ CreateRow(c, f) \/ ReadForCancel(c, f) \/ ReadForResume(c, f) \/ ReadForPlanning(c, f)

-----------------------------------------------------------------------------
(* main: shutdown, and the next process with its recovery sweep.            *)
StopHttp ==
  /\ http = "on"
  /\ http' = "stopped"
  /\ UNCHANGED <<schedVars, status, phase, handler, edited, requests, bootVars, storeVars>>

\* srv.Shutdown has waited for the handlers, or its deadline has passed;
\* sched.Shutdown follows.
StopScheduler ==
  /\ http = "stopped"
  /\ ShutdownNext
  /\ UNCHANGED lifeVars

\* The process dies, at any point or after a shutdown; the next one starts with
\* the rows the store holds.
NewProcess ==
  /\ restarts < MaxRestarts
  /\ restarts' = restarts + 1
  /\ Restart
  /\ phase' = [w \in Workers |-> "none"]
  /\ handler' = [c \in Clients |-> NoRequest]
  /\ http' = "off"
  /\ sweep' = {f \in Workflows : status[f] = "running"}
  /\ sweepAt' = {}
  /\ abandoned' = {}
  /\ unsaved' = {}
  /\ UNCHANGED <<status, edited, requests, faults>>

Sweeping == sweep # {} \/ sweepAt # {}
SweepGoto(f, step) == sweepAt' = {[id |-> f, step |-> step]}

\* pauseAndRequeueInterruptedWorkflow: save as paused, set pending, enqueue.
SweepPause ==
  /\ sweepAt = {}
  /\ \E f \in sweep :
       /\ Write(f, "paused")
       /\ sweep' = sweep \ {f}
       /\ SweepGoto(f, "paused")
  /\ UNCHANGED <<schedVars, phase, apiVars, abandoned, restarts, storeVars>>

SweepSetPending ==
  /\ \E a \in sweepAt :
       /\ a.step = "paused"
       /\ Write(a.id, "pending")
       /\ SweepGoto(a.id, "pending")
  /\ UNCHANGED <<schedVars, phase, apiVars, sweep, abandoned, restarts, storeVars>>

\* A store error ends the whole sweep: this row is running or paused, or what
\* the lost answer's write has made of it, and the rows after it stay running.
SweepFails ==
  /\ StoreFault
  /\ Sweeping
  /\ \/ sweepAt = {} /\ \E f \in sweep : UNCHANGED status \/ Write(f, "paused")
     \/ \E a \in sweepAt : a.step = "paused" /\ (UNCHANGED status \/ Write(a.id, "pending"))
  /\ sweep' = {}
  /\ sweepAt' = {}
  /\ abandoned' = abandoned \cup sweep
  /\ UNCHANGED <<schedVars, phase, apiVars, restarts, unsaved>>

SweepEnqueues ==
  /\ \E a \in sweepAt :
       /\ a.step = "pending"
       /\ EnqueueCheck(Boot, a.id)
       /\ SweepGoto(a.id, "sending")
  /\ UNCHANGED <<status, phase, apiVars, sweep, abandoned, restarts, storeVars>>

\* An Enqueue error ends the whole sweep: the rows after this one are left as
\* they are, running, until the next process.
SweepSends ==
  /\ \E a \in sweepAt, e \in entering :
       /\ a.step = "sending"
       /\ e.caller = Boot
       /\ \/ EnqueueSend(e) /\ UNCHANGED <<sweep, abandoned>>
          \/ EnqueueFull(e) /\ sweep' = {} /\ abandoned' = abandoned \cup sweep
  /\ sweepAt' = {}
  /\ UNCHANGED <<status, phase, apiVars, restarts, storeVars>>

StartHttp ==
  /\ http = "off"
  /\ ~Sweeping
  /\ http' = "on"
  /\ UNCHANGED <<schedVars, status, phase, handler, edited, requests, bootVars, storeVars>>

SweepStep == SweepPause \/ SweepSetPending \/ SweepFails \/ SweepEnqueues \/ SweepSends

Next ==
  \/ \E w \in Workers : WorkerTakes(w) \/ WorkerExits(w)
  \/ \E r \in running : RunStep(r)
  \/ \E j \in retrying : Retry(j)
  \/ \E c \in Clients, f \in Workflows : Request(c, f)
  \/ \E c \in Clients : HandlerStep(c)
  \/ StopHttp \/ StopScheduler
  \/ NewProcess \/ SweepStep \/ StartHttp

Spec == Init /\ [][Next]_vars

(* Weak fairness for what a goroutine does next.  The phases of a run are    *)
(* finitely many and its loops bounded, so it does not go round check, work  *)
(* and save for ever (RunPhasesReturn).  A blocked sender is served in turn, *)
(* and a select does not pass over a ready ctx.Done for ever.  Requests, the *)
(* shutdown and the end of the process are never certain; once the new       *)
(* process is up its sweep goes on.                                          *)
Fairness ==
  /\ \A w \in Workers : WF_vars(WorkerTakes(w)) /\ SF_vars(WorkerExits(w))
  /\ \A w \in Workers :
       /\ WF_vars(\E r \in running : r.worker = w /\ RunStep(r))
       /\ SF_vars(\E r \in running : r.worker = w /\ RunPhasesReturn(r))
  /\ \A t \in Tickets : SF_vars(\E j \in retrying : j.ticket = t /\ Retry(j))
  /\ \A c \in Clients : WF_vars(HandlerStep(c))
  /\ WF_vars(SweepStep)
  /\ WF_vars(StartHttp)

FairSpec == Spec /\ Fairness
=============================================================================
