------------------------------ MODULE PodPhase ------------------------------
(***************************************************************************)
(* internal/workflow/engine: runPodPhase executes the tasks the Architect   *)
(* assigned to the Pod persona, pass by pass, in the order their            *)
(* dependencies allow: one after the other, or up to Concurrency at a time  *)
(* in goroutines that share the workflow state and one context.  The        *)
(* module also has what surrounds the phase: the retries of the scheduler,  *)
(* the remediation that appends tasks and runs the phase again, the API's   *)
(* cancellation, and a crash with the recovery sweep.  The whole-row save    *)
(* of PATCH planning, which can bring back the row it has read, tasks        *)
(* included, is SavePlanning of Lifecycle.tla and not here.                  *)
(*                                                                          *)
(* The workflow state ws is one struct in memory; SaveWorkflow first copies *)
(* it and then replaces the stored row by the copy.  The dependencies are   *)
(* those ResolveAndSanitizeTaskDependencies leaves, see TaskDeps.tla.       *)
(***************************************************************************)
EXTENDS Integers, FiniteSets

CONSTANTS
  NumTasks,      (* tasks the Architect may create; 1..NumTasks in order   *)
  NumPlanned,    (* how many of them the first planning creates            *)
  Concurrency,   (* podConcurrency: Options.MaxConcurrentTasks, at least 1 *)
  MaxRuns,       (* bound: Engine.Run calls and remediations               *)
  MaxFaults      (* bound: store calls that fail for another reason than a *)
                 (* cancelled context                                      *)

ASSUME PodPhaseAssumption ==
  /\ NumTasks \in Nat
  /\ NumPlanned \in 0..NumTasks
  /\ Concurrency \in Nat \ {0}
  /\ MaxRuns \in Nat
  /\ MaxFaults \in Nat

Tasks == 1..NumTasks
NoTask == 0

VARIABLES
  pod,           (* the tasks assigned to the pod persona                  *)
  deps,          (* deps[t]: Task.DependsOn                                *)
  status,        (* status[t]: Task.Status in memory                       *)
  wsStatus,      (* ws.Status in memory                                    *)
  active,        (* ws.Execution.ActiveTaskID                              *)
  gate,          (* ws.Execution.ImplementationGate.Ready                  *)
  row,           (* the stored row: [status, tasks, gate]                  *)
  pc,            (* where the run is                                       *)
  step,          (* step[t]: where executePodTask is for task t            *)
  snap,          (* snap[t]: the copy t's SaveWorkflow is about to write   *)
  together,      (* the batch runs in goroutines                           *)
  broken,        (* the batch's context is cancelled (errgroup), or its    *)
                 (* serial loop has returned                               *)
  cut,           (* ghost: cut[t] is the run in which t's goroutine last   *)
                 (* returned without an outcome, its store call having     *)
                 (* failed, or 0                                           *)
  attempted,     (* tasksAttempted > 0 in this phase                       *)
  err,           (* implErr: "none", "error" or "cancelled"                *)
  runs,          (* number of runs and remediations so far                 *)
  faults         (* number of store faults so far                          *)

graphVars == <<pod, deps>>
memVars == <<status, wsStatus, active, gate>>
batchVars == <<step, snap, together, broken>>
vars == <<graphVars, memVars, row, pc, batchVars, cut, attempted, err, runs, faults>>

TaskStatuses == {"absent", "pending", "ready", "running", "completed", "failed"}
RowStatuses == {"pending", "running", "failed", "cancelled"}
Row == [status : RowStatuses, tasks : [Tasks -> TaskStatuses], gate : BOOLEAN]
(* "idle": no run, "loop": head of the loop, "checkin": before the check-in  *)
(* of the Matriarch, "batch": in runPodTaskBatch, "ending": after the loop,  *)
(* "passed": the phase returned nil, "done": the implementation gate is set. *)
Places == {"idle", "loop", "checkin", "batch", "ending", "passed", "done"}
(* "queued": not begun; "marked", "saving": before and in the first          *)
(* SaveWorkflow; "executing": Persona.Execute; "good", "bad": it returned;   *)
(* "wrapup", "storing": before and in the last SaveWorkflow.                 *)
Steps == {"none", "queued", "marked", "saving", "executing", "good", "bad",
          "wrapup", "storing"}

Idle == [t \in Tasks |-> "none"]
Working == {t \in Tasks : step[t] \notin {"none", "queued"}}

-----------------------------------------------------------------------------
(* taskDependenciesSatisfied, refreshPodTaskReadiness, readyPodTaskIndices   *)
\* Mutant of Satisfied: a dependency that has been started is enough.
SatisfiedByStarted(s, t) == \A d \in deps[t] : s[d] \notin {"absent", "pending", "ready"}

Satisfied(s, t) == \A d \in deps[t] : s[d] = "completed"

Refreshed(s) ==
  [t \in Tasks |->
    IF t \notin pod \/ s[t] \notin {"pending", "ready"} THEN s[t]
    ELSE IF Satisfied(s, t) THEN "ready"
    ELSE "pending"]

\* Mutants of Runnable: completed tasks are executed again; a failed task is
\* not tried again.
CompletedAgain(s) == {t \in pod : s[t] # "absent" /\ s[t] # "running" /\ Satisfied(s, t)}
NeverTried(s) == {t \in pod : s[t] \in {"ready", "pending"} /\ Satisfied(s, t)}

Runnable(s) ==
  {t \in pod : s[t] \in {"ready", "pending", "failed"} /\ Satisfied(s, t)}

\* The first Concurrency of them, in the order of the task list.
NextBatch(s) ==
  {t \in Runnable(s) : Cardinality({u \in Runnable(s) : u < t}) < Concurrency}

Init ==
  /\ pod \in SUBSET Tasks
  /\ deps \in [Tasks -> SUBSET Tasks]
  /\ \A t \in 1..NumPlanned : deps[t] \subseteq 1..NumPlanned
  /\ \A S \in SUBSET Tasks : S # {} => \E t \in S : deps[t] \cap S = {}
  /\ (NumPlanned + 1)..NumTasks \subseteq pod      \* remediation tasks
  /\ status = [t \in Tasks |-> IF t <= NumPlanned THEN "pending" ELSE "absent"]
  /\ wsStatus = "pending"
  /\ active = NoTask
  /\ gate = FALSE
  /\ row = [status |-> "pending", tasks |-> status, gate |-> FALSE]
  /\ pc = "idle"
  /\ step = Idle
  /\ snap = [t \in Tasks |-> row]
  /\ together = FALSE
  /\ broken = FALSE
  /\ cut = [t \in Tasks |-> 0]
  /\ attempted = FALSE
  /\ err = "none"
  /\ runs = 0
  /\ faults = 0

-----------------------------------------------------------------------------
Copy == [status |-> wsStatus, tasks |-> status, gate |-> gate]

Fault == faults < MaxFaults /\ faults' = faults + 1
NoFault == UNCHANGED faults
StoreError ==
  \/ broken /\ NoFault
  \/ ~broken /\ Fault
\* A SaveWorkflow whose error is ignored.
SaveIfPossible(r) ==
  \/ row' = r /\ NoFault
  \/ Fault /\ UNCHANGED row

\* Engine.Run loads the row and saves it as running; the phases before the
\* Pod's are done.  runPodPhase, which is skipped when the gate is set,
\* refreshes the readiness of the tasks.
StartRun ==
  /\ pc = "idle"
  /\ row.status # "cancelled"
  /\ runs < MaxRuns
  /\ runs' = runs + 1
  /\ status' = IF row.gate THEN row.tasks ELSE Refreshed(row.tasks)
  /\ wsStatus' = "running"
  /\ active' = NoTask
  /\ gate' = row.gate
  /\ row' = [row EXCEPT !.status = "running"]
  /\ pc' = IF row.gate THEN "done" ELSE "loop"
  /\ attempted' = FALSE
  /\ err' = "none"
  /\ UNCHANGED <<graphVars, cut, batchVars, faults>>

\* Mutant of CancelRun: the active task becomes cancelled too.
CancelRunAndTask ==
  /\ row.status = "cancelled"
  /\ status' = [t \in Tasks |->
                 IF t = active /\ status[t] = "running" THEN "cancelled" ELSE status[t]]
  /\ active' = NoTask
  /\ wsStatus' = "cancelled"
  /\ row' = IF wsStatus = "cancelled" THEN row
            ELSE [Copy EXCEPT !.status = "cancelled", !.tasks = status']
  /\ UNCHANGED gate

\* A check found the row cancelled: the active task is put back, the row saved.
CancelRun ==
  /\ row.status = "cancelled"
  /\ status' = [t \in Tasks |->
                 IF t = active /\ status[t] = "running" THEN "pending" ELSE status[t]]
  /\ active' = NoTask
  /\ wsStatus' = "cancelled"
  /\ row' = IF wsStatus = "cancelled" THEN row
            ELSE [Copy EXCEPT !.status = "cancelled", !.tasks = status']
  /\ UNCHANGED gate

\* The head of the loop: check, refresh, choose the next tasks.
NextPass ==
  /\ pc = "loop"
  /\ row.status # "cancelled"
  /\ status' = Refreshed(status)
  /\ pc' = IF Runnable(status') = {} THEN "ending" ELSE "checkin"
  /\ UNCHANGED <<graphVars, cut, wsStatus, active, gate, row, batchVars, attempted, err, runs, faults>>

\* The loop's own check: runPodPhase and Run return ErrCancelled.
LoopCancelled ==
  /\ pc = "loop"
  /\ CancelRun
  /\ pc' = "idle"
  /\ UNCHANGED <<graphVars, cut, batchVars, attempted, err, runs, faults>>

\* runPodManagerCheckin lets the pass go on; the state is saved.
CheckinPasses ==
  /\ pc = "checkin"
  /\ SaveIfPossible(Copy)
  /\ step' = [t \in Tasks |-> IF t \in NextBatch(status) THEN "queued" ELSE "none"]
  /\ together' = (Concurrency > 1 /\ Cardinality(NextBatch(status)) > 1)
  /\ broken' = FALSE
  /\ attempted' = TRUE
  /\ pc' = "batch"
  /\ UNCHANGED <<graphVars, cut, memVars, snap, err, runs>>

\* The Matriarch blocks the pass, or the call fails.
CheckinFails ==
  /\ pc = "checkin"
  /\ err' = "error"
  /\ pc' = "ending"
  /\ UNCHANGED <<graphVars, cut, memVars, row, batchVars, attempted, runs, faults>>

-----------------------------------------------------------------------------
(* executePodTask of task t.                                                 *)
GoTo(t, s) == step' = [step EXCEPT ![t] = s]
UnchangedPhase == UNCHANGED <<graphVars, cut, together, attempted, runs>>

\* executePodTask returns an error.  A serial batch stops; the first error of
\* a parallel one cancels the context of the others, who go on until they use
\* it.
Abort(t, e) ==
  /\ step' = [u \in Tasks |->
               IF u = t \/ (~together /\ step[u] = "queued") THEN "none" ELSE step[u]]
  /\ broken' = TRUE
  /\ err' = IF err = "none" THEN e ELSE err

Begin(t) ==
  /\ pc = "batch"
  /\ step[t] = "queued"
  /\ together \/ (Working = {} /\ \A u \in Tasks : step[u] = "queued" => t <= u)
  /\ status' = [status EXCEPT ![t] = "running"]
  /\ active' = t
  /\ GoTo(t, "marked")
  /\ cut' = [cut EXCEPT ![t] = 0]
  /\ UNCHANGED <<graphVars, wsStatus, gate, row, pc, snap, together, broken, attempted, err, runs, faults>>

\* SaveWorkflow copies the state outside the batch's mutex.
CopyState(t) ==
  /\ step[t] \in {"marked", "wrapup"}
  /\ snap' = [snap EXCEPT ![t] = Copy]
  /\ GoTo(t, IF step[t] = "marked" THEN "saving" ELSE "storing")
  /\ UNCHANGED <<memVars, row, pc, broken, err, faults>> /\ UnchangedPhase

SaveMarked(t) ==
  /\ step[t] = "saving"
  /\ ~broken
  /\ row' = snap[t]
  /\ GoTo(t, "executing")
  /\ UNCHANGED <<memVars, pc, snap, broken, err, faults>> /\ UnchangedPhase

\* A store call fails: the context is cancelled, or the store is at fault.  The
\* task keeps the status it has.
StoreFails(t) ==
  /\ step[t] \in {"saving", "good", "bad"}
  /\ StoreError
  /\ Abort(t, "error")
  /\ cut' = [cut EXCEPT ![t] = runs]
  /\ UNCHANGED <<graphVars, memVars, row, pc, snap, together, attempted, runs>>

\* Persona.Execute returns; with an error once the context is cancelled, unless
\* the answer was already there.
ExecReturns(t) ==
  /\ step[t] = "executing"
  /\ \E s \in {"good", "bad"} : GoTo(t, s)
  /\ UNCHANGED <<memVars, row, pc, snap, broken, err, faults>> /\ UnchangedPhase

\* checkControlState after the call finds the workflow cancelled.
TaskCancelled(t) ==
  /\ step[t] \in {"good", "bad"}
  /\ ~broken
  /\ CancelRun
  /\ Abort(t, "cancelled")
  /\ UNCHANGED <<pc, snap, faults>> /\ UnchangedPhase

TaskCompletes(t) ==
  /\ step[t] = "good"
  /\ ~broken
  /\ row.status # "cancelled"
  /\ status' = Refreshed([status EXCEPT ![t] = "completed"])
  /\ active' = NoTask
  /\ GoTo(t, "wrapup")
  /\ UNCHANGED <<wsStatus, gate, row, pc, snap, broken, err, faults>> /\ UnchangedPhase

TaskFails(t) ==
  /\ step[t] = "bad"
  /\ ~broken
  /\ row.status # "cancelled"
  /\ status' = [status EXCEPT ![t] = "failed"]
  /\ active' = NoTask
  /\ GoTo(t, "wrapup")
  /\ UNCHANGED <<wsStatus, gate, row, pc, snap, broken, err, faults>> /\ UnchangedPhase

\* The last save of a completed task, whose error counts, ...
StoreCompleted(t) ==
  /\ step[t] = "storing"
  /\ status[t] # "failed"
  /\ \/ ~broken /\ row' = snap[t] /\ NoFault /\ GoTo(t, "none") /\ UNCHANGED <<broken, err>>
     \/ StoreError /\ UNCHANGED row /\ Abort(t, "error")
  /\ UNCHANGED <<memVars, pc, snap>> /\ UnchangedPhase

\* ... and that of a failed one, whose own error does not.
StoreFailed(t) ==
  /\ step[t] = "storing"
  /\ status[t] = "failed"
  /\ IF broken THEN UNCHANGED row /\ NoFault ELSE SaveIfPossible(snap[t])
  /\ Abort(t, "error")
  /\ UNCHANGED <<memVars, pc, snap>> /\ UnchangedPhase

TaskStep(t) ==
  \/ Begin(t) \/ CopyState(t) \/ SaveMarked(t) \/ StoreFails(t) \/ ExecReturns(t)
  \/ TaskCancelled(t) \/ TaskCompletes(t) \/ TaskFails(t)
  \/ StoreCompleted(t) \/ StoreFailed(t)

\* Mutant of BatchEnds: the error of the batch is forgotten.
BatchErrorIgnored ==
  /\ pc = "batch"
  /\ step = Idle
  /\ pc' = "loop"
  /\ broken' = FALSE
  /\ UNCHANGED <<graphVars, cut, memVars, row, step, snap, together, attempted, err, runs, faults>>

\* g.Wait, or the end of the serial loop.
BatchEnds ==
  /\ pc = "batch"
  /\ step = Idle
  /\ pc' = IF err = "none" THEN "loop" ELSE "ending"
  /\ broken' = FALSE
  /\ UNCHANGED <<graphVars, cut, memVars, row, step, snap, together, attempted, err, runs, faults>>

-----------------------------------------------------------------------------
(* After the loop.                                                           *)
EndCancelled ==
  /\ pc = "ending"
  /\ row.status = "cancelled"
  /\ active' = NoTask
  /\ wsStatus' = "cancelled"
  /\ row' = IF wsStatus = "cancelled" THEN row ELSE [Copy EXCEPT !.status = "cancelled"]
  /\ pc' = "idle"
  /\ UNCHANGED <<graphVars, cut, status, gate, batchVars, attempted, err, runs, faults>>

\* Mutant of EndFailed: only runPodPhase's own save, Run does not mark the failure.
EndUnmarked ==
  /\ pc = "ending"
  /\ row.status # "cancelled"
  /\ err # "none"
  /\ active' = NoTask
  /\ row' = Copy
  /\ pc' = "idle"
  /\ UNCHANGED <<graphVars, cut, status, wsStatus, gate, batchVars, attempted, err, runs, faults>>

\* runPodPhase saves and returns an error; Run marks the workflow failed and
\* saves again, unless the error is ErrCancelled.  A fault hits the second save
\* or both.
EndFailed ==
  /\ pc = "ending"
  /\ row.status # "cancelled"
  /\ err # "none"
  /\ active' = NoTask
  /\ wsStatus' = IF err = "cancelled" THEN wsStatus ELSE "failed"
  /\ \/ row' = [Copy EXCEPT !.status = wsStatus'] /\ NoFault
     \/ row' \in {row, Copy} /\ Fault
  /\ pc' = "idle"
  /\ UNCHANGED <<graphVars, cut, status, gate, batchVars, attempted, err, runs>>

\* It saves and returns nil.  When nothing was attempted it has also added a
\* blocking issue unless all tasks are complete.
EndWell ==
  /\ pc = "ending"
  /\ row.status # "cancelled"
  /\ err = "none"
  /\ active' = NoTask
  /\ row' = Copy
  /\ pc' = "passed"
  /\ UNCHANGED <<graphVars, cut, status, wsStatus, gate, batchVars, attempted, err, runs, faults>>

\* markImplementationReady; its save may fail, and then Run does.
MarkReady ==
  /\ pc = "passed"
  /\ gate' = TRUE
  /\ \/ row' = [Copy EXCEPT !.gate = TRUE] /\ pc' = "done" /\ NoFault /\ UNCHANGED wsStatus
     \/ /\ wsStatus' = "failed"
        /\ row' \in {row, [Copy EXCEPT !.gate = TRUE, !.status = "failed"]}
        /\ pc' = "idle"
        /\ Fault
  /\ UNCHANGED <<graphVars, cut, status, active, batchVars, attempted, err, runs>>

PhaseStep ==
  \/ NextPass \/ LoopCancelled \/ CheckinPasses \/ CheckinFails \/ BatchEnds
  \/ EndCancelled \/ EndFailed \/ EndWell \/ MarkReady

-----------------------------------------------------------------------------
(* The environment.                                                          *)

\* runRemediationPlanning appends tasks for the pod and the phase runs again.
Remediate ==
  /\ pc = "done"
  /\ runs < MaxRuns
  /\ runs' = runs + 1
  /\ \E t \in Tasks :
       /\ status[t] = "absent"
       /\ \A d \in deps[t] : status[d] # "absent"
       /\ status' = Refreshed([status EXCEPT ![t] = "pending"])
       /\ row' = [Copy EXCEPT !.tasks[t] = "pending"]
  /\ pc' = "loop"
  /\ attempted' = FALSE
  /\ UNCHANGED <<graphVars, cut, wsStatus, active, gate, batchVars, err, faults>>

\* UpdateWorkflowStatus(cancelled) of the API.
ApiCancels ==
  /\ row.status # "cancelled"
  /\ row' = [row EXCEPT !.status = "cancelled"]
  /\ UNCHANGED <<graphVars, cut, memVars, pc, batchVars, attempted, err, runs, faults>>

\* Mutant of Crash: the sweep does not look at the tasks.
CrashKeepsTasks ==
  /\ pc # "idle"
  /\ row' = IF row.status # "running" THEN row ELSE [row EXCEPT !.status = "pending"]
  /\ pc' = "idle"
  /\ step' = Idle
  /\ broken' = FALSE
  /\ UNCHANGED <<graphVars, cut, memVars, snap, together, attempted, err, runs, faults>>

\* The process dies.  The next one's sweep puts running tasks of a running row
\* back to pending and queues the workflow.
Crash ==
  /\ pc # "idle"
  /\ row' = IF row.status # "running" THEN row
            ELSE [row EXCEPT !.status = "pending",
                             !.tasks = [t \in Tasks |-> IF @[t] = "running" THEN "pending" ELSE @[t]]]
  /\ pc' = "idle"
  /\ step' = Idle
  /\ broken' = FALSE
  /\ UNCHANGED <<graphVars, cut, memVars, snap, together, attempted, err, runs, faults>>

Next ==
  \/ StartRun
  \/ PhaseStep
  \/ \E t \in Tasks : TaskStep(t)
  \/ Remediate
  \/ ApiCancels
  \/ Crash

Spec == Init /\ [][Next]_vars

(* The goroutines of a run go on, and Execute returns (HandoffTimeout).      *)
Fairness ==
  /\ WF_vars(PhaseStep)
  /\ \A t \in Tasks : WF_vars(TaskStep(t))

FairSpec == Spec /\ Fairness
=============================================================================
