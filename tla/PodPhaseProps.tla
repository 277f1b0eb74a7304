---------------------------- MODULE PodPhaseProps ----------------------------
(***************************************************************************)
(* The properties of PodPhase.tla.                                          *)
(***************************************************************************)
EXTENDS PodPhase

TypeOK ==
  /\ pod \subseteq Tasks
  /\ deps \in [Tasks -> SUBSET Tasks]
  /\ status \in [Tasks -> TaskStatuses]
  /\ wsStatus \in RowStatuses
  /\ active \in Tasks \cup {NoTask}
  /\ gate \in BOOLEAN
  /\ row \in Row
  /\ pc \in Places
  /\ step \in [Tasks -> Steps]
  /\ snap \in [Tasks -> Row]
  /\ together \in BOOLEAN
  /\ broken \in BOOLEAN
  /\ cut \in [Tasks -> 0..MaxRuns]
  /\ attempted \in BOOLEAN
  /\ err \in {"none", "error", "cancelled"}
  /\ runs \in 0..MaxRuns
  /\ faults \in 0..MaxFaults

-----------------------------------------------------------------------------
\* A task is given to the model only when the completion of every task it
\* depends on is in the store, whatever the order in which the goroutines of a
\* batch save their copies, and whichever save fails: a crash while it executes
\* never leaves a dependency to be done again.
DependenciesStored ==
  \A t \in Tasks : step[t] = "executing" =>
    \A d \in deps[t] : row.tasks[d] = "completed"

\* A stored completion is only ever taken back by a goroutine of the same
\* parallel batch that saves a copy older than it, and the run still knows it:
\* no failure, retry, remediation, cancellation or crash forgets one, and a batch
\* of one task at a time none at all ...
TakenBackInBatch ==
  \A t \in Tasks :
    row.tasks[t] = "completed" /\ row'.tasks[t] # "completed" =>
      /\ pc = "batch" /\ together /\ status[t] = "completed"
      /\ \E u \in Tasks \ {t} : step[u] \in {"saving", "storing"} /\ row' = snap[u]

\* ... and when the run ends, unless the process dies or its last save fails,
\* whatever it has completed is in the store: it is not paid for again.
EndStoresCompletions ==
  pc # "idle" /\ pc' = "idle" /\ UNCHANGED faults /\ ~Crash =>
    \A t \in Tasks : status'[t] = "completed" => row'.tasks[t] = "completed"

CompletionKept == [][TakenBackInBatch /\ EndStoresCompletions]_vars

\* As long as the store works, a task of a workflow that may be run again is
\* stored as running while nobody runs the workflow only if its goroutine was
\* cut off: it shared a parallel batch with a task that failed, and its store
\* call then met the cancelled context.  runPodPhase passes over such a task for
\* ever.  Nothing else strands one: no crash, cancellation, stale copy or retry.
OnlyCutTasksStranded ==
  pc = "idle" /\ row.status # "cancelled" /\ faults = 0 =>
    \A t \in Tasks : row.tasks[t] = "running" => Concurrency > 1 /\ cut[t] # 0

\* A run does not leave the row as running: as long as the store works it ends
\* failed or cancelled.
IdleRowSettled == pc = "idle" /\ faults = 0 => row.status # "running"

\* engine.go on runPodPhase: it "runs the Pod against every runnable task that
\* is assigned to the Pod persona".  As long as the store works, when it returns
\* nil every pod task whose dependencies are complete is complete, but for the
\* tasks that a parallel batch of an earlier run has cut off and stranded.
RunnableAllRun ==
  [][pc = "ending" /\ pc' = "passed" /\ faults = 0 =>
       \A t \in pod : status[t] # "absent" /\ Satisfied(status, t) =>
         \/ status[t] = "completed"
         \/ Concurrency > 1 /\ status[t] = "running" /\ cut[t] \in 1..(runs - 1)]_vars

\* The phase comes to an end: each pass runs something or fails, and a failed
\* task ends the phase.
PhaseEnds == (pc \notin {"idle", "done"}) ~> (pc \in {"idle", "done"})
=============================================================================
