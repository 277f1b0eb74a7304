---------------------------- MODULE PodPhaseProofs ----------------------------
(***************************************************************************)
(* Proofs about PodPhase.tla, for every number of tasks and goroutines: its *)
(* type invariant; that a task executes only when its dependencies are       *)
(* complete in the store; that a run settles its row; which tasks it may     *)
(* leave as running, which completions the store may lose and for how long,  *)
(* and which tasks a phase that passes has run; and that every step of a     *)
(* phase lowers a number with a known bound.                                *)
(***************************************************************************)
EXTENDS PodPhaseProps, DataLemmas

LEMMA RefreshedType ==
  ASSUME NEW s \in [Tasks -> TaskStatuses]
  PROVE  Refreshed(s) \in [Tasks -> TaskStatuses]
BY DEF Refreshed, TaskStatuses

\* Refreshing moves tasks between pending and ready and completes none.
LEMMA RefreshedKeeps ==
  ASSUME NEW s \in [Tasks -> TaskStatuses], NEW t \in Tasks
  PROVE  Refreshed(s)[t] = "completed" <=> s[t] = "completed"
BY DEF Refreshed

LEMMA CopyType == TypeOK => Copy \in Row
BY DEF TypeOK, Copy, Row

-----------------------------------------------------------------------------
(* Types.                                                                   *)
LEMMA TypeInit == Init => TypeOK
<1> SUFFICES ASSUME Init PROVE TypeOK
  OBVIOUS
<1>1. status \in [Tasks -> TaskStatuses]
  BY DEF Init, TaskStatuses
<1>2. row \in Row
  BY <1>1 DEF Init, Row, RowStatuses
<1>3. runs \in 0..MaxRuns /\ faults \in 0..MaxFaults
  BY PodPhaseAssumption DEF Init
<1>4. cut \in [Tasks -> 0..MaxRuns]
  BY PodPhaseAssumption DEF Init
<1> QED BY <1>1, <1>2, <1>3, <1>4 DEF Init, TypeOK, RowStatuses, Places, Steps, Idle

\* What an executePodTask step that ends with an error does to the batch.
LEMMA AbortType ==
  ASSUME TypeOK, NEW t \in Tasks, NEW e \in {"error", "cancelled"}, Abort(t, e)
  PROVE  /\ step' \in [Tasks -> Steps]
         /\ broken' \in BOOLEAN
         /\ err' \in {"none", "error", "cancelled"}
<1>1. step' \in [Tasks -> Steps]
  BY DEF TypeOK, Abort, Steps
<1> QED BY <1>1 DEF TypeOK, Abort

LEMMA FaultType ==
  ASSUME TypeOK, Fault \/ NoFault
  PROVE  faults' \in 0..MaxFaults
BY PodPhaseAssumption DEF TypeOK, Fault, NoFault

LEMMA CancelType ==
  ASSUME TypeOK, CancelRun
  PROVE  /\ status' \in [Tasks -> TaskStatuses]
         /\ wsStatus' \in RowStatuses
         /\ active' \in Tasks \cup {NoTask}
         /\ gate' \in BOOLEAN
         /\ row' \in Row
<1>1. status' \in [Tasks -> TaskStatuses]
  BY DEF TypeOK, CancelRun, TaskStatuses
<1>2. [Copy EXCEPT !.status = "cancelled", !.tasks = status'] \in Row
  BY <1>1, CopyType DEF Row, RowStatuses
<1> QED BY <1>1, <1>2 DEF TypeOK, CancelRun, RowStatuses

\* The steps of executePodTask are well typed.
LEMMA TaskTypeStep ==
  ASSUME TypeOK, NEW t \in Tasks, TaskStep(t)
  PROVE  TypeOK'
<1>1. CASE Begin(t)
  <2>1. status' \in [Tasks -> TaskStatuses]
    BY <1>1 DEF TypeOK, Begin, TaskStatuses
  <2>2. step' \in [Tasks -> Steps]
    BY <1>1 DEF TypeOK, Begin, GoTo, Steps
  <2>3. cut' \in [Tasks -> 0..MaxRuns]
    BY <1>1, PodPhaseAssumption DEF TypeOK, Begin
  <2> QED BY <1>1, <2>1, <2>2, <2>3 DEF TypeOK, Begin, UnchangedPhase, graphVars
<1>2. CASE CopyState(t)
  <2>1. step' \in [Tasks -> Steps]
    BY <1>2 DEF TypeOK, CopyState, GoTo, Steps
  <2>2. snap' \in [Tasks -> Row]
    BY <1>2, CopyType DEF TypeOK, CopyState
  <2> QED BY <1>2, <2>1, <2>2 DEF TypeOK, CopyState, UnchangedPhase, graphVars, memVars
<1>3. CASE SaveMarked(t)
  <2>1. step' \in [Tasks -> Steps]
    BY <1>3 DEF TypeOK, SaveMarked, GoTo, Steps
  <2> QED BY <1>3, <2>1 DEF TypeOK, SaveMarked, UnchangedPhase, graphVars, memVars
<1>4. CASE StoreFails(t)
  <2>1. faults' \in 0..MaxFaults
    BY <1>4, FaultType DEF StoreFails, StoreError
  <2>2. cut' \in [Tasks -> 0..MaxRuns]
    BY <1>4 DEF TypeOK, StoreFails
  <2> QED BY <1>4, <2>1, <2>2, AbortType DEF TypeOK, StoreFails, UnchangedPhase, graphVars, memVars
<1>5. CASE ExecReturns(t)
  <2>1. step' \in [Tasks -> Steps]
    BY <1>5 DEF TypeOK, ExecReturns, GoTo, Steps
  <2> QED BY <1>5, <2>1 DEF TypeOK, ExecReturns, UnchangedPhase, graphVars, memVars
<1>6. CASE TaskCancelled(t)
  BY <1>6, AbortType, CancelType DEF TypeOK, TaskCancelled, UnchangedPhase, graphVars
<1>7. CASE TaskCompletes(t)
  <2>1. [status EXCEPT ![t] = "completed"] \in [Tasks -> TaskStatuses]
    BY DEF TypeOK, TaskStatuses
  <2>2. status' \in [Tasks -> TaskStatuses]
    BY <1>7, <2>1, RefreshedType DEF TaskCompletes
  <2>3. step' \in [Tasks -> Steps]
    BY <1>7 DEF TypeOK, TaskCompletes, GoTo, Steps
  <2> QED BY <1>7, <2>2, <2>3 DEF TypeOK, TaskCompletes, UnchangedPhase, graphVars
<1>8. CASE TaskFails(t)
  <2>1. status' \in [Tasks -> TaskStatuses]
    BY <1>8 DEF TypeOK, TaskFails, TaskStatuses
  <2>2. step' \in [Tasks -> Steps]
    BY <1>8 DEF TypeOK, TaskFails, GoTo, Steps
  <2> QED BY <1>8, <2>1, <2>2 DEF TypeOK, TaskFails, UnchangedPhase, graphVars
<1>9. CASE StoreCompleted(t)
  <2>1. CASE row' = snap[t] /\ NoFault /\ GoTo(t, "none") /\ UNCHANGED <<broken, err>>
    <3>1. step' \in [Tasks -> Steps]
      BY <2>1 DEF TypeOK, GoTo, Steps
    <3> QED BY <1>9, <2>1, <3>1
            DEF TypeOK, StoreCompleted, NoFault, UnchangedPhase, graphVars, memVars
  <2>2. CASE StoreError /\ UNCHANGED row /\ Abort(t, "error")
    <3>1. faults' \in 0..MaxFaults
      BY <2>2, FaultType DEF StoreError
    <3> QED BY <1>9, <2>2, <3>1, AbortType
            DEF TypeOK, StoreCompleted, UnchangedPhase, graphVars, memVars
  <2> QED BY <1>9, <2>1, <2>2 DEF StoreCompleted
<1>10. CASE StoreFailed(t)
  <2>1. faults' \in 0..MaxFaults
    BY <1>10, FaultType DEF StoreFailed, SaveIfPossible
  <2>2. row' \in Row
    BY <1>10 DEF TypeOK, StoreFailed, SaveIfPossible
  <2> QED BY <1>10, <2>1, <2>2, AbortType
          DEF TypeOK, StoreFailed, UnchangedPhase, graphVars, memVars
<1> QED BY <1>1, <1>2, <1>3, <1>4, <1>5, <1>6, <1>7, <1>8, <1>9, <1>10 DEF TaskStep

\* The steps of runPodPhase are well typed.
LEMMA PhaseTypeStep ==
  ASSUME TypeOK, PhaseStep
  PROVE  TypeOK'
<1>1. CASE NextPass
  <2>1. status' \in [Tasks -> TaskStatuses]
    BY <1>1, RefreshedType DEF TypeOK, NextPass
  <2> QED BY <1>1, <2>1 DEF TypeOK, NextPass, graphVars, batchVars, Places
<1>2. CASE LoopCancelled
  BY <1>2, CancelType DEF TypeOK, LoopCancelled, graphVars, batchVars, Places
<1>3. CASE CheckinPasses
  <2>1. step' \in [Tasks -> Steps]
    BY <1>3 DEF CheckinPasses, Steps
  <2>2. row' \in Row /\ faults' \in 0..MaxFaults
    BY <1>3, CopyType, FaultType DEF TypeOK, CheckinPasses, SaveIfPossible
  <2>3. together' \in BOOLEAN
    BY <1>3 DEF CheckinPasses
  <2> QED BY <1>3, <2>1, <2>2, <2>3 DEF TypeOK, CheckinPasses, graphVars, memVars, Places
<1>4. CASE CheckinFails
  BY <1>4 DEF TypeOK, CheckinFails, graphVars, memVars, batchVars, Places
<1>5. CASE BatchEnds
  BY <1>5 DEF TypeOK, BatchEnds, graphVars, memVars, Places
<1>6. CASE EndCancelled
  <2>1. [Copy EXCEPT !.status = "cancelled"] \in Row
    BY CopyType DEF Row, RowStatuses
  <2> QED BY <1>6, <2>1 DEF TypeOK, EndCancelled, graphVars, batchVars, Places, RowStatuses
<1>7. CASE EndFailed
  <2>1. wsStatus' \in RowStatuses
    BY <1>7 DEF TypeOK, EndFailed, RowStatuses
  <2>2. [Copy EXCEPT !.status = wsStatus'] \in Row
    BY <2>1, CopyType DEF Row
  <2>3. row' \in Row /\ faults' \in 0..MaxFaults
    BY <1>7, <2>2, CopyType, FaultType DEF TypeOK, EndFailed
  <2> QED BY <1>7, <2>1, <2>3 DEF TypeOK, EndFailed, graphVars, batchVars, Places
<1>8. CASE EndWell
  BY <1>8, CopyType DEF TypeOK, EndWell, graphVars, batchVars, Places
<1>9. CASE MarkReady
  <2>1. /\ [Copy EXCEPT !.gate = TRUE] \in Row
        /\ [Copy EXCEPT !.gate = TRUE, !.status = "failed"] \in Row
    BY CopyType DEF Row, RowStatuses
  <2>2. row' \in Row /\ faults' \in 0..MaxFaults /\ wsStatus' \in RowStatuses /\ pc' \in Places
    BY <1>9, <2>1, FaultType DEF TypeOK, MarkReady, RowStatuses, Places
  <2> QED BY <1>9, <2>2 DEF TypeOK, MarkReady, graphVars, batchVars
<1> QED BY <1>1, <1>2, <1>3, <1>4, <1>5, <1>6, <1>7, <1>8, <1>9 DEF PhaseStep

LEMMA TypeStep == TypeOK /\ [Next]_vars => TypeOK'
<1> SUFFICES ASSUME TypeOK, [Next]_vars PROVE TypeOK'
  OBVIOUS
<1>1. CASE StartRun
  <2>1. status' \in [Tasks -> TaskStatuses]
    BY <1>1, RefreshedType DEF TypeOK, StartRun, Row
  <2>2. row' \in Row /\ gate' \in BOOLEAN
    BY <1>1 DEF TypeOK, StartRun, Row, RowStatuses
  <2>3. runs' \in 0..MaxRuns
    BY <1>1, PodPhaseAssumption DEF TypeOK, StartRun
  <2> QED BY <1>1, <2>1, <2>2, <2>3
          DEF TypeOK, StartRun, graphVars, batchVars, RowStatuses, Places
<1>2. CASE PhaseStep
  BY <1>2, PhaseTypeStep
<1>3. CASE \E t \in Tasks : TaskStep(t)
  BY <1>3, TaskTypeStep
<1>4. CASE Remediate
  <2> PICK t \in Tasks :
        /\ status' = Refreshed([status EXCEPT ![t] = "pending"])
        /\ row' = [Copy EXCEPT !.tasks[t] = "pending"]
    BY <1>4 DEF Remediate
  <2>1. [status EXCEPT ![t] = "pending"] \in [Tasks -> TaskStatuses]
    BY DEF TypeOK, TaskStatuses
  <2>2. status' \in [Tasks -> TaskStatuses]
    BY <2>1, RefreshedType
  <2>3. row' = [Copy EXCEPT !.tasks = [status EXCEPT ![t] = "pending"]]
    BY DEF Copy
  <2>4. row' \in Row
    BY <2>1, <2>3, CopyType DEF Row
  <2>5. runs' \in 0..MaxRuns
    BY <1>4, PodPhaseAssumption DEF TypeOK, Remediate
  <2> QED BY <1>4, <2>2, <2>4, <2>5 DEF TypeOK, Remediate, graphVars, batchVars, Places
<1>5. CASE ApiCancels
  <2>1. row' \in Row
    BY <1>5 DEF TypeOK, ApiCancels, Row, RowStatuses
  <2> QED BY <1>5, <2>1 DEF TypeOK, ApiCancels, graphVars, memVars, batchVars
<1>6. CASE Crash
  <2> DEFINE swept == [t \in Tasks |-> IF row.tasks[t] = "running" THEN "pending" ELSE row.tasks[t]]
  <2>1. swept \in [Tasks -> TaskStatuses]
    BY DEF TypeOK, Row, TaskStatuses
  <2>2. row' = row \/ row' = [row EXCEPT !.status = "pending", !.tasks = swept]
    BY <1>6 DEF Crash, TypeOK, Row
  <2> HIDE DEF swept
  <2>3. row' \in Row
    BY <2>1, <2>2 DEF TypeOK, Row, RowStatuses
  <2> QED BY <1>6, <2>3 DEF TypeOK, Crash, Idle, Steps, graphVars, memVars, Places
<1>7. CASE UNCHANGED vars
  BY <1>7 DEF TypeOK, vars, graphVars, memVars, batchVars
<1> QED BY <1>1, <1>2, <1>3, <1>4, <1>5, <1>6, <1>7 DEF Next

\* Every reachable state of the Pod phase is well typed.
THEOREM TypeCorrect == Spec => []TypeOK
BY TypeInit, TypeStep, PTL DEF Spec

-----------------------------------------------------------------------------
(* Dependencies.  A goroutine may write any copy taken since the batch began, *)
(* so all of these must hold what the tasks of the batch depend on.           *)
HasDependencies(s) == \A t \in Tasks : step[t] # "none" => Satisfied(s, t)

Unfinished == {"queued", "marked", "saving", "executing", "good", "bad"}
Storing == {"saving", "storing"}

\* The inductive invariant: goroutines exist only in a batch; what the tasks of
\* the batch depend on is complete in memory and in every copy under way to the
\* store; and no task is executed again after its completion, which is why
\* nothing takes a completion back while the batch lasts.
DependencyInv ==
  /\ pc # "batch" => step = Idle
  /\ HasDependencies(status)
  /\ \A t \in Tasks : step[t] \in Unfinished => status[t] # "completed"
  /\ \A u \in Tasks : step[u] \in Storing => HasDependencies(snap[u].tasks)
  /\ DependenciesStored

LEMMA NothingUnderWay ==
  ASSUME step' = Idle
  PROVE  DependencyInv'
BY DEF DependencyInv, DependenciesStored, HasDependencies, Idle, Unfinished, Storing

\* What a step of a goroutine may do to the rest of the batch.
BatchMove ==
  /\ pc' = pc /\ deps' = deps
  /\ step' \in [Tasks -> Steps]
  /\ \A u \in Tasks :
       /\ step'[u] # "none" => step[u] # "none"
       /\ status[u] = "completed" => status'[u] = "completed"
       /\ step'[u] \in Unfinished => step[u] \in Unfinished /\ status'[u] # "completed"
       /\ step'[u] \in Storing =>
            \/ step[u] \in Storing /\ snap'[u] = snap[u]
            \/ snap'[u].tasks = status
  /\ \/ row'.tasks = row.tasks
        /\ \A u \in Tasks : step'[u] = "executing" => step[u] = "executing"
     \/ row'.tasks = status'
     \/ \E u \in Tasks : step[u] \in Storing /\ row'.tasks = snap[u].tasks

LEMMA MoveKeepsDependencies ==
  ASSUME TypeOK, DependencyInv, BatchMove
  PROVE  DependencyInv'
<1>1. pc' # "batch" => step' = Idle
  BY DEF TypeOK, DependencyInv, BatchMove, Idle
<1>2. ASSUME NEW s, HasDependencies(s), NEW t \in Tasks, step'[t] # "none"
      PROVE  \A d \in deps[t] : s[d] = "completed"
  BY <1>2 DEF HasDependencies, BatchMove, Satisfied
<1>3. HasDependencies(status)'
  <2> SUFFICES ASSUME NEW t \in Tasks, step'[t] # "none", NEW d \in deps[t]
               PROVE  status'[d] = "completed"
    BY DEF HasDependencies, Satisfied, BatchMove
  <2>1. status[d] = "completed"
    BY <1>2 DEF DependencyInv
  <2> QED BY <2>1 DEF TypeOK, BatchMove
<1>4. \A t \in Tasks : step'[t] \in Unfinished => status'[t] # "completed"
  BY DEF BatchMove
<1>5. ASSUME NEW u \in Tasks, step'[u] \in Storing
      PROVE  HasDependencies(snap[u].tasks)'
  <2>1. HasDependencies(snap'[u].tasks)
    BY <1>5 DEF DependencyInv, BatchMove
  <2> QED BY <2>1, <1>2 DEF HasDependencies, Satisfied, BatchMove
<1>6. DependenciesStored'
  <2> SUFFICES ASSUME NEW t \in Tasks, step'[t] = "executing", NEW d \in deps[t]
               PROVE  row'.tasks[d] = "completed"
    BY DEF DependenciesStored, BatchMove
  <2>1. CASE row'.tasks = row.tasks /\ step[t] = "executing"
    BY <2>1 DEF DependencyInv, DependenciesStored
  <2>2. CASE row'.tasks = status'
    BY <2>2, <1>3 DEF HasDependencies, Satisfied, BatchMove
  <2>3. ASSUME NEW u \in Tasks, step[u] \in Storing, row'.tasks = snap[u].tasks
        PROVE  row'.tasks[d] = "completed"
    BY <2>3, <1>2 DEF DependencyInv
  <2> QED BY <2>1, <2>2, <2>3 DEF BatchMove
<1> QED BY <1>1, <1>3, <1>4, <1>5, <1>6 DEF DependencyInv

LEMMA AbortMoves ==
  ASSUME TypeOK, DependencyInv, NEW t \in Tasks, NEW e \in {"error", "cancelled"}, Abort(t, e),
         pc' = pc, deps' = deps, snap' = snap,
         \A u \in Tasks : status'[u] = "completed" <=> status[u] = "completed",
         \/ row'.tasks = row.tasks
         \/ row'.tasks = status'
         \/ step[t] \in Storing /\ row'.tasks = snap[t].tasks
  PROVE  BatchMove
<1>1. step' \in [Tasks -> Steps]
  BY AbortType
<1>2. \A u \in Tasks : step'[u] \in {step[u], "none"}
  BY DEF Abort, TypeOK
<1> QED BY <1>1, <1>2 DEF BatchMove, DependencyInv, Unfinished, Storing

LEMMA TaskStepMoves ==
  ASSUME TypeOK, DependencyInv, NEW t \in Tasks, TaskStep(t)
  PROVE  BatchMove
<1>0. TypeOK'
  BY TaskTypeStep
<1>a. \A u \in Tasks : step[u] \in Unfinished => status[u] # "completed"
  BY DEF DependencyInv
<1> USE DEF UnchangedPhase, graphVars, memVars
<1>1. CASE Begin(t)
  BY <1>0, <1>1, <1>a DEF TypeOK, BatchMove, Begin, GoTo, Unfinished, Storing
<1>2. CASE CopyState(t)
  <2>1. snap'[t].tasks = status
    BY <1>2 DEF TypeOK, CopyState, Copy
  <2>2. \A u \in Tasks \ {t} : snap'[u] = snap[u] /\ step'[u] = step[u]
    BY <1>2 DEF TypeOK, CopyState, GoTo
  <2>3. step'[t] \in Unfinished => step[t] = "marked"
    BY <1>2 DEF TypeOK, CopyState, GoTo, Unfinished
  <2> QED BY <1>0, <1>2, <1>a, <2>1, <2>2, <2>3
          DEF TypeOK, BatchMove, CopyState, GoTo, Unfinished, Storing
<1>3. CASE SaveMarked(t)
  BY <1>0, <1>3, <1>a DEF TypeOK, BatchMove, SaveMarked, GoTo, Unfinished, Storing
<1>4. CASE StoreFails(t)
  BY <1>4, AbortMoves DEF StoreFails
<1>5. CASE ExecReturns(t)
  BY <1>0, <1>5, <1>a DEF TypeOK, BatchMove, ExecReturns, GoTo, Unfinished, Storing
<1>6. CASE TaskCancelled(t)
  <2>1. \A u \in Tasks : status'[u] = "completed" <=> status[u] = "completed"
    BY <1>6 DEF TaskCancelled, CancelRun, TypeOK
  <2>2. row'.tasks = row.tasks \/ row'.tasks = status'
    BY <1>6 DEF TaskCancelled, CancelRun, Copy
  <2> QED BY <1>6, <2>1, <2>2, AbortMoves DEF TaskCancelled
<1>7. CASE TaskCompletes(t)
  <2>1. [status EXCEPT ![t] = "completed"] \in [Tasks -> TaskStatuses]
    BY DEF TypeOK, TaskStatuses
  <2>2. \A u \in Tasks : status'[u] = "completed" <=> (u = t \/ status[u] = "completed")
    BY <1>7, <2>1, RefreshedKeeps DEF TypeOK, TaskCompletes
  <2> QED BY <1>0, <1>7, <1>a, <2>2
          DEF TypeOK, BatchMove, TaskCompletes, GoTo, Unfinished, Storing
<1>8. CASE TaskFails(t)
  BY <1>0, <1>8, <1>a DEF TypeOK, BatchMove, TaskFails, GoTo, Unfinished, Storing
<1>9. CASE StoreCompleted(t)
  <2>1. CASE row' = snap[t] /\ NoFault /\ GoTo(t, "none") /\ UNCHANGED <<broken, err>>
    BY <1>0, <1>9, <1>a, <2>1 DEF TypeOK, BatchMove, StoreCompleted, GoTo, Unfinished, Storing
  <2>2. CASE StoreError /\ UNCHANGED row /\ Abort(t, "error")
    BY <1>9, <2>2, AbortMoves DEF StoreCompleted
  <2> QED BY <1>9, <2>1, <2>2 DEF StoreCompleted
<1>10. CASE StoreFailed(t)
  BY <1>10, AbortMoves DEF StoreFailed, SaveIfPossible, Storing
<1> QED BY <1>1, <1>2, <1>3, <1>4, <1>5, <1>6, <1>7, <1>8, <1>9, <1>10 DEF TaskStep

\* Only tasks whose dependencies are complete are put into a batch.
LEMMA CheckinQueuesReady ==
  ASSUME TypeOK, DependencyInv, CheckinPasses
  PROVE  DependencyInv'
<1>1. \A t \in Tasks : step'[t] # "none" => step'[t] = "queued" /\ t \in Runnable(status)
  BY DEF CheckinPasses, NextBatch
<1>2. pc' = "batch" /\ status' = status /\ deps' = deps
  BY DEF CheckinPasses, memVars, graphVars
<1> QED BY <1>1, <1>2 DEF DependencyInv, DependenciesStored, HasDependencies, Satisfied, Runnable,
                          Unfinished, Storing

LEMMA DependencyStep == TypeOK /\ DependencyInv /\ [Next]_vars => DependencyInv'
<1> SUFFICES ASSUME TypeOK, DependencyInv, [Next]_vars PROVE DependencyInv'
  OBVIOUS
<1>1. CASE StartRun \/ Remediate
  BY <1>1, NothingUnderWay DEF StartRun, Remediate, DependencyInv, batchVars
<1>2. CASE PhaseStep
  <2>1. CASE CheckinPasses
    BY <2>1, CheckinQueuesReady
  <2>2. CASE BatchEnds
    BY <2>2, NothingUnderWay DEF BatchEnds
  <2>3. CASE PhaseStep /\ ~CheckinPasses /\ ~BatchEnds
    <3>1. pc # "batch" /\ step' = step
      BY <2>3 DEF PhaseStep, NextPass, LoopCancelled, CheckinFails, EndCancelled, EndFailed,
                  EndWell, MarkReady, batchVars
    <3> QED BY <3>1, NothingUnderWay DEF DependencyInv
  <2> QED BY <1>2, <2>1, <2>2, <2>3
<1>3. CASE \E t \in Tasks : TaskStep(t)
  BY <1>3, TaskStepMoves, MoveKeepsDependencies
<1>4. CASE ApiCancels
  <2>1. row'.tasks = row.tasks
    BY <1>4 DEF ApiCancels, TypeOK, Row
  <2> QED BY <1>4, <2>1 DEF ApiCancels, DependencyInv, DependenciesStored, HasDependencies,
         Satisfied,
                            graphVars, memVars, batchVars
<1>5. CASE Crash
  BY <1>5, NothingUnderWay DEF Crash
<1>6. CASE UNCHANGED vars
  BY <1>6 DEF vars, graphVars, memVars, batchVars, DependencyInv, DependenciesStored,
              HasDependencies, Satisfied
<1> QED BY <1>1, <1>2, <1>3, <1>4, <1>5, <1>6 DEF Next

LEMMA DependencyInit == Init => DependencyInv
BY DEF Init, DependencyInv, DependenciesStored, HasDependencies, Idle, Unfinished, Storing

\* Whatever the number of tasks and goroutines, whichever saves fail and in
\* whatever order they arrive, a model is only asked to execute a task when the
\* completion of all it depends on is in the store.
THEOREM DependenciesAreStored == Spec => []DependenciesStored
<1>1. DependencyInv => DependenciesStored
  BY DEF DependencyInv
<1> QED BY <1>1, DependencyInit, DependencyStep, TypeCorrect, PTL DEF Spec

-----------------------------------------------------------------------------
(* What a run leaves in the row.                                            *)
Live == {"running", "cancelled"}

\* While a run is under way nobody writes a row as pending or failed, and an
\* ErrCancelled always comes with a state that says cancelled: that is why the
\* saves at the end of a run, in whichever order they fail, settle the row.
RunStatusInv ==
  /\ err = "cancelled" => wsStatus = "cancelled"
  /\ pc = "passed" => err = "none"
  /\ pc # "idle" => wsStatus \in Live /\ row.status \in Live
  /\ \A t \in Tasks : step[t] \in Storing => snap[t].status \in Live
  /\ IdleRowSettled

LEMMA OnlyInBatch ==
  ASSUME TypeOK, DependencyInv, NEW t \in Tasks, step[t] # "none"
  PROVE  pc = "batch"
BY DEF DependencyInv, Idle

LEMMA NoFaultSoFar ==
  ASSUME TypeOK, Fault \/ NoFault, faults' = 0
  PROVE  faults = 0 /\ NoFault
BY PodPhaseAssumption DEF TypeOK, Fault, NoFault

LEMMA CopyFields ==
  /\ Copy.status = wsStatus /\ Copy.tasks = status /\ Copy.gate = gate
  /\ \A s : [Copy EXCEPT !.status = s].status = s /\ [Copy EXCEPT !.status = s].tasks = status
  /\ \A s, ts : /\ [Copy EXCEPT !.status = s, !.tasks = ts].status = s
               /\ [Copy EXCEPT !.status = s, !.tasks = ts].tasks = ts
  /\ \A g : [Copy EXCEPT !.gate = g].status = wsStatus /\ [Copy EXCEPT !.gate = g].tasks = status
  /\ \A g, s : /\ [Copy EXCEPT !.gate = g, !.status = s].status = s
              /\ [Copy EXCEPT !.gate = g, !.status = s].tasks = status
BY DEF Copy

\* A run that finds its row cancelled leaves it cancelled.
LEMMA CancelStatus ==
  ASSUME TypeOK, CancelRun
  PROVE  wsStatus' = "cancelled" /\ row'.status = "cancelled"
BY CopyFields DEF CancelRun

LEMMA RunStatusTask ==
  ASSUME TypeOK, DependencyInv, RunStatusInv, NEW t \in Tasks, TaskStep(t)
  PROVE  RunStatusInv'
<1>1. step[t] # "none"
  BY DEF TaskStep, Begin, CopyState, SaveMarked, StoreFails, ExecReturns, TaskCancelled,
         TaskCompletes, TaskFails, StoreCompleted, StoreFailed
<1>2. pc = "batch" /\ pc' = "batch"
  BY <1>1, OnlyInBatch, TaskStepMoves DEF BatchMove
<1>3. wsStatus \in Live /\ row.status \in Live
  BY <1>2 DEF RunStatusInv
<1>4. /\ err' = "cancelled" => wsStatus' = "cancelled"
      /\ wsStatus' \in Live /\ row'.status \in Live
  <2> USE <1>3 DEF UnchangedPhase, memVars
  <2>1. CASE Begin(t) \/ CopyState(t) \/ ExecReturns(t) \/ TaskCompletes(t) \/ TaskFails(t)
    BY <2>1 DEF RunStatusInv, Begin, CopyState, ExecReturns, TaskCompletes, TaskFails
  <2>2. CASE SaveMarked(t)
    BY <2>2 DEF RunStatusInv, SaveMarked, Storing
  <2>3. CASE StoreFails(t)
    BY <2>3 DEF RunStatusInv, StoreFails, Abort
  <2>4. CASE TaskCancelled(t)
    BY <2>4, CancelStatus DEF TaskCancelled, Live
  <2>5. CASE StoreCompleted(t)
    BY <2>5 DEF RunStatusInv, StoreCompleted, Storing, Abort
  <2>6. CASE StoreFailed(t)
    BY <2>6 DEF RunStatusInv, StoreFailed, SaveIfPossible, Storing, Abort
  <2> QED BY <2>1, <2>2, <2>3, <2>4, <2>5, <2>6 DEF TaskStep
<1>5. \A u \in Tasks : step'[u] \in Storing => snap'[u].status \in Live
  <2>1. CASE CopyState(t)
    BY <2>1, <1>3, CopyFields DEF CopyState, GoTo, RunStatusInv, TypeOK, UnchangedPhase
  <2>2. CASE ~CopyState(t)
    <3>1. snap' = snap
      BY <2>2 DEF TaskStep, Begin, SaveMarked, StoreFails, ExecReturns, TaskCancelled,
         TaskCompletes, TaskFails, StoreCompleted, StoreFailed
    <3>2. \A u \in Tasks : step'[u] \in Storing => step[u] \in Storing
      BY <2>2 DEF TaskStep, Begin, SaveMarked, StoreFails, ExecReturns, TaskCancelled,
         TaskCompletes, TaskFails, StoreCompleted, StoreFailed, GoTo, Abort, TypeOK, Storing
    <3> QED BY <3>1, <3>2 DEF RunStatusInv
  <2> QED BY <2>1, <2>2
<1> QED BY <1>2, <1>4, <1>5 DEF RunStatusInv, IdleRowSettled

LEMMA RunStatusPhase ==
  ASSUME TypeOK, DependencyInv, RunStatusInv, PhaseStep
  PROVE  RunStatusInv'
<1>1. \A t \in Tasks : step'[t] \notin Storing
  <2>1. CASE CheckinPasses
    BY <2>1 DEF CheckinPasses, Storing
  <2>2. CASE ~CheckinPasses
    BY <2>2 DEF PhaseStep, NextPass, LoopCancelled, CheckinFails, BatchEnds, EndCancelled,
                EndFailed, EndWell, MarkReady, batchVars, DependencyInv, Idle, Storing
  <2> QED BY <2>1, <2>2
<1>2. pc # "idle" /\ wsStatus \in Live /\ row.status \in Live
  BY DEF RunStatusInv, PhaseStep, NextPass, LoopCancelled, CheckinPasses, CheckinFails, BatchEnds,
         EndCancelled, EndFailed, EndWell, MarkReady
<1> USE <1>1, <1>2 DEF RunStatusInv, IdleRowSettled
<1>3. CASE NextPass \/ CheckinFails \/ BatchEnds
  BY <1>3 DEF NextPass, CheckinFails, BatchEnds, memVars
<1>4. CASE LoopCancelled
  BY <1>4, CancelStatus DEF LoopCancelled
<1>5. CASE CheckinPasses
  BY <1>5, CopyFields DEF CheckinPasses, SaveIfPossible, memVars
<1>6. CASE EndCancelled
  BY <1>6, CopyFields DEF EndCancelled
<1>7. CASE EndFailed
  <2>1. wsStatus' # "running"
    BY <1>7 DEF EndFailed, TypeOK
  <2>2. ASSUME faults' = 0 PROVE row'.status # "running"
    <3>1. NoFault /\ ~Fault
      BY <1>7, <2>2, NoFaultSoFar, PodPhaseAssumption DEF EndFailed, Fault, NoFault, TypeOK
    <3> QED BY <1>7, <2>1, <3>1, CopyFields DEF EndFailed
  <2> QED BY <1>7, <2>2 DEF EndFailed
<1>8. CASE EndWell
  BY <1>8, CopyFields DEF EndWell
<1>9. CASE MarkReady
  <2>1. CASE row' = [Copy EXCEPT !.gate = TRUE] /\ pc' = "done" /\ NoFault /\ UNCHANGED wsStatus
    BY <1>9, <2>1, CopyFields DEF MarkReady
  <2>2. CASE wsStatus' = "failed" /\ pc' = "idle" /\ Fault
    BY <1>9, <2>2, PodPhaseAssumption DEF MarkReady, Fault, TypeOK
  <2> QED BY <1>9, <2>1, <2>2 DEF MarkReady
<1> QED BY <1>3, <1>4, <1>5, <1>6, <1>7, <1>8, <1>9 DEF PhaseStep

LEMMA RunStatusInit == Init => RunStatusInv
BY DEF Init, RunStatusInv, IdleRowSettled, Idle, Storing

LEMMA RunStatusStep == TypeOK /\ DependencyInv /\ RunStatusInv /\ [Next]_vars => RunStatusInv'
<1> SUFFICES ASSUME TypeOK, DependencyInv, RunStatusInv, [Next]_vars PROVE RunStatusInv'
  OBVIOUS
<1>1. CASE StartRun
  <2>1. row'.status = "running"
    BY <1>1 DEF StartRun, TypeOK, Row
  <2> QED BY <1>1, <2>1 DEF StartRun, RunStatusInv, IdleRowSettled, Live, batchVars
<1>2. CASE PhaseStep
  BY <1>2, RunStatusPhase
<1>3. CASE \E t \in Tasks : TaskStep(t)
  BY <1>3, RunStatusTask
<1>4. CASE Remediate
  <2>1. row'.status = wsStatus
    BY <1>4, CopyFields DEF Remediate, Copy
  <2> QED BY <1>4, <2>1 DEF Remediate, RunStatusInv, IdleRowSettled, Live, batchVars
<1>5. CASE ApiCancels
  <2>1. row'.status = "cancelled"
    BY <1>5 DEF ApiCancels, TypeOK, Row
  <2> QED BY <1>5, <2>1 DEF ApiCancels, RunStatusInv, IdleRowSettled, Live, memVars, batchVars
<1>6. CASE Crash
  <2>1. row'.status # "running"
    BY <1>6 DEF Crash, TypeOK, Row
  <2> QED BY <1>6, <2>1 DEF Crash, RunStatusInv, IdleRowSettled, Idle, Storing, memVars
<1>7. CASE UNCHANGED vars
  BY <1>7 DEF vars, memVars, batchVars, RunStatusInv, IdleRowSettled
<1> QED BY <1>1, <1>2, <1>3, <1>4, <1>5, <1>6, <1>7 DEF Next

\* For every number of tasks and goroutines: as long as the store works, a run
\* that is over has left its row failed or cancelled, never running, wherever a
\* cancellation, an error or a crash met it.
THEOREM IdleRowsSettle == Spec => []IdleRowSettled
<1>1. RunStatusInv => IdleRowSettled
  BY DEF RunStatusInv
<1> QED BY <1>1, RunStatusInit, RunStatusStep, TypeInit, TypeStep, DependencyInit, DependencyStep,
           PTL DEF Spec

-----------------------------------------------------------------------------
(* The loop ends without an error only when there is nothing left to run.   *)
NothingLeftInv == pc = "ending" /\ err = "none" => Runnable(status) = {}

LEMMA NothingLeftStep == TypeOK /\ DependencyInv /\ NothingLeftInv /\ [Next]_vars => NothingLeftInv'
<1> SUFFICES ASSUME TypeOK, DependencyInv, NothingLeftInv, [Next]_vars,
                    pc' = "ending", err' = "none"
             PROVE  Runnable(status)' = {}
  BY DEF NothingLeftInv
<1>1. CASE NextPass
  BY <1>1 DEF NextPass, Runnable, Satisfied, graphVars
<1>2. CASE ApiCancels \/ UNCHANGED vars
  BY <1>2 DEF ApiCancels, vars, memVars, graphVars, NothingLeftInv, Runnable, Satisfied
<1>3. CASE \E t \in Tasks : TaskStep(t)
  <2> PICK t \in Tasks : TaskStep(t)
    BY <1>3
  <2>1. step[t] # "none"
    BY DEF TaskStep, Begin, CopyState, SaveMarked, StoreFails, ExecReturns, TaskCancelled,
           TaskCompletes, TaskFails, StoreCompleted, StoreFailed
  <2>2. pc' = "batch"
    BY <2>1, OnlyInBatch, TaskStepMoves DEF BatchMove
  <2> QED BY <2>2
<1>4. CASE StartRun \/ Remediate \/ Crash
  BY <1>4 DEF StartRun, Remediate, Crash
<1>5. CASE PhaseStep /\ ~NextPass
  BY <1>5 DEF PhaseStep, LoopCancelled, CheckinPasses, CheckinFails, BatchEnds, EndCancelled,
              EndFailed, EndWell, MarkReady
<1> QED BY <1>1, <1>2, <1>3, <1>4, <1>5 DEF Next

LEMMA NothingLeftInit == Init => NothingLeftInv
BY DEF Init, NothingLeftInv

LEMMA StepNotNone ==
  ASSUME NEW t \in Tasks, TaskStep(t)
  PROVE  step[t] # "none"
BY DEF TaskStep, Begin, CopyState, SaveMarked, StoreFails, ExecReturns, TaskCancelled,
       TaskCompletes, TaskFails, StoreCompleted, StoreFailed

LEMMA TogetherKept ==
  ASSUME NEW t \in Tasks, TaskStep(t)
  PROVE  UNCHANGED <<together, graphVars, pc, runs>>
BY DEF TaskStep, Begin, CopyState, SaveMarked, StoreFails, ExecReturns, TaskCancelled,
       TaskCompletes,
       TaskFails, StoreCompleted, StoreFailed, UnchangedPhase

-----------------------------------------------------------------------------
(* How much of a phase is left.                                             *)

\* The steps of executePodTask that a task has before it.  A task that is not
\* complete has to be queued again, unless an error has ended the passes.
StepsLeft(s) ==
  CASE s = "queued" -> 7
    [] s = "marked" -> 6
    [] s = "saving" -> 5
    [] s = "executing" -> 4
    [] s \in {"good", "bad"} -> 3
    [] s = "wrapup" -> 2
    [] s = "storing" -> 1
    [] OTHER -> 0
Open(t) == t \in pod /\ status[t] # "completed" /\ err = "none"
Ahead(t) == IF step[t] # "none" THEN StepsLeft(step[t]) ELSE IF Open(t) THEN 8 ELSE 0
AllAhead == [t \in Tasks |-> Ahead(t)]

\* The sum of the numbers from 0 to 8 that m gives the tasks.
AtLeast(m, k) == Cardinality({t \in Tasks : m[t] >= k})
Total(m) ==
  AtLeast(m, 1) + AtLeast(m, 2) + AtLeast(m, 3) + AtLeast(m, 4)
    + AtLeast(m, 5) + AtLeast(m, 6) + AtLeast(m, 7) + AtLeast(m, 8)

PassRest ==
  CASE pc = "batch" -> 5
    [] pc = "loop" -> 4
    [] pc = "checkin" -> 3
    [] pc = "ending" -> 2
    [] OTHER -> 1

Underway == pc \notin {"idle", "done"}
PhaseRank == IF Underway THEN 3 * Total(AllAhead) + PassRest ELSE 0
PhaseLimit == 24 * NumTasks + 5

Weights == [Tasks -> 0..8]

LEMMA AtLeastType ==
  ASSUME NEW m \in Weights, NEW k \in 1..8
  PROVE  AtLeast(m, k) \in 0..NumTasks
<1>1. IsFiniteSet(Tasks) /\ Cardinality(Tasks) = NumTasks
  BY FS_Interval, PodPhaseAssumption DEF Tasks
<1>2. {t \in Tasks : m[t] >= k} \in SUBSET Tasks
  OBVIOUS
<1>3. /\ IsFiniteSet({t \in Tasks : m[t] >= k})
      /\ Cardinality({t \in Tasks : m[t] >= k}) <= Cardinality(Tasks)
  BY <1>1, <1>2, FS_Subset
<1> QED BY <1>1, <1>3, FS_CardinalityType, PodPhaseAssumption DEF AtLeast

LEMMA AtLeastFalls ==
  ASSUME NEW m \in Weights, NEW n \in Weights, \A t \in Tasks : n[t] <= m[t], NEW k \in 1..8
  PROVE  /\ AtLeast(n, k) <= AtLeast(m, k)
         /\ \A t \in Tasks : n[t] < k /\ m[t] >= k => AtLeast(n, k) < AtLeast(m, k)
<1> DEFINE N == {t \in Tasks : n[t] >= k}
           M == {t \in Tasks : m[t] >= k}
<1>1. IsFiniteSet(Tasks)
  BY FS_Interval, PodPhaseAssumption DEF Tasks
<1>2. M \in SUBSET Tasks
  OBVIOUS
<1>3. IsFiniteSet(M)
  BY <1>1, <1>2, FS_Subset
<1>4. N \in SUBSET M
  BY DEF Weights
<1>5. \A t \in Tasks : n[t] < k /\ m[t] >= k => t \in M /\ t \notin N
  BY DEF Weights
<1>6. AtLeast(n, k) = Cardinality(N) /\ AtLeast(m, k) = Cardinality(M)
  BY DEF AtLeast
<1>7. AtLeast(n, k) \in Nat /\ AtLeast(m, k) \in Nat
  BY AtLeastType, PodPhaseAssumption
<1> HIDE DEF N, M
<1>8. Cardinality(N) <= Cardinality(M) /\ (Cardinality(M) = Cardinality(N) => M = N)
  BY <1>3, <1>4, FS_Subset
<1> QED BY <1>5, <1>6, <1>7, <1>8

LEMMA TotalType == ASSUME NEW m \in Weights PROVE Total(m) \in Nat /\ Total(m) <= 8 * NumTasks
<1>1. \A k \in 1..8 : AtLeast(m, k) \in 0..NumTasks
  BY AtLeastType
<1>2. /\ AtLeast(m, 1) \in 0..NumTasks /\ AtLeast(m, 2) \in 0..NumTasks
      /\ AtLeast(m, 3) \in 0..NumTasks /\ AtLeast(m, 4) \in 0..NumTasks
      /\ AtLeast(m, 5) \in 0..NumTasks /\ AtLeast(m, 6) \in 0..NumTasks
      /\ AtLeast(m, 7) \in 0..NumTasks /\ AtLeast(m, 8) \in 0..NumTasks
  BY <1>1
<1> QED BY <1>2, PodPhaseAssumption DEF Total

\* The sum falls when a number falls and none rises.
LEMMA TotalFalls ==
  ASSUME NEW m \in Weights, NEW n \in Weights, \A t \in Tasks : n[t] <= m[t]
  PROVE  /\ Total(n) <= Total(m)
         /\ \A t \in Tasks : n[t] < m[t] => Total(n) < Total(m)
<1>1. \A k \in 1..8 : AtLeast(m, k) \in Nat /\ AtLeast(n, k) \in Nat /\ AtLeast(n, k) <= AtLeast(m, k)
  BY AtLeastType, AtLeastFalls, PodPhaseAssumption
<1>2. /\ AtLeast(m, 1) \in Nat /\ AtLeast(n, 1) \in Nat /\ AtLeast(n, 1) <= AtLeast(m, 1)
      /\ AtLeast(m, 2) \in Nat /\ AtLeast(n, 2) \in Nat /\ AtLeast(n, 2) <= AtLeast(m, 2)
      /\ AtLeast(m, 3) \in Nat /\ AtLeast(n, 3) \in Nat /\ AtLeast(n, 3) <= AtLeast(m, 3)
      /\ AtLeast(m, 4) \in Nat /\ AtLeast(n, 4) \in Nat /\ AtLeast(n, 4) <= AtLeast(m, 4)
      /\ AtLeast(m, 5) \in Nat /\ AtLeast(n, 5) \in Nat /\ AtLeast(n, 5) <= AtLeast(m, 5)
      /\ AtLeast(m, 6) \in Nat /\ AtLeast(n, 6) \in Nat /\ AtLeast(n, 6) <= AtLeast(m, 6)
      /\ AtLeast(m, 7) \in Nat /\ AtLeast(n, 7) \in Nat /\ AtLeast(n, 7) <= AtLeast(m, 7)
      /\ AtLeast(m, 8) \in Nat /\ AtLeast(n, 8) \in Nat /\ AtLeast(n, 8) <= AtLeast(m, 8)
  BY <1>1
<1>3. Total(n) <= Total(m)
  BY <1>2 DEF Total
<1>4. ASSUME NEW t \in Tasks, n[t] < m[t] PROVE Total(n) < Total(m)
  <2>1. m[t] \in 1..8
    BY <1>4 DEF Weights
  <2>2. PICK k \in 1..8 : AtLeast(n, k) < AtLeast(m, k)
    BY <1>4, <2>1, AtLeastFalls
  <2> QED BY <1>2, <2>2 DEF Total
<1> QED BY <1>3, <1>4

LEMMA AheadType == TypeOK => AllAhead \in Weights
BY DEF TypeOK, AllAhead, Ahead, StepsLeft, Weights, Steps

\* No error while the passes go on, a task queued by each check-in, and an
\* outcome for every task that is past its execution.
ProgressInv ==
  /\ pc \in {"loop", "checkin", "passed", "done"} => err = "none"
  /\ pc = "checkin" => Runnable(status) # {}
  /\ \A t \in Tasks : step[t] \in {"wrapup", "storing"} => status[t] \in {"completed", "failed"}

LEMMA ProgressInit == Init => ProgressInv
BY DEF Init, ProgressInv, Idle

\* What a step of task t may do to the others: queued tasks are dropped when it
\* fails.
Advances(t) ==
  /\ pc = "batch" /\ pc' = pc /\ pod' = pod /\ step[t] # "none"
  /\ step' \in [Tasks -> Steps] /\ StepsLeft(step'[t]) < StepsLeft(step[t])
  /\ step'[t] = "none" => status'[t] = "completed" \/ err' # "none"
  /\ \A u \in Tasks : status[u] = "completed" => status'[u] = "completed"
  /\ err # "none" => err' # "none"
  /\ \A u \in Tasks \ {t} : step'[u] = step[u] \/ (step'[u] = "none" /\ err' # "none")
  /\ \A u \in Tasks : step'[u] \in {"wrapup", "storing"} => status'[u] \in {"completed", "failed"}

LEMMA AbortAdvances ==
  ASSUME TypeOK, DependencyInv, ProgressInv, NEW t \in Tasks, NEW e \in {"error", "cancelled"},
         Abort(t, e), step[t] # "none", pod' = pod, pc' = pc,
         \A u \in Tasks : status'[u] \in {"completed", "failed"} <=> status[u] \in {"completed", "failed"},
         \A u \in Tasks : status[u] = "completed" => status'[u] = "completed"
  PROVE  Advances(t)
<1>1. pc = "batch" /\ step' \in [Tasks -> Steps]
  BY OnlyInBatch, AbortType
<1>2. /\ err' # "none" /\ step'[t] = "none"
      /\ \A u \in Tasks : step'[u] \in {step[u], "none"}
  BY DEF Abort, TypeOK
<1>3. StepsLeft(step'[t]) < StepsLeft(step[t])
  BY <1>2 DEF TypeOK, Steps, StepsLeft
<1> QED BY <1>1, <1>2, <1>3 DEF Advances, ProgressInv

LEMMA GoToAdvances ==
  ASSUME TypeOK, DependencyInv, ProgressInv, NEW t \in Tasks, NEW s \in Steps \ {"none"}, GoTo(t, s),
         step[t] # "none", StepsLeft(s) < StepsLeft(step[t]), pod' = pod, pc' = pc, err' = err,
         \A u \in Tasks : status[u] = "completed" => status'[u] = "completed",
         \A u \in Tasks \ {t} : status[u] = "failed" => status'[u] = "failed",
         s \in {"wrapup", "storing"} => status'[t] \in {"completed", "failed"}
  PROVE  Advances(t)
<1>1. pc = "batch"
  BY OnlyInBatch
<1>2. /\ step' \in [Tasks -> Steps] /\ step'[t] = s
      /\ \A u \in Tasks \ {t} : step'[u] = step[u]
  BY DEF GoTo, TypeOK
<1> QED BY <1>1, <1>2 DEF Advances, ProgressInv

LEMMA TaskStepAdvances ==
  ASSUME TypeOK, DependencyInv, ProgressInv, NEW t \in Tasks, TaskStep(t)
  PROVE  Advances(t)
<1> USE DEF UnchangedPhase, graphVars, memVars
<1>0. step[t] # "none"
  BY StepNotNone
<1>1. CASE Begin(t)
  <2>1. \A u \in Tasks \ {t} : status'[u] = status[u]
    BY <1>1 DEF Begin, TypeOK
  <2>2. status[t] # "completed"
    BY <1>1 DEF Begin, DependencyInv, Unfinished
  <2> QED BY <1>0, <1>1, <2>1, <2>2, GoToAdvances DEF Begin, StepsLeft, Steps
<1>2. CASE CopyState(t)
  <2>1. CASE step[t] = "marked"
    BY <1>0, <1>2, <2>1, GoToAdvances DEF CopyState, StepsLeft, Steps
  <2>2. CASE step[t] = "wrapup"
    BY <1>0, <1>2, <2>2, GoToAdvances DEF CopyState, StepsLeft, Steps, ProgressInv
  <2> QED BY <1>2, <2>1, <2>2 DEF CopyState
<1>3. CASE SaveMarked(t)
  BY <1>0, <1>3, GoToAdvances DEF SaveMarked, StepsLeft, Steps
<1>4. CASE StoreFails(t)
  BY <1>0, <1>4, AbortAdvances DEF StoreFails
<1>5. CASE ExecReturns(t)
  BY <1>0, <1>5, GoToAdvances DEF ExecReturns, StepsLeft, Steps
<1>6. CASE TaskCancelled(t)
  <2>1. /\ \A u \in Tasks : status'[u] \in {"completed", "failed"} <=> status[u] \in {"completed", "failed"}
        /\ \A u \in Tasks : status[u] = "completed" => status'[u] = "completed"
    BY <1>6 DEF TaskCancelled, CancelRun, TypeOK
  <2> QED BY <1>0, <1>6, <2>1, AbortAdvances DEF TaskCancelled
<1>7. CASE TaskCompletes(t)
  <2>1. [status EXCEPT ![t] = "completed"] \in [Tasks -> TaskStatuses]
    BY DEF TypeOK, TaskStatuses
  <2>2. \A u \in Tasks : u = t \/ status[u] = "completed" => status'[u] = "completed"
    BY <1>7, <2>1, RefreshedKeeps DEF TypeOK, TaskCompletes
  <2>3. \A u \in Tasks \ {t} : status[u] = "failed" => status'[u] = "failed"
    BY <1>7 DEF TaskCompletes, Refreshed, TypeOK
  <2>4. status'[t] = "completed" /\ \A u \in Tasks : status[u] = "completed" => status'[u] = "completed"
    BY <2>2
  <2>5. GoTo(t, "wrapup") /\ step[t] = "good" /\ pod' = pod /\ pc' = pc /\ err' = err
    BY <1>7 DEF TaskCompletes
  <2>6. "wrapup" \in Steps \ {"none"} /\ StepsLeft("wrapup") < StepsLeft("good")
    BY DEF Steps, StepsLeft
  <2> QED BY <1>0, <2>3, <2>4, <2>5, <2>6, GoToAdvances
<1>8. CASE TaskFails(t)
  <2>1. status'[t] = "failed" /\ \A u \in Tasks \ {t} : status'[u] = status[u]
    BY <1>8 DEF TaskFails, TypeOK
  <2>2. status[t] # "completed"
    BY <1>8 DEF TaskFails, DependencyInv, Unfinished
  <2> QED BY <1>0, <1>8, <2>1, <2>2, GoToAdvances DEF TaskFails, StepsLeft, Steps
<1>9. CASE StoreCompleted(t)
  <2>1. CASE row' = snap[t] /\ NoFault /\ GoTo(t, "none") /\ UNCHANGED <<broken, err>>
    <3>1. /\ step' \in [Tasks -> Steps] /\ step'[t] = "none"
          /\ \A u \in Tasks \ {t} : step'[u] = step[u]
      BY <2>1 DEF GoTo, TypeOK, Steps
    <3>2. status[t] = "completed" /\ status' = status /\ pc' = pc /\ pod' = pod /\ err' = err
      BY <1>9, <2>1 DEF StoreCompleted, ProgressInv
    <3>3. step[t] = "storing" /\ StepsLeft("none") < StepsLeft("storing")
      BY <1>9 DEF StoreCompleted, StepsLeft
    <3>4. pc = "batch"
      BY <1>0, OnlyInBatch
    <3> QED BY <3>1, <3>2, <3>3, <3>4 DEF Advances, ProgressInv
  <2>2. CASE StoreError /\ UNCHANGED row /\ Abort(t, "error")
    BY <1>0, <1>9, <2>2, AbortAdvances DEF StoreCompleted
  <2> QED BY <1>9, <2>1, <2>2 DEF StoreCompleted
<1>10. CASE StoreFailed(t)
  BY <1>0, <1>10, AbortAdvances DEF StoreFailed
<1> QED BY <1>1, <1>2, <1>3, <1>4, <1>5, <1>6, <1>7, <1>8, <1>9, <1>10 DEF TaskStep

LEMMA ProgressStep == TypeOK /\ DependencyInv /\ ProgressInv /\ [Next]_vars => ProgressInv'
<1> SUFFICES ASSUME TypeOK, DependencyInv, ProgressInv, [Next]_vars PROVE ProgressInv'
  OBVIOUS
<1>1. CASE StartRun \/ Remediate
  BY <1>1 DEF StartRun, Remediate, DependencyInv, batchVars, ProgressInv, Idle
<1>2. CASE PhaseStep
  <2>1. pc' # "batch" => step' = Idle
    BY <1>2, DependencyStep DEF Next, DependencyInv
  <2>2. \A t \in Tasks : step'[t] \notin {"wrapup", "storing"}
    <3>1. CASE CheckinPasses
      BY <3>1 DEF CheckinPasses
    <3>2. CASE ~CheckinPasses
      <4>1. pc' # "batch"
        BY <1>2, <3>2 DEF PhaseStep, NextPass, LoopCancelled, CheckinFails, BatchEnds, EndCancelled,
                          EndFailed, EndWell, MarkReady
      <4> QED BY <2>1, <4>1 DEF Idle
    <3> QED BY <3>1, <3>2
  <2>3. pc' \in {"loop", "checkin", "passed", "done"} => err' = "none"
    BY <1>2 DEF PhaseStep, NextPass, LoopCancelled, CheckinPasses, CheckinFails, BatchEnds,
                EndCancelled, EndFailed, EndWell, MarkReady, ProgressInv
  <2>4. pc' = "checkin" => Runnable(status)' # {}
    <3>1. pc' = "checkin" => NextPass
      BY <1>2 DEF PhaseStep, LoopCancelled, CheckinPasses, CheckinFails, BatchEnds, EndCancelled,
                  EndFailed, EndWell, MarkReady
    <3> QED BY <3>1 DEF NextPass, Runnable, Satisfied, graphVars
  <2> QED BY <2>2, <2>3, <2>4 DEF ProgressInv
<1>3. CASE \E t \in Tasks : TaskStep(t)
  <2> PICK t \in Tasks : TaskStep(t)
    BY <1>3
  <2>1. Advances(t)
    BY TaskStepAdvances
  <2> QED BY <2>1 DEF Advances, ProgressInv
<1>4. CASE ApiCancels \/ UNCHANGED vars
  BY <1>4 DEF ApiCancels, vars, graphVars, memVars, batchVars, ProgressInv, Runnable, Satisfied
<1>5. CASE Crash
  BY <1>5 DEF Crash, ProgressInv, Idle
<1> QED BY <1>1, <1>2, <1>3, <1>4, <1>5 DEF Next

\* A step of a task leaves less before it and no more before the others.
LEMMA TaskSpends ==
  ASSUME TypeOK, TypeOK', NEW t \in Tasks, Advances(t)
  PROVE  Total(AllAhead') < Total(AllAhead)
<1>1. AllAhead \in Weights /\ AllAhead' \in Weights
  <2>1. (TypeOK => AllAhead \in Weights)'
    BY AheadType, PTL
  <2> QED BY <2>1, AheadType DEF Weights
<1>2. /\ \A u \in Tasks : AllAhead[u] = Ahead(u)
      /\ \A u \in Tasks : AllAhead'[u] = Ahead(u)'
  BY DEF AllAhead
<1>3. AllAhead'[t] < AllAhead[t]
  <2>1. step[t] \in Steps /\ step'[t] \in Steps
    BY DEF TypeOK
  <2>2. Ahead(t) = StepsLeft(step[t])
    BY DEF Advances, Ahead
  <2>3. Ahead(t)' = StepsLeft(step'[t])
    BY DEF Advances, Ahead, Open, StepsLeft
  <2> QED BY <1>2, <2>2, <2>3 DEF Advances
<1>4. ASSUME NEW u \in Tasks \ {t} PROVE AllAhead'[u] <= AllAhead[u]
  <2>1. Open(u)' => Open(u)
    BY DEF Advances, Open
  <2>2. CASE step'[u] = step[u]
    <3>1. Ahead(u)' = Ahead(u) \/ (Ahead(u)' = 0 /\ Ahead(u) = 8)
      BY <2>1, <2>2 DEF Ahead
    <3> QED BY <1>1, <1>2, <3>1 DEF Weights
  <2>3. CASE step'[u] = "none" /\ err' # "none"
    <3>1. Ahead(u)' = 0
      BY <2>3 DEF Ahead, Open
    <3> QED BY <1>1, <1>2, <3>1 DEF Weights
  <2> QED BY <2>2, <2>3 DEF Advances
<1>5. AllAhead'[t] <= AllAhead[t]
  BY <1>1, <1>3 DEF Weights
<1>6. \A u \in Tasks : AllAhead'[u] <= AllAhead[u]
  BY <1>4, <1>5
<1> QED BY <1>1, <1>3, <1>6, TotalFalls

\* The steps between the batches leave nobody more.
LEMMA PassesSpend ==
  ASSUME TypeOK, TypeOK', ProgressInv, DependencyInv, PhaseStep
  PROVE  /\ Total(AllAhead') <= Total(AllAhead)
         /\ CheckinPasses => Total(AllAhead') < Total(AllAhead)
<1>1. AllAhead \in Weights /\ AllAhead' \in Weights
  <2>1. (TypeOK => AllAhead \in Weights)'
    BY AheadType, PTL
  <2> QED BY <2>1, AheadType DEF Weights
<1>2. /\ \A u \in Tasks : AllAhead[u] = Ahead(u)
      /\ \A u \in Tasks : AllAhead'[u] = Ahead(u)'
  BY DEF AllAhead
<1>3. CASE ~CheckinPasses
  <2>1. step' = step /\ pod' = pod
    BY <1>3 DEF PhaseStep, NextPass, LoopCancelled, CheckinFails, BatchEnds, EndCancelled,
           EndFailed,
                EndWell, MarkReady, graphVars, batchVars
  <2>2. err # "none" => err' # "none"
    BY <1>3 DEF PhaseStep, NextPass, LoopCancelled, CheckinFails, BatchEnds, EndCancelled,
           EndFailed,
                EndWell, MarkReady
  <2>3. \A u \in Tasks : status[u] = "completed" => status'[u] = "completed"
    <3>1. CASE NextPass
      BY <3>1, RefreshedKeeps DEF NextPass, TypeOK
    <3>2. CASE LoopCancelled
      BY <3>2 DEF LoopCancelled, CancelRun, TypeOK
    <3>3. CASE ~NextPass /\ ~LoopCancelled
      <4>1. status' = status
        BY <1>3, <3>3 DEF PhaseStep, CheckinFails, BatchEnds, EndCancelled, EndFailed, EndWell,
                          MarkReady, memVars
      <4> QED BY <4>1
    <3> QED BY <3>1, <3>2, <3>3
  <2>4. ASSUME NEW u \in Tasks PROVE AllAhead'[u] <= AllAhead[u]
    <3>1. Open(u)' => Open(u)
      BY <2>1, <2>2, <2>3 DEF Open
    <3>2. Ahead(u)' = Ahead(u) \/ (Ahead(u)' = 0 /\ Ahead(u) = 8)
      BY <2>1, <3>1 DEF Ahead
    <3> QED BY <1>1, <1>2, <3>2 DEF Weights
  <2> QED BY <1>1, <1>3, <2>4, TotalFalls
<1>4. CASE CheckinPasses
  <2>1. /\ pc = "checkin" /\ step = Idle /\ err = "none"
        /\ err' = err /\ status' = status /\ pod' = pod /\ pod \subseteq Tasks
        /\ step' = [t \in Tasks |-> IF t \in NextBatch(status) THEN "queued" ELSE "none"]
    BY <1>4 DEF CheckinPasses, DependencyInv, ProgressInv, memVars, graphVars, TypeOK
  <2>2. PICK first \in Runnable(status) : \A t \in Runnable(status) : first <= t
    <3>1. Runnable(status) # {}
      BY <2>1 DEF ProgressInv
    <3>2. Runnable(status) \subseteq Nat
      <4>1. Tasks \subseteq Nat
        BY DEF Tasks
      <4> QED BY <2>1, <4>1 DEF Runnable
    <3> QED BY <3>1, <3>2, LeastNatural
  <2>3. first \in NextBatch(status)
    <3>1. \A t \in Runnable(status) : t \in Int
      BY <2>1, PodPhaseAssumption DEF Runnable, Tasks
    <3>2. {u \in Runnable(status) : u < first} = {}
      BY <2>2, <3>1
    <3> QED BY <3>2, FS_EmptySet, PodPhaseAssumption DEF NextBatch
  <2>4. \A t \in NextBatch(status) : t \in Tasks /\ Ahead(t) = 8 /\ Ahead(t)' = 7
    BY <2>1 DEF NextBatch, Runnable, Ahead, Open, StepsLeft, Idle
  <2>5. \A t \in Tasks \ NextBatch(status) : Ahead(t)' = Ahead(t)
    BY <2>1 DEF Ahead, Open, Idle
  <2>6. \A t \in Tasks : AllAhead'[t] <= AllAhead[t]
    BY <1>1, <1>2, <2>4, <2>5 DEF Weights
  <2>7. first \in Tasks /\ AllAhead'[first] < AllAhead[first]
    BY <1>2, <2>3, <2>4
  <2> QED BY <1>1, <2>6, <2>7, TotalFalls
<1> QED BY <1>3, <1>4

\* Whatever a step of a phase does, a failing one and a crash included, less of
\* the phase is left; only a call of the API leaves it as it is.
PhaseShrinks ==
  Underway =>
    /\ PhaseRank \in 1..PhaseLimit /\ PhaseRank' \in Nat
    /\ PhaseRank' < PhaseRank \/ (ApiCancels /\ PhaseRank' = PhaseRank)

LEMMA PhaseShrinkStep ==
  TypeOK /\ TypeOK' /\ DependencyInv /\ ProgressInv /\ [Next]_vars => [PhaseShrinks]_vars
<1> SUFFICES ASSUME TypeOK, TypeOK', DependencyInv, ProgressInv, Next, Underway
             PROVE  /\ PhaseRank \in 1..PhaseLimit /\ PhaseRank' \in Nat
                    /\ PhaseRank' < PhaseRank \/ (ApiCancels /\ PhaseRank' = PhaseRank)
  BY DEF PhaseShrinks
<1>1. /\ Total(AllAhead) \in Nat /\ Total(AllAhead) <= 8 * NumTasks /\ Total(AllAhead') \in Nat
  <2>1. (TypeOK => AllAhead \in Weights)'
    BY AheadType, PTL
  <2>2. AllAhead \in Weights /\ AllAhead' \in Weights
    BY <2>1, AheadType DEF Weights
  <2> QED BY <2>2, TotalType
<1>2. PassRest \in 1..5 /\ PassRest' \in 1..5
  BY DEF PassRest
<1>3. PICK a \in Nat, p \in 1..5 : a = Total(AllAhead) /\ p = PassRest
  BY <1>1, <1>2
<1>4. PICK b \in Nat, q \in 1..5 : b = Total(AllAhead') /\ q = PassRest'
  BY <1>1, <1>2
<1>a. PhaseRank = 3 * a + p
  BY <1>3 DEF PhaseRank
<1>b. PhaseRank' \in {3 * b + q, 0} /\ (~Underway' => PhaseRank' = 0)
  BY <1>4 DEF PhaseRank, Total, AtLeast
<1>5. PhaseRank \in 1..PhaseLimit /\ PhaseRank' \in Nat
  BY <1>1, <1>3, <1>a, <1>b, PodPhaseAssumption DEF PhaseLimit
<1>c. ASSUME b < a \/ (b <= a /\ q < p), q <= p + 2 PROVE PhaseRank' < PhaseRank
  BY <1>a, <1>b, <1>c
<1>6. CASE ~Underway'
  BY <1>5, <1>a, <1>b, <1>6, <1>3
<1>7. CASE Underway' /\ \E t \in Tasks : TaskStep(t)
  <2> PICK t \in Tasks : TaskStep(t)
    BY <1>7
  <2>1. Advances(t)
    BY TaskStepAdvances
  <2>2. Total(AllAhead') < Total(AllAhead)
    BY <2>1, TaskSpends
  <2>3. PassRest' = PassRest
    BY <2>1 DEF Advances, PassRest
  <2> QED BY <1>3, <1>4, <1>5, <1>c, <2>2, <2>3
<1>8. CASE Underway' /\ PhaseStep
  <2>1. Total(AllAhead') <= Total(AllAhead)
    BY <1>8, PassesSpend
  <2>2. CASE CheckinPasses
    <3>1. Total(AllAhead') < Total(AllAhead)
      BY <1>8, <2>2, PassesSpend
    <3>2. PassRest = 3 /\ PassRest' = 5
      BY <2>2 DEF CheckinPasses, PassRest
    <3> QED BY <1>3, <1>4, <1>5, <1>c, <3>1, <3>2
  <2>3. CASE ~CheckinPasses
    <3>1. PassRest' < PassRest
      BY <1>8, <2>3 DEF PhaseStep, NextPass, LoopCancelled, CheckinFails, BatchEnds, EndCancelled,
                        EndFailed, EndWell, MarkReady, PassRest, Underway
    <3> QED BY <1>3, <1>4, <1>5, <1>c, <2>1, <3>1
  <2> QED BY <2>2, <2>3
<1>9. CASE ApiCancels
  <2>1. PhaseRank' = PhaseRank
    BY <1>9 DEF ApiCancels, PhaseRank, Underway, PassRest, Total, AtLeast, AllAhead, Ahead, Open,
                graphVars, memVars, batchVars
  <2> QED BY <1>5, <1>9, <2>1
<1>10. Underway' => \/ \E t \in Tasks : TaskStep(t)
                    \/ PhaseStep \/ ApiCancels
  BY DEF Next, StartRun, Remediate, Crash, Underway
<1> QED BY <1>5, <1>6, <1>7, <1>8, <1>9, <1>10

\* However many tasks there are and however many run at once, and whatever the
\* models and the store answer, a phase takes no more than PhaseLimit steps of
\* its own: it is what PhaseEnds rests on.
THEOREM PhasesShrink == Spec => [][PhaseShrinks]_vars
<1>1. Spec => [](TypeOK /\ DependencyInv /\ ProgressInv)
  BY TypeInit, TypeStep, DependencyInit, DependencyStep, ProgressInit, ProgressStep, PTL DEF Spec
<1> QED BY <1>1, TypeStep, PhaseShrinkStep, PTL DEF Spec
-----------------------------------------------------------------------------
(* What a batch may lose.                                                   *)

\* A task between the moment it says running and its outcome.
InHand == {"marked", "saving", "executing", "good", "bad"}

\* What the store has as complete, or is about to have, the run knows; what a
\* goroutine is about to store of its own task is the outcome in memory.
KnownInv ==
  /\ pc # "idle" => \A t \in Tasks : row.tasks[t] = "completed" => status[t] = "completed"
  /\ \A u \in Tasks : step[u] \in Storing =>
       \A t \in Tasks : snap[u].tasks[t] = "completed" => status[t] = "completed"
  /\ \A t \in Tasks : step[t] = "storing" => snap[t].tasks[t] = status[t]

\* A batch that does not run in goroutines has one task: its copy is the state
\* in memory, and it does not go on after an error.
AloneInv ==
  /\ together => Concurrency > 1
  /\ ~together =>
       /\ \A t, u \in Tasks : step[t] # "none" /\ step[u] # "none" => t = u
       /\ broken => step = Idle
       /\ \A t \in Tasks : step[t] \in Storing => snap[t].tasks = status

\* Once a goroutine has found the row cancelled and stored all that is complete,
\* nothing is stored before the run ends.
CancelInv ==
  /\ broken => pc = "batch" /\ err # "none"
  /\ pc # "idle" /\ wsStatus = "cancelled" =>
       /\ pc = "ending" \/ (pc = "batch" /\ broken)
       /\ row.status = "cancelled"
       /\ \A t \in Tasks : status[t] = "completed" => row.tasks[t] = "completed"

\* A task that says running is in hand, or its goroutine has been cut off, by a
\* failing task of its batch in this run or an earlier one, or by a cancellation.
StrandedInv ==
  /\ \A t \in Tasks : cut[t] <= runs
  /\ pc # "idle" => runs > 0 /\ \A t \in Tasks : cut[t] = runs => err # "none"
  /\ faults = 0 =>
       /\ pc # "idle" => \A t \in Tasks : status[t] = "running" =>
            step[t] \in InHand \/ (Concurrency > 1 /\ cut[t] # 0) \/ wsStatus = "cancelled"
       /\ OnlyCutTasksStranded

LEMMA KnownInit == Init => KnownInv
BY DEF Init, KnownInv, Idle, Storing

LEMMA AloneInit == Init => AloneInv
BY DEF Init, AloneInv, Idle, Storing

LEMMA CancelInit == Init => CancelInv
BY DEF Init, CancelInv

LEMMA StrandedInit == Init => StrandedInv
BY PodPhaseAssumption DEF Init, StrandedInv, OnlyCutTasksStranded

\* What a task step does to the tasks that are complete.
LEMMA TaskCompletions ==
  ASSUME TypeOK, DependencyInv, NEW t \in Tasks, TaskStep(t)
  PROVE  /\ pc = "batch" /\ pc' = "batch"
         /\ \A u \in Tasks : status[u] = "completed" => status'[u] = "completed"
         /\ row'.tasks = row.tasks \/ row'.tasks = status' \/ (step[t] \in Storing /\ row' = snap[t])
<1>1. BatchMove /\ pc = "batch"
  BY TaskStepMoves, StepNotNone, OnlyInBatch
<1>2. row'.tasks = row.tasks \/ row'.tasks = status' \/ (step[t] \in Storing /\ row' = snap[t])
  <2>1. CASE TaskCancelled(t)
    BY <2>1, CopyFields DEF TaskCancelled, CancelRun
  <2>2. CASE ~TaskCancelled(t)
    <3>1. row' = row \/ (step[t] \in Storing /\ row' = snap[t])
      BY <2>2 DEF TaskStep, Begin, CopyState, SaveMarked, StoreFails, ExecReturns, TaskCompletes,
                  TaskFails, StoreCompleted, StoreFailed, SaveIfPossible, Storing
    <3> QED BY <3>1
  <2> QED BY <2>1, <2>2
<1> QED BY <1>1, <1>2 DEF BatchMove

\* What a phase step does to them.
LEMMA PhaseCompletions ==
  ASSUME TypeOK, PhaseStep
  PROVE  /\ pc # "idle"
         /\ row'.tasks \in {row.tasks, status, status'}
         /\ \A t \in Tasks : status[t] = "completed" => status'[t] = "completed"
<1>1. pc # "idle"
  BY DEF PhaseStep, NextPass, LoopCancelled, CheckinPasses, CheckinFails, BatchEnds, EndCancelled,
         EndFailed, EndWell, MarkReady
<1>2. row'.tasks \in {row.tasks, status, status'}
  <2>1. CASE LoopCancelled
    BY <2>1, CopyFields DEF LoopCancelled, CancelRun
  <2>2. CASE EndFailed
    <3>1. row' \in {row, Copy, [Copy EXCEPT !.status = wsStatus']}
      BY <2>2 DEF EndFailed
    <3> QED BY <3>1, CopyFields
  <2>3. CASE MarkReady
    <3>1. \/ row' = row \/ row' = [Copy EXCEPT !.gate = TRUE]
          \/ row' = [Copy EXCEPT !.gate = TRUE, !.status = "failed"]
      BY <2>3 DEF MarkReady
    <3>2. row'.tasks = row.tasks \/ row'.tasks = status
      BY <3>1 DEF Copy
    <3> QED BY <3>2
  <2>4. CASE ~LoopCancelled /\ ~EndFailed /\ ~MarkReady
    <3>1. row' = row \/ row' = Copy \/ row' = [Copy EXCEPT !.status = "cancelled"]
      BY <2>4 DEF PhaseStep, NextPass, CheckinPasses, CheckinFails, BatchEnds, EndCancelled,
             EndWell,
                  SaveIfPossible
    <3>2. row'.tasks = row.tasks \/ row'.tasks = status
      BY <3>1, CopyFields
    <3> QED BY <3>2
  <2> QED BY <2>1, <2>2, <2>3, <2>4
<1>3. \A t \in Tasks : status[t] = "completed" => status'[t] = "completed"
  <2>1. CASE NextPass
    BY <2>1, RefreshedKeeps DEF NextPass, TypeOK
  <2>2. CASE LoopCancelled
    BY <2>2 DEF LoopCancelled, CancelRun, TypeOK
  <2>3. CASE ~NextPass /\ ~LoopCancelled
    <3>1. status' = status
      BY <2>3 DEF PhaseStep, CheckinPasses, CheckinFails, BatchEnds, EndCancelled, EndFailed,
             EndWell,
                  MarkReady, memVars
    <3> QED BY <3>1
  <2> QED BY <2>1, <2>2, <2>3
<1> QED BY <1>1, <1>2, <1>3

LEMMA RemediateTasks ==
  ASSUME TypeOK, Remediate
  PROVE  /\ \A u \in Tasks : status[u] = "completed" <=> status'[u] = "completed"
         /\ \A u \in Tasks : status'[u] = "running" => status[u] = "running"
         /\ \A u \in Tasks : row'.tasks[u] = "completed" <=> status[u] = "completed"
<1> PICK t \in Tasks : /\ status[t] = "absent"
                       /\ status' = Refreshed([status EXCEPT ![t] = "pending"])
                       /\ row' = [Copy EXCEPT !.tasks[t] = "pending"]
  BY DEF Remediate
<1>1. [status EXCEPT ![t] = "pending"] \in [Tasks -> TaskStatuses]
  BY DEF TypeOK, TaskStatuses
<1>2. row'.tasks = [status EXCEPT ![t] = "pending"]
  BY DEF Copy
<1>3. \A u \in Tasks : [status EXCEPT ![t] = "pending"][u] = IF u = t THEN "pending" ELSE status[u]
  BY DEF TypeOK
<1>4. \A u \in Tasks : status[u] = "completed" <=> status'[u] = "completed"
  BY <1>1, <1>3, RefreshedKeeps
<1>5. \A u \in Tasks : status'[u] = "running" => status[u] = "running"
  BY <1>1, <1>3 DEF Refreshed
<1>6. ASSUME NEW u \in Tasks PROVE row'.tasks[u] = "completed" <=> status[u] = "completed"
  <2>1. row'.tasks[u] = IF u = t THEN "pending" ELSE status[u]
    BY <1>2, <1>3, Zenon
  <2> QED BY <2>1
<1> QED BY <1>4, <1>5, <1>6

LEMMA StartTasks ==
  ASSUME TypeOK, StartRun
  PROVE  /\ row'.tasks = row.tasks /\ row.tasks \in [Tasks -> TaskStatuses]
         /\ \A t \in Tasks : row.tasks[t] = "completed" <=> status'[t] = "completed"
         /\ \A t \in Tasks : status'[t] = "running" => row.tasks[t] = "running"
<1>1. row'.tasks = row.tasks /\ row.tasks \in [Tasks -> TaskStatuses]
  BY DEF StartRun, TypeOK, Row
<1>2. status' = row.tasks \/ status' = Refreshed(row.tasks)
  BY DEF StartRun
<1>3. \A t \in Tasks : Refreshed(row.tasks)[t] = "running" => row.tasks[t] = "running"
  BY DEF Refreshed
<1> QED BY <1>1, <1>2, <1>3, RefreshedKeeps

\* Completions reach memory before the store, and nothing takes one back there.
LEMMA KnownStep ==
  TypeOK /\ DependencyInv /\ ProgressInv /\ KnownInv /\ [Next]_vars => KnownInv'
<1> SUFFICES ASSUME TypeOK, DependencyInv, ProgressInv, KnownInv, [Next]_vars PROVE KnownInv'
  OBVIOUS
<1>0. DependencyInv'
  BY DependencyStep
<1>a. pc' # "batch" => step' = Idle
  BY <1>0 DEF DependencyInv
<1>1. CASE StartRun
  <2>1. pc' # "batch"
    BY <1>1 DEF StartRun
  <2> QED BY <1>1, <1>a, <2>1, StartTasks DEF KnownInv, Idle, Storing
<1>2. CASE PhaseStep
  <2>1. \A t \in Tasks : step'[t] \notin Storing
    <3>1. CASE CheckinPasses
      BY <3>1 DEF CheckinPasses, Storing
    <3>2. CASE ~CheckinPasses
      <4>1. pc' # "batch"
        BY <1>2, <3>2 DEF PhaseStep, NextPass, LoopCancelled, CheckinFails, BatchEnds, EndCancelled,
                          EndFailed, EndWell, MarkReady
      <4> QED BY <1>a, <4>1 DEF Idle, Storing
    <3> QED BY <3>1, <3>2
  <2> QED BY <1>2, <2>1, PhaseCompletions DEF KnownInv, Storing
<1>3. CASE \E t \in Tasks : TaskStep(t)
  <2> PICK t \in Tasks : TaskStep(t)
    BY <1>3
  <2>1. /\ pc = "batch" /\ pc' = "batch"
        /\ \A u \in Tasks : status[u] = "completed" => status'[u] = "completed"
        /\ row'.tasks = row.tasks \/ row'.tasks = status' \/ (step[t] \in Storing /\ row' = snap[t])
    BY TaskCompletions
  <2>2. \A u \in Tasks : row'.tasks[u] = "completed" => status'[u] = "completed"
    BY <2>1 DEF KnownInv
  <2>3. \A u \in Tasks : step'[u] \in Storing =>
          \/ step[u] \in Storing /\ snap'[u] = snap[u]
          \/ snap'[u].tasks = status
    BY TaskStepMoves DEF BatchMove
  <2>4. \A u \in Tasks : step'[u] \in Storing =>
          \A v \in Tasks : snap'[u].tasks[v] = "completed" => status'[v] = "completed"
    BY <2>1, <2>3 DEF KnownInv
  <2>5. ASSUME NEW u \in Tasks, step'[u] = "storing" PROVE snap'[u].tasks[u] = status'[u]
    <3>1. CASE u = t
      <4>1. CopyState(t)
        BY <2>5, <3>1 DEF TaskStep, Begin, SaveMarked, StoreFails, ExecReturns, TaskCancelled,
             TaskCompletes, TaskFails, StoreCompleted, StoreFailed, GoTo, Abort, TypeOK
      <4>2. snap'[t].tasks = status /\ status' = status
        BY <4>1, CopyFields DEF CopyState, TypeOK, memVars
      <4> QED BY <3>1, <4>2
    <3>2. CASE u # t
      <4>1. step[u] = "storing" /\ snap'[u] = snap[u]
        BY <2>5, <3>2 DEF TaskStep, Begin, CopyState, SaveMarked, StoreFails, ExecReturns,
             TaskCancelled, TaskCompletes, TaskFails, StoreCompleted, StoreFailed, GoTo, Abort,
             TypeOK,
             UnchangedPhase
      <4>2. status[u] \in {"completed", "failed"}
        BY <4>1 DEF ProgressInv
      <4>3. status'[u] = status[u]
        BY <3>2, <4>2 DEF TaskStep, Begin, CopyState, SaveMarked, StoreFails, ExecReturns,
             TaskCancelled, CancelRun, TaskCompletes, TaskFails, StoreCompleted, StoreFailed,
             TypeOK,
             memVars, Refreshed
      <4> QED BY <4>1, <4>3 DEF KnownInv
    <3> QED BY <3>1, <3>2
  <2> QED BY <2>1, <2>2, <2>4, <2>5 DEF KnownInv
<1>4. CASE Remediate
  <2>1. pc' # "batch"
    BY <1>4 DEF Remediate
  <2> QED BY <1>a, <1>4, <2>1, RemediateTasks DEF KnownInv, Idle, Storing
<1>5. CASE ApiCancels
  <2>1. row'.tasks = row.tasks
    BY <1>5 DEF ApiCancels, TypeOK, Row
  <2> QED BY <1>5, <2>1 DEF ApiCancels, KnownInv, memVars, batchVars
<1>6. CASE Crash
  BY <1>6 DEF Crash, KnownInv, Idle, Storing
<1>7. CASE UNCHANGED vars
  BY <1>7 DEF vars, memVars, batchVars, KnownInv
<1> QED BY <1>1, <1>2, <1>3, <1>4, <1>5, <1>6, <1>7 DEF Next

LEMMA TasksFinite == IsFiniteSet(Tasks)
BY FS_Interval, PodPhaseAssumption DEF Tasks

LEMMA NoDuplicateInSmallSet ==
  ASSUME NEW S \in SUBSET Tasks, Cardinality(S) <= 1, NEW t \in S, NEW u \in S
  PROVE  t = u
<1>1. IsFiniteSet(S)
  BY TasksFinite, FS_Subset
<1>2. {t} \in SUBSET S /\ Cardinality({t}) = 1
  BY FS_Singleton
<1>3. Cardinality(S) \in Nat /\ Cardinality({t}) <= Cardinality(S)
  BY <1>1, <1>2, FS_Subset, FS_CardinalityType
<1>4. Cardinality({t}) = Cardinality(S)
  BY <1>2, <1>3
<1>5. {t} = S
  BY <1>1, <1>2, <1>4, FS_Subset
<1> QED BY <1>5

\* A phase that is not parallel queues one task.
LEMMA SerialBatch ==
  ASSUME Concurrency = 1, NEW s, NEW t \in NextBatch(s), NEW u \in NextBatch(s), pod \subseteq Tasks
  PROVE  t = u
<1>1. ASSUME NEW x \in NextBatch(s), NEW y \in NextBatch(s), x < y PROVE FALSE
  <2> DEFINE before == {z \in Runnable(s) : z < y}
  <2>1. x \in before
    BY <1>1 DEF NextBatch
  <2>3. before \in SUBSET Tasks
    BY DEF Runnable
  <2>4. IsFiniteSet(before)
    BY TasksFinite, <2>3, FS_Subset
  <2>5. Cardinality(before) \in Nat /\ Cardinality(before) # 0
    BY <2>1, <2>4, FS_CardinalityType, FS_EmptySet
  <2>6. Cardinality(before) < 1
    BY DEF NextBatch
  <2> QED BY <2>5, <2>6
<1>2. t \in Int /\ u \in Int
  BY PodPhaseAssumption DEF NextBatch, Runnable, Tasks
<1>3. ~(t < u) /\ ~(u < t)
  BY <1>1
<1> QED BY <1>2, <1>3

LEMMA AloneTask ==
  ASSUME TypeOK, DependencyInv, AloneInv, NEW t \in Tasks, TaskStep(t)
  PROVE  AloneInv'
<1>1. together' = together
  BY TogetherKept
<1> SUFFICES ASSUME ~together
             PROVE  /\ \A u, v \in Tasks : step'[u] # "none" /\ step'[v] # "none" => u = v
                    /\ broken' => step' = Idle
                    /\ \A u \in Tasks : step'[u] \in Storing => snap'[u].tasks = status'
  BY <1>1 DEF AloneInv
<1>2. BatchMove
  BY TaskStepMoves
<1>3. step[t] # "none" /\ ~broken /\ \A u \in Tasks \ {t} : step[u] = "none"
  BY StepNotNone DEF AloneInv, Idle
<1>4. step' \in [Tasks -> Steps] /\ \A u \in Tasks \ {t} : step'[u] = "none"
  BY <1>2, <1>3 DEF BatchMove
<1>5. (\E e : Abort(t, e)) => step' = Idle
  BY <1>3 DEF Abort, Idle
<1>6. broken' => step' = Idle
  BY <1>3, <1>5
     DEF TaskStep, Begin, CopyState, SaveMarked, StoreFails, ExecReturns, TaskCancelled,
     TaskCompletes,
         TaskFails, StoreCompleted, StoreFailed, UnchangedPhase
<1>7. step'[t] \in Storing => snap'[t].tasks = status'
  <2>1. CASE CopyState(t)
    BY <2>1, CopyFields DEF CopyState, TypeOK, memVars
  <2>2. CASE ~CopyState(t)
    BY <2>2, <1>3, <1>5
       DEF TaskStep, Begin, SaveMarked, StoreFails, ExecReturns, TaskCancelled, TaskCompletes,
       TaskFails,
           StoreCompleted, StoreFailed, GoTo, TypeOK, Storing, Idle
  <2> QED BY <2>1, <2>2
<1>8. \A u \in Tasks \ {t} : step'[u] \notin Storing
  BY <1>4 DEF Storing
<1> QED BY <1>4, <1>6, <1>7, <1>8

LEMMA AloneStep == TypeOK /\ DependencyInv /\ AloneInv /\ [Next]_vars => AloneInv'
<1> SUFFICES ASSUME TypeOK, DependencyInv, AloneInv, [Next]_vars PROVE AloneInv'
  OBVIOUS
<1>1. CASE \E t \in Tasks : TaskStep(t)
  BY <1>1, AloneTask
<1>2. CASE CheckinPasses
  <2> DEFINE batch == NextBatch(status)
  <2>1. \A t \in Tasks : step'[t] # "none" => step'[t] = "queued" /\ t \in batch
    BY <1>2 DEF CheckinPasses
  <2>2. together' = (Concurrency > 1 /\ Cardinality(batch) > 1) /\ ~broken'
    BY <1>2 DEF CheckinPasses
  <2>3. pod \subseteq Tasks /\ batch \in SUBSET Tasks
    BY DEF TypeOK, NextBatch, Runnable
  <2>4. IsFiniteSet(batch) /\ Cardinality(batch) \in Nat
    BY <2>3, TasksFinite, FS_Subset, FS_CardinalityType
  <2>5. ASSUME ~together', NEW t \in batch, NEW u \in batch PROVE t = u
    <3> HIDE DEF batch
    <3>0. ~(Concurrency > 1 /\ Cardinality(batch) > 1)
      BY <2>2, <2>5, Zenon
    <3>1. Concurrency = 1 \/ Cardinality(batch) <= 1
      BY <2>4, <3>0, PodPhaseAssumption
    <3>2. CASE Cardinality(batch) <= 1
      BY <3>2, <2>3, <2>5, NoDuplicateInSmallSet
    <3>3. CASE Concurrency = 1
      BY <3>3, <2>3, <2>5, SerialBatch DEF batch
    <3> QED BY <3>1, <3>2, <3>3
  <2> HIDE DEF batch
  <2> QED BY <2>1, <2>2, <2>5 DEF AloneInv, Storing
<1>3. CASE UNCHANGED vars \/ ApiCancels
  BY <1>3 DEF ApiCancels, vars, memVars, batchVars, AloneInv
<1>4. CASE Crash
  BY <1>4 DEF Crash, AloneInv, Idle, Storing
<1>5. CASE StartRun \/ Remediate \/ (PhaseStep /\ ~CheckinPasses)
  <2>1. step = Idle /\ step' = Idle /\ together' = together
    BY <1>5 DEF StartRun, Remediate, PhaseStep, NextPass, LoopCancelled, CheckinFails, BatchEnds,
                EndCancelled, EndFailed, EndWell, MarkReady, batchVars, DependencyInv
  <2> QED BY <2>1 DEF AloneInv, Idle, Storing
<1> QED BY <1>1, <1>2, <1>3, <1>4, <1>5 DEF Next

\* What a check that finds the row cancelled does.
LEMMA CancelEffect ==
  ASSUME TypeOK, CancelRun
  PROVE  /\ wsStatus' = "cancelled" /\ row'.status = "cancelled"
         /\ wsStatus # "cancelled" => row'.tasks = status'
         /\ wsStatus = "cancelled" => row' = row
         /\ \A u \in Tasks : status'[u] = "completed" <=> status[u] = "completed"
         /\ \A u \in Tasks : status'[u] = "running" => status[u] = "running"
<1>1. /\ \A u \in Tasks : status'[u] = "completed" <=> status[u] = "completed"
      /\ \A u \in Tasks : status'[u] = "running" => status[u] = "running"
  BY DEF CancelRun, TypeOK
<1>2. /\ wsStatus # "cancelled" => row'.tasks = status'
      /\ wsStatus = "cancelled" => row' = row
  BY CopyFields DEF CancelRun
<1> QED BY <1>1, <1>2, CancelStatus

LEMMA CancelTask ==
  ASSUME TypeOK, DependencyInv, AloneInv, CancelInv, NEW t \in Tasks, TaskStep(t)
  PROVE  CancelInv'
<1>1. pc = "batch" /\ pc' = "batch" /\ step[t] # "none"
  BY StepNotNone, TaskCompletions
<1>2. broken' => err' # "none"
  BY DEF TaskStep, Begin, CopyState, SaveMarked, StoreFails, ExecReturns, TaskCancelled,
         TaskCompletes,
         TaskFails, StoreCompleted, StoreFailed, UnchangedPhase, Abort, CancelInv
<1>3. CASE TaskCancelled(t)
  <2>1. wsStatus # "cancelled" /\ broken'
    BY <1>1, <1>3 DEF TaskCancelled, CancelInv, Abort
  <2>2. CancelRun
    BY <1>3 DEF TaskCancelled
  <2>3. row'.tasks = status' /\ row'.status = "cancelled"
    BY <2>1, <2>2, CancelEffect
  <2> QED BY <1>1, <1>2, <2>1, <2>3 DEF CancelInv
<1>4. CASE ~TaskCancelled(t)
  <2> SUFFICES ASSUME wsStatus' = "cancelled"
               PROVE  /\ broken' /\ row'.status = "cancelled"
                      /\ \A u \in Tasks : status'[u] = "completed" => row'.tasks[u] = "completed"
    BY <1>1, <1>2 DEF CancelInv
  <2>1. wsStatus = "cancelled"
    BY <1>4 DEF TaskStep, Begin, CopyState, SaveMarked, StoreFails, ExecReturns, TaskCompletes,
                TaskFails, StoreCompleted, StoreFailed, memVars
  <2>2. /\ broken /\ row.status = "cancelled"
        /\ \A u \in Tasks : status[u] = "completed" => row.tasks[u] = "completed"
    BY <1>1, <2>1 DEF CancelInv
  <2>3. broken' /\ row' = row
    BY <1>4, <2>2 DEF TaskStep, Begin, CopyState, SaveMarked, StoreFails, ExecReturns,
           TaskCompletes,
                TaskFails, StoreCompleted, StoreFailed, Abort
  <2>4. \A u \in Tasks : status'[u] = "completed" => status[u] = "completed"
    BY <1>4, <2>2 DEF TaskStep, Begin, CopyState, SaveMarked, StoreFails, ExecReturns,
           TaskCompletes,
                TaskFails, StoreCompleted, StoreFailed, memVars, TypeOK
  <2> QED BY <2>2, <2>3, <2>4
<1> QED BY <1>3, <1>4

LEMMA CancelStep ==
  TypeOK /\ DependencyInv /\ ProgressInv /\ AloneInv /\ CancelInv /\ [Next]_vars => CancelInv'
<1> SUFFICES ASSUME TypeOK, DependencyInv, ProgressInv, AloneInv, CancelInv, [Next]_vars
             PROVE  CancelInv'
  OBVIOUS
<1>1. CASE \E t \in Tasks : TaskStep(t)
  BY <1>1, CancelTask
<1>2. CASE StartRun
  <2>1. ~broken
    BY <1>2 DEF StartRun, CancelInv
  <2> QED BY <1>2, <2>1 DEF StartRun, CancelInv, batchVars
<1>3. CASE NextPass \/ CheckinPasses \/ CheckinFails
  <2>1. wsStatus # "cancelled"
    BY <1>3 DEF NextPass, CheckinPasses, CheckinFails, CancelInv
  <2> QED BY <1>3, <2>1 DEF NextPass, CheckinPasses, CheckinFails, CancelInv, memVars, batchVars
<1>4. CASE BatchEnds
  <2>1. wsStatus = "cancelled" => broken /\ err # "none"
    BY <1>4 DEF BatchEnds, CancelInv
  <2> QED BY <1>4, <2>1 DEF BatchEnds, CancelInv, memVars
<1>5. CASE EndWell
  <2>1. wsStatus # "cancelled"
    BY <1>5 DEF EndWell, CancelInv
  <2> QED BY <1>5, <2>1 DEF EndWell, CancelInv, batchVars
<1>6. CASE MarkReady
  <2>1. wsStatus # "cancelled"
    BY <1>6 DEF MarkReady, CancelInv
  <2> QED BY <1>6, <2>1 DEF MarkReady, CancelInv, batchVars
<1>7. CASE LoopCancelled \/ EndCancelled \/ EndFailed
  BY <1>7 DEF LoopCancelled, EndCancelled, EndFailed, CancelInv, batchVars
<1>8. CASE Remediate
  <2>1. wsStatus # "cancelled"
    BY <1>8 DEF Remediate, CancelInv
  <2> QED BY <1>8, <2>1 DEF Remediate, CancelInv, batchVars
<1>9. CASE ApiCancels
  <2>1. row'.tasks = row.tasks /\ row'.status = "cancelled"
    BY <1>9 DEF ApiCancels, TypeOK, Row
  <2> QED BY <1>9, <2>1 DEF ApiCancels, CancelInv, memVars, batchVars
<1>10. CASE Crash
  BY <1>10 DEF Crash, CancelInv
<1>11. CASE UNCHANGED vars
  BY <1>11 DEF vars, memVars, batchVars, CancelInv
<1> QED BY <1>1, <1>2, <1>3, <1>4, <1>5, <1>6, <1>7, <1>8, <1>9, <1>10, <1>11 DEF Next, PhaseStep

\* What a task step does to the tasks that say running, when no store call has
\* failed by itself.
LEMMA StrandedTask ==
  ASSUME TypeOK, DependencyInv, ProgressInv, AloneInv, StrandedInv, NEW t \in Tasks, TaskStep(t)
  PROVE  StrandedInv'
<1>1. pc = "batch" /\ pc' = "batch" /\ step[t] # "none" /\ runs' = runs /\ together' = together
  BY StepNotNone, TaskCompletions, TogetherKept
<1>a. runs \in Nat /\ runs > 0
  BY <1>1, PodPhaseAssumption DEF StrandedInv, TypeOK
<1>2. \A u \in Tasks : cut'[u] = cut[u] \/ (u = t /\ cut'[u] = 0) \/ (cut'[u] = runs /\ err' # "none")
  BY DEF TaskStep, Begin, CopyState, SaveMarked, StoreFails, ExecReturns, TaskCancelled,
         TaskCompletes,
         TaskFails, StoreCompleted, StoreFailed, UnchangedPhase, Abort, TypeOK
<1>3. err # "none" => err' # "none"
  BY TaskStepAdvances DEF Advances
<1>4. /\ \A u \in Tasks : cut'[u] <= runs'
      /\ \A u \in Tasks : cut'[u] = runs' => err' # "none"
  BY <1>1, <1>a, <1>2, <1>3 DEF StrandedInv
<1>5. ASSUME faults' = 0, NEW u \in Tasks, status'[u] = "running"
      PROVE  step'[u] \in InHand \/ (Concurrency > 1 /\ cut'[u] # 0) \/ wsStatus' = "cancelled"
  <2>1. faults = 0 /\ ~Fault
    BY <1>5, PodPhaseAssumption
       DEF TaskStep, Begin, CopyState, SaveMarked, StoreFails, ExecReturns, TaskCancelled,
       TaskCompletes,
           TaskFails, StoreCompleted, StoreFailed, StoreError, SaveIfPossible, Fault, NoFault,
           TypeOK
  <2>2. CASE TaskCancelled(t)
    BY <2>2, CancelStatus DEF TaskCancelled
  <2>3. CASE ~TaskCancelled(t) /\ u = t
    <3>1. CASE Begin(t)
      BY <2>3, <3>1 DEF Begin, GoTo, TypeOK, InHand
    <3>2. CASE CopyState(t) \/ SaveMarked(t) \/ ExecReturns(t)
      <4>1. status' = status
        BY <3>2 DEF CopyState, SaveMarked, ExecReturns, memVars
      <4>2. step[t] # "wrapup"
        BY <1>5, <2>3, <4>1 DEF ProgressInv
      <4> QED BY <2>3, <3>2, <4>2 DEF CopyState, SaveMarked, ExecReturns, GoTo, TypeOK, InHand
    <3>3. CASE StoreFails(t)
      <4>1. broken
        BY <2>1, <3>3 DEF StoreFails, StoreError
      <4>2. Concurrency > 1
        BY <1>1, <4>1 DEF AloneInv, Idle
      <4>3. cut'[t] = runs
        BY <3>3 DEF StoreFails, TypeOK
      <4> QED BY <1>a, <2>3, <4>2, <4>3
    <3>4. CASE TaskCompletes(t)
      <4>1. [status EXCEPT ![t] = "completed"] \in [Tasks -> TaskStatuses]
        BY DEF TypeOK, TaskStatuses
      <4>2. status'[t] = "completed"
        BY <3>4, <4>1, RefreshedKeeps DEF TaskCompletes, TypeOK
      <4> QED BY <1>5, <2>3, <4>2
    <3>5. CASE TaskFails(t)
      BY <1>5, <2>3, <3>5 DEF TaskFails, TypeOK
    <3>6. CASE StoreCompleted(t) \/ StoreFailed(t)
      BY <1>5, <2>3, <3>6 DEF StoreCompleted, StoreFailed, memVars, ProgressInv
    <3> QED BY <2>3, <3>1, <3>2, <3>3, <3>4, <3>5, <3>6 DEF TaskStep
  <2>4. CASE ~TaskCancelled(t) /\ u # t
    <3>1. status[u] = "running"
      BY <1>5, <2>4
         DEF TaskStep, Begin, CopyState, SaveMarked, StoreFails, ExecReturns, TaskCompletes,
             TaskFails, StoreCompleted, StoreFailed, memVars, TypeOK, Refreshed
    <3>2. cut'[u] = cut[u] /\ wsStatus' = wsStatus
      BY <2>4 DEF TaskStep, Begin, CopyState, SaveMarked, StoreFails, ExecReturns, TaskCompletes,
             TaskFails, StoreCompleted, StoreFailed, UnchangedPhase, memVars, TypeOK
    <3>3. step[u] \in InHand => step'[u] = step[u]
      BY <2>4 DEF TaskStep, Begin, CopyState, SaveMarked, StoreFails, ExecReturns, TaskCompletes,
             TaskFails, StoreCompleted, StoreFailed, GoTo, Abort, TypeOK, InHand
    <3>4. step[u] \in InHand \/ (Concurrency > 1 /\ cut[u] # 0) \/ wsStatus = "cancelled"
      BY <1>1, <2>1, <3>1 DEF StrandedInv
    <3> QED BY <3>2, <3>3, <3>4
  <2> QED BY <2>2, <2>3, <2>4
<1> QED BY <1>1, <1>a, <1>4, <1>5 DEF StrandedInv, OnlyCutTasksStranded

\* A step of the phase leaves no more tasks running, and what it stores at the end
\* of the run is what the run knows.
LEMMA StrandedPhase ==
  ASSUME TypeOK, DependencyInv, ProgressInv, CancelInv, StrandedInv, PhaseStep
  PROVE  StrandedInv'
<1>1. pc # "idle" /\ runs' = runs /\ cut' = cut /\ (err # "none" => err' # "none")
  BY DEF PhaseStep, NextPass, LoopCancelled, CheckinPasses, CheckinFails, BatchEnds, EndCancelled,
         EndFailed, EndWell, MarkReady
<1>2. step = Idle
  BY DEF PhaseStep, NextPass, LoopCancelled, CheckinPasses, CheckinFails, BatchEnds, EndCancelled,
         EndFailed, EndWell, MarkReady, DependencyInv
<1>3. ASSUME faults' = 0, NEW u \in Tasks, status'[u] = "running"
      PROVE  (Concurrency > 1 /\ cut'[u] # 0) \/ wsStatus' = "cancelled"
  <2>1. faults = 0 /\ ~Fault
    BY <1>3, PodPhaseAssumption
     DEF PhaseStep, NextPass, LoopCancelled, CheckinPasses, CheckinFails, BatchEnds, EndCancelled,
         EndFailed, EndWell, MarkReady, SaveIfPossible, Fault, NoFault, TypeOK
  <2>2. status[u] = "running"
    <3>1. CASE NextPass
      BY <1>3, <3>1 DEF NextPass, Refreshed, TypeOK
    <3>2. CASE LoopCancelled
      BY <1>3, <3>2 DEF LoopCancelled, CancelRun, TypeOK
    <3>3. CASE ~NextPass /\ ~LoopCancelled
      BY <1>3, <3>3 DEF PhaseStep, CheckinPasses, CheckinFails, BatchEnds, EndCancelled, EndFailed,
             EndWell,
                  MarkReady, memVars
    <3> QED BY <3>1, <3>2, <3>3
  <2>3. (Concurrency > 1 /\ cut[u] # 0) \/ wsStatus = "cancelled"
    BY <1>1, <1>2, <2>1, <2>2 DEF StrandedInv, Idle, InHand
  <2>4. wsStatus = "cancelled" => wsStatus' = "cancelled"
    BY <2>1, CancelStatus DEF PhaseStep, NextPass, LoopCancelled, CheckinPasses, CheckinFails,
           BatchEnds,
         EndCancelled, EndFailed, EndWell, MarkReady, CancelInv, memVars
  <2> QED BY <1>1, <2>3, <2>4
<1>4. ASSUME faults' = 0, pc' = "idle", row'.status # "cancelled",
             NEW u \in Tasks, row'.tasks[u] = "running"
      PROVE  Concurrency > 1 /\ cut'[u] # 0
  <2>a. ~Fault
    BY <1>4, PodPhaseAssumption DEF Fault, TypeOK
  <2>b. ~LoopCancelled
    BY <1>4, CancelEffect DEF LoopCancelled
  <2>c. ~EndCancelled
    <3>1. EndCancelled => \/ row' = row /\ row.status = "cancelled"
                         \/ row' = [Copy EXCEPT !.status = "cancelled"]
      BY DEF EndCancelled
    <3>2. [Copy EXCEPT !.status = "cancelled"].status = "cancelled"
      BY CopyFields
    <3> QED BY <1>4, <3>1, <3>2
  <2>d. ~MarkReady
    BY <1>4, <2>a DEF MarkReady
  <2>1. EndFailed /\ ~Fault
    BY <1>4, <2>a, <2>b, <2>c, <2>d
       DEF PhaseStep, NextPass, CheckinPasses, CheckinFails, BatchEnds, EndWell
  <2>2. row' = [Copy EXCEPT !.status = wsStatus'] /\ status' = status
    BY <2>1 DEF EndFailed
  <2>3. status'[u] = "running"
    BY <1>4, <2>2, CopyFields
  <2>4. wsStatus' # "cancelled"
    BY <1>4, <2>2, CopyFields
  <2> QED BY <1>3, <1>4, <2>3, <2>4
<1> QED BY <1>1, <1>3, <1>4 DEF StrandedInv, OnlyCutTasksStranded

LEMMA StrandedStep ==
  TypeOK /\ DependencyInv /\ ProgressInv /\ RunStatusInv /\ AloneInv /\ CancelInv /\ StrandedInv
    /\ [Next]_vars => StrandedInv'
<1> SUFFICES ASSUME TypeOK, DependencyInv, ProgressInv, RunStatusInv, AloneInv, CancelInv, StrandedInv,
                    [Next]_vars
             PROVE  StrandedInv'
  OBVIOUS
<1>1. CASE \E t \in Tasks : TaskStep(t)
  BY <1>1, StrandedTask
<1>2. CASE PhaseStep
  BY <1>2, StrandedPhase
<1>3. CASE StartRun
  <2>1. runs \in Nat /\ runs' = runs + 1 /\ \A t \in Tasks : cut[t] \in Nat
    BY <1>3, PodPhaseAssumption DEF StartRun, TypeOK
  <2>2. \A t \in Tasks : cut'[t] < runs'
    BY <1>3, <2>1 DEF StartRun, StrandedInv
  <2>3. faults = 0 => \A t \in Tasks : status'[t] = "running" => Concurrency > 1 /\ cut'[t] # 0
    BY <1>3, StartTasks DEF StartRun, StrandedInv, OnlyCutTasksStranded
  <2>4. \A t \in Tasks : cut'[t] \in Nat /\ runs' \in Nat
    BY <1>3, <2>1 DEF StartRun
  <2>5. /\ \A t \in Tasks : cut'[t] <= runs' /\ cut'[t] # runs'
        /\ runs' > 0
    BY <2>1, <2>2, <2>4
  <2> QED BY <1>3, <2>3, <2>5 DEF StartRun, StrandedInv, OnlyCutTasksStranded
<1>4. CASE Remediate
  <2>1. runs \in Nat /\ runs' = runs + 1 /\ cut' = cut /\ \A t \in Tasks : cut[t] \in Nat
    BY <1>4, PodPhaseAssumption DEF Remediate, TypeOK
  <2>2. /\ \A t \in Tasks : cut'[t] <= runs' /\ cut'[t] # runs'
        /\ runs' > 0
    BY <2>1 DEF StrandedInv
  <2>3. step = Idle /\ step' = step /\ pc # "idle" /\ pc' # "idle" /\ wsStatus' = wsStatus /\ faults' = faults
    BY <1>4 DEF Remediate, DependencyInv, batchVars
  <2>4. faults = 0 => \A t \in Tasks : status'[t] = "running" =>
                        (Concurrency > 1 /\ cut[t] # 0) \/ wsStatus = "cancelled"
    BY <1>4, <2>3, RemediateTasks DEF StrandedInv, Idle, InHand
  <2> QED BY <2>1, <2>2, <2>3, <2>4 DEF StrandedInv, OnlyCutTasksStranded
<1>5. CASE ApiCancels
  <2>1. row'.status = "cancelled"
    BY <1>5 DEF ApiCancels, TypeOK, Row
  <2> QED BY <1>5, <2>1 DEF ApiCancels, StrandedInv, OnlyCutTasksStranded, memVars, batchVars
<1>6. CASE Crash
  <2>1. row'.status = "cancelled" \/ \A t \in Tasks : row'.tasks[t] # "running"
    <3>1. CASE row.status = "running"
      BY <1>6, <3>1 DEF Crash, TypeOK, Row
    <3>2. CASE row.status # "running"
      BY <1>6, <3>2 DEF Crash, RunStatusInv, Live
    <3> QED BY <3>1, <3>2
  <2> QED BY <1>6, <2>1 DEF Crash, StrandedInv, OnlyCutTasksStranded
<1>7. CASE UNCHANGED vars
  BY <1>7 DEF vars, memVars, batchVars, StrandedInv, OnlyCutTasksStranded
<1> QED BY <1>1, <1>2, <1>3, <1>4, <1>5, <1>6, <1>7 DEF Next

-----------------------------------------------------------------------------
\* All that is known of a run and its batch, in one invariant.
PhaseInv ==
  /\ TypeOK /\ DependencyInv /\ RunStatusInv /\ ProgressInv /\ NothingLeftInv
  /\ KnownInv /\ AloneInv /\ CancelInv /\ StrandedInv

LEMMA PhaseInvariant == Spec => []PhaseInv
<1>1. Init => PhaseInv
  BY TypeInit, DependencyInit, RunStatusInit, ProgressInit, NothingLeftInit, KnownInit, AloneInit,
     CancelInit, StrandedInit DEF PhaseInv
<1>2. PhaseInv /\ [Next]_vars => PhaseInv'
  BY TypeStep, DependencyStep, RunStatusStep, ProgressStep, NothingLeftStep, KnownStep, AloneStep,
     CancelStep, StrandedStep DEF PhaseInv
<1> QED BY <1>1, <1>2, PTL DEF Spec

\* For every number of tasks and goroutines, every dependency graph and whatever
\* the models answer: as long as the store works, no task of a workflow that may
\* be run again is left as running but one whose goroutine a failing task of its
\* parallel batch has cut off.
THEOREM OnlyCutTasksAreStranded == Spec => []OnlyCutTasksStranded
<1>1. PhaseInv => OnlyCutTasksStranded
  BY DEF PhaseInv, StrandedInv, OnlyCutTasksStranded
<1> QED BY <1>1, PhaseInvariant, PTL

LEMMA BatchStep == PhaseInv /\ [Next]_vars => [TakenBackInBatch]_vars
<1> SUFFICES ASSUME PhaseInv, Next, NEW t \in Tasks, row.tasks[t] = "completed",
                    row'.tasks[t] # "completed"
             PROVE  /\ pc = "batch" /\ together /\ status[t] = "completed"
                    /\ \E u \in Tasks \ {t} : step[u] \in {"saving", "storing"} /\ row' = snap[u]
  BY DEF TakenBackInBatch
<1> USE DEF PhaseInv
<1>1. ~StartRun
  BY StartTasks
<1>2. ~PhaseStep
  BY PhaseCompletions DEF KnownInv
<1>3. ~Remediate
  BY RemediateTasks DEF KnownInv, Remediate
<1>4. ~ApiCancels /\ ~Crash
  <2>1. ApiCancels => row'.tasks = row.tasks
    BY DEF ApiCancels, TypeOK, Row
  <2>2. Crash => row'.tasks[t] = row.tasks[t]
    BY DEF Crash, TypeOK, Row
  <2> QED BY <2>1, <2>2
<1>5. PICK u \in Tasks : TaskStep(u)
  BY <1>1, <1>2, <1>3, <1>4 DEF Next
<1>6. /\ pc = "batch"
      /\ \A v \in Tasks : status[v] = "completed" => status'[v] = "completed"
      /\ row'.tasks = row.tasks \/ row'.tasks = status' \/ (step[u] \in Storing /\ row' = snap[u])
  BY <1>5, TaskCompletions
<1>7. status[t] = "completed"
  BY <1>6 DEF KnownInv
<1>8. step[u] \in Storing /\ row' = snap[u]
  BY <1>6, <1>7
<1>9. together
  BY <1>7, <1>8 DEF AloneInv
<1>10. u # t
  <2>1. CASE step[u] = "saving"
    BY <1>7, <2>1 DEF DependencyInv, Unfinished
  <2>2. CASE step[u] = "storing"
    BY <1>7, <1>8, <2>2 DEF KnownInv
  <2> QED BY <1>8, <2>1, <2>2 DEF Storing
<1> QED BY <1>6, <1>7, <1>8, <1>9, <1>10 DEF Storing

LEMMA EndStep == PhaseInv /\ [Next]_vars => [EndStoresCompletions]_vars
<1> SUFFICES ASSUME PhaseInv, Next, pc # "idle", pc' = "idle", UNCHANGED faults, ~Crash,
                    NEW t \in Tasks, status'[t] = "completed"
             PROVE  row'.tasks[t] = "completed"
  BY DEF EndStoresCompletions
<1> USE DEF PhaseInv
<1>1. ~Fault
  BY PodPhaseAssumption DEF Fault, TypeOK
<1>2. ~(\E u \in Tasks : TaskStep(u))
  BY TaskCompletions
<1>3. LoopCancelled \/ EndCancelled \/ EndFailed
  BY <1>1, <1>2 DEF Next, StartRun, PhaseStep, NextPass, CheckinPasses, CheckinFails, BatchEnds,
     EndWell, MarkReady, Remediate, ApiCancels
<1>4. CASE LoopCancelled
  <2>1. wsStatus # "cancelled"
    BY <1>4 DEF LoopCancelled, CancelInv
  <2> QED BY <1>4, <2>1, CancelEffect DEF LoopCancelled
<1>5. CASE EndCancelled
  <2>1. status' = status
    BY <1>5 DEF EndCancelled
  <2>2. CASE wsStatus = "cancelled"
    BY <1>5, <2>1, <2>2 DEF EndCancelled, CancelInv
  <2>3. CASE wsStatus # "cancelled"
    BY <1>5, <2>1, <2>3, CopyFields DEF EndCancelled
  <2> QED BY <2>2, <2>3
<1>6. CASE EndFailed
  <2>1. status' = status /\ row' = [Copy EXCEPT !.status = wsStatus']
    BY <1>1, <1>6 DEF EndFailed
  <2> QED BY <2>1, CopyFields
<1> QED BY <1>3, <1>4, <1>5, <1>6

\* Whatever fails, is cancelled or crashes, and in whatever order the goroutines
\* save: only a copy of another goroutine of the same batch takes a stored
\* completion back, the run still knows it, and the end of the run stores it.
THEOREM CompletionsAreKept == Spec => CompletionKept
<1> HIDE DEF TakenBackInBatch, EndStoresCompletions
<1>1. Spec => [][TakenBackInBatch /\ EndStoresCompletions]_vars
  <2>1. PhaseInv /\ [Next]_vars => [TakenBackInBatch /\ EndStoresCompletions]_vars
    BY BatchStep, EndStep
  <2> QED BY <2>1, PhaseInvariant, PTL DEF Spec
<1> QED BY <1>1 DEF CompletionKept

AllRun ==
  pc = "ending" /\ pc' = "passed" /\ faults = 0 =>
    \A t \in pod : status[t] # "absent" /\ Satisfied(status, t) =>
      \/ status[t] = "completed"
      \/ Concurrency > 1 /\ status[t] = "running" /\ cut[t] \in 1..(runs - 1)

LEMMA AllRunStep == PhaseInv /\ [Next]_vars => [AllRun]_vars
<1> SUFFICES ASSUME PhaseInv, Next, pc = "ending", pc' = "passed", faults = 0,
                    NEW t \in pod, status[t] # "absent", Satisfied(status, t), status[t] # "completed"
             PROVE  Concurrency > 1 /\ status[t] = "running" /\ cut[t] \in 1..(runs - 1)
  BY DEF AllRun
<1> USE DEF PhaseInv
<1>1. EndWell
  <2>1. ~(\E u \in Tasks : TaskStep(u))
    BY TaskCompletions
  <2> QED BY <2>1 DEF Next, StartRun, PhaseStep, NextPass, LoopCancelled, CheckinPasses,
         CheckinFails,
              BatchEnds, EndCancelled, EndFailed, MarkReady, Remediate, ApiCancels, Crash
<1>2. t \in Tasks /\ status[t] \in TaskStatuses
  BY DEF TypeOK
<1>3. status[t] = "running"
  <2>1. Runnable(status) = {} /\ err = "none"
    BY <1>1 DEF EndWell, NothingLeftInv
  <2>2. status[t] \notin {"ready", "pending", "failed"}
    BY <2>1 DEF Runnable
  <2> QED BY <1>2, <2>2 DEF TaskStatuses
<1>4. step[t] = "none"
  BY <1>2 DEF DependencyInv, Idle
<1>5. wsStatus # "cancelled" /\ err = "none"
  BY <1>1 DEF EndWell, CancelInv
<1>6. Concurrency > 1 /\ cut[t] # 0
  BY <1>2, <1>3, <1>4, <1>5 DEF StrandedInv, InHand
<1>7. cut[t] <= runs /\ cut[t] # runs
  BY <1>2, <1>5 DEF StrandedInv
<1>8. cut[t] \in Nat /\ runs \in Nat
  BY <1>2, PodPhaseAssumption DEF TypeOK
<1>9. cut[t] \in 1..(runs - 1)
  BY <1>6, <1>7, <1>8
<1> QED BY <1>3, <1>6, <1>9

\* For every number of tasks and goroutines: as long as the store works, a phase
\* that returns nil has completed every pod task whose dependencies are complete,
\* but for those that a parallel batch of an earlier run has cut off.
THEOREM RunnableTasksAreRun == Spec => RunnableAllRun
<1> HIDE DEF AllRun
<1>1. Spec => [][AllRun]_vars
  BY PhaseInvariant, AllRunStep, PTL DEF Spec
<1> QED BY <1>1 DEF RunnableAllRun, AllRun
=============================================================================
