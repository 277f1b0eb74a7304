------------------------------ MODULE Pipeline ------------------------------
(***************************************************************************)
(* internal/workflow/engine: runPhases, the pipeline of personas that one    *)
(* Engine.Run takes a workflow through, with the implementation validation   *)
(* loop, the QA remediation loop, the validation gate and the delivery; and  *)
(* what a scheduler retry, or a restart after a crash, finds of it in the    *)
(* store.  A run works on its own copy ws of the row and saves it after each *)
(* phase; a phase that left a summary is not run again.                      *)
(*                                                                          *)
(* Models are called in every phase: an answer is a choice, and any phase    *)
(* may fail (StepFails).  Cancellation is the subject of Lifecycle.tla, the  *)
(* inside of the Pod phase that of PodPhase.tla.                             *)
(***************************************************************************)
EXTENDS Integers, FiniteSets

CONSTANTS
  RequiredSets,  (* required_personas the Director may choose              *)
  Stacks,        (* what the Director's phase may set up, see State        *)
  Deliveries,    (* BOOLEANs: may the workflow have a delivery_action      *)
  OptionSets,    (* the engine's Options: members of Options               *)
  MaxRuns        (* bound: Engine.Run calls                                *)

Personas == {"director", "pm", "matriarch", "architect", "pod", "qa", "finalizer"}
StagnationLimit == 3

(* qaRetries, implRetries: Options.MaxQARetries, MaxImplementationRetries;   *)
(* -1 is unlimited, 0 a default.  autoAttempts: auto mode's definition       *)
(* attempts, 0 when not in auto mode.  enforceGate: EnforceValidationGate.   *)
(* validates: the toolchain has a validation profile.                        *)
Options ==
  [qaRetries : Nat \cup {-1}, implRetries : Nat \cup {-1}, autoAttempts : Nat,
   enforceGate : BOOLEAN, validates : BOOLEAN]

ASSUME PipelineAssumption ==
  /\ RequiredSets \subseteq SUBSET Personas
  /\ Stacks \subseteq {"none", "workspace", "toolchain"}
  /\ Deliveries \subseteq BOOLEAN
  /\ OptionSets \subseteq Options
  /\ MaxRuns \in Nat

VARIABLES
  opts,          (* Engine.opts                                            *)
  ws,            (* the workflow state of the run                          *)
  row,           (* the stored row                                         *)
  pc,            (* the phase about to run; "idle" between runs            *)
  loop,          (* which loop the validation loop serves: "impl" or "qa"  *)
  cycle,         (* its cycle                                              *)
  same,          (* its stagnationCycles                                   *)
  qaCycle,       (* cycle of the QA loop                                   *)
  delivered,     (* ghost: the delivery action has succeeded               *)
  runs           (* number of runs so far                                  *)

vars == <<opts, ws, row, pc, loop, cycle, same, qaCycle, delivered, runs>>
loopVars == <<loop, cycle, same, qaCycle>>

\* applyDefaults, maxImplementationRetries.
MaxQARetries == IF opts.qaRetries = 0 THEN 2 ELSE opts.qaRetries
MaxImplRetries == IF opts.implRetries = 0 THEN MaxQARetries ELSE opts.implRetries
AutoAttempts == opts.autoAttempts

(* The fields of the workflow state that the pipeline decides on.            *)
(* done: the personas with a summary; required: RequiredPersonas, {} before  *)
(* the Director; stack: a workspace, with a toolchain or without, or neither *)
(* (the mode decides); validation: the last validation run; gate:            *)
(* ImplementationGate.Ready; auto: definition attempts; blocked:             *)
(* MatriarchBlocked.  Ghost: unreviewed, the Pod has worked since QA passed. *)
Blockers == {"qa", "validation", "deadlock", "checkpoint"}
State ==
  [status : {"pending", "running", "failed", "completed"},
   done : SUBSET Personas, required : SUBSET Personas,
   stack : {"none", "workspace", "toolchain"}, delivery : BOOLEAN,
   blockers : SUBSET Blockers,
   validation : {"none", "pass", "fail"}, gate : BOOLEAN, auto : 0..AutoAttempts,
   blocked : BOOLEAN, error : {"", "delivery", "other"},
   unreviewed : BOOLEAN]

Places == {"idle", "director", "pm", "matriarch", "architect", "implement", "pod",
           "validate", "plan", "qagate", "qa", "triage", "advise", "finalgate",
           "finalizer", "complete"}

NewState(stack, delivery) ==
  [status |-> "pending", done |-> {}, required |-> {}, stack |-> stack,
   delivery |-> delivery, blockers |-> {}, validation |-> "none", gate |-> FALSE,
   auto |-> IF AutoAttempts > 0 THEN 1 ELSE 0, blocked |-> FALSE, error |-> "",
   unreviewed |-> FALSE]

\* launchChildWorkflow: an improvement workflow is created with a summary of the
\* Director already, and only has its artifacts delivered.
ImprovementState ==
  [NewState("none", TRUE) EXCEPT !.done = {"director"}, !.required = {"finalizer"}]

Init ==
  /\ opts \in OptionSets
  /\ \/ \E s \in Stacks, d \in Deliveries : ws = NewState(s, d)
     \/ ws = ImprovementState
  /\ row = ws
  /\ pc = "idle"
  /\ loop = "impl"
  /\ cycle = 1
  /\ same = 0
  /\ qaCycle = 1
  /\ delivered = FALSE
  /\ runs = 0

-----------------------------------------------------------------------------
\* Mutant of Required: without a list nothing is required.
RequiredIfListed(p) == p = "director" \/ p \in ws.required

Required(p) == p = "director" \/ ws.required = {} \/ p \in ws.required
PhaseComplete(p) == p \in ws.done

HasToolchain == ws.stack = "toolchain"

\* runToolchainCheckpoint: a checkpoint that should be pushed and is not adds a
\* blocking issue.
Checkpointed(state) ==
  {state} \cup
    (IF HasToolchain THEN {[state EXCEPT !.blockers = @ \cup {"checkpoint"}]} ELSE {})

Save == row' = ws'
Goto(p) == pc' = p
UnchangedLoops == UNCHANGED loopVars

\* runPhases returned an error: Run stores the workflow as failed.
FailWith(state, error) ==
  /\ ws' = [state EXCEPT !.status = "failed", !.error = error]
  /\ Save
  /\ Goto("idle")

\* Engine.Run: load, refuse a terminal workflow, save as running.  The error of
\* an earlier run is cleared.
StartRun ==
  /\ pc = "idle"
  /\ row.status # "completed"
  /\ runs < MaxRuns
  /\ runs' = runs + 1
  /\ ws' = [row EXCEPT !.status = "running",
                       !.error = IF row.status \in {"failed", "pending"} THEN "" ELSE @]
  /\ Save
  /\ Goto("director")
  /\ UNCHANGED <<loopVars, delivered, opts>>

\* A persona, a save, a checkpoint or a setup step fails.
StepFails ==
  /\ pc # "idle"
  /\ FailWith(ws, "other")
  /\ UNCHANGED <<loopVars, delivered, opts, runs>>

-----------------------------------------------------------------------------
(* Director, Project Manager, Matriarch, Architect: skipped when complete or  *)
(* not required.                                                             *)
Skip(p, next) ==
  /\ pc = p
  /\ ~Required(p) \/ PhaseComplete(p)
  /\ Goto(next)
  /\ UNCHANGED <<ws, row, delivered, opts, runs>> /\ UnchangedLoops

Runs(p) == pc = p /\ Required(p) /\ ~PhaseComplete(p)

Director ==
  /\ Runs("director")
  /\ \E r \in RequiredSets : ws' = [ws EXCEPT !.done = @ \cup {"director"}, !.required = r]
  /\ Save
  /\ Goto("pm")
  /\ UNCHANGED <<delivered, opts, runs>> /\ UnchangedLoops

ProjectManager ==
  /\ Runs("pm")
  /\ ws' \in Checkpointed([ws EXCEPT !.done = @ \cup {"pm"}])
  /\ Save
  /\ Goto("matriarch")
  /\ UNCHANGED <<delivered, opts, runs>> /\ UnchangedLoops

\* A Matriarch that blocks fails the run, after its summary has been saved.
Matriarch ==
  /\ Runs("matriarch")
  /\ \/ ws' = [ws EXCEPT !.done = @ \cup {"matriarch"}] /\ Save /\ Goto("architect")
     \/ FailWith([ws EXCEPT !.done = @ \cup {"matriarch"}, !.blocked = TRUE], "other")
  /\ UNCHANGED <<delivered, opts, runs>> /\ UnchangedLoops

Architect ==
  /\ Runs("architect")
  /\ ws' \in Checkpointed([ws EXCEPT !.done = @ \cup {"architect"}])
  /\ Save
  /\ Goto("implement")
  /\ UNCHANGED <<delivered, opts, runs>> /\ UnchangedLoops

-----------------------------------------------------------------------------
(* runImplementationPhase and runImplementationValidationLoop.               *)
EnterLoop(which) == loop' = which /\ cycle' = 1 /\ same' = 0

Implement ==
  /\ pc = "implement"
  /\ IF Required("pod") /\ ~ws.gate
     THEN /\ ws' \in Checkpointed(ws)
          /\ Save
          /\ Goto("pod")
          /\ EnterLoop("impl")
          /\ UNCHANGED qaCycle
     ELSE Goto("qagate") /\ UNCHANGED <<ws, row>> /\ UnchangedLoops
  /\ UNCHANGED <<delivered, opts, runs>>

\* Cycles are counted as far as a bound on retries looks at them.
NextCycle == IF MaxImplRetries < 0 THEN 2 ELSE cycle + 1
\* Mutants of NextQACycle and AfterLoop: a remediation does not count, or is not
\* reviewed.
SameQACycle == 1
AfterLoopSkipQA == IF loop = "impl" THEN Goto("qagate") /\ UNCHANGED qaCycle
                   ELSE Goto("finalgate") /\ UNCHANGED qaCycle

NextQACycle == IF MaxQARetries < 0 THEN 1 ELSE qaCycle + 1

AfterLoop == IF loop = "impl" THEN Goto("qagate") /\ UNCHANGED qaCycle
             ELSE Goto("qa") /\ qaCycle' = NextQACycle

\* runPodPhase returns nil: it worked on tasks, found all of them complete, or none
\* could run and a blocking issue says so.
PodOutcomes == {"worked", "nothing left", "deadlock"}
AfterPod(outcome) ==
  CASE outcome = "worked" -> [ws EXCEPT !.unreviewed = TRUE]
    [] outcome = "deadlock" -> [ws EXCEPT !.blockers = @ \cup {"deadlock"}]
    [] outcome = "nothing left" -> ws

\* Without a toolchain the initial phase is ready at once.
PodPhase ==
  /\ pc = "pod"
  /\ \E outcome \in PodOutcomes :
       IF HasToolchain \/ loop = "qa"
       THEN ws' = AfterPod(outcome) /\ Goto("validate") /\ UnchangedLoops
       ELSE /\ ws' = [AfterPod(outcome) EXCEPT !.gate = TRUE]
            /\ AfterLoop
            /\ UNCHANGED <<loop, cycle, same>>
  /\ Save
  /\ UNCHANGED <<delivered, opts, runs>>

\* Validation, documentation and checkpoint have no issue: blockers are cleared
\* and the gate is ready.
Passed ==
  [ws EXCEPT !.validation = IF HasToolchain /\ opts.validates THEN "pass" ELSE @,
             !.gate = TRUE, !.blockers = {}]

ValidationPasses ==
  /\ pc = "validate"
  /\ ws' = Passed
  /\ Save
  /\ AfterLoop
  /\ UNCHANGED <<loop, cycle, same, delivered, opts, runs>>

\* Issues replace the blockers: a failed validation, a missing checkpoint, or,
\* when there is a workspace, missing documentation.  The loop goes on with the Architect, or gives up: too many
\* cycles, no progress without a bound on them, or no Architect.
Verdicts == IF HasToolchain /\ opts.validates THEN {"pass", "fail"} ELSE {ws.validation}
Found(v) == [ws EXCEPT !.validation = v, !.blockers = {"validation"}]

ValidationIssues ==
  /\ pc = "validate"
  /\ ws.stack # "none"
  /\ \E v \in Verdicts, again \in BOOLEAN :
       LET stale == IF again /\ cycle > 1 THEN same + 1 ELSE 0
           giveUp == \/ MaxImplRetries < 0 /\ stale >= StagnationLimit
                     \/ MaxImplRetries >= 0 /\ cycle > MaxImplRetries
                     \/ ~Required("architect")
       IN /\ same' = stale
          /\ cycle' = NextCycle
          /\ IF giveUp THEN FailWith(Found(v), "other")
             ELSE ws' = Found(v) /\ Save /\ Goto("plan")
  /\ UNCHANGED <<loop, qaCycle, delivered, opts, runs>>

\* runRemediationPlanning: the Architect appends tasks for the Pod.
PlanRemediation ==
  /\ pc = "plan"
  /\ ws' \in Checkpointed([ws EXCEPT !.done = @ \cup {"architect"}])
  /\ Save
  /\ Goto("pod")
  /\ UNCHANGED <<delivered, opts, runs>> /\ UnchangedLoops

-----------------------------------------------------------------------------
(* QA and its remediation loop.                                              *)
ValidationFailing == ws.validation = "fail"
ReadyForQA == Required("pod") /\ HasToolchain => ws.gate

QAGate ==
  /\ pc = "qagate"
  /\ IF ~Required("qa") THEN Goto("finalgate") /\ UNCHANGED <<ws, row, qaCycle>>
     ELSE IF ~ReadyForQA THEN FailWith(ws, "other") /\ UNCHANGED qaCycle
     ELSE IF PhaseComplete("qa") /\ ws.blockers = {} /\ ~ValidationFailing
     THEN Goto("finalgate") /\ UNCHANGED <<ws, row, qaCycle>>
     ELSE /\ ws' = IF ValidationFailing /\ PhaseComplete("qa") /\ ws.blockers = {}
                   THEN [ws EXCEPT !.blockers = {"validation"}, !.done = @ \ {"qa"}]
                   ELSE ws
          /\ Save
          /\ qaCycle' = 1
          /\ Goto("qa")
  /\ UNCHANGED <<loop, cycle, same, delivered, opts, runs>>

\* Mutant of QAVerdict: QA's word counts for more than a failing validation.
QAOverrules(issues) == IF issues THEN ws.blockers \cup {"qa"} ELSE {}

\* applyOutput of QA: new issues are added; without any, the blockers are those
\* of a failing validation, or none.
QAVerdict(issues) ==
  IF issues THEN ws.blockers \cup {"qa"}
  ELSE IF ValidationFailing THEN {"validation"}
  ELSE {}

\* Mutant of AnotherDefinition: one attempt too many.
OneDefinitionMore(state) == state.auto \in 1..AutoAttempts

\* tryAutoModeIteration: the caller's request is defined anew.
AnotherDefinition(state) == state.auto \in 1..(AutoAttempts - 1)

Reviewed(verdict) ==
  [ws EXCEPT !.done = @ \cup {"qa"}, !.blockers = verdict,
             !.unreviewed = IF verdict = {} THEN FALSE ELSE @]

QA ==
  /\ pc = "qa"
  /\ \E issues \in BOOLEAN :
       LET verdict == QAVerdict(issues)
       IN IF verdict = {} THEN ws' = Reviewed(verdict) /\ Save /\ Goto("finalgate")
          ELSE IF MaxQARetries < 0 \/ qaCycle <= MaxQARetries
          THEN ws' = Reviewed(verdict) /\ Save /\ Goto("triage")
          ELSE \/ /\ AnotherDefinition(ws)     \* stored with the next plan
                  /\ ws' = [Reviewed(verdict) EXCEPT !.auto = @ + 1]
                  /\ row' = Reviewed(verdict)
                  /\ Goto("plan")
               \/ FailWith(Reviewed(verdict), "other")
  /\ EnterLoop("qa")
  /\ UNCHANGED <<qaCycle, delivered, opts, runs>>

\* runRemediationTriage: the Project Manager's brief.
Triage ==
  /\ pc = "triage"
  /\ IF Required("pm")
     THEN ws' \in Checkpointed([ws EXCEPT !.done = @ \cup {"pm"}])
     ELSE ws' = ws
  /\ Save
  /\ Goto("advise")
  /\ UNCHANGED <<delivered, opts, runs>> /\ UnchangedLoops

\* runRemediationMatriarch (which may block, see StepFails), and then either the
\* Architect's plan, or, without an Architect or a Pod, QA again, on a clean
\* slate unless the validation fails.
Advised ==
  IF Required("matriarch") THEN [ws EXCEPT !.done = @ \cup {"matriarch"}] ELSE ws

Advise ==
  /\ pc = "advise"
  /\ IF Required("architect") /\ Required("pod")
     THEN ws' = Advised /\ Goto("plan") /\ UNCHANGED qaCycle
     ELSE /\ ws' = IF ValidationFailing THEN Advised ELSE [Advised EXCEPT !.blockers = {}]
          /\ Goto("qa")
          /\ qaCycle' = NextQACycle
  /\ Save
  /\ UNCHANGED <<loop, cycle, same, delivered, opts, runs>>

-----------------------------------------------------------------------------
(* The finalizer gate, the finalizer with its delivery, completion.          *)
FinalizerGate ==
  /\ pc = "finalgate"
  /\ IF opts.enforceGate /\ ValidationFailing
     THEN FailWith([ws EXCEPT !.blockers = {"validation"}], "other")
     ELSE Goto("finalizer") /\ UNCHANGED <<ws, row>>
  /\ UNCHANGED <<delivered, opts, runs>> /\ UnchangedLoops

\* deliveryRetryNeeded; delivery stands for DeliveryAction, the caller's choice.
DeliveryRetryNeeded == ws.delivery /\ ws.error = "delivery"

\* The finalizer's action, when there is one, succeeds or fails.  A failure is
\* stored together with the finalizer's summary.
FinalizerDelivers ==
  /\ pc = "finalizer"
  /\ Required("finalizer")
  /\ ~PhaseComplete("finalizer") \/ DeliveryRetryNeeded
  /\ LET after == [ws EXCEPT !.done = @ \cup {"finalizer"}]
     IN \/ /\ ws' = after
           /\ Save
           /\ delivered' = (delivered \/ ws.delivery)
           /\ Goto("complete")
        \/ ws.delivery /\ FailWith(after, "delivery") /\ UNCHANGED delivered
  /\ UNCHANGED <<opts, runs>> /\ UnchangedLoops

FinalizerSkipped ==
  /\ pc = "finalizer"
  /\ ~Required("finalizer") \/ (PhaseComplete("finalizer") /\ ~DeliveryRetryNeeded)
  /\ Goto("complete")
  /\ UNCHANGED <<ws, row, delivered, opts, runs>> /\ UnchangedLoops

Complete ==
  /\ pc = "complete"
  /\ ws' = [ws EXCEPT !.status = "completed"]
  /\ Save
  /\ Goto("idle")
  /\ UNCHANGED <<delivered, opts, runs>> /\ UnchangedLoops

-----------------------------------------------------------------------------
Early ==
  \/ Skip("director", "pm") \/ Director
  \/ Skip("pm", "matriarch") \/ ProjectManager
  \/ Skip("matriarch", "architect") \/ Matriarch
  \/ Skip("architect", "implement") \/ Architect
Implementation == Implement \/ PodPhase \/ ValidationPasses \/ ValidationIssues \/ PlanRemediation
Verification == QAGate \/ QA \/ Triage \/ Advise
Finish == FinalizerGate \/ FinalizerDelivers \/ FinalizerSkipped \/ Complete

RunStep == Early \/ Implementation \/ Verification \/ Finish

\* The process dies; the recovery of the next one queues the workflow again.
Crash ==
  /\ pc # "idle"
  /\ row' = [row EXCEPT !.status = "pending"]
  /\ ws' = row'
  /\ Goto("idle")
  /\ UNCHANGED <<delivered, opts, runs>> /\ UnchangedLoops

Next == StartRun \/ RunStep \/ StepFails \/ Crash

Spec == Init /\ [][Next]_vars

(* A run goes on: calls have timeouts.                                       *)
Fairness == WF_vars(RunStep)
FairSpec == Spec /\ Fairness
=============================================================================
