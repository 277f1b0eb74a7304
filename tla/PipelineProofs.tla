--------------------------- MODULE PipelineProofs ---------------------------
(***************************************************************************)
(* What holds of Pipeline.tla for every choice of options, required personas *)
(* and stacks and for any number of runs.                                    *)
(*                                                                          *)
(* A run works on its copy, the next one starts from the row: what must      *)
(* survive from one run to the next is said of both (Coherent), what a run   *)
(* has reached is said by the phase it is at.                                *)
(***************************************************************************)
EXTENDS PipelineProps, TLAPS

InLoop == {"pod", "validate", "plan"}
InQA == {"qa", "triage", "advise"}
Reviewing == pc \in InQA \/ (pc \in InLoop /\ loop = "qa")
Finalizing == {"finalgate", "finalizer", "complete"}
Coding == InLoop \cup {"qagate"} \cup InQA \cup Finalizing
Directed == {"pm", "matriarch", "architect", "implement"} \cup Coding

\* A failed validation is one of a toolchain; and either QA will ask for the
\* repair, or the gate is not open.
FailureIsSeen(s) ==
  s.validation = "fail" =>
    /\ s.stack = "toolchain" /\ opts.validates
    /\ NeededBy(s, "qa") \/ (NeededBy(s, "pod") /\ ~s.gate)

\* Before the Director has decided nothing has been validated.
Undirected(s) == "director" \notin s.done => s.validation = "none"

Coherent == FailureIsSeen(ws) /\ FailureIsSeen(row) /\ Undirected(ws) /\ Undirected(row)

\* QA's remediation goes through the loop of QA.
LoopInv == pc \in {"triage", "advise"} => loop = "qa"

ValidationInv ==
  /\ Coherent
  /\ pc \in Directed => "director" \in ws.done
  /\ Reviewing => NeededBy(ws, "qa")
  /\ pc \in InLoop /\ loop = "impl" => NeededBy(ws, "pod") /\ ~ws.gate
  /\ pc = "qagate" /\ ws.validation = "fail" => NeededBy(ws, "qa")
  /\ pc \in Finalizing => ws.validation # "fail"

\* What the phases behind the run have left.
Behind(p, places) == pc \in places /\ NeededBy(ws, p) => p \in ws.done
CompletionInv ==
  /\ pc # "idle" => ws.status = "running" /\ row.status = "running"
  /\ pc \in Directed => "director" \in ws.done
  /\ Behind("pm", {"matriarch", "architect", "implement"} \cup Coding)
  /\ Behind("matriarch", {"architect", "implement"} \cup Coding)
  /\ Behind("architect", {"implement"} \cup Coding)
  /\ Behind("qa", Finalizing)
  /\ Behind("finalizer", {"complete"})
  /\ pc \in InLoop /\ loop = "impl" => NeededBy(ws, "pod")
  /\ (pc \in Finalizing \cup {"qagate"} \/ Reviewing) /\ NeededBy(ws, "pod") => ws.gate
  /\ pc \in Finalizing /\ NeededBy(ws, "qa") => ws.blockers = {}
  /\ CompletedRanAll

\* In the first run QA has not been before its gate.
FirstRunInv ==
  /\ runs = 0 => pc = "idle" /\ row.status # "completed" /\ "qa" \notin row.done
  /\ runs <= 1 /\ pc \notin {"idle"} \cup Finalizing /\ ~Reviewing => "qa" \notin ws.done
  /\ runs <= 1 /\ pc \in Finalizing /\ NeededBy(ws, "qa") => ~ws.unreviewed
  /\ pc # "idle" => row.status # "completed"
  /\ FirstRunReviewed

\* The definitions auto mode has added so far.
Extra(a) == IF a > 1 THEN a - 1 ELSE 0
Remediating == pc \in {"triage", "advise"} \/ (pc \in InLoop /\ loop = "qa")
BudgetInv ==
  MaxQARetries >= 0 =>
    /\ pc = "qa" => qaCycle <= MaxQARetries + 1 + Extra(ws.auto)
    /\ Remediating => qaCycle <= MaxQARetries + Extra(ws.auto)
    /\ QABudget

-----------------------------------------------------------------------------
(* Fields of the state that the code updates one at a time keep their types. *)
LEMMA OptionTypes ==
  ASSUME opts \in OptionSets
  PROVE  AutoAttempts \in Nat /\ MaxQARetries \in Int /\ MaxImplRetries \in Int
<1>1. opts \in Options
  BY PipelineAssumption
<1>2. opts.qaRetries \in Int /\ opts.implRetries \in Int /\ opts.autoAttempts \in Nat
  BY <1>1 DEF Options
<1> QED
  BY <1>2 DEF AutoAttempts, MaxQARetries, MaxImplRetries

LEMMA Fields ==
  ASSUME NEW s \in State
  PROVE  /\ s.done \in SUBSET Personas /\ s.required \in SUBSET Personas
         /\ s.blockers \in SUBSET Blockers /\ s.auto \in 0..AutoAttempts
         /\ s.gate \in BOOLEAN /\ s.unreviewed \in BOOLEAN
         /\ s.validation \in {"none", "pass", "fail"}
BY DEF State

LEMMA Updates ==
  ASSUME NEW s \in State
  PROVE  /\ \A v \in {"pending", "running", "failed", "completed"} : [s EXCEPT !.status = v] \in State
         /\ \A v \in SUBSET Personas : [s EXCEPT !.done = v] \in State
         /\ \A v \in SUBSET Personas : [s EXCEPT !.required = v] \in State
         /\ \A v \in SUBSET Blockers : [s EXCEPT !.blockers = v] \in State
         /\ \A v \in {"none", "pass", "fail"} : [s EXCEPT !.validation = v] \in State
         /\ \A v \in 0..AutoAttempts : [s EXCEPT !.auto = v] \in State
         /\ \A v \in {"", "delivery", "other"} : [s EXCEPT !.error = v] \in State
         /\ [s EXCEPT !.gate = TRUE] \in State
         /\ [s EXCEPT !.blocked = TRUE] \in State
         /\ \A v \in BOOLEAN : [s EXCEPT !.unreviewed = v] \in State
BY DEF State

(* What the updates of the code leave of the other fields.                   *)
Asked(t, s) == t.required = s.required /\ t.stack = s.stack
Judged(t, s) == t.validation = s.validation /\ t.gate = s.gate
Same(t, s) == Asked(t, s) /\ Judged(t, s) /\ t.unreviewed = s.unreviewed /\ t.auto = s.auto

LEMMA StatusField ==
  ASSUME NEW s \in State, NEW v
  PROVE  LET t == [s EXCEPT !.status = v]
         IN Same(t, s) /\ t.done = s.done /\ t.blockers = s.blockers /\ t.status = v
BY DEF State, Same, Asked, Judged

LEMMA FailedType ==
  ASSUME NEW s \in State, NEW e \in {"delivery", "other"}, FailWith(s, e)
  PROVE  ws' \in State /\ row' \in State /\ pc' = "idle"
<1>1. [s EXCEPT !.status = "failed"] \in State
  BY Updates
<1> QED
  BY <1>1, Updates DEF FailWith, Save, Goto

LEMMA FailWithFields ==
  ASSUME NEW s \in State, NEW e, FailWith(s, e)
  PROVE  /\ Same(ws', s) /\ ws'.done = s.done /\ ws'.blockers = s.blockers
         /\ ws'.status = "failed" /\ row' = ws' /\ pc' = "idle"
<1>1. ws' = [s EXCEPT !.status = "failed", !.error = e] /\ row' = ws' /\ pc' = "idle"
  BY DEF FailWith, Save, Goto
<1> DEFINE t == [s EXCEPT !.status = "failed"]
<1>2. Same(t, s) /\ t.done = s.done /\ t.blockers = s.blockers /\ t.status = "failed"
  BY StatusField
<1>3. t \in State
  BY Updates
<1>4. ws' = [t EXCEPT !.error = e]
  BY <1>1
<1> HIDE DEF t
<1>5. Same(ws', t) /\ ws'.done = t.done /\ ws'.blockers = t.blockers /\ ws'.status = t.status
  BY <1>3, <1>4 DEF State, Same, Asked, Judged
<1> QED
  BY <1>1, <1>2, <1>5 DEF Same, Asked, Judged

LEMMA BlockersField ==
  ASSUME NEW s \in State, NEW b \in SUBSET Blockers
  PROVE  LET t == [s EXCEPT !.blockers = b]
         IN /\ t \in State /\ Same(t, s) /\ t.done = s.done
            /\ t.blockers = b /\ t.status = s.status
<1>1. [s EXCEPT !.blockers = b] \in State
  BY Updates
<1> QED
  BY <1>1 DEF State, Same, Asked, Judged

LEMMA CheckpointedFields ==
  ASSUME NEW s \in State, NEW t \in Checkpointed(s)
  PROVE  t \in State /\ Same(t, s) /\ t.done = s.done /\ t.status = s.status
<1>1. s.blockers \cup {"checkpoint"} \in SUBSET Blockers
  BY Fields DEF Blockers
<1>3. CASE t = s
  BY <1>3 DEF Same, Asked, Judged
<1>4. CASE t = [s EXCEPT !.blockers = s.blockers \cup {"checkpoint"}]
  BY <1>1, <1>4, BlockersField
<1> QED
  BY <1>3, <1>4 DEF Checkpointed

LEMMA DoneField ==
  ASSUME NEW s \in State, NEW d \in SUBSET Personas
  PROVE  LET t == [s EXCEPT !.done = d]
         IN /\ t \in State /\ Same(t, s) /\ t.done = d
            /\ t.blockers = s.blockers /\ t.status = s.status
<1>1. [s EXCEPT !.done = d] \in State
  BY Updates
<1> QED
  BY <1>1 DEF State, Same, Asked, Judged

LEMMA AfterPodFields ==
  ASSUME ws \in State, NEW outcome \in PodOutcomes
  PROVE  LET t == AfterPod(outcome)
         IN /\ t \in State /\ Asked(t, ws) /\ Judged(t, ws) /\ t.done = ws.done
            /\ t.status = ws.status /\ t.auto = ws.auto
<1>1. ws.blockers \cup {"deadlock"} \in SUBSET Blockers
  BY Fields DEF Blockers
<1>2. CASE outcome = "worked"
  <2>1. [ws EXCEPT !.unreviewed = TRUE] \in State
    BY Updates
  <2>2. AfterPod(outcome) = [ws EXCEPT !.unreviewed = TRUE]
    BY <1>2 DEF AfterPod
  <2> QED
    BY <2>1, <2>2 DEF State, Asked, Judged
<1>3. CASE outcome = "deadlock"
  <2>1. AfterPod(outcome) = [ws EXCEPT !.blockers = ws.blockers \cup {"deadlock"}]
    BY <1>3 DEF AfterPod
  <2> QED
    BY <1>1, <2>1, BlockersField DEF Same
<1>4. CASE outcome = "nothing left"
  BY <1>4 DEF AfterPod, Asked, Judged
<1> QED
  BY <1>2, <1>3, <1>4 DEF PodOutcomes

LEMMA OpenedFields ==
  ASSUME NEW s \in State
  PROVE  LET t == [s EXCEPT !.gate = TRUE]
         IN /\ t \in State /\ Asked(t, s) /\ t.validation = s.validation /\ t.gate = TRUE
            /\ t.unreviewed = s.unreviewed /\ t.auto = s.auto
            /\ t.done = s.done /\ t.blockers = s.blockers /\ t.status = s.status
<1>1. [s EXCEPT !.gate = TRUE] \in State
  BY Updates
<1> QED
  BY <1>1 DEF State, Same, Asked, Judged

LEMMA PassedFields ==
  ASSUME ws \in State
  PROVE  /\ Passed \in State /\ Asked(Passed, ws) /\ Passed.gate = TRUE
         /\ Passed.validation = (IF HasToolchain /\ opts.validates THEN "pass" ELSE ws.validation)
         /\ Passed.unreviewed = ws.unreviewed /\ Passed.auto = ws.auto
         /\ Passed.done = ws.done /\ Passed.blockers = {} /\ Passed.status = ws.status
<1> DEFINE v == IF HasToolchain /\ opts.validates THEN "pass" ELSE ws.validation
<1>1. v \in {"none", "pass", "fail"} /\ {} \in SUBSET Blockers
  BY Fields
<1> HIDE DEF v
<1>2. Passed = [ws EXCEPT !.validation = v, !.gate = TRUE, !.blockers = {}]
  BY DEF Passed, v
<1>3. Passed.validation = v
  BY <1>2 DEF State
<1> QED
  BY <1>1, <1>2, <1>3 DEF State, Asked, v

LEMMA FoundFields ==
  ASSUME ws \in State, NEW v \in Verdicts
  PROVE  LET t == Found(v)
         IN /\ t \in State /\ Asked(t, ws) /\ t.validation = v /\ t.gate = ws.gate
            /\ t.unreviewed = ws.unreviewed /\ t.auto = ws.auto
            /\ t.done = ws.done /\ t.blockers = {"validation"} /\ t.status = ws.status
<1>1. v \in {"none", "pass", "fail"} /\ {"validation"} \in SUBSET Blockers
  BY Fields DEF Verdicts, Blockers
<1> QED
  BY <1>1 DEF Found, State, Asked

LEMMA ReviewedFields ==
  ASSUME ws \in State, NEW b \in SUBSET Blockers
  PROVE  LET t == Reviewed(b)
         IN /\ t \in State /\ Asked(t, ws) /\ Judged(t, ws)
            /\ t.unreviewed = (IF b = {} THEN FALSE ELSE ws.unreviewed)
            /\ t.auto = ws.auto /\ t.done = ws.done \cup {"qa"}
            /\ t.blockers = b /\ t.status = ws.status
<1> DEFINE u == IF b = {} THEN FALSE ELSE ws.unreviewed
<1>1. ws.done \cup {"qa"} \in SUBSET Personas /\ u \in BOOLEAN
  BY Fields DEF Personas
<1> HIDE DEF u
<1>2. Reviewed(b) = [ws EXCEPT !.done = ws.done \cup {"qa"}, !.blockers = b, !.unreviewed = u]
  BY DEF Reviewed, u
<1>3. Reviewed(b).unreviewed = u
  BY <1>2 DEF State
<1> QED
  BY <1>1, <1>2, <1>3 DEF State, Asked, Judged, u

LEMMA VerdictType ==
  ASSUME ws \in State, NEW issues \in BOOLEAN
  PROVE  QAVerdict(issues) \in SUBSET Blockers
BY Fields DEF QAVerdict, Blockers

LEMMA AttemptFields ==
  ASSUME NEW s \in State, NEW n \in 0..AutoAttempts
  PROVE  LET t == [s EXCEPT !.auto = n]
         IN /\ t \in State /\ Asked(t, s) /\ Judged(t, s) /\ t.unreviewed = s.unreviewed
            /\ t.auto = n /\ t.done = s.done /\ t.blockers = s.blockers /\ t.status = s.status
<1>1. [s EXCEPT !.auto = n] \in State
  BY Updates
<1> QED
  BY <1>1 DEF State, Same, Asked, Judged

LEMMA AdvisedFields ==
  ASSUME ws \in State
  PROVE  /\ Advised \in State /\ Same(Advised, ws) /\ Advised.blockers = ws.blockers
         /\ Advised.status = ws.status
         /\ Advised.done \in {ws.done, ws.done \cup {"matriarch"}}
<1>1. ws.done \cup {"matriarch"} \in SUBSET Personas
  BY Fields DEF Personas
<1> QED
  BY <1>1, DoneField DEF Advised, Same, Asked, Judged

-----------------------------------------------------------------------------
(* What each action does to the fields.                                      *)
LEMMA StartRunEffect ==
  ASSUME row \in State, StartRun
  PROVE  /\ pc = "idle" /\ row.status # "completed" /\ pc' = "director"
         /\ ws' \in State /\ row' = ws' /\ Same(ws', row) /\ ws'.done = row.done
         /\ ws'.blockers = row.blockers /\ ws'.status = "running"
         /\ runs < MaxRuns /\ runs' = runs + 1 /\ UNCHANGED <<loopVars, delivered>>
<1> DEFINE t == [row EXCEPT !.status = "running"]
           e == IF row.status \in {"failed", "pending"} THEN "" ELSE row.error
<1>1. t \in State /\ Same(t, row) /\ t.done = row.done /\ t.blockers = row.blockers
      /\ t.status = "running"
  BY StatusField, Updates
<1>2. e \in {"", "delivery", "other"}
  BY DEF State
<1> HIDE DEF e
<1>3. ws' = [row EXCEPT !.status = "running", !.error = e]
  BY DEF StartRun, e
<1>4. ws' = [t EXCEPT !.error = e]
  BY <1>3
<1> HIDE DEF t
<1>5. ws' \in State
  BY <1>1, <1>2, <1>4, Updates
<1>6. Same(ws', t) /\ ws'.done = t.done /\ ws'.blockers = t.blockers /\ ws'.status = t.status
  BY <1>1, <1>4 DEF State, Same, Asked, Judged
<1>7. Same(ws', row) /\ ws'.done = row.done /\ ws'.blockers = row.blockers
      /\ ws'.status = "running"
  BY <1>1, <1>6 DEF Same, Asked, Judged
<1> QED
  BY <1>5, <1>7 DEF StartRun, Save, Goto

LEMMA StepFailsEffect ==
  ASSUME ws \in State, StepFails
  PROVE  /\ pc # "idle" /\ pc' = "idle" /\ ws' \in State /\ row' = ws' /\ Same(ws', ws)
         /\ ws'.done = ws.done /\ ws'.blockers = ws.blockers /\ ws'.status = "failed"
         /\ UNCHANGED <<loopVars, delivered, runs>>
BY FailedType, FailWithFields DEF StepFails

LEMMA CrashEffect ==
  ASSUME row \in State, Crash
  PROVE  /\ pc # "idle" /\ pc' = "idle" /\ row' \in State /\ ws' = row' /\ Same(row', row)
         /\ row'.done = row.done /\ row'.blockers = row.blockers /\ row'.status = "pending"
         /\ UNCHANGED <<loopVars, delivered, runs>>
BY StatusField, Updates DEF Crash, Goto, UnchangedLoops

LEMMA SkipEffect ==
  ASSUME NEW p, NEW next, Skip(p, next), p \in {"director", "pm", "matriarch", "architect"}
  PROVE  /\ pc = p /\ pc' = next /\ UNCHANGED <<ws, row, loopVars, delivered, runs>>
         /\ (p = "director" \/ NeededBy(ws, p)) => p \in ws.done
BY DEF Skip, Required, PhaseComplete, NeededBy, Goto, UnchangedLoops

LEMMA DirectorEffect ==
  ASSUME ws \in State, Director
  PROVE  /\ pc = "director" /\ "director" \notin ws.done /\ pc' = "pm"
         /\ ws' \in State /\ row' = ws' /\ ws'.stack = ws.stack /\ Judged(ws', ws)
         /\ ws'.done = ws.done \cup {"director"} /\ ws'.blockers = ws.blockers
         /\ ws'.unreviewed = ws.unreviewed /\ ws'.auto = ws.auto /\ ws'.status = ws.status
         /\ UNCHANGED <<loopVars, delivered, runs>>
<1> DEFINE t == [ws EXCEPT !.done = ws.done \cup {"director"}]
<1>1. /\ t \in State /\ Same(t, ws) /\ t.done = ws.done \cup {"director"}
      /\ t.blockers = ws.blockers /\ t.status = ws.status
  BY Fields, DoneField DEF Personas
<1>2. PICK r \in RequiredSets :
        ws' = [[ws EXCEPT !.done = ws.done \cup {"director"}] EXCEPT !.required = r]
  BY DEF Director
<1>3. r \in SUBSET Personas /\ ws' = [t EXCEPT !.required = r]
  BY <1>2, PipelineAssumption
<1> HIDE DEF t
<1>4. ws' \in State
  BY <1>1, <1>3, Updates
<1>5. /\ ws'.stack = t.stack /\ Judged(ws', t) /\ ws'.done = t.done /\ ws'.blockers = t.blockers
      /\ ws'.unreviewed = t.unreviewed /\ ws'.auto = t.auto /\ ws'.status = t.status
  BY <1>1, <1>3 DEF State, Judged
<1> QED
  BY <1>1, <1>4, <1>5 DEF Director, Runs, PhaseComplete, Same, Asked, Judged, Save, Goto,
     UnchangedLoops

LEMMA ProjectManagerEffect ==
  ASSUME ws \in State, ProjectManager
  PROVE  /\ pc = "pm" /\ pc' = "matriarch" /\ ws' \in State /\ row' = ws' /\ Same(ws', ws)
         /\ ws'.done = ws.done \cup {"pm"} /\ ws'.status = ws.status
         /\ UNCHANGED <<loopVars, delivered, runs>>
<1> DEFINE t == [ws EXCEPT !.done = ws.done \cup {"pm"}]
<1>1. /\ t \in State /\ Same(t, ws) /\ t.done = ws.done \cup {"pm"}
      /\ t.status = ws.status
  BY Fields, DoneField DEF Personas
<1>2. ws' \in Checkpointed(t)
  BY DEF ProjectManager
<1> HIDE DEF t
<1>3. ws' \in State /\ Same(ws', t) /\ ws'.done = t.done /\ ws'.status = t.status
  BY <1>1, <1>2, CheckpointedFields
<1> QED
  BY <1>1, <1>3 DEF ProjectManager, Runs, Save, Goto, UnchangedLoops, Same, Asked, Judged

LEMMA ArchitectEffect ==
  ASSUME ws \in State, Architect
  PROVE  /\ pc = "architect" /\ pc' = "implement" /\ ws' \in State /\ row' = ws' /\ Same(ws', ws)
         /\ ws'.done = ws.done \cup {"architect"} /\ ws'.status = ws.status
         /\ UNCHANGED <<loopVars, delivered, runs>>
<1> DEFINE t == [ws EXCEPT !.done = ws.done \cup {"architect"}]
<1>1. /\ t \in State /\ Same(t, ws) /\ t.done = ws.done \cup {"architect"}
      /\ t.status = ws.status
  BY Fields, DoneField DEF Personas
<1>2. ws' \in Checkpointed(t)
  BY DEF Architect
<1> HIDE DEF t
<1>3. ws' \in State /\ Same(ws', t) /\ ws'.done = t.done /\ ws'.status = t.status
  BY <1>1, <1>2, CheckpointedFields
<1> QED
  BY <1>1, <1>3 DEF Architect, Runs, Save, Goto, UnchangedLoops, Same, Asked, Judged

LEMMA MatriarchEffect ==
  ASSUME ws \in State, Matriarch
  PROVE  /\ pc = "matriarch" /\ pc' \in {"architect", "idle"} /\ ws' \in State /\ row' = ws'
         /\ Same(ws', ws) /\ ws'.done = ws.done \cup {"matriarch"} /\ ws'.blockers = ws.blockers
         /\ ws'.status = IF pc' = "idle" THEN "failed" ELSE ws.status
         /\ UNCHANGED <<loopVars, delivered, runs>>
<1> DEFINE t == [ws EXCEPT !.done = ws.done \cup {"matriarch"}]
           u == [t EXCEPT !.blocked = TRUE]
<1>1. /\ t \in State /\ Same(t, ws) /\ t.done = ws.done \cup {"matriarch"}
      /\ t.blockers = ws.blockers /\ t.status = ws.status
  BY Fields, DoneField DEF Personas
<1>2. \/ ws' = t /\ row' = ws' /\ pc' = "architect"
      \/ FailWith([ws EXCEPT !.done = ws.done \cup {"matriarch"}, !.blocked = TRUE], "other")
  BY DEF Matriarch, Save, Goto
<1>3. (ws' = t /\ row' = ws' /\ pc' = "architect") \/ FailWith(u, "other")
  BY <1>2
<1> HIDE DEF t
<1>4. /\ Same(u, t) /\ u.done = t.done /\ u.blockers = t.blockers /\ u.status = t.status
  BY <1>1 DEF State, Same, Asked, Judged
<1>5. u \in State
  BY <1>1, Updates
<1> HIDE DEF u
<1>6. CASE ws' = t /\ row' = ws' /\ pc' = "architect"
  BY <1>1, <1>6 DEF Matriarch, Runs, UnchangedLoops
<1>7. CASE FailWith(u, "other")
  BY <1>1, <1>4, <1>5, <1>7, FailedType, FailWithFields
     DEF Matriarch, Runs, UnchangedLoops, Same, Asked, Judged
<1> QED
  BY <1>3, <1>6, <1>7

LEMMA ImplementEffect ==
  ASSUME ws \in State, row \in State, Implement
  PROVE  /\ pc = "implement" /\ UNCHANGED <<qaCycle, delivered, runs>>
         /\ \/ /\ NeededBy(ws, "pod") /\ ~ws.gate
               /\ pc' = "pod" /\ loop' = "impl"
               /\ ws' \in State /\ row' = ws' /\ Same(ws', ws) /\ ws'.done = ws.done
               /\ ws'.status = ws.status
               /\ cycle' = 1 /\ same' = 0
            \/ /\ NeededBy(ws, "pod") => ws.gate
               /\ pc' = "qagate" /\ UNCHANGED <<ws, row, loopVars>>
BY CheckpointedFields DEF Implement, EnterLoop, Save, Goto, UnchangedLoops, loopVars,
   Required, NeededBy

\* After the loop comes the gate before QA, or QA again.
LoopLeft ==
  \/ loop = "impl" /\ pc' = "qagate" /\ qaCycle' = qaCycle
  \/ loop # "impl" /\ pc' = "qa" /\ qaCycle' = NextQACycle

LEMMA PodPhaseEffect ==
  ASSUME ws \in State, PodPhase
  PROVE  /\ pc = "pod" /\ UNCHANGED <<loop, cycle, same, delivered, runs>>
         /\ ws' \in State /\ row' = ws' /\ Asked(ws', ws) /\ ws'.validation = ws.validation
         /\ ws'.done = ws.done /\ ws'.status = ws.status /\ ws'.auto = ws.auto
         /\ \/ pc' = "validate" /\ ws'.gate = ws.gate /\ qaCycle' = qaCycle
            \/ LoopLeft /\ loop # "qa" /\ ~HasToolchain /\ ws'.gate = TRUE
<1>1. PICK outcome \in PodOutcomes :
        \/ ws' = AfterPod(outcome) /\ Goto("validate") /\ UnchangedLoops
        \/ /\ ws' = [AfterPod(outcome) EXCEPT !.gate = TRUE] /\ ~HasToolchain /\ loop # "qa"
           /\ AfterLoop /\ UNCHANGED <<loop, cycle, same>>
  BY DEF PodPhase
<1> DEFINE t == AfterPod(outcome)
<1>2. /\ t \in State /\ Asked(t, ws) /\ Judged(t, ws) /\ t.done = ws.done
      /\ t.status = ws.status /\ t.auto = ws.auto
  BY AfterPodFields
<1> HIDE DEF t
<1>3. CASE ws' = t /\ Goto("validate") /\ UnchangedLoops
  BY <1>2, <1>3 DEF PodPhase, Save, Goto, UnchangedLoops, loopVars, Judged
<1>4. CASE ws' = [t EXCEPT !.gate = TRUE] /\ ~HasToolchain /\ loop # "qa"
           /\ AfterLoop /\ UNCHANGED <<loop, cycle, same>>
  <2>1. /\ ws' \in State /\ Asked(ws', t) /\ ws'.validation = t.validation /\ ws'.gate = TRUE
        /\ ws'.auto = t.auto /\ ws'.done = t.done /\ ws'.status = t.status
    BY <1>2, <1>4, OpenedFields
  <2>2. LoopLeft
    BY <1>4 DEF AfterLoop, LoopLeft, Goto
  <2> QED
    BY <1>2, <1>4, <2>1, <2>2 DEF PodPhase, Save, Asked, Judged
<1> QED
  BY <1>1, <1>3, <1>4 DEF t

LEMMA ValidationPassesEffect ==
  ASSUME ws \in State, ValidationPasses
  PROVE  /\ pc = "validate" /\ LoopLeft /\ UNCHANGED <<loop, cycle, same, delivered, runs>>
         /\ ws' \in State /\ row' = ws' /\ Asked(ws', ws) /\ ws'.gate = TRUE
         /\ ws'.validation = (IF HasToolchain /\ opts.validates THEN "pass" ELSE ws.validation)
         /\ ws'.unreviewed = ws.unreviewed /\ ws'.auto = ws.auto
         /\ ws'.done = ws.done /\ ws'.blockers = {} /\ ws'.status = ws.status
<1>1. ws' = Passed /\ row' = ws' /\ AfterLoop
  BY DEF ValidationPasses, Save
<1>2. LoopLeft
  BY <1>1 DEF AfterLoop, LoopLeft, Goto
<1> QED
  BY <1>1, <1>2, PassedFields DEF ValidationPasses

LEMMA ValidationIssuesEffect ==
  ASSUME ws \in State, ValidationIssues
  PROVE  /\ pc = "validate" /\ pc' \in {"plan", "idle"}
         /\ UNCHANGED <<loop, qaCycle, delivered, runs>>
         /\ ws' \in State /\ row' = ws' /\ Asked(ws', ws) /\ ws'.gate = ws.gate
         /\ ws'.validation \in Verdicts
         /\ ws'.unreviewed = ws.unreviewed /\ ws'.auto = ws.auto
         /\ ws'.done = ws.done
         /\ ws'.status = IF pc' = "idle" THEN "failed" ELSE ws.status
<1>1. PICK v \in Verdicts :
        \/ FailWith(Found(v), "other")
        \/ ws' = Found(v) /\ row' = ws' /\ pc' = "plan"
  BY DEF ValidationIssues, Save, Goto
<1> DEFINE t == Found(v)
<1>2. /\ t \in State /\ Asked(t, ws) /\ t.validation = v /\ t.gate = ws.gate
      /\ t.unreviewed = ws.unreviewed /\ t.auto = ws.auto
      /\ t.done = ws.done /\ t.status = ws.status
  BY FoundFields
<1> HIDE DEF t
<1>3. CASE FailWith(t, "other")
  BY <1>2, <1>3, FailedType, FailWithFields DEF ValidationIssues, Same, Asked, Judged
<1>4. CASE ws' = t /\ row' = ws' /\ pc' = "plan"
  BY <1>2, <1>4 DEF ValidationIssues
<1> QED
  BY <1>1, <1>3, <1>4 DEF t

LEMMA PlanRemediationEffect ==
  ASSUME ws \in State, PlanRemediation
  PROVE  /\ pc = "plan" /\ pc' = "pod" /\ UNCHANGED <<loopVars, delivered, runs>>
         /\ ws' \in State /\ row' = ws' /\ Same(ws', ws)
         /\ ws'.done = ws.done \cup {"architect"} /\ ws'.status = ws.status
<1> DEFINE t == [ws EXCEPT !.done = ws.done \cup {"architect"}]
<1>1. /\ t \in State /\ Same(t, ws) /\ t.done = ws.done \cup {"architect"}
      /\ t.status = ws.status
  BY Fields, DoneField DEF Personas
<1>2. ws' \in Checkpointed(t)
  BY DEF PlanRemediation
<1> HIDE DEF t
<1>3. ws' \in State /\ Same(ws', t) /\ ws'.done = t.done /\ ws'.status = t.status
  BY <1>1, <1>2, CheckpointedFields
<1> QED
  BY <1>1, <1>3 DEF PlanRemediation, Save, Goto, UnchangedLoops, Same, Asked, Judged

LEMMA QAGateEffect ==
  ASSUME ws \in State, row \in State, QAGate
  PROVE  /\ pc = "qagate" /\ UNCHANGED <<loop, cycle, same, delivered, runs>>
         /\ \/ pc' = "finalgate" /\ UNCHANGED <<ws, row, qaCycle>> /\ ~NeededBy(ws, "qa")
            \/ /\ pc' = "finalgate" /\ UNCHANGED <<ws, row, qaCycle>>
               /\ "qa" \in ws.done /\ ws.blockers = {} /\ ws.validation # "fail"
            \/ /\ pc' = "idle" /\ ws' \in State /\ row' = ws' /\ Same(ws', ws)
               /\ ws'.done = ws.done /\ ws'.blockers = ws.blockers /\ ws'.status = "failed"
               /\ qaCycle' = qaCycle
            \/ /\ pc' = "qa" /\ NeededBy(ws, "qa") /\ qaCycle' = 1
               /\ ws' \in State /\ row' = ws' /\ Same(ws', ws) /\ ws'.status = ws.status
               /\ ws'.done \in {ws.done, ws.done \ {"qa"}}
<1>1. CASE ~Required("qa")
  BY <1>1 DEF QAGate, Required, NeededBy, Goto
<1>2. CASE Required("qa") /\ ~ReadyForQA
  BY <1>2, FailedType, FailWithFields DEF QAGate
<1>3. CASE Required("qa") /\ ReadyForQA /\ PhaseComplete("qa") /\ ws.blockers = {} /\ ~ValidationFailing
  BY <1>3 DEF QAGate, Goto, PhaseComplete, ValidationFailing
<1>4. CASE Required("qa") /\ ReadyForQA /\ ~(PhaseComplete("qa") /\ ws.blockers = {} /\ ~ValidationFailing)
  <2> DEFINE t == [ws EXCEPT !.blockers = {"validation"}]
             u == [t EXCEPT !.done = ws.done \ {"qa"}]
  <2>1. t \in State /\ Same(t, ws) /\ t.done = ws.done /\ t.status = ws.status
    BY BlockersField DEF Blockers
  <2>2. ws' = ws \/ ws' = [ws EXCEPT !.blockers = {"validation"}, !.done = ws.done \ {"qa"}]
    BY <1>4 DEF QAGate
  <2>3. ws' = ws \/ ws' = u
    BY <2>2
  <2> HIDE DEF t
  <2>4. u \in State /\ Same(u, t) /\ u.done = ws.done \ {"qa"} /\ u.status = t.status
    BY <2>1, Fields, DoneField
  <2> HIDE DEF u
  <2>5. /\ ws' \in State /\ Same(ws', ws) /\ ws'.status = ws.status
        /\ ws'.done \in {ws.done, ws.done \ {"qa"}}
    BY <2>1, <2>3, <2>4 DEF Same, Asked, Judged
  <2>6. NeededBy(ws, "qa") /\ row' = ws' /\ qaCycle' = 1 /\ pc' = "qa"
    BY <1>4 DEF QAGate, Required, NeededBy, Save, Goto
  <2> QED
    BY <2>5, <2>6 DEF QAGate
<1> QED
  BY <1>1, <1>2, <1>3, <1>4

\* QA has run and left the verdict as blockers.
JudgedWith(verdict) ==
  /\ pc = "qa" /\ pc' \in {"finalgate", "triage", "plan", "idle"}
  /\ loop' = "qa" /\ UNCHANGED <<qaCycle, delivered, runs>> /\ cycle' = 1 /\ same' = 0
  /\ ws' \in State /\ row' \in State
  /\ ws.validation = "fail" => verdict # {}
  /\ \A t \in {ws', row'} :
       /\ Asked(t, ws) /\ Judged(t, ws) /\ t.done = ws.done \cup {"qa"} /\ t.blockers = verdict
       /\ t.unreviewed = (IF verdict = {} THEN FALSE ELSE ws.unreviewed)
       /\ t.status = (IF pc' = "idle" THEN "failed" ELSE ws.status)
  /\ pc' = "finalgate" <=> verdict = {}
  /\ pc' = "triage" => ws'.auto = ws.auto /\ (MaxQARetries < 0 \/ qaCycle <= MaxQARetries)
  /\ pc' = "plan" => ws.auto \in 1..(AutoAttempts - 1) /\ ws'.auto = ws.auto + 1

LEMMA QAEffect ==
  ASSUME ws \in State, AutoAttempts \in Nat, QA
  PROVE  \E verdict \in SUBSET Blockers : JudgedWith(verdict)
<1>1. PICK issues \in BOOLEAN :
        \/ /\ QAVerdict(issues) = {}
           /\ ws' = Reviewed(QAVerdict(issues)) /\ row' = ws' /\ pc' = "finalgate"
        \/ /\ QAVerdict(issues) # {} /\ (MaxQARetries < 0 \/ qaCycle <= MaxQARetries)
           /\ ws' = Reviewed(QAVerdict(issues)) /\ row' = ws' /\ pc' = "triage"
        \/ /\ QAVerdict(issues) # {} /\ AnotherDefinition(ws)
           /\ ws' = [Reviewed(QAVerdict(issues)) EXCEPT !.auto = Reviewed(QAVerdict(issues)).auto + 1]
           /\ row' = Reviewed(QAVerdict(issues)) /\ pc' = "plan"
        \/ QAVerdict(issues) # {} /\ FailWith(Reviewed(QAVerdict(issues)), "other")
  BY DEF QA, Save, Goto
<1> DEFINE verdict == QAVerdict(issues)
           t == Reviewed(verdict)
<1>2. verdict \in SUBSET Blockers /\ (ws.validation = "fail" => verdict # {})
  BY VerdictType DEF QAVerdict, ValidationFailing
<1> HIDE DEF verdict
<1>3. /\ t \in State /\ Asked(t, ws) /\ Judged(t, ws) /\ t.done = ws.done \cup {"qa"}
      /\ t.unreviewed = (IF verdict = {} THEN FALSE ELSE ws.unreviewed)
      /\ t.auto = ws.auto /\ t.blockers = verdict /\ t.status = ws.status
  BY <1>2, ReviewedFields
<1> HIDE DEF t
<1>4. pc = "qa" /\ loop' = "qa" /\ cycle' = 1 /\ same' = 0 /\ UNCHANGED <<qaCycle, delivered, runs>>
  BY DEF QA, EnterLoop
<1> SUFFICES JudgedWith(verdict)
  BY <1>2
<1>5. CASE verdict = {} /\ ws' = t /\ row' = ws' /\ pc' = "finalgate"
  BY <1>2, <1>3, <1>4, <1>5 DEF JudgedWith
<1>6. CASE /\ verdict # {} /\ (MaxQARetries < 0 \/ qaCycle <= MaxQARetries)
           /\ ws' = t /\ row' = ws' /\ pc' = "triage"
  BY <1>2, <1>3, <1>4, <1>6 DEF JudgedWith
<1>7. CASE /\ verdict # {} /\ AnotherDefinition(ws)
           /\ ws' = [t EXCEPT !.auto = t.auto + 1] /\ row' = t /\ pc' = "plan"
  <2>1. ws.auto \in 1..(AutoAttempts - 1) /\ t.auto + 1 \in 0..AutoAttempts
    BY <1>3, <1>7 DEF AnotherDefinition
  <2>2. /\ ws' \in State /\ Asked(ws', t) /\ Judged(ws', t) /\ ws'.unreviewed = t.unreviewed
        /\ ws'.auto = t.auto + 1 /\ ws'.done = t.done /\ ws'.blockers = t.blockers
        /\ ws'.status = t.status
    BY <1>3, <1>7, <2>1, AttemptFields
  <2>3. /\ Asked(ws', ws) /\ Judged(ws', ws) /\ ws'.unreviewed = t.unreviewed
        /\ ws'.auto = ws.auto + 1 /\ ws'.done = t.done /\ ws'.blockers = t.blockers
        /\ ws'.status = t.status
    BY <1>3, <2>2 DEF Asked, Judged
  <2>4. \A r \in {ws', row'} :
          /\ Asked(r, ws) /\ Judged(r, ws) /\ r.done = ws.done \cup {"qa"} /\ r.blockers = verdict
          /\ r.unreviewed = (IF verdict = {} THEN FALSE ELSE ws.unreviewed)
          /\ r.status = ws.status
    BY <1>3, <1>7, <2>3
  <2> QED
    BY <1>2, <1>3, <1>4, <1>7, <2>1, <2>2, <2>4 DEF JudgedWith
<1>8. CASE verdict # {} /\ FailWith(t, "other")
  <2>1. /\ ws' \in State /\ Same(ws', t) /\ ws'.done = t.done /\ ws'.blockers = t.blockers
        /\ ws'.status = "failed" /\ row' = ws' /\ pc' = "idle"
    BY <1>3, <1>8, FailedType, FailWithFields
  <2>2. /\ Asked(ws', ws) /\ Judged(ws', ws) /\ ws'.unreviewed = t.unreviewed
    BY <1>3, <2>1 DEF Same, Asked, Judged
  <2> QED
    BY <1>2, <1>3, <1>4, <1>8, <2>1, <2>2 DEF JudgedWith
<1> QED
  BY <1>1, <1>5, <1>6, <1>7, <1>8 DEF t, verdict

LEMMA TriageEffect ==
  ASSUME ws \in State, Triage
  PROVE  /\ pc = "triage" /\ pc' = "advise" /\ UNCHANGED <<loopVars, delivered, runs>>
         /\ ws' \in State /\ row' = ws' /\ Same(ws', ws)
         /\ ws'.done \in {ws.done, ws.done \cup {"pm"}} /\ ws'.status = ws.status
<1> DEFINE t == [ws EXCEPT !.done = ws.done \cup {"pm"}]
<1>1. /\ t \in State /\ Same(t, ws) /\ t.done = ws.done \cup {"pm"}
      /\ t.status = ws.status
  BY Fields, DoneField DEF Personas
<1>2. ws' \in Checkpointed(t) \/ ws' = ws
  BY DEF Triage
<1> HIDE DEF t
<1>3. CASE ws' \in Checkpointed(t)
  <2>1. ws' \in State /\ Same(ws', t) /\ ws'.done = t.done /\ ws'.status = t.status
    BY <1>1, <1>3, CheckpointedFields
  <2> QED
    BY <1>1, <2>1 DEF Triage, Save, Goto, UnchangedLoops, Same, Asked, Judged
<1>4. CASE ws' = ws
  BY <1>4 DEF Triage, Save, Goto, UnchangedLoops, Same, Asked, Judged
<1> QED
  BY <1>2, <1>3, <1>4

LEMMA AdviseEffect ==
  ASSUME ws \in State, Advise
  PROVE  /\ pc = "advise" /\ UNCHANGED <<loop, cycle, same, delivered, runs>>
         /\ ws' \in State /\ row' = ws' /\ Same(ws', ws) /\ ws'.status = ws.status
         /\ ws'.done \in {ws.done, ws.done \cup {"matriarch"}}
         /\ \/ pc' = "plan" /\ qaCycle' = qaCycle
            \/ pc' = "qa" /\ qaCycle' = NextQACycle
<1> DEFINE t == Advised
<1>1. /\ t \in State /\ Same(t, ws) /\ t.blockers = ws.blockers /\ t.status = ws.status
      /\ t.done \in {ws.done, ws.done \cup {"matriarch"}}
  BY AdvisedFields
<1>2. /\ \/ ws' = t /\ pc' = "plan" /\ qaCycle' = qaCycle
         \/ ws' \in {t, [t EXCEPT !.blockers = {}]} /\ pc' = "qa" /\ qaCycle' = NextQACycle
      /\ row' = ws'
  BY DEF Advise, Save, Goto
<1> HIDE DEF t
<1> DEFINE u == [t EXCEPT !.blockers = {}]
<1>4. u \in State /\ Same(u, t) /\ u.done = t.done /\ u.status = t.status
  BY <1>1, BlockersField
<1> HIDE DEF u
<1>3. ws' \in State /\ Same(ws', t) /\ ws'.done = t.done /\ ws'.status = t.status
  BY <1>1, <1>2, <1>4 DEF Same, Asked, Judged, u
<1> QED
  BY <1>1, <1>2, <1>3 DEF Advise, Same, Asked, Judged

LEMMA FinalizerGateEffect ==
  ASSUME ws \in State, row \in State, FinalizerGate
  PROVE  /\ pc = "finalgate" /\ UNCHANGED <<loopVars, delivered, runs>>
         /\ \/ /\ pc' = "idle" /\ ws.validation = "fail"
               /\ ws' \in State /\ row' = ws' /\ Same(ws', ws)
               /\ ws'.done = ws.done /\ ws'.status = "failed"
            \/ pc' = "finalizer" /\ UNCHANGED <<ws, row>>
<1> DEFINE t == [ws EXCEPT !.blockers = {"validation"}]
<1>1. t \in State /\ Same(t, ws) /\ t.done = ws.done
  BY BlockersField DEF Blockers
<1>2. \/ FailWith(t, "other") /\ ws.validation = "fail"
      \/ pc' = "finalizer" /\ UNCHANGED <<ws, row>>
  BY DEF FinalizerGate, Goto, ValidationFailing
<1> HIDE DEF t
<1>3. CASE FailWith(t, "other") /\ ws.validation = "fail"
   BY <1>1, <1>3, FailedType, FailWithFields DEF FinalizerGate, UnchangedLoops, Same, Asked,
     Judged
<1>4. CASE pc' = "finalizer" /\ UNCHANGED <<ws, row>>
  BY <1>4 DEF FinalizerGate, UnchangedLoops
<1> QED
  BY <1>2, <1>3, <1>4

LEMMA FinalizerDeliversEffect ==
  ASSUME ws \in State, delivered \in BOOLEAN, FinalizerDelivers
  PROVE  /\ pc = "finalizer" /\ pc' \in {"complete", "idle"} /\ UNCHANGED <<loopVars, runs>>
         /\ ws' \in State /\ row' = ws' /\ Same(ws', ws) /\ ws'.blockers = ws.blockers
         /\ ws'.done = ws.done \cup {"finalizer"}
         /\ ws'.status = IF pc' = "idle" THEN "failed" ELSE ws.status
         /\ delivered' \in BOOLEAN
<1> DEFINE t == [ws EXCEPT !.done = ws.done \cup {"finalizer"}]
<1>1. /\ t \in State /\ Same(t, ws) /\ t.done = ws.done \cup {"finalizer"}
      /\ t.blockers = ws.blockers /\ t.status = ws.status
  BY Fields, DoneField DEF Personas
<1>2. \/ ws' = t /\ row' = ws' /\ pc' = "complete" /\ delivered' = (delivered \/ ws.delivery)
      \/ FailWith(t, "delivery") /\ UNCHANGED delivered
  BY DEF FinalizerDelivers, Save, Goto
<1> HIDE DEF t
<1>3. ws.delivery \in BOOLEAN /\ pc = "finalizer" /\ UNCHANGED <<loopVars, runs>>
  BY DEF State, FinalizerDelivers, UnchangedLoops
<1>4. CASE ws' = t /\ row' = ws' /\ pc' = "complete" /\ delivered' = (delivered \/ ws.delivery)
  BY <1>1, <1>3, <1>4
<1>5. CASE FailWith(t, "delivery") /\ UNCHANGED delivered
  BY <1>1, <1>3, <1>5, FailedType, FailWithFields DEF Same, Asked, Judged
<1> QED
  BY <1>2, <1>4, <1>5

LEMMA FinalizerSkippedEffect ==
  ASSUME FinalizerSkipped
  PROVE  /\ pc = "finalizer" /\ pc' = "complete" /\ UNCHANGED <<ws, row, loopVars, delivered, runs>>
         /\ NeededBy(ws, "finalizer") => "finalizer" \in ws.done
BY DEF FinalizerSkipped, Required, NeededBy, PhaseComplete, Goto, UnchangedLoops

LEMMA CompleteEffect ==
  ASSUME ws \in State, Complete
  PROVE  /\ pc = "complete" /\ pc' = "idle" /\ UNCHANGED <<loopVars, delivered, runs>>
         /\ ws' \in State /\ row' = ws' /\ Same(ws', ws) /\ ws'.blockers = ws.blockers
         /\ ws'.done = ws.done /\ ws'.status = "completed"
BY StatusField, Updates DEF Complete, Save, Goto, UnchangedLoops

-----------------------------------------------------------------------------
LEMMA NextRun ==
  ASSUME NEW n \in 0..MaxRuns, n < MaxRuns
  PROVE  n + 1 \in 0..MaxRuns
<1>1. MaxRuns \in Nat
  BY PipelineAssumption
<1> QED
  BY <1>1

LEMMA TypeInit == Init => TypeOK
<1> SUFFICES ASSUME Init PROVE TypeOK
  OBVIOUS
<1>1. opts \in OptionSets /\ AutoAttempts \in Nat
  BY OptionTypes DEF Init
<1>2. ASSUME NEW s \in Stacks, NEW d \in BOOLEAN PROVE NewState(s, d) \in State
  BY <1>1, <1>2, PipelineAssumption DEF NewState, State
<1>3. NewState("none", TRUE) \in State
  BY <1>1 DEF NewState, State
<1>4. ImprovementState \in State
  BY <1>3 DEF ImprovementState, State, Personas
<1>5. ws \in State
  BY <1>2, <1>4, PipelineAssumption DEF Init
<1>6. MaxRuns \in Nat
  BY PipelineAssumption
<1>7. runs \in 0..MaxRuns
  BY <1>6 DEF Init
<1> QED
  BY <1>1, <1>5, <1>7 DEF Init, TypeOK, Places

\* The actions of Next, for the case distinctions of the proofs.
LEMMA Steps ==
  ASSUME Next
  PROVE  \/ StartRun \/ StepFails \/ Crash
         \/ \E p, next \in {"director", "pm", "matriarch", "architect", "implement"} :
              /\ p # "implement" /\ Skip(p, next)
              /\ <<p, next>> \in {<<"director", "pm">>, <<"pm", "matriarch">>,
                                  <<"matriarch", "architect">>, <<"architect", "implement">>}
         \/ Director \/ ProjectManager \/ Matriarch \/ Architect
         \/ Implement \/ PodPhase \/ ValidationPasses \/ ValidationIssues \/ PlanRemediation
         \/ QAGate \/ QA \/ Triage \/ Advise
         \/ FinalizerGate \/ FinalizerDelivers \/ FinalizerSkipped \/ Complete
BY DEF Next, RunStep, Early, Implementation, Verification, Finish

LEMMA OptionsFixed ==
  ASSUME [Next]_vars
  PROVE  opts' = opts /\ State' = State
<1>1. opts' = opts
   BY Steps DEF vars, StartRun, StepFails, Crash, Skip, Director, ProjectManager, Matriarch,
     Architect,
     Implement, PodPhase, ValidationPasses, ValidationIssues, PlanRemediation, QAGate, QA, Triage,
     Advise, FinalizerGate, FinalizerDelivers, FinalizerSkipped, Complete
<1> QED
  BY <1>1 DEF State, AutoAttempts

LEMMA TypeStep ==
  ASSUME TypeOK, [Next]_vars
  PROVE  TypeOK'
<1> USE DEF TypeOK, Places, loopVars
<1>0. /\ ws \in State /\ row \in State /\ opts' = opts /\ State' = State
      /\ delivered \in BOOLEAN /\ AutoAttempts \in Nat /\ MaxQARetries \in Int
      /\ qaCycle \in Nat /\ cycle \in Nat /\ same \in Nat
  BY OptionsFixed, OptionTypes
<1>1. CASE StartRun
  BY <1>0, <1>1, StartRunEffect, NextRun
<1>2. CASE StepFails
  BY <1>0, <1>2, StepFailsEffect
<1>3. CASE Crash
  BY <1>0, <1>3, CrashEffect
<1>4. ASSUME NEW p, NEW next, Skip(p, next),
             <<p, next>> \in {<<"director", "pm">>, <<"pm", "matriarch">>,
                             <<"matriarch", "architect">>, <<"architect", "implement">>}
      PROVE  TypeOK'
  <2>1. /\ p \in {"director", "pm", "matriarch", "architect"}
        /\ next = CASE p = "director" -> "pm" [] p = "pm" -> "matriarch"
                     [] p = "matriarch" -> "architect" [] p = "architect" -> "implement"
    BY <1>4
  <2>2. /\ pc = p /\ pc' = next /\ UNCHANGED <<ws, row, loopVars, delivered, runs>>
        /\ (p = "director" \/ NeededBy(ws, p)) => p \in ws.done
    BY <1>4, <2>1, SkipEffect
  <2> QED
    BY <1>0, <2>1, <2>2
<1>5. CASE Director
  BY <1>0, <1>5, DirectorEffect
<1>6. CASE ProjectManager
  BY <1>0, <1>6, ProjectManagerEffect
<1>7. CASE Matriarch
  BY <1>0, <1>7, MatriarchEffect
<1>8. CASE Architect
  BY <1>0, <1>8, ArchitectEffect
<1>9. CASE Implement
  BY <1>0, <1>9, ImplementEffect
<1>10. CASE PodPhase
  BY <1>0, <1>10, PodPhaseEffect DEF LoopLeft, NextQACycle
<1>11. CASE ValidationPasses
  BY <1>0, <1>11, ValidationPassesEffect DEF LoopLeft, NextQACycle
<1>12. CASE ValidationIssues
  BY <1>0, <1>12, ValidationIssuesEffect DEF ValidationIssues, NextCycle
<1>13. CASE PlanRemediation
  BY <1>0, <1>13, PlanRemediationEffect
<1>14. CASE QAGate
  BY <1>0, <1>14, QAGateEffect
<1>15. CASE QA
  <2>1. PICK verdict \in SUBSET Blockers : JudgedWith(verdict)
    BY <1>0, <1>15, QAEffect
  <2> QED
    BY <1>0, <2>1 DEF JudgedWith
<1>16. CASE Triage
  BY <1>0, <1>16, TriageEffect
<1>17. CASE Advise
  BY <1>0, <1>17, AdviseEffect DEF NextQACycle
<1>18. CASE FinalizerGate
  BY <1>0, <1>18, FinalizerGateEffect
<1>19. CASE FinalizerDelivers
  BY <1>0, <1>19, FinalizerDeliversEffect
<1>20. CASE FinalizerSkipped
  BY <1>0, <1>20, FinalizerSkippedEffect
<1>21. CASE Complete
  BY <1>0, <1>21, CompleteEffect
<1>22. CASE UNCHANGED vars
  BY <1>0, <1>22 DEF vars
<1> QED
   BY <1>1, <1>2, <1>3, <1>4, <1>5, <1>6, <1>7, <1>8, <1>9, <1>10, <1>11, <1>12, <1>13, <1>14,
     <1>15, <1>16, <1>17, <1>18, <1>19, <1>20, <1>21, <1>22, Steps

\* What the proofs of the steps know of the types.
LEMMA StepTypes ==
  ASSUME TypeOK, [Next]_vars
  PROVE  /\ ws \in State /\ row \in State /\ delivered \in BOOLEAN /\ loop \in {"impl", "qa"}
         /\ runs \in Nat /\ qaCycle \in Nat /\ AutoAttempts \in Nat /\ MaxQARetries \in Int
         /\ ws.auto \in 0..AutoAttempts
         /\ opts' = opts /\ MaxQARetries' = MaxQARetries /\ AutoAttempts' = AutoAttempts
<1>1. ws \in State /\ row \in State /\ opts' = opts
  BY OptionsFixed DEF TypeOK
<1>2. AutoAttempts \in Nat /\ MaxQARetries \in Int /\ ws.auto \in 0..AutoAttempts
  BY <1>1, OptionTypes, Fields DEF TypeOK
<1>3. runs \in Nat
  BY PipelineAssumption DEF TypeOK
<1> QED
  BY <1>1, <1>2, <1>3 DEF TypeOK, MaxQARetries, AutoAttempts

LEMMA LoopInvStep ==
  ASSUME TypeOK, LoopInv, [Next]_vars
  PROVE  LoopInv'
<1> USE DEF LoopInv, NeededBy, Same, Asked, Judged, loopVars
<1>0. /\ ws \in State /\ row \in State /\ delivered \in BOOLEAN /\ loop \in {"impl", "qa"}
      /\ runs \in Nat /\ qaCycle \in Nat /\ AutoAttempts \in Nat /\ MaxQARetries \in Int
      /\ ws.auto \in 0..AutoAttempts
      /\ opts' = opts /\ MaxQARetries' = MaxQARetries /\ AutoAttempts' = AutoAttempts
  BY StepTypes
<1>1. CASE StartRun
  BY <1>0, <1>1, StartRunEffect
<1>2. CASE StepFails
  BY <1>0, <1>2, StepFailsEffect
<1>3. CASE Crash
  BY <1>0, <1>3, CrashEffect
<1>4. ASSUME NEW p, NEW next, Skip(p, next),
             <<p, next>> \in {<<"director", "pm">>, <<"pm", "matriarch">>,
                             <<"matriarch", "architect">>, <<"architect", "implement">>}
      PROVE  LoopInv'
  <2>1. /\ p \in {"director", "pm", "matriarch", "architect"}
        /\ next = CASE p = "director" -> "pm" [] p = "pm" -> "matriarch"
                     [] p = "matriarch" -> "architect" [] p = "architect" -> "implement"
    BY <1>4
  <2>2. /\ pc = p /\ pc' = next /\ UNCHANGED <<ws, row, loopVars, delivered, runs>>
        /\ (p = "director" \/ NeededBy(ws, p)) => p \in ws.done
    BY <1>4, <2>1, SkipEffect
  <2> QED
    BY <1>0, <2>1, <2>2
<1>5. CASE Director
  BY <1>0, <1>5, DirectorEffect
<1>6. CASE ProjectManager
  BY <1>0, <1>6, ProjectManagerEffect
<1>7. CASE Matriarch
  BY <1>0, <1>7, MatriarchEffect
<1>8. CASE Architect
  BY <1>0, <1>8, ArchitectEffect
<1>9. CASE Implement
  BY <1>0, <1>9, ImplementEffect
<1>10. CASE PodPhase
  BY <1>0, <1>10, PodPhaseEffect DEF LoopLeft, HasToolchain
<1>11. CASE ValidationPasses
  BY <1>0, <1>11, ValidationPassesEffect DEF LoopLeft, HasToolchain
<1>12. CASE ValidationIssues
  BY <1>0, <1>12, ValidationIssuesEffect DEF Verdicts, HasToolchain
<1>13. CASE PlanRemediation
  BY <1>0, <1>13, PlanRemediationEffect
<1>14. CASE QAGate
  BY <1>0, <1>14, QAGateEffect
<1>15. CASE QA
  <2>1. PICK verdict \in SUBSET Blockers : JudgedWith(verdict)
    BY <1>0, <1>15, QAEffect
  <2> QED
    BY <1>0, <2>1 DEF JudgedWith
<1>16. CASE Triage
  BY <1>0, <1>16, TriageEffect
<1>17. CASE Advise
  BY <1>0, <1>17, AdviseEffect
<1>18. CASE FinalizerGate
  BY <1>0, <1>18, FinalizerGateEffect
<1>19. CASE FinalizerDelivers
  BY <1>0, <1>19, FinalizerDeliversEffect
<1>20. CASE FinalizerSkipped
  BY <1>0, <1>20, FinalizerSkippedEffect
<1>21. CASE Complete
  BY <1>0, <1>21, CompleteEffect
<1>22. CASE UNCHANGED vars
  BY <1>0, <1>22 DEF vars
<1> QED
  BY <1>1, <1>2, <1>3, <1>4, <1>5, <1>6, <1>7, <1>8, <1>9, <1>10, <1>11, <1>12, <1>13,
    <1>14, <1>15, <1>16, <1>17, <1>18, <1>19, <1>20, <1>21, <1>22, Steps

(* No phase after the validation is reached with a failure that QA will not    *)
(* see.                                                                       *)
LEMMA ValidationInvStep ==
  ASSUME TypeOK, LoopInv, ValidationInv, [Next]_vars
  PROVE  ValidationInv'
<1> USE DEF LoopInv, ValidationInv, Coherent, FailureIsSeen, Undirected, InLoop, InQA,
     Reviewing, Finalizing, Coding, Directed, NeededBy, Same, Asked, Judged, loopVars
<1>0. /\ ws \in State /\ row \in State /\ delivered \in BOOLEAN /\ loop \in {"impl", "qa"}
      /\ runs \in Nat /\ qaCycle \in Nat /\ AutoAttempts \in Nat /\ MaxQARetries \in Int
      /\ ws.auto \in 0..AutoAttempts
      /\ opts' = opts /\ MaxQARetries' = MaxQARetries /\ AutoAttempts' = AutoAttempts
  BY StepTypes
<1>1. CASE StartRun
  BY <1>0, <1>1, StartRunEffect
<1>2. CASE StepFails
  BY <1>0, <1>2, StepFailsEffect
<1>3. CASE Crash
  BY <1>0, <1>3, CrashEffect
<1>4. ASSUME NEW p, NEW next, Skip(p, next),
             <<p, next>> \in {<<"director", "pm">>, <<"pm", "matriarch">>,
                             <<"matriarch", "architect">>, <<"architect", "implement">>}
      PROVE  ValidationInv'
  <2>1. /\ p \in {"director", "pm", "matriarch", "architect"}
        /\ next = CASE p = "director" -> "pm" [] p = "pm" -> "matriarch"
                     [] p = "matriarch" -> "architect" [] p = "architect" -> "implement"
    BY <1>4
  <2>2. /\ pc = p /\ pc' = next /\ UNCHANGED <<ws, row, loopVars, delivered, runs>>
        /\ (p = "director" \/ NeededBy(ws, p)) => p \in ws.done
    BY <1>4, <2>1, SkipEffect
  <2> QED
    BY <1>0, <2>1, <2>2
<1>5. CASE Director
  BY <1>0, <1>5, DirectorEffect
<1>6. CASE ProjectManager
  BY <1>0, <1>6, ProjectManagerEffect
<1>7. CASE Matriarch
  BY <1>0, <1>7, MatriarchEffect
<1>8. CASE Architect
  BY <1>0, <1>8, ArchitectEffect
<1>9. CASE Implement
  BY <1>0, <1>9, ImplementEffect
<1>10. CASE PodPhase
  BY <1>0, <1>10, PodPhaseEffect DEF LoopLeft, HasToolchain
<1>11. CASE ValidationPasses
  BY <1>0, <1>11, ValidationPassesEffect DEF LoopLeft, HasToolchain
<1>12. CASE ValidationIssues
  BY <1>0, <1>12, ValidationIssuesEffect DEF Verdicts, HasToolchain
<1>13. CASE PlanRemediation
  BY <1>0, <1>13, PlanRemediationEffect
<1>14. CASE QAGate
  BY <1>0, <1>14, QAGateEffect
<1>15. CASE QA
  <2>1. PICK verdict \in SUBSET Blockers : JudgedWith(verdict)
    BY <1>0, <1>15, QAEffect
  <2> QED
    BY <1>0, <2>1 DEF JudgedWith
<1>16. CASE Triage
  BY <1>0, <1>16, TriageEffect
<1>17. CASE Advise
  BY <1>0, <1>17, AdviseEffect
<1>18. CASE FinalizerGate
  BY <1>0, <1>18, FinalizerGateEffect
<1>19. CASE FinalizerDelivers
  BY <1>0, <1>19, FinalizerDeliversEffect
<1>20. CASE FinalizerSkipped
  BY <1>0, <1>20, FinalizerSkippedEffect
<1>21. CASE Complete
  BY <1>0, <1>21, CompleteEffect
<1>22. CASE UNCHANGED vars
  BY <1>0, <1>22 DEF vars
<1> QED
  BY <1>1, <1>2, <1>3, <1>4, <1>5, <1>6, <1>7, <1>8, <1>9, <1>10, <1>11, <1>12, <1>13,
    <1>14, <1>15, <1>16, <1>17, <1>18, <1>19, <1>20, <1>21, <1>22, Steps

(* The phases before the run's place have left a summary, whichever run they   *)
(* were in.                                                                   *)
LEMMA CompletionInvStep ==
  ASSUME TypeOK, LoopInv, CompletionInv, [Next]_vars
  PROVE  CompletionInv'
<1> USE DEF LoopInv, CompletionInv, CompletedRanAll, Behind, Personas, InLoop, InQA,
     Reviewing, Finalizing, Coding, Directed, NeededBy, Same, Asked, Judged, loopVars
<1>0. /\ ws \in State /\ row \in State /\ delivered \in BOOLEAN /\ loop \in {"impl", "qa"}
      /\ runs \in Nat /\ qaCycle \in Nat /\ AutoAttempts \in Nat /\ MaxQARetries \in Int
      /\ ws.auto \in 0..AutoAttempts
      /\ opts' = opts /\ MaxQARetries' = MaxQARetries /\ AutoAttempts' = AutoAttempts
  BY StepTypes
<1>1. CASE StartRun
  BY <1>0, <1>1, StartRunEffect
<1>2. CASE StepFails
  BY <1>0, <1>2, StepFailsEffect
<1>3. CASE Crash
  BY <1>0, <1>3, CrashEffect
<1>4. ASSUME NEW p, NEW next, Skip(p, next),
             <<p, next>> \in {<<"director", "pm">>, <<"pm", "matriarch">>,
                             <<"matriarch", "architect">>, <<"architect", "implement">>}
      PROVE  CompletionInv'
  <2>1. /\ p \in {"director", "pm", "matriarch", "architect"}
        /\ next = CASE p = "director" -> "pm" [] p = "pm" -> "matriarch"
                     [] p = "matriarch" -> "architect" [] p = "architect" -> "implement"
    BY <1>4
  <2>2. /\ pc = p /\ pc' = next /\ UNCHANGED <<ws, row, loopVars, delivered, runs>>
        /\ (p = "director" \/ NeededBy(ws, p)) => p \in ws.done
    BY <1>4, <2>1, SkipEffect
  <2> QED
    BY <1>0, <2>1, <2>2
<1>5. CASE Director
  BY <1>0, <1>5, DirectorEffect
<1>6. CASE ProjectManager
  BY <1>0, <1>6, ProjectManagerEffect
<1>7. CASE Matriarch
  BY <1>0, <1>7, MatriarchEffect
<1>8. CASE Architect
  BY <1>0, <1>8, ArchitectEffect
<1>9. CASE Implement
  BY <1>0, <1>9, ImplementEffect
<1>10. CASE PodPhase
  BY <1>0, <1>10, PodPhaseEffect DEF LoopLeft, HasToolchain
<1>11. CASE ValidationPasses
  BY <1>0, <1>11, ValidationPassesEffect DEF LoopLeft, HasToolchain
<1>12. CASE ValidationIssues
  BY <1>0, <1>12, ValidationIssuesEffect DEF Verdicts, HasToolchain
<1>13. CASE PlanRemediation
  BY <1>0, <1>13, PlanRemediationEffect
<1>14. CASE QAGate
  BY <1>0, <1>14, QAGateEffect
<1>15. CASE QA
  <2>1. PICK verdict \in SUBSET Blockers : JudgedWith(verdict)
    BY <1>0, <1>15, QAEffect
  <2> QED
    BY <1>0, <2>1 DEF JudgedWith
<1>16. CASE Triage
  BY <1>0, <1>16, TriageEffect
<1>17. CASE Advise
  BY <1>0, <1>17, AdviseEffect
<1>18. CASE FinalizerGate
  BY <1>0, <1>18, FinalizerGateEffect
<1>19. CASE FinalizerDelivers
  BY <1>0, <1>19, FinalizerDeliversEffect
<1>20. CASE FinalizerSkipped
  BY <1>0, <1>20, FinalizerSkippedEffect
<1>21. CASE Complete
  BY <1>0, <1>21, CompleteEffect
<1>22. CASE UNCHANGED vars
  BY <1>0, <1>22 DEF vars
<1> QED
  BY <1>1, <1>2, <1>3, <1>4, <1>5, <1>6, <1>7, <1>8, <1>9, <1>10, <1>11, <1>12, <1>13,
    <1>14, <1>15, <1>16, <1>17, <1>18, <1>19, <1>20, <1>21, <1>22, Steps

(* Nothing but QA's loop leaves QA's summary behind in a first run.             *)
LEMMA FirstRunInvStep ==
  ASSUME TypeOK, LoopInv, CompletionInv, FirstRunInv, [Next]_vars
  PROVE  FirstRunInv'
<1> USE DEF LoopInv, FirstRunInv, FirstRunReviewed, InLoop, InQA, Reviewing, Finalizing,
     NeededBy, Same, Asked, Judged, loopVars
<1>0. /\ ws \in State /\ row \in State /\ delivered \in BOOLEAN /\ loop \in {"impl", "qa"}
      /\ runs \in Nat /\ qaCycle \in Nat /\ AutoAttempts \in Nat /\ MaxQARetries \in Int
      /\ ws.auto \in 0..AutoAttempts
      /\ opts' = opts /\ MaxQARetries' = MaxQARetries /\ AutoAttempts' = AutoAttempts
  BY StepTypes
<1>running. pc # "idle" => ws.status = "running" /\ row.status = "running"
  BY DEF CompletionInv
<1>1. CASE StartRun
  BY <1>0, <1>running, <1>1, StartRunEffect
<1>2. CASE StepFails
  BY <1>0, <1>running, <1>2, StepFailsEffect
<1>3. CASE Crash
  BY <1>0, <1>running, <1>3, CrashEffect
<1>4. ASSUME NEW p, NEW next, Skip(p, next),
             <<p, next>> \in {<<"director", "pm">>, <<"pm", "matriarch">>,
                             <<"matriarch", "architect">>, <<"architect", "implement">>}
      PROVE  FirstRunInv'
  <2>1. /\ p \in {"director", "pm", "matriarch", "architect"}
        /\ next = CASE p = "director" -> "pm" [] p = "pm" -> "matriarch"
                     [] p = "matriarch" -> "architect" [] p = "architect" -> "implement"
    BY <1>4
  <2>2. /\ pc = p /\ pc' = next /\ UNCHANGED <<ws, row, loopVars, delivered, runs>>
        /\ (p = "director" \/ NeededBy(ws, p)) => p \in ws.done
    BY <1>4, <2>1, SkipEffect
  <2> QED
    BY <1>0, <1>running, <2>1, <2>2
<1>5. CASE Director
  BY <1>0, <1>running, <1>5, DirectorEffect
<1>6. CASE ProjectManager
  BY <1>0, <1>running, <1>6, ProjectManagerEffect
<1>7. CASE Matriarch
  BY <1>0, <1>running, <1>7, MatriarchEffect
<1>8. CASE Architect
  BY <1>0, <1>running, <1>8, ArchitectEffect
<1>9. CASE Implement
  BY <1>0, <1>running, <1>9, ImplementEffect
<1>10. CASE PodPhase
  BY <1>0, <1>running, <1>10, PodPhaseEffect DEF LoopLeft, HasToolchain
<1>11. CASE ValidationPasses
  BY <1>0, <1>running, <1>11, ValidationPassesEffect DEF LoopLeft, HasToolchain
<1>12. CASE ValidationIssues
  BY <1>0, <1>running, <1>12, ValidationIssuesEffect DEF Verdicts, HasToolchain
<1>13. CASE PlanRemediation
  BY <1>0, <1>running, <1>13, PlanRemediationEffect
<1>14. CASE QAGate
  BY <1>0, <1>running, <1>14, QAGateEffect
<1>15. CASE QA
  <2>1. PICK verdict \in SUBSET Blockers : JudgedWith(verdict)
    BY <1>0, <1>15, QAEffect
  <2> QED
    BY <1>0, <1>running, <2>1 DEF JudgedWith
<1>16. CASE Triage
  BY <1>0, <1>running, <1>16, TriageEffect
<1>17. CASE Advise
  BY <1>0, <1>running, <1>17, AdviseEffect
<1>18. CASE FinalizerGate
  BY <1>0, <1>running, <1>18, FinalizerGateEffect
<1>19. CASE FinalizerDelivers
  BY <1>0, <1>running, <1>19, FinalizerDeliversEffect
<1>20. CASE FinalizerSkipped
  BY <1>0, <1>running, <1>20, FinalizerSkippedEffect
<1>21. CASE Complete
  BY <1>0, <1>running, <1>21, CompleteEffect
<1>22. CASE UNCHANGED vars
  BY <1>0, <1>running, <1>22 DEF vars
<1> QED
  BY <1>1, <1>2, <1>3, <1>4, <1>5, <1>6, <1>7, <1>8, <1>9, <1>10, <1>11, <1>12, <1>13,
    <1>14, <1>15, <1>16, <1>17, <1>18, <1>19, <1>20, <1>21, <1>22, Steps

(* QA's cycles are counted, and each extra one uses up an attempt.             *)
LEMMA BudgetInvStep ==
  ASSUME TypeOK, LoopInv, BudgetInv, [Next]_vars
  PROVE  BudgetInv'
<1> USE DEF LoopInv, BudgetInv, Extra, Remediating, InLoop, InQA, QABudget, NextQACycle,
     NeededBy, Same, Asked, Judged, loopVars
<1>0. /\ ws \in State /\ row \in State /\ delivered \in BOOLEAN /\ loop \in {"impl", "qa"}
      /\ runs \in Nat /\ qaCycle \in Nat /\ AutoAttempts \in Nat /\ MaxQARetries \in Int
      /\ ws.auto \in 0..AutoAttempts
      /\ opts' = opts /\ MaxQARetries' = MaxQARetries /\ AutoAttempts' = AutoAttempts
  BY StepTypes
<1>1. CASE StartRun
  BY <1>0, <1>1, StartRunEffect
<1>2. CASE StepFails
  BY <1>0, <1>2, StepFailsEffect
<1>3. CASE Crash
  BY <1>0, <1>3, CrashEffect
<1>4. ASSUME NEW p, NEW next, Skip(p, next),
             <<p, next>> \in {<<"director", "pm">>, <<"pm", "matriarch">>,
                             <<"matriarch", "architect">>, <<"architect", "implement">>}
      PROVE  BudgetInv'
  <2>1. /\ p \in {"director", "pm", "matriarch", "architect"}
        /\ next = CASE p = "director" -> "pm" [] p = "pm" -> "matriarch"
                     [] p = "matriarch" -> "architect" [] p = "architect" -> "implement"
    BY <1>4
  <2>2. /\ pc = p /\ pc' = next /\ UNCHANGED <<ws, row, loopVars, delivered, runs>>
        /\ (p = "director" \/ NeededBy(ws, p)) => p \in ws.done
    BY <1>4, <2>1, SkipEffect
  <2> QED
    BY <1>0, <2>1, <2>2
<1>5. CASE Director
  BY <1>0, <1>5, DirectorEffect
<1>6. CASE ProjectManager
  BY <1>0, <1>6, ProjectManagerEffect
<1>7. CASE Matriarch
  BY <1>0, <1>7, MatriarchEffect
<1>8. CASE Architect
  BY <1>0, <1>8, ArchitectEffect
<1>9. CASE Implement
  BY <1>0, <1>9, ImplementEffect
<1>10. CASE PodPhase
  BY <1>0, <1>10, PodPhaseEffect DEF LoopLeft, HasToolchain
<1>11. CASE ValidationPasses
  BY <1>0, <1>11, ValidationPassesEffect DEF LoopLeft, HasToolchain
<1>12. CASE ValidationIssues
  BY <1>0, <1>12, ValidationIssuesEffect DEF Verdicts, HasToolchain
<1>13. CASE PlanRemediation
  BY <1>0, <1>13, PlanRemediationEffect
<1>14. CASE QAGate
  BY <1>0, <1>14, QAGateEffect
<1>15. CASE QA
  <2>1. PICK verdict \in SUBSET Blockers : JudgedWith(verdict)
    BY <1>0, <1>15, QAEffect
  <2> QED
    BY <1>0, <2>1 DEF JudgedWith
<1>16. CASE Triage
  BY <1>0, <1>16, TriageEffect
<1>17. CASE Advise
  BY <1>0, <1>17, AdviseEffect
<1>18. CASE FinalizerGate
  BY <1>0, <1>18, FinalizerGateEffect
<1>19. CASE FinalizerDelivers
  BY <1>0, <1>19, FinalizerDeliversEffect
<1>20. CASE FinalizerSkipped
  BY <1>0, <1>20, FinalizerSkippedEffect
<1>21. CASE Complete
  BY <1>0, <1>21, CompleteEffect
<1>22. CASE UNCHANGED vars
  BY <1>0, <1>22 DEF vars
<1> QED
  BY <1>1, <1>2, <1>3, <1>4, <1>5, <1>6, <1>7, <1>8, <1>9, <1>10, <1>11, <1>12, <1>13,
    <1>14, <1>15, <1>16, <1>17, <1>18, <1>19, <1>20, <1>21, <1>22, Steps

-----------------------------------------------------------------------------
(* The initial states, and the theorems.                                     *)
IInv == TypeOK /\ LoopInv /\ ValidationInv /\ CompletionInv /\ FirstRunInv /\ BudgetInv

LEMMA InitInv == Init => IInv
<1> SUFFICES ASSUME Init PROVE IInv
  OBVIOUS
<1>1. TypeOK
  BY TypeInit
<1>2. /\ row = ws /\ pc = "idle" /\ runs = 0 /\ loop = "impl" /\ qaCycle = 1
      /\ ws.status = "pending" /\ ws.validation = "none" /\ "qa" \notin ws.done
  <2>1. ASSUME NEW s, NEW d
        PROVE  LET t == NewState(s, d)
               IN t.status = "pending" /\ t.validation = "none" /\ t.done = {}
    BY DEF NewState
  <2>2. /\ ImprovementState.status = "pending" /\ ImprovementState.validation = "none"
        /\ ImprovementState.done = {"director"}
    BY DEF ImprovementState, NewState
  <2> QED
    BY <2>1, <2>2 DEF Init
<1>3. MaxQARetries \in Int /\ AutoAttempts \in Nat
  BY <1>1, OptionTypes DEF TypeOK
<1>4. LoopInv /\ CompletionInv /\ FirstRunInv
  BY <1>2 DEF LoopInv, CompletionInv, CompletedRanAll, Behind, FirstRunInv, FirstRunReviewed,
     InLoop, InQA, Reviewing, Finalizing, Coding, Directed
<1>5. ValidationInv
  BY <1>2 DEF ValidationInv, Coherent, FailureIsSeen, Undirected, InLoop, InQA, Reviewing,
     Finalizing, Coding, Directed
<1>6. BudgetInv
  BY <1>2, <1>3 DEF BudgetInv, QABudget, Extra, Remediating, InLoop
<1> QED
  BY <1>1, <1>4, <1>5, <1>6 DEF IInv

LEMMA StepInv == IInv /\ [Next]_vars => IInv'
BY TypeStep, LoopInvStep, ValidationInvStep, CompletionInvStep, FirstRunInvStep, BudgetInvStep
   DEF IInv

LEMMA Inductive == Spec => []IInv
BY InitInv, StepInv, PTL DEF Spec

\* Every run keeps the workflow, its row and its counters within their types:
\* auto mode in particular never counts more definitions than its attempts.
THEOREM TypeCorrect == Spec => []TypeOK
<1>1. IInv => TypeOK
  BY DEF IInv
<1> QED
  BY <1>1, Inductive, PTL

\* Nothing is finalized or delivered while the last validation failed: however
\* the gate before the finalizer is set, and over any number of runs that failed
\* or died.
THEOREM FinalizesValidated == Spec => []FinalizedValidated
<1>1. IInv => FinalizedValidated
  BY DEF IInv, ValidationInv, FinalizedValidated, Finalizing
<1> QED
  BY <1>1, Inductive, PTL

\* A completed workflow has been through every phase the Director asked for,
\* over any number of runs.
THEOREM CompletesAll == Spec => []CompletedRanAll
<1>1. IInv => CompletedRanAll
  BY DEF IInv, CompletionInv
<1> QED
  BY <1>1, Inductive, PTL

\* A first run completes only what QA has seen after the Pod's last work.
THEOREM ReviewsFirstRun == Spec => []FirstRunReviewed
<1>1. IInv => FirstRunReviewed
  BY DEF IInv, FirstRunInv
<1> QED
  BY <1>1, Inductive, PTL

\* For every bound on the retries and on auto mode's attempts, QA is not asked
\* more often than both together allow.
THEOREM AsksWithinBudget == Spec => []QABudget
<1>1. BudgetInv => QABudget
  BY DEF BudgetInv, QABudget
<1>2. IInv => QABudget
  BY <1>1 DEF IInv
<1> QED
  BY <1>2, Inductive, PTL

-----------------------------------------------------------------------------
(* How many steps a run can still take, when both retries are bounded.       *)
RetriesBounded == MaxQARetries >= 0 /\ MaxImplRetries >= 0

\* How often QA is asked at most, and how many steps a validation loop takes.
Turns == MaxQARetries + 1 + Extra(AutoAttempts)
LoopSteps == 3 * (MaxImplRetries + 1)
LoopRest(place, cyc) ==
  3 * (MaxImplRetries + 1 - cyc) + (IF place = "plan" THEN 2 ELSE IF place = "pod" THEN 1 ELSE 0)
TurnRest(place, cyc) ==
  IF place = "qa" THEN LoopSteps + 2
  ELSE IF place = "triage" THEN LoopSteps + 1
  ELSE IF place = "advise" THEN LoopSteps
  ELSE LoopRest(place, cyc)
Reviews == 4 + (LoopSteps + 3) * Turns
ReviewRank(place, cyc, turn) == 4 + (LoopSteps + 3) * (Turns - turn) + TurnRest(place, cyc)

InReview(place, which) == place \in InQA \/ (place \in InLoop /\ which = "qa")
Rank(place, which, cyc, turn) ==
  IF place = "idle" THEN 0
  ELSE IF place = "complete" THEN 1
  ELSE IF place = "finalizer" THEN 2
  ELSE IF place = "finalgate" THEN 3
  ELSE IF InReview(place, which) THEN ReviewRank(place, cyc, turn)
  ELSE IF place = "qagate" THEN Reviews
  ELSE IF place \in InLoop THEN Reviews + 1 + LoopRest(place, cyc)
  ELSE Reviews + 1 + LoopSteps
       + (IF place = "implement" THEN 0 ELSE IF place = "architect" THEN 1
          ELSE IF place = "matriarch" THEN 2 ELSE IF place = "pm" THEN 3 ELSE 4)

RunRank == Rank(pc, loop, cycle, qaCycle)
RunLimit == Reviews + LoopSteps + 5

\* The counters are within their bounds where they are used.
Fits(place, which, cyc, turn) ==
  /\ place \in Places /\ which \in {"impl", "qa"} /\ cyc \in Nat /\ turn \in Nat
  /\ place \in InLoop => cyc \in 1..(MaxImplRetries + 1)
  /\ InReview(place, which) => turn \in 1..Turns

\* One turn less is worth more than what is left of it.
LEMMA TurnSpent ==
  ASSUME NEW k \in Nat, NEW t \in Nat, NEW u \in Nat, NEW r \in Nat, r < k, u < t
  PROVE  k * u \in Nat /\ k * t \in Nat /\ k * u + r < k * t
<1>1. PICK d \in Nat : t = u + 1 + d
  <2>1. t - u - 1 \in Nat /\ t = u + 1 + (t - u - 1)
    OBVIOUS
  <2> QED BY <2>1
<1>2. k * u \in Nat /\ k * d \in Nat /\ k * t \in Nat
  OBVIOUS
<1>3. k * (u + 1 + d) = k * u + k + k * d
  OBVIOUS
<1> QED BY <1>1, <1>2, <1>3

LEMMA LimitTypes ==
  ASSUME opts \in OptionSets, RetriesBounded
  PROVE  /\ MaxImplRetries \in Nat /\ Turns \in Nat /\ Turns >= 1
         /\ LoopSteps \in Nat /\ LoopSteps = 3 * MaxImplRetries + 3
<1>1. MaxQARetries \in Nat /\ MaxImplRetries \in Nat /\ AutoAttempts \in Nat
  BY OptionTypes DEF RetriesBounded
<1>2. Extra(AutoAttempts) \in Nat
  BY <1>1 DEF Extra
<1> QED BY <1>1, <1>2 DEF Turns, LoopSteps

LEMMA LoopRestRange ==
  ASSUME opts \in OptionSets, RetriesBounded, NEW place, NEW cyc \in 1..(MaxImplRetries + 1)
  PROVE  /\ LoopRest(place, cyc) \in 0..(LoopSteps - 1)
         /\ LoopRest("pod", cyc) < LoopRest("plan", cyc)
         /\ LoopRest("validate", cyc) < LoopRest("pod", cyc)
         /\ cyc + 1 <= MaxImplRetries + 1 => LoopRest("plan", cyc + 1) < LoopRest("validate", cyc)
BY LimitTypes DEF LoopRest

Turning(place, cyc) == place \in InQA \/ (place \in InLoop /\ cyc \in 1..(MaxImplRetries + 1))

LEMMA TurnRestRange ==
  ASSUME opts \in OptionSets, RetriesBounded, NEW place, NEW cyc, Turning(place, cyc)
  PROVE  TurnRest(place, cyc) \in 0..(LoopSteps + 2)
<1>1. LoopSteps \in Nat
  BY LimitTypes
<1>2. CASE place \in InQA
  BY <1>1, <1>2 DEF InQA, TurnRest
<1>3. CASE place \in InLoop /\ cyc \in 1..(MaxImplRetries + 1)
  <2>1. LoopRest(place, cyc) \in 0..(LoopSteps - 1)
    BY <1>3, LoopRestRange
  <2> QED BY <1>1, <1>3, <2>1 DEF InLoop, TurnRest
<1> QED BY <1>2, <1>3 DEF Turning

LEMMA ReviewRankFalls ==
  ASSUME opts \in OptionSets, RetriesBounded, NEW place, NEW cyc, Turning(place, cyc), NEW turn \in 1..Turns
  PROVE  /\ Reviews \in Nat /\ Reviews >= 4
         /\ ReviewRank(place, cyc, turn) \in 4..(Reviews - 1)
         /\ \A p, c : Turning(p, c) /\ turn + 1 <= Turns
                        => ReviewRank(p, c, turn + 1) < ReviewRank(place, cyc, turn)
         /\ \A p, c : Turning(p, c) /\ TurnRest(p, c) < TurnRest(place, cyc)
                        => ReviewRank(p, c, turn) < ReviewRank(place, cyc, turn)
<1>1. PICK k \in Nat : k = LoopSteps + 3
  BY LimitTypes
<1>2. PICK t \in Nat : t = Turns
  BY LimitTypes
<1>3. PICK r \in Nat : r = TurnRest(place, cyc) /\ r < k
  BY <1>1, LimitTypes, TurnRestRange
<1>4. PICK u \in Nat : u = t - turn /\ u < t
  BY <1>2
<1>5. Reviews = 4 + k * t /\ ReviewRank(place, cyc, turn) = 4 + k * u + r
  BY <1>1, <1>2, <1>3, <1>4 DEF Reviews, ReviewRank
<1>6. k * u \in Nat /\ k * t \in Nat /\ k * u + r < k * t
  BY <1>3, <1>4, TurnSpent
<1>7. ASSUME NEW p, NEW c, Turning(p, c), turn + 1 <= Turns
      PROVE  ReviewRank(p, c, turn + 1) < ReviewRank(place, cyc, turn)
  <2>1. PICK s \in Nat : s = TurnRest(p, c) /\ s < k
    BY <1>1, <1>7, LimitTypes, TurnRestRange
  <2>2. PICK v \in Nat : v = t - (turn + 1) /\ v < u
    BY <1>2, <1>4, <1>7
  <2>3. ReviewRank(p, c, turn + 1) = 4 + k * v + s
    BY <1>1, <1>2, <2>1, <2>2 DEF ReviewRank
  <2>4. k * v \in Nat /\ k * v + s < k * u
    BY <2>1, <2>2, TurnSpent
  <2> QED BY <1>5, <1>6, <2>3, <2>4
<1>8. ASSUME NEW p, NEW c, Turning(p, c), TurnRest(p, c) < TurnRest(place, cyc)
      PROVE  ReviewRank(p, c, turn) < ReviewRank(place, cyc, turn)
  <2>1. PICK s \in Nat : s = TurnRest(p, c) /\ s < r
    BY <1>3, <1>8, LimitTypes, TurnRestRange
  <2>2. ReviewRank(p, c, turn) = 4 + k * u + s
    BY <1>1, <1>2, <1>4, <2>1 DEF ReviewRank
  <2> QED BY <1>5, <1>6, <2>1, <2>2
<1>9. Reviews \in Nat /\ Reviews >= 4 /\ ReviewRank(place, cyc, turn) \in 4..(Reviews - 1)
  BY <1>5, <1>6
<1> QED BY <1>7, <1>8, <1>9

LEMMA ReviewsType == ASSUME opts \in OptionSets, RetriesBounded PROVE Reviews \in Nat /\ Reviews >= 4
<1>1. 1 \in 1..Turns /\ Turning("qa", 1)
  BY LimitTypes DEF Turning, InQA
<1> QED BY <1>1, ReviewRankFalls

\* The rank is a number within the limit, and 0 only when the run is over.
LEMMA RankRange ==
  ASSUME opts \in OptionSets, RetriesBounded, NEW place, NEW which, NEW cyc, NEW turn,
         Fits(place, which, cyc, turn)
  PROVE  /\ Rank(place, which, cyc, turn) \in 0..RunLimit
         /\ place # "idle" => Rank(place, which, cyc, turn) >= 1
<1>1. Reviews \in Nat /\ Reviews >= 4 /\ LoopSteps \in Nat
  BY ReviewsType, LimitTypes
<1>2. RunLimit = Reviews + LoopSteps + 5
  BY DEF RunLimit
<1>3. CASE place \in {"idle", "complete", "finalizer", "finalgate"}
  BY <1>1, <1>2, <1>3 DEF Rank
<1>4. CASE place \notin {"idle", "complete", "finalizer", "finalgate"} /\ InReview(place, which)
  <2>1. Turning(place, cyc) /\ turn \in 1..Turns
    BY <1>4 DEF Fits, InReview, Turning
  <2>2. ReviewRank(place, cyc, turn) \in 4..(Reviews - 1)
    BY <2>1, ReviewRankFalls
  <2>3. Rank(place, which, cyc, turn) = ReviewRank(place, cyc, turn)
    BY <1>4 DEF Rank
  <2> QED BY <1>1, <1>2, <2>2, <2>3
<1>5. CASE place \notin {"idle", "complete", "finalizer", "finalgate"} /\ ~InReview(place, which)
  <2>1. CASE place \in InLoop
    <3>1. LoopRest(place, cyc) \in 0..(LoopSteps - 1)
      BY <2>1, LoopRestRange DEF Fits
    <3>2. Rank(place, which, cyc, turn) = Reviews + 1 + LoopRest(place, cyc)
      BY <1>5, <2>1 DEF Rank, InLoop
    <3> QED BY <1>1, <1>2, <3>1, <3>2
  <2>2. CASE place \notin InLoop
    <3>1. Rank(place, which, cyc, turn) \in {Reviews} \cup {Reviews + 1 + LoopSteps + n : n \in 0..4}
      BY <1>5, <2>2 DEF Rank
    <3> QED BY <1>1, <1>2, <3>1
  <2> QED BY <2>1, <2>2
<1> QED BY <1>3, <1>4, <1>5

\* The ways in which a step leads on.
Straight ==
  {<<"director", "pm">>, <<"pm", "matriarch">>, <<"matriarch", "architect">>, <<"architect", "implement">>,
   <<"implement", "qagate">>, <<"qagate", "finalgate">>, <<"qa", "finalgate">>, <<"finalgate", "finalizer">>,
   <<"finalizer", "complete">>}
WithinTurn == {<<"qa", "triage">>, <<"triage", "advise">>, <<"advise", "plan">>, <<"qa", "plan">>}
WithinLoop(p, c, p2, c2) ==
  \/ p = "plan" /\ p2 = "pod" /\ c2 = c
  \/ p = "pod" /\ p2 = "validate" /\ c2 = c
  \/ p = "validate" /\ p2 = "plan" /\ c2 = c + 1
Closer(p, w, c, t, p2, w2, c2, t2) ==
  \/ p # "idle" /\ p2 = "idle"
  \/ <<p, p2>> \in Straight
  \/ p = "implement" /\ p2 = "pod" /\ w2 = "impl"
  \/ p \in {"pod", "validate"} /\ w = "impl" /\ p2 = "qagate"
  \/ p = "qagate" /\ p2 = "qa"
  \/ InReview(p, w) /\ p2 = "qa" /\ t2 = t + 1
  \/ <<p, p2>> \in WithinTurn /\ w2 = "qa" /\ t2 = t
  \/ WithinLoop(p, c, p2, c2) /\ w2 = w /\ t2 = t

LEMMA RankFalls ==
  ASSUME opts \in OptionSets, RetriesBounded,
         NEW p, NEW w, NEW c, NEW t, Fits(p, w, c, t),
         NEW p2, NEW w2, NEW c2, NEW t2, Fits(p2, w2, c2, t2),
         Closer(p, w, c, t, p2, w2, c2, t2)
  PROVE  Rank(p2, w2, c2, t2) < Rank(p, w, c, t)
<1>1. Reviews \in Nat /\ Reviews >= 4 /\ LoopSteps \in Nat
  BY ReviewsType, LimitTypes
<1>2. ASSUME InReview(p, w)
      PROVE  /\ Turning(p, c) /\ t \in 1..Turns /\ Rank(p, w, c, t) = ReviewRank(p, c, t)
             /\ ReviewRank(p, c, t) \in 4..(Reviews - 1)
  <2>1. Turning(p, c) /\ t \in 1..Turns
    BY <1>2 DEF Fits, InReview, Turning
  <2>2. Rank(p, w, c, t) = ReviewRank(p, c, t)
    BY <1>2 DEF Rank, InReview, InQA, InLoop
  <2> QED BY <2>1, <2>2, ReviewRankFalls
<1>3. ASSUME InReview(p2, w2)
      PROVE  /\ Turning(p2, c2) /\ t2 \in 1..Turns /\ Rank(p2, w2, c2, t2) = ReviewRank(p2, c2, t2)
             /\ ReviewRank(p2, c2, t2) \in 4..(Reviews - 1)
  <2>1. Turning(p2, c2) /\ t2 \in 1..Turns
    BY <1>3 DEF Fits, InReview, Turning
  <2>2. Rank(p2, w2, c2, t2) = ReviewRank(p2, c2, t2)
    BY <1>3 DEF Rank, InReview, InQA, InLoop
  <2> QED BY <2>1, <2>2, ReviewRankFalls
<1>4. CASE p # "idle" /\ p2 = "idle"
  <2>1. Rank(p, w, c, t) \in 0..RunLimit /\ Rank(p, w, c, t) >= 1
    BY <1>4, RankRange
  <2>2. Rank(p2, w2, c2, t2) = 0
    BY <1>4 DEF Rank
  <2> QED BY <2>1, <2>2
<1>5. CASE <<p, p2>> \in Straight
  <2>1. CASE <<p, p2>> = <<"qa", "finalgate">>
    <3>1. InReview(p, w)
      BY <2>1 DEF InReview, InQA
    <3> QED BY <1>1, <1>2, <2>1, <3>1 DEF Rank
  <2>2. CASE <<p, p2>> # <<"qa", "finalgate">>
    BY <1>1, <1>5, <2>2 DEF Straight, Rank, InReview, InQA, InLoop
  <2> QED BY <2>1, <2>2
<1>6. CASE p = "implement" /\ p2 = "pod" /\ w2 = "impl"
  <2>1. LoopRest(p2, c2) \in 0..(LoopSteps - 1)
    BY <1>6, LoopRestRange DEF Fits, InLoop
  <2> QED BY <1>1, <1>6, <2>1 DEF Rank, InReview, InQA, InLoop
<1>7. CASE p \in {"pod", "validate"} /\ w = "impl" /\ p2 = "qagate"
  <2>1. LoopRest(p, c) \in 0..(LoopSteps - 1)
    BY <1>7, LoopRestRange DEF Fits, InLoop
  <2> QED BY <1>1, <1>7, <2>1 DEF Rank, InReview, InQA, InLoop
<1>8. CASE p = "qagate" /\ p2 = "qa"
  <2>1. InReview(p2, w2)
    BY <1>8 DEF InReview, InQA
  <2>2. Rank(p, w, c, t) = Reviews
    BY <1>8 DEF Rank, InReview, InQA, InLoop
  <2> QED BY <1>1, <1>3, <2>1, <2>2
<1>9. CASE InReview(p, w) /\ p2 = "qa" /\ t2 = t + 1
  <2>1. InReview(p2, w2)
    BY <1>9 DEF InReview, InQA
  <2>2. t + 1 <= Turns
    BY <1>3, <1>9, <2>1
  <2>3. ReviewRank(p2, c2, t + 1) < ReviewRank(p, c, t)
    BY <1>2, <1>3, <1>9, <2>1, <2>2, ReviewRankFalls
  <2> QED BY <1>2, <1>3, <1>9, <2>1, <2>3
<1>10. CASE <<p, p2>> \in WithinTurn /\ w2 = "qa" /\ t2 = t
  <2>1. InReview(p, w) /\ InReview(p2, w2)
    BY <1>10 DEF WithinTurn, InReview, InQA, InLoop
  <2>2. TurnRest(p2, c2) < TurnRest(p, c)
    <3>1. CASE p2 = "plan"
      <4>1. LoopRest(p2, c2) \in 0..(LoopSteps - 1)
        BY <3>1, LoopRestRange DEF Fits, InLoop
      <4> QED BY <1>1, <1>10, <3>1, <4>1 DEF WithinTurn, TurnRest
    <3>2. CASE p2 # "plan"
      BY <1>1, <1>10, <3>2 DEF WithinTurn, TurnRest
    <3> QED BY <3>1, <3>2
  <2> QED BY <1>2, <1>3, <1>10, <2>1, <2>2, ReviewRankFalls
<1>11. CASE WithinLoop(p, c, p2, c2) /\ w2 = w /\ t2 = t
  <2>1. p \in InLoop /\ p2 \in InLoop /\ c \in 1..(MaxImplRetries + 1) /\ c2 \in 1..(MaxImplRetries + 1)
    BY <1>11 DEF WithinLoop, Fits, InLoop
  <2>2. LoopRest(p2, c2) < LoopRest(p, c)
    BY <1>11, <2>1, LoopRestRange DEF WithinLoop
  <2>3. CASE w = "qa"
    <3>1. InReview(p, w) /\ InReview(p2, w2)
      BY <1>11, <2>1, <2>3 DEF InReview
    <3>2. TurnRest(p2, c2) < TurnRest(p, c)
      BY <2>1, <2>2 DEF TurnRest, InLoop
    <3> QED BY <1>2, <1>3, <1>11, <3>1, <3>2, ReviewRankFalls
  <2>4. CASE w # "qa"
    <3>1. LoopRest(p, c) \in 0..(LoopSteps - 1) /\ LoopRest(p2, c2) \in 0..(LoopSteps - 1)
      BY <2>1, LoopRestRange
    <3>2. /\ Rank(p, w, c, t) = Reviews + 1 + LoopRest(p, c)
          /\ Rank(p2, w2, c2, t2) = Reviews + 1 + LoopRest(p2, c2)
      BY <1>11, <2>1, <2>4 DEF Rank, InReview, InQA, InLoop
    <3> QED BY <1>1, <2>2, <3>1, <3>2
  <2> QED BY <2>3, <2>4
<1> QED BY <1>4, <1>5, <1>6, <1>7, <1>8, <1>9, <1>10, <1>11 DEF Closer

\* A validation loop that begins or goes on has not used up its cycles.
RankInv ==
  /\ pc \in InLoop \cup {"triage", "advise"} /\ MaxImplRetries >= 0
       => cycle \in 1..(MaxImplRetries + 1)
  /\ Reviewing => qaCycle >= 1

Leads == Closer(pc, loop, cycle, qaCycle, pc', loop', cycle', qaCycle')

\* What a step of a run does to its place and its counters.
LEMMA StepLeads ==
  ASSUME IInv, RankInv, Next, pc # "idle", RetriesBounded
  PROVE  Leads /\ RankInv'
<1> USE DEF Leads, Closer, Straight, WithinTurn, WithinLoop, InReview, InQA, InLoop, RankInv, Reviewing,
            Finalizing, Coding, loopVars
<1>0. /\ ws \in State /\ row \in State /\ delivered \in BOOLEAN /\ loop \in {"impl", "qa"}
      /\ qaCycle \in Nat /\ cycle \in Nat /\ AutoAttempts \in Nat
      /\ MaxQARetries \in Nat /\ MaxImplRetries \in Nat /\ opts' = opts /\ MaxImplRetries' = MaxImplRetries
      /\ pc \in {"triage", "advise"} => loop = "qa"
  <2>1. TypeOK /\ LoopInv /\ opts \in OptionSets
    BY DEF IInv, TypeOK
  <2>2. MaxQARetries \in Nat /\ MaxImplRetries \in Nat
    BY <2>1, OptionTypes DEF RetriesBounded
  <2>3. opts' = opts
    BY <2>1, StepTypes
  <2> QED BY <2>1, <2>2, <2>3, StepTypes DEF TypeOK, LoopInv, MaxImplRetries, MaxQARetries
<1>1. NextQACycle = qaCycle + 1 /\ NextCycle = cycle + 1 /\ 1 \in 1..(MaxImplRetries + 1)
  BY <1>0 DEF NextQACycle, NextCycle
<1>2. CASE StepFails \/ Crash
  <2>1. pc' = "idle"
    BY <1>2 DEF StepFails, FailWith, Crash, Goto
  <2> QED BY <2>1
<1>3. ASSUME NEW p, NEW next, Skip(p, next),
             <<p, next>> \in {<<"director", "pm">>, <<"pm", "matriarch">>,
                             <<"matriarch", "architect">>, <<"architect", "implement">>}
      PROVE  Leads /\ RankInv'
  BY <1>3 DEF Skip, Goto
<1>4. CASE Director \/ ProjectManager \/ Matriarch \/ Architect
  <2>1. /\ pc' \in {"idle", "pm", "matriarch", "architect", "implement"}
        /\ <<pc, pc'>> \in Straight \/ pc' = "idle"
    BY <1>4 DEF Director, ProjectManager, Matriarch, Architect, Runs, Goto, FailWith
  <2> QED BY <2>1
<1>5. CASE Implement
  <2>1. \/ pc = "implement" /\ pc' = "pod" /\ loop' = "impl" /\ cycle' = 1
        \/ pc = "implement" /\ pc' = "qagate"
    BY <1>0, <1>5, ImplementEffect
  <2> QED BY <1>0, <1>1, <2>1
<1>6. ASSUME LoopLeft, pc \in {"pod", "validate"}, loop' = loop PROVE Leads /\ RankInv'
  <2>1. CASE loop = "impl"
    BY <1>6, <2>1 DEF LoopLeft
  <2>2. CASE loop # "impl"
    <3>1. loop = "qa" /\ pc' = "qa" /\ qaCycle' = qaCycle + 1
      BY <1>0, <1>1, <1>6, <2>2 DEF LoopLeft
    <3> QED BY <1>0, <1>6, <3>1
  <2> QED BY <2>1, <2>2
<1>7. CASE PodPhase
  <2>1. /\ pc = "pod" /\ UNCHANGED <<loop, cycle>>
        /\ (pc' = "validate" /\ qaCycle' = qaCycle) \/ LoopLeft
    BY <1>0, <1>7, PodPhaseEffect
  <2>2. CASE pc' = "validate" /\ qaCycle' = qaCycle
    BY <1>0, <2>1, <2>2
  <2> QED BY <1>6, <2>1, <2>2
<1>8. CASE ValidationPasses
  <2>1. pc = "validate" /\ LoopLeft /\ loop' = loop
    BY <1>0, <1>8, ValidationPassesEffect
  <2> QED BY <1>6, <2>1
<1>9. CASE ValidationIssues
  <2>1. pc = "validate" /\ UNCHANGED <<loop, qaCycle>> /\ cycle' = cycle + 1
    BY <1>1, <1>9 DEF ValidationIssues
  <2>2. pc' = "idle" \/ (pc' = "plan" /\ cycle <= MaxImplRetries)
    BY <1>0, <1>9 DEF ValidationIssues, FailWith, Goto
  <2>3. CASE pc' = "plan" /\ cycle <= MaxImplRetries
    <3>1. cycle' \in 1..(MaxImplRetries + 1)
      BY <1>0, <2>1, <2>3
    <3> QED BY <1>0, <2>1, <2>3, <3>1
  <2> QED BY <2>2, <2>3
<1>10. CASE PlanRemediation
  BY <1>0, <1>10, PlanRemediationEffect
<1>11. CASE QAGate
  <2>1. pc = "qagate" /\ (pc' \in {"finalgate", "idle"} \/ (pc' = "qa" /\ qaCycle' = 1))
    BY <1>0, <1>11, QAGateEffect
  <2> QED BY <2>1
<1>12. CASE QA
  <2>1. PICK verdict \in SUBSET Blockers : JudgedWith(verdict)
    BY <1>0, <1>12, QAEffect
  <2>2. /\ pc = "qa" /\ pc' \in {"finalgate", "triage", "plan", "idle"}
        /\ loop' = "qa" /\ qaCycle' = qaCycle /\ cycle' = 1
    BY <2>1 DEF JudgedWith
  <2> QED BY <1>0, <1>1, <2>2
<1>13. CASE Triage
  BY <1>0, <1>13, TriageEffect
<1>14. CASE Advise
  <2>1. /\ pc = "advise" /\ loop = "qa" /\ loop' = loop /\ cycle' = cycle
        /\ \/ pc' = "plan" /\ qaCycle' = qaCycle /\ cycle' = cycle
           \/ pc' = "qa" /\ qaCycle' = qaCycle + 1
    BY <1>0, <1>1, <1>14, AdviseEffect
  <2> QED BY <1>0, <2>1
<1>15. CASE FinalizerGate \/ FinalizerDelivers \/ FinalizerSkipped \/ Complete
  <2>1. CASE FinalizerGate
    <3>1. pc = "finalgate" /\ pc' \in {"idle", "finalizer"}
      BY <1>0, <2>1, FinalizerGateEffect
    <3> QED BY <3>1
  <2>2. CASE FinalizerDelivers
    <3>1. pc = "finalizer" /\ pc' \in {"idle", "complete"}
      BY <1>0, <2>2, FinalizerDeliversEffect
    <3> QED BY <3>1
  <2>3. CASE FinalizerSkipped
    <3>1. pc = "finalizer" /\ pc' = "complete"
      BY <2>3, FinalizerSkippedEffect
    <3> QED BY <3>1
  <2>4. CASE Complete
    <3>1. pc = "complete" /\ pc' = "idle"
      BY <1>0, <2>4, CompleteEffect
    <3> QED BY <3>1
  <2> QED BY <1>15, <2>1, <2>2, <2>3, <2>4
<1>16. ~StartRun
  BY DEF StartRun
<1> QED
  BY <1>2, <1>3, <1>4, <1>5, <1>7, <1>8, <1>9, <1>10, <1>11, <1>12, <1>13, <1>14, <1>15, <1>16, Steps

\* A run begins outside the loops.
LEMMA StartLeads ==
  ASSUME IInv, Next, pc = "idle"
  PROVE  RankInv'
<1>1. StartRun
  BY Steps DEF StepFails, Crash, Skip, Director, ProjectManager, Matriarch, Architect, Implement,
     PodPhase, ValidationPasses, ValidationIssues, PlanRemediation, QAGate, QA, Triage, Advise,
     FinalizerGate, FinalizerDelivers, FinalizerSkipped, Complete, Runs
<1>2. pc' = "director"
  BY <1>1 DEF StartRun, Goto
<1> QED BY <1>2 DEF RankInv, Reviewing, InQA, InLoop

BoundedInv == RetriesBounded => RankInv

LEMMA BoundIsFixed == ASSUME IInv, [Next]_vars PROVE opts' = opts /\ RetriesBounded' = RetriesBounded
<1>1. opts' = opts
  BY OptionsFixed
<1> QED BY <1>1 DEF RetriesBounded, MaxQARetries, MaxImplRetries

LEMMA BoundedStep == IInv /\ BoundedInv /\ [Next]_vars => BoundedInv'
<1> SUFFICES ASSUME IInv, BoundedInv, [Next]_vars, RetriesBounded PROVE RankInv'
  BY BoundIsFixed DEF BoundedInv
<1>1. CASE Next /\ pc # "idle"
  BY <1>1, StepLeads DEF BoundedInv
<1>2. CASE Next /\ pc = "idle"
  BY <1>2, StartLeads
<1>3. CASE UNCHANGED vars
  BY <1>3 DEF BoundedInv, RankInv, Reviewing, MaxImplRetries, MaxQARetries, vars
<1> QED BY <1>1, <1>2, <1>3

LEMMA BoundedHolds == Spec => [](IInv /\ BoundedInv)
<1>1. Init => BoundedInv
  BY DEF Init, BoundedInv, RankInv, Reviewing, InLoop, InQA
<1> QED BY <1>1, InitInv, StepInv, BoundedStep, PTL DEF Spec

\* The invariants keep the counters where the rank needs them.
LEMMA Fitting ==
  ASSUME IInv, RankInv, RetriesBounded
  PROVE  opts \in OptionSets /\ Fits(pc, loop, cycle, qaCycle)
<1>1. /\ opts \in OptionSets /\ pc \in Places /\ loop \in {"impl", "qa"}
      /\ cycle \in Nat /\ qaCycle \in Nat
  BY DEF IInv, TypeOK
<1>2. pc \in InLoop => cycle \in 1..(MaxImplRetries + 1)
  BY DEF RankInv, RetriesBounded
<1>3. Turns \in Nat /\ qaCycle <= Turns
  BY <1>1, LimitTypes DEF IInv, BudgetInv, QABudget, RetriesBounded, Turns, Extra
<1>4. InReview(pc, loop) => qaCycle \in 1..Turns
  BY <1>1, <1>3 DEF RankInv, InReview, Reviewing
<1> QED BY <1>1, <1>2, <1>4 DEF Fits

\* Whatever a step of a run does, a failure included, less of the run is left.
RunShrinks ==
  RetriesBounded /\ pc # "idle" =>
    RunRank \in 1..RunLimit /\ RunRank' \in Nat /\ RunRank' < RunRank

LEMMA ShrinkStep == IInv /\ BoundedInv /\ [Next]_vars => [RunShrinks]_vars
<1> SUFFICES ASSUME IInv, BoundedInv, Next, RetriesBounded, pc # "idle"
             PROVE  RunRank \in 1..RunLimit /\ RunRank' \in Nat /\ RunRank' < RunRank
  BY DEF RunShrinks
<1>1. opts' = opts /\ RetriesBounded'
  BY BoundIsFixed
<1>2. RankInv /\ Leads /\ RankInv'
  BY StepLeads DEF BoundedInv
<1>3. opts \in OptionSets /\ Fits(pc, loop, cycle, qaCycle)
  BY <1>2, Fitting
<1>4. Fits(pc', loop', cycle', qaCycle')
  <2>1. IInv'
    BY StepInv
  <2>2. Fits(pc, loop, cycle, qaCycle)'
    <3>1. (IInv /\ RankInv /\ RetriesBounded => Fits(pc, loop, cycle, qaCycle))'
      BY Fitting, PTL
    <3> QED BY <1>1, <1>2, <2>1, <3>1
  <2> QED
    BY <1>1, <2>2 DEF Fits, Turns, InReview, MaxImplRetries, MaxQARetries, AutoAttempts
<1>5. RunRank = Rank(pc, loop, cycle, qaCycle) /\ RunRank' = Rank(pc', loop', cycle', qaCycle')
  BY <1>1 DEF RunRank, Rank, InReview, ReviewRank, Reviews, LoopSteps, Turns, TurnRest, LoopRest,
              MaxImplRetries, MaxQARetries, AutoAttempts
<1>6. RunLimit \in Nat
  BY <1>3, ReviewsType, LimitTypes DEF RunLimit
<1>7. /\ Rank(pc, loop, cycle, qaCycle) \in 0..RunLimit /\ Rank(pc, loop, cycle, qaCycle) >= 1
      /\ Rank(pc', loop', cycle', qaCycle') \in 0..RunLimit
  BY <1>3, <1>4, RankRange
<1>8. Rank(pc', loop', cycle', qaCycle') < Rank(pc, loop, cycle, qaCycle)
  BY <1>2, <1>3, <1>4, RankFalls DEF Leads
<1> QED BY <1>5, <1>6, <1>7, <1>8

\* With bounded retries, for every bound, every step of a run, a failing one and
\* a crash included, lowers a number that RunLimit bounds when the run begins:
\* no answers of the models keep a run going for more steps.  It is what RunEnds
\* rests on.
THEOREM RunsShrink == Spec => [][RunShrinks]_vars
BY BoundedHolds, ShrinkStep, PTL DEF Spec
=============================================================================
