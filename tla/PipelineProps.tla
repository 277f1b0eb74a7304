---------------------------- MODULE PipelineProps ----------------------------
(***************************************************************************)
(* The properties of Pipeline.tla.                                          *)
(***************************************************************************)
EXTENDS Pipeline

TypeOK ==
  /\ opts \in OptionSets
  /\ ws \in State
  /\ row \in State
  /\ pc \in Places
  /\ loop \in {"impl", "qa"}
  /\ cycle \in Nat
  /\ same \in Nat
  /\ qaCycle \in Nat
  /\ delivered \in BOOLEAN
  /\ runs \in 0..MaxRuns

-----------------------------------------------------------------------------
NeededBy(state, p) == state.required = {} \/ p \in state.required

\* A workflow that is stored as completed has been through every phase the
\* Director asked for, however many runs, failures and crashes that took, and
\* QA left no blocking issue behind.
CompletedRanAll ==
  row.status = "completed" =>
    /\ \A p \in Personas \ {"pod"} : NeededBy(row, p) => p \in row.done
    /\ NeededBy(row, "pod") => row.gate
    /\ NeededBy(row, "qa") => row.blockers = {}

\* Nothing is finalized or delivered while the last toolchain validation failed,
\* whether or not the gate before the finalizer is enforced.
FinalizedValidated ==
  pc \in {"finalizer", "complete"} => ws.validation # "fail"

\* A run does not ask QA more often than the retries and the auto mode's
\* definitions allow, so a model that never approves does not keep it going.
QABudget ==
  MaxQARetries >= 0 =>
    qaCycle <= MaxQARetries + 1 + (IF AutoAttempts > 1 THEN AutoAttempts - 1 ELSE 0)

\* With bounded retries every run comes to an end, whatever the models answer.
\* (Without a bound it is the stagnation test that ends the validation loop, and
\* a model that finds a new way to fail each time escapes it.)
RunEnds ==
  (MaxQARetries >= 0 /\ MaxImplRetries >= 0 /\ pc # "idle") ~> (pc = "idle")

-----------------------------------------------------------------------------
\* README.md: "QA re-validates the latest revision of each logical artifact".
\* A first run does not complete while the Pod has worked since QA last passed.
FirstRunReviewed ==
  runs <= 1 /\ row.status = "completed" /\ NeededBy(row, "qa") => ~row.unreviewed

\* engine.go on a failed delivery: the finalizer's summary is kept "so scheduler
\* retries can re-run delivery only".  A workflow with a delivery action does
\* not complete without a delivery.
CompletedDelivered ==
  row.status = "completed" /\ row.delivery /\ NeededBy(row, "finalizer") => delivered
=============================================================================
