--------------------------- MODULE LifecycleProps ---------------------------
(***************************************************************************)
(* The properties of Lifecycle.tla.                                         *)
(***************************************************************************)
EXTENDS Lifecycle

Requests ==
  [op : {"cancel", "resume", "planning", "enqueue", "send"},
   id : Workflows, seen : Statuses]

LifeTypeOK ==
  /\ status \in [Workflows -> Statuses \cup {"absent"}]
  /\ phase \in [Workers -> Phases]
  /\ handler \in [Clients -> Requests \cup {NoRequest}]
  /\ http \in {"off", "on", "stopped"}
  /\ sweep \subseteq Workflows
  /\ sweepAt \subseteq [id : Workflows, step : {"paused", "pending", "sending"}]
  /\ abandoned \subseteq Workflows
  /\ edited \subseteq Workflows
  /\ requests \in 0..MaxRequests
  /\ restarts \in 0..MaxRestarts
  /\ faults \in 0..MaxFaults
  /\ unsaved \subseteq Workflows

-----------------------------------------------------------------------------
RunsOf(f) == {r \in running : r.job.workflowID = f}
\* The run has loaded the row and will write it again.
Engaged(r) == phase[r.worker] \notin {"none", "load"}
Queued(f) ==
  \/ \E i \in 1..Len(queue) : queue[i].workflowID = f
  \/ \E j \in retrying : j.workflowID = f
Handled(f) ==
  \/ \E c \in Clients : handler[c].id = f
  \/ \E a \in sweepAt : a.id = f
Up == http = "on" /\ shut = "up"

\* While the process serves, a row that says running has an Engine.Run call
\* behind it that will write it again: no crash, cancellation, retry, second run
\* or failing store on the way leaves a row that says running and that nobody
\* runs.  The exceptions are a row whose last run could not even store its
\* outcome (transition's error is dropped or returned, and no later run has begun
\* on the row), a row that a recovery sweep ended by an error did not come to,
\* and one over which a racing planning edit wrote the status it had read.
RunningRowHasRunner ==
  Up => \A f \in Workflows \ (edited \cup abandoned \cup unsaved) :
          status[f] = "running" => \E r \in RunsOf(f) : Engaged(r)

\* Those who will write the row f once more and do not know it to be cancelled.
EngagedRuns(f) == {r \in RunsOf(f) : Engaged(r)}
Editors(f) ==
  {c \in Clients :
     handler[c] # NoRequest /\ handler[c].id = f /\ handler[c].seen # "cancelled"}

\* A cancelled row is only ever overwritten by somebody who had read the row
\* before it was cancelled: a run under way or a handler.  While it is cancelled
\* nobody joins them: no queued job, retry, resume, edit or recovery revives it.
CancelledRowNotRevived ==
  [][\A f \in Workflows :
       status[f] = "cancelled" /\ restarts' = restarts =>
         IF status'[f] = "cancelled"
         THEN EngagedRuns(f)' \subseteq EngagedRuns(f) /\ Editors(f)' \subseteq Editors(f)
         ELSE EngagedRuns(f) # {} \/ Editors(f) # {}]_vars

\* Without scheduler retries (the default) and with one handler at a time, a
\* workflow is never run by two workers at a time, through resumes, cancels and
\* crashes, unless a planning edit put an old status back.
SingleRun ==
  MaxRetries = 0 =>
    \A r, s \in running :
      r.job.workflowID = s.job.workflowID /\ r.job.workflowID \notin edited => r = s

\* Under the same conditions a completed row is never run again; only a cancel
\* request that read it before it completed can still overwrite it.
CompletedStays ==
  [][\A f \in Workflows \ edited' :
       MaxRetries = 0 /\ status[f] = "completed" =>
         status'[f] \in {"completed", "cancelled"}]_vars

\* Every workflow stops being running, through failures, cancels, crashes and
\* failing stores, unless the process is being stopped, the recovery sweep did
\* not come to it, or the last of its runs could not store its outcome: as long
\* as the scheduler has a job for the row left, such a row is taken up again.
LeftUnsaved(f) == f \in unsaved /\ ~Queued(f) /\ RunsOf(f) = {}
RunningEnds ==
  \A f \in Workflows :
    (status[f] = "running") ~>
      (status[f] # "running" \/ CtxCancelled \/ f \in abandoned \/ LeftUnsaved(f))

-----------------------------------------------------------------------------
\* docs/workflow-engine.md: "A cancelled workflow is terminal and cannot be
\* resumed."
CancelIsTerminal ==
  [][\A f \in Workflows : status[f] = "cancelled" => status'[f] = "cancelled"]_vars

\* docs/configuration.md on run_until_success: "Enables continuous retries until
\* completion/cancel".  A workflow whose row stays cancelled leaves the scheduler.
RetriesStopAfterCancel ==
  \A f \in Workflows :
    (status[f] = "cancelled") ~>
      (status[f] # "cancelled" \/ CtxCancelled \/ (~Queued(f) /\ RunsOf(f) = {}))
=============================================================================
