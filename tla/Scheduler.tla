------------------------------ MODULE Scheduler ------------------------------
(***************************************************************************)
(* internal/workflow/scheduler: a bounded pool of worker goroutines that    *)
(* take jobs from a buffered channel and call Engine.Run, with delayed      *)
(* retries and a shutdown.  Engine.Run is an outcome chosen by the          *)
(* environment here; Lifecycle.tla puts the engine and the store under it.  *)
(*                                                                          *)
(* A job carries, next to the fields of the Go struct, a ghost ticket: the  *)
(* number of the successful Enqueue call it stems from.                     *)
(***************************************************************************)
EXTENDS Integers, Sequences, FiniteSets

CONSTANTS
  Workflows,     (* workflow identifiers                                   *)
  Workers,       (* worker goroutines; Concurrency is their number         *)
  Callers,       (* goroutines that call Enqueue: API handlers, main       *)
  QueueCap,      (* capacity of the channel (4 * Concurrency in the code)  *)
  MaxRetries,    (* Options.MaxRetries; -1 retries without limit           *)
  MaxTickets     (* bound: Enqueue calls that succeed in a behaviour       *)

ASSUME SchedulerAssumption ==
  /\ QueueCap \in Nat \ {0}
  /\ MaxRetries \in Int
  /\ MaxRetries >= -1
  /\ MaxTickets \in Nat
  /\ IsFiniteSet(Workers)

VARIABLES
  entering,      (* Enqueue calls past the check of done: [caller, id]     *)
  queue,         (* Scheduler.queue, the channel's buffer                  *)
  running,       (* the Engine.Run calls in progress: [worker, job]        *)
  exited,        (* workers that have returned                             *)
  retrying,      (* jobs held by the retry goroutines of runJob            *)
  shut,          (* progress of Shutdown, see ShutStages                   *)
  issued,        (* ghost: number of successful Enqueue calls              *)
  runs           (* ghost: runs[t], Engine.Run calls made for ticket t     *)

schedVars == <<entering, queue, running, exited, retrying, shut, issued, runs>>

Unlimited == MaxRetries < 0
Tickets == 1..MaxTickets
(* An attempt is only ever compared with MaxRetries: it is not counted when *)
(* retries are unlimited.                                                   *)
Attempts == IF Unlimited THEN {0} ELSE 0..MaxRetries
Job == [workflowID : Workflows, attempt : Attempts, ticket : Tickets]
Call == [caller : Callers, id : Workflows]
RunJob == [worker : Workers, job : Job]

(* "up": serving; "cancelled": s.cancel() ran; "closed": s.done is closed   *)
(* too; "drained", "timedout": Shutdown returned nil, or its ctx error.     *)
ShutStages == {"up", "cancelled", "closed", "drained", "timedout"}

CtxCancelled == shut # "up"
DoneClosed == shut \in {"closed", "drained", "timedout"}

(* Variants with a bug, with which the runs are tested: replacing Idle,      *)
(* AllExited, RetryLeft, NextAttempt, RetrySend or RetryStep by its variant  *)
(* makes TLC refute a property.                                              *)
ExitUnwaited == exited # {}
ExitOnceDrained == exited = Workers /\ queue = <<>>
RetryOneTooMany(j) == Unlimited \/ j.attempt <= MaxRetries
SameAttempt(j) == j
IdleWhenBusy(w) == w \notin exited
SendAndKeep(j) ==
  /\ j \in retrying
  /\ Len(queue) < QueueCap
  /\ queue' = Append(queue, j)
  /\ UNCHANGED <<entering, running, exited, retrying, shut, issued, runs>>
OnlyGiveUp(j) ==
  /\ j \in retrying
  /\ CtxCancelled
  /\ retrying' = retrying \ {j}
  /\ UNCHANGED <<entering, queue, running, exited, shut, issued, runs>>

-----------------------------------------------------------------------------
Idle(w) == w \notin exited /\ \A r \in running : r.worker # w

SchedInit ==
  /\ entering = {}
  /\ queue = <<>>
  /\ running = {}
  /\ exited = {}
  /\ retrying = {}
  /\ shut = "up"
  /\ issued = 0
  /\ runs = [t \in Tickets |-> 0]

-----------------------------------------------------------------------------
(* Enqueue(id) is two selects: the check of done, then a non-blocking send  *)
(* that fails when the buffer is full.  Shutdown may close done in between. *)
EnqueueCheck(c, id) ==
  /\ ~DoneClosed
  /\ \A e \in entering : e.caller # c
  /\ entering' = entering \cup {[caller |-> c, id |-> id]}
  /\ UNCHANGED <<queue, running, exited, retrying, shut, issued, runs>>

EnqueueSend(e) ==
  /\ e \in entering
  /\ Len(queue) < QueueCap
  /\ issued < MaxTickets
  /\ entering' = entering \ {e}
  /\ issued' = issued + 1
  /\ queue' = Append(queue, [workflowID |-> e.id, attempt |-> 0, ticket |-> issued + 1])
  /\ UNCHANGED <<running, exited, retrying, shut, runs>>

EnqueueFull(e) ==
  /\ e \in entering
  /\ Len(queue) = QueueCap
  /\ entering' = entering \ {e}
  /\ UNCHANGED <<queue, running, exited, retrying, shut, issued, runs>>

(* The receive branch of worker's select; ready after a cancellation too,   *)
(* because select picks either ready branch.                                *)
TakeJob(w) ==
  /\ Idle(w)
  /\ queue # <<>>
  /\ queue' = Tail(queue)
  /\ running' = running \cup {[worker |-> w, job |-> Head(queue)]}
  /\ runs' = [runs EXCEPT ![Head(queue).ticket] = IF Unlimited THEN @ ELSE @ + 1]
  /\ UNCHANGED <<entering, exited, retrying, shut, issued>>

(* The ctx.Done branch of worker's select.                                  *)
WorkerExit(w) ==
  /\ CtxCancelled
  /\ Idle(w)
  /\ exited' = exited \cup {w}
  /\ UNCHANGED <<entering, queue, running, retrying, shut, issued, runs>>

(* runJob after Engine.Run returned nil, ErrPaused or ErrCancelled.         *)
JobDone(r) ==
  /\ r \in running
  /\ running' = running \ {r}
  /\ UNCHANGED <<entering, queue, exited, retrying, shut, issued, runs>>

(* runJob after any other error: a retry goroutine, if a retry is left.     *)
RetryLeft(j) == Unlimited \/ j.attempt < MaxRetries
NextAttempt(j) == [j EXCEPT !.attempt = IF Unlimited THEN @ ELSE @ + 1]

JobFailed(r) ==
  /\ r \in running
  /\ running' = running \ {r}
  /\ retrying' = retrying \cup (IF RetryLeft(r.job) THEN {NextAttempt(r.job)} ELSE {})
  /\ UNCHANGED <<entering, queue, exited, shut, issued, runs>>

(* The retry goroutine: its delay elapsed and the channel took the job ...  *)
RetrySend(j) ==
  /\ j \in retrying
  /\ Len(queue) < QueueCap
  /\ queue' = Append(queue, j)
  /\ retrying' = retrying \ {j}
  /\ UNCHANGED <<entering, running, exited, shut, issued, runs>>

(* ... or it saw ctx.Done in one of its two selects.                        *)
RetryGiveUp(j) ==
  /\ j \in retrying
  /\ CtxCancelled
  /\ retrying' = retrying \ {j}
  /\ UNCHANGED <<entering, queue, running, exited, shut, issued, runs>>

(* Shutdown: cancel(), close(done), then wait for wg or for its context.    *)
ShutdownStep(from, to) ==
  /\ shut = from
  /\ shut' = to
  /\ UNCHANGED <<entering, queue, running, exited, retrying, issued, runs>>

AllExited == exited = Workers

CancelCtx == ShutdownStep("up", "cancelled")
CloseDone == ShutdownStep("cancelled", "closed")
ShutdownReturn == AllExited /\ ShutdownStep("closed", "drained")
ShutdownTimeout == ShutdownStep("closed", "timedout")

(* The process ends, cleanly or not, and New builds a scheduler in the next  *)
(* one.                                                                      *)
Restart ==
  /\ entering' = {}
  /\ queue' = <<>>
  /\ running' = {}
  /\ exited' = {}
  /\ retrying' = {}
  /\ shut' = "up"
  /\ UNCHANGED <<issued, runs>>

RetryStep(j) == RetrySend(j) \/ RetryGiveUp(j)
ShutdownNext == CancelCtx \/ CloseDone \/ ShutdownReturn \/ ShutdownTimeout

SchedNext ==
  \/ \E c \in Callers, id \in Workflows : EnqueueCheck(c, id)
  \/ \E e \in entering : EnqueueSend(e) \/ EnqueueFull(e)
  \/ \E w \in Workers : TakeJob(w) \/ WorkerExit(w)
  \/ \E r \in running : JobDone(r) \/ JobFailed(r)
  \/ \E j \in retrying : RetryStep(j)
  \/ ShutdownNext
  \/ Restart

SchedSpec == SchedInit /\ [][SchedNext]_schedVars

(* Goroutines that can run do run; Engine.Run returns (every persona call is *)
(* bounded by HandoffTimeout and a number of attempts); a sender blocked on  *)
(* the channel is served in order, hence strong fairness; a select that has  *)
(* a ready ctx.Done branch does not avoid it for ever.  Nobody has to call   *)
(* Enqueue or Shutdown, and the process need not restart.                    *)
SchedFairness ==
  /\ \A w \in Workers :
       /\ WF_schedVars(TakeJob(w))
       /\ SF_schedVars(WorkerExit(w))
  /\ \A r \in RunJob : WF_schedVars(JobDone(r) \/ JobFailed(r))
  /\ \A j \in Job : SF_schedVars(RetryStep(j))
  /\ WF_schedVars(CloseDone)
  /\ WF_schedVars(ShutdownReturn)

FairSchedSpec == SchedSpec /\ SchedFairness
=============================================================================
