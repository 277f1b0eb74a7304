----------------------------- MODULE Attachments -----------------------------
(***************************************************************************)
(* Files of a workflow: the upload session a client opens before it submits  *)
(* (api/handlers/upload_session.go), the workflow that consumes it           *)
(* (CreateWorkflow), the ingestion stage at the start of every engine run    *)
(* (workflow/engine/ingestion.go) and the tools that read the chunks back.   *)
(*                                                                          *)
(* Store calls and disk writes are the atomic steps.  One session; requests  *)
(* race on it.  A workflow whose submission is refused keeps its pending row *)
(* and never runs.  A run interrupted by a crash or a shutdown is requeued,  *)
(* a failed one is resumed by its client; both start from the row again.     *)
(***************************************************************************)
EXTENDS Integers, FiniteSets, SequencesExt

CONSTANTS
  Files,         (* files clients try to upload to the session             *)
  Submitters,    (* workflows submitted with the session                   *)
  Contents,      (* Contents[f]: what f may contain, sequences of letters  *)
  Newline,       (* the letter that ends a line                            *)
  ChunkSize,     (* IngestionChunkSize                                     *)
  IngestWorkers, (* IngestionMaxWorkers                                    *)
  MaxIngestRuns, (* bound: engine runs                                     *)
  MaxAttFaults   (* bound: failed calls and interruptions                  *)

ASSUME AttachmentsAssumption ==
  /\ ChunkSize \in Nat \ {0}
  /\ IngestWorkers \in Nat \ {0}
  /\ MaxIngestRuns \in Nat
  /\ MaxAttFaults \in Nat
  /\ \A f \in Files : \A text \in Contents[f] : text \in Seq(STRING)

VARIABLES
  session,       (* [status, owner, expired]: the upload_sessions row      *)
  upload,        (* upload[f]: where the UploadFile request of f is        *)
  attRow,        (* attRow[f]: status of its attachments row, or "absent"  *)
  bound,         (* bound[f]: the row's workflow_id, {} when null          *)
  disk,          (* disk[f]: the files on disk, the stored text as a set   *)
  copies,        (* copies[f]: how often its chunks have been inserted     *)
  wasted,        (* wasted[f]: attempts that inserted them and then failed *)
  submit,        (* submit[w]: where the CreateWorkflow request of w is    *)
  stage,         (* the owner's ws.AttachmentProcessing.Status, or "nil"   *)
  docs,          (* the owner's ws.InputDocuments                          *)
  ingest,        (* [at, listed, failed]: the owner's ingestion in this run*)
  job,           (* job[f]: where processAttachment of f is                *)
  ingestRuns,    (* number of runs so far                                  *)
  attFaults      (* number of faults so far                                *)

requestVars == <<session, upload, disk, submit>>
ingestVars == <<stage, docs, ingest, job, ingestRuns>>
chunkVars == <<copies, wasted>>
attVars == <<session, upload, attRow, bound, disk, copies, wasted, submit, stage, docs,
             ingest, job, ingestRuns, attFaults>>

Idle == [at |-> "idle", listed |-> {}, failed |-> FALSE]

AttInit ==
  /\ session = [status |-> "none", owner |-> {}, expired |-> FALSE]
  /\ upload = [f \in Files |-> "none"]
  /\ attRow = [f \in Files |-> "absent"]
  /\ bound = [f \in Files |-> {}]
  /\ disk = [f \in Files |-> {}]
  /\ copies = [f \in Files |-> 0]
  /\ wasted = [f \in Files |-> 0]
  /\ submit = [w \in Submitters |-> "none"]
  /\ stage = "nil"
  /\ docs = {}
  /\ ingest = Idle
  /\ job = [f \in Files |-> "none"]
  /\ ingestRuns = 0
  /\ attFaults = 0

AttFault == attFaults < MaxAttFaults /\ attFaults' = attFaults + 1
SetUpload(f, step) == upload' = [upload EXCEPT ![f] = step]
SetJob(f, step) == job' = [job EXCEPT ![f] = step]
UpdateAttachmentStatus(f, s) == attRow' = [attRow EXCEPT ![f] = s]
\* Goroutines that have inserted the chunks of their file end without completing it.
Waste(fs) ==
  wasted' = [f \in Files |-> wasted[f] + (IF f \in fs /\ job[f] = "chunked" THEN 1 ELSE 0)]
SessionRows == {f \in Files : attRow[f] # "absent"}

-----------------------------------------------------------------------------
(* The upload session.                                                       *)

CreateUploadSession ==
  /\ session.status = "none"
  /\ session' = [session EXCEPT !.status = "open"]
  /\ UNCHANGED <<upload, attRow, bound, disk, chunkVars, submit, ingestVars, attFaults>>

\* The clock passes ExpiresAt; only UploadFile looks at it, no row changes.
SessionExpires ==
  /\ session.status # "none" /\ ~session.expired
  /\ session' = [session EXCEPT !.expired = TRUE]
  /\ UNCHANGED <<upload, attRow, bound, disk, chunkVars, submit, ingestVars, attFaults>>

AbortUploadSession ==
  /\ session.status = "open"
  /\ session' = [session EXCEPT !.status = "aborted"]
  /\ UNCHANGED <<upload, attRow, bound, disk, chunkVars, submit, ingestVars, attFaults>>

\* UploadFile: the session is checked once, before the body is received.
UploadChecks(f) ==
  /\ upload[f] = "none"
  /\ session.status = "open" /\ ~session.expired
  /\ SetUpload(f, "checked")
  /\ UNCHANGED <<session, attRow, bound, disk, chunkVars, submit, ingestVars, attFaults>>

\* Too large, of an unknown type, or the copy to disk failed.
UploadRefused(f) ==
  /\ upload[f] = "checked"
  /\ AttFault
  /\ SetUpload(f, "refused")
  /\ UNCHANGED <<session, attRow, bound, disk, chunkVars, submit, ingestVars>>

UploadStores(f) ==
  /\ upload[f] = "checked"
  /\ \E text \in Contents[f] : disk' = [disk EXCEPT ![f] = {text}]
  /\ SetUpload(f, "stored")
  /\ UNCHANGED <<session, attRow, bound, chunkVars, submit, ingestVars, attFaults>>

\* CreateAttachment: the row is new, pending and of no workflow.
UploadCommits(f) ==
  /\ upload[f] = "stored"
  /\ UpdateAttachmentStatus(f, "pending")
  /\ SetUpload(f, "created")
  /\ UNCHANGED <<session, bound, disk, chunkVars, submit, ingestVars, attFaults>>

UploadCommitFails(f) ==
  /\ upload[f] = "stored"
  /\ AttFault
  /\ disk' = [disk EXCEPT ![f] = {}]
  /\ SetUpload(f, "refused")
  /\ UNCHANGED <<session, attRow, bound, chunkVars, submit, ingestVars>>

-----------------------------------------------------------------------------
(* CreateWorkflow with upload_session_id: three store calls, then Enqueue.   *)

SubmitCreates(w) ==
  /\ submit[w] = "none" /\ session.status # "none"
  /\ submit' = [submit EXCEPT ![w] = "row"]
  /\ UNCHANGED <<session, upload, attRow, bound, disk, chunkVars, ingestVars, attFaults>>

Consumable(s) == s.status = "open"

\* ConsumeUploadSession, first UPDATE: refused unless a row was affected.
SubmitConsumes(w) ==
  /\ submit[w] = "row"
  /\ IF Consumable(session)
     THEN /\ session' = [session EXCEPT !.status = "consumed", !.owner = @ \cup {w}]
          /\ submit' = [submit EXCEPT ![w] = "consumed"]
     ELSE /\ submit' = [submit EXCEPT ![w] = "refused"]
          /\ UNCHANGED session
  /\ UNCHANGED <<upload, attRow, bound, disk, chunkVars, ingestVars, attFaults>>

\* The second UPDATE binds the rows there are now.
SubmitBinds(w) ==
  /\ submit[w] = "consumed"
  /\ bound' = [f \in Files |-> IF f \in SessionRows THEN {w} ELSE bound[f]]
  /\ submit' = [submit EXCEPT ![w] = "bound"]
  /\ UNCHANGED <<session, upload, attRow, disk, chunkVars, ingestVars, attFaults>>

\* It failed, or the process died before it: the row stays pending for good.
SubmitFails(w) ==
  /\ submit[w] \in {"row", "consumed"}
  /\ AttFault
  /\ submit' = [submit EXCEPT ![w] = "refused"]
  /\ UNCHANGED <<session, upload, attRow, bound, disk, chunkVars, ingestVars>>

-----------------------------------------------------------------------------
(* ensureAttachmentProcessing in a run of the workflow that was enqueued.    *)
(* "idle": no run is in the stage.  "work": its goroutines run.  "reload":   *)
(* all have returned.  "passed": the run went on to the Director.            *)

Unfinished(rows) == {f \in rows : attRow[f] \in {"pending", "failed"}}

IngestionStarts ==
  /\ \E w \in Submitters : submit[w] = "bound"
  /\ ingest.at = "idle" /\ ingestRuns < MaxIngestRuns
  /\ ingestRuns' = ingestRuns + 1
  /\ IF stage = "completed" \/ SessionRows = {}
     THEN /\ ingest' = [ingest EXCEPT !.at = "passed"]
          /\ UNCHANGED <<stage, job>>
     ELSE /\ ingest' = [at |-> "work", listed |-> SessionRows, failed |-> FALSE]
          /\ stage' = "running"
          /\ job' = [f \in Files |-> IF f \in Unfinished(SessionRows) THEN "waiting" ELSE "none"]
  /\ UNCHANGED <<requestVars, attRow, bound, chunkVars, docs, attFaults>>

\* failIngestion: saved, and the run ends with the error.
FailIngestion == stage' = "failed" /\ ingest' = Idle

\* Listing, saving or looking the provider up failed before any goroutine ran.
IngestionFailsEarly ==
  /\ \E w \in Submitters : submit[w] = "bound"
  /\ ingest.at = "idle" /\ ingestRuns < MaxIngestRuns
  /\ stage # "completed" /\ SessionRows # {}
  /\ AttFault
  /\ ingestRuns' = ingestRuns + 1
  /\ \/ UNCHANGED <<stage, ingest>>
     \/ FailIngestion
  /\ UNCHANGED <<requestVars, attRow, bound, chunkVars, docs, job>>

\* Its error is ignored wherever the code calls it: the row stays as it is.
UpdateLost == AttFault /\ UNCHANGED attRow

\* A slot of the semaphore is free: the row says processing.
JobStarts(f) ==
  /\ job[f] = "waiting"
  /\ Cardinality({g \in Files : job[g] \in {"read", "chunked"}}) < IngestWorkers
  /\ SetJob(f, "read")
  /\ \/ UpdateAttachmentStatus(f, "processing") /\ UNCHANGED attFaults
     \/ UpdateLost
  /\ UNCHANGED <<requestVars, bound, chunkVars, stage, docs, ingest, ingestRuns>>

\* One transaction that only inserts: the rows of an earlier attempt stay.
CreateAttachmentChunks(f) == copies' = [copies EXCEPT ![f] = @ + 1]

JobStoresChunks(f) ==
  /\ job[f] = "read" /\ disk[f] # {}
  /\ SetJob(f, "chunked")
  /\ CreateAttachmentChunks(f)
  /\ UNCHANGED <<requestVars, attRow, bound, wasted, stage, docs, ingest, ingestRuns, attFaults>>

\* The summary came back.
JobCompletes(f) ==
  /\ job[f] = "chunked"
  /\ SetJob(f, "none")
  /\ UpdateAttachmentStatus(f, "completed")
  /\ UNCHANGED <<requestVars, bound, chunkVars, stage, docs, ingest, ingestRuns, attFaults>>

\* Reading the file, storing the chunks or the summary failed; when the context
\* has ended, so does the update of the row.
JobFails(f) ==
  /\ job[f] \in {"read", "chunked"}
  /\ AttFault
  /\ SetJob(f, "none") /\ Waste({f})
  /\ UpdateAttachmentStatus(f, "failed") \/ UNCHANGED attRow
  /\ ingest' = [ingest EXCEPT !.failed = TRUE]
  /\ UNCHANGED <<requestVars, bound, copies, stage, docs, ingestRuns>>

\* The last status update is lost: the run goes on to find the row unfinished.
JobUpdateLost(f) ==
  /\ job[f] = "chunked"
  /\ SetJob(f, "none") /\ Waste({f})
  /\ UpdateLost
  /\ UNCHANGED <<requestVars, bound, copies, stage, docs, ingest, ingestRuns>>

\* Mutant of AllProcessed: an upload that came late is no reason to fail.
NoneFailed(rows) == \A f \in rows : attRow[f] # "failed"
AllProcessed(rows) == \A f \in rows : attRow[f] = "completed"

\* wg.Wait returned: finalizeIngestion reloads the rows, late uploads included.
IngestionReloads ==
  /\ ingest.at = "work"
  /\ \A f \in Files : job[f] = "none"
  /\ IF ingest.failed \/ ~AllProcessed(SessionRows)
     THEN FailIngestion
     ELSE ingest' = [ingest EXCEPT !.at = "reload", !.listed = SessionRows] /\ UNCHANGED stage
  /\ UNCHANGED <<requestVars, attRow, bound, chunkVars, docs, job, ingestRuns, attFaults>>

IngestionCompletes ==
  /\ ingest.at = "reload"
  /\ docs' = ingest.listed
  /\ stage' = "completed"
  /\ ingest' = [ingest EXCEPT !.at = "passed"]
  /\ UNCHANGED <<requestVars, attRow, bound, chunkVars, job, ingestRuns, attFaults>>

\* No corpus summary.
CorpusFails ==
  /\ ingest.at = "reload"
  /\ AttFault
  /\ FailIngestion
  /\ UNCHANGED <<requestVars, attRow, bound, chunkVars, docs, job, ingestRuns>>

\* The run ends or fails in a later phase, and the workflow is resumed.
RunLeavesIngestion ==
  /\ ingest.at = "passed"
  /\ ingest' = Idle
  /\ UNCHANGED <<requestVars, attRow, bound, chunkVars, stage, docs, job, ingestRuns, attFaults>>

\* The process dies, or the context of the run is cancelled, which makes every
\* store call that is still to come fail: rows keep the status they have.
IngestionInterrupted ==
  /\ ingest.at \in {"work", "reload"}
  /\ AttFault
  /\ ingest' = Idle
  /\ job' = [f \in Files |-> "none"] /\ Waste(Files)
  /\ UNCHANGED <<requestVars, attRow, bound, copies, stage, docs, ingestRuns>>

UploadInterrupted(f) ==
  /\ upload[f] \in {"checked", "stored"}
  /\ AttFault
  /\ SetUpload(f, "refused")
  /\ UNCHANGED <<session, attRow, bound, disk, chunkVars, submit, ingestVars>>

UploadNext(f) ==
  \/ UploadChecks(f) \/ UploadRefused(f) \/ UploadStores(f)
  \/ UploadCommits(f) \/ UploadCommitFails(f) \/ UploadInterrupted(f)

SubmitNext(w) == SubmitCreates(w) \/ SubmitConsumes(w) \/ SubmitBinds(w) \/ SubmitFails(w)

JobNext(f) ==
  JobStarts(f) \/ JobStoresChunks(f) \/ JobCompletes(f) \/ JobFails(f) \/ JobUpdateLost(f)

IngestNext ==
  \/ IngestionStarts \/ IngestionFailsEarly \/ IngestionReloads \/ IngestionCompletes
  \/ CorpusFails \/ RunLeavesIngestion \/ IngestionInterrupted

AttNext ==
  \/ CreateUploadSession \/ SessionExpires \/ AbortUploadSession
  \/ \E f \in Files : UploadNext(f) \/ JobNext(f)
  \/ \E w \in Submitters : SubmitNext(w)
  \/ IngestNext

-----------------------------------------------------------------------------
(* The chunks of a text, and what the tools read back.                       *)

\* Where the chunk that starts after position p ends: after the last newline
\* of its last fifth, or where it is full.
Cutoff(text, p) ==
  LET breaks == {i \in (p + (ChunkSize * 4) \div 5 + 1)..(p + ChunkSize) : text[i] = Newline}
  IN IF breaks = {} THEN p + ChunkSize
     ELSE CHOOSE i \in breaks : \A k \in breaks : k <= i

splitIntoChunks(text) ==
  LET from[p \in 0..Len(text)] ==
        IF Len(text) - p <= ChunkSize
        THEN <<SubSeq(text, p + 1, Len(text))>>
        ELSE <<SubSeq(text, p + 1, Cutoff(text, p))>> \o from[Cutoff(text, p)]
  IN from[0]

\* The rows of an attachment by chunk_index: the copies of a chunk are neighbours.
ListAttachmentChunks(f) ==
  LET chunks == splitIntoChunks(CHOOSE text \in disk[f] : TRUE)
  IN [n \in 1..(Len(chunks) * copies[f]) |-> chunks[((n - 1) \div copies[f]) + 1]]

\* What the tool gives a model: all of it, concatenated.
ReadInputDocument(f) == FlattenSeq(ListAttachmentChunks(f))

AttTypeOK ==
  /\ session.status \in {"none", "open", "consumed", "aborted"}
  /\ session.owner \subseteq Submitters /\ session.expired \in BOOLEAN
  /\ upload \in [Files -> {"none", "checked", "stored", "created", "refused"}]
  /\ attRow \in [Files -> {"absent", "pending", "processing", "completed", "failed"}]
  /\ bound \in [Files -> SUBSET Submitters]
  /\ copies \in [Files -> 0..MaxIngestRuns] /\ wasted \in [Files -> 0..MaxIngestRuns]
  /\ submit \in [Submitters -> {"none", "row", "consumed", "bound", "refused"}]
  /\ stage \in {"nil", "running", "completed", "failed"}
  /\ docs \subseteq Files
  /\ ingest.at \in {"idle", "work", "reload", "passed"} /\ ingest.listed \subseteq Files
  /\ job \in [Files -> {"none", "waiting", "read", "chunked"}]

AttSpec == AttInit /\ [][AttNext]_attVars

(* When ingestion has completed, every document it hands to the personas is  *)
(* processed, and read_input_document gives back the text that was uploaded, *)
(* with each chunk repeated once for every attempt on the file that failed   *)
(* after inserting its chunks, and in no other way spoiled: every copy, read *)
(* by itself, is the text.  The session had one owner.  All this whatever    *)
(* uploads, submissions, failures, crashes and resumes came together         *)
(* (ingestion.go, upload_session.go, sqlite.go, attachment_tools.go).        *)
DocumentsProcessed ==
  /\ stage = "completed" => \A f \in docs : attRow[f] = "completed" /\ copies[f] = wasted[f] + 1
  /\ Cardinality(session.owner) <= 1
\* The c-th copy of each chunk, joined.
ReadCopy(f, c) ==
  LET rows == ListAttachmentChunks(f)
  IN FlattenSeq([i \in 1..(Len(rows) \div copies[f]) |-> rows[(i - 1) * copies[f] + c]])
DocumentsReadable ==
  /\ DocumentsProcessed
  /\ stage = "completed" =>
       \A f \in docs : /\ wasted[f] = 0 => disk[f] = {ReadInputDocument(f)}
                       /\ \A c \in 1..copies[f] : disk[f] = {ReadCopy(f, c)}
=============================================================================
