----------------------------- MODULE Improvements ----------------------------
(***************************************************************************)
(* The self-improvement pipeline (finalizer.go, internal/improvements): the  *)
(* retrospective of a workflow is normalized, and the engine dispatches its  *)
(* improvements one after another; each is routed, checked against the path  *)
(* and surface policies and the schemas, and then written to the active      *)
(* customizations or handed to a child workflow.  Several workflows do so at *)
(* once, on one directory.                                                   *)
(*                                                                          *)
(* A path is known by the directory it falls into.  One file is written at a *)
(* time; a file's content is the improvement it came from.                   *)
(***************************************************************************)
EXTENDS Integers, Sequences, SequencesExt

CONSTANTS
  Parents,          (* workflows that dispatch their improvements          *)
  Suggestions,      (* Suggestions[w]: what the model of w suggests;       *)
                    (* records [type, name, complete, change, priority,    *)
                    (* files, content, wellFormed], files being paths      *)
  AutoPromoted,     (* the workflows that promoted an auto-mode definition *)
  MaxImpFaults      (* bound: failures of the disk, the store or the queue *)

ASSUME ImprovementsAssumption == MaxImpFaults \in Nat

VARIABLES
  turn,             (* turn[w]: [n, at, file]: the improvement and the step*)
  result,           (* result[w][n]: ImprovementApplyResult.Status         *)
  staging,          (* <<w, n, path>> under staging/<w>                    *)
  active,           (* active[path]: <<w, n>> of the last writer, or <<>>  *)
  disabled,         (* <<w, n, path>> under disabled/<w>                   *)
  manifest,         (* manifest[w]: the improvement it records, or 0       *)
  children,         (* <<w, n>> whose child workflow is stored             *)
  queued,           (* <<w, n>> whose child is in the queue                *)
  impFaults

impVars == <<turn, result, staging, active, disabled, manifest, children, queued, impFaults>>
fsVars == <<staging, active, disabled, manifest>>
childVars == <<children, queued>>

Paths == {"skills/", "prompts/personas/", "prompts/", "personas/", "agents/", "internal/", "outside"}

-----------------------------------------------------------------------------
(* What is asked of an improvement before anything is written.               *)

legacyRelPath(type) ==
  CASE type = "skill" -> "skills/"
    [] type = "prompt" -> "prompts/"
    [] type = "agent" -> "agents/"
    [] OTHER -> "personas/"

improvementFiles(imp) ==
  IF imp.files # <<>> THEN imp.files
  ELSE IF imp.content THEN <<legacyRelPath(imp.type)>> ELSE <<>>

Route(imp) ==
  IF imp.change = "advisory" \/ (imp.files = <<>> /\ ~imp.content) THEN "advisory"
  ELSE IF /\ imp.type \in {"skill", "prompt"}
          /\ imp.change = "update" /\ imp.priority = "low"
       THEN "direct" ELSE "workflow"

PathsOf(imp) == {improvementFiles(imp)[i] : i \in DOMAIN improvementFiles(imp)}

\* Absolute or escaping paths, and the base personas.
ValidatePath(path) == path \notin {"outside", "personas/"}

ValidateSurface(imp) ==
  /\ imp.type \in {"persona", "prompt", "skill"}
  /\ PathsOf(imp) \subseteq {"skills/", "prompts/personas/"}

\* Skills carry a name and a description; prompts are not looked into.
ValidateImprovement(imp) ==
  imp.type = "skill" /\ "skills/" \in PathsOf(imp) => imp.wellFormed

\* Incomplete ones, placeholders and those off the surface go; of those of one
\* component the most urgent stays, in the place of the first.
Urgency(priority) == CASE priority = "high" -> 0 [] priority = "medium" -> 1 [] OTHER -> 2
normalizeImprovements(imps) ==
  LET valid == {i \in DOMAIN imps : imps[i].complete /\ ValidateSurface(imps[i])}
      same(i) == {j \in valid : imps[j].type = imps[i].type /\ imps[j].name = imps[i].name}
      firsts == {i \in valid : \A j \in same(i) : i <= j}
      best(i) == CHOOSE j \in same(i) : \A k \in same(i) \ {j} :
                   LET u == Urgency(imps[j].priority)
                       v == Urgency(imps[k].priority)
                   IN u < v \/ (u = v /\ j < k)
      order == SetToSortSeq(firsts, <)
  IN [n \in DOMAIN order |-> imps[best(order[n])]]

\* The engine adds the auto-mode definition that a run promoted.
AutoDefinition ==
  [type |-> "prompt", name |-> "auto-mode-definition", complete |-> TRUE, change |-> "create",
   priority |-> "medium", files |-> <<"prompts/personas/">>, content |-> FALSE, wellFormed |-> TRUE]
appendAutoModePromotionImprovement(w, imps) ==
  IF w \in AutoPromoted /\ ~ \E n \in DOMAIN imps : imps[n].name = AutoDefinition.name
                                                  /\ imps[n].type = "prompt"
  THEN Append(imps, AutoDefinition) ELSE imps

Retrospective ==
  [w \in Parents |-> appendAutoModePromotionImprovement(w, normalizeImprovements(Suggestions[w]))]

-----------------------------------------------------------------------------
ImpInit ==
  /\ turn = [w \in Parents |-> [n |-> 1, at |-> "next", file |-> 0]]
  /\ result = [w \in Parents |-> [n \in DOMAIN Retrospective[w] |-> "none"]]
  /\ staging = {}
  /\ active = [p \in Paths |-> <<>>]
  /\ disabled = {}
  /\ manifest = [w \in Parents |-> 0]
  /\ children = {}
  /\ queued = {}
  /\ impFaults = 0

ImpFault == impFaults < MaxImpFaults /\ impFaults' = impFaults + 1
Current(w) == Retrospective[w][turn[w].n]
FilesNow(w) == improvementFiles(Current(w))
Goes(w, at, file) == turn' = [turn EXCEPT ![w].at = at, ![w].file = file]

\* Dispatch returns: the result is kept and the next improvement taken.
Ends(w, status) ==
  /\ result' = [result EXCEPT ![w][turn[w].n] = status]
  /\ turn' = [turn EXCEPT ![w] = [n |-> @.n + 1, at |-> "next", file |-> 0]]

HasTurn(w, at) == turn[w].n \in DOMAIN Retrospective[w] /\ turn[w].at = at

Dispatch(w) ==
  /\ HasTurn(w, "next")
  /\ LET imp == Current(w)
     IN CASE Route(imp) = "advisory" -> Ends(w, "skipped")
          [] Route(imp) = "direct" /\ \E p \in PathsOf(imp) : ~ValidatePath(p) -> Ends(w, "error")
          [] Route(imp) = "direct" /\ (\A p \in PathsOf(imp) : ValidatePath(p)) /\ ~ValidateSurface(imp)
               -> Ends(w, "skipped")
          [] Route(imp) = "direct" /\ ValidateSurface(imp) /\ ~ValidateImprovement(imp)
               -> Ends(w, "error")
          [] Route(imp) = "workflow" /\ ~ValidateSurface(imp) -> Ends(w, "skipped")
          [] Route(imp) = "workflow" /\ ValidateSurface(imp)
               -> Goes(w, "launch", 0) /\ UNCHANGED result
          [] OTHER -> Goes(w, "stage", 1) /\ UNCHANGED result
  /\ UNCHANGED <<fsVars, childVars, impFaults>>

StageFile(w) ==
  /\ HasTurn(w, "stage")
  /\ LET path == FilesNow(w)[turn[w].file]
     IN staging' = {f \in staging : f[1] # w \/ f[3] # path} \cup {<<w, turn[w].n, path>>}
  /\ IF turn[w].file = Len(FilesNow(w)) THEN Goes(w, "promote", 1) ELSE Goes(w, "stage", turn[w].file + 1)
  /\ UNCHANGED <<result, active, disabled, manifest, childVars, impFaults>>

\* What was staged stays there.
StageFails(w) ==
  /\ HasTurn(w, "stage")
  /\ ImpFault
  /\ Ends(w, "error")
  /\ UNCHANGED <<fsVars, childVars>>

\* Each file is read back and copied; after the last one staging/<w> goes.
Staged(w) == <<w, turn[w].n, FilesNow(w)[turn[w].file]>> \in staging
PromoteFile(w) ==
  /\ HasTurn(w, "promote") /\ turn[w].file <= Len(FilesNow(w))
  /\ Staged(w)
  /\ active' = [active EXCEPT ![FilesNow(w)[turn[w].file]] = <<w, turn[w].n>>]
  /\ Goes(w, "promote", turn[w].file + 1)
  /\ UNCHANGED <<result, staging, disabled, manifest, childVars, impFaults>>

\* Mutant of OfWorkflow: the staging directory is not the workflow's own.
OfAnyWorkflow(files, w) == files
OfWorkflow(files, w) == {f \in files : f[1] = w}

\* Promote failed, or the staged file is not there: Rollback moves what is
\* staged; what is active stays.
PromoteFails(w) ==
  /\ HasTurn(w, "promote") /\ turn[w].file <= Len(FilesNow(w))
  /\ IF Staged(w) THEN ImpFault ELSE UNCHANGED impFaults
  /\ disabled' = disabled \cup {f \in OfWorkflow(staging, w) : f[3] \in PathsOf(Current(w))}
  /\ staging' = staging \ OfWorkflow(staging, w)
  /\ Ends(w, "error")
  /\ UNCHANGED <<active, manifest, childVars>>

\* WriteManifest: the manifest of the workflow names one improvement.
Promoted(w) ==
  /\ HasTurn(w, "promote") /\ turn[w].file > Len(FilesNow(w))
  /\ staging' = staging \ OfWorkflow(staging, w)
  /\ manifest' = [manifest EXCEPT ![w] = turn[w].n]
  /\ Ends(w, "applied")
  /\ UNCHANGED <<active, disabled, childVars, impFaults>>

LaunchStores(w) ==
  /\ HasTurn(w, "launch")
  /\ children' = children \cup {<<w, turn[w].n>>}
  /\ Goes(w, "enqueue", 0)
  /\ UNCHANGED <<result, fsVars, queued, impFaults>>

LaunchEnqueues(w) ==
  /\ HasTurn(w, "enqueue")
  /\ queued' = queued \cup {<<w, turn[w].n>>}
  /\ Ends(w, "dispatched")
  /\ UNCHANGED <<fsVars, children, impFaults>>

\* CreateWorkflow failed, or the queue is full and the row stays pending.
LaunchFails(w) ==
  /\ HasTurn(w, "launch") \/ HasTurn(w, "enqueue")
  /\ ImpFault
  /\ Ends(w, "error")
  /\ UNCHANGED <<fsVars, childVars>>

ImpNext ==
  \E w \in Parents :
    \/ Dispatch(w) \/ StageFile(w) \/ StageFails(w) \/ PromoteFile(w) \/ PromoteFails(w)
    \/ Promoted(w) \/ LaunchStores(w) \/ LaunchEnqueues(w) \/ LaunchFails(w)

ImpSpec == ImpInit /\ [][ImpNext]_impVars

ImpTypeOK ==
  /\ \A w \in Parents : /\ turn[w].n \in 1..(Len(Retrospective[w]) + 1)
                        /\ manifest[w] \in 0..Len(Retrospective[w])
  /\ \A f \in staging \cup disabled : f[1] \in Parents /\ f[3] \in Paths
  /\ queued \subseteq children
  /\ \A w \in Parents : \A n \in DOMAIN result[w] :
       result[w][n] \in {"none", "skipped", "error", "applied", "dispatched"}

(* While nothing fails, only a malformed improvement ends in an error: the   *)
(* staging and promotion of one workflow never disturbs another's, although  *)
(* both write to one directory (store.go, dispatcher.go).                    *)
Malformed(imp) == ~ValidateImprovement(imp) \/ \E p \in PathsOf(imp) : ~ValidatePath(p)
ImprovementErrorsExplained ==
  impFaults = 0 =>
    \A w \in Parents : \A n \in DOMAIN result[w] :
      result[w][n] = "error" => Malformed(Retrospective[w][n])
=============================================================================
