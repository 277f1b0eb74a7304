----------------------------- MODULE Workspace -----------------------------
(***************************************************************************)
(* The workspace of a workflow (engine.go, implementation_phase.go): the     *)
(* directory on the shared volume that the Pod writes, the toolchain server  *)
(* builds and the git server commits and pushes, and the loop of the engine  *)
(* that validates, checkpoints and opens the implementation gate.            *)
(*                                                                          *)
(* The content of a file is a version number.  What the build commands find  *)
(* is a free choice; a call that fails at one of its steps, a lost answer, a *)
(* server that is down and a failed Pod phase each cost one of MaxSpaceFaults.*)
(***************************************************************************)
EXTENDS Integers, Sequences, FiniteSets, SequencesExt

CONSTANTS
  ToolchainConfigs,      (* [id, languages, bootstraps, validates,         *)
                         (*  checkpoints, push], in their order            *)
  WordLength,            (* the length of a language's name                *)
  WorkRequests,          (* [words, stack, repo]: the languages the request*)
                         (* and the design mention, a repository is wanted *)
  NodeShapes,            (* what the Pod makes of package.json and routes  *)
  Minimal,               (* Options.MinimalCheckpoints                     *)
  ImplementationRetries, (* maxImplementationRetries                       *)
  StatRetries,           (* reads of the manifest after a bootstrap        *)
  MaxPodWrites, MaxSpaceFaults, MaxWorkRuns, MaxRemediations    (* bounds  *)

ASSUME WorkspaceAssumption ==
  /\ ToolchainConfigs # <<>>
  /\ {ImplementationRetries, MaxPodWrites, MaxSpaceFaults, MaxRemediations} \subseteq Nat
  /\ {StatRetries, MaxWorkRuns} \subseteq Nat \ {0}

VARIABLES
  work,      (* [request, toolchain, url, blockers, checkpoints, validated, gate] *)
  disk,      (* the files of the workspace                                 *)
  seesMod,   (* the engine's NFS client sees go.mod                        *)
  git,       (* [origin, log]: the commits, each a content of the disk     *)
  remote,    (* the commit the pushed branch is at, 0 for none             *)
  down,      (* MCP servers that are down                                  *)
  at,        (* [stage, loop, cycle, tries]: where the engine is           *)
  used       (* [writes, faults, runs]: what is used up of the bounds      *)

spaceVars == <<work, disk, seesMod, git, remote, down, at, used>>

NoShape == [manifest |-> "absent", stubBuild |-> FALSE, depsMissing |-> FALSE,
            twoPages |-> FALSE, twoRouters |-> FALSE]
NoFiles == [code |-> 0, hidden |-> 0, node |-> NoShape, gomod |-> FALSE,
            ignoring |-> FALSE, docs |-> FALSE]
NoSha == 0 - 1      \* 0 stands for HEAD, what rev-parse prints before the first commit
Unborn == 0
Failed == [stage |-> "failed", loop |-> 0, cycle |-> 1, tries |-> 0]

WorkspaceInit ==
  /\ work \in {[request |-> r, toolchain |-> 0, url |-> FALSE, blockers |-> {},
                checkpoints |-> <<>>, validated |-> "none",
                gate |-> [ready |-> FALSE, sha |-> NoSha]] : r \in WorkRequests}
  /\ disk = NoFiles
  /\ seesMod = FALSE
  /\ git = [origin |-> FALSE, log |-> <<>>]
  /\ remote = 0
  /\ down = {}
  /\ at = [Failed EXCEPT !.stage = "setup"]
  /\ used = [writes |-> 0, faults |-> 0, runs |-> 1]

Fault == used.faults < MaxSpaceFaults /\ used' = [used EXCEPT !.faults = @ + 1]
Proceed(stage) == at' = [at EXCEPT !.stage = stage, !.tries = 0]
FailRun == at' = [at EXCEPT !.stage = "failed", !.tries = 0]

-----------------------------------------------------------------------------
(* The choice of the toolchain.                                             *)

Mention(words, i, j) == ToolchainConfigs[i].languages[j] \in words

\* selectToolchain: the longest name mentioned, the first of equal ones.
Mentioned(words) ==
  {p \in UNION {{i} \X DOMAIN ToolchainConfigs[i].languages : i \in DOMAIN ToolchainConfigs} :
     Mention(words, p[1], p[2])}
NameLength(p) == WordLength[ToolchainConfigs[p[1]].languages[p[2]]]
Better(p, q) ==
  \/ NameLength(p) > NameLength(q)
  \/ NameLength(p) = NameLength(q) /\ (p[1] < q[1] \/ (p[1] = q[1] /\ p[2] < q[2]))
NextWanted(words) ==
  {i \in DOMAIN ToolchainConfigs :
     /\ ToolchainConfigs[i].id = "nextjs"
     /\ \E j \in DOMAIN ToolchainConfigs[i].languages :
          ToolchainConfigs[i].languages[j] # "next" /\ Mention(words, i, j)}
SelectToolchain(words) ==
  IF Mentioned(words) = {} THEN 1
  ELSE LET best == (CHOOSE p \in Mentioned(words) :
                      \A q \in Mentioned(words) \ {p} : Better(p, q))[1]
       IN IF ToolchainConfigs[best].id = "node" /\ NextWanted(words) # {}
          THEN CHOOSE i \in NextWanted(words) : \A k \in NextWanted(words) : i <= k
          ELSE best

\* toolchainMatchesRequest.
ToolchainMatchesRequest(i, words) ==
  CASE ToolchainConfigs[i].id \in {"go", "golang"} -> words \cap {"nextjs", "react"} = {}
    [] ToolchainConfigs[i].id \in {"nextjs", "node"} -> words \cap {"golang", "go"} = {}
    [] OTHER -> TRUE

Toolchain == ToolchainConfigs[work.toolchain]
Languages(tc) == ToSet(tc.languages) \cup {tc.id}
TargetsGo(tc) == "go" \in Languages(tc)
TargetsNodeManifest(tc) == Languages(tc) \cap {"javascript", "typescript", "node", "nextjs"} # {}

-----------------------------------------------------------------------------
(* ensureWorkspaceAndToolchain.                                             *)

SetupRepository(outcome) ==
  IF work.url \/ ~work.request.repo THEN outcome = "kept" ELSE outcome \in {"made", "refused"}

SeedGo(i, d) ==
  IF TargetsGo(ToolchainConfigs[i]) THEN [d EXCEPT !.ignoring = TRUE, !.docs = TRUE] ELSE d

\* The repository of the request, the toolchain, a .gitignore and a README
\* for Go, and no run with a required toolchain server that is down.
Setup ==
  /\ at.stage = "setup"
  /\ \E outcome \in {"kept", "made", "refused"} :
       /\ SetupRepository(outcome)
       /\ IF outcome = "refused"
          THEN Fault /\ FailRun /\ UNCHANGED <<work, disk>>
          ELSE LET r == work.request
                   keeps == work.toolchain # 0 /\ ToolchainMatchesRequest(work.toolchain, r.words)
                   i == IF keeps THEN work.toolchain ELSE SelectToolchain(r.words \cup r.stack)
               IN /\ work' = [work EXCEPT !.toolchain = i, !.url = @ \/ outcome = "made"]
                  /\ disk' = SeedGo(i, disk)
                  /\ IF ToolchainConfigs[i].id \in down THEN FailRun
                     ELSE IF work.gate.ready THEN Proceed("qa") ELSE Proceed("plan")
                  /\ UNCHANGED used
  /\ UNCHANGED <<seesMod, git, remote, down>>

\* The Architect phase; materializePlan writes plan.md, which it may lack.
Plan ==
  /\ at.stage = "plan"
  /\ \E written \in BOOLEAN : disk' = [disk EXCEPT !.docs = @ \/ written]
  /\ Proceed("bootstrap")
  /\ UNCHANGED <<work, seesMod, git, remote, down, used>>

-----------------------------------------------------------------------------
(* ensureToolchainBootstrap: init_project of a Go toolchain when the engine  *)
(* sees no go.mod, then a bounded wait for the file to appear.               *)

BootstrapTarget == TargetsGo(Toolchain) /\ Toolchain.bootstraps

BootstrapSkips ==
  /\ at.stage = "bootstrap"
  /\ ~BootstrapTarget \/ seesMod
  /\ Proceed("bootcheck")
  /\ UNCHANGED <<work, disk, seesMod, git, remote, down, used>>

BootstrapRefused ==
  /\ at.stage = "bootstrap"
  /\ BootstrapTarget /\ ~seesMod
  /\ Toolchain.id \in down \/ disk.gomod      \* go mod init fails on a module
  /\ FailRun
  /\ UNCHANGED <<work, disk, seesMod, git, remote, down, used>>

BootstrapRuns ==
  /\ at.stage = "bootstrap"
  /\ BootstrapTarget /\ ~seesMod
  /\ Toolchain.id \notin down /\ ~disk.gomod
  /\ disk' = [disk EXCEPT !.gomod = TRUE]
  /\ \/ Proceed("waiting") /\ UNCHANGED used
     \/ Fault /\ FailRun                      \* the answer is lost
  /\ UNCHANGED <<work, seesMod, git, remote, down>>

BootstrapLooks ==
  /\ at.stage = "waiting"
  /\ IF seesMod THEN Proceed("bootcheck")
     ELSE IF at.tries + 1 = StatRetries THEN FailRun
     ELSE at' = [at EXCEPT !.tries = @ + 1]
  /\ UNCHANGED <<work, disk, seesMod, git, remote, down, used>>

\* The attribute cache of the NFS client expires.
CacheExpires ==
  /\ disk.gomod /\ ~seesMod
  /\ seesMod' = TRUE
  /\ UNCHANGED <<work, disk, git, remote, down, at, used>>

-----------------------------------------------------------------------------
(* runToolchainCheckpoint and doCheckpoint of mcp-git.                       *)

\* The names the seeded .gitignore lists match directories of source as well.
Tracked(d) == IF d.ignoring THEN [d EXCEPT !.hidden = 0] ELSE d
LastCommit(log) == IF log = <<>> THEN NoFiles ELSE Last(log)

\* git add -A; git commit: nothing to commit is no error.
CommitAll(log) == IF Tracked(disk) = LastCommit(log) THEN log ELSE Append(log, Tracked(disk))

\* git rev-parse HEAD: a commit is known by its place in the log.
HeadSha(log) == Len(log)

\* What doCheckpoint does up to the step that fails: [git, remote, error].
NewOrigin == git.origin \/ work.url

\* Mutant of Pushes: a checkpoint with nothing to commit is not pushed.
PushWhenNew(log) == Toolchain.push /\ log # git.log
Pushes(log) == Toolchain.push
PushOf(log) == IF Pushes(log) THEN HeadSha(log) ELSE remote
PushRefused(log) == Pushes(log) /\ (log = <<>> \/ ~NewOrigin)
DoCheckpoint(stop) ==
  LET log == CommitAll(git.log) IN
  CASE stop = "early"  -> [git |-> git, remote |-> remote, error |-> TRUE]
    [] stop = "push"   -> [git |-> [origin |-> NewOrigin, log |-> log], remote |-> remote,
                           error |-> TRUE]
    [] stop = "answer" -> [git |-> [origin |-> NewOrigin, log |-> log],
                           remote |-> PushOf(log), error |-> TRUE]
    [] stop = "none"   -> [git |-> [origin |-> NewOrigin, log |-> log],
                           remote |-> IF PushRefused(log) THEN remote ELSE PushOf(log),
                           error |-> PushRefused(log)]

Phase(kind) == [loop |-> at.loop, cycle |-> at.cycle, kind |-> kind]

\* shouldPersistExecutionCheckpoint: "implementation" and "remediation-...",
\* which "implementation-remediation-1" is not.
ShouldPersistExecutionCheckpoint(phase) ==
  phase.loop > 0 \/ (phase.kind = "work" /\ phase.cycle = 1)

\* shouldAppendExecutionCheckpoint.
ShouldAppend(checkpoints, cp) ==
  /\ ShouldPersistExecutionCheckpoint(cp.phase)
  /\ checkpoints # <<>> => Last(checkpoints) # cp

\* isRemediationMicroCheckpoint, with MinimalCheckpoints.
Micro(kind) == Minimal /\ kind \in {"plan", "bootstrap"} /\ (at.loop > 0 \/ at.cycle > 1)

SkipsCheckpoint(kind) == Micro(kind) \/ ~Toolchain.checkpoints

\* The git tools are those of the "git" server: no toolchain server has them.
Checkpoint(stage, kind) ==
  /\ at.stage = stage
  /\ IF SkipsCheckpoint(kind) THEN UNCHANGED <<work, git, remote, used>>
     ELSE \E stop \in {"none", "early", "push", "answer"} :
          /\ "git" \in down => stop = "early"
          /\ stop = "push" => Toolchain.push
          /\ IF stop = "none" \/ "git" \in down THEN UNCHANGED used ELSE Fault
          /\ LET res == DoCheckpoint(stop)
                 cp == [phase |-> Phase(kind), sha |-> HeadSha(res.git.log)] IN
             /\ git' = res.git
             /\ remote' = res.remote
             /\ work' = IF res.error
                        THEN [work EXCEPT !.blockers = IF Toolchain.push THEN @ \cup {"push"} ELSE @]
                        ELSE IF ShouldAppend(work.checkpoints, cp)
                        THEN [work EXCEPT !.checkpoints = Append(@, cp)] ELSE work
  /\ UNCHANGED <<disk, seesMod, down>>

BootstrapCheckpoint == Checkpoint("bootcheck", "bootstrap") /\ Proceed("pod")
TriageCheckpoint == Checkpoint("triage", "triage") /\ Proceed("plancheck")
WorkCheckpoint == Checkpoint("checkpoint", "work") /\ Proceed("verify")

\* The checkpoint of the new plan, before the bootstrap of the next cycle.
PlanCheckpoint ==
  /\ Checkpoint("plancheck", "plan")
  /\ at' = [at EXCEPT !.stage = "bootstrap", !.cycle = @ + 1]

-----------------------------------------------------------------------------
(* runPodPhase and writeArtifactToWorkspace; a name that is no relative path *)
(* is only logged, and other kinds of artifact are not files.                *)

PodWrites ==
  /\ at.stage = "pod"
  /\ used.writes < MaxPodWrites
  /\ \/ disk' = [disk EXCEPT !.code = @ + 1] /\ UNCHANGED seesMod
     \/ disk' = [disk EXCEPT !.hidden = @ + 1] /\ UNCHANGED seesMod
     \/ \E shape \in NodeShapes : disk' = [disk EXCEPT !.node = shape] /\ UNCHANGED seesMod
     \/ disk' = [disk EXCEPT !.gomod = TRUE] /\ seesMod' = TRUE
     \/ disk' = [disk EXCEPT !.docs = TRUE] /\ UNCHANGED seesMod
  /\ used' = [used EXCEPT !.writes = @ + 1]
  /\ UNCHANGED <<work, git, remote, down, at>>

PodReturns ==
  /\ at.stage = "pod"
  /\ \/ Proceed("validate") /\ UNCHANGED used
     \/ Fault /\ FailRun
  /\ UNCHANGED <<work, disk, seesMod, git, remote, down>>

-----------------------------------------------------------------------------
(* runToolchainValidation.                                                  *)

\* NodeWorkspacePreflightIssue: the script and the dependencies are only
\* looked at in a manifest that parses.
ManifestIssue(shape) == IF shape.manifest = "invalid" THEN {"package.json"} ELSE {}
Loaded(shape) == shape.manifest = "valid"
BuildScriptIssue(shape) == IF Loaded(shape) /\ shape.stubBuild THEN {"build script"} ELSE {}
PostCSSIssue(shape) == IF Loaded(shape) /\ shape.depsMissing THEN {"postcss deps"} ELSE {}
NextPagesIssue(shape) == IF shape.twoPages THEN {"route conflict"} ELSE {}
RouterIssue(shape) == IF shape.twoRouters THEN {"router conflict"} ELSE {}
NodePreflight(shape) ==
  ManifestIssue(shape) \cup BuildScriptIssue(shape) \cup PostCSSIssue(shape)
    \cup NextPagesIssue(shape) \cup RouterIssue(shape)

ValidationPreflightIssue(tc) ==
  IF TargetsNodeManifest(tc) /\ NodePreflight(disk.node) # {} THEN NodePreflight(disk.node)
  ELSE IF TargetsGo(tc) /\ disk.code + disk.hidden = 0 THEN {"source files"} ELSE {}

Validate ==
  /\ at.stage = "validate"
  /\ IF ~Toolchain.validates THEN UNCHANGED work
     ELSE \E passed \in BOOLEAN :
            /\ passed => ValidationPreflightIssue(Toolchain) = {} /\ Toolchain.id \notin down
            /\ work' = [work EXCEPT !.validated = IF passed THEN "pass" ELSE "fail"]
  /\ Proceed("checkpoint")
  /\ UNCHANGED <<disk, seesMod, git, remote, down, used>>

-----------------------------------------------------------------------------
(* The end of a cycle of runImplementationValidationLoop.                    *)

\* latestCheckpointForPhase, or latestCheckpoint.
LatestSha(phase) ==
  LET cps == work.checkpoints
      same == {i \in DOMAIN cps : cps[i].phase = phase}
  IN IF cps = <<>> THEN NoSha
     ELSE IF same # {} THEN cps[CHOOSE i \in same : \A j \in same : j <= i].sha
     ELSE Last(cps).sha

\* verifyImplementationDocumentation, verifyImplementationCheckpoint.
DocumentationIssue == IF ~disk.docs THEN {"docs"} ELSE {}
CheckpointIssue ==
  IF Toolchain.checkpoints /\ LatestSha(Phase("work")) = NoSha THEN {"checkpoint"} ELSE {}

\* The issues of this cycle: validation, documentation, checkpoint.
CycleIssues ==
  (IF Toolchain.validates /\ work.validated = "fail" THEN {"validation"} ELSE {})
    \cup DocumentationIssue \cup CheckpointIssue

\* markImplementationReady: the blocking issues are cleared, those of the
\* checkpoint of this cycle among them.
GateOpens ==
  /\ at.stage = "verify"
  /\ CycleIssues = {}
  /\ work' = [work EXCEPT !.blockers = {},
                          !.gate = [ready |-> TRUE, sha |-> LatestSha(Phase("work"))]]
  /\ Proceed("qa")
  /\ UNCHANGED <<disk, seesMod, git, remote, down, used>>

\* The issues replace the blocking issues; another cycle, or the end.
CycleFails ==
  /\ at.stage = "verify"
  /\ CycleIssues # {}
  /\ work' = [work EXCEPT !.blockers = CycleIssues]
  /\ IF at.cycle > ImplementationRetries THEN FailRun ELSE Proceed("plancheck")
  /\ UNCHANGED <<disk, seesMod, git, remote, down, used>>

\* QA finds blocking issues: triage, a plan, and the loop again as remediation-N.
QARejects ==
  /\ at.stage = "qa"
  /\ at.loop < MaxRemediations
  /\ at' = [stage |-> "triage", loop |-> at.loop + 1, cycle |-> 0, tries |-> 0]
  /\ UNCHANGED <<work, disk, seesMod, git, remote, down, used>>

\* The scheduler retries a failed run, which skips what the gate settled.
RetryRun ==
  /\ at.stage = "failed"
  /\ used.runs < MaxWorkRuns
  /\ used' = [used EXCEPT !.runs = @ + 1]
  /\ at' = [Failed EXCEPT !.stage = "setup"]
  /\ UNCHANGED <<work, disk, seesMod, git, remote, down>>

ServerStops ==
  /\ \E s \in {"git"} \cup {ToolchainConfigs[i].id : i \in DOMAIN ToolchainConfigs} :
       s \notin down /\ down' = down \cup {s}
  /\ Fault
  /\ UNCHANGED <<work, disk, seesMod, git, remote, at>>
ServerReturns ==
  /\ \E s \in down : down' = down \ {s}
  /\ UNCHANGED <<work, disk, seesMod, git, remote, at, used>>

WorkspaceNext ==
  \/ Setup \/ Plan
  \/ BootstrapSkips \/ BootstrapRefused \/ BootstrapRuns \/ BootstrapLooks \/ CacheExpires
  \/ BootstrapCheckpoint \/ TriageCheckpoint \/ PlanCheckpoint \/ WorkCheckpoint
  \/ PodWrites \/ PodReturns \/ Validate
  \/ GateOpens \/ CycleFails
  \/ QARejects \/ RetryRun \/ ServerStops \/ ServerReturns

WorkspaceTypeOK ==
  /\ work.toolchain \in 0..Len(ToolchainConfigs)
  /\ work.blockers \subseteq {"push", "validation", "docs", "checkpoint"}
  /\ work.validated \in {"none", "pass", "fail"}
  /\ work.gate.sha \in NoSha..Len(git.log)
  /\ \A i \in DOMAIN work.checkpoints : work.checkpoints[i].sha \in Unborn..Len(git.log)
  /\ remote \in 0..Len(git.log)
  /\ seesMod => disk.gomod
  /\ at.cycle \in 0..(ImplementationRetries + 1) /\ at.loop \in 0..MaxRemediations

WorkspaceSpec == WorkspaceInit /\ [][WorkspaceNext]_spaceVars

(* When a cycle of a toolchain that pushes is judged, the pushed branch is   *)
(* at what the workspace holds, the ignored part aside, or the failed push   *)
(* is a blocking issue: also after lost answers, retried runs, and cycles in *)
(* which there was nothing to commit (engine.go runToolchainCheckpoint,      *)
(* mcp-git doCheckpoint).                                                    *)
PushedOrTold ==
  at.stage = "verify" /\ Toolchain.checkpoints /\ Toolchain.push =>
    \/ "push" \in work.blockers
    \/ remote > 0 /\ git.log[remote] = Tracked(disk)
=============================================================================
