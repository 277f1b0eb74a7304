------------------------------ MODULE Delivery ------------------------------
(***************************************************************************)
(* internal/finalizer/actions and postProcessFinalizer: the delivery of the  *)
(* artifacts of finished workflows to GitHub repositories, to a webhook or   *)
(* into the workflow's own result, with the repository that the engine       *)
(* makes sure of before, the requests that fail or whose answers are lost,   *)
(* other workflows that deliver to the same branch, the run that is cut off  *)
(* and delivers again, and the retry after a failure, which does not.        *)
(*                                                                          *)
(* A file's content is <<w, i>>, the i-th artifact of workflow w; GitHub     *)
(* identifies it by its sha, here by itself.                                 *)
(***************************************************************************)
EXTENDS Integers, Sequences

CONSTANTS
  Deliverers,          (* workflows that have reached their finalizer          *)
  Products,            (* the artifacts of each: sequences of Artifact         *)
  Orders,              (* the orders a workflow may come with: members of Order*)
  Repositories,        (* names "owner/repo"                                   *)
  FilePaths,           (* where artifacts go                                   *)
  HasDefaultToken,     (* GOORCA_GITHUB_TOKEN is set                           *)
  MaxDeliveries,       (* bound: attempts of each workflow                     *)
  MaxGitHubFaults      (* bound: requests that go wrong, and runs cut off      *)

None == <<>>
Actions == {"github-pr", "repo-commit-only", "create-repo", "webhook-dispatch",
            "api-response", "markdown-export", "artifact-bundle", "blog-draft", "doc-draft"}
ArtifactKinds == {"code", "blog_post", "markdown", "document", "text"}
Artifact == [path : FilePaths, kind : ArtifactKinds]

(* config: the caller's delivery_config, "" for a field left out; a token is   *)
(* given or not.  action, director, model: the delivery_action of the request, *)
(* the Director's finalizer_action, and the finalizer model's choice.          *)
Fields == {"repo", "branch", "head", "base", "path", "url"}
Config == [Fields -> STRING]
(* workspace: the workflow's mode gives it a workspace; mentioned: a repository *)
(* that the request names.                                                     *)
Order == [action : Actions \cup {""}, director : Actions \cup {""}, model : Actions \cup {""},
          config : Config, token : BOOLEAN, workspace : BOOLEAN,
          mentioned : Repositories \cup {""}]

ASSUME DeliveryAssumption ==
  /\ "" \notin Repositories
  /\ Products \in [Deliverers -> Seq(Artifact)]
  /\ \A o \in Orders : {o.action, o.director, o.model} \subseteq Actions \cup {""}
  /\ HasDefaultToken \in BOOLEAN
  /\ MaxDeliveries \in Nat /\ MaxGitHubFaults \in Nat

VARIABLES
  delivery,    (* for each workflow the attempt under way, see Attempt         *)
  branches,    (* GitHub: <<repo, branch>> to the files of its head            *)
  pulls,       (* GitHub: open pull requests <<repo, head, base>>              *)
  posted,      (* workflows whose webhook has been received                    *)
  ghFaults     (* number of requests that went wrong                           *)

deliveryVars == <<delivery, branches, pulls, posted, ghFaults>>

Readme == <<"readme">>
Contents == UNION {{<<w, i>> : i \in DOMAIN Products[w]} : w \in Deliverers} \cup {None, Readme}
Stages == {"setup", "waiting", "ref", "refs", "create", "get", "put", "pull", "post",
           "delivered", "failed", "skipped", "undelivered"}
(* target: the repository delivered to; todo: artifacts still to be committed;  *)
(* sha: that of the file about to be replaced; ghost clean: no request of the   *)
(* attempt went wrong.                                                         *)
Attempt ==
  [order : Orders, at : Stages, repoURL : STRING, target : STRING, todo : SUBSET Nat,
   sha : Contents, tried : 0..MaxDeliveries, clean : BOOLEAN]

-----------------------------------------------------------------------------
(* Which action, with which configuration.                                   *)
Mine(w) == delivery[w].order
Given(a, b) == IF a = "" THEN b ELSE a

\* Finalizer.Execute: the Director's action overrides the model's.
\* postProcessFinalizer: the caller's overrides both.
ActionKey(w) == Given(Mine(w).action, Given(Mine(w).director, Mine(w).model))

\* The branch of the workspace, and the one a pull request is given.
WorkspaceBranch(w) == "workflow/" \o w
OwnBranch(w) == "workflow/title-" \o w

\* inferRepoFromWorkspace
InferredRepo(w) == IF Mine(w).workspace THEN delivery[w].repoURL ELSE ""

\* hydrateDeliveryConfig: repo and branch are backfilled from the workspace.  The
\* struct it marshals again has these two fields and no others.
DeliveryConfig(w) ==
  LET given == Mine(w).config
      repo == Given(given["repo"], InferredRepo(w))
  IN IF ActionKey(w) \notin {"github-pr", "repo-commit-only"} \/ repo = "" THEN given
     ELSE [f \in Fields |->
            CASE f = "repo" -> repo
              [] f = "branch" -> Given(given["branch"],
                                   IF Mine(w).workspace THEN WorkspaceBranch(w) ELSE "main")
              [] OTHER -> ""]

\* The token of the configuration is one of the fields that do not survive.
HasToken(w) ==
  HasDefaultToken \/ (Mine(w).token /\ DeliveryConfig(w) = Mine(w).config)

\* The branch the files go to, and the one it is to be merged into.
PullBranch(w) == Given(DeliveryConfig(w)["head"], OwnBranch(w))
CommitBranch(w) == Given(DeliveryConfig(w)["branch"], "main")
HeadBranch(w) ==
  CASE ActionKey(w) = "github-pr" -> PullBranch(w)
    [] ActionKey(w) = "repo-commit-only" -> CommitBranch(w)
    [] OTHER -> "main"
BaseBranch(w) == Given(DeliveryConfig(w)["base"], "main")

Target(w) == <<delivery[w].target, HeadBranch(w)>>

\* A new repository knows no directory to put its files in.
FilePath(w, i) ==
  IF DeliveryConfig(w)["path"] = "" \/ ActionKey(w) = "create-repo" THEN Products[w][i].path
  ELSE DeliveryConfig(w)["path"] \o "/" \o Products[w][i].path

\* The artifacts that go to the file of the i-th.
SameFile(w, i) == {j \in DOMAIN Products[w] : FilePath(w, j) = FilePath(w, i)}
Newer(w, i) == {j \in SameFile(w, i) : j > i}

\* Mutant of Committed: an artifact that comes back under its path is dropped.
FirstOfEachPath(w) == {i \in DOMAIN Products[w] : \A j \in SameFile(w, i) : i <= j}

\* One artifact for each path, the last; a new repository is seeded with all.
Committed(w) ==
  {i \in DOMAIN Products[w] : ActionKey(w) = "create-repo" \/ Newer(w, i) = {}}

\* A path keeps the place where it came up first.
Turn(w, i) ==
  IF ActionKey(w) = "create-repo" THEN i
  ELSE CHOOSE k \in SameFile(w, i) : \A j \in SameFile(w, i) : k <= j

\* BlogDraftAction, DocDraftAction: the newest artifact of the preferred kind, or
\* else of the kinds it falls back on.
Newest(w, kinds) ==
  {i \in DOMAIN Products[w] : /\ Products[w][i].kind \in kinds
                              /\ \A j \in DOMAIN Products[w] :
                                   Products[w][j].kind \in kinds => j <= i}
BlogFallbackKinds == {"markdown", "document", "text"}
BlogDraft(w) ==
  IF Newest(w, {"blog_post"}) # {} THEN Newest(w, {"blog_post"}) ELSE Newest(w, BlogFallbackKinds)
DocDraft(w) ==
  IF Newest(w, {"markdown"}) # {} THEN Newest(w, {"markdown"}) ELSE Newest(w, {"blog_post"})

-----------------------------------------------------------------------------
(* A request to GitHub is served and answered, or refused, or served without  *)
(* its answer arriving.                                                      *)
Faults(outcome) ==
  /\ outcome # "ok" => ghFaults < MaxGitHubFaults
  /\ ghFaults' = IF outcome = "ok" THEN ghFaults ELSE ghFaults + 1
Outcomes == {"ok", "refused", "lost"}

Files(branch) == IF branch \in DOMAIN branches THEN branches[branch] ELSE <<>>
ContentAt(branch, file) ==
  IF file \in DOMAIN Files(branch) THEN Files(branch)[file] ELSE None
With(f, key, value) == [x \in DOMAIN f \cup {key} |-> IF x = key THEN value ELSE f[x]]
Exists(repo) == <<repo, "main">> \in DOMAIN branches

Continue(w, at) == delivery' = [delivery EXCEPT ![w].at = at]
\* Execute returns an error, or a result that is not a success.
Fails(w, outcome) ==
  delivery' = [delivery EXCEPT ![w].at = "failed",
                               ![w].clean = @ /\ outcome = "ok"]
UnchangedGitHub == UNCHANGED <<branches, pulls, posted>>

DeliveryInit ==
  /\ \E chosen \in [Deliverers -> Orders] :
       delivery = [w \in Deliverers |->
         [order |-> chosen[w], at |-> "setup", repoURL |-> "", target |-> "", todo |-> {},
          sha |-> None, tried |-> 0, clean |-> TRUE]]
  /\ \E repos \in SUBSET Repositories :
       branches = [b \in repos \X {"main"} |-> [f \in {"README.md"} |-> Readme]]
  /\ pulls = {}
  /\ posted = {}
  /\ ghFaults = 0

-----------------------------------------------------------------------------
\* repositoryConfigFromDelivery, and else githubRepoFromText: requestedRepositoryConfig.
FromDelivery(w) ==
  IF Mine(w).action \in {"github-pr", "repo-commit-only", "create-repo"}
  THEN Mine(w).config["repo"] ELSE ""
Requested(w) == Given(FromDelivery(w), Mine(w).mentioned)

Attached(w) ==
  delivery' = [delivery EXCEPT ![w].at = "waiting",
                 ![w].repoURL = IF Mine(w).workspace THEN Requested(w) ELSE ""]

\* ensureRequestedRepository, before the implementation: the repository of a pull
\* request or a commit is attached as it is, any other requested one is created;
\* one that exists is attached.  Another error fails the run, which is retried:
\* so does the lack of a default token, for the configuration it makes has none.
EnsureRepository(w) ==
  /\ delivery[w].at = "setup"
  /\ LET create == /\ Mine(w).workspace /\ Requested(w) # ""
                   /\ Mine(w).action \notin {"github-pr", "repo-commit-only"}
     IN \E outcome \in Outcomes :
          /\ Faults(outcome)
          /\ ~create => outcome = "ok"
          /\ create => HasDefaultToken
          /\ branches' = IF create /\ outcome # "refused" /\ ~Exists(Requested(w))
                         THEN With(branches, <<Requested(w), "main">>,
                                   [f \in {"README.md"} |-> Readme])
                         ELSE branches
          /\ IF outcome = "ok" THEN Attached(w) ELSE UNCHANGED delivery
  /\ UNCHANGED <<pulls, posted>>

\* postProcessFinalizer hands the artifacts to the action, up to its first request.
Starts(w, at) ==
  delivery' = [delivery EXCEPT ![w].at = at, ![w].tried = @ + 1, ![w].clean = TRUE,
                 ![w].target = DeliveryConfig(w)["repo"], ![w].todo = Committed(w)]

MayPush(w) == DeliveryConfig(w)["repo"] # "" /\ HasToken(w)
PullStarts(w) == ActionKey(w) = "github-pr" /\ Starts(w, IF MayPush(w) THEN "ref" ELSE "failed")
CommitStarts(w) ==
  ActionKey(w) = "repo-commit-only" /\ Starts(w, IF MayPush(w) THEN "get" ELSE "failed")
CreateStarts(w) ==
  ActionKey(w) = "create-repo" /\ Starts(w, IF MayPush(w) THEN "create" ELSE "failed")
WebhookStarts(w) ==
  /\ ActionKey(w) = "webhook-dispatch"
  /\ Starts(w, IF DeliveryConfig(w)["url"] # "" THEN "post" ELSE "failed")
DraftStarts(w) ==
  \/ ActionKey(w) = "blog-draft" /\ Starts(w, IF BlogDraft(w) # {} THEN "delivered" ELSE "failed")
  \/ ActionKey(w) = "doc-draft" /\ Starts(w, IF DocDraft(w) # {} THEN "delivered" ELSE "failed")

\* The artifacts, one document of them or their names go into the result itself.
InlineActions == {"api-response", "markdown-export", "artifact-bundle"}
InlineStarts(w) == ActionKey(w) \in InlineActions /\ Starts(w, "delivered")
NothingStarts(w) == ActionKey(w) = "" /\ Starts(w, "skipped")

StartDelivery(w) ==
  /\ delivery[w].at = "waiting"
  /\ delivery[w].tried < MaxDeliveries
  /\ \/ PullStarts(w) \/ CommitStarts(w) \/ CreateStarts(w) \/ WebhookStarts(w)
     \/ DraftStarts(w) \/ InlineStarts(w) \/ NothingStarts(w)
  /\ UnchangedGitHub /\ UNCHANGED ghFaults

\* GET the base branch.
GetBase(w) ==
  /\ delivery[w].at = "ref"
  /\ \E outcome \in {"ok", "refused"} :
       /\ Faults(outcome)
       /\ IF outcome = "ok" /\ <<delivery[w].target, BaseBranch(w)>> \in DOMAIN branches
          THEN Continue(w, "refs") ELSE Fails(w, outcome)
  /\ UnchangedGitHub

\* Mutant of Recoverable: a branch that an earlier attempt made stops this one.
NewBranchOnly(w) == Target(w) \notin DOMAIN branches

\* A branch that exists is answered with 422, which is taken as recoverable.
Recoverable(w) == TRUE

\* POST the head branch.  Nobody moves the base in the meantime but to add files.
CreateBranch(w) ==
  /\ delivery[w].at = "refs"
  /\ \E outcome \in Outcomes :
       /\ Faults(outcome)
       /\ branches' = IF outcome # "refused" /\ Target(w) \notin DOMAIN branches
                      THEN With(branches, Target(w), Files(<<delivery[w].target, BaseBranch(w)>>))
                      ELSE branches
       /\ IF outcome = "ok" /\ Recoverable(w) THEN Continue(w, "get") ELSE Fails(w, outcome)
  /\ UNCHANGED <<pulls, posted>>

\* resolveCreateRepoTarget: one that exists is that of the workspace, if any.
ExistingTarget(w) == Given(delivery[w].repoURL, delivery[w].target)

\* POST the repository.
CreateRepository(w) ==
  /\ delivery[w].at = "create"
  /\ \E outcome \in Outcomes :
       /\ Faults(outcome)
       /\ branches' = IF outcome # "refused" /\ ~Exists(delivery[w].target)
                      THEN With(branches, <<delivery[w].target, "main">>,
                                [f \in {"README.md"} |-> Readme])
                      ELSE branches
       /\ IF outcome # "ok" THEN Fails(w, outcome)
          ELSE delivery' = [delivery EXCEPT ![w].at = "get",
                 ![w].target = IF Exists(@) THEN ExistingTarget(w) ELSE @]
  /\ UNCHANGED <<pulls, posted>>

-----------------------------------------------------------------------------
(* The files, one by one through the Contents API.                           *)
\* A GET that fails is passed over: the file is then put as if it were new.
KnownSha(branch, file, outcome) == IF outcome = "ok" THEN ContentAt(branch, file) ELSE None

NextOne(w) ==
  CHOOSE i \in delivery[w].todo : \A j \in delivery[w].todo : Turn(w, i) <= Turn(w, j)
NextFile(w) == FilePath(w, NextOne(w))

GetFile(w) ==
  /\ delivery[w].at = "get"
  /\ IF delivery[w].todo = {}
     THEN /\ Continue(w, IF ActionKey(w) = "github-pr" THEN "pull" ELSE "delivered")
          /\ UNCHANGED ghFaults
     ELSE \E outcome \in {"ok", "refused"} :
            /\ Faults(outcome)
            /\ delivery' = [delivery EXCEPT ![w].at = "put",
                              ![w].sha = KnownSha(Target(w), NextFile(w), outcome),
                              ![w].clean = @ /\ outcome = "ok"]
  /\ UnchangedGitHub

\* A PUT needs the sha of what it replaces: without it, or with that of an older
\* version, it is refused, as it is on a branch that does not exist.
PutFile(w) ==
  /\ delivery[w].at = "put"
  /\ LET file == NextFile(w)
         valid == Target(w) \in DOMAIN branches /\ ContentAt(Target(w), file) = delivery[w].sha
     IN \E outcome \in Outcomes :
          /\ Faults(outcome)
          /\ branches' = IF valid /\ outcome # "refused"
                         THEN [branches EXCEPT ![Target(w)] =
                                 With(@, file, <<w, NextOne(w)>>)]
                         ELSE branches
          /\ IF valid /\ outcome = "ok"
             THEN delivery' = [delivery EXCEPT ![w].at = "get", ![w].todo = @ \ {NextOne(w)},
                                                     ![w].sha = None]
             ELSE Fails(w, outcome)
  /\ UNCHANGED <<pulls, posted>>

\* POST the pull request: there can be one for a head and a base.
OpenPull(w) ==
  /\ delivery[w].at = "pull"
  /\ LET pull == <<delivery[w].target, HeadBranch(w), BaseBranch(w)>>
     IN \E outcome \in Outcomes :
          /\ Faults(outcome)
          /\ pulls' = IF outcome # "refused" THEN pulls \cup {pull} ELSE pulls
          /\ IF outcome = "ok" /\ pull \notin pulls
             THEN Continue(w, "delivered") ELSE Fails(w, outcome)
  /\ UNCHANGED <<branches, posted>>

\* WebhookAction: any failure, and any status from 300, is a failure.
PostWebhook(w) ==
  /\ delivery[w].at = "post"
  /\ \E outcome \in Outcomes :
       /\ Faults(outcome)
       /\ posted' = IF outcome # "refused" THEN posted \cup {w} ELSE posted
       /\ IF outcome = "ok" THEN Continue(w, "delivered") ELSE Fails(w, outcome)
  /\ UNCHANGED <<branches, pulls>>

\* The run has failed with a delivery error, and is retried.  The finalizer's
\* summary is stored with the failed status, so its phase is passed over; and
\* transition clears the error message on the way from failed to running, so that
\* deliveryRetryNeeded, which looks for "delivery action" in it, is false.
RetryDelivery(w) ==
  /\ delivery[w].at = "failed"
  /\ Continue(w, "undelivered")
  /\ UnchangedGitHub /\ UNCHANGED ghFaults

\* The process dies, or the store fails, before the finalizer's summary has been
\* saved, with the outcome of the delivery or without: its phase is run again as
\* a whole.
DeliveryCutOff(w) ==
  /\ delivery[w].at \notin {"setup", "waiting", "skipped", "undelivered"}
  /\ ghFaults < MaxGitHubFaults
  /\ ghFaults' = ghFaults + 1
  /\ Continue(w, "waiting")
  /\ UnchangedGitHub

DeliveryStep(w) ==
  \/ EnsureRepository(w) \/ StartDelivery(w)
  \/ GetBase(w) \/ CreateBranch(w) \/ CreateRepository(w)
  \/ GetFile(w) \/ PutFile(w) \/ OpenPull(w) \/ PostWebhook(w)
  \/ RetryDelivery(w) \/ DeliveryCutOff(w)

DeliveryNext == \E w \in Deliverers : DeliveryStep(w)

DeliverySpec == DeliveryInit /\ [][DeliveryNext]_deliveryVars

DeliveryTypeOK ==
  /\ delivery \in [Deliverers -> Attempt]
  /\ pulls \subseteq (Repositories \X STRING \X STRING)
  /\ posted \subseteq Deliverers
  /\ ghFaults \in 0..MaxGitHubFaults

-----------------------------------------------------------------------------
(* A delivery to a repository that succeeded has put every artifact there,   *)
(* and the last of those with one path, unless another workflow has written  *)
(* the file since, whatever failed, was lost or was run again before         *)
(* (actions.go GitHubPRAction, RepoCommitOnlyAction, CreateRepoAction).  The *)
(* repository is one that the order names; branch and directory are those of *)
(* the configuration that hydrateDeliveryConfig leaves, which for a pull     *)
(* request or a commit has lost head_branch, base_branch and path.           *)
ToGitHub(w) == ActionKey(w) \in {"github-pr", "repo-commit-only", "create-repo"}
Names(w) == {Mine(w).config["repo"], Requested(w)}
Placed(w, i) ==
  LET c == ContentAt(Target(w), FilePath(w, i))
  IN c # None /\ (c[1] = w => c[2] \in SameFile(w, i) /\ Newer(w, c[2]) = {})
DeliveredWhole ==
  \A w \in Deliverers : delivery[w].at = "delivered" /\ ToGitHub(w) =>
    /\ delivery[w].target \in Names(w) \ {""}
    /\ \A i \in DOMAIN Products[w] : Placed(w, i)

(* An attempt of which no request went wrong fails only for a reason that is *)
(* not left over from an earlier one's files: the pull request is open       *)
(* already, the branch to start from or to commit to is not there, there is  *)
(* no token, or the order of another workflow names the same repository.  So *)
(* a run that was cut off in the middle of its delivery, and runs the phase  *)
(* again, gets over the branch and the files it has left behind; only a pull *)
(* request that it has opened stands in its way.                             *)
FailureExplained ==
  \A w \in Deliverers : delivery[w].at = "failed" /\ delivery[w].clean /\ ToGitHub(w) =>
    \/ <<delivery[w].target, HeadBranch(w), BaseBranch(w)>> \in pulls
    \/ <<delivery[w].target, BaseBranch(w)>> \notin DOMAIN branches
    \/ Target(w) \notin DOMAIN branches
    \/ ~HasToken(w)
    \/ \E v \in Deliverers \ {w} : delivery[w].target \in Names(v)
=============================================================================
