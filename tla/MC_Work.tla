------------------------------- MODULE MC_Work -------------------------------
(***************************************************************************)
(* What a run of a workflow does beside deciding what comes next: the calls  *)
(* of its personas to their models, the choice of those models, the work in  *)
(* the workspace and the delivery.  They share no state here, so a behaviour *)
(* is one of one of them, the focus.                                         *)
(***************************************************************************)
EXTENDS PersonaCall, Delivery, ModelRouting, Workspace

VARIABLE focus

workVars == <<focus, callVars, deliveryVars, routingVars, spaceVars>>

-----------------------------------------------------------------------------
(* Answers: two artifacts, one with a fenced block in a string, whole or cut *)
(* off, bare, fenced, after prose with a brace in it, or after a tool call   *)
(* written out; prose alone; and nothing.                                    *)
Nested == <<"{", "k", "s", "k", "{", "k", "S", "}", "}">>
Listed == <<"{", "k", "[", "{", "k", "v", "}", "]", "}">>
WrittenCall == <<"{", "k", "s", "}">>
Whole(a, text) == [text |-> text, whole |-> a, early |-> FALSE]
CutOff(a, text) == [text |-> text, whole |-> a, early |-> TRUE]
MCAnswers ==
  UNION { {Whole(a, a), Whole(a, <<"jsonfence">> \o a \o <<"fence">>),
           Whole(a, <<"p", "jsonfence">> \o a \o <<"fence", "p">>),
           Whole(a, <<"p">> \o WrittenCall \o <<"p">> \o a),
           Whole(a, <<"{", "p">> \o a \o <<"p">>)}
          \cup {CutOff(a, SubSeq(a, 1, n)) : n \in {0, 3, 7, Len(a) - 1}}
          \cup {CutOff(a, SubSeq(a, 1, 2) \o <<"u">>)} : a \in {Nested, Listed} }
    \cup {Whole(Nested, <<"p">>), Whole(Nested, <<>>)}

(* Workflow u has two artifacts of one path in the new repository and drafts; *)
(* v has one that goes to the same path.                                      *)
Product(path, kind) == [path |-> path, kind |-> kind]
MCProducts ==
  [w \in Deliverers |->
     IF w = "u" THEN <<Product("x", "code"), Product("y", "markdown"), Product("x", "blog_post")>>
     ELSE <<Product("x", "text")>>]
NoConfig == [f \in Fields |-> ""]
WithRepo(repo) == [NoConfig EXCEPT !["repo"] = repo]
Asks(action, director, model, config, token, workspace, mentioned) ==
  [action |-> action, director |-> director, model |-> model, config |-> config,
   token |-> token, workspace |-> workspace, mentioned |-> mentioned]
MCOrders ==
  { Asks("github-pr", "", "", [WithRepo("acme/site") EXCEPT !["head"] = "feature", !["path"] = "generated"],
         FALSE, TRUE, ""),
    Asks("repo-commit-only", "", "", [WithRepo("acme/site") EXCEPT !["branch"] = "main"], FALSE, FALSE, ""),
    Asks("create-repo", "blog-draft", "", WithRepo("acme/lib"), FALSE, TRUE, ""),
    Asks("", "webhook-dispatch", "api-response", [NoConfig EXCEPT !["url"] = "hook"], FALSE, TRUE, "acme/site"),
    Asks("doc-draft", "", "", NoConfig, TRUE, FALSE, ""),
    Asks("", "blog-draft", "api-response", NoConfig, FALSE, FALSE, ""),
    Asks("", "", "api-response", NoConfig, FALSE, FALSE, ""),
    Asks("", "", "", NoConfig, FALSE, FALSE, "") }

(* A small model without tools, a large one whose native tool calling fails  *)
(* on ollama, and one in between; two configurations.                        *)
Says(tools, small, large, unstable) ==
  [tools |-> tools, small |-> small, large |-> large, unstable |-> unstable]
MCFacts ==
  [m \in {"m1", "m2", "m3"} |->
     CASE m = "m1" -> Says(FALSE, TRUE, FALSE, FALSE)
       [] m = "m2" -> Says(TRUE, FALSE, TRUE, TRUE)
       [] m = "m3" -> Says(TRUE, FALSE, FALSE, FALSE)]
MCModelOrder == <<"m1", "m2", "m3">>
MCListings == {{}, {"m1"}, {"m1", "m2"}, {"m1", "m2", "m3"}}
MCSettings ==
  { [defaults |-> [p \in RoutedProviders |-> IF p = "ollama" THEN "m1" ELSE ""],
     excluded |-> [p \in RoutedProviders |-> {}], provider |-> "ollama"],
    [defaults |-> [p \in RoutedProviders |-> "m2"],
     excluded |-> [p \in RoutedProviders |-> {"m1"}], provider |-> "openai"] }
MCRequests == {[provider |-> "", model |-> ""], [provider |-> "ollama", model |-> "m1"]}

(* Three toolchains, one without a validation profile; requests that name one language, two, *)
(* or none; a sound Next.js project and two broken ones.                     *)
Configured(id, languages, bootstraps, validates, checkpoints, push) ==
  [id |-> id, languages |-> languages, bootstraps |-> bootstraps, validates |-> validates,
   checkpoints |-> checkpoints, push |-> push]
MCToolchainConfigs ==
  << Configured("go", <<"go", "golang">>, TRUE, TRUE, TRUE, TRUE),
     Configured("node", <<"node", "typescript">>, FALSE, TRUE, TRUE, FALSE),
     Configured("nextjs", <<"next", "nextjs">>, FALSE, FALSE, FALSE, FALSE) >>
MCWordLength ==
  [w \in {"go", "golang", "node", "typescript", "next", "nextjs"} |->
     CASE w = "go" -> 2 [] w = "typescript" -> 10 [] w \in {"golang", "nextjs"} -> 6 [] OTHER -> 4]
WorkRequest(words, stack, repo) == [words |-> words, stack |-> stack, repo |-> repo]
MCWorkRequests ==
  { WorkRequest({"go"}, {}, TRUE), WorkRequest({"typescript"}, {"nextjs"}, FALSE),
    WorkRequest({"node"}, {"typescript"}, FALSE) }
MCNodeShapes ==
  { [manifest |-> "valid", stubBuild |-> FALSE, depsMissing |-> TRUE, twoPages |-> FALSE, twoRouters |-> TRUE],
    [manifest |-> "valid", stubBuild |-> FALSE, depsMissing |-> FALSE, twoPages |-> FALSE, twoRouters |-> FALSE] }

-----------------------------------------------------------------------------
\* What is not in the focus starts in one state of its choices.
WorkInit ==
  /\ focus \in {"call", "delivery", "routing", "workspace"}
  /\ CallInit
  /\ focus # "call" => setup = [provider |-> "unregistered", unstable |-> FALSE, noTools |-> FALSE, tools |-> {}]
  /\ DeliveryInit
  /\ focus # "delivery" => DOMAIN branches = {} /\ \A w \in Deliverers : ActionKey(w) = "doc-draft"
  /\ RoutingInit
  /\ focus # "routing" => setting.provider = "openai" /\ route.model = ""
  /\ WorkspaceInit
  /\ focus # "workspace" => work.request.words = {"go"}

CallStep == focus = "call" /\ CallNext /\ UNCHANGED <<focus, deliveryVars, routingVars, spaceVars>>
DeliverStep == focus = "delivery" /\ DeliveryNext /\ UNCHANGED <<focus, callVars, routingVars, spaceVars>>
RoutingStep == focus = "routing" /\ RoutingNext /\ UNCHANGED <<focus, callVars, deliveryVars, spaceVars>>
SpaceStep == focus = "workspace" /\ WorkspaceNext /\ UNCHANGED <<focus, callVars, deliveryVars, routingVars>>

WorkNext == CallStep \/ DeliverStep \/ RoutingStep \/ SpaceStep

WorkSpec == WorkInit /\ [][WorkNext]_workVars
=============================================================================
