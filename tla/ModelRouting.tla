---------------------------- MODULE ModelRouting ----------------------------
(***************************************************************************)
(* internal/workflow/engine/model_routing.go with the Director's part of     *)
(* applyOutput: which provider and model each persona of a workflow is sent  *)
(* to.  The catalogs of the providers are asked for once and stored with the *)
(* workflow, the Director chooses from them, its choice is normalised, and    *)
(* each call resolves it again, possibly after a restart under another       *)
(* configuration.                                                            *)
(***************************************************************************)
EXTENDS Integers, Sequences, Functions

CONSTANTS
  RoutedProviders,   (* names of the registered providers                      *)
  ModelOrder,        (* all model names, in the order of their sorted ids      *)
  Facts,             (* for each model what a catalog says of it, see Fact     *)
  Listings,          (* what a provider may list: sets of models               *)
  Settings,          (* the configurations: members of Setting                 *)
  Requests,          (* provider and model that a caller may ask for           *)
  MaxRoutingRestarts (* bound: restarts                                        *)

\* small: fewer than 4 billion parameters; large: at least 7; unstable: a model
\* whose native tool calling fails on ollama (NativeToolCallingUnstable).
Fact == [tools : BOOLEAN, small : BOOLEAN, large : BOOLEAN, unstable : BOOLEAN]
RoutedModels == Range(ModelOrder)
NoModel == ""

\* defaults: each provider's default model, or "" for none; excluded: the models
\* an operator has taken out; provider: the default provider.
Setting == [defaults : [RoutedProviders -> RoutedModels \cup {""}],
            excluded : [RoutedProviders -> SUBSET RoutedModels],
            provider : RoutedProviders]

ASSUME RoutingAssumption ==
  /\ ModelOrder \in Seq(STRING \ {NoModel})
  /\ RoutedProviders \subseteq STRING \ {""}
  /\ Facts \in [RoutedModels -> Fact]
  /\ Listings \subseteq SUBSET RoutedModels
  /\ Settings \subseteq Setting /\ Settings # {}
  /\ \A r \in Requests : r.provider \in RoutedProviders \cup {""} /\ r.model \in RoutedModels \cup {""}
  /\ MaxRoutingRestarts \in Nat

\* DownstreamPersonaKinds, with one for those that need neither tools nor JSON.
Downstream == {"project_manager", "architect", "pod", "qa"}

VARIABLES
  setting,    (* the configuration in force                                  *)
  route,      (* the workflow's provider, model and persona models           *)
  catalogs,   (* the workflow's ProviderCatalogs, <<>> until discovered      *)
  call,       (* the latest persona call                                     *)
  since,      (* ghost: settings since the catalogs were stored              *)
  reboots     (* number of restarts                                          *)

routingVars == <<setting, route, catalogs, call, since, reboots>>

(* The models are a sequence in the order of their ids: a set, of which First  *)
(* is the first.                                                             *)
Catalog == [models : SUBSET RoutedModels, default : RoutedModels \cup {NoModel}]

RoutingInit ==
  /\ setting \in Settings
  /\ \E r \in Requests :
       route = [provider |-> r.provider, model |-> r.model, directed |-> FALSE,
                personas |-> [k \in Downstream |-> NoModel]]
  /\ catalogs = <<>>
  /\ call = [persona |-> "", provider |-> "", model |-> NoModel]
  /\ since = {setting}
  /\ reboots = 0

-----------------------------------------------------------------------------
(* Catalogs.                                                                 *)
Places(ms) == {i \in DOMAIN ModelOrder : ModelOrder[i] \in ms}
First(ms) == ModelOrder[CHOOSE i \in Places(ms) : \A j \in Places(ms) : i <= j]

Excluded(p, m) == m \in setting.excluded[p]

\* syntheticDefaultModel
DefaultModel(p) ==
  IF Excluded(p, setting.defaults[p]) THEN NoModel ELSE setting.defaults[p]

\* fallbackCatalog: the provider cannot list its models, or could not.
FallbackCatalog(p) ==
  [models |-> {DefaultModel(p)} \ {NoModel},
   default |-> DefaultModel(p)]

\* discoverProviderCatalog: what is listed and not excluded, by id.
ListedCatalog(p, listed) ==
  LET allowed == {m \in listed : ~Excluded(p, m)}
  IN IF allowed = {} THEN FallbackCatalog(p)
     ELSE [models |-> allowed,
           default |-> IF setting.defaults[p] \in allowed THEN setting.defaults[p]
                       ELSE First(allowed)]

Discovered == catalogs # <<>>
InCatalog(p, m) == m # NoModel /\ (m = catalogs[p].default \/ m \in catalogs[p].models)

Unlisted == {NoModel}

\* ensureProviderCatalogs: all providers at once; stored, and never asked again.
Discover ==
  /\ ~Discovered
  /\ \E listing \in [RoutedProviders -> Listings \cup {Unlisted}] :
       catalogs' = [p \in RoutedProviders |->
                      IF listing[p] = Unlisted THEN FallbackCatalog(p)
                      ELSE ListedCatalog(p, listing[p])]
  /\ since' = {setting}
  /\ UNCHANGED <<setting, route, call, reboots>>

-----------------------------------------------------------------------------
(* Choosing a model.                                                         *)
ModelAllowed(p, m) == m # NoModel /\ ~Excluded(p, m) /\ InCatalog(p, m)

\* providerFallbackModel: the catalog's default as it was stored, excluded since
\* then or not.
FallbackModel(p) ==
  IF catalogs[p].default # NoModel THEN catalogs[p].default ELSE DefaultModel(p)

\* normalizeModelSelection
NormalizeModel(p, requested, fallback) ==
  IF ModelAllowed(p, requested) THEN requested
  ELSE IF ModelAllowed(p, fallback) THEN fallback
  ELSE FallbackModel(p)

\* normalizeProviderSelection: a registered provider with a catalog to choose from.
NormalizeProvider(requested, fallback) ==
  IF requested \in RoutedProviders /\ (catalogs[requested].default # NoModel \/ catalogs[requested].models # {})
  THEN requested ELSE fallback

\* resolveProviderName
ProviderNow == IF route.provider # "" THEN route.provider ELSE setting.provider

Unstable(p, m) == p = "ollama" /\ Facts[m].unstable
FirstOr(ms, other) == IF ms = {} THEN other ELSE First(ms)

\* modelHasTools, firstToolCapableModel: a catalog without one changes nothing.
HasTools(p, m) == m \in catalogs[p].models /\ Facts[m].tools
StableToolModels(p) == {m \in catalogs[p].models : Facts[m].tools /\ ~Unstable(p, m)}

\* Mutant of ForTools: a model that cannot call tools is kept.
AnyForTools(p, m) == m

\* The Pod and QA call tools.
ForTools(p, m) ==
  IF HasTools(p, m) /\ ~Unstable(p, m) THEN m ELSE FirstOr(StableToolModels(p), m)

\* firstStructuredOutputCapableModel: the Project Manager's JSON needs four
\* billion parameters; the fallback if it has them, or else the first model with
\* seven, or the largest, here the first, that has four.
ForJSON(p, m, fallback) ==
  LET fit == {x \in catalogs[p].models : ~Facts[x].small}
      large == {x \in fit : Facts[x].large}
  IN IF m \notin catalogs[p].models \/ ~Facts[m].small THEN m
     ELSE IF fallback \in fit THEN fallback
     ELSE FirstOr(large, FirstOr(fit, IF fallback = NoModel THEN m ELSE fallback))

\* normalizePersonaModels.
NormalizePersona(p, kind, requested, fallback) ==
  LET m == IF ModelAllowed(p, requested) THEN requested ELSE fallback
  IN IF m = NoModel THEN NoModel
     ELSE IF kind \in {"pod", "qa"} THEN ForTools(p, m)
     ELSE IF kind = "project_manager" THEN ForJSON(p, m, fallback)
     ELSE m

\* resolvePersonaModel, resolveWorkflowModel
WorkflowModel(p) == IF ModelAllowed(p, route.model) THEN route.model ELSE FallbackModel(p)
PersonaModel(p, kind) ==
  IF kind \in Downstream /\ ModelAllowed(p, route.personas[kind])
  THEN route.personas[kind] ELSE WorkflowModel(p)

-----------------------------------------------------------------------------
(* The Director's answer, or, when it cannot be parsed, the packet it was sent *)
(* (OutputFromRaw); a model it names need not exist.  The caller's provider and *)
(* model are kept when they can be.                                           *)
DirectorAnswers ==
  [provider : RoutedProviders \cup {"", "unknown"}, model : RoutedModels \cup {NoModel},
   pod : RoutedModels \cup {NoModel}, other : RoutedModels \cup {NoModel}]

DirectorDecides ==
  /\ Discovered
  /\ ~route.directed
  /\ \E a \in DirectorAnswers :
       LET packet == ProviderNow
           p == IF route.provider # "" THEN route.provider
                ELSE NormalizeProvider(IF a.provider = "" THEN packet ELSE a.provider, packet)
           asked == IF a.model = NoModel THEN PersonaModel(packet, "director") ELSE a.model
           m == NormalizeModel(p, IF route.model # NoModel THEN route.model ELSE asked,
                               FallbackModel(p))
           fallback == NormalizeModel(p, NoModel, m)
       IN route' = [provider |-> p, model |-> m, directed |-> TRUE,
                    personas |-> [k \in Downstream |->
                      NormalizePersona(p, k, IF k \in {"pod", "qa"} THEN a.pod ELSE a.other,
                                       fallback)]]
  /\ UNCHANGED <<setting, catalogs, call, since, reboots>>

\* buildPacket: a persona is called, the Director before the others.
CallPersona ==
  /\ Discovered
  /\ \E k \in Downstream \cup {"director"} :
       /\ k \in Downstream <=> route.directed
       /\ call' = [persona |-> k, provider |-> ProviderNow, model |-> PersonaModel(ProviderNow, k)]
  /\ UNCHANGED <<setting, route, catalogs, since, reboots>>

\* The process is restarted with another configuration; the workflow is stored.
Reconfigure ==
  /\ reboots < MaxRoutingRestarts
  /\ setting' \in Settings \ {setting}
  /\ since' = since \cup {setting'}
  /\ reboots' = reboots + 1
  /\ call' = [persona |-> "", provider |-> "", model |-> NoModel]
  /\ UNCHANGED <<route, catalogs>>

RoutingNext == Discover \/ DirectorDecides \/ CallPersona \/ Reconfigure

RoutingSpec == RoutingInit /\ [][RoutingNext]_routingVars

RoutingTypeOK ==
  /\ setting \in Settings
  /\ route \in [provider : RoutedProviders \cup {""}, model : RoutedModels \cup {NoModel},
                directed : BOOLEAN, personas : [Downstream -> RoutedModels \cup {NoModel}]]
  /\ Discovered => catalogs \in [RoutedProviders -> Catalog]
  /\ call \in [persona : Downstream \cup {"director", ""},
               provider : RoutedProviders \cup {""}, model : RoutedModels \cup {NoModel}]
  /\ reboots \in 0..MaxRoutingRestarts

-----------------------------------------------------------------------------
(* The model a persona is sent to is in the provider's catalog, none that    *)
(* the operator has excluded unless it is the stored default of a catalog    *)
(* from before the exclusion; it can call tools for the Pod and QA whenever  *)
(* the catalog has one that can, and it is large enough for the Project      *)
(* Manager whenever the catalog has one that is, whatever the Director chose *)
(* and whichever restart came between (model_routing.go).                    *)
RoutedModelFits ==
  call.persona # "" /\ call.model # NoModel =>
    LET p == call.provider
        m == call.model
    IN /\ Excluded(p, m) => m = catalogs[p].default /\ since # {setting}
       /\ since = {setting} =>
            /\ InCatalog(p, m)
            /\ call.persona \in {"pod", "qa"} /\ StableToolModels(p) # {} =>
                 m \in StableToolModels(p)
            /\ call.persona = "project_manager" /\ Facts[m].small =>
                 \A x \in catalogs[p].models : Facts[x].small
=============================================================================
