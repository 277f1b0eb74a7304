----------------------------- MODULE MC_Services -----------------------------
(***************************************************************************)
(* The services around the engine, side by side: attachments, the event      *)
(* stream, the MCP registry and its sessions, the rate limiters and the      *)
(* self-improvement.  They share no state, so a behaviour is one of one      *)
(* service, the focus, and the states are their sum instead of their product.*)
(***************************************************************************)
EXTENDS Attachments, EventStream, McpRegistry, McpSession, RateLimiter, Improvements

VARIABLE focus

services == <<focus, attVars, evVars, mrVars, mcpVars, rlVars, impVars>>
Foci == {"attachments", "events", "registry", "session", "limiter", "improvements"}

MCContents ==
  [f \in Files |-> {<<"x">>, <<"x", "n", "y", "y", "y", "n", "x">>,
                    <<"x", "x", "x", "x", "n", "x", "y", "x", "y", "y", "x", "y", "x">>}]

Suggestion(type, name, change, priority, files) ==
  [type |-> type, name |-> name, complete |-> TRUE, change |-> change, priority |-> priority,
   files |-> files, content |-> files = <<>>, wellFormed |-> TRUE]
\* A skill for two workflows to write at once; an update and a more urgent one of
\* the same component; what is off the surface, incomplete, advisory or malformed.
MCSuggestions ==
  [w \in Parents |->
     IF w = "v"
     THEN <<Suggestion("skill", "git", "update", "low", <<"skills/", "prompts/personas/">>),
            Suggestion("agent", "reviewer", "create", "high", <<>>),
            Suggestion("prompt", "qa", "update", "low", <<"prompts/personas/">>),
            Suggestion("prompt", "qa", "create", "high", <<"prompts/personas/">>)>>
     ELSE <<[Suggestion("prompt", "pod", "update", "low", <<>>) EXCEPT !.complete = FALSE],
            Suggestion("skill", "git", "update", "low", <<"skills/">>),
            Suggestion("persona", "qa", "advisory", "low", <<"skills/">>),
            [Suggestion("skill", "sql", "update", "low", <<"skills/">>) EXCEPT !.wellFormed = FALSE]>>]

\* What is not in the focus starts in one state of its choices.
ServicesInit ==
  /\ focus \in Foci
  /\ AttInit /\ EvInit /\ McpRegistryInit /\ McpSessionInit /\ RateInit /\ ImpInit
  /\ focus # "events" => evStore = "sqlite"
  /\ focus # "registry" => up = {} /\ required = {}

AttachmentsStep ==
  focus = "attachments" /\ AttNext /\ UNCHANGED <<focus, evVars, mrVars, mcpVars, rlVars, impVars>>
EventsStep ==
  focus = "events" /\ EvNext /\ UNCHANGED <<focus, attVars, mrVars, mcpVars, rlVars, impVars>>
RegistryStep ==
  focus = "registry" /\ McpRegistryNext /\ UNCHANGED <<focus, attVars, evVars, mcpVars, rlVars, impVars>>
SessionStep ==
  focus = "session" /\ McpSessionNext /\ UNCHANGED <<focus, attVars, evVars, mrVars, rlVars, impVars>>
LimiterStep ==
  focus = "limiter" /\ RateNext /\ UNCHANGED <<focus, attVars, evVars, mrVars, mcpVars, impVars>>
ImprovementsStep ==
  focus = "improvements" /\ ImpNext /\ UNCHANGED <<focus, attVars, evVars, mrVars, mcpVars, rlVars>>

ServicesNext ==
  \/ AttachmentsStep \/ EventsStep \/ RegistryStep
  \/ SessionStep \/ LimiterStep \/ ImprovementsStep

ServicesSpec ==
  /\ ServicesInit /\ [][ServicesNext]_services
  /\ (focus = "registry" => McpRegistryFairness)

-----------------------------------------------------------------------------
(* A server that stays up is connected in the end by the probe loop, however *)
(* often it went down and whichever attempts failed, unless the process      *)
(* panics, for a reason that PanicExplained names (registry.go Probe,        *)
(* maybeReconnectServer; connect.go).                                        *)
Reconnects ==
  /\ []PanicExplained
  /\ \A s \in Servers : (focus = "registry" /\ <>[](s \in up)) => <>(s \in connected \/ crashed)
=============================================================================
