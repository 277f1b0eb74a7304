----------------------------- MODULE McpRegistry -----------------------------
(***************************************************************************)
(* The registry of MCP servers (mcp/registry): it connects to each server at *)
(* startup, then its probe loop and the runs that resolve a capability try   *)
(* again for servers that are not connected.  A connection registers the     *)
(* server's tools in the process-wide tool registry (tools/tools.go), which  *)
(* panics on a name it knows.                                                *)
(*                                                                          *)
(* Actors: "loader", the startup; "probe", the probe loop, which starts      *)
(* after it; and runs.  What an actor read under the lock it may find        *)
(* changed when it takes the lock again.                                     *)
(***************************************************************************)
EXTENDS Integers, FiniteSets

CONSTANTS
  Servers,          (* configured MCP servers                              *)
  Runs,             (* engine runs that resolve a capability               *)
  MaxAttempts,      (* ConnectOptions.MaxAttempts                          *)
  MaxOutages        (* bound: changes of a server between up and down      *)

ASSUME McpRegistryAssumption ==
  /\ MaxAttempts \in Nat \ {0} /\ MaxOutages \in Nat
  /\ Runs \cap {"loader", "probe"} = {}

VARIABLES
  up,               (* servers that answer                                 *)
  connected,        (* servers whose entry says connected                  *)
  advertised,       (* servers whose entry has the server's tools          *)
  lastErr,          (* servers whose entry has an error                    *)
  registered,       (* servers whose tools are in the tool registry        *)
  required,         (* servers configured as required                      *)
  actor,            (* actor[a]: [at, server, attempt]                     *)
  todo,             (* servers the loader has still to visit               *)
  visited,          (* servers the probe has visited in this round         *)
  crashed,          (* the process panicked                                *)
  partial,          (* ghost: servers whose connection failed after their  *)
                    (* tools were registered                               *)
  outages

mrVars == <<up, connected, advertised, lastErr, registered, required, actor, todo, visited,
            crashed, partial, outages>>
entryVars == <<connected, advertised, lastErr>>

Actors == {"loader", "probe"} \cup Runs
NoServer == "none"

McpRegistryInit ==
  /\ up \in SUBSET Servers
  /\ connected = {}
  /\ advertised = {}
  /\ lastErr = {}
  /\ registered = {}
  /\ required \in SUBSET Servers
  /\ actor = [a \in Actors |-> [at |-> "idle", server |-> NoServer, attempt |-> 0]]
  /\ todo = Servers
  /\ visited = {}
  /\ crashed = FALSE
  /\ partial = {}
  /\ outages = 0

ActorGoes(a, at, s, n) == actor' = [actor EXCEPT ![a] = [at |-> at, server |-> s, attempt |-> n]]
At(a, at) == actor[a].at = at /\ ~crashed
Started == todo = {} /\ actor["loader"].at = "idle"

ServerChanges(s) ==
  /\ outages < MaxOutages
  /\ outages' = outages + 1
  /\ up' = IF s \in up THEN up \ {s} ELSE up \cup {s}
  /\ UNCHANGED <<entryVars, registered, required, actor, todo, visited, crashed, partial>>

\* LoadServers: one server after another.
LoadServer(s) ==
  /\ At("loader", "idle") /\ s \in todo
  /\ todo' = todo \ {s}
  /\ ActorGoes("loader", "connect", s, 1)
  /\ UNCHANGED <<up, entryVars, registered, required, visited, crashed, partial, outages>>

\* serverHTTPEndpointHealthy
EndpointHealthy(s) == s \in up

\* Mutant of NeedsReconnect: the probe only looks at the health of a server.
HealthOnly(s) == FALSE
NeedsReconnect(s) == s \notin connected

\* Probe visits every server of its list; a round ends when all are visited.
ProbeServer(s) ==
  /\ Started /\ At("probe", "idle") /\ s \notin visited
  /\ visited' = IF visited \cup {s} = Servers THEN {} ELSE visited \cup {s}
  /\ IF NeedsReconnect(s) THEN ActorGoes("probe", "reconnect", s, 0) ELSE UNCHANGED actor
  /\ lastErr' = IF EndpointHealthy(s) THEN lastErr ELSE lastErr \cup {s}
  /\ UNCHANGED <<up, connected, advertised, registered, required, todo, crashed, partial, outages>>

\* ToolchainReachable, which a run with a toolchain on s asks when it starts.
ToolchainReachable(s) == s \in connected \/ s \notin required

\* ResolveContext of a run, for a toolchain of server s.
ResolveStarts(r, s) ==
  /\ Started /\ At(r, "idle")
  /\ ToolchainReachable(s)
  /\ ActorGoes(r, "reconnect", s, 0)
  /\ UNCHANGED <<up, entryVars, registered, required, todo, visited, crashed, partial, outages>>

\* What the actor does when it is through with connecting.
After(a) == IF a \in Runs THEN "resolve" ELSE "idle"

\* maybeReconnectServer reads the entry, then asks the health endpoint.
MaybeReconnect(a) ==
  /\ At(a, "reconnect")
  /\ LET s == actor[a].server
     IN IF s \in connected \/ ~EndpointHealthy(s)
        THEN ActorGoes(a, After(a), s, 0)
        ELSE ActorGoes(a, "connect", s, 1)
  /\ UNCHANGED <<up, entryVars, registered, required, todo, visited, crashed, partial, outages>>

\* tools.Registry.Register panics on a name that it has.
Register(s) ==
  /\ crashed' = (s \in registered)
  /\ registered' = registered \cup {s}

\* mcpclient.Load: connect, list, and register every tool.
LoadTools(a) ==
  /\ At(a, "connect") /\ actor[a].server \in up
  /\ LET s == actor[a].server
     IN /\ Register(s)
        /\ ActorGoes(a, "list", s, actor[a].attempt)
  /\ UNCHANGED <<up, entryVars, required, todo, visited, partial, outages>>

\* connectServer lists the tools again, for its own record.
ListTools(a) ==
  /\ At(a, "list") /\ actor[a].server \in up
  /\ ActorGoes(a, "apply", actor[a].server, 0)
  /\ UNCHANGED <<up, entryVars, registered, required, todo, visited, crashed, partial, outages>>

\* markServerDisconnected, of the loader; a reconnect that fails keeps the entry.
GivesUp(a, s) ==
  /\ lastErr' = lastErr \cup {s}
  /\ connected' = IF a = "loader" THEN connected \ {s} ELSE connected
  /\ UNCHANGED advertised

\* An attempt failed: back off and try again, or give up.
ConnectFails(a) ==
  /\ ~crashed /\ actor[a].at \in {"connect", "list"} /\ actor[a].server \notin up
  /\ LET s == actor[a].server
         n == actor[a].attempt
     IN /\ partial' = IF actor[a].at = "list" THEN partial \cup {s} ELSE partial
        /\ IF n < MaxAttempts
           THEN ActorGoes(a, "connect", s, n + 1) /\ UNCHANGED entryVars
           ELSE ActorGoes(a, After(a), s, 0) /\ GivesUp(a, s)
  /\ UNCHANGED <<up, registered, required, todo, visited, crashed, outages>>

applyConnectedSession(a) ==
  /\ At(a, "apply")
  /\ LET s == actor[a].server
     IN /\ connected' = connected \cup {s}
        /\ advertised' = advertised \cup {s}
        /\ lastErr' = lastErr \ {s}
        /\ ActorGoes(a, After(a), s, 0)
  /\ UNCHANGED <<up, registered, required, todo, visited, crashed, partial, outages>>

\* The second half of ResolveContext; CallCapability then calls the tool.
Resolves(s) == s \in connected /\ s \in advertised
Resolve(r) ==
  /\ At(r, "resolve")
  /\ LET s == actor[r].server
     IN ActorGoes(r, IF Resolves(s) THEN "resolved" ELSE "unresolved", s, 0)
  /\ UNCHANGED <<up, entryVars, registered, required, todo, visited, crashed, partial, outages>>

ResolveAgain(r) ==
  /\ ~crashed /\ actor[r].at \in {"resolved", "unresolved"}
  /\ ActorGoes(r, "idle", NoServer, 0)
  /\ UNCHANGED <<up, entryVars, registered, required, todo, visited, crashed, partial, outages>>

ActorNext(a) ==
  MaybeReconnect(a) \/ LoadTools(a) \/ ListTools(a) \/ ConnectFails(a) \/ applyConnectedSession(a)

McpRegistryNext ==
  \/ \E s \in Servers : ServerChanges(s) \/ LoadServer(s) \/ ProbeServer(s)
  \/ \E r \in Runs, s \in Servers : ResolveStarts(r, s)
  \/ \E a \in Actors : ActorNext(a)
  \/ \E r \in Runs : Resolve(r) \/ ResolveAgain(r)

McpRegistryFairness ==
  /\ WF_mrVars(\E s \in Servers : LoadServer(s) \/ ProbeServer(s))
  /\ \A a \in {"loader", "probe"} : WF_mrVars(ActorNext(a))

McpRegistrySpec == McpRegistryInit /\ [][McpRegistryNext]_mrVars

McpRegistryTypeOK ==
  /\ up \subseteq Servers /\ connected \subseteq Servers /\ advertised \subseteq Servers
  /\ lastErr \subseteq Servers /\ registered \subseteq Servers /\ required \subseteq Servers
  /\ todo \subseteq Servers /\ visited \subseteq Servers /\ partial \subseteq registered
  /\ \A a \in Actors : actor[a].attempt \in 0..MaxAttempts
  /\ crashed \in BOOLEAN

(* The process only panics when a server is connected to whose tools are     *)
(* registered already: after a connection that broke half-way, for a server  *)
(* whose entry has become connected meanwhile, or by two actors at once      *)
(* (registry.go maybeReconnectServer, connect.go, tools.go Register).        *)
Connecting(s) == {a \in Actors : actor[a].server = s /\ actor[a].at \in {"connect", "list", "apply"}}
PanicExplained ==
  crashed => \E s \in Servers :
               s \in partial \/ s \in connected \/ \E a, b \in Connecting(s) : a # b
=============================================================================
