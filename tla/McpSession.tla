----------------------------- MODULE McpSession ------------------------------
(***************************************************************************)
(* Tool calls over the session of one MCP server (tools/mcp/mcp.go): the     *)
(* tools of the server share a sessionHolder, whose Call replaces a session  *)
(* that was lost and tries once more.  Callers are personas of different     *)
(* workflows.                                                                *)
(*                                                                          *)
(* A session is a number; 0 stands for nil.  The server forgets its sessions *)
(* when it restarts.  reconnect runs under the holder's mutex and is atomic; *)
(* the reads of h.session before and after it are steps of their own.        *)
(***************************************************************************)
EXTENDS Integers, FiniteSets

CONSTANTS
  Callers,          (* concurrent tool calls                               *)
  MaxRestarts,      (* bound: restarts of the server                       *)
  MaxSessions,      (* bound: no call starts once so many were opened      *)
  MaxCallFaults     (* bound: other failures                               *)

ASSUME McpSessionAssumption ==
  MaxRestarts \in Nat /\ MaxSessions \in Nat /\ MaxCallFaults \in Nat

VARIABLES
  serverUp,         (* the server answers                                  *)
  known,            (* sessions the server knows                           *)
  held,             (* h.session                                           *)
  opened,           (* sessions opened so far                              *)
  closed,           (* sessions this process closed                        *)
  call,             (* call[c]: [at, sess]                                 *)
  disturbed,        (* ghost: calls whose session was taken from them by   *)
                    (* the server or another caller after they reconnected *)
  restarts, callFaults

mcpVars == <<serverUp, known, held, opened, closed, call, disturbed, restarts, callFaults>>

Nil == 0

McpSessionInit ==
  /\ serverUp = TRUE
  /\ known = {1}
  /\ held = 1
  /\ opened = 1
  /\ closed = {}
  /\ call = [c \in Callers |-> [at |-> "idle", sess |-> Nil]]
  /\ disturbed = {}
  /\ restarts = 0
  /\ callFaults = 0

CallGoes(c, at, sess) == call' = [call EXCEPT ![c] = [at |-> at, sess |-> sess]]

\* Callers that have just replaced a session by s.
Retrying(s) ==
  {c \in Callers : call[c].at \in {"renewed", "replaced", "again"} /\ call[c].sess = s}

ServerStops ==
  /\ serverUp /\ restarts < MaxRestarts
  /\ serverUp' = FALSE
  /\ known' = {}
  /\ restarts' = restarts + 1
  /\ disturbed' = disturbed \cup UNION {Retrying(s) : s \in known}
  /\ UNCHANGED <<held, opened, closed, call, callFaults>>

ServerReturns ==
  /\ ~serverUp
  /\ serverUp' = TRUE
  /\ UNCHANGED <<known, held, opened, closed, call, disturbed, restarts, callFaults>>

HolderCall(c) ==
  /\ call[c].at = "idle" /\ opened < MaxSessions
  /\ CallGoes(c, IF held = Nil THEN "nil" ELSE "first", held)
  /\ disturbed' = disturbed \ {c}
  /\ UNCHANGED <<serverUp, known, held, opened, closed, restarts, callFaults>>

Alive(s) == s \in known /\ s \notin closed

\* CallTool.  isSessionLostError: unknown to the server, closed or unreachable.
CallTool(c) ==
  /\ call[c].at \in {"first", "again"}
  /\ CallGoes(c, IF Alive(call[c].sess) THEN "done"
                 ELSE IF call[c].at = "first" THEN "lost" ELSE "failed", call[c].sess)
  /\ UNCHANGED <<serverUp, known, held, opened, closed, disturbed, restarts, callFaults>>

\* Any other error is returned as it is.
CallToolFails(c) ==
  /\ call[c].at \in {"first", "again"}
  /\ callFaults < MaxCallFaults /\ callFaults' = callFaults + 1
  /\ CallGoes(c, "refused", call[c].sess)
  /\ UNCHANGED <<serverUp, known, held, opened, closed, disturbed, restarts>>

\* Mutant of KeepsNew: a new session is not kept by the holder.
KeepsOld(new) == IF held = Nil THEN new ELSE held
KeepsNew(new) == new

\* reconnect: whatever session is held is closed, also one that another
\* caller has just opened.
Reconnect(c) ==
  /\ call[c].at \in {"lost", "nil"}
  /\ closed' = closed \cup ({held} \ {Nil})
  /\ IF serverUp
     THEN /\ opened' = opened + 1
          /\ known' = known \cup {opened + 1}
          /\ held' = KeepsNew(opened + 1)
          /\ CallGoes(c, IF call[c].at = "lost" THEN "replaced" ELSE "renewed", opened + 1)
          /\ disturbed' = (disturbed \ {c}) \cup Retrying(held)
     ELSE /\ held' = Nil
          /\ CallGoes(c, "failed", Nil)
          /\ disturbed' = disturbed \cup Retrying(held) \cup {c}
          /\ UNCHANGED <<opened, known>>
  /\ UNCHANGED <<serverUp, restarts, callFaults>>

\* The holder is read again: a nil session would be dereferenced.  A session
\* that replaced none has its first call, another one its second and last.
ReadsReplaced(c) ==
  /\ call[c].at \in {"renewed", "replaced"}
  /\ CallGoes(c, IF held = Nil THEN "panics"
                 ELSE IF call[c].at = "renewed" THEN "first" ELSE "again", held)
  /\ UNCHANGED <<serverUp, known, held, opened, closed, disturbed, restarts, callFaults>>

\* The result or the error goes to the model; it may call again.
CallReturns(c) ==
  /\ call[c].at \in {"done", "failed", "refused"}
  /\ CallGoes(c, "idle", Nil)
  /\ UNCHANGED <<serverUp, known, held, opened, closed, disturbed, restarts, callFaults>>

McpSessionNext ==
  \/ ServerStops \/ ServerReturns
  \/ \E c \in Callers :
       \/ HolderCall(c) \/ CallTool(c) \/ CallToolFails(c)
       \/ Reconnect(c) \/ ReadsReplaced(c) \/ CallReturns(c)

McpSessionSpec == McpSessionInit /\ [][McpSessionNext]_mcpVars

CallPlaces == {"idle", "first", "lost", "nil", "renewed", "replaced", "again",
               "done", "failed", "refused", "panics"}

McpSessionTypeOK ==
  /\ serverUp \in BOOLEAN
  /\ opened \in Nat /\ known \subseteq 1..opened /\ closed \subseteq 1..opened
  /\ held \in 0..opened
  /\ call \in [Callers -> [at : CallPlaces, sess : Nat]]
  /\ disturbed \subseteq Callers

(* A tool call whose session was lost fails only when the server or another  *)
(* caller took its replacement away again: otherwise reconnecting once is    *)
(* enough; and no session is left open that nobody holds (mcp.go).           *)
FailsOnlyIfDisturbed ==
  /\ \A c \in Callers : call[c].at \in {"failed", "panics"} => c \in disturbed
  /\ 1..opened \subseteq closed \cup {held}
=============================================================================
