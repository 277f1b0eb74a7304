---------------------------- MODULE ServiceProofs -----------------------------
(***************************************************************************)
(* Proofs about the services around the engine: the registry of MCP servers  *)
(* and the sessions of one, the staging and promotion of improvements, the   *)
(* ingestion of attachments, the event stream and the rate limiters, for     *)
(* every number of servers, callers, workflows, files, events and requests.  *)
(***************************************************************************)
EXTENDS McpSession, McpRegistry, Improvements, Attachments, EventStream, RateLimiter,
        FiniteSetTheorems, SequenceTheorems, DataLemmas

-----------------------------------------------------------------------------
(* Sessions (McpSession).                                                    *)

\* A caller that nobody has disturbed since it replaced its session waits to use
\* the session the holder has, and that session is alive; the holder never keeps
\* a session it has closed, and closes all the others.
SessionInv ==
  /\ McpSessionTypeOK
  /\ held \notin closed
  /\ \A c \in Callers \ disturbed :
       call[c].at \in {"renewed", "replaced", "again"} => call[c].sess = held /\ held \in known
  /\ FailsOnlyIfDisturbed

LEMMA SessionInit == McpSessionInit => SessionInv
BY DEF McpSessionInit, SessionInv, McpSessionTypeOK, FailsOnlyIfDisturbed, CallPlaces, Nil

\* The call record of the caller that takes a step, and of the others.
LEMMA CallGone ==
  ASSUME call \in [Callers -> [at : CallPlaces, sess : Nat]], NEW c \in Callers,
         NEW at \in CallPlaces, NEW sess \in Nat, CallGoes(c, at, sess)
  PROVE  /\ call' \in [Callers -> [at : CallPlaces, sess : Nat]]
         /\ call'[c].at = at /\ call'[c].sess = sess
         /\ \A d \in Callers \ {c} : call'[d] = call[d]
BY DEF CallGoes

LEMMA SessionStep == SessionInv /\ [McpSessionNext]_mcpVars => SessionInv'
<1> SUFFICES ASSUME SessionInv, [McpSessionNext]_mcpVars PROVE SessionInv'
  OBVIOUS
<1> USE DEF SessionInv, McpSessionTypeOK, FailsOnlyIfDisturbed
<1>1. CASE ServerStops
  <2>1. \A c \in Callers \ disturbed' : call[c].at \notin {"renewed", "replaced", "again"}
    <3> SUFFICES ASSUME NEW c \in Callers, c \notin disturbed',
                        call[c].at \in {"renewed", "replaced", "again"}
                 PROVE  FALSE
      OBVIOUS
    <3>1. c \notin disturbed /\ c \notin UNION {Retrying(s) : s \in known}
      BY <1>1 DEF ServerStops
    <3>2. call[c].sess = held /\ held \in known
      BY <3>1
    <3>3. c \in Retrying(held)
      BY <3>2 DEF Retrying
    <3> QED BY <3>1, <3>2, <3>3
  <2>2. disturbed' \subseteq Callers /\ disturbed \subseteq disturbed'
    BY <1>1 DEF ServerStops, Retrying
  <2> QED BY <1>1, <2>1, <2>2 DEF ServerStops
<1>2. CASE ServerReturns
  BY <1>2 DEF ServerReturns
<1>3. ASSUME NEW c \in Callers, HolderCall(c) PROVE SessionInv'
  <2> DEFINE at == IF held = Nil THEN "nil" ELSE "first"
  <2>1. at \in CallPlaces /\ at \notin {"renewed", "replaced", "again", "failed", "panics"} /\ held \in Nat
    BY DEF CallPlaces
  <2>2. CallGoes(c, at, held)
    BY <1>3 DEF HolderCall
  <2> HIDE DEF at
  <2> QED BY <1>3, <2>1, <2>2, CallGone DEF HolderCall
<1>4. ASSUME NEW c \in Callers, CallTool(c) PROVE SessionInv'
  <2> DEFINE at == IF Alive(call[c].sess) THEN "done" ELSE IF call[c].at = "first" THEN "lost" ELSE "failed"
  <2>1. at \in CallPlaces /\ at \notin {"renewed", "replaced", "again", "panics"} /\ call[c].sess \in Nat
    BY DEF CallPlaces
  <2>2. CallGoes(c, at, call[c].sess)
    BY <1>4 DEF CallTool
  <2>3. at = "failed" => c \in disturbed
    BY <1>4 DEF CallTool, Alive
  <2> HIDE DEF at
  <2> QED BY <1>4, <2>1, <2>2, <2>3, CallGone DEF CallTool
<1>5. ASSUME NEW c \in Callers, CallToolFails(c) PROVE SessionInv'
  <2>1. "refused" \in CallPlaces /\ call[c].sess \in Nat
    BY DEF CallPlaces
  <2> QED BY <1>5, <2>1, CallGone DEF CallToolFails
<1>6. ASSUME NEW c \in Callers, Reconnect(c) PROVE SessionInv'
  <2>1. closed' = closed \cup ({held} \ {Nil}) /\ 1..opened \subseteq closed'
    BY <1>6 DEF Reconnect, Nil
  <2>2. \A d \in Callers \ {c} : d \notin disturbed' =>
           call[d].at \notin {"renewed", "replaced", "again", "failed", "panics"}
    BY <1>6 DEF Reconnect, Retrying
  <2>3. disturbed' \subseteq Callers
    BY <1>6 DEF Reconnect, Retrying
  <2>4. CASE serverUp
    <3> DEFINE at == IF call[c].at = "lost" THEN "replaced" ELSE "renewed"
    <3>1. at \in CallPlaces /\ at \notin {"failed", "panics"} /\ opened + 1 \in Nat
      BY DEF CallPlaces
    <3>2. CallGoes(c, at, opened + 1)
      BY <1>6, <2>4 DEF Reconnect
    <3>3. opened' = opened + 1 /\ held' = opened + 1 /\ known' = known \cup {opened + 1}
      BY <1>6, <2>4 DEF Reconnect, KeepsNew
    <3>4. 1..opened' = (1..opened) \cup {opened'}
      BY <3>3
    <3>5. /\ known' \subseteq 1..opened' /\ closed' \subseteq 1..opened /\ closed' \subseteq 1..opened'
          /\ held' \notin closed' /\ held' \in 0..opened' /\ held' \in known'
      BY <2>1, <3>3, <3>4 DEF Nil
    <3> HIDE DEF at
    <3>6. /\ call' \in [Callers -> [at : CallPlaces, sess : Nat]]
          /\ call'[c].at = at /\ call'[c].sess = opened + 1
          /\ \A d \in Callers \ {c} : call'[d] = call[d]
      BY <3>1, <3>2, CallGone
    <3> QED BY <1>6, <2>1, <2>2, <2>3, <3>1, <3>3, <3>4, <3>5, <3>6 DEF Reconnect
  <2>5. CASE ~serverUp
    <3>1. held' = Nil /\ opened' = opened /\ known' = known /\ c \in disturbed' /\ CallGoes(c, "failed", Nil)
      BY <1>6, <2>5 DEF Reconnect
    <3>2. "failed" \in CallPlaces /\ Nil \in Nat
      BY DEF CallPlaces, Nil
    <3>3. held' \notin closed' /\ held' \in 0..opened' /\ closed' \subseteq 1..opened'
      BY <2>1, <3>1 DEF Nil
    <3>4. /\ call' \in [Callers -> [at : CallPlaces, sess : Nat]]
          /\ \A d \in Callers \ {c} : call'[d] = call[d]
      BY <3>1, <3>2, CallGone
    <3> QED BY <1>6, <2>1, <2>2, <2>3, <3>1, <3>3, <3>4 DEF Reconnect
  <2> QED BY <2>4, <2>5
<1>7. ASSUME NEW c \in Callers, ReadsReplaced(c) PROVE SessionInv'
  <2> DEFINE at == IF held = Nil THEN "panics" ELSE IF call[c].at = "renewed" THEN "first" ELSE "again"
  <2>1. at \in CallPlaces /\ at \notin {"renewed", "replaced", "failed"} /\ held \in Nat
    BY DEF CallPlaces
  <2>2. CallGoes(c, at, held)
    BY <1>7 DEF ReadsReplaced
  <2>3. c \notin disturbed => held \in known /\ at # "panics"
    BY <1>7 DEF ReadsReplaced, Nil
  <2> HIDE DEF at
  <2> QED BY <1>7, <2>1, <2>2, <2>3, CallGone DEF ReadsReplaced
<1>8. ASSUME NEW c \in Callers, CallReturns(c) PROVE SessionInv'
  <2>1. "idle" \in CallPlaces /\ Nil \in Nat
    BY DEF CallPlaces, Nil
  <2> QED BY <1>8, <2>1, CallGone DEF CallReturns
<1>9. CASE UNCHANGED mcpVars
  BY <1>9 DEF mcpVars
<1> QED BY <1>1, <1>2, <1>3, <1>4, <1>5, <1>6, <1>7, <1>8, <1>9 DEF McpSessionNext

\* However many tools are called at once and however often the server forgets
\* its sessions, a call fails for a lost session only when its replacement was
\* taken away again, and every session but the one held has been closed.
THEOREM SessionsReplaced == McpSessionSpec => []FailsOnlyIfDisturbed
<1>1. SessionInv => FailsOnlyIfDisturbed
  BY DEF SessionInv
<1> QED BY <1>1, SessionInit, SessionStep, PTL DEF McpSessionSpec

-----------------------------------------------------------------------------
(* The registry of MCP servers (McpRegistry).                                *)

ActorPlaces == {"idle", "reconnect", "connect", "list", "apply", "resolve", "resolved", "unresolved"}
Busy == {"connect", "list", "apply"}

\* While the loader has servers to visit, it is the only one that acts, and it
\* visits none that is connected.
LoaderFirst ==
  \/ Started
  \/ /\ \A a \in Actors \ {"loader"} : actor[a].at = "idle"
     /\ todo \cap connected = {}
     /\ actor["loader"].at \in Busy => actor["loader"].server \notin todo \cup connected

\* Tools that are registered are those of a server that is connected, that somebody
\* is connecting to, or whose connection broke after they were registered.
RegistrationExplained ==
  \A s \in registered :
    s \in partial \/ s \in connected \/ \E a \in Actors : actor[a].server = s /\ actor[a].at \in {"list", "apply"}

EntriesBacked == connected \subseteq advertised /\ advertised \subseteq registered

ActorShape ==
  /\ actor \in [Actors -> [at : ActorPlaces, server : Servers \cup {NoServer}, attempt : 0..MaxAttempts]]
  /\ \A a \in Actors : actor[a].at \notin {"idle", "resolved", "unresolved"} => actor[a].server \in Servers
  /\ \A a \in Actors : actor[a].at \in {"list", "apply"} => actor[a].server \in registered
  /\ actor["loader"].at \in Busy \cup {"idle"}

RegistryInv ==
  /\ McpRegistryTypeOK /\ ActorShape /\ LoaderFirst
  /\ RegistrationExplained /\ EntriesBacked /\ PanicExplained

LEMMA RegistryStarts == McpRegistryInit => RegistryInv
<1> SUFFICES ASSUME McpRegistryInit PROVE RegistryInv
  OBVIOUS
<1>1. "loader" \in Actors /\ 0 \in 0..MaxAttempts
  BY McpRegistryAssumption DEF Actors
<1>2. actor \in [Actors -> [at : ActorPlaces, server : Servers \cup {NoServer}, attempt : 0..MaxAttempts]]
  BY <1>1 DEF McpRegistryInit, ActorPlaces
<1>3. \A a \in Actors : actor[a].at = "idle" /\ actor[a].attempt = 0
  BY DEF McpRegistryInit
<1>4. ActorShape
  BY <1>1, <1>2, <1>3 DEF ActorShape
<1>5. McpRegistryTypeOK
  BY <1>1, <1>3 DEF McpRegistryInit, McpRegistryTypeOK
<1>6. LoaderFirst /\ RegistrationExplained /\ EntriesBacked /\ PanicExplained
  BY <1>1, <1>3 DEF McpRegistryInit, LoaderFirst, RegistrationExplained, EntriesBacked, PanicExplained, Busy
<1> QED BY <1>4, <1>5, <1>6 DEF RegistryInv

\* What a step of an actor does to the actors.
LEMMA ActorGone ==
  ASSUME ActorShape, NEW a \in Actors, NEW place \in ActorPlaces, NEW s \in Servers \cup {NoServer},
         NEW n \in 0..MaxAttempts, ActorGoes(a, place, s, n)
  PROVE  /\ actor' \in [Actors -> [at : ActorPlaces, server : Servers \cup {NoServer}, attempt : 0..MaxAttempts]]
         /\ actor'[a].at = place /\ actor'[a].server = s /\ actor'[a].attempt = n
         /\ \A b \in Actors \ {a} : actor'[b] = actor[b]
BY DEF ActorGoes, ActorShape

\* Only one actor moves.
Moves(a, place, s, n) ==
  /\ actor' \in [Actors -> [at : ActorPlaces, server : Servers \cup {NoServer}, attempt : 0..MaxAttempts]]
  /\ actor'[a].at = place /\ actor'[a].server = s /\ actor'[a].attempt = n
  /\ \A b \in Actors \ {a} : actor'[b] = actor[b]

LEMMA MovesIntro ==
  ASSUME ActorShape, NEW a \in Actors, NEW place \in ActorPlaces, NEW s \in Servers \cup {NoServer},
         NEW n \in 0..MaxAttempts, ActorGoes(a, place, s, n)
  PROVE  Moves(a, place, s, n)
BY ActorGone DEF Moves

\* The actors are as they should be after a step of one of them.
LEMMA ActorShapeKept ==
  ASSUME RegistryInv, NEW a \in Actors, NEW place \in ActorPlaces, NEW s \in Servers \cup {NoServer},
         NEW n \in 0..MaxAttempts, Moves(a, place, s, n),
         place \notin {"idle", "resolved", "unresolved"} => s \in Servers,
         place \in {"list", "apply"} => s \in registered',
         a = "loader" => place \in Busy \cup {"idle"},
         registered \subseteq registered'
  PROVE  ActorShape' /\ \A b \in Actors : actor'[b].attempt \in 0..MaxAttempts
<1>1. ActorShape
  BY DEF RegistryInv
<1>2. ASSUME NEW b \in Actors
      PROVE  /\ actor'[b].at \notin {"idle", "resolved", "unresolved"} => actor'[b].server \in Servers
             /\ actor'[b].at \in {"list", "apply"} => actor'[b].server \in registered'
             /\ actor'[b].attempt \in 0..MaxAttempts
  <2>1. CASE b = a
    BY <2>1 DEF Moves
  <2>2. CASE b # a
    BY <1>1, <2>2 DEF Moves, ActorShape
  <2> QED BY <2>1, <2>2
<1>3. actor'["loader"].at \in Busy \cup {"idle"}
  <2>1. "loader" \in Actors
    BY DEF Actors
  <2> QED BY <1>1, <2>1 DEF Moves, ActorShape
<1> QED BY <1>2, <1>3 DEF Moves, ActorShape

\* An actor that neither lists, applies nor gives up leaves what is explained.
LEMMA ExplainedKept ==
  ASSUME RegistryInv, NEW a \in Actors, NEW place, NEW s, NEW n, Moves(a, place, s, n),
         actor[a].at \notin {"list", "apply"},
         registered' = registered, connected' = connected, partial' = partial
  PROVE  RegistrationExplained'
<1> SUFFICES ASSUME NEW r \in registered
             PROVE  r \in partial \/ r \in connected \/ \E b \in Actors : actor'[b].server = r /\ actor'[b].at \in {"list", "apply"}
  BY DEF RegistrationExplained
<1>1. r \in partial \/ r \in connected \/ \E b \in Actors : actor[b].server = r /\ actor[b].at \in {"list", "apply"}
  BY DEF RegistryInv, RegistrationExplained
<1>2. ASSUME NEW b \in Actors, actor[b].server = r, actor[b].at \in {"list", "apply"}
      PROVE  actor'[b].server = r /\ actor'[b].at \in {"list", "apply"}
  <2>1. b # a
    BY <1>2
  <2> QED BY <1>2, <2>1 DEF Moves
<1> QED BY <1>1, <1>2

\* A step that leaves the entries and the registered tools alone, of an actor that
\* is not between registering and applying.
LEMMA QuietActor ==
  ASSUME RegistryInv, ~crashed, NEW a \in Actors, NEW place \in ActorPlaces, NEW s \in Servers \cup {NoServer},
         NEW n \in 0..MaxAttempts, ActorGoes(a, place, s, n), actor[a].at \notin {"list", "apply"},
         place \notin {"list", "apply"},
         place \notin {"idle", "resolved", "unresolved"} => s \in Servers,
         a # "loader" /\ Started,
         UNCHANGED <<up, connected, advertised, registered, required, todo, crashed, partial>>,
         lastErr' \subseteq Servers, visited' \subseteq Servers
  PROVE  RegistryInv'
<1>1. Moves(a, place, s, n) /\ ActorShape /\ McpRegistryTypeOK /\ EntriesBacked
  BY MovesIntro DEF RegistryInv
<1>2. ActorShape' /\ \A b \in Actors : actor'[b].attempt \in 0..MaxAttempts
  BY <1>1, ActorShapeKept
<1>3. McpRegistryTypeOK'
  BY <1>1, <1>2 DEF McpRegistryTypeOK
<1>4. "loader" \in Actors
  BY DEF Actors
<1>5. LoaderFirst'
  BY <1>1, <1>4 DEF LoaderFirst, Started, Moves
<1>6. RegistrationExplained'
  BY <1>1, ExplainedKept
<1>7. EntriesBacked' /\ PanicExplained'
  BY <1>1 DEF EntriesBacked, PanicExplained
<1> QED BY <1>2, <1>3, <1>5, <1>6, <1>7 DEF RegistryInv

\* Whoever is not the loader acts when the loader is through.
LEMMA OthersWait ==
  ASSUME RegistryInv, NEW a \in Actors, a # "loader", actor[a].at # "idle"
  PROVE  Started
BY DEF RegistryInv, LoaderFirst

LEMMA AfterIsPlace == ASSUME NEW a PROVE After(a) \in ActorPlaces \ Busy /\ (After(a) # "idle" => a \in Runs)
BY DEF After, ActorPlaces, Busy

LEMMA ResolvingStep ==
  ASSUME RegistryInv, NEW a \in Actors, NEW s,
         \/ s \in Servers /\ ProbeServer(s)
         \/ s \in Servers /\ a \in Runs /\ ResolveStarts(a, s)
         \/ a \in Runs /\ (Resolve(a) \/ ResolveAgain(a))
         \/ MaybeReconnect(a)
  PROVE  RegistryInv'
<1>0. 0 \in 0..MaxAttempts /\ 1 \in 0..MaxAttempts /\ "loader" \notin Runs
      /\ "loader" \in Actors /\ "probe" \in Actors /\ "probe" # "loader"
  BY McpRegistryAssumption DEF Actors
<1>1. /\ ActorShape /\ McpRegistryTypeOK
      /\ actor[a].at \notin {"idle", "resolved", "unresolved"} => actor[a].server \in Servers
      /\ actor["loader"].at \in Busy \cup {"idle"}
  BY DEF RegistryInv, ActorShape
<1>2. CASE s \in Servers /\ ProbeServer(s)
  <2>1. /\ Started /\ ~crashed /\ actor["probe"].at = "idle"
        /\ UNCHANGED <<up, connected, advertised, registered, required, todo, crashed, partial>>
        /\ visited' \subseteq Servers /\ lastErr' \subseteq Servers
        /\ ActorGoes("probe", "reconnect", s, 0) \/ UNCHANGED actor
    BY <1>1, <1>2 DEF ProbeServer, At, McpRegistryTypeOK
  <2>2. CASE ActorGoes("probe", "reconnect", s, 0)
    BY <1>0, <1>2, <2>1, <2>2, QuietActor DEF ActorPlaces
  <2>3. CASE UNCHANGED actor
    <3>0. McpRegistryTypeOK'
      BY <1>1, <2>1, <2>3 DEF McpRegistryTypeOK
    <3>1. ActorShape' /\ LoaderFirst'
      BY <1>1, <2>1, <2>3 DEF ActorShape, LoaderFirst, Started
    <3>2. RegistrationExplained' /\ EntriesBacked'
      BY <2>1, <2>3 DEF RegistryInv, RegistrationExplained, EntriesBacked
    <3>3. PanicExplained'
      BY <2>1 DEF PanicExplained
    <3> QED BY <3>0, <3>1, <3>2, <3>3 DEF RegistryInv
  <2> QED BY <2>1, <2>2, <2>3
<1>3. CASE s \in Servers /\ a \in Runs /\ ResolveStarts(a, s)
  <2>1. /\ Started /\ ~crashed /\ actor[a].at = "idle" /\ ActorGoes(a, "reconnect", s, 0)
        /\ UNCHANGED <<up, connected, advertised, lastErr, registered, required, todo, visited, crashed, partial>>
    BY <1>3 DEF ResolveStarts, At, entryVars
  <2> QED BY <1>0, <1>1, <1>3, <2>1, QuietActor DEF ActorPlaces, McpRegistryTypeOK
<1>4. CASE a \in Runs /\ Resolve(a)
  <2>1. PICK place \in {"resolved", "unresolved"} : ActorGoes(a, place, actor[a].server, 0)
    BY <1>4 DEF Resolve
  <2>2. /\ ~crashed /\ actor[a].at = "resolve"
        /\ UNCHANGED <<up, connected, advertised, lastErr, registered, required, todo, visited, crashed, partial>>
    BY <1>4 DEF Resolve, At, entryVars
  <2>3. a # "loader" /\ Started
    BY <1>0, <1>4, <2>2, OthersWait
  <2> QED BY <1>0, <1>1, <2>1, <2>2, <2>3, QuietActor DEF ActorPlaces, McpRegistryTypeOK
<1>5. CASE a \in Runs /\ ResolveAgain(a)
  <2>1. /\ ~crashed /\ actor[a].at \in {"resolved", "unresolved"} /\ ActorGoes(a, "idle", NoServer, 0)
        /\ UNCHANGED <<up, connected, advertised, lastErr, registered, required, todo, visited, crashed, partial>>
    BY <1>5 DEF ResolveAgain, entryVars
  <2>2. a # "loader" /\ Started
    BY <1>0, <1>5, <2>1, OthersWait
  <2>3. NoServer \in Servers \cup {NoServer}
    OBVIOUS
  <2> QED BY <1>0, <1>1, <2>1, <2>2, <2>3, QuietActor DEF ActorPlaces, McpRegistryTypeOK
<1>6. CASE MaybeReconnect(a)
  <2>1. /\ ~crashed /\ actor[a].at = "reconnect"
        /\ UNCHANGED <<up, connected, advertised, lastErr, registered, required, todo, visited, crashed, partial>>
        /\ ActorGoes(a, After(a), actor[a].server, 0) \/ ActorGoes(a, "connect", actor[a].server, 1)
    BY <1>6 DEF MaybeReconnect, At, entryVars
  <2>2. a # "loader" /\ Started
    BY <1>1, <2>1, OthersWait DEF Busy
  <2>3. actor[a].server \in Servers
    BY <1>1, <2>1
  <2>4. CASE ActorGoes(a, After(a), actor[a].server, 0)
    BY <1>0, <1>1, <2>1, <2>2, <2>3, <2>4, AfterIsPlace, QuietActor DEF Busy, McpRegistryTypeOK
  <2>5. CASE ActorGoes(a, "connect", actor[a].server, 1)
    BY <1>0, <1>1, <2>1, <2>2, <2>3, <2>5, QuietActor DEF ActorPlaces, McpRegistryTypeOK
  <2> QED BY <2>1, <2>4, <2>5
<1> QED BY <1>2, <1>3, <1>4, <1>5, <1>6

LEMMA LoadServerStep == ASSUME RegistryInv, NEW s \in Servers, LoadServer(s) PROVE RegistryInv'
<1>0. 1 \in 0..MaxAttempts /\ "loader" \in Actors /\ "connect" \in ActorPlaces
  BY McpRegistryAssumption DEF Actors, ActorPlaces
<1>1. /\ actor["loader"].at = "idle" /\ ~crashed /\ s \in todo /\ todo' = todo \ {s}
      /\ ActorGoes("loader", "connect", s, 1)
      /\ UNCHANGED <<up, connected, advertised, lastErr, registered, required, visited, crashed, partial>>
  BY DEF LoadServer, At, entryVars
<1>2. /\ ActorShape /\ McpRegistryTypeOK /\ EntriesBacked /\ ~Started
      /\ \A a \in Actors \ {"loader"} : actor[a].at = "idle"
      /\ todo \cap connected = {}
  BY <1>1 DEF RegistryInv, LoaderFirst, Started
<1>3. Moves("loader", "connect", s, 1)
  BY <1>0, <1>1, <1>2, MovesIntro
<1>4. ActorShape' /\ \A b \in Actors : actor'[b].attempt \in 0..MaxAttempts
  BY <1>0, <1>1, <1>3, ActorShapeKept DEF Busy
<1>5. McpRegistryTypeOK'
  BY <1>1, <1>2, <1>4 DEF McpRegistryTypeOK
<1>6. LoaderFirst'
  BY <1>1, <1>2, <1>3 DEF LoaderFirst, Moves, Busy
<1>7. RegistrationExplained'
  BY <1>0, <1>1, <1>3, ExplainedKept
<1>8. EntriesBacked' /\ PanicExplained'
  BY <1>1, <1>2 DEF EntriesBacked, PanicExplained
<1> QED BY <1>4, <1>5, <1>6, <1>7, <1>8 DEF RegistryInv

\* While an actor is connecting, the loader is through or it is the loader; so the
\* loader stays first when the actor takes a next place without adding a connection.
LEMMA LoaderStaysFirst ==
  ASSUME RegistryInv, NEW a \in Actors, actor[a].at \in Busy, NEW place, NEW n,
         Moves(a, place, actor[a].server, n), todo' = todo,
         connected' \subseteq connected \/ (place \notin Busy /\ connected' \subseteq connected \cup {actor[a].server}),
         a = "loader" => place \in Busy \cup {"idle"}
  PROVE  LoaderFirst'
<1>1. "loader" \in Actors
  BY DEF Actors
<1>2. CASE a # "loader"
  <2>1. Started
    BY <1>2, OthersWait DEF Busy
  <2> QED BY <1>1, <1>2, <2>1 DEF Started, LoaderFirst, Moves
<1>3. CASE a = "loader"
  <2>1. ~Started
    BY <1>3 DEF Started, Busy
  <2>2. /\ \A b \in Actors \ {"loader"} : actor[b].at = "idle"
        /\ todo \cap connected = {} /\ actor["loader"].server \notin todo \cup connected
    BY <1>3, <2>1 DEF RegistryInv, LoaderFirst
  <2>3. \A b \in Actors \ {"loader"} : actor'[b].at = "idle"
    BY <1>3, <2>2 DEF Moves
  <2>4. todo' \cap connected' = {}
    BY <1>3, <2>2
  <2>5. actor'["loader"].at \in Busy => actor'["loader"].server \notin todo' \cup connected'
    BY <1>3, <2>2 DEF Moves
  <2> QED BY <2>3, <2>4, <2>5 DEF LoaderFirst
<1> QED BY <1>2, <1>3

LEMMA LoadToolsStep == ASSUME RegistryInv, NEW a \in Actors, LoadTools(a) PROVE RegistryInv'
<1>0. PICK s : s = actor[a].server
  OBVIOUS
<1>1. /\ actor[a].at = "connect" /\ ~crashed /\ crashed' = (s \in registered)
      /\ registered' = registered \cup {s} /\ ActorGoes(a, "list", s, actor[a].attempt)
      /\ UNCHANGED <<up, connected, advertised, lastErr, required, todo, visited, partial>>
  BY <1>0 DEF LoadTools, At, Register, entryVars
<1>2. /\ ActorShape /\ McpRegistryTypeOK /\ EntriesBacked /\ RegistrationExplained
      /\ s \in Servers /\ actor[a].attempt \in 0..MaxAttempts /\ "list" \in ActorPlaces
  BY <1>0, <1>1 DEF RegistryInv, ActorShape, McpRegistryTypeOK, ActorPlaces
<1>3. Moves(a, "list", s, actor[a].attempt)
  BY <1>1, <1>2, MovesIntro
<1>4. ActorShape' /\ \A b \in Actors : actor'[b].attempt \in 0..MaxAttempts
  BY <1>1, <1>2, <1>3, ActorShapeKept DEF Busy
<1>5. McpRegistryTypeOK'
  BY <1>1, <1>2, <1>4 DEF McpRegistryTypeOK
<1>6. LoaderFirst'
  BY <1>0, <1>1, <1>3, LoaderStaysFirst DEF Busy
<1>7. \A b \in Actors : actor[b].at \in {"list", "apply"} => b # a /\ actor'[b] = actor[b]
  BY <1>1, <1>3 DEF Moves
<1>8. RegistrationExplained'
  <2> SUFFICES ASSUME NEW r \in registered'
               PROVE  r \in partial \/ r \in connected \/ \E b \in Actors : actor'[b].server = r /\ actor'[b].at \in {"list", "apply"}
    BY <1>1 DEF RegistrationExplained
  <2>1. CASE r = s
    BY <1>3, <2>1 DEF Moves
  <2>2. CASE r # s
    <3>1. r \in registered
      BY <1>1, <2>2
    <3>2. r \in partial \/ r \in connected \/ \E b \in Actors : actor[b].server = r /\ actor[b].at \in {"list", "apply"}
      BY <1>2, <3>1 DEF RegistrationExplained
    <3> QED BY <1>7, <3>2
  <2> QED BY <2>1, <2>2
<1>9. EntriesBacked'
  BY <1>1, <1>2 DEF EntriesBacked
<1>10. PanicExplained'
  <2> SUFFICES ASSUME s \in registered, s \notin partial, s \notin connected
               PROVE  \E x, y \in Connecting(s)' : x # y
    BY <1>1, <1>2 DEF PanicExplained
  <2>0. s \in partial \/ s \in connected \/ \E b \in Actors : actor[b].server = s /\ actor[b].at \in {"list", "apply"}
    BY <1>2 DEF RegistrationExplained
  <2>1. PICK b \in Actors : actor[b].server = s /\ actor[b].at \in {"list", "apply"}
    BY <2>0
  <2>2. b # a /\ actor'[b].server = s /\ actor'[b].at \in {"list", "apply"}
    BY <1>7, <2>1
  <2>3. actor'[a].server = s /\ actor'[a].at = "list"
    BY <1>3 DEF Moves
  <2>4. a \in Connecting(s)' /\ b \in Connecting(s)'
    BY <2>2, <2>3 DEF Connecting
  <2> QED BY <2>2, <2>4
<1> QED BY <1>4, <1>5, <1>6, <1>8, <1>9, <1>10 DEF RegistryInv

LEMMA ListToolsStep == ASSUME RegistryInv, NEW a \in Actors, ListTools(a) PROVE RegistryInv'
<1> DEFINE s == actor[a].server
<1>1. /\ actor[a].at = "list" /\ ~crashed /\ ActorGoes(a, "apply", s, 0)
      /\ UNCHANGED <<up, connected, advertised, lastErr, registered, required, todo, visited, crashed, partial>>
  BY DEF ListTools, At, entryVars
<1>2. /\ ActorShape /\ McpRegistryTypeOK /\ EntriesBacked /\ RegistrationExplained
      /\ s \in Servers /\ s \in registered /\ "apply" \in ActorPlaces /\ 0 \in 0..MaxAttempts
  BY <1>1, McpRegistryAssumption DEF RegistryInv, ActorShape, McpRegistryTypeOK, ActorPlaces
<1>3. Moves(a, "apply", s, 0)
  BY <1>1, <1>2, MovesIntro
<1>4. ActorShape' /\ \A b \in Actors : actor'[b].attempt \in 0..MaxAttempts
  BY <1>1, <1>2, <1>3, ActorShapeKept DEF Busy
<1>5. McpRegistryTypeOK'
  BY <1>1, <1>2, <1>4 DEF McpRegistryTypeOK
<1>6. LoaderFirst'
  BY <1>1, <1>3, LoaderStaysFirst DEF Busy
<1>7. RegistrationExplained'
  <2>1. ASSUME NEW b \in Actors, actor[b].at \in {"list", "apply"}
        PROVE  actor'[b].server = actor[b].server /\ actor'[b].at \in {"list", "apply"}
    <3>1. CASE b = a
      BY <1>3, <3>1 DEF Moves
    <3>2. CASE b # a
      BY <1>3, <2>1, <3>2 DEF Moves
    <3> QED BY <3>1, <3>2
  <2> QED BY <1>1, <1>2, <2>1 DEF RegistrationExplained
<1>8. EntriesBacked' /\ PanicExplained'
  BY <1>1, <1>2 DEF EntriesBacked, PanicExplained
<1> QED BY <1>4, <1>5, <1>6, <1>7, <1>8 DEF RegistryInv

LEMMA ConnectFailsStep == ASSUME RegistryInv, NEW a \in Actors, ConnectFails(a) PROVE RegistryInv'
<1> DEFINE s == actor[a].server
           n == actor[a].attempt
<1>1. /\ actor[a].at \in {"connect", "list"} /\ ~crashed
      /\ partial' = IF actor[a].at = "list" THEN partial \cup {s} ELSE partial
      /\ \/ n < MaxAttempts /\ ActorGoes(a, "connect", s, n + 1) /\ connected' = connected /\ lastErr' = lastErr
         \/ /\ ActorGoes(a, After(a), s, 0) /\ lastErr' = lastErr \cup {s}
            /\ connected' = IF a = "loader" THEN connected \ {s} ELSE connected
      /\ UNCHANGED <<up, advertised, registered, required, todo, visited, crashed>>
  BY DEF ConnectFails, GivesUp, entryVars
<1>2. /\ ActorShape /\ McpRegistryTypeOK /\ EntriesBacked /\ RegistrationExplained
      /\ s \in Servers /\ n \in 0..MaxAttempts /\ 0 \in 0..MaxAttempts
      /\ actor[a].at = "list" => s \in registered
  BY <1>1, McpRegistryAssumption DEF RegistryInv, ActorShape, McpRegistryTypeOK
<1>3. connected' = connected
  <2>1. CASE a = "loader"
    <3>1. ~Started
      BY <1>1, <2>1 DEF Started
    <3>2. s \notin connected
      BY <1>1, <2>1, <3>1 DEF RegistryInv, LoaderFirst, Busy
    <3> QED BY <1>1, <3>2
  <2>2. CASE a # "loader"
    BY <1>1, <2>2
  <2> QED BY <2>1, <2>2
<1>4. PICK place \in ActorPlaces, m \in 0..MaxAttempts :
        /\ ActorGoes(a, place, s, m) /\ place \notin {"list", "apply"}
        /\ a = "loader" => place \in Busy \cup {"idle"}
  <2>1. CASE n < MaxAttempts /\ ActorGoes(a, "connect", s, n + 1)
    <3>1. n + 1 \in 0..MaxAttempts /\ "connect" \in ActorPlaces /\ "connect" \in Busy
      BY <1>2, <2>1, McpRegistryAssumption DEF ActorPlaces, Busy
    <3> QED BY <2>1, <3>1
  <2>2. CASE ActorGoes(a, After(a), s, 0)
    <3>1. a = "loader" => After(a) = "idle"
      BY AfterIsPlace, McpRegistryAssumption
    <3>2. After(a) \in ActorPlaces /\ After(a) \notin {"list", "apply"}
      BY AfterIsPlace DEF Busy
    <3> QED BY <1>2, <2>2, <3>1, <3>2
  <2> QED BY <1>1, <2>1, <2>2
<1>5. Moves(a, place, s, m)
  BY <1>2, <1>4, MovesIntro
<1>6. ActorShape' /\ \A b \in Actors : actor'[b].attempt \in 0..MaxAttempts
  BY <1>1, <1>2, <1>4, <1>5, ActorShapeKept
<1>7. McpRegistryTypeOK'
  <2>1. lastErr' \subseteq Servers /\ partial' \subseteq registered
    BY <1>1, <1>2 DEF McpRegistryTypeOK
  <2> QED BY <1>1, <1>2, <1>3, <1>6, <2>1 DEF McpRegistryTypeOK
<1>8. LoaderFirst'
  BY <1>1, <1>3, <1>4, <1>5, LoaderStaysFirst DEF Busy
<1>9. RegistrationExplained'
  <2> SUFFICES ASSUME NEW r \in registered
               PROVE  r \in partial' \/ r \in connected \/ \E b \in Actors : actor'[b].server = r /\ actor'[b].at \in {"list", "apply"}
    BY <1>1, <1>3 DEF RegistrationExplained
  <2>1. r \in partial \/ r \in connected \/ \E b \in Actors : actor[b].server = r /\ actor[b].at \in {"list", "apply"}
    BY <1>2 DEF RegistrationExplained
  <2>2. partial \subseteq partial'
    BY <1>1
  <2>3. ASSUME NEW b \in Actors, actor[b].server = r, actor[b].at \in {"list", "apply"}
        PROVE  r \in partial' \/ (actor'[b].server = r /\ actor'[b].at \in {"list", "apply"})
    <3>1. CASE b = a
      BY <1>1, <2>3, <3>1
    <3>2. CASE b # a
      BY <1>5, <2>3, <3>2 DEF Moves
    <3> QED BY <3>1, <3>2
  <2> QED BY <2>1, <2>2, <2>3
<1>10. EntriesBacked' /\ PanicExplained'
  BY <1>1, <1>2, <1>3 DEF EntriesBacked, PanicExplained
<1> QED BY <1>6, <1>7, <1>8, <1>9, <1>10 DEF RegistryInv

LEMMA ApplyStep == ASSUME RegistryInv, NEW a \in Actors, applyConnectedSession(a) PROVE RegistryInv'
<1> DEFINE s == actor[a].server
<1>1. /\ actor[a].at = "apply" /\ ~crashed /\ ActorGoes(a, After(a), s, 0)
      /\ connected' = connected \cup {s} /\ advertised' = advertised \cup {s} /\ lastErr' = lastErr \ {s}
      /\ UNCHANGED <<up, registered, required, todo, visited, crashed, partial>>
  BY DEF applyConnectedSession, At
<1>2. /\ ActorShape /\ McpRegistryTypeOK /\ EntriesBacked /\ RegistrationExplained
      /\ s \in Servers /\ s \in registered /\ 0 \in 0..MaxAttempts
  BY <1>1, McpRegistryAssumption DEF RegistryInv, ActorShape, McpRegistryTypeOK
<1>3. /\ After(a) \in ActorPlaces /\ After(a) \notin Busy
      /\ a = "loader" => After(a) \in Busy \cup {"idle"}
  BY AfterIsPlace, McpRegistryAssumption
<1>4. Moves(a, After(a), s, 0)
  BY <1>1, <1>2, <1>3, MovesIntro
<1>5. ActorShape' /\ \A b \in Actors : actor'[b].attempt \in 0..MaxAttempts
  BY <1>1, <1>2, <1>3, <1>4, ActorShapeKept DEF Busy
<1>6. McpRegistryTypeOK'
  BY <1>1, <1>2, <1>5 DEF McpRegistryTypeOK
<1>7. LoaderFirst'
  BY <1>1, <1>3, <1>4, LoaderStaysFirst DEF Busy
<1>8. RegistrationExplained'
  <2> SUFFICES ASSUME NEW r \in registered
               PROVE  r \in partial \/ r \in connected' \/ \E b \in Actors : actor'[b].server = r /\ actor'[b].at \in {"list", "apply"}
    BY <1>1 DEF RegistrationExplained
  <2>1. r \in partial \/ r \in connected \/ \E b \in Actors : actor[b].server = r /\ actor[b].at \in {"list", "apply"}
    BY <1>2 DEF RegistrationExplained
  <2>2. ASSUME NEW b \in Actors, actor[b].server = r, actor[b].at \in {"list", "apply"}
        PROVE  r \in connected' \/ (actor'[b].server = r /\ actor'[b].at \in {"list", "apply"})
    <3>1. CASE b = a
      BY <1>1, <2>2, <3>1
    <3>2. CASE b # a
      BY <1>4, <2>2, <3>2 DEF Moves
    <3> QED BY <3>1, <3>2
  <2> QED BY <1>1, <2>1, <2>2
<1>9. EntriesBacked' /\ PanicExplained'
  BY <1>1, <1>2 DEF EntriesBacked, PanicExplained
<1> QED BY <1>5, <1>6, <1>7, <1>8, <1>9 DEF RegistryInv

LEMMA RegistryStep == RegistryInv /\ [McpRegistryNext]_mrVars => RegistryInv'
<1> SUFFICES ASSUME RegistryInv, [McpRegistryNext]_mrVars PROVE RegistryInv'
  OBVIOUS
<1>1. ASSUME UNCHANGED <<connected, advertised, lastErr, registered, required, actor, todo, visited, crashed, partial>>,
             up' \subseteq Servers
      PROVE  RegistryInv'
  <2>1. McpRegistryTypeOK' /\ ActorShape' /\ LoaderFirst'
    BY <1>1 DEF RegistryInv, McpRegistryTypeOK, ActorShape, LoaderFirst, Started
  <2>2. RegistrationExplained' /\ EntriesBacked'
    BY <1>1 DEF RegistryInv, RegistrationExplained, EntriesBacked
  <2>3. PanicExplained'
    BY <1>1 DEF RegistryInv, PanicExplained, Connecting
  <2> QED BY <2>1, <2>2, <2>3 DEF RegistryInv
<1>2. ASSUME NEW s \in Servers, ServerChanges(s) PROVE RegistryInv'
  BY <1>1, <1>2 DEF ServerChanges, entryVars, RegistryInv, McpRegistryTypeOK
<1>3. ASSUME UNCHANGED mrVars PROVE RegistryInv'
  BY <1>1, <1>3 DEF mrVars, RegistryInv, McpRegistryTypeOK
<1>4. ASSUME NEW s \in Servers, LoadServer(s) PROVE RegistryInv'
  BY <1>4, LoadServerStep
<1>5. ASSUME NEW s \in Servers, ProbeServer(s) PROVE RegistryInv'
  <2>1. "probe" \in Actors
    BY DEF Actors
  <2> QED BY <1>5, <2>1, ResolvingStep
<1>6. ASSUME NEW r \in Runs, NEW s \in Servers, ResolveStarts(r, s) PROVE RegistryInv'
  <2>1. r \in Actors
    BY DEF Actors
  <2> QED BY <1>6, <2>1, ResolvingStep
<1>7. ASSUME NEW r \in Runs, Resolve(r) \/ ResolveAgain(r) PROVE RegistryInv'
  <2>1. r \in Actors
    BY DEF Actors
  <2> QED BY <1>7, <2>1, ResolvingStep
<1>8. ASSUME NEW a \in Actors, ActorNext(a) PROVE RegistryInv'
  <2>1. CASE MaybeReconnect(a)
    BY <2>1, ResolvingStep
  <2> QED BY <1>8, <2>1, LoadToolsStep, ListToolsStep, ConnectFailsStep, ApplyStep DEF ActorNext
<1> QED BY <1>2, <1>3, <1>4, <1>5, <1>6, <1>7, <1>8 DEF McpRegistryNext

LEMMA RegistryInvariant == McpRegistrySpec => []RegistryInv
BY RegistryStarts, RegistryStep, PTL DEF McpRegistrySpec

\* For any number of servers, runs, attempts and outages, and however the loader,
\* the probe loop and the runs interleave: registering a tool panics only if one of
\* its server's connections broke after it had registered them, if the server had
\* become connected since the actor looked, or if two actors are connecting to it.
THEOREM PanicsAreExplained == McpRegistrySpec => []PanicExplained
<1>1. RegistryInv => PanicExplained
  BY DEF RegistryInv
<1> QED BY <1>1, RegistryInvariant, PTL

\* A server that an entry says is connected has its tools listed in the entry and in
\* the tool registry.
THEOREM ConnectionsAreBacked == McpRegistrySpec => [](connected \subseteq advertised /\ advertised \subseteq registered)
<1>1. RegistryInv => connected \subseteq advertised /\ advertised \subseteq registered
  BY DEF RegistryInv, EntriesBacked
<1> QED BY <1>1, RegistryInvariant, PTL

\* A capability that a run has resolved is one whose tool the run can call.
ResolvesRegistered == \A r \in Runs : Resolve(r) /\ actor'[r].at = "resolved" => actor[r].server \in registered
THEOREM ResolvedIsRegistered == McpRegistrySpec => [][ResolvesRegistered]_mrVars
<1>1. RegistryInv /\ [McpRegistryNext]_mrVars => [ResolvesRegistered]_mrVars
  <2> SUFFICES ASSUME RegistryInv, NEW r \in Runs, Resolve(r), actor'[r].at = "resolved"
               PROVE  actor[r].server \in registered
    BY DEF ResolvesRegistered
  <2>1. r \in Actors
    BY DEF Actors
  <2>2. actor[r].server \in connected
    BY <2>1 DEF RegistryInv, ActorShape, Resolve, ActorGoes, Resolves
  <2> QED BY <2>2 DEF RegistryInv, EntriesBacked
<1> QED BY <1>1, RegistryStarts, RegistryStep, PTL DEF McpRegistrySpec

-----------------------------------------------------------------------------
(* Improvements.  What the retrospective of a workflow holds plays no part.  *)

Results == {"none", "skipped", "error", "applied", "dispatched"}
TurnPlaces == {"next", "stage", "promote", "launch", "enqueue"}

TurnType ==
  /\ turn \in [Parents -> [n : Nat, at : TurnPlaces, file : Nat]]
  /\ result = [w \in Parents |-> result[w]]
  /\ \A w \in Parents : result[w] \in [DOMAIN Retrospective[w] -> Results]
  /\ impFaults \in Nat

StagedFile(w, j) == <<w, turn[w].n, FilesNow(w)[j]>>

\* What a workflow has staged of the improvement at hand stays there until it is
\* promoted: the files up to the current one, and at the promotion all of them.
StagingInv ==
  \A w \in Parents :
    /\ turn[w].at = "stage" =>
         \A j \in Nat \ {0} : j < turn[w].file => StagedFile(w, j) \in staging
    /\ turn[w].at = "promote" =>
         /\ Len(FilesNow(w)) \in Nat /\ turn[w].file # 0
         /\ \A j \in 1..Len(FilesNow(w)) : StagedFile(w, j) \in staging

ImpInv == TurnType /\ StagingInv /\ ImprovementErrorsExplained

LEMMA ImpInitial == ImpInit => ImpInv
<1> SUFFICES ASSUME ImpInit PROVE ImpInv
  OBVIOUS
<1>1. /\ turn = [w \in Parents |-> [n |-> 1, at |-> "next", file |-> 0]]
      /\ result = [w \in Parents |-> [n \in DOMAIN Retrospective[w] |-> "none"]]
      /\ impFaults = 0
  BY DEF ImpInit
<1>2. \A w \in Parents : turn[w].at = "next" /\ result[w] = [n \in DOMAIN Retrospective[w] |-> "none"]
  BY <1>1
<1>3. TurnType
  BY <1>1, <1>2 DEF TurnType, Results, TurnPlaces
<1>4. StagingInv
  BY <1>2 DEF StagingInv
<1>5. ImprovementErrorsExplained
  BY <1>2 DEF ImprovementErrorsExplained
<1> QED BY <1>3, <1>4, <1>5 DEF ImpInv

\* A turn that goes on, and one that ends with a result.
LEMMA TurnGoes ==
  ASSUME TurnType, NEW w \in Parents, NEW place \in TurnPlaces, NEW file \in Nat, Goes(w, place, file)
  PROVE  /\ turn' \in [Parents -> [n : Nat, at : TurnPlaces, file : Nat]]
         /\ turn'[w].n = turn[w].n /\ turn'[w].at = place /\ turn'[w].file = file
         /\ \A v \in Parents \ {w} : turn'[v] = turn[v]
BY DEF TurnType, Goes

LEMMA TurnEnds ==
  ASSUME TurnType, NEW w \in Parents, turn[w].n \in DOMAIN Retrospective[w], NEW status \in Results,
         Ends(w, status)
  PROVE  /\ turn' \in [Parents -> [n : Nat, at : TurnPlaces, file : Nat]]
         /\ turn'[w].at = "next"
         /\ \A v \in Parents \ {w} : turn'[v] = turn[v] /\ result'[v] = result[v]
         /\ result' = [v \in Parents |-> result'[v]]
         /\ result'[w] = [result[w] EXCEPT ![turn[w].n] = status]
         /\ result'[w] \in [DOMAIN Retrospective[w] -> Results]
<1>1. turn' = [turn EXCEPT ![w] = [n |-> turn[w].n + 1, at |-> "next", file |-> 0]]
  BY DEF Ends, TurnType
<1>2. /\ turn' \in [Parents -> [n : Nat, at : TurnPlaces, file : Nat]]
      /\ turn'[w].at = "next"
      /\ \A v \in Parents \ {w} : turn'[v] = turn[v]
  BY <1>1 DEF TurnType, TurnPlaces
<1>3. result' = [result EXCEPT ![w] = [result[w] EXCEPT ![turn[w].n] = status]]
  BY DEF Ends, TurnType
<1>4. /\ \A v \in Parents \ {w} : result'[v] = result[v]
      /\ result' = [v \in Parents |-> result'[v]]
      /\ result'[w] = [result[w] EXCEPT ![turn[w].n] = status]
  BY <1>3 DEF TurnType
<1>5. result'[w] \in [DOMAIN Retrospective[w] -> Results]
  BY <1>4 DEF TurnType
<1> QED BY <1>2, <1>4, <1>5

\* A result that is no error, or comes after a fault or of a malformed
\* improvement, is explained.
LEMMA EndExplained ==
  ASSUME TurnType, ImprovementErrorsExplained, NEW w \in Parents, turn[w].n \in DOMAIN Retrospective[w],
         NEW status \in Results, Ends(w, status), impFaults' \in {impFaults, impFaults + 1},
         status = "error" => impFaults' # 0 \/ Malformed(Current(w))
  PROVE  ImprovementErrorsExplained'
<1> SUFFICES ASSUME impFaults' = 0, NEW v \in Parents, NEW m \in DOMAIN result'[v],
                    result'[v][m] = "error"
             PROVE  Malformed(Retrospective[v][m])
  BY Zenon DEF ImprovementErrorsExplained
<1>1. impFaults = 0
  BY DEF TurnType
<1>a. /\ \A u \in Parents \ {w} : result'[u] = result[u]
      /\ result'[w] = [result[w] EXCEPT ![turn[w].n] = status]
  BY TurnEnds
<1>b. result[w] \in [DOMAIN Retrospective[w] -> Results]
  BY DEF TurnType
<1>2. CASE v # w
  BY <1>1, <1>2, <1>a DEF ImprovementErrorsExplained
<1>3. CASE v = w /\ m = turn[w].n
  <2>1. result'[w][turn[w].n] = status
    BY <1>a, <1>b
  <2> QED BY <1>3, <2>1 DEF Current
<1>4. CASE v = w /\ m # turn[w].n
  <2>1. m \in DOMAIN result[w] /\ result[w][m] = "error"
    BY <1>4, <1>a, <1>b
  <2> QED BY <1>1, <1>4, <2>1 DEF ImprovementErrorsExplained
<1> QED BY <1>2, <1>3, <1>4

\* Other workflows keep what they have staged when a workflow's own files go.
LEMMA OthersKeepStaged ==
  ASSUME StagingInv, NEW w \in Parents, \A v \in Parents \ {w} : turn'[v] = turn[v],
         \A f \in staging : f[1] # w => f \in staging'
  PROVE  \A v \in Parents \ {w} :
           /\ turn'[v].at = "stage" =>
                \A j \in Nat \ {0} : j < turn'[v].file => StagedFile(v, j)' \in staging'
           /\ turn'[v].at = "promote" =>
                /\ Len(FilesNow(v))' \in Nat /\ turn'[v].file # 0
                /\ \A j \in 1..Len(FilesNow(v))' : StagedFile(v, j)' \in staging'
<1> SUFFICES ASSUME NEW v \in Parents \ {w}
             PROVE  /\ turn'[v].at = "stage" =>
                         \A j \in Nat \ {0} : j < turn'[v].file => StagedFile(v, j)' \in staging'
                    /\ turn'[v].at = "promote" =>
                         /\ Len(FilesNow(v))' \in Nat /\ turn'[v].file # 0
                         /\ \A j \in 1..Len(FilesNow(v))' : StagedFile(v, j)' \in staging'
  OBVIOUS
<1>1. FilesNow(v)' = FilesNow(v) /\ turn'[v] = turn[v]
  BY DEF FilesNow, Current
<1>2. \A j : StagedFile(v, j)' = StagedFile(v, j) /\ StagedFile(v, j)[1] = v
  BY <1>1 DEF StagedFile
<1>3. \A j : StagedFile(v, j) \in staging => StagedFile(v, j)' \in staging'
  BY <1>2
<1> QED BY <1>1, <1>3 DEF StagingInv

\* A workflow that is neither staging nor promoting has nothing to keep.
LEMMA NothingStaged ==
  ASSUME StagingInv, NEW w \in Parents, \A v \in Parents \ {w} : turn'[v] = turn[v],
         \A f \in staging : f[1] # w => f \in staging',
         turn'[w].at \notin {"stage", "promote"}
  PROVE  StagingInv'
BY OthersKeepStaged DEF StagingInv

LEMMA ImpStep == ImpInv /\ [ImpNext]_impVars => ImpInv'
<1> SUFFICES ASSUME ImpInv, [ImpNext]_impVars PROVE ImpInv'
  OBVIOUS
<1> USE DEF ImpInv
<1>r. "skipped" \in Results /\ "error" \in Results /\ "applied" \in Results /\ "dispatched" \in Results
  BY DEF Results
<1>p. TurnPlaces = {"next", "stage", "promote", "launch", "enqueue"}
  BY DEF TurnPlaces
<1>f. ImpFault \/ UNCHANGED impFaults =>
        impFaults' \in Nat /\ impFaults' \in {impFaults, impFaults + 1} /\ (ImpFault => impFaults' # 0)
  BY DEF ImpFault, TurnType
\* A step that ends the turn with a result.
<1>e. ASSUME NEW w \in Parents, turn[w].n \in DOMAIN Retrospective[w],
             NEW status \in Results, Ends(w, status), ImpFault \/ UNCHANGED impFaults,
             status = "error" => ImpFault \/ Malformed(Current(w)),
             \A f \in staging : f[1] # w => f \in staging'
      PROVE  ImpInv'
  <2>1. ImprovementErrorsExplained'
    BY <1>e, <1>f, EndExplained
  <2>2. TurnType'
    BY <1>e, <1>f, TurnEnds DEF TurnType
  <2>3. StagingInv'
    BY <1>e, TurnEnds, NothingStaged
  <2> QED BY <2>1, <2>2, <2>3
\* A step that goes on.
<1>g. ASSUME NEW w \in Parents, NEW place \in TurnPlaces, NEW file \in Nat, Goes(w, place, file),
             UNCHANGED <<result, impFaults>>, StagingInv'
      PROVE  ImpInv'
  <2>1. TurnType'
    BY <1>g, TurnGoes DEF TurnType
  <2>2. ImprovementErrorsExplained'
    BY <1>g DEF ImprovementErrorsExplained
  <2> QED BY <1>g, <2>1, <2>2
<1>1. ASSUME NEW w \in Parents, Dispatch(w) PROVE ImpInv'
  <2>1. /\ turn[w].n \in DOMAIN Retrospective[w] /\ UNCHANGED <<staging, impFaults>>
        /\ \/ Ends(w, "skipped")
           \/ Ends(w, "error") /\ Malformed(Current(w))
           \/ Goes(w, "launch", 0) /\ UNCHANGED result
           \/ Goes(w, "stage", 1) /\ UNCHANGED result
    BY <1>1 DEF Dispatch, HasTurn, fsVars, Malformed
  <2>2. CASE Ends(w, "skipped")
    BY <1>e, <1>r, <2>1, <2>2
  <2>3. CASE Ends(w, "error") /\ Malformed(Current(w))
    BY <1>e, <1>r, <2>1, <2>3
  <2>4. CASE Goes(w, "launch", 0) /\ UNCHANGED result
    <3>1. StagingInv'
      BY <1>p, <2>1, <2>4, TurnGoes, NothingStaged
    <3> QED BY <1>g, <1>p, <2>1, <2>4, <3>1
  <2>5. CASE Goes(w, "stage", 1) /\ UNCHANGED result
    <3>1. turn'[w].at = "stage" /\ turn'[w].file = 1 /\ \A v \in Parents \ {w} : turn'[v] = turn[v]
      BY <1>p, <2>5, TurnGoes
    <3>2. StagingInv'
      BY <2>1, <3>1, OthersKeepStaged DEF StagingInv
    <3> QED BY <1>g, <1>p, <2>1, <2>5, <3>2
  <2> QED BY <2>1, <2>2, <2>3, <2>4, <2>5
<1>2. ASSUME NEW w \in Parents, StageFile(w) PROVE ImpInv'
  <2> DEFINE path == FilesNow(w)[turn[w].file]
             place == IF turn[w].file = Len(FilesNow(w)) THEN "promote" ELSE "stage"
             file == IF turn[w].file = Len(FilesNow(w)) THEN 1 ELSE turn[w].file + 1
  <2>1. /\ turn[w].at = "stage" /\ turn[w].n \in DOMAIN Retrospective[w]
        /\ staging' = {f \in staging : f[1] # w \/ f[3] # path} \cup {<<w, turn[w].n, path>>}
        /\ UNCHANGED <<result, impFaults>>
    BY <1>2 DEF StageFile, HasTurn
  <2>2. Goes(w, place, file) /\ place \in TurnPlaces /\ file \in Nat
    BY <1>2, <1>p DEF StageFile, TurnType
  <2>3. /\ turn'[w].n = turn[w].n /\ turn'[w].at = place /\ turn'[w].file = file
        /\ \A v \in Parents \ {w} : turn'[v] = turn[v]
    BY <2>2, TurnGoes
  <2>4. \A f \in staging : f[1] # w => f \in staging'
    BY <2>1
  <2>5. FilesNow(w)' = FilesNow(w)
    BY <2>3 DEF FilesNow, Current
  <2>6. \A j : StagedFile(w, j)' = StagedFile(w, j)
    BY <2>3, <2>5 DEF StagedFile
  <2>7. turn[w].file \in Nat
    BY DEF TurnType
  <2>8. \A j \in Nat \ {0} : j <= turn[w].file => StagedFile(w, j) \in staging'
    <3> SUFFICES ASSUME NEW j \in Nat \ {0}, j <= turn[w].file PROVE StagedFile(w, j) \in staging'
      OBVIOUS
    <3>1. CASE FilesNow(w)[j] = path
      BY <2>1, <3>1 DEF StagedFile
    <3>2. CASE FilesNow(w)[j] # path
      <4>a. j # turn[w].file
        BY <3>2
      <4>1. j < turn[w].file
        BY <4>a, <2>7
      <4>2. StagedFile(w, j) \in staging /\ StagedFile(w, j)[3] # path
        BY <2>1, <3>2, <4>1 DEF StagingInv, StagedFile
      <4> QED BY <2>1, <4>2
    <3> QED BY <3>1, <3>2
  <2>9. StagingInv'
    <3>1. CASE turn[w].file = Len(FilesNow(w))
      <4>1. \A j \in 1..Len(FilesNow(w))' : StagedFile(w, j)' \in staging'
        BY <2>5, <2>6, <2>8, <2>7, <3>1
      <4>2. turn'[w].at = "promote" /\ turn'[w].file # 0 /\ Len(FilesNow(w))' \in Nat
        BY <2>3, <2>5, <2>7, <3>1
      <4> QED BY <2>3, <2>4, <4>1, <4>2, OthersKeepStaged DEF StagingInv
    <3>2. CASE turn[w].file # Len(FilesNow(w))
      <4>1. turn'[w].at = "stage" /\ turn'[w].file = turn[w].file + 1
        BY <2>3, <3>2
      <4>2. \A j \in Nat \ {0} : j < turn'[w].file => StagedFile(w, j)' \in staging'
        BY <2>6, <2>8, <2>7, <4>1
      <4> QED BY <2>3, <2>4, <4>1, <4>2, OthersKeepStaged DEF StagingInv
    <3> QED BY <3>1, <3>2
  <2> HIDE DEF place, file
  <2> QED BY <1>g, <2>1, <2>2, <2>9
<1>3. ASSUME NEW w \in Parents, StageFails(w) \/ LaunchFails(w) PROVE ImpInv'
  <2>1. /\ turn[w].n \in DOMAIN Retrospective[w] /\ ImpFault /\ Ends(w, "error") /\ staging' = staging
    BY <1>3 DEF StageFails, LaunchFails, HasTurn, fsVars
  <2> QED BY <1>e, <1>r, <2>1
<1>4. ASSUME NEW w \in Parents, PromoteFile(w) PROVE ImpInv'
  <2>1. /\ turn[w].at = "promote" /\ Goes(w, "promote", turn[w].file + 1)
        /\ UNCHANGED <<result, staging, impFaults>> /\ turn[w].file + 1 \in Nat \ {0}
    BY <1>4 DEF PromoteFile, HasTurn, TurnType
  <2>2. /\ turn'[w].n = turn[w].n /\ turn'[w].at = "promote" /\ turn'[w].file = turn[w].file + 1
        /\ \A v \in Parents \ {w} : turn'[v] = turn[v]
    BY <1>p, <2>1, TurnGoes
  <2>3. FilesNow(w)' = FilesNow(w)
    BY <2>2 DEF FilesNow, Current
  <2>4. \A j : StagedFile(w, j)' = StagedFile(w, j)
    BY <2>2, <2>3 DEF StagedFile
  <2>5. /\ Len(FilesNow(w))' \in Nat /\ turn'[w].file # 0
        /\ \A j \in 1..Len(FilesNow(w))' : StagedFile(w, j)' \in staging'
    BY <2>1, <2>2, <2>3, <2>4 DEF StagingInv
  <2>6. StagingInv'
    BY <2>1, <2>2, <2>5, OthersKeepStaged DEF StagingInv
  <2> QED BY <1>g, <1>p, <2>1, <2>6
<1>5. ASSUME NEW w \in Parents, PromoteFails(w) PROVE ImpInv'
  <2>1. /\ turn[w].at = "promote" /\ turn[w].n \in DOMAIN Retrospective[w]
        /\ turn[w].file <= Len(FilesNow(w)) /\ Ends(w, "error")
        /\ IF Staged(w) THEN ImpFault ELSE UNCHANGED impFaults
        /\ staging' = staging \ OfWorkflow(staging, w)
    BY <1>5 DEF PromoteFails, HasTurn
  <2>2. turn[w].file \in 1..Len(FilesNow(w))
    BY <2>1 DEF TurnType, StagingInv
  <2>3. Staged(w)
    BY <2>1, <2>2 DEF Staged, StagedFile, StagingInv
  <2>4. \A f \in staging : f[1] # w => f \in staging'
    BY <2>1 DEF OfWorkflow
  <2> QED BY <1>e, <1>r, <2>1, <2>3, <2>4
<1>6. ASSUME NEW w \in Parents, Promoted(w) PROVE ImpInv'
  <2>1. /\ turn[w].n \in DOMAIN Retrospective[w] /\ Ends(w, "applied") /\ UNCHANGED impFaults
        /\ staging' = staging \ OfWorkflow(staging, w)
    BY <1>6 DEF Promoted, HasTurn
  <2>2. \A f \in staging : f[1] # w => f \in staging'
    BY <2>1 DEF OfWorkflow
  <2> QED BY <1>e, <1>r, <2>1, <2>2
<1>7. ASSUME NEW w \in Parents, LaunchStores(w) PROVE ImpInv'
  <2>1. Goes(w, "enqueue", 0) /\ UNCHANGED <<result, staging, impFaults>>
    BY <1>7 DEF LaunchStores, fsVars
  <2>2. StagingInv'
    BY <1>p, <2>1, TurnGoes, NothingStaged
  <2> QED BY <1>g, <1>p, <2>1, <2>2
<1>8. ASSUME NEW w \in Parents, LaunchEnqueues(w) PROVE ImpInv'
  <2>1. /\ turn[w].n \in DOMAIN Retrospective[w] /\ Ends(w, "dispatched")
        /\ UNCHANGED <<staging, impFaults>>
    BY <1>8 DEF LaunchEnqueues, HasTurn, fsVars
  <2> QED BY <1>e, <1>r, <2>1
<1>9. CASE UNCHANGED impVars
  <2>1. \A w : FilesNow(w)' = FilesNow(w)
    BY <1>9 DEF impVars, FilesNow, Current
  <2>2. \A w, j : StagedFile(w, j)' = StagedFile(w, j)
    BY <1>9, <2>1 DEF impVars, StagedFile
  <2>3. StagingInv'
    BY <1>9, <2>1, <2>2 DEF impVars, StagingInv
  <2> QED BY <1>9, <2>3 DEF impVars, TurnType, ImprovementErrorsExplained
<1> QED BY <1>1, <1>2, <1>3, <1>4, <1>5, <1>6, <1>7, <1>8, <1>9 DEF ImpNext

\* Whatever the retrospectives of however many workflows suggest, and in however
\* many files: as long as disk, store and queue work, staging and promoting the
\* improvements of one workflow never makes another's fail.
THEOREM ImprovementsDoNotDisturb == ImpSpec => []ImprovementErrorsExplained
<1>1. ImpInv => ImprovementErrorsExplained
  BY DEF ImpInv
<1> QED BY <1>1, ImpInitial, ImpStep, PTL DEF ImpSpec

-----------------------------------------------------------------------------
(* Attachments.                                                              *)

RowPlaces == {"absent", "pending", "processing", "completed", "failed"}
JobPlaces == {"none", "waiting", "read", "chunked"}
UploadPlaces == {"none", "checked", "stored", "created", "refused"}
IngestPlaces == {"idle", "work", "reload", "passed"}

AttType ==
  /\ session \in [status : {"none", "open", "consumed", "aborted"}, owner : SUBSET Submitters,
                  expired : BOOLEAN]
  /\ upload \in [Files -> UploadPlaces]
  /\ attRow \in [Files -> RowPlaces]
  /\ disk = [f \in Files |-> disk[f]]
  /\ copies \in [Files -> Nat] /\ wasted \in [Files -> Nat]
  /\ docs \subseteq Files
  /\ ingest = [at |-> ingest.at, listed |-> ingest.listed, failed |-> ingest.failed]
  /\ ingest.at \in IngestPlaces /\ ingest.listed \subseteq Files
  /\ job \in [Files -> JobPlaces]

\* A row exists once its upload has committed, and then exactly one text of the
\* file is on disk, for good.
UploadInv ==
  \A f \in Files :
    /\ attRow[f] # "absent" => upload[f] = "created"
    /\ upload[f] \in {"stored", "created"} => \E text \in Contents[f] : disk[f] = {text}

\* A goroutine of the stage works on a row that is not completed yet, so that no
\* completed row ever changes; its chunks are stored before the row says so, and
\* every other copy of them was left by an attempt that ended without completing.
Open(row) == row \in {"pending", "failed", "processing"}
Settled(f) == job[f] = "chunked" \/ attRow[f] = "completed"
JobInv ==
  /\ \A f \in Files :
       /\ job[f] # "none" => ingest.at = "work"
       /\ job[f] # "none" => Open(attRow[f])
       /\ copies[f] = wasted[f] + (IF Settled(f) THEN 1 ELSE 0)
  /\ ingest.at = "reload" => \A f \in ingest.listed : attRow[f] = "completed"
  /\ stage = "completed" => \A f \in docs : attRow[f] = "completed"

OwnerInv ==
  /\ session.status \in {"none", "open"} => session.owner = {}
  /\ session.owner = {} \/ \E w \in Submitters : session.owner = {w}

AttInv == AttType /\ UploadInv /\ JobInv /\ OwnerInv

LEMMA AttInitial == AttInit => AttInv
BY DEF AttInit, AttInv, AttType, UploadInv, JobInv, OwnerInv, Idle, RowPlaces, JobPlaces, UploadPlaces,
       IngestPlaces, Open, Settled

LEMMA AttStep == AttInv /\ [AttNext]_attVars => AttInv'
<1> SUFFICES ASSUME AttInv, [AttNext]_attVars PROVE AttInv'
  OBVIOUS
<1> USE DEF AttInv
\* Steps that leave the files and the stage alone.
<1>s. ASSUME UNCHANGED <<upload, attRow, disk, chunkVars, stage, docs, ingest, job>>,
             session' \in [status : {"none", "open", "consumed", "aborted"}, owner : SUBSET Submitters,
                           expired : BOOLEAN],
             OwnerInv'
      PROVE  AttInv'
  BY <1>s DEF chunkVars, AttType, UploadInv, JobInv, Settled
<1>1. CASE CreateUploadSession \/ SessionExpires \/ AbortUploadSession
  <2>1. UNCHANGED <<upload, attRow, disk, chunkVars, stage, docs, ingest, job>>
    BY <1>1 DEF CreateUploadSession, SessionExpires, AbortUploadSession, ingestVars
  <2>2. /\ session' \in [status : {"none", "open", "consumed", "aborted"}, owner : SUBSET Submitters,
                         expired : BOOLEAN]
        /\ OwnerInv'
    BY <1>1 DEF CreateUploadSession, SessionExpires, AbortUploadSession, AttType, OwnerInv
  <2> QED BY <1>s, <2>1, <2>2
<1>2. ASSUME NEW w \in Submitters, SubmitNext(w) PROVE AttInv'
  <2>1. UNCHANGED <<upload, attRow, disk, chunkVars, stage, docs, ingest, job>>
    BY <1>2 DEF SubmitNext, SubmitCreates, SubmitConsumes, SubmitBinds, SubmitFails, ingestVars
  <2>2. session' = session \/ (session.status = "open"
                               /\ session' = [session EXCEPT !.status = "consumed", !.owner = @ \cup {w}])
    BY <1>2 DEF SubmitNext, SubmitCreates, SubmitConsumes, SubmitBinds, SubmitFails, Consumable
  <2>3. /\ session' \in [status : {"none", "open", "consumed", "aborted"}, owner : SUBSET Submitters,
                         expired : BOOLEAN]
        /\ OwnerInv'
    <3>1. CASE session' = session
      BY <3>1 DEF AttType, OwnerInv
    <3>2. CASE session.status = "open" /\ session' = [session EXCEPT !.status = "consumed", !.owner = @ \cup {w}]
      <4>1. session' = [status |-> "consumed", owner |-> session.owner \cup {w}, expired |-> session.expired]
        BY <3>2 DEF AttType
      <4>2. session.owner = {}
        BY <3>2 DEF OwnerInv
      <4>3. session'.owner = {w} /\ session'.status = "consumed"
        BY <4>1, <4>2
      <4> QED BY <4>1, <4>2, <4>3 DEF AttType, OwnerInv
    <3> QED BY <2>2, <3>1, <3>2
  <2> QED BY <1>s, <2>1, <2>3
<1>3. ASSUME NEW f \in Files, UploadNext(f) PROVE AttInv'
  <2>1. UNCHANGED <<session, copies, wasted, stage, docs, ingest, job>>
    BY <1>3 DEF UploadNext, UploadChecks, UploadRefused, UploadStores, UploadCommits, UploadCommitFails,
                UploadInterrupted, ingestVars, chunkVars
  <2>2. AttType'
    BY <1>3, <2>1 DEF UploadNext, UploadChecks, UploadRefused, UploadStores, UploadCommits,
                UploadCommitFails, UploadInterrupted, SetUpload, UpdateAttachmentStatus, AttType,
                UploadPlaces, RowPlaces
  <2>3. UploadInv'
    BY <1>3 DEF UploadNext, UploadChecks, UploadRefused, UploadStores, UploadCommits,
                UploadCommitFails, UploadInterrupted, SetUpload, UpdateAttachmentStatus, AttType, UploadInv
  <2>4. /\ attRow[f] = "absent" \/ attRow' = attRow
        /\ attRow'[f] \in {attRow[f], "pending"} /\ \A g \in Files \ {f} : attRow'[g] = attRow[g]
    BY <1>3 DEF UploadNext, UploadChecks, UploadRefused, UploadStores, UploadCommits,
                UploadCommitFails, UploadInterrupted, SetUpload, UpdateAttachmentStatus, AttType, UploadInv
  <2>5. JobInv'
    BY <2>1, <2>4 DEF JobInv, AttType, JobPlaces, Open, Settled
  <2> QED BY <2>1, <2>2, <2>3, <2>5 DEF OwnerInv
<1>4. ASSUME NEW f \in Files, JobNext(f) PROVE AttInv'
  <2>1. UNCHANGED <<session, upload, disk, stage, docs>>
    BY <1>4 DEF JobNext, JobStarts, JobStoresChunks, JobCompletes, JobFails, JobUpdateLost, requestVars
  <2>2. /\ ingest' = [at |-> ingest'.at, listed |-> ingest'.listed, failed |-> ingest'.failed]
        /\ ingest'.at = ingest.at /\ ingest'.listed = ingest.listed
    BY <1>4 DEF JobNext, JobStarts, JobStoresChunks, JobCompletes, JobFails, JobUpdateLost, AttType
  <2>3. /\ \A g \in Files \ {f} : attRow'[g] = attRow[g] /\ job'[g] = job[g] /\ copies'[g] = copies[g]
        /\ \A g \in Files \ {f} : wasted'[g] = wasted[g]
        /\ attRow' \in [Files -> RowPlaces] /\ job' \in [Files -> JobPlaces]
        /\ copies' \in [Files -> Nat] /\ wasted' \in [Files -> Nat]
    BY <1>4 DEF JobNext, JobStarts, JobStoresChunks, JobCompletes, JobFails, JobUpdateLost, SetJob, Waste,
                UpdateLost, chunkVars, UpdateAttachmentStatus, CreateAttachmentChunks, AttType, RowPlaces,
                JobPlaces
  <2>4. job[f] # "none" /\ attRow[f] \notin {"absent", "completed"}
    BY <1>4 DEF JobNext, JobStarts, JobStoresChunks, JobCompletes, JobFails, JobUpdateLost, JobInv, Open
  <2>5. /\ job'[f] # "none" => Open(attRow'[f])
        /\ copies'[f] = wasted'[f] + (IF Settled(f)' THEN 1 ELSE 0)
    <3>0. /\ Open(attRow[f]) /\ copies[f] = wasted[f] + (IF job[f] = "chunked" THEN 1 ELSE 0)
          /\ copies[f] \in Nat /\ wasted[f] \in Nat
      BY <2>4 DEF JobInv, AttType, Settled
    <3>1. CASE JobStarts(f)
      BY <3>0, <3>1 DEF JobStarts, SetJob, UpdateLost, UpdateAttachmentStatus, chunkVars, AttType, Open,
                        Settled
    <3>2. CASE JobStoresChunks(f)
      BY <3>0, <3>2 DEF JobStoresChunks, SetJob, CreateAttachmentChunks, AttType, Open, Settled
    <3>3. CASE JobCompletes(f)
      BY <3>0, <3>3 DEF JobCompletes, SetJob, UpdateAttachmentStatus, chunkVars, AttType, Open, Settled
    <3>4. CASE JobFails(f)
      BY <3>0, <3>4 DEF JobFails, SetJob, Waste, UpdateAttachmentStatus, AttType, Open, Settled
    <3>5. CASE JobUpdateLost(f)
      BY <3>0, <3>5 DEF JobUpdateLost, SetJob, Waste, UpdateLost, AttType, Open, Settled
    <3> QED BY <1>4, <3>1, <3>2, <3>3, <3>4, <3>5 DEF JobNext
  <2>6. UploadInv'
    BY <2>1, <2>3, <2>4 DEF UploadInv
  <2>7. JobInv'
    <3>1. \A g \in Files : g # f => /\ Settled(g)' <=> Settled(g)
                                    /\ wasted'[g] = wasted[g] /\ copies'[g] = copies[g]
      BY <2>3 DEF Settled
    <3> QED BY <2>1, <2>2, <2>3, <2>4, <2>5, <3>1 DEF JobInv, AttType, Open
  <2> QED BY <2>1, <2>2, <2>3, <2>6, <2>7 DEF AttType, OwnerInv
<1>5. CASE IngestNext
  <2>1. UNCHANGED <<session, upload, disk, attRow, copies>>
    BY <1>5 DEF IngestNext, IngestionStarts, IngestionFailsEarly, IngestionReloads, IngestionCompletes,
                CorpusFails, RunLeavesIngestion, IngestionInterrupted, requestVars, chunkVars
  <2>2. AttType'
    <3>1. docs' \subseteq Files
      BY <1>5 DEF IngestNext, IngestionStarts, IngestionFailsEarly, IngestionReloads, IngestionCompletes,
                  CorpusFails, RunLeavesIngestion, IngestionInterrupted, AttType
    <3>2. job' \in [Files -> JobPlaces]
      BY <1>5 DEF IngestNext, IngestionStarts, IngestionFailsEarly, IngestionReloads, IngestionCompletes,
                  CorpusFails, RunLeavesIngestion, IngestionInterrupted, AttType, JobPlaces
    <3>3. /\ ingest' = [at |-> ingest'.at, listed |-> ingest'.listed, failed |-> ingest'.failed]
          /\ ingest'.at \in IngestPlaces /\ ingest'.listed \subseteq Files
      <4>1. CASE IngestionStarts
        BY <4>1 DEF IngestionStarts, AttType, IngestPlaces, SessionRows
      <4>2. CASE IngestionFailsEarly
        BY <4>2 DEF IngestionFailsEarly, FailIngestion, Idle, AttType, IngestPlaces
      <4>3. CASE IngestionReloads
        <5>1. CASE FailIngestion
          BY <5>1 DEF FailIngestion, Idle, IngestPlaces
        <5>2. CASE ingest' = [ingest EXCEPT !.at = "reload", !.listed = SessionRows]
          BY <5>2 DEF AttType, IngestPlaces, SessionRows
        <5> QED BY <4>3, <5>1, <5>2 DEF IngestionReloads
      <4>4. CASE IngestionCompletes
        BY <4>4 DEF IngestionCompletes, AttType, IngestPlaces
      <4>5. CASE CorpusFails \/ RunLeavesIngestion \/ IngestionInterrupted
        BY <4>5 DEF CorpusFails, RunLeavesIngestion, IngestionInterrupted, FailIngestion, Idle, AttType,
                    IngestPlaces
      <4> QED BY <1>5, <4>1, <4>2, <4>3, <4>4, <4>5 DEF IngestNext
    <3>4. wasted' \in [Files -> Nat]
      BY <1>5 DEF IngestNext, IngestionStarts, IngestionFailsEarly, IngestionReloads, IngestionCompletes,
                  CorpusFails, RunLeavesIngestion, IngestionInterrupted, chunkVars, Waste, AttType
    <3> QED BY <2>1, <3>1, <3>2, <3>3, <3>4 DEF AttType
  <2>3. JobInv'
    <3>0. \A f \in Files : copies[f] \in Nat /\ wasted[f] \in Nat
      BY DEF AttType
    <3>1. CASE IngestionStarts
      <4>1. wasted' = wasted /\ docs' = docs
        BY <3>1 DEF IngestionStarts, chunkVars
      <4>2. CASE ingest' = [ingest EXCEPT !.at = "passed"] /\ UNCHANGED <<stage, job>>
        <5>1. ingest.at = "idle" /\ ingest'.at = "passed" /\ stage' = stage /\ job' = job
          BY <3>1, <4>2 DEF IngestionStarts, AttType
        <5> QED BY <2>1, <4>1, <5>1 DEF JobInv, Settled
      <4>3. CASE /\ ingest' = [at |-> "work", listed |-> SessionRows, failed |-> FALSE]
                 /\ stage' = "running"
                 /\ job' = [f \in Files |-> IF f \in Unfinished(SessionRows) THEN "waiting" ELSE "none"]
        <5>1. ingest.at = "idle" /\ ingest'.at = "work"
          BY <3>1, <4>3 DEF IngestionStarts
        <5>2. \A f \in Files : job[f] = "none" /\ job'[f] \in {"waiting", "none"}
          BY <4>3, <5>1 DEF JobInv
        <5>3. \A f \in Files : job'[f] # "none" => Open(attRow[f])
          BY <4>3 DEF Unfinished, Open
        <5>4. \A f \in Files : Settled(f)' <=> Settled(f)
          BY <2>1, <5>2 DEF Settled
        <5>5. stage' = "running"
          BY <4>3
        <5> QED BY <2>1, <4>1, <5>1, <5>3, <5>4, <5>5 DEF JobInv
      <4> QED BY <3>1, <4>2, <4>3 DEF IngestionStarts
    <3>2. CASE IngestionFailsEarly
      BY <2>1, <3>2 DEF IngestionFailsEarly, FailIngestion, Idle, JobInv, AttType, chunkVars, Settled
    <3>3. CASE IngestionReloads
      <4>1. \A f \in Files : job[f] = "none" /\ job'[f] = "none"
        BY <3>3 DEF IngestionReloads
      <4>0. wasted' = wasted /\ \A f \in Files : Settled(f)' <=> Settled(f)
        BY <2>1, <3>3, <4>1 DEF IngestionReloads, chunkVars, Settled
      <4>2. CASE FailIngestion
        <5>1. stage' = "failed" /\ ingest'.at = "idle"
          BY <4>2 DEF FailIngestion, Idle
        <5> QED BY <2>1, <4>0, <4>1, <5>1 DEF JobInv
      <4>3. CASE /\ AllProcessed(SessionRows)
                 /\ ingest' = [ingest EXCEPT !.at = "reload", !.listed = SessionRows] /\ UNCHANGED stage
        <5>1. \A f \in ingest'.listed : attRow[f] = "completed"
          BY <4>3 DEF AllProcessed, AttType
        <5>2. docs' = docs /\ stage' = stage
          BY <3>3, <4>3 DEF IngestionReloads
        <5> QED BY <2>1, <4>0, <4>1, <5>1, <5>2 DEF JobInv
      <4> QED BY <3>3, <4>2, <4>3 DEF IngestionReloads
    <3>4. CASE IngestionCompletes \/ CorpusFails \/ RunLeavesIngestion
      BY <2>1, <3>4 DEF IngestionCompletes, CorpusFails, RunLeavesIngestion,
                        FailIngestion, Idle, JobInv, AttType, chunkVars, Settled
    <3>5. CASE IngestionInterrupted
      <4>1. stage' = stage /\ docs' = docs /\ ingest'.at = "idle"
        BY <3>5 DEF IngestionInterrupted, Idle
      <4>2. ASSUME NEW f \in Files
            PROVE  job'[f] = "none" /\ copies'[f] = wasted'[f] + (IF Settled(f)' THEN 1 ELSE 0)
        <5>1. /\ job'[f] = "none"
              /\ wasted'[f] = wasted[f] + (IF job[f] = "chunked" THEN 1 ELSE 0)
          BY <3>5 DEF IngestionInterrupted, Waste
        <5>2. job[f] = "chunked" => attRow[f] # "completed"
          BY DEF JobInv, Open
        <5>3. copies[f] = wasted[f] + (IF Settled(f) THEN 1 ELSE 0)
          BY DEF JobInv
        <5> QED BY <2>1, <3>0, <5>1, <5>2, <5>3 DEF Settled
      <4> QED BY <2>1, <4>1, <4>2 DEF JobInv
    <3> QED BY <1>5, <3>1, <3>2, <3>3, <3>4, <3>5 DEF IngestNext
  <2> QED BY <2>1, <2>2, <2>3 DEF UploadInv, OwnerInv
<1>6. CASE UNCHANGED attVars
  BY <1>6 DEF attVars, AttType, UploadInv, JobInv, OwnerInv, Settled
<1> QED BY <1>1, <1>2, <1>3, <1>4, <1>5, <1>6 DEF AttNext

LEMMA AttInvProcessed == AttInv => DocumentsProcessed
<1> SUFFICES ASSUME AttInv PROVE DocumentsProcessed
  OBVIOUS
<1>1. Cardinality(session.owner) <= 1
  <2>1. CASE session.owner = {}
    BY <2>1, FS_EmptySet
  <2>2. CASE \E w \in Submitters : session.owner = {w}
    <3>1. PICK w \in Submitters : session.owner = {w}
      BY <2>2
    <3>2. Cardinality({w}) = 1
      BY FS_Singleton
    <3> QED BY <3>1, <3>2
  <2> QED BY <2>1, <2>2 DEF AttInv, OwnerInv
<1>2. stage = "completed" => \A f \in docs : attRow[f] = "completed" /\ copies[f] = wasted[f] + 1
  BY DEF AttInv, AttType, JobInv, Settled
<1> QED BY <1>1, <1>2 DEF DocumentsProcessed

\* However uploads, submissions, ingestion goroutines, faults and interruptions
\* interleave, what a completed ingestion hands on is processed, and a session
\* is consumed once.
THEOREM IngestionProcessesAll == AttSpec => []DocumentsProcessed
BY AttInvProcessed, AttInitial, AttStep, PTL DEF AttSpec

-----------------------------------------------------------------------------
(* The chunks of a text.                                                     *)

\* A chunk ends after its first letter and within the text.
LEMMA CutoffWithin ==
  ASSUME NEW text, Len(text) \in Nat, NEW p \in 0..Len(text), Len(text) - p > ChunkSize
  PROVE  Cutoff(text, p) \in (p + 1)..Len(text)
<1> USE AttachmentsAssumption
<1> DEFINE least == (ChunkSize * 4) \div 5
           breaks == {i \in (p + least + 1)..(p + ChunkSize) : text[i] = Newline}
<1>1. least \in Nat
  OBVIOUS
<1> HIDE DEF least
<1>2. CASE breaks = {}
  <2>1. Cutoff(text, p) = p + ChunkSize
    BY <1>2 DEF Cutoff, least
  <2> QED BY <2>1
<1>3. CASE breaks # {}
  <2>1. Cutoff(text, p) = CHOOSE i \in breaks : \A k \in breaks : k <= i
    BY <1>3 DEF Cutoff, least
  <2>2. p + ChunkSize \in Nat /\ breaks \subseteq 0..(p + ChunkSize)
    BY <1>1
  <2>3. \E i \in breaks : \A k \in breaks : k <= i
    BY <1>3, <2>2, GreatestNatural
  <2>4. Cutoff(text, p) \in breaks
    <3> HIDE DEF breaks
    <3> QED BY <2>1, <2>3
  <2> QED BY <1>1, <2>4
<1> QED BY <1>2, <1>3

\* What the chunks from position p on are, if from[q] are those from q on.
Chunked(text, from, p) ==
  IF Len(text) - p <= ChunkSize
  THEN <<SubSeq(text, p + 1, Len(text))>>
  ELSE <<SubSeq(text, p + 1, Cutoff(text, p))>> \o from[Cutoff(text, p)]
Chunking(text, from, n) == from = [p \in n..Len(text) |-> Chunked(text, from, p)]

\* A chunking of the end of a text extends to the letter before.
LEMMA ChunkingExtends ==
  ASSUME NEW text, Len(text) \in Nat, NEW n \in Nat, n + 1 <= Len(text),
         NEW g, Chunking(text, g, n + 1)
  PROVE  \E from : Chunking(text, from, n)
<1> DEFINE from == [p \in n..Len(text) |-> IF p = n THEN Chunked(text, g, n) ELSE g[p]]
<1>1. ASSUME NEW p \in n..Len(text), NEW h, \A q \in (p + 1)..Len(text) : h[q] = g[q]
      PROVE  Chunked(text, h, p) = Chunked(text, g, p)
  <2>1. CASE Len(text) - p <= ChunkSize
    BY <2>1 DEF Chunked
  <2>2. CASE Len(text) - p > ChunkSize
    <3>1. Cutoff(text, p) \in (p + 1)..Len(text)
      BY <2>2, CutoffWithin
    <3>2. h[Cutoff(text, p)] = g[Cutoff(text, p)]
      BY <1>1, <3>1
    <3> QED BY <3>2 DEF Chunked
  <2> QED BY <2>1, <2>2, AttachmentsAssumption
<1>2. \A p \in n..Len(text) : \A q \in (p + 1)..Len(text) : from[q] = g[q]
  OBVIOUS
<1>3. \A p \in (n + 1)..Len(text) : g[p] = Chunked(text, g, p)
  BY DEF Chunking
<1>4. \A p \in n..Len(text) : from[p] = Chunked(text, g, p)
  BY <1>3
<1>5. ASSUME NEW p \in n..Len(text) PROVE Chunked(text, from, p) = Chunked(text, g, p)
  <2> HIDE DEF from
  <2> QED BY <1>1, <1>2
<1>6. from = [p \in n..Len(text) |-> from[p]]
  OBVIOUS
<1> HIDE DEF from
<1>7. from = [p \in n..Len(text) |-> Chunked(text, from, p)]
  BY <1>4, <1>5, <1>6
<1> QED BY <1>7 DEF Chunking

\* So splitIntoChunks is defined by its equation.
LEMMA ChunkingExists ==
  ASSUME NEW text, Len(text) \in Nat
  PROVE  \E from : Chunking(text, from, 0) /\ splitIntoChunks(text) = from[0]
<1> DEFINE S == {k \in Nat : k <= Len(text) => \E from : Chunking(text, from, Len(text) - k)}
<1>1. 0 \in S
  <2> DEFINE last == [p \in Len(text)..Len(text) |-> <<SubSeq(text, p + 1, Len(text))>>]
  <2>1. \A p \in Len(text)..Len(text) :
           Chunked(text, last, p) = <<SubSeq(text, p + 1, Len(text))>>
    BY AttachmentsAssumption DEF Chunked
  <2>2. Chunking(text, last, Len(text))
    <3>1. last = [p \in Len(text)..Len(text) |-> Chunked(text, last, p)]
      BY <2>1
    <3> QED BY <3>1 DEF Chunking
  <2>3. Len(text) - 0 = Len(text)
    OBVIOUS
  <2> QED BY <2>2, <2>3
<1>2. ASSUME NEW k \in S PROVE k + 1 \in S
  <2> SUFFICES ASSUME k + 1 <= Len(text)
               PROVE  \E from : Chunking(text, from, Len(text) - (k + 1))
    BY <1>2
  <2>1. PICK n \in Nat : n = Len(text) - (k + 1)
    OBVIOUS
  <2>2. Len(text) - k = n + 1 /\ n + 1 <= Len(text) /\ k <= Len(text)
    BY <2>1
  <2>3. PICK g : Chunking(text, g, n + 1)
    BY <2>2
  <2> QED BY <2>1, <2>2, <2>3, ChunkingExtends
<1> HIDE DEF S
<1>3. S = Nat
  <2>1. S \subseteq Nat
    BY DEF S
  <2> QED BY <1>1, <1>2, <2>1, NaturalInduction
<1>4. Len(text) \in S /\ Len(text) - Len(text) = 0
  BY <1>3
<1>5. \E from : Chunking(text, from, 0)
  BY <1>4 DEF S
<1> DEFINE chosen == CHOOSE from : Chunking(text, from, 0)
<1>6. splitIntoChunks(text) = chosen[0]
  BY Zenon DEF splitIntoChunks, Chunking, Chunked
<1>7. Chunking(text, chosen, 0)
  BY <1>5
<1> QED BY <1>6, <1>7

\* The chunks s are what is between the cuts of the text after position p.
Pieces(text, p, s, cut) ==
  /\ cut \in [0..Len(s) -> p..Len(text)]
  /\ cut[0] = p /\ cut[Len(s)] = Len(text)
  /\ \A i \in 1..Len(s) : /\ cut[i - 1] <= cut[i]
                          /\ s[i] = SubSeq(text, cut[i - 1] + 1, cut[i])

\* One more piece before them.
LEMMA OnePieceMore ==
  ASSUME NEW A, NEW text \in Seq(A), NEW p \in Nat, NEW q \in p..Len(text),
         NEW s \in Seq(Seq(A)), NEW cut, Pieces(text, q, s, cut),
         NEW t, t = <<SubSeq(text, p + 1, q)>> \o s
  PROVE  t \in Seq(Seq(A)) /\ \E c : Pieces(text, p, t, c)
<1> DEFINE c == [i \in 0..(Len(s) + 1) |-> IF i = 0 THEN p ELSE cut[i - 1]]
<1>1. PICK piece \in Seq(A) : piece = SubSeq(text, p + 1, q)
  <2>1. SubSeq(text, p + 1, q) \in Seq(A)
    BY SubSeqProperties
  <2> QED BY <2>1
<1>0. t = <<piece>> \o s
  BY <1>1
<1>2. t \in Seq(Seq(A)) /\ Len(t) = Len(s) + 1 /\ Len(s) \in Nat
  BY <1>0
<1>3. t[1] = piece /\ \A i \in 2..Len(t) : t[i] = s[i - 1]
  BY <1>0
<1>4. \A i \in 0..Len(s) : cut[i] \in q..Len(text)
  BY DEF Pieces
<1>5. c \in [0..Len(t) -> p..Len(text)]
  <2>1. \A i \in 0..(Len(s) + 1) : c[i] \in p..Len(text)
    BY <1>2, <1>4
  <2> QED BY <1>2, <2>1
<1>6. c[0] = p /\ \A i \in 1..(Len(s) + 1) : c[i] = cut[i - 1]
  BY <1>2
<1> HIDE DEF c
<1>7. c[Len(t)] = Len(text)
  <2>1. Len(t) \in 1..(Len(s) + 1) /\ Len(t) - 1 = Len(s)
    BY <1>2
  <2>2. c[Len(t)] = cut[Len(t) - 1]
    BY <1>6, <2>1
  <2> QED BY <2>1, <2>2 DEF Pieces
<1>8. ASSUME NEW i \in 1..Len(t)
      PROVE  c[i - 1] <= c[i] /\ t[i] = SubSeq(text, c[i - 1] + 1, c[i])
  <2>1. CASE i = 1
    <3>1. c[0] = p /\ c[1] = cut[1 - 1]
      BY <1>2, <1>6
    <3>2. c[1] = q
      BY <3>1 DEF Pieces
    <3>3. c[i - 1] = p /\ c[i] = q /\ t[i] = piece
      BY <1>3, <2>1, <3>1, <3>2
    <3> QED BY <1>1, <3>3
  <2>2. CASE i # 1
    <3>1. /\ i - 1 \in 1..Len(s) /\ i \in 2..Len(t)
          /\ i \in 1..(Len(s) + 1) /\ i - 1 \in 1..(Len(s) + 1)
      BY <1>2, <2>2
    <3>2. c[i - 1] = cut[(i - 1) - 1] /\ c[i] = cut[i - 1] /\ t[i] = s[i - 1]
      BY <1>2, <1>3, <1>6, <3>1
    <3>3. cut[(i - 1) - 1] <= cut[i - 1] /\ s[i - 1] = SubSeq(text, cut[(i - 1) - 1] + 1, cut[i - 1])
      BY <3>1 DEF Pieces
    <3> QED BY <3>2, <3>3
  <2> QED BY <2>1, <2>2
<1>9. Pieces(text, p, t, c)
  BY <1>5, <1>6, <1>7, <1>8 DEF Pieces
<1> QED BY <1>2, <1>9

LEMMA ChunksArePieces ==
  ASSUME NEW A, NEW text \in Seq(A)
  PROVE  /\ splitIntoChunks(text) \in Seq(Seq(A))
         /\ \E cut : Pieces(text, 0, splitIntoChunks(text), cut)
<1>1. PICK from : Chunking(text, from, 0) /\ splitIntoChunks(text) = from[0]
  BY ChunkingExists
<1> DEFINE Whole(p) == from[p] \in Seq(Seq(A)) /\ \E cut : Pieces(text, p, from[p], cut)
           T == {p \in 0..Len(text) : ~Whole(p)}
<1>2. SUFFICES ASSUME T # {} PROVE FALSE
  <2>1. 0 \in 0..Len(text)
    OBVIOUS
  <2> QED BY <1>1, <2>1
<1>3. PICK p \in T : \A q \in T : q <= p
  <2>1. Len(text) \in Nat /\ T \subseteq 0..Len(text)
    OBVIOUS
  <2> HIDE DEF T
  <2> QED BY <1>2, <2>1, GreatestNatural
<1>4. p \in 0..Len(text) /\ ~Whole(p)
  OBVIOUS
<1>5. \A q \in (p + 1)..Len(text) : Whole(q)
  <2>1. \A q \in (p + 1)..Len(text) : q \in 0..Len(text) /\ ~(q <= p)
    BY <1>4
  <2> QED BY <1>3, <2>1
<1> HIDE DEF Whole, T
<1>6. from[p] = Chunked(text, from, p)
  BY <1>1, <1>4 DEF Chunking
<1>7. CASE Len(text) - p <= ChunkSize
  <2> DEFINE piece == SubSeq(text, p + 1, Len(text))
             cut == [i \in 0..1 |-> IF i = 0 THEN p ELSE Len(text)]
  <2>1. from[p] = <<piece>>
    BY <1>6, <1>7 DEF Chunked
  <2>2. piece \in Seq(A)
    BY <1>4, SubSeqProperties
  <2>3. cut \in [0..1 -> p..Len(text)] /\ cut[0] = p /\ cut[1] = Len(text) /\ p <= Len(text)
    BY <1>4
  <2>4. from[p] \in Seq(Seq(A)) /\ Len(from[p]) = 1 /\ from[p][1] = piece
    <3> HIDE DEF piece
    <3> QED BY <2>1, <2>2
  <2> HIDE DEF cut
  <2>5. \A i \in 1..1 : i = 1 /\ i - 1 = 0
    OBVIOUS
  <2>6. Pieces(text, p, from[p], cut)
    BY <2>3, <2>4, <2>5 DEF Pieces
  <2> QED BY <1>4, <2>4, <2>6 DEF Whole
<1>8. CASE Len(text) - p > ChunkSize
  <2>1. PICK q \in (p + 1)..Len(text) : q = Cutoff(text, p)
    BY <1>4, <1>8, CutoffWithin
  <2>2. from[p] = <<SubSeq(text, p + 1, q)>> \o from[q]
    BY <1>4, <1>6, <1>8, <2>1, AttachmentsAssumption DEF Chunked
  <2>3. Whole(q)
    BY <1>5
  <2>4. q \in p..Len(text) /\ p \in Nat
    BY <1>4
  <2>5. from[q] \in Seq(Seq(A)) /\ \E cut : Pieces(text, q, from[q], cut)
    BY <2>3 DEF Whole
  <2>6. PICK cut : Pieces(text, q, from[q], cut)
    BY <2>5
  <2>7. from[p] \in Seq(Seq(A)) /\ \E c : Pieces(text, p, from[p], c)
    BY <2>2, <2>4, <2>5, <2>6, OnePieceMore
  <2> QED BY <1>4, <2>7 DEF Whole
<1> QED BY <1>4, <1>7, <1>8, AttachmentsAssumption

\* FlattenSeq is defined by its equation when the joined pieces are known.
Flattening(s, flatten) ==
  flatten = [i \in 1..Len(s) |-> IF i = 1 THEN s[i] ELSE flatten[i - 1] \o s[i]]

\* Joining the pieces of a text gives the text back.
LEMMA PiecesJoin ==
  ASSUME NEW A, NEW text \in Seq(A), NEW s \in Seq(Seq(A)),
         NEW cut, Pieces(text, 0, s, cut)
  PROVE  FlattenSeq(s) = text
<1> DEFINE joined == [i \in 1..Len(s) |-> SubSeq(text, 1, cut[i])]
<1>1. Len(s) \in Nat /\ Len(text) \in Nat
  OBVIOUS
<1>2. \A i \in 0..Len(s) : cut[i] \in 0..Len(text)
  BY DEF Pieces
<1>3. ASSUME NEW i \in 2..Len(s)
      PROVE  SubSeq(text, 1, cut[i]) = SubSeq(text, 1, cut[i - 1]) \o s[i]
  <2>1. i \in 1..Len(s) /\ i - 1 \in 0..Len(s) /\ i \in 0..Len(s)
    OBVIOUS
  <2>2. cut[i - 1] <= cut[i] /\ s[i] = SubSeq(text, cut[i - 1] + 1, cut[i])
    BY <2>1 DEF Pieces
  <2>3. PICK k \in 0..Len(text) : k = cut[i - 1]
    BY <1>2, <2>1
  <2>4. PICK n \in k..Len(text) : n = cut[i]
    BY <1>2, <2>1, <2>2, <2>3
  <2>5. k \in (1 - 1)..Len(text) /\ 1 \in 1..(Len(text) + 1)
    OBVIOUS
  <2>6. SubSeq(text, 1, k) \o SubSeq(text, k + 1, n) = SubSeq(text, 1, n)
    BY <2>5, ConcatAdjacentSubSeq
  <2> QED BY <2>2, <2>3, <2>4, <2>6
<1>4. Len(s) >= 1 => s[1] = SubSeq(text, 1, cut[1])
  <2>1. Len(s) >= 1 => 1 \in 1..Len(s)
    OBVIOUS
  <2>2. Len(s) >= 1 => s[1] = SubSeq(text, cut[1 - 1] + 1, cut[1])
    BY <2>1 DEF Pieces
  <2>3. cut[1 - 1] + 1 = 1
    BY DEF Pieces
  <2> QED BY <2>2, <2>3
<1>5. CASE Len(s) = 0
  <2>1. Len(text) = 0
    BY <1>5 DEF Pieces
  <2> QED BY <1>5, <2>1 DEF FlattenSeq
<1>6. CASE Len(s) # 0
  <2>1. Flattening(s, joined)
    <3>1. \A i \in 1..Len(s) : joined[i] = IF i = 1 THEN s[i] ELSE joined[i - 1] \o s[i]
      <4> SUFFICES ASSUME NEW i \in 1..Len(s)
                   PROVE  joined[i] = IF i = 1 THEN s[i] ELSE joined[i - 1] \o s[i]
        OBVIOUS
      <4>1. CASE i = 1
        BY <1>1, <1>4, <4>1
      <4>2. CASE i # 1
        <5>1. i \in 2..Len(s) /\ i - 1 \in 1..Len(s)
          BY <4>2
        <5> QED BY <1>3, <4>2, <5>1
      <4> QED BY <4>1, <4>2
    <3>2. joined = [i \in 1..Len(s) |-> joined[i]]
      OBVIOUS
    <3> HIDE DEF joined
    <3>3. joined = [i \in 1..Len(s) |-> IF i = 1 THEN s[i] ELSE joined[i - 1] \o s[i]]
      BY <3>1, <3>2
    <3> QED BY <3>3 DEF Flattening
  <2> HIDE DEF joined
  <2> DEFINE flatten == CHOOSE f : Flattening(s, f)
  <2>2. FlattenSeq(s) = flatten[Len(s)]
    BY <1>6, Zenon DEF FlattenSeq, Flattening
  <2>3. Flattening(s, flatten)
    BY <2>1
  <2> HIDE DEF flatten
  <2> DEFINE S == {k \in Nat : k + 1 <= Len(s) => flatten[k + 1] = SubSeq(text, 1, cut[k + 1])}
  <2>4. \A i \in 1..Len(s) : flatten[i] = IF i = 1 THEN s[i] ELSE flatten[i - 1] \o s[i]
    BY <2>3 DEF Flattening
  <2>5. 0 \in S
    <3>1. 1 \in 1..Len(s) /\ 0 + 1 = 1
      BY <1>1, <1>6
    <3>2. flatten[1] = s[1]
      BY <2>4, <3>1
    <3> QED BY <1>1, <1>4, <3>1, <3>2
  <2>6. ASSUME NEW k \in S PROVE k + 1 \in S
    <3> SUFFICES ASSUME (k + 1) + 1 <= Len(s)
                 PROVE  flatten[(k + 1) + 1] = SubSeq(text, 1, cut[(k + 1) + 1])
      BY <2>6
    <3>1. PICK i \in 2..Len(s) : i = (k + 1) + 1
      BY <1>1
    <3>2. i - 1 = k + 1 /\ k + 1 <= Len(s) /\ i \in 1..Len(s) /\ i # 1
      BY <3>1, <1>1
    <3>3. flatten[i - 1] = SubSeq(text, 1, cut[i - 1])
      BY <3>2
    <3>4. flatten[i] = flatten[i - 1] \o s[i]
      BY <2>4, <3>2
    <3>5. flatten[i] = SubSeq(text, 1, cut[i])
      BY <1>3, <3>3, <3>4
    <3> QED BY <3>1, <3>5
  <2> HIDE DEF S
  <2>7. S = Nat
    <3>1. S \subseteq Nat
      BY DEF S
    <3> QED BY <2>5, <2>6, <3>1, NaturalInduction
  <2>8. Len(s) - 1 \in S /\ (Len(s) - 1) + 1 = Len(s)
    BY <1>1, <1>6, <2>7
  <2>9. flatten[Len(s)] = SubSeq(text, 1, cut[Len(s)])
    BY <2>8, <1>1 DEF S
  <2>10. cut[Len(s)] = Len(text)
    BY DEF Pieces
  <2>11. SubSeq(text, 1, Len(text)) = text
    BY SubSeqFull
  <2> QED BY <2>2, <2>9, <2>10, <2>11
<1> QED BY <1>5, <1>6

\* splitIntoChunks loses nothing: its chunks joined give the text back.
LEMMA ChunksJoin ==
  ASSUME NEW A, NEW text \in Seq(A)
  PROVE  splitIntoChunks(text) \in Seq(Seq(A)) /\ FlattenSeq(splitIntoChunks(text)) = text
BY ChunksArePieces, PiecesJoin

\* Where a number stands among blocks of k.
LEMMA BlockOf ==
  ASSUME NEW k \in Nat \ {0}, NEW i \in Nat, NEW r \in 0..(k - 1)
  PROVE  (i * k + r) \div k = i
OBVIOUS

\* A block more is within m blocks.
LEMMA BlockWithin ==
  ASSUME NEW k \in Nat, NEW j \in Nat, NEW m \in Nat, j + 1 <= m
  PROVE  j * k \in Nat /\ j * k + k <= m * k
<1>1. \A a, b \in Nat : (a + b) * k = a * k + b * k /\ a * k \in Nat
  OBVIOUS
<1>2. PICK d \in Nat : m = (j + 1) + d
  OBVIOUS
<1>3. m * k = (j + 1) * k + d * k /\ (j + 1) * k = j * k + 1 * k /\ 1 * k = k
  BY <1>1, <1>2
<1>4. PICK x, y, z \in Nat : x = j * k /\ y = d * k /\ z = m * k
  BY <1>1
<1>5. z = (x + k) + y
  BY <1>3, <1>4
<1>6. x + k <= z
  BY <1>5
<1> QED BY <1>4, <1>6

\* Each chunk k times, one after the other.
Repeats(rows, chunks, k) == rows = [n \in 1..(Len(chunks) * k) |-> chunks[((n - 1) \div k) + 1]]
EveryKth(rows, c, k) == [i \in 1..(Len(rows) \div k) |-> rows[(i - 1) * k + c]]

\* If each chunk is there k times, every k-th row from the c-th on is the text's
\* own chunks again.
LEMMA CopiesAreChunks ==
  ASSUME NEW A, NEW chunks \in Seq(A), NEW k \in Nat \ {0}, NEW c \in 1..k,
         NEW rows, Repeats(rows, chunks, k)
  PROVE  EveryKth(rows, c, k) = chunks
<1> PICK m \in Nat : m = Len(chunks)
  OBVIOUS
<1>1. m * k \in Nat /\ Len(rows) = m * k
  BY DEF Repeats
<1>2. Len(rows) \div k = m
  <2>1. (m * k + 0) \div k = m
    BY BlockOf
  <2> QED BY <1>1, <2>1
<1>3. ASSUME NEW i \in 1..m PROVE rows[(i - 1) * k + c] = chunks[i]
  <2>1. PICK j \in Nat : j = i - 1 /\ j + 1 <= m
    OBVIOUS
  <2>2. PICK n \in Int : n = j * k + c
    OBVIOUS
  <2>3. n \in 1..(m * k)
    <3>1. j * k \in Nat /\ j * k + k <= m * k
      BY <2>1, BlockWithin
    <3>2. PICK x \in Nat, z \in Nat : x = j * k /\ z = m * k
      BY <1>1, <3>1
    <3>3. n = x + c /\ x + k <= z
      BY <2>2, <3>1, <3>2
    <3>4. n \in 1..z
      BY <3>3
    <3> QED BY <3>2, <3>4
  <2>4. (n - 1) \div k = j
    <3>1. c - 1 \in 0..(k - 1) /\ n - 1 = j * k + (c - 1)
      BY <2>2
    <3> QED BY <3>1, BlockOf
  <2>5. rows[n] = chunks[((n - 1) \div k) + 1]
    BY <2>3 DEF Repeats
  <2> QED BY <2>1, <2>2, <2>4, <2>5
<1>4. chunks = [i \in 1..m |-> chunks[i]]
  OBVIOUS
<1>5. EveryKth(rows, c, k) = [i \in 1..m |-> rows[(i - 1) * k + c]]
  BY <1>2 DEF EveryKth
<1> QED BY <1>3, <1>4, <1>5

\* Whatever failed how often, what read_input_document returns for a document of
\* a completed ingestion is the text that was uploaded, or that text with every
\* chunk once more for each failed attempt that had stored its chunks.
THEOREM IngestedIsReadable == AttSpec => []DocumentsReadable
<1>1. ASSUME AttInv, DocumentsProcessed, stage = "completed", NEW f \in docs
      PROVE  /\ wasted[f] = 0 => disk[f] = {ReadInputDocument(f)}
             /\ \A c \in 1..copies[f] : disk[f] = {ReadCopy(f, c)}
  <2>1. PICK t \in Contents[f] : disk[f] = {t}
    BY <1>1 DEF AttInv, AttType, UploadInv, DocumentsProcessed
  <2> DEFINE stored == CHOOSE text \in disk[f] : TRUE
  <2>2. stored = t
    BY <2>1
  <2>3. ListAttachmentChunks(f) = [n \in 1..(Len(splitIntoChunks(stored)) * copies[f]) |->
                                     splitIntoChunks(stored)[((n - 1) \div copies[f]) + 1]]
    BY DEF ListAttachmentChunks
  <2> HIDE DEF stored
  <2> DEFINE chunks == splitIntoChunks(t)
  <2>4. chunks \in Seq(Seq(STRING)) /\ FlattenSeq(chunks) = t
    <3>1. t \in Seq(STRING)
      BY <1>1, AttachmentsAssumption DEF AttInv, AttType
    <3> QED BY <3>1, ChunksJoin
  <2> DEFINE rows == ListAttachmentChunks(f)
  <2>5. PICK k \in Nat \ {0} : k = copies[f] /\ k = wasted[f] + 1
    BY <1>1 DEF DocumentsProcessed, AttInv, AttType
  <2>6. rows = [n \in 1..(Len(chunks) * k) |-> chunks[((n - 1) \div k) + 1]]
    BY <2>2, <2>3, <2>5
  <2> HIDE DEF chunks
  <2>7. Len(chunks) \in Nat /\ chunks = [n \in 1..Len(chunks) |-> chunks[n]]
    BY <2>4
  <2> HIDE DEF rows
  <2>8. ASSUME NEW c \in 1..k PROVE EveryKth(rows, c, k) = chunks
    <3>1. Repeats(rows, chunks, k)
      BY <2>6 DEF Repeats
    <3> QED BY <2>4, <2>5, <3>1, CopiesAreChunks
  <2>9. ASSUME NEW c \in 1..copies[f] PROVE disk[f] = {ReadCopy(f, c)}
    <3>1. ReadCopy(f, c) = FlattenSeq(EveryKth(rows, c, k))
      BY <2>5 DEF ReadCopy, EveryKth, rows
    <3>2. ReadCopy(f, c) = FlattenSeq(chunks)
      BY <2>5, <2>8, <3>1
    <3> QED BY <2>1, <2>4, <3>2
  <2>10. ASSUME wasted[f] = 0 PROVE disk[f] = {ReadInputDocument(f)}
    <3>1. k = 1 /\ wasted[f] = 0
      BY <2>5, <2>10
    <3>2. rows = [n \in 1..Len(chunks) |-> chunks[n]]
      <4>1. Len(chunks) * 1 = Len(chunks)
        <5>1. \A n \in Nat : n * 1 = n
          OBVIOUS
        <5> QED BY <2>7, <5>1
      <4>2. \A n \in 1..Len(chunks) : ((n - 1) \div 1) + 1 = n
        BY <2>7
      <4>3. rows = [n \in 1..Len(chunks) |-> chunks[((n - 1) \div 1) + 1]]
        BY <2>6, <3>1, <4>1
      <4> QED BY <4>2, <4>3
    <3> QED BY <2>1, <2>4, <2>7, <3>2 DEF ReadInputDocument, rows
  <2> QED BY <2>9, <2>10
<1>2. AttInv /\ DocumentsProcessed => DocumentsReadable
  BY <1>1 DEF DocumentsReadable
<1> QED BY <1>2, AttInvProcessed, AttInitial, AttStep, PTL DEF AttSpec

-----------------------------------------------------------------------------
(* The event stream (EventStream).                                           *)

LEMMA AppendedSet ==
  ASSUME NEW A, NEW s \in Seq(A), NEW e \in A
  PROVE  /\ Append(s, e) \in Seq(A)
         /\ ToSet(Append(s, e)) = ToSet(s) \cup {e}
         /\ OnceEach(s) /\ e \notin ToSet(s) => OnceEach(Append(s, e))
<1> DEFINE t == Append(s, e)
<1>1. t \in Seq(A) /\ Len(s) \in Nat /\ Len(t) = Len(s) + 1 /\ t[Len(s) + 1] = e
  OBVIOUS
<1>2. \A i \in 1..Len(s) : t[i] = s[i]
  OBVIOUS
<1>3. DOMAIN s = 1..Len(s) /\ DOMAIN t = 1..(Len(s) + 1)
  OBVIOUS
<1>4. \A i \in 1..(Len(s) + 1) : i \in 1..Len(s) \/ i = Len(s) + 1
  BY <1>1
<1>5. \A i \in 1..Len(s) : i \in 1..(Len(s) + 1)
  BY <1>1
<1> HIDE DEF t
<1>6. ToSet(t) = ToSet(s) \cup {e}
  <2>1. \A x \in ToSet(t) : x \in ToSet(s) \cup {e}
    BY <1>1, <1>2, <1>3, <1>4 DEF ToSet
  <2>2. \A x \in ToSet(s) \cup {e} : x \in ToSet(t)
    <3>1. Len(s) + 1 \in 1..(Len(s) + 1)
      BY <1>1
    <3> QED BY <1>1, <1>2, <1>3, <1>5, <3>1 DEF ToSet
  <2> QED BY <2>1, <2>2
<1>7. ASSUME OnceEach(s), e \notin ToSet(s) PROVE OnceEach(t)
  <2>1. \A i \in 1..Len(s) : t[i] # e
    BY <1>2, <1>3, <1>7 DEF ToSet
  <2> QED BY <1>1, <1>2, <1>3, <1>4, <1>7, <2>1 DEF OnceEach
<1> QED BY <1>1, <1>6, <1>7 DEF t

LEMMA TailSet ==
  ASSUME NEW A, NEW s \in Seq(A), s # <<>>
  PROVE  /\ Head(s) \in A /\ Tail(s) \in Seq(A) /\ Len(Tail(s)) <= Len(s)
         /\ ToSet(s) = {Head(s)} \cup ToSet(Tail(s))
<1>1. PICK n \in Nat : Len(s) = n + 1
  <2>1. Len(s) \in Nat /\ Len(s) # 0
    BY EmptySeq
  <2>2. Len(s) - 1 \in Nat /\ Len(s) = (Len(s) - 1) + 1
    BY <2>1
  <2> QED BY <2>2
<1>2. Tail(s) \in Seq(A) /\ Len(Tail(s)) = n /\ Head(s) = s[1] /\ s[1] \in A
  BY <1>1
<1>3. \A i \in 1..n : Tail(s)[i] = s[i + 1]
  BY <1>1
<1>4. DOMAIN s = 1..(n + 1) /\ DOMAIN Tail(s) = 1..n
  BY <1>1, <1>2
<1>5. \A x \in ToSet(s) : x \in {Head(s)} \cup ToSet(Tail(s))
  <2>1. ASSUME NEW i \in 1..(n + 1), i # 1 PROVE i - 1 \in 1..n /\ (i - 1) + 1 = i
    BY <2>1
  <2>2. ASSUME NEW i \in 1..(n + 1) PROVE s[i] = Head(s) \/ \E j \in 1..n : s[i] = Tail(s)[j]
    BY <1>2, <1>3, <2>1
  <2> QED BY <1>4, <2>2 DEF ToSet
<1>6. \A x \in {Head(s)} \cup ToSet(Tail(s)) : x \in ToSet(s)
  <2>1. 1 \in 1..(n + 1) /\ \A i \in 1..n : i + 1 \in 1..(n + 1)
    OBVIOUS
  <2> QED BY <1>2, <1>3, <1>4, <2>1 DEF ToSet
<1> QED BY <1>1, <1>2, <1>5, <1>6

\* Cutting a time to whole seconds keeps the order of times.
LEMMA WholeSecondsKeepOrder ==
  ASSUME NEW a \in Nat, NEW b \in Nat
  PROVE  /\ WholeSeconds(a) \in Nat /\ WholeSeconds(a) <= a
         /\ a <= b => WholeSeconds(a) <= WholeSeconds(b)
<1>1. PICK k \in Nat \ {0} : k = TicksPerSecond
  BY EventStreamAssumption
<1>2. PICK p \in Nat : p = a \div k /\ p * k <= a /\ a < (p + 1) * k
  BY <1>1
<1>3. PICK q \in Nat : q = b \div k /\ q * k <= b /\ b < (q + 1) * k
  BY <1>1
<1>4. p * k \in Nat /\ q * k \in Nat
  BY <1>1
<1>5. ASSUME a <= b, p > q PROVE FALSE
  <2>1. p >= q + 1
    BY <1>5
  <2>2. PICK r \in Nat : p = q + 1 + r
    <3>1. p - q - 1 \in Nat /\ p = q + 1 + (p - q - 1)
      BY <2>1
    <3> QED BY <3>1
  <2>3. p * k = (q + 1) * k + r * k /\ r * k \in Nat /\ (q + 1) * k \in Nat
    BY <1>1, <2>2
  <2>4. p * k >= (q + 1) * k
    BY <1>4, <2>3
  <2> QED BY <1>2, <1>3, <1>4, <1>5, <2>3, <2>4
<1>6. ASSUME a <= b PROVE p * k <= q * k
  <2>1. PICK r \in Nat : q = p + r
    <3>1. q - p \in Nat /\ q = p + (q - p)
      BY <1>5, <1>6
    <3> QED BY <3>1
  <2>2. q * k = p * k + r * k /\ r * k \in Nat
    BY <1>1, <2>1
  <2> QED BY <1>4, <2>2
<1> QED BY <1>1, <1>2, <1>3, <1>4, <1>6 DEF WholeSeconds

LEMMA StoredTimes ==
  ASSUME EvTypeOK, NEW d \in Events, NEW e \in Events, made[d] # Never, made[e] # Never
  PROVE  /\ made[d] \in Nat /\ Stored(d) \in Nat /\ Stored(d) <= made[d]
         /\ made[d] <= made[e] => Stored(d) <= Stored(e)
<1>1. made[d] \in Nat /\ made[e] \in Nat
  BY EventStreamAssumption DEF EvTypeOK
<1> QED BY <1>1, WholeSecondsKeepOrder DEF Stored

\* Entries of the journal are made, and each is in it once.
Journalled ==
  /\ EvTypeOK
  /\ journal \in Seq(Events)
  /\ \A e \in ToSet(journal) : made[e] # Never
  /\ OnceEach(journal)

\* The listing has every entry of the journal once, in the order of the stored
\* times.
LEMMA ListingIsWhole ==
  ASSUME Journalled
  PROVE  /\ ListEvents \in Seq(Events) /\ Len(ListEvents) = Len(journal)
         /\ ToSet(ListEvents) = ToSet(journal)
         /\ OnceEach(ListEvents)
         /\ \A i, j \in DOMAIN ListEvents : i < j => Stored(ListEvents[i]) <= Stored(ListEvents[j])
<1> DEFINE S == ToSet(journal)
           R == {p \in S \X S : Before(p[1], p[2])}
           Place(x) == CHOOSE i \in DOMAIN journal : journal[i] = x
           rank == [e \in S |-> Cardinality(Earlier(e))]
<1>1. PICK n \in Nat : n = Len(journal) /\ DOMAIN journal = 1..n
  BY DEF Journalled
<1>2. journal \in Bijection(1..n, S)
  <2>1. journal \in [1..n -> S]
    BY <1>1 DEF Journalled, ToSet
  <2>2. journal \in Surjection(1..n, S)
    BY <1>1, <2>1 DEF ToSet, Surjection
  <2>3. journal \in Injection(1..n, S)
    BY <1>1, <2>1 DEF Journalled, OnceEach, Injection, IsInjective
  <2> QED BY <2>2, <2>3 DEF Bijection
<1>3. IsFiniteSet(S) /\ Cardinality(S) = n
  <2>1. IsFiniteSet(1..n) /\ Cardinality(1..n) = n
    <3>1. 1 \in Int /\ n \in Int /\ (1 > n => n = 0) /\ n - 1 + 1 = n
      OBVIOUS
    <3> QED BY <3>1, FS_Interval
  <2>2. ExistsBijection(1..n, S)
    BY <1>2 DEF ExistsBijection
  <2> HIDE DEF S
  <2> QED BY <2>1, <2>2, FS_Bijection
<1>4. \A x \in S : Place(x) \in 1..n /\ journal[Place(x)] = x
  BY <1>1 DEF ToSet
<1>5. \A x \in S : Stored(x) \in Nat
  BY StoredTimes, <1>1 DEF Journalled, ToSet
<1>6. \A x, y \in S : <<x, y>> \in R <=> Before(x, y)
  OBVIOUS
<1>7. \A x, y \in S : Before(x, y) <=>
         (Stored(x) < Stored(y) \/ (Stored(x) = Stored(y) /\ Place(x) < Place(y)))
  BY Zenon DEF Before
<1>8. rank \in [S -> Nat] /\ \A x \in S : rank[x] = Cardinality({y \in S : <<y, x>> \in R})
  <2>1. ASSUME NEW x \in S PROVE Earlier(x) = {y \in S : <<y, x>> \in R}
    BY <1>6 DEF Earlier
  <2>2. ASSUME NEW x \in S PROVE Cardinality(Earlier(x)) \in Nat
    <3>1. Earlier(x) \in SUBSET S
      BY DEF Earlier
    <3> HIDE DEF S
    <3>2. IsFiniteSet(Earlier(x))
      BY <1>3, <3>1, FS_Subset
    <3> QED BY <3>2, FS_CardinalityType
  <2> QED BY <2>1, <2>2
<1>9. \A x \in S : rank[x] = Cardinality(Earlier(x))
  OBVIOUS
<1>0. \A k \in DOMAIN journal : ListEvents[k] = CHOOSE e \in S : Cardinality(Earlier(e)) = k - 1
  BY Zenon DEF ListEvents
<1> HIDE DEF Place, R, rank
<1>10. \A x, y \in S : Place(x) = Place(y) => x = y
  BY <1>4
<1>11. \A x \in S : Place(x) \in Nat
  BY <1>4
<1>12. \A x \in S : <<x, x>> \notin R
  <2> HIDE DEF S
  <2> QED BY <1>5, <1>6, <1>7, <1>11
<1>13. \A x, y, z \in S : <<x, y>> \in R /\ <<y, z>> \in R => <<x, z>> \in R
  <2> HIDE DEF S
  <2>1. SUFFICES ASSUME NEW x \in S, NEW y \in S, NEW z \in S, Before(x, y), Before(y, z)
                 PROVE  Before(x, z)
    BY <1>6
  <2> QED BY <1>5, <1>7, <1>11, <2>1
<1>14. \A x, y \in S : x = y \/ <<x, y>> \in R \/ <<y, x>> \in R
  <2> HIDE DEF S
  <2>1. SUFFICES ASSUME NEW x \in S, NEW y \in S, x # y PROVE Before(x, y) \/ Before(y, x)
    BY <1>6
  <2> QED BY <1>5, <1>7, <1>10, <1>11, <2>1
<1>15. /\ \A k \in 0..(n - 1) : \E x \in S : rank[x] = k
       /\ \A x, y \in S : rank[x] = rank[y] => x = y
       /\ \A x, y \in S : <<x, y>> \in R => rank[x] < rank[y]
  <2> HIDE DEF S
  <2>1. /\ \A k \in 0..(Cardinality(S) - 1) : \E x \in S : rank[x] = k
        /\ \A x, y \in S : rank[x] = rank[y] => x = y
        /\ \A x, y \in S : <<x, y>> \in R => rank[x] < rank[y]
    BY <1>3, <1>8, <1>12, <1>13, <1>14, RanksAreTaken, Zenon
  <2> QED BY <1>3, <2>1
<1>16. \A k \in 1..n : ListEvents[k] \in S /\ rank[ListEvents[k]] = k - 1
  <2> HIDE DEF S
  <2>1. SUFFICES ASSUME NEW k \in 1..n PROVE ListEvents[k] \in S /\ rank[ListEvents[k]] = k - 1
    OBVIOUS
  <2>2. PICK x \in S : rank[x] = k - 1
    BY <1>15
  <2>3. ListEvents[k] = CHOOSE e \in S : Cardinality(Earlier(e)) = k - 1
    BY <1>0, <1>1
  <2> QED BY <1>9, <2>2, <2>3
<1>17. ListEvents \in Seq(Events) /\ Len(ListEvents) = n /\ DOMAIN ListEvents = 1..n
  <2>1. DOMAIN ListEvents = 1..n /\ ListEvents = [k \in 1..n |-> ListEvents[k]]
    BY <1>1 DEF ListEvents
  <2>2. S \subseteq Events
    BY DEF Journalled, ToSet
  <2>3. \A k \in 1..n : ListEvents[k] \in Events
    BY <1>16, <2>2
  <2> QED BY <2>1, <2>3
<1>18. OnceEach(ListEvents)
  BY <1>16, <1>17 DEF OnceEach
<1>19. ToSet(ListEvents) = S
  <2> HIDE DEF S
  <2>1. \A x \in ToSet(ListEvents) : x \in S
    BY <1>16, <1>17 DEF ToSet
  <2>2. ListEvents \in Injection(1..n, S)
    BY <1>16, <1>17, <1>18 DEF OnceEach, Injection, IsInjective
  <2>3. IsFiniteSet(1..n) /\ Cardinality(1..n) = n
    <3>1. 1 \in Int /\ n \in Int /\ (1 > n => n = 0) /\ n - 1 + 1 = n
      OBVIOUS
    <3> QED BY <3>1, FS_Interval
  <2>4. ListEvents \in Surjection(1..n, S)
    BY <1>3, <2>2, <2>3, FS_Injection
  <2>5. \A x \in S : x \in ToSet(ListEvents)
    BY <1>17, <2>4 DEF Surjection, ToSet
  <2> QED BY <2>1, <2>5
<1>20. ASSUME NEW i \in 1..n, NEW j \in 1..n, i < j
       PROVE  Stored(ListEvents[i]) <= Stored(ListEvents[j])
  <2>1. PICK x \in S, y \in S : x = ListEvents[i] /\ y = ListEvents[j] /\ rank[x] < rank[y]
    <3>1. i - 1 < j - 1
      BY <1>20
    <3> QED BY <1>16, <3>1
  <2>2. rank[x] \in Nat /\ rank[y] \in Nat
    BY <1>8
  <2> HIDE DEF S
  <2>3. ~Before(y, x)
    <3>1. <<y, x>> \in R => rank[y] < rank[x]
      BY <1>15
    <3>2. ~(rank[y] < rank[x])
      BY <2>1, <2>2
    <3> QED BY <1>6, <3>1, <3>2
  <2>4. ~(Stored(y) < Stored(x))
    BY <1>7, <2>3
  <2>5. Stored(x) <= Stored(y)
    BY <1>5, <2>4
  <2> QED BY <2>1, <2>5
<1> HIDE DEF S
<1>21. \A i, j \in DOMAIN ListEvents : i < j => Stored(ListEvents[i]) <= Stored(ListEvents[j])
  BY <1>17, <1>20
<1>22. Len(ListEvents) = Len(journal) /\ ToSet(ListEvents) = ToSet(journal)
  BY <1>1, <1>17, <1>19 DEF S
<1> QED BY <1>17, <1>18, <1>21, <1>22, Zenon

\* t is the latest stored time of the entries of s, and Never when there is none.
LatestStored(s, t) ==
  /\ \A d \in ToSet(s) : Stored(d) <= t
  /\ t = Never \/ \E d \in ToSet(s) : Stored(d) = t

\* What a poll has written and remembers once it has passed n entries of a list.
Polled(list, n, acc) ==
  /\ acc \in [out : Seq(Events), last : {Never} \cup 0..MaxClock]
  /\ OnceEach(acc.out)
  /\ ToSet(acc.out) \subseteq ToSet(wrote) \cup ToSet(list)
  /\ LatestStored(acc.out, acc.last)
  /\ \A i \in 1..n : \E d \in ToSet(acc.out) : Stored(d) >= Stored(list[i])

LEMMA PollPassesEntry ==
  ASSUME EvTypeOK, NEW list \in Seq(Events), NEW n \in Nat, n + 1 \in 1..Len(list),
         \A d \in ToSet(wrote) \cup ToSet(list) : made[d] # Never,
         NEW acc, Polled(list, n, acc), NEW next, next = AfterEntry(list[n + 1], acc)
  PROVE  Polled(list, n + 1, next)
<1> DEFINE e == list[n + 1]
<1>1. e \in Events /\ e \in ToSet(list) /\ made[e] # Never
  BY DEF ToSet
<1>2. \A d \in ToSet(acc.out) : d \in Events /\ made[d] # Never
  <2>1. ToSet(wrote) \subseteq Events
    BY DEF EvTypeOK
  <2>2. ToSet(list) \subseteq Events
    BY DEF ToSet
  <2> QED BY <2>1, <2>2 DEF Polled
<1>3. Stored(e) \in 0..MaxClock /\ \A d \in ToSet(acc.out) : Stored(d) \in Nat
  <2>1. Stored(e) \in Nat /\ Stored(e) <= made[e] /\ made[e] \in 0..MaxClock
    BY <1>1, StoredTimes DEF EvTypeOK
  <2>3. MaxClock \in Nat
    BY EventStreamAssumption
  <2>4. Stored(e) \in 0..MaxClock
    BY <2>1, <2>3
  <2>2. ASSUME NEW d \in ToSet(acc.out) PROVE Stored(d) \in Nat
    BY <1>1, <1>2, StoredTimes
  <2> QED BY <2>2, <2>4
<1>4. \A i \in 1..(n + 1) : i \in 1..n \/ list[i] = e
  <2>1. \A i \in 1..(n + 1) : i \in 1..n \/ i = n + 1
    OBVIOUS
  <2> QED BY <2>1
<1>5. acc.out \in Seq(Events) /\ acc.last \in {Never} \cup 0..MaxClock
  BY DEF Polled
<1> HIDE DEF e
<1>6. CASE Stored(e) > acc.last
  <2>1. next = [out |-> Append(acc.out, e), last |-> Stored(e)]
    BY <1>6 DEF AfterEntry, IsNew, e
  <2>2. next.out = Append(acc.out, e) /\ next.last = Stored(e)
    BY <2>1
  <2>3. e \notin ToSet(acc.out)
    BY <1>3, <1>5, <1>6, EventStreamAssumption DEF Polled, LatestStored, Never
  <2>4. next.out \in Seq(Events) /\ ToSet(next.out) = ToSet(acc.out) \cup {e} /\ OnceEach(next.out)
    BY <1>1, <1>5, <2>2, <2>3, AppendedSet DEF Polled
  <2>5. next \in [out : Seq(Events), last : {Never} \cup 0..MaxClock]
    BY <1>3, <2>1, <2>2, <2>4
  <2>6. \A d \in ToSet(next.out) : Stored(d) <= next.last
    BY <1>3, <1>5, <1>6, <2>2, <2>4, EventStreamAssumption DEF Polled, LatestStored, Never
  <2>7. LatestStored(next.out, next.last)
    BY <2>2, <2>4, <2>6 DEF LatestStored
  <2>8. \A i \in 1..(n + 1) : \E d \in ToSet(next.out) : Stored(d) >= Stored(list[i])
    <3>1. Stored(e) >= Stored(e)
      BY <1>3
    <3>2. \A i \in 1..n : \E d \in ToSet(acc.out) : Stored(d) >= Stored(list[i])
      BY DEF Polled
    <3> QED BY <1>4, <2>4, <3>1, <3>2
  <2>9. ToSet(next.out) \subseteq ToSet(wrote) \cup ToSet(list)
    BY <1>1, <2>4 DEF Polled
  <2> QED BY <2>4, <2>5, <2>7, <2>8, <2>9 DEF Polled
<1>7. CASE ~(Stored(e) > acc.last)
  <2>1. next = acc
    BY <1>7 DEF AfterEntry, IsNew, e
  <2>2. PICK d \in ToSet(acc.out) : Stored(d) >= Stored(e)
    BY <1>3, <1>5, <1>7, EventStreamAssumption DEF Polled, LatestStored, Never
  <2>3. \A i \in 1..n : \E x \in ToSet(acc.out) : Stored(x) >= Stored(list[i])
    BY DEF Polled
  <2>4. \A i \in 1..(n + 1) : \E x \in ToSet(acc.out) : Stored(x) >= Stored(list[i])
    BY <1>4, <2>2, <2>3
  <2> QED BY <2>1, <2>4 DEF Polled
<1> QED BY <1>6, <1>7

\* PollWrites, as the function it is defined by.
Polling(list, after, n) ==
  after = [k \in 0..n |-> IF k = 0 THEN [out |-> wrote, last |-> lastTime]
                          ELSE AfterEntry(list[k], after[k - 1])]

LEMMA PollingExists ==
  ASSUME NEW list, NEW n \in Nat
  PROVE  \E after : Polling(list, after, n)
<1> DEFINE S == {m \in Nat : \E after : Polling(list, after, m)}
<1>1. 0 \in S
  <2> DEFINE first == [k \in 0..0 |-> [out |-> wrote, last |-> lastTime]]
  <2>1. \A k \in 0..0 : k = 0
    OBVIOUS
  <2>2. Polling(list, first, 0)
    BY <2>1 DEF Polling
  <2> QED BY <2>2
<1>2. ASSUME NEW m \in S PROVE m + 1 \in S
  <2>1. PICK f : Polling(list, f, m)
    OBVIOUS
  <2>2. m \in Nat
    OBVIOUS
  <2> DEFINE g == [k \in 0..(m + 1) |-> IF k = m + 1 THEN AfterEntry(list[k], f[m]) ELSE f[k]]
  <2>3. \A k \in 0..(m + 1) : /\ k = m + 1 => k # 0 /\ k - 1 = m
                              /\ k # m + 1 => k \in 0..m /\ k - 1 # m + 1
                              /\ k # 0 => k - 1 \in 0..(m + 1) /\ k - 1 # m + 1
    BY <2>2
  <2>4. \A k \in 0..m : f[k] = IF k = 0 THEN [out |-> wrote, last |-> lastTime]
                               ELSE AfterEntry(list[k], f[k - 1])
    BY <2>1 DEF Polling
  <2>5. \A k \in 0..(m + 1) : k # 0 => g[k - 1] = f[k - 1]
    BY <2>3
  <2>6. \A k \in 0..(m + 1) : g[k] = IF k = 0 THEN [out |-> wrote, last |-> lastTime]
                                     ELSE AfterEntry(list[k], g[k - 1])
    BY <2>3, <2>4, <2>5
  <2>7. g = [k \in 0..(m + 1) |-> g[k]]
    OBVIOUS
  <2> HIDE DEF g
  <2>8. Polling(list, g, m + 1)
    BY <2>6, <2>7 DEF Polling
  <2> QED BY <2>2, <2>8
<1> HIDE DEF S
<1>3. S = Nat
  <2>1. S \subseteq Nat
    BY DEF S
  <2> QED BY <1>1, <1>2, <2>1, NaturalInduction
<1> QED BY <1>3 DEF S

\* A poll writes no entry twice, remembers the latest stored time it has written,
\* and has written, for every entry of the journal, one that is stored as late.
LEMMA PollCatchesUp ==
  ASSUME Journalled, wrote \in Seq(Events), OnceEach(wrote),
         \A d \in ToSet(wrote) : made[d] # Never, LatestStored(wrote, lastTime)
  PROVE  Polled(ListEvents, Len(journal), PollWrites)
<1>1. PICK list \in Seq(Events) : list = ListEvents /\ Len(list) = Len(journal)
                                  /\ ToSet(list) = ToSet(journal)
  BY ListingIsWhole
<1>2. PICK n \in Nat : n = Len(list)
  OBVIOUS
<1> DEFINE chosen == CHOOSE after : Polling(list, after, n)
<1>3. PollWrites = chosen[n]
  BY <1>1, <1>2, Zenon DEF PollWrites, Polling
<1>4. Polling(list, chosen, n)
  BY PollingExists
<1> HIDE DEF chosen
<1>5. \A k \in 0..n : chosen[k] = IF k = 0 THEN [out |-> wrote, last |-> lastTime]
                                  ELSE AfterEntry(list[k], chosen[k - 1])
  BY <1>4 DEF Polling
<1> DEFINE S == {k \in Nat : k <= n => Polled(list, k, chosen[k])}
<1>6. 0 \in S
  <2>1. chosen[0] = [out |-> wrote, last |-> lastTime]
    BY <1>5
  <2>2. lastTime \in {Never} \cup 0..MaxClock
    BY DEF Journalled, EvTypeOK
  <2>3. \A i \in 1..0 : FALSE
    OBVIOUS
  <2>4. Polled(list, 0, chosen[0])
    BY <2>1, <2>2, <2>3 DEF Polled
  <2> QED BY <2>4
<1>7. ASSUME NEW k \in S PROVE k + 1 \in S
  <2>1. SUFFICES ASSUME k + 1 <= n PROVE Polled(list, k + 1, chosen[k + 1])
    OBVIOUS
  <2>2. k \in Nat /\ k <= n /\ k + 1 \in 1..Len(list) /\ k + 1 \in 0..n /\ k + 1 # 0 /\ (k + 1) - 1 = k
    BY <1>2, <2>1
  <2>3. Polled(list, k, chosen[k])
    BY <2>2
  <2> HIDE DEF S
  <2>4. chosen[k + 1] = AfterEntry(list[k + 1], chosen[k])
    BY <1>5, <2>2
  <2>5. EvTypeOK /\ \A d \in ToSet(wrote) \cup ToSet(list) : made[d] # Never
    BY <1>1 DEF Journalled
  <2> QED BY <2>2, <2>3, <2>4, <2>5, PollPassesEntry
<1>8. S = Nat
  <2>1. S \subseteq Nat
    OBVIOUS
  <2> HIDE DEF S
  <2> QED BY <1>6, <1>7, <2>1, NaturalInduction
<1>9. Polled(list, n, chosen[n])
  BY <1>8
<1> QED BY <1>1, <1>2, <1>3, <1>9

StreamPlaces == {"none", "open", "terminal", "polled", "listed", "live", "closed", "gone"}

\* The entries of the stream are made; lastEventTime is the time of one that was
\* written, while the stream lasts, and while the database is polled the latest stored time of them.
StreamInv ==
  /\ EvTypeOK
  /\ journal \in Seq(Events) /\ topic \in Seq(Events)
  /\ channel \in Seq(Events) /\ wrote \in Seq(Events) /\ seen \subseteq Events
  /\ conn \in [at : StreamPlaces, transport : {"none", "database", "redpanda"}]
  /\ \A e \in ToSet(journal) \cup ToSet(topic) \cup ToSet(channel)
            \cup ToSet(wrote) \cup seen :
       made[e] # Never
  /\ OnceEach(journal)
  /\ lastTime # Never /\ conn.at \notin {"closed", "gone"} =>
       \E d \in ToSet(wrote) : lastTime \in {Stored(d), made[d]}
  /\ conn.at \in {"none", "open", "polled"} => LatestStored(wrote, lastTime)
  /\ LossExplained

LEMMA StreamInit == EvInit => StreamInv
<1> SUFFICES ASSUME EvInit PROVE StreamInv
  OBVIOUS
<1>1. wrote = <<>> /\ journal = <<>> /\ topic = <<>> /\ channel = <<>> /\ seen = {}
  BY DEF EvInit
<1>2. ToSet(<<>>) = {} /\ <<>> \in Seq(Events) /\ Len(<<>>) = 0 /\ OnceEach(<<>>)
  BY DEF ToSet, OnceEach
<1>3. evClock = 0 /\ 0 \in 0..MaxClock /\ lastTime = Never /\ ended = FALSE /\ 0 <= HubBuffer
      /\ made = [e \in Events |-> Never] /\ evStore \in {"sqlite", "postgres"}
  BY EventStreamAssumption DEF EvInit
<1>4. conn = [at |-> "none", transport |-> "none"]
  BY DEF EvInit
<1>5. conn.at = "none" /\ conn \in [at : StreamPlaces, transport : {"none", "database", "redpanda"}]
  BY <1>4 DEF StreamPlaces
<1>6. EvTypeOK
  BY <1>1, <1>2, <1>3, <1>5 DEF EvTypeOK
<1>7. LatestStored(wrote, lastTime)
  BY <1>1, <1>2, <1>3 DEF LatestStored
<1>8. LossExplained
  BY <1>1, <1>2 DEF LossExplained
<1> QED BY <1>1, <1>2, <1>3, <1>5, <1>6, <1>7, <1>8 DEF StreamInv

\* The place of the request after a step that moves it.
LEMMA StreamAt ==
  ASSUME conn \in [at : StreamPlaces, transport : {"none", "database", "redpanda"}],
         NEW to \in StreamPlaces, StreamGoes(to)
  PROVE  /\ conn' \in [at : StreamPlaces, transport : {"none", "database", "redpanda"}]
         /\ conn'.at = to
BY DEF StreamGoes

\* A step that makes no event, writes none and lists none; it may drop the channel
\* of a stream it ends.
LEMMA QuietStep ==
  ASSUME StreamInv, evClock' \in 0..MaxClock, ended' \in BOOLEAN,
         UNCHANGED <<evStore, made, journal, topic, wrote, lastTime, seen>>,
         conn' \in [at : StreamPlaces, transport : {"none", "database", "redpanda"}],
         conn'.at \in {"none", "open", "polled"} => conn.at \in {"none", "open", "polled"},
         conn.at \in {"closed", "gone"} => conn'.at \in {"closed", "gone"},
         \/ channel' = channel
         \/ channel' = <<>> /\ conn'.at \in {"closed", "gone"}
  PROVE  StreamInv'
<1>1. \A e : Stored(e)' = Stored(e)
  BY DEF Stored, WholeSeconds
<1>2. channel' \in Seq(Events) /\ ToSet(channel)' \subseteq ToSet(channel) /\ Len(channel') <= HubBuffer
  <2>1. ToSet(<<>>) = {} /\ <<>> \in Seq(Events) /\ Len(<<>>) = 0
    BY DEF ToSet
  <2>2. CASE channel' = channel
    BY <2>2 DEF StreamInv, EvTypeOK, ToSet
  <2>3. CASE channel' = <<>>
    BY <2>1, <2>3, EventStreamAssumption DEF ToSet
  <2> QED BY <2>2, <2>3
<1>3. /\ ToSet(journal)' = ToSet(journal) /\ ToSet(topic)' = ToSet(topic)
      /\ ToSet(wrote)' = ToSet(wrote) /\ OnceEach(journal)' = OnceEach(journal)
  BY DEF ToSet, OnceEach
<1>4. EvTypeOK'
  BY <1>2, <1>3 DEF StreamInv, EvTypeOK, StreamPlaces
<1>5. LatestStored(wrote, lastTime) => LatestStored(wrote, lastTime)'
  BY <1>1, <1>3 DEF LatestStored
<1>6. LossExplained'
  <2>1. \A e : Overtaken(e)' = Overtaken(e)
    BY <1>1, <1>3 DEF Overtaken
  <2>2. \A e \in seen : e \in ToSet(channel) \/ Overtaken(e) \/ conn.at \in {"closed", "gone"}
    BY DEF StreamInv, LossExplained
  <2>3. \/ ToSet(channel)' = ToSet(channel)
        \/ conn'.at \in {"closed", "gone"}
    BY DEF ToSet
  <2>4. \A e \in seen' : e \in ToSet(channel)' \/ Overtaken(e)' \/ conn'.at \in {"closed", "gone"}
    BY <2>1, <2>2, <2>3
  <2> QED BY <2>4 DEF StreamInv, LossExplained
<1> QED BY <1>1, <1>2, <1>3, <1>4, <1>5, <1>6 DEF StreamInv

\* The steps that only move the clock, the row or the request.
LEMMA QuietSteps ==
  ASSUME StreamInv,
         \/ Tick \/ WorkflowEnds \/ (\E t \in {"database", "redpanda"} : StreamWorkflowEvents(t))
         \/ PollReadsRow \/ RedpandaSnapshotFails \/ Subscribe
         \/ RedpandaKeepalive \/ StreamTimesOut
  PROVE  StreamInv'
<1> DEFINE Conns == [at : StreamPlaces, transport : {"none", "database", "redpanda"}]
<1>1. conn \in Conns /\ evClock \in 0..MaxClock /\ ended \in BOOLEAN
  BY DEF StreamInv, EvTypeOK
<1>2. CASE Tick
  <2>1. evClock' \in 0..MaxClock
    BY <1>1, <1>2, EventStreamAssumption DEF Tick
  <2> QED BY <1>1, <1>2, <2>1, QuietStep DEF Tick, connVars
<1>3. CASE WorkflowEnds
  BY <1>1, <1>3, QuietStep DEF WorkflowEnds, connVars
<1>4. ASSUME NEW t \in {"database", "redpanda"}, StreamWorkflowEvents(t) PROVE StreamInv'
  <2>1. conn' = [at |-> IF ended THEN "terminal" ELSE "open", transport |-> t] /\ conn.at = "none"
    BY <1>4 DEF StreamWorkflowEvents
  <2>2. conn' \in Conns /\ conn'.at \in {"terminal", "open"}
    BY <2>1 DEF StreamPlaces
  <2> QED BY <1>1, <1>4, <2>1, <2>2, QuietStep DEF StreamWorkflowEvents
<1>5. CASE PollReadsRow
  <2>1. PICK to \in {"closed", "open"} : StreamGoes(to)
    BY <1>5 DEF PollReadsRow
  <2>2. conn' \in Conns /\ conn'.at = to
    BY <1>1, <2>1, StreamAt DEF StreamPlaces
  <2> QED BY <1>1, <1>5, <2>2, QuietStep DEF PollReadsRow, StreamFrame
<1>6. CASE RedpandaSnapshotFails
  <2>1. conn' \in Conns /\ conn'.at = "listed"
    BY <1>1, <1>6, StreamAt DEF RedpandaSnapshotFails, StreamPlaces
  <2> QED BY <1>1, <1>6, <2>1, QuietStep DEF RedpandaSnapshotFails, StreamFrame
<1>7. CASE Subscribe
  <2>1. conn' \in Conns /\ conn'.at = "live"
    BY <1>1, <1>7, StreamAt DEF Subscribe, StreamPlaces
  <2> QED BY <1>1, <1>7, <2>1, QuietStep DEF Subscribe, StreamFrame
<1>8. CASE RedpandaKeepalive
  <2>1. conn' \in Conns /\ conn'.at = "closed"
    BY <1>1, <1>8, StreamAt DEF RedpandaKeepalive, StreamPlaces
  <2> QED BY <1>1, <1>8, <2>1, QuietStep DEF RedpandaKeepalive, StreamFrame
<1>9. CASE StreamTimesOut
  <2>1. conn' \in Conns /\ conn'.at = "gone"
    BY <1>1, <1>9, StreamAt DEF StreamTimesOut, StreamPlaces
  <2> QED BY <1>1, <1>9, <2>1, QuietStep DEF StreamTimesOut, StreamFrame
<1> QED BY <1>2, <1>3, <1>4, <1>5, <1>6, <1>7, <1>8, <1>9

\* Making an event or appending one: what is made already keeps its time.
LEMMA JournalStep ==
  ASSUME StreamInv, NEW e \in Events, NewEvent(e) \/ AppendEvents(e)
  PROVE  StreamInv'
<1>1. /\ evClock' = evClock /\ evStore' = evStore /\ ended' = ended /\ conn' = conn
      /\ wrote' = wrote /\ lastTime' = lastTime /\ channel' = channel /\ seen' = seen
  BY DEF NewEvent, AppendEvents, connVars
<1>2. /\ made' \in [Events -> {Never} \cup 0..MaxClock]
      /\ \A d \in Events : made[d] # Never => made'[d] = made[d] /\ made'[d] # Never
  <2>1. CASE NewEvent(e)
    <3>1. evClock \in {Never} \cup 0..MaxClock /\ made' = [made EXCEPT ![e] = evClock] /\ made[e] = Never
      BY <2>1 DEF NewEvent, StreamInv, EvTypeOK
    <3> QED BY <3>1 DEF StreamInv, EvTypeOK
  <2>2. CASE AppendEvents(e)
    <3>1. made' = made
      BY <2>2 DEF AppendEvents
    <3> QED BY <3>1 DEF StreamInv, EvTypeOK
  <2> QED BY <2>1, <2>2
<1>3. \A d \in Events : made[d] # Never => Stored(d)' = Stored(d)
  BY <1>1, <1>2 DEF Stored, WholeSeconds
<1>4. /\ journal' \in Seq(Events) /\ OnceEach(journal)'
      /\ \A d \in ToSet(journal)' : d \in ToSet(journal) \/ (d = e /\ made[e] # Never)
  <2>1. CASE NewEvent(e)
    <3>1. journal' = journal
      BY <2>1 DEF NewEvent
    <3> QED BY <3>1 DEF StreamInv, OnceEach, ToSet
  <2>2. CASE AppendEvents(e)
    <3>1. journal' = Append(journal, e) /\ e \notin ToSet(journal) /\ made[e] # Never
      BY <2>2 DEF AppendEvents
    <3>2. journal \in Seq(Events) /\ OnceEach(journal)
      BY DEF StreamInv
    <3>3. journal' \in Seq(Events) /\ ToSet(journal') = ToSet(journal) \cup {e} /\ OnceEach(journal')
      BY <3>1, <3>2, AppendedSet
    <3> QED BY <3>1, <3>3 DEF OnceEach, ToSet
  <2> QED BY <2>1, <2>2
<1>5. /\ topic' \in Seq(Events)
      /\ \A d \in ToSet(topic)' : d \in ToSet(topic) \/ (d = e /\ made[e] # Never)
  <2>1. CASE topic' = topic
    BY <2>1 DEF StreamInv, ToSet
  <2>2. CASE AppendEvents(e) /\ topic' # topic
    <3>1. topic' = Append(topic, e) /\ made[e] # Never
      BY <2>2 DEF AppendEvents, Publish
    <3>2. topic \in Seq(Events)
      BY DEF StreamInv
    <3>3. topic' \in Seq(Events) /\ ToSet(topic') = ToSet(topic) \cup {e}
      BY <3>1, <3>2, AppendedSet
    <3> QED BY <3>1, <3>3 DEF ToSet
  <2> QED BY <2>1, <2>2 DEF NewEvent
<1>6. ToSet(channel)' = ToSet(channel) /\ ToSet(wrote)' = ToSet(wrote)
  BY <1>1 DEF ToSet
<1>7. /\ ToSet(journal) \cup ToSet(topic) \cup ToSet(channel) \cup ToSet(wrote) \cup seen \subseteq Events
      /\ \A d \in ToSet(journal) \cup ToSet(topic) \cup ToSet(channel) \cup ToSet(wrote) \cup seen :
           made[d] # Never
  BY DEF StreamInv, EvTypeOK
<1>8. EvTypeOK'
  <2>1. ToSet(journal)' \cup ToSet(topic)' \cup ToSet(channel)' \cup ToSet(wrote)' \subseteq Events
    BY <1>4, <1>5, <1>6, <1>7
  <2> QED BY <1>1, <1>2, <2>1 DEF StreamInv, EvTypeOK
<1>9. \A d \in ToSet(journal)' \cup ToSet(topic)' \cup ToSet(channel)' \cup ToSet(wrote)' \cup seen' :
        made'[d] # Never
  BY <1>1, <1>2, <1>4, <1>5, <1>6, <1>7
<1>10. \A d \in ToSet(wrote) \cup seen : Stored(d)' = Stored(d) /\ made'[d] = made[d]
  BY <1>2, <1>3, <1>7
<1>11. LatestStored(wrote, lastTime) => LatestStored(wrote, lastTime)'
  BY <1>1, <1>6, <1>10 DEF LatestStored
<1>12. LossExplained'
  <2>1. \A d \in seen : Overtaken(d) => Overtaken(d)'
    BY <1>6, <1>10 DEF Overtaken
  <2>2. /\ \A d \in seen : d \in ToSet(channel) \/ Overtaken(d) \/ conn.at \in {"closed", "gone"}
        /\ \A i, j \in DOMAIN wrote : wrote[i] = wrote[j] => i = j
    BY DEF StreamInv, LossExplained
  <2> QED BY <1>1, <1>6, <2>1, <2>2 DEF LossExplained
<1>13. lastTime' # Never /\ conn'.at \notin {"closed", "gone"} =>
         \E d \in ToSet(wrote)' : lastTime' \in {Stored(d)', made'[d]}
  BY <1>1, <1>6, <1>10 DEF StreamInv
<1> QED BY <1>1, <1>4, <1>5, <1>8, <1>9, <1>11, <1>12, <1>13 DEF StreamInv

\* A step that writes, lists or hands on entries, and makes none.
LEMMA WritingStep ==
  ASSUME StreamInv, UNCHANGED <<evClock, evStore, made, journal, ended>>,
         conn' \in [at : StreamPlaces, transport : {"none", "database", "redpanda"}],
         topic' \in Seq(Events), ToSet(topic') \subseteq ToSet(topic),
         channel' \in Seq(Events), Len(channel') <= HubBuffer,
         ToSet(channel') \subseteq ToSet(channel) \cup ToSet(topic),
         wrote' \in Seq(Events), OnceEach(wrote'),
         ToSet(wrote') \subseteq ToSet(wrote) \cup ToSet(journal) \cup ToSet(channel),
         seen' \subseteq seen \cup ToSet(journal) \cup ToSet(topic),
         lastTime' \in {Never} \cup 0..MaxClock,
         lastTime' # Never /\ conn'.at \notin {"closed", "gone"} =>
           \E d \in ToSet(wrote') : lastTime' \in {Stored(d), made[d]},
         conn'.at \in {"none", "open", "polled"} => LatestStored(wrote', lastTime'),
         \A e \in seen' : \/ e \in ToSet(channel')
                          \/ \E d \in ToSet(wrote') : Stored(d) >= Stored(e)
                          \/ conn'.at \in {"closed", "gone"}
  PROVE  StreamInv'
<1>1. \A e : Stored(e)' = Stored(e)
  BY DEF Stored, WholeSeconds
<1>2. /\ ToSet(journal)' = ToSet(journal) /\ ToSet(topic)' = ToSet(topic')
      /\ ToSet(channel)' = ToSet(channel') /\ ToSet(wrote)' = ToSet(wrote')
      /\ OnceEach(journal)' = OnceEach(journal)
  BY DEF ToSet, OnceEach
<1>3. /\ ToSet(journal) \cup ToSet(topic) \cup ToSet(channel) \cup ToSet(wrote) \cup seen \subseteq Events
      /\ \A d \in ToSet(journal) \cup ToSet(topic) \cup ToSet(channel) \cup ToSet(wrote) \cup seen :
           made[d] # Never
  BY DEF StreamInv, EvTypeOK
<1>4. EvTypeOK'
  <2>1. ToSet(journal)' \cup ToSet(topic)' \cup ToSet(channel)' \cup ToSet(wrote)' \subseteq Events
    BY <1>2, <1>3
  <2> QED BY <2>1 DEF StreamInv, EvTypeOK, StreamPlaces
<1>5. \A d \in ToSet(journal)' \cup ToSet(topic)' \cup ToSet(channel)' \cup ToSet(wrote)' \cup seen' :
        made'[d] # Never
  BY <1>2, <1>3
<1>6. conn'.at \in {"none", "open", "polled"} => LatestStored(wrote, lastTime)'
  BY <1>1, <1>2 DEF LatestStored
<1>7. lastTime' # Never /\ conn'.at \notin {"closed", "gone"} =>
        \E d \in ToSet(wrote)' : lastTime' \in {Stored(d)', made'[d]}
  BY <1>1, <1>2
<1>8. LossExplained'
  <2>1. \A e : Overtaken(e)' <=> \E d \in ToSet(wrote') : Stored(d) >= Stored(e)
    BY <1>1, <1>2 DEF Overtaken
  <2>2. \A i, j \in DOMAIN wrote' : wrote'[i] = wrote'[j] => i = j
    BY DEF OnceEach
  <2> QED BY <1>2, <2>1, <2>2 DEF LossExplained
<1>9. seen' \subseteq Events
  BY <1>3
<1> QED BY <1>2, <1>4, <1>5, <1>6, <1>7, <1>8, <1>9 DEF StreamInv

\* The facts of the invariant that the steps below start from.
LEMMA StreamFacts ==
  ASSUME StreamInv
  PROVE  /\ Journalled /\ OnceEach(wrote) /\ wrote \in Seq(Events)
         /\ topic \in Seq(Events) /\ channel \in Seq(Events) /\ Len(channel) <= HubBuffer
         /\ conn \in [at : StreamPlaces, transport : {"none", "database", "redpanda"}]
         /\ lastTime \in {Never} \cup 0..MaxClock
         /\ ToSet(journal) \cup ToSet(topic) \cup ToSet(channel) \cup ToSet(wrote) \cup seen \subseteq Events
         /\ \A d \in ToSet(journal) \cup ToSet(topic) \cup ToSet(channel) \cup ToSet(wrote) \cup seen :
              made[d] # Never /\ Stored(d) \in Nat
<1>1. OnceEach(wrote)
  BY DEF StreamInv, LossExplained, OnceEach
<1>2. Journalled
  BY DEF StreamInv, Journalled
<1>3. /\ ToSet(journal) \cup ToSet(topic) \cup ToSet(channel) \cup ToSet(wrote) \cup seen \subseteq Events
      /\ \A d \in ToSet(journal) \cup ToSet(topic) \cup ToSet(channel) \cup ToSet(wrote) \cup seen :
           made[d] # Never
  BY DEF StreamInv, EvTypeOK
<1>4. \A d \in Events : made[d] # Never => Stored(d) \in Nat
  BY StoredTimes DEF StreamInv
<1> QED BY <1>1, <1>2, <1>3, <1>4 DEF StreamInv, EvTypeOK

\* The snapshot of a terminal workflow and the one the live stream starts from.
LEMMA SnapshotStep ==
  ASSUME StreamInv, WriteTerminalSnapshot \/ RedpandaSnapshot
  PROVE  StreamInv'
<1>1. /\ UNCHANGED <<evClock, evStore, made, journal, topic, ended, channel>>
      /\ wrote' = ListEvents /\ seen' = ToSet(journal)
  BY DEF WriteTerminalSnapshot, RedpandaSnapshot, StreamFrame
<1>2. PICK list : /\ list = ListEvents /\ list \in Seq(Events) /\ Len(list) = Len(journal)
                  /\ ToSet(list) = ToSet(journal) /\ OnceEach(list)
  BY StreamFacts, ListingIsWhole
<1>3. wrote' = list
  BY <1>1, <1>2
<1>4. /\ conn' \in [at : StreamPlaces, transport : {"none", "database", "redpanda"}]
      /\ conn'.at \in {"closed", "listed"}
  <2>1. StreamGoes("closed") \/ StreamGoes("listed")
    BY DEF WriteTerminalSnapshot, RedpandaSnapshot
  <2> QED BY <2>1, StreamFacts, StreamAt DEF StreamPlaces
<1>5. \A e \in seen' : \E d \in ToSet(wrote') : Stored(d) >= Stored(e)
  <2>1. \A e \in ToSet(journal) : Stored(e) >= Stored(e)
    BY StreamFacts
  <2> QED BY <1>1, <1>2, <1>3, <2>1
<1>6. /\ lastTime' \in {Never} \cup 0..MaxClock
      /\ lastTime' # Never /\ conn'.at \notin {"closed", "gone"} =>
           \E d \in ToSet(wrote') : lastTime' \in {Stored(d), made[d]}
  <2>1. CASE WriteTerminalSnapshot
    <3>1. conn'.at = "closed" /\ lastTime' = lastTime
      BY <2>1, StreamFacts, StreamAt DEF WriteTerminalSnapshot, StreamPlaces
    <3> QED BY <3>1, StreamFacts
  <2>2. CASE RedpandaSnapshot /\ journal = <<>>
    BY <2>2 DEF RedpandaSnapshot
  <2>3. CASE RedpandaSnapshot /\ journal # <<>>
    <3>1. Len(journal) \in Nat /\ Len(journal) # 0
      BY <2>3, StreamFacts, EmptySeq DEF Journalled
    <3>2. PICK d : d = Last(list) /\ d \in ToSet(list)
      BY <1>2, <3>1 DEF Last, ToSet
    <3>3. lastTime' = Stored(d)
      BY <1>2, <2>3, <3>2 DEF RedpandaSnapshot
    <3>4. d \in Events /\ made[d] # Never
      BY <1>2, <3>2, StreamFacts
    <3>5. Stored(d) \in Nat /\ Stored(d) <= made[d] /\ made[d] \in 0..MaxClock /\ MaxClock \in Nat
      BY <3>4, StoredTimes, EventStreamAssumption DEF StreamInv, EvTypeOK
    <3>6. Stored(d) \in 0..MaxClock
      BY <3>5
    <3> QED BY <1>2, <1>3, <3>2, <3>3, <3>6
  <2> QED BY <2>1, <2>2, <2>3
<1>7. /\ topic \in Seq(Events) /\ channel \in Seq(Events) /\ Len(channel) <= HubBuffer
  BY StreamFacts
<1>8. wrote' \in Seq(Events) /\ OnceEach(wrote') /\ ToSet(wrote') = ToSet(journal)
  BY <1>2, <1>3
<1> QED BY <1>1, <1>4, <1>5, <1>6, <1>7, <1>8, WritingStep

LEMMA PollStep ==
  ASSUME StreamInv, DatabasePoll
  PROVE  StreamInv'
<1>1. /\ UNCHANGED <<evClock, evStore, made, journal, topic, ended, channel>>
      /\ wrote' = PollWrites.out /\ lastTime' = PollWrites.last /\ seen' = ToSet(journal)
      /\ conn.at = "open"
  BY DEF DatabasePoll, StreamFrame
<1>2. /\ conn' \in [at : StreamPlaces, transport : {"none", "database", "redpanda"}]
      /\ conn'.at = "polled"
  BY StreamFacts, StreamAt DEF DatabasePoll, StreamPlaces
<1>3. Polled(ListEvents, Len(journal), PollWrites)
  BY <1>1, StreamFacts, PollCatchesUp DEF StreamInv
<1>4. PICK list : /\ list = ListEvents /\ list \in Seq(Events) /\ Len(list) = Len(journal)
                  /\ ToSet(list) = ToSet(journal)
  BY StreamFacts, ListingIsWhole
<1>5. /\ PollWrites.out \in Seq(Events) /\ PollWrites.last \in {Never} \cup 0..MaxClock
      /\ OnceEach(PollWrites.out) /\ ToSet(PollWrites.out) \subseteq ToSet(wrote) \cup ToSet(journal)
      /\ LatestStored(PollWrites.out, PollWrites.last)
  BY <1>3, <1>4 DEF Polled
<1>6. \A e \in ToSet(journal) : \E d \in ToSet(PollWrites.out) : Stored(d) >= Stored(e)
  <2>1. \A i \in 1..Len(list) : \E d \in ToSet(PollWrites.out) : Stored(d) >= Stored(list[i])
    BY <1>3, <1>4 DEF Polled
  <2>2. \A e \in ToSet(list) : \E i \in 1..Len(list) : e = list[i]
    BY <1>4 DEF ToSet
  <2> QED BY <1>4, <2>1, <2>2
<1>7. lastTime' # Never => \E d \in ToSet(wrote') : lastTime' \in {Stored(d), made[d]}
  BY <1>1, <1>5 DEF LatestStored
<1>8. topic \in Seq(Events) /\ channel \in Seq(Events) /\ Len(channel) <= HubBuffer
  BY StreamFacts
<1>9. /\ wrote' \in Seq(Events) /\ OnceEach(wrote') /\ ToSet(wrote') \subseteq ToSet(wrote) \cup ToSet(journal)
      /\ lastTime' \in {Never} \cup 0..MaxClock /\ LatestStored(wrote', lastTime')
  BY <1>1, <1>5
<1>10. \A e \in seen' : \E d \in ToSet(wrote') : Stored(d) >= Stored(e)
  BY <1>1, <1>6
<1> QED BY <1>1, <1>2, <1>7, <1>8, <1>9, <1>10, WritingStep

LEMMA HubStep ==
  ASSUME StreamInv, HubPublish
  PROVE  StreamInv'
<1>1. /\ UNCHANGED <<evClock, evStore, made, journal, ended, conn, wrote, lastTime>>
      /\ topic # <<>> /\ topic' = Tail(topic)
  BY DEF HubPublish, Fetched
<1>2. PICK e : /\ e = Head(topic) /\ e \in Events /\ topic' \in Seq(Events)
               /\ ToSet(topic) = {e} \cup ToSet(topic')
  BY <1>1, StreamFacts, TailSet
<1>3. /\ channel' \in Seq(Events) /\ Len(channel') <= HubBuffer
      /\ ToSet(channel) \subseteq ToSet(channel')
      /\ ToSet(channel') \subseteq ToSet(channel) \cup ToSet(topic)
      /\ seen' = seen \/ (seen' = seen \cup {e} /\ e \in ToSet(channel'))
  <2>1. CASE channel' = channel /\ seen' = seen
    BY <2>1, StreamFacts
  <2>2. CASE channel' = Append(channel, e) /\ seen' = seen \cup {e} /\ Len(channel) < HubBuffer
    <3>1. channel \in Seq(Events)
      BY StreamFacts
    <3>2. channel' \in Seq(Events) /\ ToSet(channel') = ToSet(channel) \cup {e}
      BY <1>2, <2>2, <3>1, AppendedSet
    <3>3. Len(channel') = Len(channel) + 1 /\ Len(channel) \in Nat
      BY <1>2, <2>2, <3>1
    <3>4. Len(channel') <= HubBuffer
      BY <2>2, <3>3, EventStreamAssumption
    <3> QED BY <1>2, <2>2, <3>2, <3>4
  <2>3. \/ channel' = channel /\ seen' = seen
        \/ channel' = Append(channel, e) /\ seen' = seen \cup {e} /\ Len(channel) < HubBuffer
    BY <1>2 DEF HubPublish
  <2> QED BY <2>1, <2>2, <2>3
<1>4. /\ wrote \in Seq(Events) /\ OnceEach(wrote) /\ lastTime \in {Never} \cup 0..MaxClock
      /\ conn \in [at : StreamPlaces, transport : {"none", "database", "redpanda"}]
  BY StreamFacts
<1>5. /\ lastTime # Never /\ conn.at \notin {"closed", "gone"} =>
           \E d \in ToSet(wrote) : lastTime \in {Stored(d), made[d]}
      /\ conn.at \in {"none", "open", "polled"} => LatestStored(wrote, lastTime)
      /\ \A x \in seen : \/ x \in ToSet(channel)
                         \/ \E d \in ToSet(wrote) : Stored(d) >= Stored(x)
                         \/ conn.at \in {"closed", "gone"}
  BY DEF StreamInv, LossExplained, Overtaken
<1>6. seen' \subseteq seen \cup ToSet(topic)
  BY <1>2, <1>3
<1>7. \A x \in seen' : \/ x \in ToSet(channel')
                       \/ \E d \in ToSet(wrote') : Stored(d) >= Stored(x)
                       \/ conn'.at \in {"closed", "gone"}
  BY <1>1, <1>3, <1>5
<1> QED BY <1>1, <1>2, <1>3, <1>4, <1>5, <1>6, <1>7, WritingStep

\* An entry taken from the channel is written, or one stored as late has been.
LEMMA ReceiveStep ==
  ASSUME StreamInv, RedpandaReceive
  PROVE  StreamInv'
<1>1. /\ UNCHANGED <<evClock, evStore, made, journal, topic, ended, conn, seen>>
      /\ channel # <<>> /\ channel' = Tail(channel) /\ conn.at = "live"
  BY DEF RedpandaReceive, StreamFrame
<1>2. PICK e : /\ e = Head(channel) /\ e \in Events /\ channel' \in Seq(Events)
               /\ ToSet(channel) = {e} \cup ToSet(channel') /\ Len(channel') <= Len(channel)
  BY <1>1, StreamFacts, TailSet
<1>3. /\ wrote \in Seq(Events) /\ OnceEach(wrote) /\ lastTime \in {Never} \cup 0..MaxClock
      /\ conn \in [at : StreamPlaces, transport : {"none", "database", "redpanda"}]
      /\ topic \in Seq(Events) /\ Len(channel) <= HubBuffer /\ Len(channel) \in Nat
      /\ Len(channel') \in Nat
  BY <1>2, StreamFacts
<1>4. /\ made[e] # Never /\ made[e] \in Nat /\ made[e] \in 0..MaxClock
      /\ Stored(e) \in Nat /\ Stored(e) <= made[e]
  <2>1. made[e] # Never
    BY <1>2, StreamFacts
  <2>2. made[e] \in 0..MaxClock
    BY <1>2, <2>1 DEF StreamInv, EvTypeOK
  <2> QED BY <1>2, <2>1, <2>2, StoredTimes DEF StreamInv
<1>5. /\ lastTime # Never => \E d \in ToSet(wrote) : lastTime \in {Stored(d), made[d]}
      /\ \A x \in seen : x \in ToSet(channel) \/ \E d \in ToSet(wrote) : Stored(d) >= Stored(x)
  BY <1>1 DEF StreamInv, LossExplained, Overtaken
<1>6. CASE LiveFilter(e)
  <2>1. wrote' = Append(wrote, e) /\ lastTime' = made[e] /\ e \notin ToSet(wrote)
    BY <1>2, <1>6 DEF RedpandaReceive, LiveFilter
  <2>2. wrote' \in Seq(Events) /\ OnceEach(wrote') /\ ToSet(wrote') = ToSet(wrote) \cup {e}
    BY <1>2, <1>3, <2>1, AppendedSet
  <2>3. Stored(e) >= Stored(e)
    BY <1>4
  <2>4. \A x \in seen' : x \in ToSet(channel') \/ \E d \in ToSet(wrote') : Stored(d) >= Stored(x)
    BY <1>1, <1>2, <1>5, <2>2, <2>3
  <2>5. \E d \in ToSet(wrote') : lastTime' \in {Stored(d), made[d]}
    BY <2>1, <2>2
  <2>6. Len(channel') <= HubBuffer
    BY <1>2, <1>3, EventStreamAssumption
  <2> QED BY <1>1, <1>2, <1>3, <1>4, <2>1, <2>2, <2>4, <2>5, <2>6, WritingStep
<1>7. CASE ~LiveFilter(e)
  <2>1. wrote' = wrote /\ lastTime' = lastTime
    BY <1>2, <1>7 DEF RedpandaReceive
  <2>2. \E d \in ToSet(wrote) : Stored(d) >= Stored(e)
    <3>1. CASE e \in ToSet(wrote)
      <4>1. Stored(e) >= Stored(e)
        BY <1>4
      <4> QED BY <3>1, <4>1
    <3>2. CASE e \notin ToSet(wrote)
      <4>1. lastTime # Never /\ ~(made[e] > lastTime)
        BY <1>7, <3>2 DEF LiveFilter, IsNew
      <4>2. PICK d \in ToSet(wrote) : lastTime \in {Stored(d), made[d]}
        BY <1>5, <4>1
      <4>3. d \in Events /\ made[d] # Never
        BY StreamFacts
      <4>4. made[d] \in Nat /\ Stored(d) \in Nat /\ made[e] <= made[d] => Stored(e) <= Stored(d)
        BY <1>2, <1>4, <4>3, StoredTimes DEF StreamInv
      <4>5. made[d] \in Nat /\ Stored(d) \in Nat
        BY <1>2, <1>4, <4>3, StoredTimes DEF StreamInv
      <4>6. Stored(d) >= Stored(e)
        <5>1. CASE lastTime = Stored(d)
          BY <1>4, <4>1, <4>5, <5>1
        <5>2. CASE lastTime = made[d]
          BY <1>4, <4>1, <4>4, <4>5, <5>2
        <5> QED BY <4>2, <5>1, <5>2
      <4> QED BY <4>6
    <3> QED BY <3>1, <3>2
  <2>3. \A x \in seen' : x \in ToSet(channel') \/ \E d \in ToSet(wrote') : Stored(d) >= Stored(x)
    BY <1>1, <1>2, <1>5, <2>1, <2>2
  <2>4. Len(channel') <= HubBuffer
    BY <1>2, <1>3, EventStreamAssumption
  <2>5. ToSet(channel') \subseteq ToSet(channel)
    BY <1>2
  <2>6. lastTime' # Never => \E d \in ToSet(wrote') : lastTime' \in {Stored(d), made[d]}
    BY <1>5, <2>1
  <2> QED BY <1>1, <1>2, <1>3, <2>1, <2>3, <2>4, <2>5, <2>6, WritingStep
<1> QED BY <1>6, <1>7

(* A client that follows the events of a workflow, by polls of the database  *)
(* or through the hub, loses an entry that its stream took up only to the    *)
(* comparison of times: it was written, waits in the channel, or one stored  *)
(* as late was written; and none is written twice, whatever is made,         *)
(* appended, published or lost meanwhile (stream_workflow.go).               *)
THEOREM StreamLosesOnlyByTime == EvSpec => []LossExplained
<1>1. EvInit => StreamInv
  BY StreamInit
<1>2. StreamInv /\ [EvNext]_evVars => StreamInv'
  <2> SUFFICES ASSUME StreamInv, [EvNext]_evVars PROVE StreamInv'
    OBVIOUS
  <2>1. CASE UNCHANGED evVars
    <3>1. UNCHANGED <<evClock, evStore, made, journal, topic, ended, conn, wrote, lastTime, channel, seen>>
      BY <2>1 DEF evVars, connVars
    <3>2. evClock \in 0..MaxClock /\ ended \in BOOLEAN
      BY DEF StreamInv, EvTypeOK
    <3> QED BY <3>1, <3>2, StreamFacts, QuietStep
  <2>2. ASSUME NEW e \in Events, NewEvent(e) \/ AppendEvents(e) PROVE StreamInv'
    BY <2>2, JournalStep
  <2>3. CASE \/ Tick \/ WorkflowEnds
             \/ (\E t \in {"database", "redpanda"} : StreamWorkflowEvents(t))
             \/ PollReadsRow \/ RedpandaSnapshotFails \/ Subscribe
             \/ RedpandaKeepalive \/ StreamTimesOut
    BY <2>3, QuietSteps
  <2>4. CASE WriteTerminalSnapshot \/ RedpandaSnapshot
    BY <2>4, SnapshotStep
  <2>5. CASE DatabasePoll
    BY <2>5, PollStep
  <2>6. CASE HubPublish
    BY <2>6, HubStep
  <2>7. CASE RedpandaReceive
    BY <2>7, ReceiveStep
  <2> QED BY <2>1, <2>2, <2>3, <2>4, <2>5, <2>6, <2>7, Zenon DEF EvNext, RequestNext
<1>3. StreamInv => LossExplained
  BY DEF StreamInv
<1> QED BY <1>1, <1>2, <1>3, PTL DEF EvSpec

-----------------------------------------------------------------------------
(* Rate limiters (RateLimiter).                                              *)
(*                                                                          *)
(* A refill that is late takes away as many tokens as the next one will give *)
(* back: what is left in the bucket and what was admitted never exceed the   *)
(* burst and the tokens of the time up to lastRefill, wherever it stands.    *)
Accounted ==
  /\ tokens + admitted <= Burst + Rate * lastRefill
  /\ bucket.tokens + bucket.admitted <= Burst + Rate * bucket.last

ClocksPast ==
  /\ lastRefill <= ticks /\ bucket.last <= ticks
  /\ \A r \in Requests : request[r].now <= ticks

RateInv == RateTypeOK /\ Accounted /\ ClocksPast /\ AdmittedBounded

(* What a time is worth grows with it, and Earned is the difference.         *)
LEMMA EarnedDifference ==
  ASSUME NEW now \in Nat, NEW last \in Nat
  PROVE  /\ Earned(now, last) \in Int
         /\ Earned(now, last) = Rate * now - Rate * last
         /\ Rate * now \in Nat
         /\ last <= now => Earned(now, last) \in Nat
<1>1. Rate \in Nat
  BY RateLimiterAssumption
<1>2. \A a, b, c \in Int : (a - b) * c = c * a - c * b
  BY SMT
<1>3. \A a, b \in Nat : a * b \in Nat
  BY SMT
<1>4. last <= now => now - last \in Nat
  OBVIOUS
<1> QED
  BY <1>1, <1>2, <1>3, <1>4 DEF Earned

(* Capped never raises its argument above the burst, nor changes its type.   *)
LEMMA CappedBelow ==
  ASSUME NEW n \in Int
  PROVE  /\ Capped(n) \in Int /\ Capped(n) <= n /\ Capped(n) <= Burst
         /\ n >= 0 => Capped(n) \in Nat
BY RateLimiterAssumption DEF Capped

(* A later time is worth at least as much.                                   *)
LEMMA WorthMonotone ==
  ASSUME NEW a \in Nat, NEW b \in Nat, a <= b
  PROVE  Rate * a \in Nat /\ Rate * b \in Nat /\ Rate * a <= Rate * b
<1>1. Earned(b, a) \in Nat /\ Earned(b, a) = Rate * b - Rate * a
  BY EarnedDifference
<1>2. Rate * a \in Nat /\ Rate * b \in Nat
  BY EarnedDifference
<1> QED
  BY <1>1, <1>2

LEMMA RateInitially == RateInit => RateInv
<1> SUFFICES ASSUME RateInit PROVE RateInv
  OBVIOUS
<1>1. Rate * 0 = 0 /\ Burst \in Nat /\ Rate \in Nat
  BY RateLimiterAssumption
<1>2. RateTypeOK /\ ClocksPast
  BY <1>1 DEF RateInit, RateTypeOK, ClocksPast
<1> QED
  BY <1>1, <1>2 DEF RateInit, RateInv, Accounted, AdmittedBounded

(* A step of a refill keeps the account, whichever way the clock reads.      *)
LEMMA RefillKeeps ==
  ASSUME NEW r \in Requests, NEW at \in {"refilled", "idle"}, RateInv,
         tokens' = Capped(tokens + Earned(request[r].now, lastRefill)),
         lastRefill' = request[r].now,
         request' = [request EXCEPT ![r].at = at],
         UNCHANGED <<ticks, admitted, bucket>>
  PROVE  RateInv'
<1> DEFINE now == request[r].now
<1> USE RateLimiterAssumption
<1>1. now \in Nat /\ now <= ticks /\ lastRefill \in Nat /\ tokens \in Int /\ admitted \in Nat
  BY DEF RateInv, RateTypeOK, ClocksPast
<1>2. /\ Earned(now, lastRefill) \in Int /\ Rate * now \in Nat /\ Rate * lastRefill \in Nat
      /\ Earned(now, lastRefill) = Rate * now - Rate * lastRefill
  BY <1>1, EarnedDifference
<1>3. tokens' \in Int /\ tokens' <= tokens + Earned(now, lastRefill)
  BY <1>1, <1>2, CappedBelow
<1>4. tokens + admitted <= Burst + Rate * lastRefill
  BY DEF RateInv, Accounted
<1>5. tokens' + admitted' <= Burst + Rate * lastRefill'
  BY <1>1, <1>2, <1>3, <1>4
<1>6. RateTypeOK'
  BY <1>1, <1>3 DEF RateInv, RateTypeOK
<1>7. ClocksPast'
  BY <1>1 DEF RateInv, RateTypeOK, ClocksPast
<1> QED
  BY <1>5, <1>6, <1>7 DEF RateInv, Accounted, AdmittedBounded

(* What is admitted is at most what there was, less what is left.            *)
LEMMA LeftOver ==
  ASSUME NEW t \in Int, NEW a \in Nat, NEW left \in Nat, NEW b \in Nat,
         NEW past \in Nat, NEW worth \in Nat, NEW a2 \in Nat,
         t + a <= b + past, past <= worth, left + a2 = t + a
  PROVE  a2 <= b + worth
OBVIOUS

(* Every step keeps RateInv.                                                 *)
LEMMA RateStep == RateInv /\ [RateNext]_rlVars => RateInv'
<1> SUFFICES ASSUME RateInv, [RateNext]_rlVars PROVE RateInv'
  OBVIOUS
<1> USE RateLimiterAssumption
<1> /\ RateTypeOK /\ Accounted /\ ClocksPast /\ AdmittedBounded
  BY DEF RateInv
<1>1. CASE ClockTicks
  <2>1. Rate * ticks \in Nat /\ Rate * (ticks + 1) \in Nat /\ Rate * ticks <= Rate * (ticks + 1)
    BY WorthMonotone DEF RateTypeOK
  <2>2. RateTypeOK' /\ ClocksPast' /\ Accounted'
    BY <1>1 DEF ClockTicks, RateTypeOK, ClocksPast, Accounted
  <2> QED
    BY <1>1, <2>1, <2>2 DEF ClockTicks, RateTypeOK, RateInv, AdmittedBounded
<1>2. ASSUME NEW r \in Requests, ReadClock(r) PROVE RateInv'
  BY <1>2 DEF ReadClock, RateTypeOK, RateInv, ClocksPast, Accounted, AdmittedBounded
<1>3. ASSUME NEW r \in Requests, Refill(r) \/ RefillCancelled(r) PROVE RateInv'
  BY <1>3, RefillKeeps DEF Refill, RefillCancelled, RateInv
<1>4. ASSUME NEW r \in Requests, Take(r) PROVE RateInv'
  <2> DEFINE past == Rate * lastRefill
             worth == Rate * ticks
  <2>1. past \in Nat /\ worth \in Nat /\ past <= worth
    BY WorthMonotone DEF RateTypeOK, ClocksPast
  <2>2. /\ tokens' \in Nat /\ admitted' \in Nat
        /\ tokens' + admitted' = tokens + admitted
    BY <1>4 DEF Take, RateTypeOK
  <2>3. RateTypeOK' /\ ClocksPast'
    BY <1>4, <2>2 DEF Take, RateTypeOK, ClocksPast
  <2>4. tokens \in Int /\ admitted \in Nat /\ Burst \in Nat
        /\ tokens + admitted <= Burst + past
    BY DEF Accounted, RateTypeOK, RateLimiterAssumption
  <2> HIDE DEF past, worth
  <2>5. admitted' <= Burst + worth
    BY <2>1, <2>2, <2>4, LeftOver
  <2> USE DEF past, worth
  <2> QED
    BY <1>4, <2>2, <2>3, <2>4, <2>5 DEF Take, RateInv, Accounted, AdmittedBounded
<1>5. ASSUME NEW r \in Requests, TurnedAway(r) PROVE RateInv'
  BY <1>5 DEF TurnedAway, RateTypeOK, RateInv, ClocksPast, Accounted, AdmittedBounded
<1>6. CASE Consume
  <2> DEFINE full == Capped(bucket.tokens + Earned(ticks, bucket.last))
             taken == IF full >= 1 THEN 1 ELSE 0
  <2>1. ticks \in Nat /\ bucket.last \in Nat /\ bucket.last <= ticks /\ bucket.tokens \in Nat
        /\ bucket.admitted \in Nat
    BY DEF RateTypeOK, ClocksPast
  <2>2. /\ Earned(ticks, bucket.last) \in Nat /\ Rate * ticks \in Nat /\ Rate * bucket.last \in Nat
        /\ Earned(ticks, bucket.last) = Rate * ticks - Rate * bucket.last
    BY <2>1, EarnedDifference
  <2>3. full \in Nat /\ full <= bucket.tokens + Earned(ticks, bucket.last)
    BY <2>1, <2>2, CappedBelow
  <2>4. bucket.tokens + bucket.admitted <= Burst + Rate * bucket.last
    BY DEF Accounted
  <2>5. bucket' = [tokens |-> full - taken, last |-> ticks, admitted |-> bucket.admitted + taken]
    BY <1>6 DEF Consume
  <2>6. full - taken \in Nat /\ taken \in Nat /\ bucket.admitted + taken \in Nat
    BY <2>1, <2>3
  <2>7. (full - taken) + (bucket.admitted + taken) <= Burst + Rate * ticks
    BY <2>1, <2>2, <2>3, <2>4, <2>6
  <2>8. bucket.admitted + taken <= Burst + Rate * ticks
    BY <2>1, <2>2, <2>6, <2>7
  <2>9. bucket'.tokens = full - taken /\ bucket'.last = ticks /\ bucket'.admitted = bucket.admitted + taken
    BY <2>5
  <2>10. UNCHANGED <<ticks, tokens, lastRefill, request, admitted>>
    BY <1>6 DEF Consume
  <2> HIDE DEF full, taken
  <2>11. RateTypeOK'
    BY <2>1, <2>5, <2>6, <2>10 DEF RateTypeOK
  <2>12. ClocksPast'
    BY <2>1, <2>9, <2>10 DEF ClocksPast
  <2>13. Accounted' /\ AdmittedBounded'
    BY <2>7, <2>8, <2>9, <2>10 DEF Accounted, AdmittedBounded
  <2> QED
    BY <2>11, <2>12, <2>13 DEF RateInv
<1>7. CASE UNCHANGED rlVars
  BY <1>7 DEF rlVars, RateTypeOK, RateInv, ClocksPast, Accounted, AdmittedBounded
<1> QED
  BY <1>1, <1>2, <1>3, <1>4, <1>5, <1>6, <1>7 DEF RateNext, RequestStep

(* No bucket ever admits more than its burst and the tokens of the time that *)
(* has passed, whatever the interleaving of the requests.                    *)
THEOREM RateLimiterAdmits == RateSpec => []AdmittedBounded
<1>1. RateInv => AdmittedBounded
  BY DEF RateInv
<1> QED
  BY <1>1, RateInitially, RateStep, PTL DEF RateSpec
=============================================================================
