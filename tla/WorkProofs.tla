----------------------------- MODULE WorkProofs ------------------------------
(***************************************************************************)
(* Proofs about the work of a run: what a persona's call puts on the wire,   *)
(* what the cycles of the implementation loop leave at the remote, which     *)
(* model a persona is sent to, and what a delivery has done when it is over. *)
(***************************************************************************)
EXTENDS PersonaCall, Workspace, ModelRouting, Delivery, DataLemmas

IsSeq(s) == \E S : s \in Seq(S)

-----------------------------------------------------------------------------
(* The workspace.                                                            *)

\* The fields the argument follows through the updates of these records.
SpaceShape ==
  /\ {"toolchain", "blockers"} \subseteq DOMAIN work
  /\ "stage" \in DOMAIN at
  /\ IsSeq(git.log)

PushInv == SpaceShape /\ PushedOrTold

LEMMA CommitAllLast ==
  ASSUME IsSeq(git.log)
  PROVE  /\ IsSeq(CommitAll(git.log))
         /\ CommitAll(git.log) # <<>> =>
              /\ Len(CommitAll(git.log)) \in Nat \ {0}
              /\ CommitAll(git.log)[Len(CommitAll(git.log))] = Tracked(disk)
<1>1. PICK S : git.log \in Seq(S)
  BY DEF IsSeq
<1> DEFINE d == Tracked(disk)
           log == CommitAll(git.log)
<1>2. CASE d = LastCommit(git.log)
  <2>1. log = git.log
    BY <1>2 DEF CommitAll
  <2>2. log # <<>> => Len(log) \in Nat \ {0} /\ log[Len(log)] = d
    BY <1>1, <1>2, <2>1 DEF LastCommit, Last
  <2> QED BY <2>1, <2>2
<1>3. CASE d # LastCommit(git.log)
  <2> HIDE DEF d
  <2>1. log = Append(git.log, d)
    BY <1>3 DEF CommitAll, d
  <2>2. git.log \in Seq(S \cup {d})
    BY <1>1
  <2>3. /\ Append(git.log, d) \in Seq(S \cup {d})
        /\ Len(Append(git.log, d)) = Len(git.log) + 1
        /\ Append(git.log, d)[Len(git.log) + 1] = d
        /\ Len(git.log) \in Nat
    BY <2>2
  <2>4. Len(log) \in Nat \ {0} /\ log[Len(log)] = d
    BY <2>1, <2>3
  <2>5. IsSeq(log)
    BY <2>1, <2>3 DEF IsSeq
  <2> QED BY <2>4, <2>5 DEF d
<1> QED BY <1>2, <1>3

\* A checkpoint that is made pushes what the workspace holds, or says it could not.
LEMMA CheckpointPushesOrTells ==
  ASSUME NEW stage, NEW kind, SpaceShape, Checkpoint(stage, kind)
  PROVE  /\ {"toolchain", "blockers"} \subseteq DOMAIN work'
         /\ work'.toolchain = work.toolchain
         /\ IsSeq(git'.log)
         /\ ~SkipsCheckpoint(kind) /\ Toolchain.push =>
              \/ "push" \in work'.blockers
              \/ remote' > 0 /\ git'.log[remote'] = Tracked(disk')
<1>1. disk' = disk
  BY DEF Checkpoint
<1>2. CASE SkipsCheckpoint(kind)
  BY <1>2 DEF Checkpoint, SpaceShape
<1>3. ASSUME ~SkipsCheckpoint(kind),
             NEW stop \in {"none", "early", "push", "answer"},
             NEW res, res = DoCheckpoint(stop),
             NEW cp,
             git' = res.git, remote' = res.remote,
             work' = IF res.error
                     THEN [work EXCEPT !.blockers = IF Toolchain.push THEN @ \cup {"push"} ELSE @]
                     ELSE IF ShouldAppend(work.checkpoints, cp)
                     THEN [work EXCEPT !.checkpoints = Append(@, cp)] ELSE work
      PROVE  /\ {"toolchain", "blockers"} \subseteq DOMAIN work'
             /\ work'.toolchain = work.toolchain
             /\ IsSeq(git'.log)
             /\ Toolchain.push =>
                  \/ "push" \in work'.blockers
                  \/ remote' > 0 /\ git'.log[remote'] = Tracked(disk')
  <2>1. /\ {"toolchain", "blockers"} \subseteq DOMAIN work'
        /\ work'.toolchain = work.toolchain
    BY <1>3 DEF SpaceShape
  <2>2. res.error /\ Toolchain.push => "push" \in work'.blockers
    BY <1>3 DEF SpaceShape
  <2>3. git'.log \in {git.log, CommitAll(git.log)}
    BY <1>3 DEF DoCheckpoint
  <2>4. IsSeq(git'.log)
    BY <2>3, CommitAllLast DEF SpaceShape
  <2>5. ASSUME ~res.error, Toolchain.push
        PROVE  remote' > 0 /\ git'.log[remote'] = Tracked(disk')
    <3>1. stop = "none"
      BY <1>3, <2>5 DEF DoCheckpoint
    <3>2. /\ git'.log = CommitAll(git.log)
          /\ ~PushRefused(git'.log)
          /\ remote' = PushOf(git'.log)
      BY <1>3, <2>5, <3>1 DEF DoCheckpoint
    <3>3. git'.log # <<>> /\ remote' = Len(git'.log)
      BY <2>5, <3>2 DEF PushRefused, PushOf, Pushes, HeadSha
    <3> QED BY <1>1, <3>2, <3>3, CommitAllLast DEF SpaceShape
  <2> QED BY <2>1, <2>2, <2>4, <2>5
<1>4. CASE ~SkipsCheckpoint(kind)
  <2>1. PICK stop \in {"none", "early", "push", "answer"} :
          LET res == DoCheckpoint(stop)
              cp == [phase |-> Phase(kind), sha |-> HeadSha(res.git.log)] IN
          /\ git' = res.git
          /\ remote' = res.remote
          /\ work' = IF res.error
                     THEN [work EXCEPT !.blockers = IF Toolchain.push THEN @ \cup {"push"} ELSE @]
                     ELSE IF ShouldAppend(work.checkpoints, cp)
                     THEN [work EXCEPT !.checkpoints = Append(@, cp)] ELSE work
    BY <1>4 DEF Checkpoint
  <2> QED BY <1>3, <1>4, <2>1
<1> QED BY <1>2, <1>4

LEMMA PushInitial == WorkspaceInit => PushInv
<1> SUFFICES ASSUME WorkspaceInit PROVE PushInv
  OBVIOUS
<1>1. at.stage = "setup" /\ "stage" \in DOMAIN at
  BY DEF WorkspaceInit, Failed
<1>2. {"toolchain", "blockers"} \subseteq DOMAIN work
  BY DEF WorkspaceInit
<1>3. IsSeq(git.log)
  <2>1. git.log = <<>> /\ <<>> \in Seq({})
    BY DEF WorkspaceInit
  <2> QED BY <2>1 DEF IsSeq
<1> QED BY <1>1, <1>2, <1>3 DEF PushInv, SpaceShape, PushedOrTold

LEMMA PushStep == PushInv /\ [WorkspaceNext]_spaceVars => PushInv'
<1> SUFFICES ASSUME PushInv, [WorkspaceNext]_spaceVars PROVE PushInv'
  OBVIOUS
<1> USE DEF PushInv, SpaceShape
\* Steps that leave the engine anywhere but at the verdict.
<1>a. ASSUME {"toolchain", "blockers"} \subseteq DOMAIN work', "stage" \in DOMAIN at',
             IsSeq(git'.log), at'.stage # "verify"
      PROVE  PushInv'
  BY <1>a DEF PushedOrTold
<1>1. CASE Setup
  <2>1. PICK outcome \in {"kept", "made", "refused"} :
          IF outcome = "refused"
          THEN Fault /\ FailRun /\ UNCHANGED <<work, disk>>
          ELSE LET r == work.request
                   keeps == work.toolchain # 0 /\ ToolchainMatchesRequest(work.toolchain, r.words)
                   i == IF keeps THEN work.toolchain ELSE SelectToolchain(r.words \cup r.stack)
               IN /\ work' = [work EXCEPT !.toolchain = i, !.url = @ \/ outcome = "made"]
                  /\ disk' = SeedGo(i, disk)
                  /\ IF ToolchainConfigs[i].id \in down THEN FailRun
                     ELSE IF work.gate.ready THEN Proceed("qa") ELSE Proceed("plan")
                  /\ UNCHANGED used
    BY <1>1 DEF Setup
  <2>2. FailRun \/ Proceed("qa") \/ Proceed("plan")
    BY <2>1
  <2>3. "stage" \in DOMAIN at' /\ at'.stage # "verify"
    BY <2>2 DEF FailRun, Proceed
  <2>4. {"toolchain", "blockers"} \subseteq DOMAIN work'
    BY <2>1
  <2>5. git' = git
    BY <1>1 DEF Setup
  <2> QED BY <1>a, <2>3, <2>4, <2>5
<1>2. CASE Plan \/ BootstrapSkips \/ BootstrapRefused \/ BootstrapRuns \/ PodReturns \/ Validate
  <2>1. git' = git
    BY <1>2 DEF Plan, BootstrapSkips, BootstrapRefused, BootstrapRuns, PodReturns, Validate
  <2>2. {"toolchain", "blockers"} \subseteq DOMAIN work'
    BY <1>2 DEF Plan, BootstrapSkips, BootstrapRefused, BootstrapRuns, PodReturns, Validate
  <2>3. \/ FailRun \/ Proceed("bootstrap") \/ Proceed("bootcheck") \/ Proceed("waiting")
        \/ Proceed("validate") \/ Proceed("checkpoint")
    BY <1>2 DEF Plan, BootstrapSkips, BootstrapRefused, BootstrapRuns, PodReturns, Validate
  <2>4. "stage" \in DOMAIN at' /\ at'.stage # "verify"
    BY <2>3 DEF FailRun, Proceed
  <2> QED BY <1>a, <2>1, <2>2, <2>4
<1>3. CASE BootstrapLooks
  BY <1>3, <1>a DEF BootstrapLooks, Proceed, FailRun
<1>4. CASE BootstrapCheckpoint \/ TriageCheckpoint \/ PlanCheckpoint
  <2>1. \E stage, kind : Checkpoint(stage, kind)
    BY <1>4 DEF BootstrapCheckpoint, TriageCheckpoint, PlanCheckpoint
  <2>2. {"toolchain", "blockers"} \subseteq DOMAIN work' /\ IsSeq(git'.log)
    BY <2>1, CheckpointPushesOrTells
  <2>3. "stage" \in DOMAIN at' /\ at'.stage # "verify"
    BY <1>4 DEF BootstrapCheckpoint, TriageCheckpoint, PlanCheckpoint, Proceed
  <2> QED BY <1>a, <2>2, <2>3
<1>5. CASE WorkCheckpoint
  <2>1. Checkpoint("checkpoint", "work") /\ Proceed("verify")
    BY <1>5 DEF WorkCheckpoint
  <2>2. /\ {"toolchain", "blockers"} \subseteq DOMAIN work'
        /\ work'.toolchain = work.toolchain
        /\ IsSeq(git'.log)
        /\ ~SkipsCheckpoint("work") /\ Toolchain.push =>
             \/ "push" \in work'.blockers
             \/ remote' > 0 /\ git'.log[remote'] = Tracked(disk')
    BY <2>1, CheckpointPushesOrTells
  <2>3. SkipsCheckpoint("work") => ~Toolchain.checkpoints
    BY DEF SkipsCheckpoint, Micro
  <2>4. "stage" \in DOMAIN at'
    BY <2>1 DEF Proceed
  <2>5. Toolchain' = Toolchain
    BY <2>2 DEF Toolchain
  <2>6. PushedOrTold'
    BY <2>2, <2>3, <2>5 DEF PushedOrTold
  <2> QED BY <2>2, <2>4, <2>6
<1>6. CASE CacheExpires \/ ServerStops \/ ServerReturns
  <2>1. UNCHANGED <<work, disk, git, remote, at>>
    BY <1>6 DEF CacheExpires, ServerStops, ServerReturns
  <2> QED BY <2>1 DEF PushedOrTold, Toolchain
<1>7. CASE PodWrites
  BY <1>7 DEF PodWrites, PushedOrTold
<1>8. CASE GateOpens \/ CycleFails
  <2>1. git' = git /\ {"toolchain", "blockers"} \subseteq DOMAIN work'
    BY <1>8 DEF GateOpens, CycleFails
  <2>2. "stage" \in DOMAIN at' /\ at'.stage # "verify"
    BY <1>8 DEF GateOpens, CycleFails, Proceed, FailRun
  <2> QED BY <1>a, <2>1, <2>2
<1>9. CASE QARejects \/ RetryRun
  <2>1. UNCHANGED <<work, git>>
    BY <1>9 DEF QARejects, RetryRun
  <2>2. "stage" \in DOMAIN at' /\ at'.stage # "verify"
    BY <1>9 DEF QARejects, RetryRun, Failed
  <2> QED BY <1>a, <2>1, <2>2
<1>10. CASE UNCHANGED spaceVars
  BY <1>10 DEF spaceVars, PushedOrTold, Toolchain
<1> QED BY <1>1, <1>2, <1>3, <1>4, <1>5, <1>6, <1>7, <1>8, <1>9, <1>10 DEF WorkspaceNext

\* For every list of toolchains, every request and every fault: when a cycle is
\* judged, what the workspace holds is at the remote, or the verdict knows of
\* the push that failed.
THEOREM WorkIsPushedOrTold == WorkspaceSpec => []PushedOrTold
<1>1. PushInv => PushedOrTold
  BY DEF PushInv
<1> QED BY <1>1, PushInitial, PushStep, PTL DEF WorkspaceSpec

-----------------------------------------------------------------------------
(* The turns of a tool loop.                                                 *)

IsMessage(m) ==
  /\ {"role", "text", "calls", "id"} \subseteq DOMAIN m
  /\ \A k \in DOMAIN m.calls : "id" \in DOMAIN m.calls[k]

\* Call k of message i has its result in its place.
Answered(msgs, i, k) ==
  /\ i + k \in DOMAIN msgs
  /\ msgs[i + k].role = "tool"
  /\ msgs[i + k].id \in {msgs[i].calls[k].id, NoId}

Paired(msgs) == \A i \in DOMAIN msgs : \A k \in DOMAIN msgs[i].calls : Answered(msgs, i, k)

\* A call of the conversation has its result, or it waits at the place among
\* the pending calls from which its result will come to follow it.
Awaited(i, k) ==
  /\ runAt = "dispatch"
  /\ i + k > Len(convo)
  /\ i + k - Len(convo) \in 1..Len(pendingCalls)
  /\ convo[i].calls[k] = pendingCalls[i + k - Len(convo)]

TurnInv ==
  /\ setup.provider \in Providers \cup {"unregistered"}
  /\ runAt \in {"loop", "dispatch", "structured", "slim"} => setup.provider \in Providers
  /\ IsSeq(convo) /\ IsSeq(pendingCalls)
  /\ \A i \in DOMAIN convo : IsMessage(convo[i])
  /\ \A i \in DOMAIN convo : \A k \in DOMAIN convo[i].calls :
       k \in Nat /\ (Answered(convo, i, k) \/ Awaited(i, k))
  /\ ToolTurnsPaired

\* Messages without calls are paired.
LEMMA WithoutCalls ==
  ASSUME NEW msgs, \A i \in DOMAIN msgs : msgs[i].calls = <<>>
  PROVE  Paired(msgs)
BY DEF Paired

LEMMA MessageFields ==
  ASSUME NEW role, NEW text
  PROVE  /\ IsMessage(Message(role, text))
         /\ Message(role, text).role = role
         /\ Message(role, text).calls = <<>>
         /\ Message(role, text).id = NoId
BY DEF IsMessage, Message

\* What every provider sends of paired messages is paired.
LEMMA ChatPaired ==
  ASSUME NEW p \in Providers,
         NEW msgs, NEW tools, NEW json,
         \A i \in DOMAIN msgs : IsMessage(msgs[i]),
         Paired(msgs)
  PROVE  Paired(Chat(p, [msgs |-> msgs, tools |-> tools, json |-> json]).msgs)
<1> DEFINE req == [msgs |-> msgs, tools |-> tools, json |-> json]
<1>0. req.msgs = msgs
  OBVIOUS
<1>1. CASE p \in {"openai", "sglang"}
  <2>1. Chat(p, req) = OpenAIChat(req)
    BY <1>1 DEF Chat
  <2>2. OpenAIChat(req).msgs = msgs
    BY DEF OpenAIChat
  <2> QED BY <2>1, <2>2
<1>2. CASE p = "anthropic"
  <2> DEFINE kept == SelectSeq(msgs, LAMBDA m : m.role # "tool")
             sent == [i \in DOMAIN kept |-> Message(kept[i].role, kept[i].text)]
  <2>1. Chat(p, req).msgs = sent
    BY <1>2 DEF Chat, AnthropicChat
  <2> HIDE DEF kept
  <2>2. \A i \in DOMAIN sent : sent[i].calls = <<>>
    BY MessageFields
  <2> QED BY <2>1, <2>2, WithoutCalls
<1>3. CASE p = "ollama"
  <2> DEFINE sent == convertToOllamaMessages(msgs)
  <2>1. Chat(p, req).msgs = sent
    BY <1>3 DEF Chat, OllamaChat
  <2>2. /\ DOMAIN sent = DOMAIN msgs
        /\ \A i \in DOMAIN msgs :
             /\ sent[i].role = msgs[i].role /\ sent[i].id = msgs[i].id
             /\ DOMAIN sent[i].calls = DOMAIN msgs[i].calls
             /\ \A k \in DOMAIN msgs[i].calls :
                  msgs[i].calls[k].id # NoId => sent[i].calls[k].id = msgs[i].calls[k].id
    BY DEF convertToOllamaMessages, IsMessage
  <2> QED BY <2>1, <2>2 DEF Paired, Answered
<1>4. CASE p = "copilot"
  <2> DEFINE last == Message("user", lastUserMessage(msgs))
             sent == buildSystemMessage(msgs) \o <<last>>
  <2>1. Chat(p, req).msgs = sent
    BY <1>4 DEF Chat, CopilotChat
  <2>2. last.calls = <<>>
    BY MessageFields
  <2>3. \/ buildSystemMessage(msgs) = <<>>
        \/ \E m : m.calls = <<>> /\ buildSystemMessage(msgs) = <<m>>
    BY MessageFields DEF buildSystemMessage
  <2> HIDE DEF last
  <2>4. CASE buildSystemMessage(msgs) = <<>>
    <3>1. sent = <<last>>
      BY <2>4
    <3>2. \A i \in DOMAIN sent : sent[i].calls = <<>>
      BY <2>2, <3>1
    <3> QED BY <2>1, <3>2, WithoutCalls
  <2>5. ASSUME NEW m, m.calls = <<>>, buildSystemMessage(msgs) = <<m>>
        PROVE  Paired(Chat(p, req).msgs)
    <3>1. sent = <<m>> \o <<last>>
      BY <2>5
    <3>2. <<m>> \in Seq({m, last}) /\ <<last>> \in Seq({m, last})
      OBVIOUS
    <3>3. DOMAIN (<<m>> \o <<last>>) = 1..2 /\ \A i \in 1..2 : (<<m>> \o <<last>>)[i] \in {m, last}
      BY <3>2
    <3>4. \A i \in DOMAIN sent : sent[i].calls = <<>>
      BY <2>2, <2>5, <3>1, <3>3
    <3> QED BY <2>1, <3>4, WithoutCalls
  <2> QED BY <2>3, <2>4, <2>5
<1> QED BY <1>1, <1>2, <1>3, <1>4, PersonaCallAssumption DEF PersonaCallAssumption

\* The structured call keeps the tool turns of the conversation.
LEMMA StructuredKeeps ==
  ASSUME NEW msgs, \A i \in DOMAIN msgs : IsMessage(msgs[i]), Paired(msgs)
  PROVE  /\ \A i \in DOMAIN StructuredRequest(msgs).msgs : IsMessage(StructuredRequest(msgs).msgs[i])
         /\ Paired(StructuredRequest(msgs).msgs)
         /\ StructuredRequest(msgs) = [msgs |-> StructuredRequest(msgs).msgs, tools |-> {}, json |-> TRUE]
<1> DEFINE plain == [i \in DOMAIN msgs |->
                       IF msgs[i].role = "system" THEN Message("system", StructuredSystem) ELSE msgs[i]]
           sent == Constrained(plain)
<1>1. StructuredRequest(msgs) = [msgs |-> sent, tools |-> {}, json |-> TRUE]
  BY DEF StructuredRequest
<1>2. \A i \in DOMAIN msgs :
        /\ IsMessage(plain[i])
        /\ plain[i].role = msgs[i].role
        /\ msgs[i].role # "system" => plain[i] = msgs[i]
        /\ msgs[i].role = "system" => plain[i].calls = <<>>
  BY MessageFields
<1>3. DOMAIN plain = DOMAIN msgs
  OBVIOUS
<1> HIDE DEF plain
<1>4. /\ DOMAIN sent = DOMAIN msgs
      /\ \A i \in DOMAIN msgs :
           /\ DOMAIN sent[i] = DOMAIN plain[i]
           /\ sent[i].role = plain[i].role /\ sent[i].id = plain[i].id
           /\ sent[i].calls = plain[i].calls
  BY <1>2, <1>3 DEF Constrained, IsMessage
<1> HIDE DEF sent
<1>5. \A i \in DOMAIN sent : IsMessage(sent[i])
  BY <1>2, <1>4 DEF IsMessage
<1>6. ASSUME NEW i \in DOMAIN sent, NEW k \in DOMAIN sent[i].calls
      PROVE  Answered(sent, i, k)
  <2>1. msgs[i].role # "system"
    BY <1>2, <1>4, <1>6
  <2>2. sent[i].calls = msgs[i].calls
    BY <1>2, <1>4, <2>1
  <2>3. Answered(msgs, i, k)
    BY <1>4, <1>6, <2>2 DEF Paired
  <2>4. plain[i + k] = msgs[i + k]
    BY <1>2, <2>3 DEF Answered
  <2> QED BY <1>4, <2>2, <2>3, <2>4 DEF Answered
<1> QED BY <1>1, <1>5, <1>6 DEF Paired

LEMMA TurnsAtRest ==
  ASSUME TurnInv, runAt # "dispatch"
  PROVE  Paired(convo) /\ \A i \in DOMAIN convo : IsMessage(convo[i])
BY DEF TurnInv, Awaited, Paired

LEMMA TurnsInitial == CallInit => TurnInv
<1> SUFFICES ASSUME CallInit PROVE TurnInv
  OBVIOUS
<1>1. setup.provider \in Providers \cup {"unregistered"}
  BY DEF CallInit
<1>2. IsSeq(convo) /\ IsSeq(pendingCalls)
  <2>1. convo = <<>> /\ pendingCalls = <<>> /\ <<>> \in Seq({})
    BY DEF CallInit
  <2> QED BY <2>1 DEF IsSeq
<1>3. wire.msgs = <<>> /\ convo = <<>>
  BY DEF CallInit
<1>4. runAt = "start"
  BY DEF CallInit
<1> QED BY <1>1, <1>2, <1>3, <1>4 DEF TurnInv, ToolTurnsPaired

LEMMA TurnStep == TurnInv /\ [CallNext]_callVars => TurnInv'
<1> SUFFICES ASSUME TurnInv, [CallNext]_callVars PROVE TurnInv'
  OBVIOUS
<1>0. setup' = setup
  BY DEF CallNext, callVars, RunStarts, ToolRound, ToolLoopEnds, ToolRoundFails, DispatchTool, RoundEnds,
         StructuredCall, SlimRetry, StructuredCallFails, PersonaParses
\* Steps that leave the conversation alone, outside of a round of tool calls.
<1>a. ASSUME UNCHANGED <<convo, pendingCalls>>, runAt # "dispatch", runAt' # "dispatch",
             runAt \in {"loop", "dispatch", "structured", "slim"}
               \/ runAt' \notin {"loop", "dispatch", "structured", "slim"},
             ToolTurnsPaired'
      PROVE  TurnInv'
  BY <1>0, <1>a DEF TurnInv, Awaited, Answered
<1>1. CASE RunStarts
  <2>1. /\ convo' = <<Message("system", buildSystemContent(TRUE)), Message("user", {"task"})>>
        /\ UNCHANGED <<wire, pendingCalls>>
        /\ runAt' \in {"failed", "loop", "structured"}
        /\ runAt' \in {"loop", "structured"} => setup.provider \in Providers
    BY <1>1 DEF RunStarts, TurnInv
  <2> DEFINE s == Message("system", buildSystemContent(TRUE))
             u == Message("user", {"task"})
  <2>2. IsMessage(s) /\ IsMessage(u) /\ s.calls = <<>> /\ u.calls = <<>>
    BY MessageFields
  <2> HIDE DEF s, u
  <2>3. convo' = <<s, u>>
    BY <2>1 DEF s, u
  <2>4. <<s, u>> \in Seq({s, u}) /\ DOMAIN <<s, u>> = {1, 2}
    OBVIOUS
  <2>5. \A i \in DOMAIN convo' : IsMessage(convo'[i]) /\ convo'[i].calls = <<>>
    BY <2>2, <2>3, <2>4
  <2>6. IsSeq(convo') /\ IsSeq(pendingCalls')
    BY <2>1, <2>3, <2>4 DEF IsSeq, TurnInv
  <2>7. ToolTurnsPaired'
    BY <2>1 DEF TurnInv, ToolTurnsPaired
  <2>8. \A i \in DOMAIN convo' : DOMAIN convo'[i].calls = {}
    BY <2>5
  <2>9. setup'.provider \in Providers \cup {"unregistered"}
        /\ (runAt' \in {"loop", "dispatch", "structured", "slim"} => setup'.provider \in Providers)
    BY <1>0, <2>1 DEF TurnInv
  <2> QED BY <2>5, <2>6, <2>7, <2>8, <2>9 DEF TurnInv
<1>2. CASE ToolRound
  <2>1. PICK n \in 1..CallsPerTurn, given \in BOOLEAN :
          \E names \in [1..n -> ModelTools \cup {"unknown"}] :
            pendingCalls' = [k \in 1..n |-> [id |-> IF given THEN <<rounds, k>> ELSE NoId,
                                             name |-> names[k]]]
    BY <1>2 DEF ToolRound
  <2>2. n \in Nat
    BY <2>1, PersonaCallAssumption DEF PersonaCallAssumption
  <2> DEFINE pending == pendingCalls'
             turn == [Message("assistant", {}) EXCEPT !.calls = pending]
             size == Len(convo)
  <2>3. /\ pending = [k \in 1..n |-> pending[k]]
        /\ \A k \in 1..n : "id" \in DOMAIN pending[k]
    BY <2>1
  <2>4. pending \in Seq({pending[k] : k \in 1..n}) /\ Len(pending) = n /\ DOMAIN pending = 1..n
    BY <2>2, <2>3
  <2>5. /\ IsMessage(turn) /\ turn.calls = pending
    BY <2>3 DEF IsMessage, Message
  <2> HIDE DEF turn
  <2>6. /\ convo' = Append(convo, turn) /\ runAt = "loop" /\ runAt' = "dispatch"
        /\ wire' = Chat(setup.provider, ToolRequest)
    BY <1>2 DEF ToolRound, turn
  <2>7. PICK S : convo \in Seq(S)
    BY DEF TurnInv, IsSeq
  <2>8. /\ Append(convo, turn) \in Seq(S \cup {turn})
        /\ size \in Nat /\ DOMAIN convo = 1..size
        /\ DOMAIN Append(convo, turn) = 1..(size + 1)
        /\ Len(Append(convo, turn)) = size + 1
        /\ \A i \in 1..size : Append(convo, turn)[i] = convo[i]
        /\ Append(convo, turn)[size + 1] = turn
    <3>1. convo \in Seq(S \cup {turn})
      BY <2>7
    <3> QED BY <3>1
  <2>9. IsSeq(convo') /\ IsSeq(pendingCalls')
    BY <2>4, <2>6, <2>8 DEF IsSeq
  <2>10. \A i \in DOMAIN convo' : IsMessage(convo'[i])
    BY <2>3, <2>4, <2>5, <2>6, <2>8 DEF TurnInv
  <2>11. ASSUME NEW i \in DOMAIN convo', NEW k \in DOMAIN convo'[i].calls
         PROVE  k \in Nat /\ (Answered(convo', i, k) \/ Awaited(i, k)')
    <3>1. CASE i \in 1..size
      <4>1. convo'[i] = convo[i] /\ k \in Nat /\ Answered(convo, i, k)
        BY <2>6, <2>8, <2>11, <3>1 DEF TurnInv, Awaited
      <4>2. i + k \in 1..size
        BY <2>8, <4>1 DEF Answered
      <4>3. convo'[i + k] = convo[i + k] /\ i + k \in DOMAIN convo'
        BY <2>6, <2>8, <4>2
      <4> QED BY <4>1, <4>3 DEF Answered
    <3>2. CASE i = size + 1
      <4>1. convo'[i] = turn /\ k \in 1..n
        BY <2>4, <2>5, <2>6, <2>8, <2>11, <3>2
      <4>2. /\ i + k > Len(convo') /\ i + k - Len(convo') = k
        BY <2>2, <2>6, <2>8, <3>2, <4>1
      <4>3. convo'[i].calls[k] = pendingCalls'[k]
        BY <2>5, <4>1
      <4>4. k \in 1..Len(pendingCalls') /\ k \in Nat
        BY <2>2, <2>4, <4>1
      <4> QED BY <2>6, <4>2, <4>3, <4>4 DEF Awaited
    <3> QED BY <2>6, <2>8, <2>11, <3>1, <3>2
  <2>12. ToolTurnsPaired'
    <3>1. setup.provider \in Providers
      BY <2>6 DEF TurnInv
    <3>2. Paired(wire'.msgs)
      BY <2>6, <3>1, TurnsAtRest, ChatPaired DEF ToolRequest
    <3> QED BY <3>2 DEF ToolTurnsPaired, Paired, Answered
  <2> QED BY <1>0, <2>6, <2>9, <2>10, <2>11, <2>12 DEF TurnInv
<1>3. CASE ToolLoopEnds
  <2>1. /\ runAt = "loop" /\ runAt' = "structured" /\ UNCHANGED <<convo, pendingCalls>>
        /\ wire' = wire \/ wire' = Chat(setup.provider, ToolRequest)
    BY <1>3 DEF ToolLoopEnds
  <2>2. setup.provider \in Providers
    BY <2>1 DEF TurnInv
  <2>3. Paired(Chat(setup.provider, ToolRequest).msgs)
    BY <2>1, <2>2, TurnsAtRest, ChatPaired DEF ToolRequest
  <2>4. ToolTurnsPaired'
    BY <2>1, <2>3 DEF TurnInv, ToolTurnsPaired, Paired, Answered
  <2> QED BY <1>a, <2>1, <2>4
<1>4. CASE ToolRoundFails \/ StructuredCallFails \/ PersonaParses
  <2>1. /\ UNCHANGED <<convo, pendingCalls, wire>>
        /\ runAt \in {"loop", "structured", "slim", "returned"} /\ runAt' \in {"failed", "parsed"}
    BY <1>4 DEF ToolRoundFails, StructuredCallFails, PersonaParses
  <2>2. ToolTurnsPaired'
    BY <2>1 DEF TurnInv, ToolTurnsPaired
  <2> QED BY <1>a, <2>1, <2>2
<1>5. CASE DispatchTool
  <2> DEFINE size == Len(convo)
             c == Head(pendingCalls)
  <2>1. PICK text \in RegistryCall(c) : convo' = convo \o ToolTurn(c, text)
    BY <1>5 DEF DispatchTool
  <2> DEFINE result == ToolMessage(c, text)
  <2>2. IsMessage(result) /\ result.role = "tool" /\ result.calls = <<>> /\ result.id = c.id
    BY DEF ToolMessage, Message, IsMessage
  <2>3. /\ convo' = convo \o <<result>> /\ pendingCalls' = Tail(pendingCalls) /\ pendingCalls # <<>>
        /\ runAt = "dispatch" /\ runAt' = runAt /\ wire' = wire
    BY <1>5, <2>1 DEF DispatchTool, ToolTurn
  <2> HIDE DEF result
  <2>4. PICK S : convo \in Seq(S)
    BY DEF TurnInv, IsSeq
  <2>5. /\ convo \o <<result>> \in Seq(S \cup {result})
        /\ size \in Nat /\ DOMAIN convo = 1..size
        /\ DOMAIN (convo \o <<result>>) = 1..(size + 1)
        /\ Len(convo \o <<result>>) = size + 1
        /\ \A i \in 1..size : (convo \o <<result>>)[i] = convo[i]
        /\ (convo \o <<result>>)[size + 1] = result
    <3>1. convo \in Seq(S \cup {result}) /\ <<result>> \in Seq(S \cup {result})
      BY <2>4
    <3>2. Len(<<result>>) = 1 /\ <<result>>[1] = result
      OBVIOUS
    <3> QED BY <3>1, <3>2
  <2>6. PICK T : pendingCalls \in Seq(T)
    BY DEF TurnInv, IsSeq
  <2>7. /\ Tail(pendingCalls) \in Seq(T)
        /\ Len(pendingCalls) \in Nat \ {0} /\ c = pendingCalls[1]
        /\ Len(Tail(pendingCalls)) = Len(pendingCalls) - 1
        /\ \A j \in 1..(Len(pendingCalls) - 1) : Tail(pendingCalls)[j] = pendingCalls[j + 1]
    BY <2>3, <2>6
  <2>8. IsSeq(convo') /\ IsSeq(pendingCalls')
    BY <2>3, <2>5, <2>7 DEF IsSeq
  <2>9. \A i \in DOMAIN convo' : IsMessage(convo'[i])
    BY <2>2, <2>3, <2>5 DEF TurnInv
  <2>10. ASSUME NEW i \in DOMAIN convo', NEW k \in DOMAIN convo'[i].calls
         PROVE  k \in Nat /\ (Answered(convo', i, k) \/ Awaited(i, k)')
    <3>1. i \in 1..size /\ convo'[i] = convo[i]
      <4>1. i # size + 1
        BY <2>2, <2>3, <2>5, <2>10
      <4> QED BY <2>3, <2>5, <2>10, <4>1
    <3>2. k \in Nat /\ (Answered(convo, i, k) \/ Awaited(i, k))
      BY <2>5, <2>10, <3>1 DEF TurnInv
    <3>3. CASE Answered(convo, i, k)
      <4>1. i + k \in 1..size
        BY <2>5, <3>3 DEF Answered
      <4>2. convo'[i + k] = convo[i + k] /\ i + k \in DOMAIN convo'
        BY <2>3, <2>5, <4>1
      <4> QED BY <3>1, <3>2, <3>3, <4>2 DEF Answered
    <3>4. CASE Awaited(i, k)
      <4> DEFINE j == i + k - size
      <4>1. j \in 1..Len(pendingCalls) /\ convo[i].calls[k] = pendingCalls[j]
        BY <3>4 DEF Awaited
      <4>2. CASE j = 1
        <5>1. i + k = size + 1
          BY <2>5, <3>1, <3>2, <4>2
        <5>2. convo'[i + k] = result /\ i + k \in DOMAIN convo'
          BY <2>3, <2>5, <5>1
        <5>3. convo'[i].calls[k] = c
          BY <2>7, <3>1, <4>1, <4>2
        <5> QED BY <2>2, <3>2, <5>2, <5>3 DEF Answered
      <4>3. CASE j # 1
        <5>1. /\ j - 1 \in 1..Len(pendingCalls') /\ i + k - Len(convo') = j - 1
              /\ i + k > Len(convo')
          BY <2>3, <2>5, <2>7, <3>1, <3>2, <4>1, <4>3
        <5>2. pendingCalls'[j - 1] = pendingCalls[j]
          BY <2>3, <2>7, <4>1, <5>1
        <5>3. convo'[i].calls[k] = pendingCalls'[j - 1]
          BY <3>1, <4>1, <5>2
        <5> QED BY <2>3, <3>2, <5>1, <5>3 DEF Awaited
      <4> QED BY <4>2, <4>3
    <3> QED BY <3>2, <3>3, <3>4
  <2>11. ToolTurnsPaired'
    BY <2>3 DEF TurnInv, ToolTurnsPaired
  <2> QED BY <1>0, <2>3, <2>8, <2>9, <2>10, <2>11 DEF TurnInv
<1>6. CASE RoundEnds
  <2>1. /\ runAt = "dispatch" /\ runAt' = "loop" /\ pendingCalls = <<>>
        /\ UNCHANGED <<convo, pendingCalls, wire>>
    BY <1>6 DEF RoundEnds
  <2>2. \A i \in DOMAIN convo : \A k \in DOMAIN convo[i].calls : k \in Nat /\ Answered(convo, i, k)
    BY <2>1 DEF TurnInv, Awaited
  <2>3. \A i \in DOMAIN convo' : \A k \in DOMAIN convo'[i].calls : k \in Nat /\ Answered(convo', i, k)
    BY <2>1, <2>2
  <2>4. ToolTurnsPaired'
    BY <2>1 DEF TurnInv, ToolTurnsPaired
  <2> QED BY <1>0, <2>1, <2>3, <2>4 DEF TurnInv
<1>7. CASE StructuredCall
  <2>1. /\ runAt = "structured" /\ runAt' \in {"slim", "returned"} /\ UNCHANGED <<convo, pendingCalls>>
        /\ wire' = Chat(setup.provider, StructuredRequest(convo))
    BY <1>7 DEF StructuredCall
  <2>2. setup.provider \in Providers
    BY <2>1 DEF TurnInv
  <2> DEFINE sent == StructuredRequest(convo).msgs
  <2>3. /\ \A i \in DOMAIN sent : IsMessage(sent[i])
        /\ Paired(sent)
        /\ StructuredRequest(convo) = [msgs |-> sent, tools |-> {}, json |-> TRUE]
    BY <2>1, TurnsAtRest, StructuredKeeps
  <2> HIDE DEF sent
  <2>4. Paired(Chat(setup.provider, [msgs |-> sent, tools |-> {}, json |-> TRUE]).msgs)
    BY <2>2, <2>3, ChatPaired
  <2>5. ToolTurnsPaired'
    <3>1. Paired(wire'.msgs)
      BY <2>1, <2>3, <2>4
    <3> QED BY <3>1 DEF ToolTurnsPaired, Paired, Answered
  <2> QED BY <1>a, <2>1, <2>5
<1>8. CASE SlimRetry
  <2>1. /\ runAt = "slim" /\ runAt' \in {"failed", "returned"} /\ UNCHANGED <<convo, pendingCalls>>
        /\ wire' = Chat(setup.provider, StructuredRequest(SlimMessages))
    BY <1>8 DEF SlimRetry
  <2>2. setup.provider \in Providers
    BY <2>1 DEF TurnInv
  <2>3. /\ \A i \in DOMAIN SlimMessages : IsMessage(SlimMessages[i])
        /\ Paired(SlimMessages)
    <3> DEFINE s == Message("system", {})
               u == Message("user", {"task"})
    <3>1. IsMessage(s) /\ IsMessage(u) /\ s.calls = <<>> /\ u.calls = <<>>
      BY MessageFields
    <3> HIDE DEF s, u
    <3>2. SlimMessages = <<s, u>> /\ DOMAIN <<s, u>> = {1, 2}
      BY DEF SlimMessages, s, u
    <3>3. \A i \in DOMAIN SlimMessages : IsMessage(SlimMessages[i]) /\ SlimMessages[i].calls = <<>>
      BY <3>1, <3>2
    <3> QED BY <3>3, WithoutCalls
  <2> DEFINE sent == StructuredRequest(SlimMessages).msgs
  <2>4. /\ \A i \in DOMAIN sent : IsMessage(sent[i])
        /\ Paired(sent)
        /\ StructuredRequest(SlimMessages) = [msgs |-> sent, tools |-> {}, json |-> TRUE]
    BY <2>3, StructuredKeeps
  <2> HIDE DEF sent
  <2>5. Paired(Chat(setup.provider, [msgs |-> sent, tools |-> {}, json |-> TRUE]).msgs)
    BY <2>2, <2>4, ChatPaired
  <2>6. ToolTurnsPaired'
    <3>1. Paired(wire'.msgs)
      BY <2>1, <2>4, <2>5
    <3> QED BY <3>1 DEF ToolTurnsPaired, Paired, Answered
  <2> QED BY <1>a, <2>1, <2>6
<1>9. CASE UNCHANGED callVars
  BY <1>9 DEF callVars, TurnInv, Awaited, Answered, ToolTurnsPaired
<1> QED BY <1>1, <1>2, <1>3, <1>4, <1>5, <1>6, <1>7, <1>8, <1>9 DEF CallNext

\* For every provider, every number of rounds and of calls in a turn, whatever
\* IDs and names a model gives its calls: no request leaves with a call that is
\* not followed by its result.
THEOREM ToolTurnsArePaired == CallSpec => []ToolTurnsPaired
<1>1. TurnInv => ToolTurnsPaired
  BY DEF TurnInv
<1> QED BY <1>1, TurnsInitial, TurnStep, PTL DEF CallSpec

-----------------------------------------------------------------------------
(* The answer.                                                               *)

\* One more piece changes the depth by that piece.
LEMMA DepthAdds ==
  ASSUME NEW s, NEW i \in Nat, NEW j \in Nat, i <= j
  PROVE  /\ Depth(s, i, j) \in Int /\ Depth(s, i, i - 1) = 0
         /\ Depth(s, i, j) = Depth(s, i, j - 1)
                             + (IF s[j] = OpenBrace THEN 1 ELSE IF s[j] = CloseBrace THEN -1 ELSE 0)
<1> DEFINE All(b, n) == {k \in i..n : s[k] = b}
<1>1. \A n \in Int : IsFiniteSet(i..n)
  BY FS_Interval
<1>2. ASSUME NEW b, NEW n \in Int
      PROVE  IsFiniteSet(All(b, n)) /\ Cardinality(All(b, n)) \in Nat
  <2>1. All(b, n) \subseteq i..n
    OBVIOUS
  <2> HIDE DEF All
  <2> QED BY <1>1, <2>1, FS_Subset, FS_CardinalityType
<1>3. ASSUME NEW b PROVE Cardinality(All(b, j)) = Cardinality(All(b, j - 1)) + (IF s[j] = b THEN 1 ELSE 0)
  <2>1. i..j = (i..(j - 1)) \cup {j} /\ j \notin i..(j - 1)
    OBVIOUS
  <2>2. CASE s[j] = b
    <3>1. All(b, j) = All(b, j - 1) \cup {j} /\ j \notin All(b, j - 1)
      BY <2>1, <2>2
    <3>2. IsFiniteSet(All(b, j - 1)) /\ Cardinality(All(b, j - 1)) \in Nat
      <4>1. j - 1 \in Int
        OBVIOUS
      <4> QED BY <1>2, <4>1
    <3> HIDE DEF All
    <3>3. Cardinality(All(b, j - 1) \cup {j}) = Cardinality(All(b, j - 1)) + 1
      BY <3>1, <3>2, FS_AddElement
    <3> QED BY <2>2, <3>1, <3>3
  <2>3. CASE s[j] # b
    <3>1. All(b, j) = All(b, j - 1)
      BY <2>1, <2>3
    <3> HIDE DEF All
    <3> QED BY <1>2, <2>3, <3>1
  <2> QED BY <2>2, <2>3
<1>4. \A b : All(b, i - 1) = {}
  OBVIOUS
<1>5. \A n : Depth(s, i, n) = Cardinality(All(OpenBrace, n)) - Cardinality(All(CloseBrace, n))
  BY DEF Depth
<1> HIDE DEF All
<1>6. Depth(s, i, i - 1) = 0
  BY <1>4, <1>5, FS_EmptySet
<1>7. Depth(s, i, j) \in Int
  BY <1>2, <1>5
<1>8. CASE s[j] = OpenBrace
  <2>1. OpenBrace # CloseBrace
    BY Zenon DEF OpenBrace, CloseBrace
  <2>2. /\ Cardinality(All(OpenBrace, j)) = Cardinality(All(OpenBrace, j - 1)) + 1
        /\ Cardinality(All(CloseBrace, j)) = Cardinality(All(CloseBrace, j - 1)) + 0
    BY <1>3, <1>8, <2>1
  <2> QED BY <1>2, <1>5, <1>6, <1>7, <1>8, <2>2
<1>9. CASE s[j] # OpenBrace
  <2>1. /\ Cardinality(All(OpenBrace, j)) = Cardinality(All(OpenBrace, j - 1)) + 0
        /\ Cardinality(All(CloseBrace, j)) = Cardinality(All(CloseBrace, j - 1)) + (IF s[j] = CloseBrace THEN 1 ELSE 0)
    BY <1>3, <1>9
  <2> QED BY <1>2, <1>5, <1>6, <1>7, <1>9, <2>1
<1> QED BY <1>8, <1>9

\* The counter of findMatchingClose, as its recursion defines it.
Counts(s, i, depth) ==
  depth = [j \in (i - 1)..Len(s) |->
             IF j < i THEN 0
             ELSE depth[j - 1] + (IF s[j] = OpenBrace THEN 1 ELSE IF s[j] = CloseBrace THEN -1 ELSE 0)]
CountedCloses(s, i, depth) ==
  {j \in i..Len(s) : depth[j] = 0 /\ "u" \notin ToSet(SubSeq(s, i, j))}

LEMMA CountsAreDepths ==
  ASSUME NEW S, NEW s \in Seq(S), NEW i \in 1..Len(s), NEW depth, Counts(s, i, depth)
  PROVE  \A j \in i..Len(s) : depth[j] = Depth(s, i, j)
<1>1. PICK n \in Nat : n = Len(s)
  OBVIOUS
<1> DEFINE T == {m \in Nat : i - 1 + m <= n => depth[i - 1 + m] = Depth(s, i, i - 1 + m)}
<1>2. 0 \in T
  <2>1. i - 1 \in (i - 1)..Len(s) /\ i - 1 < i
    BY <1>1
  <2>2. depth[i - 1] = 0
    BY <2>1, Zenon DEF Counts
  <2>3. Depth(s, i, i - 1) = 0
    BY DepthAdds
  <2>4. i - 1 + 0 = i - 1
    OBVIOUS
  <2> QED BY <2>2, <2>3, <2>4
<1>3. ASSUME NEW m \in T PROVE m + 1 \in T
  <2> SUFFICES ASSUME i - 1 + (m + 1) <= n
               PROVE  depth[i - 1 + (m + 1)] = Depth(s, i, i - 1 + (m + 1))
    OBVIOUS
  <2>1. PICK j \in Nat : j = i - 1 + (m + 1)
    OBVIOUS
  <2>2. j \in (i - 1)..Len(s) /\ ~(j < i) /\ i <= j /\ j - 1 = i - 1 + m /\ i - 1 + m <= n
    BY <1>1, <2>1
  <2>3. depth[j] = depth[j - 1] + (IF s[j] = OpenBrace THEN 1 ELSE IF s[j] = CloseBrace THEN -1 ELSE 0)
    BY <2>2, Zenon DEF Counts
  <2>4. depth[j - 1] = Depth(s, i, j - 1)
    BY <2>2
  <2>5. Depth(s, i, j) = Depth(s, i, j - 1) + (IF s[j] = OpenBrace THEN 1 ELSE IF s[j] = CloseBrace THEN -1 ELSE 0)
    BY <2>1, <2>2, DepthAdds
  <2> QED BY <2>1, <2>3, <2>4, <2>5
<1>4. T = Nat
  <2> HIDE DEF T
  <2>1. T \subseteq Nat
    BY DEF T
  <2> QED BY <1>2, <1>3, <2>1, NaturalInduction
<1>5. ASSUME NEW j \in i..Len(s) PROVE depth[j] = Depth(s, i, j)
  <2>1. PICK m \in Nat : m = j - (i - 1)
    BY <1>1
  <2>2. i - 1 + m = j /\ i - 1 + m <= n
    BY <1>1, <2>1
  <2>3. m \in T
    BY <1>4
  <2> QED BY <2>2, <2>3
<1> QED BY <1>5

\* A brace has one place where it is closed.
LEMMA ClosesOnce ==
  ASSUME NEW s, NEW i \in Nat, NEW j \in Nat, NEW k \in Nat, ObjectAt(s, i, j), ObjectAt(s, i, k)
  PROVE  j = k
<1>1. ~(j < k) /\ ~(k < j)
  BY DEF ObjectAt
<1> QED BY <1>1

\* findMatchingClose finds it.
LEMMA MatchingClose ==
  ASSUME NEW S, NEW s \in Seq(S), NEW i \in 1..Len(s), s[i] = OpenBrace
  PROVE  \/ findMatchingClose(s, i) \in i..Len(s) /\ ObjectAt(s, i, findMatchingClose(s, i))
         \/ findMatchingClose(s, i) = 0 /\ \A j \in DOMAIN s : ~ObjectAt(s, i, j)
<1>1. PICK n \in Nat : n = Len(s)
  OBVIOUS
<1> DEFINE depths == [j \in (i - 1)..Len(s) |-> Depth(s, i, j)]
           chosen == CHOOSE depth : Counts(s, i, depth)
           closes == CountedCloses(s, i, chosen)
<1>2. Counts(s, i, depths)
  <2>1. ASSUME NEW j \in (i - 1)..Len(s)
        PROVE  Depth(s, i, j) =
                 IF j < i THEN 0
                 ELSE depths[j - 1] + (IF s[j] = OpenBrace THEN 1 ELSE IF s[j] = CloseBrace THEN -1 ELSE 0)
    <3>1. CASE j < i
      <4>1. j = i - 1 /\ i \in Nat /\ i <= i
        BY <1>1, <3>1
      <4> QED BY <3>1, <4>1, DepthAdds
    <3>2. CASE ~(j < i)
      <4>1. j \in Nat /\ i \in Nat /\ i <= j /\ j - 1 \in (i - 1)..Len(s)
        BY <1>1, <3>2
      <4>2. depths[j - 1] = Depth(s, i, j - 1)
        BY <4>1
      <4>3. Depth(s, i, j) = Depth(s, i, j - 1) + (IF s[j] = OpenBrace THEN 1 ELSE IF s[j] = CloseBrace THEN -1 ELSE 0)
        BY <4>1, DepthAdds
      <4> QED BY <3>2, <4>2, <4>3
    <3> QED BY <3>1, <3>2
  <2> QED BY <2>1 DEF Counts
<1>3. Counts(s, i, chosen)
  BY <1>2
<1>4. findMatchingClose(s, i) = IF closes = {} THEN 0 ELSE CHOOSE j \in closes : \A k \in closes : j <= k
  BY Zenon DEF findMatchingClose, Counts, CountedCloses
<1> HIDE DEF chosen
<1>5. \A j \in i..Len(s) : chosen[j] = Depth(s, i, j)
  BY <1>3, CountsAreDepths
<1>6. ASSUME NEW j \in i..Len(s)
      PROVE  "u" \in ToSet(SubSeq(s, i, j)) <=> \E k \in i..j : s[k] = "u"
  <2>1. PICK t : t = SubSeq(s, i, j)
    OBVIOUS
  <2>0. /\ Len(t) = j - i + 1 /\ DOMAIN t = 1..(j - i + 1)
        /\ \A m \in 1..(j - i + 1) : t[m] = s[i + m - 1]
    BY <1>1, <2>1
  <2>2. \A k \in i..j : k - i + 1 \in 1..(j - i + 1) /\ i + (k - i + 1) - 1 = k
    BY <1>1
  <2>3. \A m \in 1..(j - i + 1) : i + m - 1 \in i..j
    BY <1>1
  <2>4. "u" \in ToSet(t) <=> \E m \in 1..(j - i + 1) : t[m] = "u"
    BY <2>0, Zenon DEF ToSet
  <2>5. (\E m \in 1..(j - i + 1) : t[m] = "u") <=> \E k \in i..j : s[k] = "u"
    <3>1. ASSUME NEW m \in 1..(j - i + 1), t[m] = "u" PROVE \E k \in i..j : s[k] = "u"
      BY <2>0, <2>3, <3>1
    <3>2. ASSUME NEW k \in i..j, s[k] = "u" PROVE \E m \in 1..(j - i + 1) : t[m] = "u"
      <4>1. t[k - i + 1] = s[i + (k - i + 1) - 1]
        BY <2>0, <2>2
      <4> QED BY <2>2, <3>2, <4>1
    <3> QED BY <3>1, <3>2
  <2> QED BY <2>1, <2>4, <2>5, Zenon
<1>7. closes \subseteq Nat /\ \A j \in closes : j \in i..Len(s)
  <2>1. closes \subseteq i..Len(s)
    BY DEF CountedCloses
  <2>2. i..Len(s) \subseteq Nat
    BY <1>1
  <2> HIDE DEF closes
  <2> QED BY <2>1, <2>2
<1>8. \A j \in i..Len(s) : j \in closes <=> Depth(s, i, j) = 0 /\ \A k \in i..j : s[k] # "u"
  BY <1>5, <1>6 DEF CountedCloses
<1> HIDE DEF closes
<1>9. CASE closes = {}
  <2>1. ASSUME NEW j \in DOMAIN s, ObjectAt(s, i, j) PROVE FALSE
    <3>1. j \in i..Len(s)
      BY <2>1 DEF ObjectAt
    <3> QED BY <1>8, <1>9, <2>1, <3>1 DEF ObjectAt
  <2> QED BY <1>4, <1>9, <2>1
<1>10. CASE closes # {}
  <2>1. \E j \in closes : \A k \in closes : j <= k
    BY <1>7, <1>10, LeastNatural
  <2>2. PICK j : j = findMatchingClose(s, i)
    OBVIOUS
  <2>3. j \in closes /\ \A k \in closes : j <= k
    BY <1>4, <1>10, <2>1, <2>2
  <2>4. j \in i..Len(s) /\ Depth(s, i, j) = 0 /\ \A k \in i..j : s[k] # "u"
    BY <1>7, <1>8, <2>3
  <2>5. ASSUME NEW k \in i..(j - 1), Depth(s, i, k) = 0 PROVE FALSE
    <3>1. k \in i..Len(s) /\ \A m \in i..k : m \in i..j
      BY <1>1, <2>4
    <3>2. k \in closes
      BY <1>8, <2>4, <2>5, <3>1
    <3> QED BY <1>1, <2>3, <2>4, <3>2
  <2>6. ObjectAt(s, i, j)
    BY <2>4, <2>5 DEF ObjectAt
  <2> QED BY <2>2, <2>4, <2>6
<1> QED BY <1>9, <1>10

\* What lastJSONObject finds from place i on, when it has looked at later places.
LastAt(s, last, i) ==
  IF i > Len(s) THEN <<>>
  ELSE LET close == IF s[i] = OpenBrace THEN findMatchingClose(s, i) ELSE 0
           rest == last[IF close = 0 THEN i + 1 ELSE AfterObject(i, close)]
       IN IF close # 0 /\ rest = <<>> THEN SubSeq(s, i, close) ELSE rest
Looking(s, last, p) == last = [i \in p..(Len(s) + 1) |-> LastAt(s, last, i)]

\* It looks only ahead.
LEMMA LooksAhead ==
  ASSUME NEW S, NEW s \in Seq(S), NEW i \in 1..Len(s), NEW f, NEW g,
         \A k \in (i + 1)..(Len(s) + 1) : f[k] = g[k]
  PROVE  LastAt(s, f, i) = LastAt(s, g, i)
<1>1. PICK close : close = IF s[i] = OpenBrace THEN findMatchingClose(s, i) ELSE 0
  OBVIOUS
<1>2. close = 0 \/ close \in i..Len(s)
  BY <1>1, MatchingClose
<1>3. (IF close = 0 THEN i + 1 ELSE AfterObject(i, close)) \in (i + 1)..(Len(s) + 1)
  BY <1>2 DEF AfterObject
<1> QED BY <1>1, <1>3 DEF LastAt

LEMMA LookingExtends ==
  ASSUME NEW S, NEW s \in Seq(S), NEW i \in 1..Len(s), NEW g, Looking(s, g, i + 1)
  PROVE  \E f : Looking(s, f, i)
<1>1. PICK n \in Nat : n = Len(s)
  OBVIOUS
<1> DEFINE f == [k \in i..(Len(s) + 1) |-> IF k = i THEN LastAt(s, g, i) ELSE g[k]]
<1>2. \A k \in (i + 1)..(Len(s) + 1) : f[k] = g[k] /\ k \in i..(Len(s) + 1)
  BY <1>1
<1>3. ASSUME NEW k \in i..(Len(s) + 1) PROVE f[k] = LastAt(s, f, k)
  <2>1. CASE k = i
    <3>1. f[k] = LastAt(s, g, i)
      BY <2>1
    <3> HIDE DEF f
    <3> QED BY <1>2, <2>1, <3>1, LooksAhead
  <2>2. CASE k # i
    <3>1. k \in (i + 1)..(Len(s) + 1)
      BY <1>1, <2>2
    <3>2. f[k] = g[k] /\ g[k] = LastAt(s, g, k)
      BY <1>2, <3>1, Zenon DEF Looking
    <3> HIDE DEF f
    <3>3. CASE k > Len(s)
      <4>1. LastAt(s, f, k) = <<>> /\ LastAt(s, g, k) = <<>>
        BY <3>3, Zenon DEF LastAt
      <4> QED BY <3>2, <4>1
    <3>4. CASE ~(k > Len(s))
      <4>1. k \in 1..Len(s)
        BY <1>1, <3>1, <3>4
      <4>2. \A m \in (k + 1)..(Len(s) + 1) : m \in (i + 1)..(Len(s) + 1)
        BY <1>1, <3>1
      <4>3. LastAt(s, f, k) = LastAt(s, g, k)
        BY <1>2, <4>1, <4>2, LooksAhead
      <4> QED BY <3>2, <4>3
    <3> QED BY <3>3, <3>4
  <2> QED BY <2>1, <2>2
<1>4. f = [k \in i..(Len(s) + 1) |-> LastAt(s, f, k)]
  <2>1. f = [k \in i..(Len(s) + 1) |-> f[k]]
    OBVIOUS
  <2> HIDE DEF f
  <2> QED BY <1>3, <2>1
<1> HIDE DEF f
<1> QED BY <1>4 DEF Looking

LEMMA LookingExists ==
  ASSUME NEW S, NEW s \in Seq(S)
  PROVE  \E last : Looking(s, last, 1) /\ lastJSONObject(s) = last[1]
<1>1. PICK n \in Nat : n = Len(s)
  OBVIOUS
<1> DEFINE T == {m \in Nat : m <= n => \E last : Looking(s, last, n + 1 - m)}
<1>2. 0 \in T
  <2> DEFINE f == [k \in (n + 1)..(n + 1) |-> <<>>]
  <2>1. ASSUME NEW g, NEW k \in (n + 1)..(n + 1) PROVE LastAt(s, g, k) = <<>>
    <3>1. k > Len(s)
      BY <1>1
    <3> QED BY <3>1 DEF LastAt
  <2>2. f = [k \in (n + 1)..(n + 1) |-> LastAt(s, f, k)]
    BY <2>1
  <2> HIDE DEF f
  <2>3. Looking(s, f, n + 1)
    BY <1>1, <2>2 DEF Looking
  <2>4. n + 1 - 0 = n + 1
    BY <1>1
  <2> QED BY <2>3, <2>4
<1>3. ASSUME NEW m \in T PROVE m + 1 \in T
  <2> SUFFICES ASSUME m + 1 <= n PROVE \E last : Looking(s, last, n + 1 - (m + 1))
    OBVIOUS
  <2>1. PICK i \in Nat : i = n + 1 - (m + 1)
    BY <1>1
  <2>2. i \in 1..Len(s) /\ n + 1 - m = i + 1 /\ m <= n
    BY <1>1, <2>1
  <2>3. PICK g : Looking(s, g, i + 1)
    BY <2>2
  <2> QED BY <2>1, <2>2, <2>3, LookingExtends
<1> HIDE DEF T
<1>4. T = Nat
  <2>1. T \subseteq Nat
    BY DEF T
  <2> QED BY <1>2, <1>3, <2>1, NaturalInduction
<1>5. \E last : Looking(s, last, 1)
  <2>1. n \in T /\ n + 1 - n = 1 /\ n <= n
    BY <1>1, <1>4
  <2> QED BY <2>1 DEF T
<1> DEFINE chosen == CHOOSE last : Looking(s, last, 1)
<1>6. lastJSONObject(s) = chosen[1]
  BY Zenon DEF lastJSONObject, Looking, LastAt
<1>7. Looking(s, chosen, 1)
  BY <1>5
<1> QED BY <1>6, <1>7

\* The last of the outermost objects is the one that is found.
LEMMA LastObject ==
  ASSUME NEW S, NEW s \in Seq(S), NEW w, Carries(s, w)
  PROVE  lastJSONObject(s) = w
<1>1. PICK n \in Nat : n = Len(s)
  OBVIOUS
<1>2. PICK last : Looking(s, last, 1) /\ lastJSONObject(s) = last[1]
  BY LookingExists
<1>3. \A k \in 1..(n + 1) : last[k] = LastAt(s, last, k)
  BY <1>1, <1>2, Zenon DEF Looking
<1>4. PICK i \in DOMAIN s, j \in DOMAIN s :
        /\ ObjectAt(s, i, j) /\ SubSeq(s, i, j) = w
        /\ \A k, l \in DOMAIN s : ObjectAt(s, k, l) => l < i \/ k \in i..j
  BY DEF Carries
<1>5. i \in 1..n /\ j \in i..n /\ DOMAIN s = 1..n
  BY <1>1, <1>4 DEF ObjectAt
<1>6. w # <<>>
  <2>1. Len(SubSeq(s, i, j)) = j - i + 1 /\ j - i + 1 # 0
    BY <1>1, <1>5
  <2> QED BY <1>4, <2>1
<1> DEFINE close(k) == IF s[k] = OpenBrace THEN findMatchingClose(s, k) ELSE 0
<1>7. ASSUME NEW k \in 1..n
      PROVE  \/ close(k) = 0 /\ last[k] = last[k + 1] /\ \A l \in 1..n : ~ObjectAt(s, k, l)
             \/ /\ close(k) \in k..n /\ ObjectAt(s, k, close(k))
                /\ last[k] = IF last[close(k) + 1] = <<>> THEN SubSeq(s, k, close(k)) ELSE last[close(k) + 1]
  <2>1. PICK c : c = close(k)
    OBVIOUS
  <2>2. \/ c \in k..n /\ ObjectAt(s, k, c)
        \/ c = 0 /\ \A l \in 1..n : ~ObjectAt(s, k, l)
    <3>1. CASE s[k] = OpenBrace
      BY <1>1, <1>5, <2>1, <3>1, MatchingClose
    <3>2. CASE s[k] # OpenBrace
      BY <2>1, <3>2 DEF ObjectAt
    <3> QED BY <3>1, <3>2
  <2>3. ~(k > Len(s)) /\ k \in 1..(n + 1)
    BY <1>1
  <2>4. last[k] = LET rest == last[IF c = 0 THEN k + 1 ELSE AfterObject(k, c)]
                  IN IF c # 0 /\ rest = <<>> THEN SubSeq(s, k, c) ELSE rest
    BY <1>3, <2>1, <2>3 DEF LastAt
  <2>5. c \in k..n => c # 0
    OBVIOUS
  <2> HIDE DEF close
  <2> QED BY <2>1, <2>2, <2>4, <2>5 DEF AfterObject
<1>8. \A k \in (j + 1)..n : close(k) = 0
  <2> SUFFICES ASSUME NEW k \in (j + 1)..n, close(k) # 0 PROVE FALSE
    OBVIOUS
  <2> HIDE DEF close
  <2>1. k \in 1..n
    BY <1>5
  <2>2. close(k) \in k..n /\ ObjectAt(s, k, close(k))
    BY <1>7, <2>1
  <2>3. close(k) < i \/ k \in i..j
    BY <1>4, <1>5, <2>1, <2>2
  <2> QED BY <1>5, <2>2, <2>3
<1> HIDE DEF close
<1> DEFINE After == {m \in Nat : m <= n - j => last[n + 1 - m] = <<>>}
<1>9. After = Nat
  <2>1. 0 \in After
    <3>1. n + 1 > Len(s) /\ n + 1 \in 1..(n + 1) /\ n + 1 - 0 = n + 1
      BY <1>1
    <3>2. last[n + 1] = <<>>
      BY <1>3, <3>1 DEF LastAt
    <3> QED BY <3>1, <3>2
  <2>2. ASSUME NEW m \in After PROVE m + 1 \in After
    <3> SUFFICES ASSUME m + 1 <= n - j PROVE last[n + 1 - (m + 1)] = <<>>
      OBVIOUS
    <3>1. PICK k \in Nat : k = n + 1 - (m + 1)
      BY <1>5
    <3>2. k \in (j + 1)..n /\ k \in 1..n /\ n + 1 - m = k + 1 /\ m <= n - j
      BY <1>1, <1>5, <3>1
    <3>3. close(k) = 0 /\ ~(0 \in k..n)
      BY <1>8, <3>2
    <3>4. last[k] = last[k + 1]
      BY <1>7, <3>2, <3>3
    <3> QED BY <3>1, <3>2, <3>4
  <2> HIDE DEF After
  <2>3. After \subseteq Nat
    BY DEF After
  <2> QED BY <2>1, <2>2, <2>3, NaturalInduction
<1>10. last[j + 1] = <<>>
  <2>1. PICK m \in Nat : m = n - j
    BY <1>5
  <2>2. m \in After /\ m <= n - j /\ n + 1 - m = j + 1
    BY <1>5, <1>9, <2>1
  <2> QED BY <2>2
<1>11. last[i] = w
  <2>1. close(i) = j
    <3>1. close(i) \in i..n /\ ObjectAt(s, i, close(i))
      BY <1>4, <1>5, <1>7
    <3>2. i \in Nat /\ j \in Nat /\ close(i) \in Nat
      BY <1>5, <3>1
    <3> QED BY <1>4, <3>1, <3>2, ClosesOnce
  <2>2. j # 0
    BY <1>5
  <2> QED BY <1>4, <1>5, <1>7, <1>10, <2>1, <2>2
<1> DEFINE Before == {m \in Nat : m < i => \A k \in (i - m)..i : last[k] = w}
<1>12. Before = Nat
  <2>1. 0 \in Before
    <3>1. \A k \in (i - 0)..i : k = i
      BY <1>5
    <3> QED BY <1>11, <3>1
  <2>2. ASSUME NEW m \in Before PROVE m + 1 \in Before
    <3> SUFFICES ASSUME m + 1 < i, NEW q \in (i - (m + 1))..i PROVE last[q] = w
      OBVIOUS
    <3>1. m < i /\ \A k \in (i - m)..i : last[k] = w
      BY <1>5, <2>2
    <3>2. CASE q \in (i - m)..i
      BY <3>1, <3>2
    <3>3. CASE q \notin (i - m)..i
      <4>1. q + 1 = i - m /\ q \in 1..n /\ q < i /\ q + 1 \in (i - m)..i
        BY <1>5, <3>1, <3>3
      <4>2. CASE close(q) = 0
        <5>1. ~(0 \in q..n)
          BY <4>1
        <5>2. last[q] = last[q + 1]
          BY <1>7, <4>1, <4>2, <5>1
        <5> QED BY <3>1, <4>1, <5>2
      <4>3. CASE close(q) # 0
        <5>1. /\ close(q) \in q..n /\ ObjectAt(s, q, close(q))
              /\ last[q] = IF last[close(q) + 1] = <<>> THEN SubSeq(s, q, close(q)) ELSE last[close(q) + 1]
          BY <1>7, <4>1, <4>3
        <5>2. close(q) \in 1..n
          BY <4>1, <5>1
        <5>3. close(q) < i \/ q \in i..j
          BY <1>4, <1>5, <4>1, <5>1, <5>2
        <5>4. close(q) + 1 \in (i - m)..i
          BY <1>5, <4>1, <5>1, <5>3
        <5> QED BY <1>6, <3>1, <5>1, <5>4
      <4> QED BY <4>2, <4>3
    <3> QED BY <3>2, <3>3
  <2> HIDE DEF Before
  <2>3. Before \subseteq Nat
    BY DEF Before
  <2> QED BY <2>1, <2>2, <2>3, NaturalInduction
<1>13. last[1] = w
  <2>1. PICK m \in Nat : m = i - 1
    BY <1>5
  <2>2. m \in Before /\ m < i /\ 1 \in (i - m)..i
    BY <1>5, <1>12, <2>1
  <2> QED BY <2>2
<1> QED BY <1>2, <1>13

\* What is between two fences is what is left when they are stripped.
LEMMA FencesStripped ==
  ASSUME NEW S, NEW text \in Seq(S), Len(text) > 1, text[1] \in Fence, text[Len(text)] \in Fence
  PROVE  stripMarkdownFences(text) = SubSeq(text, 2, Len(text) - 1)
<1>1. PICK n \in Nat : n = Len(text)
  OBVIOUS
<1>2. PICK s : s = Tail(text)
  OBVIOUS
<1>3. /\ s \in Seq(S) /\ Len(s) = n - 1 /\ DOMAIN s = 1..(n - 1) /\ n - 1 \in 1..(n - 1)
      /\ \A k \in 1..(n - 1) : s[k] = text[k + 1]
  BY <1>1, <1>2
<1> DEFINE fences == {k \in DOMAIN s : s[k] \in HoldsFence}
           i == CHOOSE k \in fences : \A j \in fences : j <= k
<1>4. s[n - 1] = text[n]
  <2>1. n - 1 + 1 = n
    BY <1>1
  <2> QED BY <1>3, <2>1
<1>5. s[n - 1] \in HoldsFence /\ s[n - 1] # "S"
  <2>1. "S" \notin Fence
    BY Zenon DEF Fence
  <2> QED BY <1>1, <1>4, <2>1 DEF HoldsFence
<1>6. n - 1 \in fences /\ \A k \in fences : k \in 1..(n - 1)
  BY <1>3, <1>5
<1> HIDE DEF fences
<1>7. \A k \in fences : k <= n - 1
  BY <1>6
<1>8. i \in fences /\ \A j \in fences : j <= i
  BY <1>6, <1>7, Zenon
<1>9. i = n - 1
  <2> HIDE DEF i
  <2>1. i \in 1..(n - 1) /\ n - 1 <= i
    BY <1>6, <1>8
  <2> QED BY <2>1
<1>10. UpToLastFence(s) = SubSeq(s, 1, i - 1) \o (IF s[i] = "S" THEN <<"u">> ELSE <<>>)
  <2>1. fences # {}
    BY <1>6
  <2> QED BY <2>1, Zenon DEF UpToLastFence, fences
<1> HIDE DEF i
<1>11. UpToLastFence(s) = SubSeq(s, 1, n - 2)
  <2>1. SubSeq(s, 1, n - 2) \in Seq(S) /\ n - 1 - 1 = n - 2
    BY <1>1, <1>3
  <2> QED BY <1>5, <1>9, <1>10, <2>1
<1>12. SubSeq(s, 1, n - 2) = SubSeq(text, 2, n - 1)
  <2>1. /\ SubSeq(s, 1, n - 2) = [k \in 1..(n - 2) |-> s[k]]
        /\ SubSeq(text, 2, n - 1) = [k \in 1..(n - 2) |-> text[k + 1]]
    BY <1>1, <1>3
  <2>2. \A k \in 1..(n - 2) : s[k] = text[k + 1]
    BY <1>1, <1>3
  <2> QED BY <2>1, <2>2
<1>13. stripMarkdownFences(text) = UpToLastFence(s)
  <2>1. text # <<>>
    OBVIOUS
  <2> QED BY <1>2, <2>1 DEF stripMarkdownFences
<1> QED BY <1>1, <1>11, <1>12, <1>13

\* Prose alone is refused.
LEMMA ProseIsPreamble ==
  ASSUME NEW S, NEW text \in Seq(S), ToSet(text) \subseteq {"p"}, text # <<>>
  PROVE  isPreamble(text)
<1>1. \A i \in DOMAIN text : text[i] = "p"
  BY DEF ToSet
<1>2. /\ "p" \notin Open /\ "p" \notin HoldsFence /\ "p" \notin Fence
      /\ "p" # "[" /\ "p" # OpenBrace
  BY Zenon DEF Open, HoldsFence, Fence, OpenBrace
<1>3. 1 \in DOMAIN text
  OBVIOUS
<1>4. AfterFence(text) = <<>>
  <2>1. {i \in DOMAIN text : text[i] \in HoldsFence} = {}
    BY <1>1, <1>2
  <2> QED BY <2>1, Zenon DEF AfterFence
<1>5. Payload(text) = {}
  BY <1>1, <1>2 DEF Payload
<1>6. extractJSON(text) = text
  BY <1>1, <1>2, <1>3, <1>4, <1>5 DEF extractJSON
<1> QED BY <1>1, <1>2, <1>3, <1>6 DEF isPreamble

\* An answer that was not cut and was accepted is taken for what it is.
LEMMA WholeIsParsed ==
  ASSUME NEW a \in Answers, ~a.early, a.text # <<>>, ~isPreamble(a.text)
  PROVE  ParseJSON(a.text) = [err |-> "none", value |-> a.whole]
<1>1. a.text \in Seq(Pieces) /\ WellWritten(a.text, a.whole) /\ Unmarshal(a.whole) = "ok"
  BY AnswersAssumption
<1>2. PICK text : text = stripMarkdownFences(a.text)
  OBVIOUS
<1>3. text \in Seq(Pieces) /\ Carries(text, a.whole)
  <2>1. CASE ToSet(a.text) \subseteq {"p"}
    BY <1>1, <2>1, ProseIsPreamble
  <2>2. CASE a.text[1] \notin Fence /\ Carries(a.text, a.whole)
    <3>1. text = a.text
      BY <1>2, <2>2 DEF stripMarkdownFences
    <3> QED BY <1>1, <2>2, <3>1
  <2>3. CASE /\ Len(a.text) > 1 /\ a.text[1] \in Fence /\ a.text[Len(a.text)] \in Fence
             /\ Carries(SubSeq(a.text, 2, Len(a.text) - 1), a.whole)
    <3>1. text = SubSeq(a.text, 2, Len(a.text) - 1)
      BY <1>1, <1>2, <2>3, FencesStripped
    <3>2. SubSeq(a.text, 2, Len(a.text) - 1) \in Seq(Pieces)
      BY <1>1, <2>3
    <3> QED BY <2>3, <3>1, <3>2
  <2> QED BY <1>1, <2>1, <2>2, <2>3 DEF WellWritten
<1>4. lastJSONObject(text) = a.whole
  BY <1>3, LastObject
<1> QED BY <1>1, <1>2, <1>4, Zenon DEF ParseJSON

\* An answer that was accepted is one that a model wrote and that looked usable.
AnswerInv == runAt = "returned" => answer \in Answers /\ ~Unusable(answer)

LEMMA AnswerStarts == CallInit => AnswerInv /\ AnswerWhole
BY DEF CallInit, AnswerInv, AnswerWhole

LEMMA UnusableIsFixed == ASSUME UNCHANGED setup, NEW a PROVE (~Unusable(a))' <=> ~Unusable(a)
BY DEF Unusable, Truncated

LEMMA AnswerStep == AnswerInv /\ AnswerWhole /\ [CallNext]_callVars => AnswerInv' /\ AnswerWhole'
<1> SUFFICES ASSUME AnswerInv, AnswerWhole, [CallNext]_callVars PROVE AnswerInv' /\ AnswerWhole'
  OBVIOUS
<1>1. CASE StructuredCall \/ SlimRetry
  <2>1. /\ setup' = setup /\ answer' \in Answers /\ runAt' # "parsed"
        /\ runAt' = "returned" => ~Unusable(answer')
    BY <1>1 DEF StructuredCall, SlimRetry
  <2>2. PICK a : a = answer'
    OBVIOUS
  <2>3. AnswerInv'
    <3>1. ASSUME runAt' = "returned" PROVE (~Unusable(answer))'
      <4>1. ~Unusable(answer')
        BY <2>1, <3>1
      <4> QED BY <2>1, <4>1 DEF Unusable, Truncated
    <3> QED BY <2>1, <3>1 DEF AnswerInv
  <2> QED BY <2>1, <2>3 DEF AnswerWhole
<1>2. CASE PersonaParses
  <2>1. /\ setup' = setup /\ answer' = answer /\ runAt' \in {"parsed", "failed"}
        /\ decoded' = ParseJSON(answer.text).value /\ answer \in Answers /\ ~Unusable(answer)
    BY <1>2 DEF PersonaParses, AnswerInv
  <2>2. ASSUME setup.provider # "copilot" PROVE decoded' = answer.whole
    <3>1. ~answer.early /\ answer.text # <<>> /\ ~isPreamble(answer.text)
      BY <2>1, <2>2 DEF Unusable, Truncated
    <3>2. ParseJSON(answer.text) = [err |-> "none", value |-> answer.whole]
      BY <2>1, <3>1, WholeIsParsed
    <3> QED BY <2>1, <3>2
  <2> QED BY <2>1, <2>2 DEF AnswerInv, AnswerWhole
<1>3. CASE UNCHANGED <<setup, answer, decoded>> /\ (runAt' = runAt \/ runAt' \notin {"returned", "parsed"})
  <2>1. (~Unusable(answer))' <=> ~Unusable(answer)
    BY <1>3 DEF Unusable, Truncated
  <2> QED BY <1>3, <2>1 DEF AnswerInv, AnswerWhole
<1>4. CASE RunStarts \/ ToolRound \/ ToolLoopEnds \/ ToolRoundFails \/ DispatchTool \/ RoundEnds \/ StructuredCallFails
  <2>1. UNCHANGED <<setup, answer, decoded>> /\ (runAt' = runAt \/ runAt' \notin {"returned", "parsed"})
    BY <1>4 DEF RunStarts, ToolRound, ToolLoopEnds, ToolRoundFails, DispatchTool, RoundEnds, StructuredCallFails
  <2> QED BY <1>3, <2>1
<1>5. CASE UNCHANGED callVars
  BY <1>3, <1>5 DEF callVars
<1> QED BY <1>1, <1>2, <1>4, <1>5 DEF CallNext

\* Whatever a model is, whatever it calls and however often its calls fail: what
\* a persona makes of an answer that a provider reports as whole is the artifact
\* the model was writing, provided that it wrote it as AnswersAssumption says.
THEOREM AnswersAreWhole == CallSpec => []AnswerWhole
BY AnswerStarts, AnswerStep, PTL DEF CallSpec

\* And an answer that was not cut is never refused by its persona, also on Copilot,
\* which does not report cuts: ParseJSON fails only on an answer that was cut.
THEOREM WholeAnswersAreAccepted ==
  CallSpec => [][PersonaParses /\ ~answer.early => runAt' = "parsed" /\ decoded' = answer.whole]_callVars
<1>1. AnswerInv /\ [CallNext]_callVars
        => [PersonaParses /\ ~answer.early => runAt' = "parsed" /\ decoded' = answer.whole]_callVars
  <2> SUFFICES ASSUME AnswerInv, PersonaParses, ~answer.early
               PROVE  runAt' = "parsed" /\ decoded' = answer.whole
    OBVIOUS
  <2>1. answer \in Answers /\ answer.text # <<>> /\ ~isPreamble(answer.text)
    BY DEF PersonaParses, AnswerInv, Unusable
  <2>2. ParseJSON(answer.text) = [err |-> "none", value |-> answer.whole]
    BY <2>1, WholeIsParsed
  <2> QED BY <2>2 DEF PersonaParses
<1> QED BY <1>1, AnswerStarts, AnswerStep, PTL DEF CallSpec

-----------------------------------------------------------------------------
(* Routing.                                                                  *)
LEMMA OrderShape ==
  DOMAIN ModelOrder \subseteq Nat /\ \A i \in DOMAIN ModelOrder : ModelOrder[i] # NoModel
<1>1. ModelOrder \in Seq(STRING \ {NoModel})
  BY RoutingAssumption
<1> DEFINE Ids == STRING \ {NoModel}
<1>2. NoModel \notin Ids
  OBVIOUS
<1> HIDE DEF Ids
<1>3. ModelOrder \in Seq(Ids)
  BY <1>1 DEF Ids
<1>4. Len(ModelOrder) \in Nat /\ DOMAIN ModelOrder = 1..Len(ModelOrder)
  BY <1>3
<1>5. \A i \in DOMAIN ModelOrder : ModelOrder[i] \in Ids
  BY <1>3, <1>4
<1> QED BY <1>2, <1>4, <1>5

\* The first of some models is one of them.
LEMMA FirstIsOne ==
  ASSUME NEW ms, ms \subseteq RoutedModels, ms # {}
  PROVE  First(ms) \in ms
<1>1. Places(ms) \subseteq Nat /\ Places(ms) # {}
  <2>1. DOMAIN ModelOrder \subseteq Nat
    BY OrderShape
  <2>2. PICK m \in ms : m \in {ModelOrder[i] : i \in DOMAIN ModelOrder}
    BY DEF RoutedModels, Range
  <2>3. PICK i \in DOMAIN ModelOrder : ModelOrder[i] = m
    BY <2>2
  <2> QED BY <2>1, <2>3 DEF Places
<1>2. \E i \in Places(ms) : \A j \in Places(ms) : i <= j
  BY <1>1, LeastNatural
<1>3. ModelOrder[CHOOSE i \in Places(ms) : \A j \in Places(ms) : i <= j] \in ms
  BY <1>2 DEF Places
<1> QED BY <1>3 DEF First

\* A catalog that was made under the configuration in force offers nothing that
\* is excluded, its default is among its models, and it is empty only when there
\* is nothing to fall back on.
CatalogFits(p) ==
  LET c == catalogs[p]
  IN /\ \A m \in c.models : ~Excluded(p, m)
     /\ c.default # NoModel => c.default \in c.models
     /\ c.default = NoModel => c.models = {} /\ DefaultModel(p) = NoModel

\* What the Director settled for a persona may be used, and has what the persona
\* needs; it settled nothing only when there was nothing.
PersonaFits(p, k) ==
  LET m == route.personas[k]
  IN IF m = NoModel THEN catalogs[p].models = {}
     ELSE /\ m \in catalogs[p].models
          /\ k \in {"pod", "qa"} /\ StableToolModels(p) # {} => m \in StableToolModels(p)
          /\ k = "project_manager" /\ Facts[m].small =>
               \A x \in catalogs[p].models : Facts[x].small

RoutingType ==
  /\ setting \in Settings
  /\ setting \in since
  /\ Discovered => catalogs \in [RoutedProviders -> Catalog]
  /\ route.provider \in RoutedProviders \cup {""}
  /\ route.model \in RoutedModels \cup {NoModel}
  /\ route.personas \in [Downstream -> RoutedModels \cup {NoModel}]
  /\ route.directed => Discovered /\ route.provider \in RoutedProviders
  /\ call.persona # "" => Discovered

RoutingInv ==
  /\ RoutingType
  /\ Discovered /\ since = {setting} => \A p \in RoutedProviders : CatalogFits(p)
  /\ route.directed /\ since = {setting} => \A k \in Downstream : PersonaFits(route.provider, k)
  /\ RoutedModelFits

SettingShape(s) == 
  /\ s.defaults \in [RoutedProviders -> RoutedModels \cup {NoModel}]
  /\ s.excluded \in [RoutedProviders -> SUBSET RoutedModels]
  /\ s.provider \in RoutedProviders

LEMMA SettingFields == ASSUME RoutingType PROVE SettingShape(setting)
BY RoutingAssumption DEF RoutingType, Setting, SettingShape, NoModel

LEMMA NoModelUnknown == NoModel \notin RoutedModels /\ "" \notin RoutedProviders
<1>1. \A i \in DOMAIN ModelOrder : ModelOrder[i] # NoModel
  BY OrderShape
<1>2. "" \notin RoutedProviders
  BY RoutingAssumption
<1> QED BY <1>1, <1>2 DEF RoutedModels, Range

LEMMA RoutingStarts == RoutingInit => RoutingInv
<1> SUFFICES ASSUME RoutingInit PROVE RoutingInv
  OBVIOUS
<1>1. PICK r \in Requests :
        route = [provider |-> r.provider, model |-> r.model, directed |-> FALSE,
                 personas |-> [k \in Downstream |-> NoModel]]
  BY DEF RoutingInit
<1>2. r.provider \in RoutedProviders \cup {""} /\ r.model \in RoutedModels \cup {NoModel}
  BY RoutingAssumption DEF NoModel
<1>3. /\ route.provider = r.provider /\ route.model = r.model /\ ~route.directed
      /\ route.personas = [k \in Downstream |-> NoModel]
  BY <1>1
<1>4. call.persona = "" /\ ~Discovered /\ setting \in Settings /\ setting \in since
  BY DEF RoutingInit, Discovered
<1>5. route.personas \in [Downstream -> RoutedModels \cup {NoModel}]
  BY <1>3
<1> QED BY <1>2, <1>3, <1>4, <1>5 DEF RoutingInv, RoutingType, RoutedModelFits

\* Discovery, with or without an answer of a provider, makes a catalog that fits.
LEMMA FallbackFits ==
  ASSUME RoutingType, NEW p \in RoutedProviders
  PROVE  /\ FallbackCatalog(p) \in Catalog
         /\ \A m \in FallbackCatalog(p).models : ~Excluded(p, m)
         /\ FallbackCatalog(p).default # NoModel => FallbackCatalog(p).default \in FallbackCatalog(p).models
         /\ FallbackCatalog(p).default = NoModel => FallbackCatalog(p).models = {} /\ DefaultModel(p) = NoModel
BY SettingFields, NoModelUnknown DEF SettingShape, FallbackCatalog, DefaultModel, Catalog, Excluded

LEMMA ListedFits ==
  ASSUME RoutingType, NEW p \in RoutedProviders, NEW listed \in Listings
  PROVE  /\ ListedCatalog(p, listed) \in Catalog
         /\ \A m \in ListedCatalog(p, listed).models : ~Excluded(p, m)
         /\ ListedCatalog(p, listed).default # NoModel =>
              ListedCatalog(p, listed).default \in ListedCatalog(p, listed).models
         /\ ListedCatalog(p, listed).default = NoModel =>
              ListedCatalog(p, listed).models = {} /\ DefaultModel(p) = NoModel
<1> DEFINE allowed == {m \in listed : ~Excluded(p, m)}
<1>1. CASE allowed = {}
  BY <1>1, FallbackFits DEF ListedCatalog
<1>2. CASE allowed # {}
  <2>1. allowed \subseteq RoutedModels
    BY RoutingAssumption
  <2>2. First(allowed) \in allowed
    BY <1>2, <2>1, FirstIsOne
  <2>3. ListedCatalog(p, listed) =
          [models |-> allowed,
           default |-> IF setting.defaults[p] \in allowed THEN setting.defaults[p] ELSE First(allowed)]
    BY <1>2 DEF ListedCatalog
  <2>4. ListedCatalog(p, listed).models = allowed /\ ListedCatalog(p, listed).default \in allowed
    BY <2>2, <2>3
  <2>5. ListedCatalog(p, listed) \in Catalog
    <3> HIDE DEF allowed
    <3> QED BY <2>1, <2>2, <2>3 DEF Catalog
  <2>6. \A m \in allowed : ~Excluded(p, m)
    OBVIOUS
  <2> HIDE DEF allowed
  <2> QED BY <2>1, <2>4, <2>5, <2>6, NoModelUnknown
<1> QED BY <1>1, <1>2

LEMMA DiscoverStep == ASSUME RoutingInv, Discover PROVE RoutingInv'
<1>1. PICK listing \in [RoutedProviders -> Listings \cup {Unlisted}] :
        catalogs' = [p \in RoutedProviders |->
                       IF listing[p] = Unlisted THEN FallbackCatalog(p)
                       ELSE ListedCatalog(p, listing[p])]
  BY DEF Discover
<1>2. /\ ~Discovered /\ since' = {setting} /\ setting' = setting /\ route' = route
      /\ call' = call /\ ~route.directed /\ call.persona = ""
  BY DEF Discover, RoutingInv, RoutingType
<1>3. \A p \in RoutedProviders : catalogs'[p] \in Catalog /\ CatalogFits(p)'
  <2> TAKE p \in RoutedProviders
  <2>1. CASE listing[p] = Unlisted
    <3>1. catalogs'[p] = FallbackCatalog(p)
      BY <1>1, <2>1
    <3> QED BY <1>2, <3>1, FallbackFits DEF RoutingInv, CatalogFits, Excluded, DefaultModel
  <2>2. CASE listing[p] # Unlisted
    <3>1. listing[p] \in Listings /\ catalogs'[p] = ListedCatalog(p, listing[p])
      BY <1>1, <2>2
    <3> QED BY <1>2, <3>1, ListedFits DEF RoutingInv, CatalogFits, Excluded, DefaultModel
  <2> QED BY <2>1, <2>2
<1>4. catalogs' \in [RoutedProviders -> Catalog]
  BY <1>1, <1>3
<1>5. RoutingType'
  BY <1>2, <1>4 DEF RoutingInv, RoutingType, Discovered
<1>6. RoutedModelFits'
  BY <1>2 DEF RoutedModelFits
<1> QED BY <1>2, <1>3, <1>5, <1>6 DEF RoutingInv

LEMMA CatalogFields ==
  ASSUME RoutingType, Discovered, NEW p \in RoutedProviders
  PROVE  /\ catalogs[p].models \subseteq RoutedModels
         /\ catalogs[p].default \in RoutedModels \cup {NoModel}
         /\ DefaultModel(p) \in RoutedModels \cup {NoModel}
BY SettingFields DEF RoutingType, Catalog, SettingShape, DefaultModel

\* Whatever is asked for, normalisation gives a model of the catalog.
LEMMA NormalizedIsKnown ==
  ASSUME RoutingType, Discovered, NEW p \in RoutedProviders, NEW r, NEW f
  PROVE  NormalizeModel(p, r, f) \in RoutedModels \cup {NoModel}
BY CatalogFields DEF NormalizeModel, ModelAllowed, InCatalog, FallbackModel

LEMMA NormalizedFits ==
  ASSUME RoutingType, Discovered, NEW p \in RoutedProviders, CatalogFits(p), NEW r, NEW f
  PROVE  IF NormalizeModel(p, r, f) = NoModel THEN catalogs[p].models = {}
         ELSE NormalizeModel(p, r, f) \in catalogs[p].models
BY DEF NormalizeModel, ModelAllowed, InCatalog, FallbackModel, CatalogFits

LEMMA ToolsFit ==
  ASSUME RoutingType, Discovered, NEW p \in RoutedProviders, NEW m
  PROVE  /\ m \in catalogs[p].models => ForTools(p, m) \in catalogs[p].models
         /\ m \in RoutedModels => ForTools(p, m) \in RoutedModels
         /\ StableToolModels(p) # {} => ForTools(p, m) \in StableToolModels(p)
<1>1. StableToolModels(p) \subseteq catalogs[p].models /\ catalogs[p].models \subseteq RoutedModels
  BY CatalogFields DEF StableToolModels
<1>2. StableToolModels(p) # {} => First(StableToolModels(p)) \in StableToolModels(p)
  BY <1>1, FirstIsOne
<1>3. HasTools(p, m) /\ ~Unstable(p, m) => m \in StableToolModels(p)
  BY DEF HasTools, StableToolModels
<1> QED BY <1>1, <1>2, <1>3 DEF ForTools, FirstOr

LEMMA JSONFits ==
  ASSUME RoutingType, Discovered, NEW p \in RoutedProviders, NEW m \in RoutedModels,
         NEW f \in RoutedModels \cup {NoModel}
  PROVE  /\ ForJSON(p, m, f) \in RoutedModels
         /\ m \in catalogs[p].models /\ f \in catalogs[p].models \cup {NoModel} =>
              /\ ForJSON(p, m, f) \in catalogs[p].models
              /\ Facts[ForJSON(p, m, f)].small => \A x \in catalogs[p].models : Facts[x].small
<1> DEFINE fit == {x \in catalogs[p].models : ~Facts[x].small}
           large == {x \in fit : Facts[x].large}
<1>1. large \subseteq fit /\ fit \subseteq catalogs[p].models /\ catalogs[p].models \subseteq RoutedModels
  BY CatalogFields
<1>2. \A x \in catalogs[p].models : x \in fit \/ Facts[x].small
  OBVIOUS
<1>3. \A x \in fit : ~Facts[x].small
  OBVIOUS
<1>4. ForJSON(p, m, f) =
        IF m \notin catalogs[p].models \/ ~Facts[m].small THEN m
        ELSE IF f \in fit THEN f
        ELSE FirstOr(large, FirstOr(fit, IF f = NoModel THEN m ELSE f))
  BY DEF ForJSON
<1> HIDE DEF fit, large
<1>5. large # {} => First(large) \in fit
  BY <1>1, FirstIsOne
<1>6. fit # {} => First(fit) \in fit
  BY <1>1, FirstIsOne
<1>7. CASE m \notin catalogs[p].models
  BY <1>4, <1>7
<1>8. CASE m \in catalogs[p].models /\ ~Facts[m].small
  BY <1>4, <1>8
<1>9. CASE m \in catalogs[p].models /\ Facts[m].small /\ fit # {}
  <2>1. ForJSON(p, m, f) \in fit
    BY <1>4, <1>5, <1>6, <1>9 DEF FirstOr
  <2> QED BY <1>1, <1>3, <2>1
<1>10. CASE m \in catalogs[p].models /\ Facts[m].small /\ fit = {}
  <2>1. ForJSON(p, m, f) = IF f = NoModel THEN m ELSE f
    BY <1>1, <1>4, <1>10 DEF FirstOr
  <2>2. \A x \in catalogs[p].models : Facts[x].small
    BY <1>2, <1>10
  <2> QED BY <1>10, <2>1, <2>2
<1> QED BY <1>7, <1>8, <1>9, <1>10

LEMMA PersonaIsKnown ==
  ASSUME RoutingType, Discovered, NEW p \in RoutedProviders, NEW k \in Downstream, NEW r,
         NEW f \in RoutedModels \cup {NoModel}
  PROVE  NormalizePersona(p, k, r, f) \in RoutedModels \cup {NoModel}
<1>1. ModelAllowed(p, r) => r \in RoutedModels
  BY CatalogFields DEF ModelAllowed, InCatalog
<1> QED BY <1>1, ToolsFit, JSONFits DEF NormalizePersona

LEMMA NormalizedPersonaFits ==
  ASSUME RoutingType, Discovered, NEW p \in RoutedProviders, CatalogFits(p),
         NEW k \in Downstream, NEW r, NEW f,
         IF f = NoModel THEN catalogs[p].models = {} ELSE f \in catalogs[p].models,
         NEW m, m = NormalizePersona(p, k, r, f)
  PROVE  IF m = NoModel THEN catalogs[p].models = {}
         ELSE /\ m \in catalogs[p].models
              /\ k \in {"pod", "qa"} /\ StableToolModels(p) # {} => m \in StableToolModels(p)
              /\ k = "project_manager" /\ Facts[m].small =>
                   \A x \in catalogs[p].models : Facts[x].small
<1> DEFINE n == IF ModelAllowed(p, r) THEN r ELSE f
<1>1. IF n = NoModel THEN catalogs[p].models = {} ELSE n \in catalogs[p].models
  BY DEF ModelAllowed, InCatalog, CatalogFits
<1>2. m = IF n = NoModel THEN NoModel
          ELSE IF k \in {"pod", "qa"} THEN ForTools(p, n)
          ELSE IF k = "project_manager" THEN ForJSON(p, n, f)
          ELSE n
  BY DEF NormalizePersona
<1> HIDE DEF n
<1>3. CASE n = NoModel
  BY <1>1, <1>2, <1>3
<1>4. CASE n # NoModel
  <2>1. n \in catalogs[p].models /\ n \in RoutedModels /\ f \in RoutedModels \cup {NoModel}
    BY <1>1, <1>4, CatalogFields
  <2>2. NoModel \notin catalogs[p].models
    BY CatalogFields, NoModelUnknown
  <2>3. f \in catalogs[p].models \cup {NoModel}
    BY <2>1
  <2>4. CASE k \in {"pod", "qa"}
    <3>1. m = ForTools(p, n) /\ k # "project_manager"
      BY <1>2, <1>4, <2>4
    <3> QED BY <2>1, <2>2, <3>1, ToolsFit
  <2>5. CASE k = "project_manager"
    <3>1. m = ForJSON(p, n, f) /\ k \notin {"pod", "qa"}
      BY <1>2, <1>4, <2>5
    <3> QED BY <2>1, <2>2, <2>3, <3>1, JSONFits
  <2>6. CASE k \notin {"pod", "qa", "project_manager"}
    BY <1>2, <1>4, <2>1, <2>6
  <2> QED BY <2>4, <2>5, <2>6
<1> QED BY <1>3, <1>4

LEMMA DirectorStep == ASSUME RoutingInv, DirectorDecides PROVE RoutingInv'
<1>1. PICK a \in DirectorAnswers :
       LET packet == ProviderNow
           p == IF route.provider # "" THEN route.provider
                ELSE NormalizeProvider(IF a.provider = "" THEN packet ELSE a.provider, packet)
           asked == IF a.model = NoModel THEN PersonaModel(packet, "director") ELSE a.model
           m == NormalizeModel(p, IF route.model # NoModel THEN route.model ELSE asked,
                               FallbackModel(p))
           fallback == NormalizeModel(p, NoModel, m)
       IN route' = [provider |-> p, model |-> m, directed |-> TRUE,
                    personas |-> [k \in Downstream |->
                      NormalizePersona(p, k, IF k \in {"pod", "qa"} THEN a.pod ELSE a.other,
                                       fallback)]]
  BY DEF DirectorDecides
<1> DEFINE packet == ProviderNow
           p == IF route.provider # "" THEN route.provider
                ELSE NormalizeProvider(IF a.provider = "" THEN packet ELSE a.provider, packet)
           asked == IF a.model = NoModel THEN PersonaModel(packet, "director") ELSE a.model
           m == NormalizeModel(p, IF route.model # NoModel THEN route.model ELSE asked,
                               FallbackModel(p))
           fallback == NormalizeModel(p, NoModel, m)
           choice == [k \in Downstream |->
                        NormalizePersona(p, k, IF k \in {"pod", "qa"} THEN a.pod ELSE a.other,
                                         fallback)]
<1>2. route' = [provider |-> p, model |-> m, directed |-> TRUE, personas |-> choice]
  BY <1>1
<1>3. p \in RoutedProviders
  BY SettingFields DEF RoutingInv, RoutingType, SettingShape, ProviderNow, NormalizeProvider
<1>4. RoutingType /\ Discovered
  BY DEF RoutingInv, DirectorDecides
<1>5. m \in RoutedModels \cup {NoModel} /\ fallback \in RoutedModels \cup {NoModel}
  BY <1>3, <1>4, NormalizedIsKnown
<1>6. \A k \in Downstream : choice[k] \in RoutedModels \cup {NoModel}
  BY <1>3, <1>4, <1>5, PersonaIsKnown
<1>7. choice \in [Downstream -> RoutedModels \cup {NoModel}]
  BY <1>6
<1>8. ASSUME CatalogFits(p), NEW k \in Downstream
      PROVE  IF choice[k] = NoModel THEN catalogs[p].models = {}
             ELSE /\ choice[k] \in catalogs[p].models
                  /\ k \in {"pod", "qa"} /\ StableToolModels(p) # {} => choice[k] \in StableToolModels(p)
                  /\ k = "project_manager" /\ Facts[choice[k]].small =>
                       \A x \in catalogs[p].models : Facts[x].small
  <2>1. IF fallback = NoModel THEN catalogs[p].models = {} ELSE fallback \in catalogs[p].models
    BY <1>3, <1>4, <1>8, NormalizedFits
  <2>2. choice[k] = NormalizePersona(p, k, IF k \in {"pod", "qa"} THEN a.pod ELSE a.other, fallback)
    OBVIOUS
  <2> HIDE DEF p, fallback, choice
  <2> QED BY <1>3, <1>4, <1>8, <2>1, <2>2, NormalizedPersonaFits
<1> HIDE DEF p, m, fallback, choice
<1>9. /\ route'.provider = p /\ route'.model = m /\ route'.directed /\ route'.personas = choice
      /\ UNCHANGED <<setting, catalogs, call, since, reboots>>
  BY <1>2 DEF DirectorDecides
<1>10. RoutingType'
  BY <1>3, <1>4, <1>5, <1>7, <1>9 DEF RoutingType, Discovered
<1>11. RoutedModelFits'
  BY <1>9 DEF RoutingInv, RoutedModelFits, Excluded, InCatalog, StableToolModels
<1>12. ASSUME since = {setting} PROVE \A q \in RoutedProviders : CatalogFits(q)
  BY <1>4, <1>12 DEF RoutingInv
<1>13. (Discovered /\ since = {setting} => \A q \in RoutedProviders : CatalogFits(q))'
  BY <1>9, <1>12 DEF CatalogFits, Excluded, DefaultModel
<1>14. (since = {setting} => \A k \in Downstream : PersonaFits(route.provider, k))'
  BY <1>3, <1>8, <1>9, <1>12 DEF PersonaFits, StableToolModels
<1> QED BY <1>10, <1>11, <1>13, <1>14 DEF RoutingInv

LEMMA CallStepFits == ASSUME RoutingInv, CallPersona PROVE RoutingInv'
<1>1. PICK k \in Downstream \cup {"director"} :
        /\ k \in Downstream <=> route.directed
        /\ call' = [persona |-> k, provider |-> ProviderNow, model |-> PersonaModel(ProviderNow, k)]
  BY DEF CallPersona
<1> DEFINE p == ProviderNow
           m == PersonaModel(p, k)
<1>2. /\ call'.persona = k /\ call'.provider = p /\ call'.model = m
      /\ UNCHANGED <<setting, route, catalogs, since, reboots>>
  BY <1>1 DEF CallPersona
<1>3. RoutingType /\ Discovered /\ p \in RoutedProviders
  BY SettingFields DEF RoutingInv, RoutingType, CallPersona, SettingShape, ProviderNow
<1>4. k # ""
  BY DEF Downstream
<1>5. \/ ModelAllowed(p, m)
      \/ m = catalogs[p].default /\ m # NoModel
      \/ m = DefaultModel(p) /\ catalogs[p].default = NoModel
  BY DEF PersonaModel, WorkflowModel, FallbackModel
<1>6. k \in Downstream => m = IF ModelAllowed(p, route.personas[k]) THEN route.personas[k]
                              ELSE WorkflowModel(p)
  BY DEF PersonaModel
<1> HIDE DEF m
<1>7. DefaultModel(p) # NoModel => ~Excluded(p, DefaultModel(p))
  BY DEF DefaultModel
<1>8. since = {setting} => CatalogFits(p)
  BY <1>3 DEF RoutingInv
<1>9. since = {setting} /\ k \in Downstream => PersonaFits(p, k)
  <2>1. k \in Downstream => p = route.provider
    BY <1>1, <1>3, NoModelUnknown DEF ProviderNow, RoutingInv, RoutingType
  <2> QED BY <1>1, <2>1 DEF RoutingInv
<1> HIDE DEF p
<1>10. m # NoModel /\ Excluded(p, m) => m = catalogs[p].default /\ since # {setting}
  BY <1>5, <1>7, <1>8 DEF ModelAllowed, CatalogFits
<1>11. m # NoModel /\ since = {setting} => m \in catalogs[p].models /\ InCatalog(p, m)
  BY <1>5, <1>8 DEF ModelAllowed, CatalogFits, InCatalog
<1>12. ASSUME m # NoModel, since = {setting}, k \in Downstream
       PROVE  m = route.personas[k]
  <2>1. catalogs[p].models # {}
    BY <1>11, <1>12
  <2>2. route.personas[k] \in catalogs[p].models /\ route.personas[k] # NoModel
    BY <1>9, <1>12, <2>1 DEF PersonaFits
  <2>3. ModelAllowed(p, route.personas[k])
    BY <1>8, <1>12, <2>2 DEF CatalogFits, ModelAllowed, InCatalog
  <2> QED BY <1>6, <1>12, <2>3
<1>13. ASSUME m # NoModel, since = {setting}
       PROVE  /\ k \in {"pod", "qa"} /\ StableToolModels(p) # {} => m \in StableToolModels(p)
              /\ k = "project_manager" /\ Facts[m].small =>
                   \A x \in catalogs[p].models : Facts[x].small
  BY <1>9, <1>12, <1>13 DEF PersonaFits, Downstream
<1>14. RoutedModelFits'
  BY <1>2, <1>10, <1>11, <1>13 DEF RoutedModelFits, Excluded, InCatalog, StableToolModels
<1>15. RoutingType'
  BY <1>2, <1>3 DEF RoutingType, Discovered
<1> QED BY <1>2, <1>14, <1>15 DEF RoutingInv, CatalogFits, PersonaFits, Discovered, Excluded,
                               DefaultModel, StableToolModels

LEMMA ReconfigureStep == ASSUME RoutingInv, Reconfigure PROVE RoutingInv'
<1>1. /\ setting' \in Settings /\ setting' # setting /\ since' = since \cup {setting'}
      /\ call'.persona = "" /\ UNCHANGED <<route, catalogs>>
  BY DEF Reconfigure
<1>2. setting \in since /\ setting \in since'
  BY <1>1 DEF RoutingInv, RoutingType
<1>3. since' # {setting'}
  BY <1>1, <1>2
<1>4. RoutingType'
  BY <1>1, <1>2 DEF RoutingInv, RoutingType, Discovered
<1>5. RoutedModelFits'
  BY <1>1 DEF RoutedModelFits
<1> QED BY <1>3, <1>4, <1>5 DEF RoutingInv

LEMMA RoutingStep == RoutingInv /\ [RoutingNext]_routingVars => RoutingInv'
<1>1. ASSUME RoutingInv, UNCHANGED routingVars PROVE RoutingInv'
  <2>1. UNCHANGED <<setting, route, catalogs, call, since, reboots>>
    BY <1>1 DEF routingVars
  <2>2. RoutingType'
    BY <1>1, <2>1 DEF RoutingInv, RoutingType, Discovered
  <2>3. RoutedModelFits'
    BY <1>1, <2>1 DEF RoutingInv, RoutedModelFits, Excluded, InCatalog, StableToolModels
  <2> QED BY <1>1, <2>1, <2>2, <2>3 DEF RoutingInv, CatalogFits, PersonaFits, Discovered, Excluded,
                                        DefaultModel, StableToolModels
<1> QED BY <1>1, DiscoverStep, DirectorStep, CallStepFits, ReconfigureStep DEF RoutingNext

\* For every number of providers, whatever they list and whatever configurations
\* and restarts there are: each persona is sent to a model that is in the catalog
\* and has what the persona needs if any has it.
THEOREM PersonasAreRouted == RoutingSpec => []RoutedModelFits
<1>1. RoutingInv => RoutedModelFits
  BY DEF RoutingInv
<1> QED BY <1>1, RoutingStarts, RoutingStep, PTL DEF RoutingSpec

-----------------------------------------------------------------------------
(* Deliveries: one that succeeds is whole, and one that fails says why, for  *)
(* every number of workflows, artifacts, orders, attempts and failing        *)
(* requests.  The argument follows one attempt: what goes to a file in the   *)
(* end is either still to be committed or in the file (PlacingInv), and what *)
(* another workflow changes on the branch it shows by its name.              *)

(* Artifacts and their files.                                                *)
LEMMA ProductNumbers ==
  ASSUME NEW w \in Deliverers
  PROVE  \E n \in Nat : DOMAIN Products[w] = 1..n
<1>1. Products[w] \in Seq(Artifact)
  BY DeliveryAssumption
<1> QED BY <1>1

\* Of the artifacts that go to one file one is the last.
LEMMA HasNewest ==
  ASSUME NEW w \in Deliverers, NEW i \in DOMAIN Products[w]
  PROVE  \E j \in SameFile(w, i) : Newer(w, j) = {}
<1>1. PICK n \in Nat : DOMAIN Products[w] = 1..n
  BY ProductNumbers
<1>2. SameFile(w, i) \subseteq 0..n /\ SameFile(w, i) # {}
  BY <1>1 DEF SameFile
<1>3. PICK j \in SameFile(w, i) : \A k \in SameFile(w, i) : k <= j
  BY <1>1, <1>2, GreatestNatural
<1>4. SameFile(w, j) = SameFile(w, i)
  BY <1>3 DEF SameFile
<1>5. \A k \in SameFile(w, j) : ~(k > j)
  BY <1>2, <1>3, <1>4
<1> QED BY <1>3, <1>5 DEF Newer

LEMMA TurnIsNumber ==
  ASSUME NEW w \in Deliverers, NEW i \in DOMAIN Products[w]
  PROVE  Turn(w, i) \in Nat
<1>1. PICK n \in Nat : DOMAIN Products[w] = 1..n
  BY ProductNumbers
<1>2. SameFile(w, i) \subseteq Nat /\ SameFile(w, i) # {}
  BY <1>1 DEF SameFile
<1>3. \E k \in SameFile(w, i) : \A j \in SameFile(w, i) : k <= j
  BY <1>2, LeastNatural
<1>4. (CHOOSE k \in SameFile(w, i) : \A j \in SameFile(w, i) : k <= j) \in Nat
  BY <1>2, <1>3
<1> QED BY <1>1, <1>4 DEF Turn

\* While artifacts are left one of them is next.
LEMMA NextIsOne ==
  ASSUME NEW w \in Deliverers, delivery[w].todo \subseteq DOMAIN Products[w], delivery[w].todo # {}
  PROVE  /\ NextOne(w) \in delivery[w].todo
         /\ \A j \in delivery[w].todo : Turn(w, NextOne(w)) <= Turn(w, j)
<1> DEFINE T == {Turn(w, i) : i \in delivery[w].todo}
<1>1. T \subseteq Nat /\ T # {}
  BY TurnIsNumber
<1>2. \E x \in T : \A y \in T : x <= y
  BY <1>1, LeastNatural
<1>3. \E i \in delivery[w].todo : \A j \in delivery[w].todo : Turn(w, i) <= Turn(w, j)
  BY <1>2
<1> HIDE DEF T
<1> QED BY <1>3 DEF NextOne

-----------------------------------------------------------------------------
\* The stages of an attempt at GitHub: before the files, and with them.
Opening == {"ref", "refs", "create"}
Filling == {"get", "put", "pull"}

\* Another workflow may deliver to the same repository.
Shared(w) == \E v \in Deliverers \ {w} : delivery[w].target \in Names(v)

\* What goes to the file of the i-th artifact in the end is still to be committed.
Pending(w, i) == \E j \in delivery[w].todo \cap SameFile(w, i) : Newer(w, j) = {}

PlacingInv(w) ==
  /\ \A i \in DOMAIN Products[w] :
       Pending(w, i) \/ (delivery[w].at \notin Opening /\ Placed(w, i))
  /\ \A i \in delivery[w].todo : i \in Committed(w) /\ Pending(w, i)
  /\ delivery[w].at = "put" => delivery[w].todo # {}
  /\ delivery[w].at \in {"pull", "delivered"} => delivery[w].todo = {}

Explained(w) ==
  \/ <<delivery[w].target, HeadBranch(w), BaseBranch(w)>> \in pulls
  \/ <<delivery[w].target, BaseBranch(w)>> \notin DOMAIN branches
  \/ Target(w) \notin DOMAIN branches
  \/ ~HasToken(w)
  \/ Shared(w)

FieldNames == {"order", "at", "repoURL", "target", "todo", "sha", "tried", "clean"}

DeliveryShape ==
  /\ DOMAIN delivery = Deliverers
  /\ \A w \in Deliverers : DOMAIN delivery[w] = FieldNames

AttemptInv(w) ==
  /\ delivery[w].repoURL \in {"", Requested(w)}
  /\ delivery[w].target \in Names(w) \cup {""}
  /\ delivery[w].at \in Opening \cup Filling => ToGitHub(w)
  /\ delivery[w].at \in Opening \cup Filling \/ (delivery[w].at = "delivered" /\ ToGitHub(w)) =>
       delivery[w].target # ""
  /\ delivery[w].at = "post" => ~ToGitHub(w)
  /\ delivery[w].at \in Opening \cup Filling \/ (delivery[w].at = "delivered" /\ ToGitHub(w)) =>
       PlacingInv(w)
  /\ delivery[w].at = "put" /\ delivery[w].clean =>
       delivery[w].sha = ContentAt(Target(w), NextFile(w)) \/ Shared(w)
  /\ delivery[w].at = "failed" /\ delivery[w].clean /\ ToGitHub(w) => Explained(w)

DeliveryInv ==
  /\ DeliveryShape
  /\ \A y : <<"", y>> \notin DOMAIN branches
  /\ \A w \in Deliverers : AttemptInv(w)

LEMMA DeliveryStarts == DeliveryInit => DeliveryInv
<1> SUFFICES ASSUME DeliveryInit PROVE DeliveryInv
  OBVIOUS
<1>1. PICK chosen \in [Deliverers -> Orders] :
        delivery = [w \in Deliverers |->
          [order |-> chosen[w], at |-> "setup", repoURL |-> "", target |-> "", todo |-> {},
           sha |-> None, tried |-> 0, clean |-> TRUE]]
  BY DEF DeliveryInit
<1>2. PICK repos \in SUBSET Repositories :
        branches = [b \in repos \X {"main"} |-> [f \in {"README.md"} |-> Readme]]
  BY DEF DeliveryInit
<1>3. \A y : <<"", y>> \notin DOMAIN branches
  BY <1>2, DeliveryAssumption
<1>4. DeliveryShape
  BY <1>1 DEF DeliveryShape, FieldNames
<1>5. \A w \in Deliverers : /\ delivery[w].at = "setup" /\ delivery[w].repoURL = ""
                            /\ delivery[w].target = ""
  BY <1>1
<1> QED BY <1>3, <1>4, <1>5 DEF DeliveryInv, AttemptInv, Opening, Filling

-----------------------------------------------------------------------------
\* What the order and the workspace of a workflow decide.
SameOrder(w) ==
  /\ delivery'[w].order = delivery[w].order
  /\ delivery'[w].repoURL = delivery[w].repoURL

LEMMA NamesAreFixed ==
  ASSUME NEW w \in Deliverers, delivery'[w].order = delivery[w].order
  PROVE  Names(w)' = Names(w) /\ Requested(w)' = Requested(w) /\ ActionKey(w)' = ActionKey(w)
         /\ ToGitHub(w)' = ToGitHub(w)
BY DEF Names, Requested, FromDelivery, Mine, ActionKey, ToGitHub, Given

LEMMA ConfigIsFixed ==
  ASSUME NEW w \in Deliverers, SameOrder(w)
  PROVE  /\ DeliveryConfig(w)' = DeliveryConfig(w) /\ HasToken(w)' = HasToken(w)
         /\ HeadBranch(w)' = HeadBranch(w) /\ BaseBranch(w)' = BaseBranch(w)
         /\ \A i : FilePath(w, i)' = FilePath(w, i)
<1>1. ActionKey(w)' = ActionKey(w) /\ Mine(w)' = Mine(w) /\ InferredRepo(w)' = InferredRepo(w)
  BY NamesAreFixed DEF SameOrder, Mine, InferredRepo
<1>2. DeliveryConfig(w)' = DeliveryConfig(w)
  BY <1>1 DEF DeliveryConfig, WorkspaceBranch
<1> QED BY <1>1, <1>2 DEF HasToken, HeadBranch, PullBranch, CommitBranch, BaseBranch, FilePath, OwnBranch, Given

LEMMA FilesAreFixed ==
  ASSUME NEW w \in Deliverers, SameOrder(w)
  PROVE  /\ \A i : SameFile(w, i)' = SameFile(w, i) /\ Newer(w, i)' = Newer(w, i)
                   /\ Turn(w, i)' = Turn(w, i)
         /\ Committed(w)' = Committed(w)
<1>1. \A i : FilePath(w, i)' = FilePath(w, i)
  BY ConfigIsFixed
<1>2. \A i : SameFile(w, i)' = SameFile(w, i)
  BY <1>1 DEF SameFile
<1>3. \A i : Newer(w, i)' = Newer(w, i)
  BY <1>2 DEF Newer
<1>4. ActionKey(w)' = ActionKey(w)
  BY NamesAreFixed DEF SameOrder
<1>5. \A i : Turn(w, i)' = Turn(w, i)
  <2> TAKE i
  <2>1. SameFile(w, i)' = SameFile(w, i)
    BY <1>2
  <2> QED BY <1>4, <2>1 DEF Turn
<1>6. Committed(w)' = Committed(w)
  BY <1>3, <1>4 DEF Committed
<1> QED BY <1>2, <1>3, <1>5, <1>6

\* The repository that the configuration names is one of the order's.
LEMMA ConfiguredName ==
  ASSUME NEW w \in Deliverers, delivery[w].repoURL \in {"", Requested(w)}
  PROVE  DeliveryConfig(w)["repo"] \in Names(w)
BY DEF DeliveryConfig, InferredRepo, Names, Given, Fields

-----------------------------------------------------------------------------
WrittenBy(v, content) == content # None /\ content[1] = v

\* What a step of v does to GitHub: branches and files only come, in repositories
\* that the order of v names, and what changes in a file is v's.
GitHubMove(v) ==
  /\ pulls \subseteq pulls'
  /\ DOMAIN branches \subseteq DOMAIN branches'
  /\ \A r, y : <<r, y>> \in DOMAIN branches' /\ <<r, y>> \notin DOMAIN branches =>
       r \in Names(v) /\ r # ""
  /\ \A r, y, file : ContentAt(<<r, y>>, file)' # ContentAt(<<r, y>>, file) =>
       /\ r \in Names(v)
       /\ <<r, y>> \in DOMAIN branches => WrittenBy(v, ContentAt(<<r, y>>, file)')

\* The steps of one workflow leave the attempts of the others alone.
Alone(v) ==
  /\ DOMAIN delivery' = Deliverers
  /\ \A w \in Deliverers \ {v} : delivery'[w] = delivery[w]
  /\ DOMAIN delivery'[v] = FieldNames
  /\ delivery'[v].order = delivery[v].order

LEMMA UnchangedMove == ASSUME NEW v \in Deliverers, UNCHANGED <<branches, pulls>> PROVE GitHubMove(v)
BY DEF GitHubMove, ContentAt, Files

LEMMA CreationMove ==
  ASSUME NEW v \in Deliverers, NEW r \in Names(v), r # "", NEW y, NEW files,
         <<r, y>> \notin DOMAIN branches, branches' = With(branches, <<r, y>>, files), pulls' = pulls
  PROVE  GitHubMove(v)
<1>1. /\ DOMAIN branches' = DOMAIN branches \cup {<<r, y>>}
      /\ \A b \in DOMAIN branches : branches'[b] = branches[b]
  BY DEF With
<1>2. \A b \in DOMAIN branches : \A file : ContentAt(b, file)' = ContentAt(b, file)
  BY <1>1 DEF ContentAt, Files
<1>3. \A b : b \notin DOMAIN branches' => \A file : ContentAt(b, file)' = ContentAt(b, file)
  BY <1>1 DEF ContentAt, Files
<1> QED BY <1>1, <1>2, <1>3 DEF GitHubMove

Overwritten(b, file, content) == [branches EXCEPT ![b] = With(@, file, content)]

OnlyChanged(b, file, content) ==
  /\ ContentAt(b, file)' = content
  /\ \A c, other : <<c, other>> # <<b, file>> => ContentAt(c, other)' = ContentAt(c, other)

LEMMA PutMove ==
  ASSUME NEW v \in Deliverers, NEW r \in Names(v), NEW y, NEW file, NEW n,
         <<r, y>> \in DOMAIN branches, pulls' = pulls,
         branches' = Overwritten(<<r, y>>, file, <<v, n>>)
  PROVE  GitHubMove(v) /\ OnlyChanged(<<r, y>>, file, <<v, n>>)
<1>1. /\ DOMAIN branches' = DOMAIN branches
      /\ branches'[<<r, y>>] = With(branches[<<r, y>>], file, <<v, n>>)
      /\ \A b \in DOMAIN branches \ {<<r, y>>} : branches'[b] = branches[b]
  BY DEF Overwritten
<1>2. /\ DOMAIN branches'[<<r, y>>] = DOMAIN branches[<<r, y>>] \cup {file}
      /\ branches'[<<r, y>>][file] = <<v, n>>
      /\ \A other \in DOMAIN branches[<<r, y>>] \ {file} :
           branches'[<<r, y>>][other] = branches[<<r, y>>][other]
  BY <1>1 DEF With
<1>3. ContentAt(<<r, y>>, file)' = <<v, n>>
  BY <1>1, <1>2 DEF ContentAt, Files
<1>4. \A other : other # file => ContentAt(<<r, y>>, other)' = ContentAt(<<r, y>>, other)
  BY <1>1, <1>2 DEF ContentAt, Files
<1>5. \A b, other : b # <<r, y>> => ContentAt(b, other)' = ContentAt(b, other)
  BY <1>1 DEF ContentAt, Files
<1>6. \A b, other : <<b, other>> # <<<<r, y>>, file>> => ContentAt(b, other)' = ContentAt(b, other)
  BY <1>4, <1>5
<1>7. GitHubMove(v)
  <2>1. WrittenBy(v, ContentAt(<<r, y>>, file)')
    BY <1>3 DEF WrittenBy, None
  <2>2. \A s, z, other : ContentAt(<<s, z>>, other)' # ContentAt(<<s, z>>, other) =>
          s = r /\ z = y /\ other = file
    BY <1>6
  <2> QED BY <1>1, <2>1, <2>2 DEF GitHubMove
<1> QED BY <1>3, <1>6, <1>7 DEF OnlyChanged

\* What another workflow's step leaves of an attempt.
LEMMA PlacedStays ==
  ASSUME NEW v \in Deliverers, NEW w \in Deliverers \ {v}, GitHubMove(v), delivery'[w] = delivery[w],
         NEW i, Placed(w, i)
  PROVE  Placed(w, i)'
<1>0. PICK r, y, file : r = delivery[w].target /\ y = HeadBranch(w) /\ file = FilePath(w, i)
  OBVIOUS
<1>1. SameOrder(w)
  BY DEF SameOrder
<1>2. /\ Target(w) = <<r, y>> /\ Target(w)' = <<r, y>> /\ FilePath(w, i)' = file
      /\ \A k : SameFile(w, k)' = SameFile(w, k) /\ Newer(w, k)' = Newer(w, k)
  BY <1>0, <1>1, ConfigIsFixed, FilesAreFixed DEF Target
<1>3. ContentAt(<<r, y>>, file) # None
  BY <1>0, <1>2 DEF Placed
<1>4. <<r, y>> \in DOMAIN branches
  BY <1>3 DEF ContentAt, Files, None
<1>5. ContentAt(<<r, y>>, file)' = ContentAt(<<r, y>>, file) \/ WrittenBy(v, ContentAt(<<r, y>>, file)')
  BY <1>4 DEF GitHubMove
<1>6. ContentAt(Target(w), FilePath(w, i))' = ContentAt(<<r, y>>, file)'
  BY <1>2
<1>7. CASE ContentAt(<<r, y>>, file)' = ContentAt(<<r, y>>, file)
  BY <1>0, <1>2, <1>6, <1>7 DEF Placed
<1>8. CASE WrittenBy(v, ContentAt(<<r, y>>, file)')
  BY <1>6, <1>8 DEF Placed, WrittenBy
<1> QED BY <1>5, <1>7, <1>8

LEMMA SharedStays ==
  ASSUME NEW w \in Deliverers, \A v \in Deliverers : delivery'[v].order = delivery[v].order,
         delivery'[w].target = delivery[w].target
  PROVE  Shared(w)' <=> Shared(w)
BY NamesAreFixed DEF Shared

LEMMA OthersKeepInv ==
  ASSUME NEW v \in Deliverers, NEW w \in Deliverers \ {v}, GitHubMove(v), Alone(v), AttemptInv(w)
  PROVE  AttemptInv(w)'
<1>1. delivery'[w] = delivery[w] /\ SameOrder(w)
  BY DEF Alone, SameOrder
<1>2. /\ Names(w)' = Names(w) /\ Requested(w)' = Requested(w) /\ ToGitHub(w)' = ToGitHub(w)
      /\ Committed(w)' = Committed(w)
      /\ \A i : SameFile(w, i)' = SameFile(w, i) /\ Newer(w, i)' = Newer(w, i)
                /\ Turn(w, i)' = Turn(w, i) /\ FilePath(w, i)' = FilePath(w, i)
      /\ HasToken(w)' = HasToken(w) /\ HeadBranch(w)' = HeadBranch(w) /\ BaseBranch(w)' = BaseBranch(w)
  BY <1>1, NamesAreFixed, ConfigIsFixed, FilesAreFixed
<1>3. Shared(w)' <=> Shared(w)
  BY <1>1, SharedStays DEF Alone
<1>4. \A i : Pending(w, i)' <=> Pending(w, i)
  BY <1>1, <1>2 DEF Pending
<1>5. PlacingInv(w) => PlacingInv(w)'
  BY <1>1, <1>2, <1>4, PlacedStays DEF PlacingInv
<1>6. NextFile(w)' = NextFile(w)
  <2>1. NextOne(w)' = NextOne(w)
    BY <1>1, <1>2 DEF NextOne
  <2> QED BY <1>2, <2>1 DEF NextFile
<1>7. Target(w)' = Target(w) /\ Target(w) = <<delivery[w].target, HeadBranch(w)>>
  BY <1>1, <1>2 DEF Target
<1>8. delivery[w].target \in Names(v) => Shared(w)
  BY DEF Shared
<1>9. ContentAt(Target(w), NextFile(w))' = ContentAt(Target(w), NextFile(w)) \/ Shared(w)
  <2>1. PICK r, y, file : r = delivery[w].target /\ y = HeadBranch(w) /\ file = NextFile(w)
    OBVIOUS
  <2>2. ContentAt(Target(w), NextFile(w))' = ContentAt(<<r, y>>, file)'
    BY <1>6, <1>7, <2>1
  <2>3. ContentAt(Target(w), NextFile(w)) = ContentAt(<<r, y>>, file)
    BY <1>7, <2>1
  <2>4. ContentAt(<<r, y>>, file)' # ContentAt(<<r, y>>, file) => r \in Names(v)
    BY DEF GitHubMove
  <2> QED BY <1>8, <2>1, <2>2, <2>3, <2>4
<1>10. Explained(w) => Explained(w)'
  <2>1. \A r, y : <<r, y>> \in DOMAIN branches' /\ <<r, y>> \notin DOMAIN branches => r \in Names(v)
    BY DEF GitHubMove
  <2>2. pulls \subseteq pulls'
    BY DEF GitHubMove
  <2> QED BY <1>1, <1>2, <1>3, <1>7, <1>8, <2>1, <2>2 DEF Explained
<1> QED BY <1>1, <1>2, <1>3, <1>5, <1>6, <1>7, <1>9, <1>10 DEF AttemptInv

-----------------------------------------------------------------------------
\* The steps of a workflow itself.
LEMMA ContinueMove ==
  ASSUME DeliveryShape, NEW w \in Deliverers, NEW next, Continue(w, next)
  PROVE  /\ Alone(w) /\ SameOrder(w) /\ delivery'[w].at = next
         /\ delivery'[w].target = delivery[w].target /\ delivery'[w].todo = delivery[w].todo
         /\ delivery'[w].sha = delivery[w].sha /\ delivery'[w].clean = delivery[w].clean
BY DEF DeliveryShape, FieldNames, Continue, Alone, SameOrder

LEMMA FailsMove ==
  ASSUME DeliveryShape, NEW w \in Deliverers, NEW outcome, Fails(w, outcome)
  PROVE  /\ Alone(w) /\ SameOrder(w) /\ delivery'[w].at = "failed"
         /\ delivery'[w].target = delivery[w].target
         /\ delivery'[w].clean => delivery[w].clean /\ outcome = "ok"
BY DEF DeliveryShape, FieldNames, Fails, Alone, SameOrder

LEMMA PlacingMoves ==
  ASSUME NEW w \in Deliverers, SameOrder(w), delivery'[w].todo = delivery[w].todo, PlacingInv(w),
         delivery[w].at \in Opening
           \/ (UNCHANGED branches /\ delivery'[w].target = delivery[w].target),
         delivery'[w].at \in Opening => delivery[w].at \in Opening,
         delivery'[w].at = "put" => delivery[w].todo # {},
         delivery'[w].at \in {"pull", "delivered"} => delivery[w].todo = {}
  PROVE  PlacingInv(w)'
<1>1. /\ \A i : SameFile(w, i)' = SameFile(w, i) /\ Newer(w, i)' = Newer(w, i)
      /\ \A i : FilePath(w, i)' = FilePath(w, i)
      /\ Committed(w)' = Committed(w) /\ HeadBranch(w)' = HeadBranch(w)
  BY FilesAreFixed, ConfigIsFixed
<1>2. \A i : Pending(w, i)' <=> Pending(w, i)
  BY <1>1 DEF Pending
<1>3. ASSUME UNCHANGED branches, delivery'[w].target = delivery[w].target, NEW i, Placed(w, i)
      PROVE  Placed(w, i)'
  <2>1. Target(w)' = Target(w)
    BY <1>1, <1>3 DEF Target
  <2>2. ContentAt(Target(w), FilePath(w, i))' = ContentAt(Target(w), FilePath(w, i))
    BY <1>1, <1>3, <2>1 DEF ContentAt, Files
  <2> QED BY <1>1, <1>3, <2>2 DEF Placed
<1>4. \A i \in DOMAIN Products[w] :
        Pending(w, i)' \/ (delivery'[w].at \notin Opening /\ Placed(w, i)')
  <2> TAKE i \in DOMAIN Products[w]
  <2>1. CASE Pending(w, i)
    BY <1>2, <2>1
  <2>2. CASE ~Pending(w, i)
    <3>1. delivery[w].at \notin Opening /\ Placed(w, i)
      BY <2>2 DEF PlacingInv
    <3> QED BY <1>3, <3>1
  <2> QED BY <2>1, <2>2
<1> QED BY <1>1, <1>2, <1>4 DEF PlacingInv

\* An attempt begins with all that is to be committed still pending.
LEMMA StartsAllPending ==
  ASSUME NEW w \in Deliverers, SameOrder(w), delivery'[w].todo = Committed(w)
  PROVE  \A i \in DOMAIN Products[w] : Pending(w, i)'
<1> TAKE i \in DOMAIN Products[w]
<1>1. PICK j \in SameFile(w, i) : Newer(w, j) = {}
  BY HasNewest
<1>2. j \in Committed(w)
  BY <1>1 DEF Committed, SameFile
<1>3. SameFile(w, i)' = SameFile(w, i) /\ Newer(w, j)' = Newer(w, j)
  BY FilesAreFixed
<1> QED BY <1>1, <1>2, <1>3 DEF Pending

SafeStep(w) == Alone(w) /\ GitHubMove(w) /\ AttemptInv(w)'

LEMMA EnsureStep == ASSUME DeliveryInv, NEW w \in Deliverers, EnsureRepository(w) PROVE SafeStep(w)
<1>1. AttemptInv(w) /\ DeliveryShape /\ delivery[w].at = "setup" /\ pulls' = pulls
  BY DEF DeliveryInv, EnsureRepository
<1>2. Attached(w) \/ UNCHANGED delivery
  BY DEF EnsureRepository
<1>3. GitHubMove(w)
  <2>1. CASE UNCHANGED branches
    BY <1>1, <2>1, UnchangedMove
  <2>2. CASE ~(UNCHANGED branches)
    <3>1. /\ Requested(w) # "" /\ <<Requested(w), "main">> \notin DOMAIN branches
          /\ branches' = With(branches, <<Requested(w), "main">>, [f \in {"README.md"} |-> Readme])
      BY <2>2 DEF EnsureRepository, Exists
    <3>2. Requested(w) \in Names(w)
      BY DEF Names
    <3> QED BY <1>1, <3>1, <3>2, CreationMove
  <2> QED BY <2>1, <2>2
<1>4. CASE UNCHANGED delivery
  <2>1. Alone(w)
    BY <1>1, <1>4 DEF Alone, DeliveryShape
  <2>2. Names(w)' = Names(w) /\ Requested(w)' = Requested(w)
    BY <1>4, NamesAreFixed
  <2>3. AttemptInv(w)'
    BY <1>1, <1>4, <2>2 DEF AttemptInv, Opening, Filling
  <2> QED BY <1>3, <2>1, <2>3 DEF SafeStep
<1>5. CASE Attached(w)
  <2>1. Alone(w) /\ delivery'[w].at = "waiting" /\ delivery'[w].target = delivery[w].target
    BY <1>1, <1>5 DEF Attached, Alone, DeliveryShape, FieldNames
  <2>2. delivery'[w].repoURL \in {"", Requested(w)}
    BY <1>1, <1>5 DEF Attached, DeliveryShape, FieldNames
  <2>3. Names(w)' = Names(w) /\ Requested(w)' = Requested(w)
    BY <2>1, NamesAreFixed DEF Alone
  <2>4. AttemptInv(w)'
    BY <1>1, <2>1, <2>2, <2>3 DEF AttemptInv, Opening, Filling
  <2> QED BY <1>3, <2>1, <2>4 DEF SafeStep
<1> QED BY <1>2, <1>4, <1>5

LEMMA StartsMove ==
  ASSUME DeliveryInv, NEW w \in Deliverers, NEW next, Starts(w, next)
  PROVE  /\ Alone(w) /\ SameOrder(w) /\ delivery'[w].at = next
         /\ delivery'[w].target = DeliveryConfig(w)["repo"]
         /\ delivery'[w].todo = Committed(w)
BY DEF DeliveryInv, DeliveryShape, FieldNames, Starts, Alone, SameOrder

\* An attempt that starts, and does not reach GitHub without a repository and a
\* token.
LEMMA StartsWell ==
  ASSUME DeliveryInv, NEW w \in Deliverers, NEW next, Starts(w, next), UNCHANGED <<branches, pulls>>,
         IF ToGitHub(w) THEN next = "failed" \/ (next \in Opening \cup {"get"} /\ MayPush(w))
         ELSE next \in {"post", "delivered", "failed", "skipped"},
         ToGitHub(w) /\ next = "failed" => ~MayPush(w)
  PROVE  SafeStep(w)
<1>1. /\ Alone(w) /\ SameOrder(w) /\ delivery'[w].at = next
      /\ delivery'[w].target = DeliveryConfig(w)["repo"] /\ delivery'[w].todo = Committed(w)
  BY StartsMove
<1>2. /\ Names(w)' = Names(w) /\ Requested(w)' = Requested(w) /\ ToGitHub(w)' = ToGitHub(w)
      /\ HasToken(w)' = HasToken(w) /\ BaseBranch(w)' = BaseBranch(w)
      /\ Committed(w)' = Committed(w)
  BY <1>1, NamesAreFixed, ConfigIsFixed, FilesAreFixed DEF SameOrder
<1>3. GitHubMove(w)
  BY UnchangedMove
<1>4. AttemptInv(w)
  BY DEF DeliveryInv
<1>5. delivery'[w].target \in Names(w)'
  BY <1>1, <1>2, <1>4, ConfiguredName DEF AttemptInv
<1>6. delivery'[w].repoURL \in {"", Requested(w)'}
  BY <1>1, <1>2, <1>4 DEF AttemptInv, SameOrder
<1>7. next \in Opening \cup {"get"} => PlacingInv(w)'
  <2>1. ASSUME next \in Opening \cup {"get"} PROVE PlacingInv(w)'
    <3>1. \A i \in DOMAIN Products[w] : Pending(w, i)'
      BY <1>1, StartsAllPending
    <3> QED BY <1>1, <1>2, <2>1, <3>1 DEF PlacingInv, Opening, Committed
  <2> QED BY <2>1
<1>8. ToGitHub(w) /\ next = "failed" => Explained(w)'
  <2>1. ASSUME DeliveryConfig(w)["repo"] = "" PROVE Explained(w)'
    <3>1. <<"", BaseBranch(w)'>> \notin DOMAIN branches'
      BY DEF DeliveryInv
    <3> QED BY <1>1, <2>1, <3>1 DEF Explained
  <2>2. ASSUME ~HasToken(w) PROVE Explained(w)'
    BY <1>2, <2>2 DEF Explained
  <2> QED BY <2>1, <2>2 DEF MayPush
<1>9. next \in Opening \cup {"get"} => ToGitHub(w) /\ delivery'[w].target # ""
  BY <1>1 DEF MayPush, Opening
<1>10. AttemptInv(w)'
  <2>1. CASE ToGitHub(w)
    BY <1>1, <1>2, <1>5, <1>6, <1>7, <1>8, <1>9, <2>1 DEF AttemptInv, Opening, Filling
  <2>2. CASE ~ToGitHub(w)
    BY <1>1, <1>2, <1>5, <1>6, <2>2 DEF AttemptInv, Opening, Filling
  <2> QED BY <2>1, <2>2
<1> QED BY <1>1, <1>3, <1>10 DEF SafeStep

LEMMA StartStep == ASSUME DeliveryInv, NEW w \in Deliverers, StartDelivery(w) PROVE SafeStep(w)
<1>1. UNCHANGED <<branches, pulls>>
  BY DEF StartDelivery, UnchangedGitHub
<1>2. ToGitHub(w) <=> ActionKey(w) \in {"github-pr", "repo-commit-only", "create-repo"}
  BY DEF ToGitHub
<1>3. CASE PullStarts(w)
  <2>1. ToGitHub(w) /\ Starts(w, IF MayPush(w) THEN "ref" ELSE "failed")
    BY <1>2, <1>3 DEF PullStarts
  <2> QED BY <1>1, <2>1, StartsWell DEF Opening
<1>4. CASE CommitStarts(w)
  <2>1. ToGitHub(w) /\ Starts(w, IF MayPush(w) THEN "get" ELSE "failed")
    BY <1>2, <1>4 DEF CommitStarts
  <2> QED BY <1>1, <2>1, StartsWell DEF Opening
<1>5. CASE CreateStarts(w)
  <2>1. ToGitHub(w) /\ Starts(w, IF MayPush(w) THEN "create" ELSE "failed")
    BY <1>2, <1>5 DEF CreateStarts
  <2> QED BY <1>1, <2>1, StartsWell DEF Opening
<1>6. CASE WebhookStarts(w)
  <2>1. ~ToGitHub(w) /\ Starts(w, IF DeliveryConfig(w)["url"] # "" THEN "post" ELSE "failed")
    BY <1>2, <1>6 DEF WebhookStarts
  <2> QED BY <1>1, <2>1, StartsWell
<1>7. CASE DraftStarts(w)
  <2>1. ~ToGitHub(w) /\ (Starts(w, "delivered") \/ Starts(w, "failed"))
    BY <1>2, <1>7 DEF DraftStarts
  <2> QED BY <1>1, <2>1, StartsWell
<1>8. CASE InlineStarts(w)
  BY <1>1, <1>2, <1>8, StartsWell DEF InlineStarts, InlineActions
<1>9. CASE NothingStarts(w)
  BY <1>1, <1>2, <1>9, StartsWell DEF NothingStarts
<1> QED BY <1>3, <1>4, <1>5, <1>6, <1>7, <1>8, <1>9 DEF StartDelivery

\* The checks and the creation of branches and repositories.
LEMMA MovesOn ==
  ASSUME DeliveryInv, NEW w \in Deliverers, NEW next, Continue(w, next), GitHubMove(w),
         delivery[w].at \in Opening \/ UNCHANGED branches,
         delivery[w].at \in Opening \cup Filling,
         next \in Opening \cup {"get", "pull", "delivered"},
         next \in Opening => delivery[w].at \in Opening,
         next \in {"pull", "delivered"} => delivery[w].todo = {}
  PROVE  SafeStep(w)
<1>1. DeliveryShape /\ AttemptInv(w)
  BY DEF DeliveryInv
<1>2. /\ Alone(w) /\ SameOrder(w) /\ delivery'[w].at = next
      /\ delivery'[w].target = delivery[w].target /\ delivery'[w].todo = delivery[w].todo
  BY <1>1, ContinueMove
<1>3. PlacingInv(w) /\ ToGitHub(w) /\ delivery[w].target # ""
  BY <1>1 DEF AttemptInv
<1>4. PlacingInv(w)'
  <2>1. next # "put"
    BY DEF Opening
  <2>2. delivery[w].at \in Opening
           \/ (UNCHANGED branches /\ delivery'[w].target = delivery[w].target)
    BY <1>2
  <2> QED BY <1>2, <1>3, <2>1, <2>2, PlacingMoves
<1>5. /\ Names(w)' = Names(w) /\ Requested(w)' = Requested(w) /\ ToGitHub(w)' = ToGitHub(w)
  BY <1>2, NamesAreFixed DEF SameOrder
<1>6. next \notin {"post", "put", "failed"}
  BY DEF Opening
<1>7. AttemptInv(w)'
  BY <1>1, <1>2, <1>3, <1>4, <1>5, <1>6 DEF AttemptInv, SameOrder
<1> QED BY <1>2, <1>7 DEF SafeStep

LEMMA FailsSafely ==
  ASSUME DeliveryInv, NEW w \in Deliverers, NEW outcome, Fails(w, outcome), GitHubMove(w),
         outcome = "ok" /\ delivery[w].clean /\ ToGitHub(w) => Explained(w)'
  PROVE  SafeStep(w)
<1>1. DeliveryShape /\ AttemptInv(w)
  BY DEF DeliveryInv
<1>2. /\ Alone(w) /\ SameOrder(w) /\ delivery'[w].at = "failed"
      /\ delivery'[w].target = delivery[w].target
      /\ delivery'[w].clean => delivery[w].clean /\ outcome = "ok"
  BY <1>1, FailsMove
<1>3. Names(w)' = Names(w) /\ Requested(w)' = Requested(w) /\ ToGitHub(w)' = ToGitHub(w)
  BY <1>2, NamesAreFixed DEF SameOrder
<1>4. AttemptInv(w)'
  BY <1>1, <1>2, <1>3 DEF AttemptInv, SameOrder, Opening, Filling
<1> QED BY <1>2, <1>4 DEF SafeStep

LEMMA ReasonsCarryOver ==
  ASSUME DeliveryShape, NEW w \in Deliverers, NEW outcome, Fails(w, outcome)
  PROVE  /\ Target(w)' = Target(w) /\ Shared(w)' = Shared(w) /\ delivery'[w].target = delivery[w].target
         /\ HeadBranch(w)' = HeadBranch(w) /\ BaseBranch(w)' = BaseBranch(w)
<1>1. Alone(w) /\ SameOrder(w) /\ delivery'[w].target = delivery[w].target
  BY FailsMove
<1>2. HeadBranch(w)' = HeadBranch(w) /\ BaseBranch(w)' = BaseBranch(w)
  BY <1>1, ConfigIsFixed
<1>3. \A v \in Deliverers : delivery'[v].order = delivery[v].order
  BY <1>1 DEF Alone
<1>4. Shared(w)' <=> Shared(w)
  BY <1>1, <1>3, SharedStays
<1> QED BY <1>1, <1>2, <1>4 DEF Target, Shared

LEMMA GetBaseStep == ASSUME DeliveryInv, NEW w \in Deliverers, GetBase(w) PROVE SafeStep(w)
<1>1. /\ delivery[w].at = "ref" /\ UNCHANGED <<branches, pulls>>
      /\ \E outcome \in {"ok", "refused"} :
           IF outcome = "ok" /\ <<delivery[w].target, BaseBranch(w)>> \in DOMAIN branches
           THEN Continue(w, "refs") ELSE Fails(w, outcome)
  BY DEF GetBase, UnchangedGitHub
<1>2. GitHubMove(w)
  BY <1>1, UnchangedMove
<1>3. CASE Continue(w, "refs")
  BY <1>1, <1>2, <1>3, MovesOn DEF Opening
<1>4. ASSUME NEW outcome, Fails(w, outcome),
             outcome = "ok" => <<delivery[w].target, BaseBranch(w)>> \notin DOMAIN branches
      PROVE  SafeStep(w)
  <2>1. outcome = "ok" => Explained(w)'
    BY <1>1, <1>4, ReasonsCarryOver DEF DeliveryInv, Explained
  <2> QED BY <1>2, <1>4, <2>1, FailsSafely
<1> QED BY <1>1, <1>3, <1>4

LEMMA CreateBranchStep == ASSUME DeliveryInv, NEW w \in Deliverers, CreateBranch(w) PROVE SafeStep(w)
<1>1. PICK outcome \in Outcomes :
        /\ branches' = IF outcome # "refused" /\ Target(w) \notin DOMAIN branches
                       THEN With(branches, Target(w), Files(<<delivery[w].target, BaseBranch(w)>>))
                       ELSE branches
        /\ IF outcome = "ok" THEN Continue(w, "get") ELSE Fails(w, outcome)
  BY DEF CreateBranch, Recoverable
<1>2. delivery[w].at = "refs" /\ pulls' = pulls
  BY DEF CreateBranch
<1>3. delivery[w].target \in Names(w) /\ delivery[w].target # ""
  BY <1>2 DEF DeliveryInv, AttemptInv, Opening
<1>4. GitHubMove(w)
  <2>1. CASE branches' = branches
    BY <1>2, <2>1, UnchangedMove
  <2>2. CASE branches' # branches
    <3>1. /\ Target(w) \notin DOMAIN branches
          /\ branches' = With(branches, Target(w), Files(<<delivery[w].target, BaseBranch(w)>>))
      BY <1>1, <2>2
    <3>2. Target(w) = <<delivery[w].target, HeadBranch(w)>>
      BY DEF Target
    <3> QED BY <1>2, <1>3, <3>1, <3>2, CreationMove
  <2> QED BY <2>1, <2>2
<1>5. CASE Continue(w, "get")
  BY <1>2, <1>4, <1>5, MovesOn DEF Opening
<1>6. CASE outcome # "ok" /\ Fails(w, outcome)
  BY <1>4, <1>6, FailsSafely
<1> QED BY <1>1, <1>5, <1>6

LEMMA CreateRepoStep == ASSUME DeliveryInv, NEW w \in Deliverers, CreateRepository(w) PROVE SafeStep(w)
<1>1. PICK outcome \in Outcomes :
        /\ branches' = IF outcome # "refused" /\ ~Exists(delivery[w].target)
                       THEN With(branches, <<delivery[w].target, "main">>,
                                 [f \in {"README.md"} |-> Readme])
                       ELSE branches
        /\ IF outcome # "ok" THEN Fails(w, outcome)
           ELSE delivery' = [delivery EXCEPT ![w].at = "get",
                  ![w].target = IF Exists(@) THEN ExistingTarget(w) ELSE @]
  BY DEF CreateRepository
<1>2. /\ delivery[w].at = "create" /\ pulls' = pulls /\ DeliveryShape /\ AttemptInv(w)
  BY DEF CreateRepository, DeliveryInv
<1>3. delivery[w].target \in Names(w) /\ delivery[w].target # "" /\ ToGitHub(w) /\ PlacingInv(w)
  BY <1>2 DEF AttemptInv, Opening
<1>4. GitHubMove(w)
  <2>1. CASE branches' = branches
    BY <1>2, <2>1, UnchangedMove
  <2>2. CASE branches' # branches
    <3>1. /\ <<delivery[w].target, "main">> \notin DOMAIN branches
          /\ branches' = With(branches, <<delivery[w].target, "main">>, [f \in {"README.md"} |-> Readme])
      BY <1>1, <2>2 DEF Exists
    <3> QED BY <1>2, <1>3, <3>1, CreationMove
  <2> QED BY <2>1, <2>2
<1>5. CASE outcome # "ok"
  BY <1>1, <1>4, <1>5, FailsSafely
<1>6. CASE outcome = "ok"
  <2>1. /\ Alone(w) /\ SameOrder(w) /\ delivery'[w].at = "get" /\ delivery'[w].todo = delivery[w].todo
        /\ delivery'[w].target \in {delivery[w].target, ExistingTarget(w)}
    BY <1>1, <1>2, <1>6 DEF DeliveryShape, FieldNames, Alone, SameOrder
  <2>2. ExistingTarget(w) \in Names(w) /\ ExistingTarget(w) # ""
    BY <1>2, <1>3 DEF ExistingTarget, Given, AttemptInv, Names
  <2>3. Names(w)' = Names(w) /\ Requested(w)' = Requested(w) /\ ToGitHub(w)' = ToGitHub(w)
    BY <2>1, NamesAreFixed DEF SameOrder
  <2>4. PlacingInv(w)'
    <3>1. delivery[w].at \in Opening /\ delivery'[w].at \notin Opening
      BY <1>2, <2>1 DEF Opening
    <3> QED BY <1>3, <2>1, <3>1, PlacingMoves
  <2>5. AttemptInv(w)'
    BY <1>2, <1>3, <2>1, <2>2, <2>3, <2>4 DEF AttemptInv, SameOrder
  <2> QED BY <1>4, <2>1, <2>5 DEF SafeStep
<1> QED BY <1>5, <1>6

\* Looking a file up, and putting it.
LEMMA GetFileStep == ASSUME DeliveryInv, NEW w \in Deliverers, GetFile(w) PROVE SafeStep(w)
<1>1. /\ delivery[w].at = "get" /\ UNCHANGED <<branches, pulls>> /\ DeliveryShape /\ AttemptInv(w)
  BY DEF GetFile, UnchangedGitHub, DeliveryInv
<1>2. GitHubMove(w)
  BY <1>1, UnchangedMove
<1>3. CASE delivery[w].todo = {}
  <2>1. Continue(w, IF ActionKey(w) = "github-pr" THEN "pull" ELSE "delivered")
    BY <1>3 DEF GetFile
  <2>2. PICK next \in {"pull", "delivered"} : Continue(w, next)
    BY <2>1
  <2>3. delivery[w].at \in Opening \cup Filling /\ next \notin Opening
    BY <1>1 DEF Opening, Filling
  <2> QED BY <1>1, <1>2, <1>3, <2>2, <2>3, MovesOn
<1>4. CASE delivery[w].todo # {}
  <2>1. PICK outcome \in {"ok", "refused"} :
          delivery' = [delivery EXCEPT ![w].at = "put",
                         ![w].sha = KnownSha(Target(w), NextFile(w), outcome),
                         ![w].clean = @ /\ outcome = "ok"]
    BY <1>4 DEF GetFile
  <2>2. /\ Alone(w) /\ SameOrder(w) /\ delivery'[w].at = "put" /\ delivery'[w].todo = delivery[w].todo
        /\ delivery'[w].target = delivery[w].target
        /\ delivery'[w].sha = KnownSha(Target(w), NextFile(w), outcome)
        /\ delivery'[w].clean => outcome = "ok"
    BY <1>1, <2>1 DEF DeliveryShape, FieldNames, Alone, SameOrder
  <2>3. PlacingInv(w) /\ ToGitHub(w) /\ delivery[w].target # ""
    BY <1>1 DEF AttemptInv, Filling
  <2>4. PlacingInv(w)'
    <3>1. delivery'[w].at \notin Opening \cup {"pull", "delivered"}
      BY <2>2 DEF Opening
    <3> QED BY <1>1, <1>4, <2>2, <2>3, <3>1, PlacingMoves
  <2>5. /\ Names(w)' = Names(w) /\ Requested(w)' = Requested(w) /\ ToGitHub(w)' = ToGitHub(w)
        /\ HeadBranch(w)' = HeadBranch(w)
        /\ \A i : Turn(w, i)' = Turn(w, i) /\ FilePath(w, i)' = FilePath(w, i)
    BY <2>2, NamesAreFixed, ConfigIsFixed, FilesAreFixed DEF SameOrder
  <2>6. Target(w)' = Target(w) /\ NextOne(w)' = NextOne(w)
    BY <2>2, <2>5 DEF Target, NextOne
  <2>7. NextFile(w)' = NextFile(w)
    BY <2>5, <2>6 DEF NextFile
  <2>8. delivery'[w].clean => delivery'[w].sha = ContentAt(Target(w), NextFile(w))'
    BY <1>1, <2>2, <2>6, <2>7 DEF KnownSha, ContentAt, Files
  <2>9. AttemptInv(w)'
    BY <1>1, <2>2, <2>3, <2>4, <2>5, <2>8 DEF AttemptInv, SameOrder
  <2> QED BY <1>2, <2>2, <2>9 DEF SafeStep
<1> QED BY <1>3, <1>4

\* With the next artifact in its file, every other one is where it was, and what
\* it has replaced is the older.
LEMMA PlacingGoesOn ==
  ASSUME NEW w \in Deliverers, SameOrder(w), PlacingInv(w), delivery[w].todo # {},
         delivery[w].at = "put", delivery'[w].at = "get",
         delivery'[w].target = delivery[w].target,
         NEW i, i = NextOne(w), delivery'[w].todo = delivery[w].todo \ {i},
         ContentAt(Target(w), FilePath(w, i))' = <<w, i>>,
         \A f : f # FilePath(w, i) => ContentAt(Target(w), f)' = ContentAt(Target(w), f)
  PROVE  PlacingInv(w)'
<1>1. /\ \A k : SameFile(w, k)' = SameFile(w, k) /\ Newer(w, k)' = Newer(w, k)
      /\ \A k : FilePath(w, k)' = FilePath(w, k)
      /\ Committed(w)' = Committed(w) /\ Target(w)' = Target(w)
  BY FilesAreFixed, ConfigIsFixed DEF Target
<1>2. Committed(w) \subseteq DOMAIN Products[w] /\ delivery[w].todo \subseteq Committed(w)
  BY DEF Committed, PlacingInv
<1>3. i \in delivery[w].todo /\ \A j \in delivery[w].todo : Turn(w, i) <= Turn(w, j)
  BY <1>2, NextIsOne
<1>4. \A k \in DOMAIN Products[w] : k \in Int
  BY ProductNumbers
\* Only the i-th itself is to be followed by the i-th.
<1>5. ASSUME NEW k \in delivery[w].todo, i \in SameFile(w, k), Newer(w, i) = {}
      PROVE  k = i
  <2>1. k \in DOMAIN Products[w] /\ i \in DOMAIN Products[w] /\ SameFile(w, i) = SameFile(w, k)
    BY <1>2, <1>3, <1>5 DEF SameFile
  <2>2. k \in SameFile(w, i)
    BY <2>1 DEF SameFile
  <2>3. k <= i
    BY <1>4, <1>5, <2>1, <2>2 DEF Newer
  <2>4. CASE ActionKey(w) = "create-repo"
    BY <1>3, <1>4, <2>1, <2>3, <2>4 DEF Turn
  <2>5. CASE ActionKey(w) # "create-repo"
    <3>1. Newer(w, k) = {}
      BY <1>2, <2>5 DEF Committed
    <3>2. ~(i > k)
      BY <1>5, <3>1 DEF Newer
    <3> QED BY <1>4, <2>1, <2>3, <3>2
  <2> QED BY <2>4, <2>5
<1>6. ASSUME NEW k \in DOMAIN Products[w], Pending(w, k), ~(i \in SameFile(w, k) /\ Newer(w, i) = {})
      PROVE  Pending(w, k)'
  <2>1. PICK j \in delivery[w].todo \cap SameFile(w, k) : Newer(w, j) = {}
    BY <1>6 DEF Pending
  <2>2. j # i
    BY <1>6, <2>1
  <2> QED BY <1>1, <2>1, <2>2 DEF Pending
<1>7. \A k \in delivery'[w].todo : k \in Committed(w)' /\ Pending(w, k)'
  <2> TAKE k \in delivery'[w].todo
  <2>1. k \in delivery[w].todo /\ k # i /\ k \in Committed(w) /\ Pending(w, k) /\ k \in DOMAIN Products[w]
    BY <1>2 DEF PlacingInv
  <2> QED BY <1>1, <1>5, <1>6, <2>1
<1>8. \A k \in DOMAIN Products[w] : Pending(w, k)' \/ Placed(w, k)'
  <2> TAKE k \in DOMAIN Products[w]
  <2>1. CASE i \in SameFile(w, k) /\ Newer(w, i) = {}
    <3>1. FilePath(w, k) = FilePath(w, i)
      BY <2>1 DEF SameFile
    <3>2. ContentAt(Target(w), FilePath(w, k))' = <<w, i>>
      BY <1>1, <3>1
    <3>3. <<w, i>> # None /\ <<w, i>>[2] = i
      BY DEF None
    <3> QED BY <1>1, <2>1, <3>2, <3>3 DEF Placed
  <2>2. CASE ~(i \in SameFile(w, k) /\ Newer(w, i) = {}) /\ Pending(w, k)
    BY <1>6, <2>2
  <2>3. CASE ~(i \in SameFile(w, k) /\ Newer(w, i) = {}) /\ ~Pending(w, k)
    <3>1. Placed(w, k)
      BY <2>3 DEF PlacingInv
    <3>2. CASE FilePath(w, k) = FilePath(w, i)
      <4>1. SameFile(w, k) = SameFile(w, i) /\ i \in SameFile(w, k)
        BY <1>2, <1>3, <3>2 DEF SameFile
      <4>2. Pending(w, i)
        BY <1>3 DEF PlacingInv
      <4>3. Pending(w, k)
        BY <4>1, <4>2 DEF Pending
      <4> QED BY <2>3, <4>3
    <3>3. CASE FilePath(w, k) # FilePath(w, i)
      <4>1. ContentAt(Target(w), FilePath(w, k))' = ContentAt(Target(w), FilePath(w, k))
        BY <1>1, <3>3
      <4> QED BY <1>1, <3>1, <4>1 DEF Placed
    <3> QED BY <3>2, <3>3
  <2> QED BY <2>1, <2>2, <2>3
<1>9. delivery'[w].at \notin Opening
  BY DEF Opening
<1> QED BY <1>7, <1>8, <1>9 DEF PlacingInv

\* A file that has been put.
LEMMA PutDone ==
  ASSUME DeliveryInv, NEW w \in Deliverers, delivery[w].at = "put", pulls' = pulls,
         delivery[w].target \in Names(w), Target(w) \in DOMAIN branches,
         branches' = [branches EXCEPT ![Target(w)] = With(@, NextFile(w), <<w, NextOne(w)>>)],
         delivery' = [delivery EXCEPT ![w].at = "get", ![w].todo = @ \ {NextOne(w)}, ![w].sha = None]
  PROVE  SafeStep(w)
<1>1. PICK r, y, f, n : r = delivery[w].target /\ y = HeadBranch(w) /\ f = NextFile(w) /\ n = NextOne(w)
  OBVIOUS
<1>2. Target(w) = <<r, y>> /\ f = FilePath(w, n)
  BY <1>1 DEF Target, NextFile
<1>3. /\ GitHubMove(w) /\ ContentAt(<<r, y>>, f)' = <<w, n>>
      /\ \A b, other : <<b, other>> # <<<<r, y>>, f>> => ContentAt(b, other)' = ContentAt(b, other)
  <2>1. branches' = Overwritten(<<r, y>>, f, <<w, n>>)
    BY <1>1, <1>2 DEF Overwritten
  <2>2. <<r, y>> \in DOMAIN branches /\ r \in Names(w)
    BY <1>1, <1>2
  <2>3. GitHubMove(w) /\ OnlyChanged(<<r, y>>, f, <<w, n>>)
    BY <2>1, <2>2, PutMove
  <2> QED BY <2>3 DEF OnlyChanged
<1>4. DeliveryShape /\ AttemptInv(w)
  BY DEF DeliveryInv
<1>5. /\ Alone(w) /\ SameOrder(w) /\ delivery'[w].at = "get"
      /\ delivery'[w].target = delivery[w].target /\ delivery'[w].todo = delivery[w].todo \ {n}
  BY <1>1, <1>4 DEF DeliveryShape, FieldNames, Alone, SameOrder
<1>6. ToGitHub(w) /\ PlacingInv(w) /\ delivery[w].target # "" /\ delivery[w].todo # {}
  BY <1>4 DEF AttemptInv, Filling, PlacingInv
<1>7. /\ Target(w)' = <<r, y>> /\ FilePath(w, n)' = f
      /\ Names(w)' = Names(w) /\ Requested(w)' = Requested(w) /\ ToGitHub(w)' = ToGitHub(w)
  BY <1>1, <1>2, <1>5, NamesAreFixed, ConfigIsFixed DEF SameOrder, Target
<1>8. ContentAt(Target(w), FilePath(w, n))' = <<w, n>>
  BY <1>3, <1>7
<1>9. \A other : other # FilePath(w, n) => ContentAt(Target(w), other)' = ContentAt(Target(w), other)
  <2> TAKE other
  <2>1. ContentAt(Target(w), other)' = ContentAt(<<r, y>>, other)'
    BY <1>7
  <2> QED BY <1>2, <1>3, <2>1
<1>10. PlacingInv(w)'
  BY <1>1, <1>5, <1>6, <1>8, <1>9, PlacingGoesOn
<1>11. AttemptInv(w)'
  BY <1>4, <1>5, <1>6, <1>7, <1>10 DEF AttemptInv, SameOrder
<1> QED BY <1>3, <1>5, <1>11 DEF SafeStep

LEMMA PutFileStep == ASSUME DeliveryInv, NEW w \in Deliverers, PutFile(w) PROVE SafeStep(w)
<1> DEFINE file == NextFile(w)
           valid == Target(w) \in DOMAIN branches /\ ContentAt(Target(w), file) = delivery[w].sha
<1>1. PICK outcome \in Outcomes :
        /\ branches' = IF valid /\ outcome # "refused"
                       THEN [branches EXCEPT ![Target(w)] = With(@, file, <<w, NextOne(w)>>)]
                       ELSE branches
        /\ IF valid /\ outcome = "ok"
           THEN delivery' = [delivery EXCEPT ![w].at = "get", ![w].todo = @ \ {NextOne(w)},
                                             ![w].sha = None]
           ELSE Fails(w, outcome)
  BY DEF PutFile
<1>2. /\ delivery[w].at = "put" /\ pulls' = pulls /\ DeliveryShape /\ AttemptInv(w)
  BY DEF PutFile, DeliveryInv
<1>3. delivery[w].target \in Names(w) /\ delivery[w].target # "" /\ ToGitHub(w) /\ PlacingInv(w)
  BY <1>2 DEF AttemptInv, Filling
<1>4. Target(w) = <<delivery[w].target, HeadBranch(w)>>
  BY DEF Target
<1>5. CASE branches' = branches
  <2>1. GitHubMove(w)
    BY <1>2, <1>5, UnchangedMove
  <2>2. CASE Fails(w, outcome) /\ ~(valid /\ outcome = "ok")
    <3>1. ASSUME outcome = "ok", delivery[w].clean PROVE Explained(w)'
      <4>1. ~valid
        BY <2>2, <3>1
      <4>2. Target(w) \notin DOMAIN branches \/ Shared(w)
        BY <1>2, <3>1, <4>1 DEF AttemptInv
      <4> QED BY <1>2, <1>5, <2>2, <4>2, ReasonsCarryOver DEF Explained
    <3> QED BY <2>1, <2>2, <3>1, FailsSafely
  <2>3. CASE valid /\ outcome = "ok"
    \* Putting what is there already changes nothing else either.
    <3>1. branches' = [branches EXCEPT ![Target(w)] = With(@, file, <<w, NextOne(w)>>)]
      BY <1>1, <2>3
    <3> QED BY <1>1, <1>2, <1>3, <1>4, <2>3, <3>1, PutDone
  <2> QED BY <1>1, <2>2, <2>3
<1>6. CASE branches' # branches
  <2>1. valid /\ outcome # "refused"
        /\ branches' = [branches EXCEPT ![Target(w)] = With(@, file, <<w, NextOne(w)>>)]
    BY <1>1, <1>6
  <2>2. CASE outcome = "ok"
    BY <1>1, <1>2, <1>3, <1>4, <2>1, <2>2, PutDone
  <2>3. CASE outcome # "ok"
    <3>1. PICK r, y, f, n : r = delivery[w].target /\ y = HeadBranch(w) /\ f = file /\ n = NextOne(w)
      OBVIOUS
    <3>2. branches' = Overwritten(<<r, y>>, f, <<w, n>>)
      BY <1>4, <2>1, <3>1 DEF Overwritten
    <3>3. GitHubMove(w)
      BY <1>2, <1>3, <1>4, <2>1, <3>1, <3>2, PutMove
    <3>4. Fails(w, outcome)
      BY <1>1, <2>3
    <3> QED BY <2>3, <3>3, <3>4, FailsSafely
  <2> QED BY <2>2, <2>3
<1> QED BY <1>5, <1>6

LEMMA OpenPullStep == ASSUME DeliveryInv, NEW w \in Deliverers, OpenPull(w) PROVE SafeStep(w)
<1> DEFINE pull == <<delivery[w].target, HeadBranch(w), BaseBranch(w)>>
<1>1. PICK outcome \in Outcomes :
        /\ pulls' = IF outcome # "refused" THEN pulls \cup {pull} ELSE pulls
        /\ IF outcome = "ok" /\ pull \notin pulls
           THEN Continue(w, "delivered") ELSE Fails(w, outcome)
  BY DEF OpenPull
<1>2. /\ delivery[w].at = "pull" /\ branches' = branches /\ DeliveryShape /\ AttemptInv(w)
  BY DEF OpenPull, DeliveryInv
<1>3. GitHubMove(w)
  <2>1. pulls \subseteq pulls'
    BY <1>1
  <2> QED BY <1>2, <2>1 DEF GitHubMove, ContentAt, Files
<1>4. CASE Continue(w, "delivered")
  <2>1. delivery[w].todo = {}
    BY <1>2 DEF AttemptInv, Filling, PlacingInv
  <2> QED BY <1>2, <1>3, <1>4, <2>1, MovesOn DEF Filling, Opening
<1>5. CASE Fails(w, outcome) /\ (outcome = "ok" => pull \in pulls)
  <2>1. outcome = "ok" => Explained(w)'
    <3>1. ASSUME outcome = "ok" PROVE Explained(w)'
      <4>1. pull \in pulls'
        BY <1>1, <1>5, <3>1
      <4> QED BY <1>2, <1>5, <4>1, ReasonsCarryOver DEF Explained
    <3> QED BY <3>1
  <2> QED BY <1>3, <1>5, <2>1, FailsSafely
<1> QED BY <1>1, <1>4, <1>5

LEMMA WebhookStep == ASSUME DeliveryInv, NEW w \in Deliverers, PostWebhook(w) PROVE SafeStep(w)
<1>1. /\ delivery[w].at = "post" /\ UNCHANGED <<branches, pulls>> /\ DeliveryShape /\ AttemptInv(w)
      /\ ~ToGitHub(w)
  BY DEF PostWebhook, DeliveryInv, AttemptInv
<1>2. GitHubMove(w)
  BY <1>1, UnchangedMove
<1>3. PICK outcome \in Outcomes : Continue(w, "delivered") \/ Fails(w, outcome)
  BY DEF PostWebhook
<1>4. CASE Continue(w, "delivered")
  <2>1. Alone(w) /\ SameOrder(w) /\ delivery'[w].at = "delivered" /\ delivery'[w].target = delivery[w].target
    BY <1>1, <1>4, ContinueMove
  <2>2. Names(w)' = Names(w) /\ Requested(w)' = Requested(w) /\ ToGitHub(w)' = ToGitHub(w)
    BY <2>1, NamesAreFixed DEF SameOrder
  <2>3. AttemptInv(w)'
    BY <1>1, <2>1, <2>2 DEF AttemptInv, SameOrder, Opening, Filling
  <2> QED BY <1>2, <2>1, <2>3 DEF SafeStep
<1>5. CASE Fails(w, outcome)
  BY <1>1, <1>2, <1>5, FailsSafely
<1> QED BY <1>3, <1>4, <1>5

\* A run that is cut off starts the attempt again as a whole; a retry passes it over.
LEMMA AgainStep ==
  ASSUME DeliveryInv, NEW w \in Deliverers, RetryDelivery(w) \/ DeliveryCutOff(w)
  PROVE  SafeStep(w)
<1>1. PICK next \in {"waiting", "undelivered"} : Continue(w, next)
  BY DEF RetryDelivery, DeliveryCutOff
<1>2. UNCHANGED <<branches, pulls>> /\ DeliveryShape /\ AttemptInv(w)
  BY DEF RetryDelivery, DeliveryCutOff, UnchangedGitHub, DeliveryInv
<1>3. Alone(w) /\ SameOrder(w) /\ delivery'[w].at = next /\ delivery'[w].target = delivery[w].target
  BY <1>1, <1>2, ContinueMove
<1>4. Names(w)' = Names(w) /\ Requested(w)' = Requested(w) /\ ToGitHub(w)' = ToGitHub(w)
  BY <1>3, NamesAreFixed DEF SameOrder
<1>5. AttemptInv(w)'
  BY <1>2, <1>3, <1>4 DEF AttemptInv, SameOrder, Opening, Filling
<1> QED BY <1>2, <1>3, <1>5, UnchangedMove DEF SafeStep

LEMMA DeliveryStepSafe == ASSUME DeliveryInv, NEW w \in Deliverers, DeliveryStep(w) PROVE SafeStep(w)
BY EnsureStep, StartStep, GetBaseStep, CreateBranchStep, CreateRepoStep, GetFileStep, PutFileStep,
   OpenPullStep, WebhookStep, AgainStep DEF DeliveryStep

LEMMA DeliveryKeepsInv == DeliveryInv /\ [DeliveryNext]_deliveryVars => DeliveryInv'
<1>1. ASSUME DeliveryInv, NEW w \in Deliverers, DeliveryStep(w) PROVE DeliveryInv'
  <2>1. Alone(w) /\ GitHubMove(w) /\ AttemptInv(w)'
    BY <1>1, DeliveryStepSafe DEF SafeStep
  <2>2. DeliveryShape'
    BY <1>1, <2>1 DEF DeliveryInv, DeliveryShape, Alone
  <2>3. \A y : <<"", y>> \notin DOMAIN branches'
    BY <1>1, <2>1 DEF DeliveryInv, GitHubMove
  <2>4. ASSUME NEW v \in Deliverers \ {w} PROVE AttemptInv(v)'
    BY <1>1, <2>1, OthersKeepInv DEF DeliveryInv
  <2> QED BY <2>1, <2>2, <2>3, <2>4 DEF DeliveryInv
<1>2. ASSUME DeliveryInv, UNCHANGED deliveryVars PROVE DeliveryInv'
  <2>1. UNCHANGED <<delivery, branches, pulls>>
    BY <1>2 DEF deliveryVars
  <2>2. DeliveryShape'
    BY <1>2, <2>1 DEF DeliveryInv, DeliveryShape
  <2>3. ASSUME NEW w \in Deliverers PROVE AttemptInv(w)'
    <3>1. AttemptInv(w) /\ SameOrder(w)
      BY <1>2, <2>1 DEF DeliveryInv, SameOrder
    <3>2. /\ Names(w)' = Names(w) /\ Requested(w)' = Requested(w) /\ ToGitHub(w)' = ToGitHub(w)
          /\ HasToken(w)' = HasToken(w) /\ HeadBranch(w)' = HeadBranch(w) /\ BaseBranch(w)' = BaseBranch(w)
          /\ \A i : Turn(w, i)' = Turn(w, i) /\ FilePath(w, i)' = FilePath(w, i)
      BY <3>1, NamesAreFixed, ConfigIsFixed, FilesAreFixed DEF SameOrder
    <3>3. PlacingInv(w) => PlacingInv(w)'
      <4>1. ASSUME PlacingInv(w) PROVE PlacingInv(w)'
        <5>1. /\ delivery'[w].at = "put" => delivery[w].todo # {}
              /\ delivery'[w].at \in {"pull", "delivered"} => delivery[w].todo = {}
          BY <2>1, <4>1 DEF PlacingInv
        <5> QED BY <2>1, <3>1, <4>1, <5>1, PlacingMoves
      <4> QED BY <4>1
    <3>4. Target(w)' = Target(w) /\ NextOne(w)' = NextOne(w)
      BY <2>1, <3>2 DEF Target, NextOne
    <3>5. NextFile(w)' = NextFile(w)
      BY <3>2, <3>4 DEF NextFile
    <3>6. ContentAt(Target(w), NextFile(w))' = ContentAt(Target(w), NextFile(w))
      BY <2>1, <3>4, <3>5 DEF ContentAt, Files
    <3>7. Shared(w)' <=> Shared(w)
      BY <2>1, SharedStays
    <3>8. Explained(w)' <=> Explained(w)
      BY <2>1, <3>2, <3>4, <3>7 DEF Explained
    <3> QED BY <2>1, <3>1, <3>2, <3>3, <3>6, <3>7, <3>8 DEF AttemptInv
  <2> QED BY <1>2, <2>1, <2>2, <2>3 DEF DeliveryInv
<1> QED BY <1>1, <1>2 DEF DeliveryNext

LEMMA DeliveryInvariant == DeliverySpec => []DeliveryInv
BY DeliveryStarts, DeliveryKeepsInv, PTL DEF DeliverySpec

\* For any number of workflows and artifacts, however requests fail, are lost or
\* are run again and whatever the workflows do to each other's branches: a delivery
\* that says it succeeded has put every artifact in its file, on the branch and in
\* the directory of the hydrated configuration and in a repository the order names.
THEOREM DeliveriesAreWhole == DeliverySpec => []DeliveredWhole
<1>1. DeliveryInv => DeliveredWhole
  <2> SUFFICES ASSUME DeliveryInv, NEW w \in Deliverers, delivery[w].at = "delivered", ToGitHub(w)
               PROVE  /\ delivery[w].target \in Names(w) \ {""}
                      /\ \A i \in DOMAIN Products[w] : Placed(w, i)
    BY DEF DeliveredWhole
  <2>1. PlacingInv(w) /\ delivery[w].todo = {}
    BY DEF DeliveryInv, AttemptInv, PlacingInv
  <2>2. \A i \in DOMAIN Products[w] : Placed(w, i)
    BY <2>1 DEF PlacingInv, Pending
  <2>3. delivery[w].target \in Names(w) \ {""}
    BY DEF DeliveryInv, AttemptInv
  <2> QED BY <2>2, <2>3
<1> QED BY <1>1, DeliveryInvariant, PTL

\* And one that met no fault of its own fails only for a reason that GitHub or
\* another workflow still shows.
THEOREM FailuresAreExplained == DeliverySpec => []FailureExplained
<1>1. DeliveryInv => FailureExplained
  BY DEF DeliveryInv, AttemptInv, FailureExplained, Explained, Shared
<1> QED BY <1>1, DeliveryInvariant, PTL
=============================================================================
