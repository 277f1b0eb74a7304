----------------------------- MODULE PersonaCall -----------------------------
(***************************************************************************)
(* One call of a persona to its model: Executor.Run with its tool-call loop, *)
(* its structured call and its slim retry (persona/base/executor.go), what   *)
(* each provider's Chat puts on the wire (provider/), the tool registry it    *)
(* dispatches to (tools/tools.go), and the persona that parses the answer.   *)
(*                                                                          *)
(* A message is a record; its text is the set of parts that matter.  The     *)
(* wire is what the last request carried when it left the process.           *)
(***************************************************************************)
EXTENDS ModelOutput, FiniteSets

CONSTANTS
  ModelTools,    (* registered tools                                       *)
  Providers,     (* registered providers                                   *)
  MaxToolRounds, (* maxToolRounds                                          *)
  CallsPerTurn,  (* bound: tool calls of one answer                        *)
  Answers        (* [text, whole, early]: what a model may answer, the      *)
                 (* artifact it was writing, and whether it hit its limit   *)

ASSUME PersonaCallAssumption ==
  /\ Providers \subseteq {"openai", "sglang", "anthropic", "ollama", "copilot"}
  /\ MaxToolRounds \in Nat \ {0}
  /\ CallsPerTurn \in Nat \ {0}

(* What a model writes when nothing cuts it off: its artifact as the last of  *)
(* the outermost objects of its answer, bare, fenced or between other pieces; *)
(* or prose alone.                                                            *)

Depth(s, i, j) ==
  Cardinality({k \in i..j : s[k] = OpenBrace}) - Cardinality({k \in i..j : s[k] = CloseBrace})
ObjectAt(s, i, j) ==
  /\ s[i] = OpenBrace /\ i <= j
  /\ Depth(s, i, j) = 0 /\ \A k \in i..(j - 1) : Depth(s, i, k) # 0
  /\ \A k \in i..j : s[k] # "u"
Carries(s, w) ==
  \E i, j \in DOMAIN s :
    /\ ObjectAt(s, i, j) /\ SubSeq(s, i, j) = w
    /\ \A k, l \in DOMAIN s : ObjectAt(s, k, l) => l < i \/ k \in i..j
WellWritten(text, w) ==
  \/ ToSet(text) \subseteq {"p"}
  \/ text[1] \notin Fence /\ Carries(text, w)
  \/ /\ Len(text) > 1 /\ text[1] \in Fence /\ text[Len(text)] \in Fence
     /\ Carries(SubSeq(text, 2, Len(text) - 1), w)

ASSUME AnswersAssumption ==
  /\ Answers \subseteq [text : Seq(Pieces), whole : Seq(Pieces), early : BOOLEAN]
  /\ \A a \in Answers : ~a.early => WellWritten(a.text, a.whole) /\ Unmarshal(a.whole) = "ok"

VARIABLES
  setup,         (* [provider, tools] of the packet; of its model, whether *)
                 (* it is a qwen3 and whether its catalog denies it tools  *)
  runAt,         (* where Executor.Run is                                  *)
  convo,         (* msgs                                                   *)
  rounds,        (* answers with tool calls so far                         *)
  pendingCalls,  (* calls of the last answer that are not dispatched       *)
  wire,          (* [msgs, tools, json]                                    *)
  answer,        (* the answer that is looked at                           *)
  decoded        (* what the persona made of the answer that was returned  *)

callVars == <<setup, runAt, convo, rounds, pendingCalls, wire, answer, decoded>>

NoAnswer == [text |-> <<>>, whole |-> <<>>, early |-> FALSE]
NoId == <<>>
Message(role, text) == [role |-> role, text |-> text, calls |-> <<>>, id |-> NoId]

-----------------------------------------------------------------------------
(* The providers: what they say they can do, and what Chat sends.            *)

OpenAICapabilities == {"chat", "streaming", "tool-calling", "embeddings", "model-list"}
AnthropicCapabilities == {"chat", "streaming", "tool-calling", "model-list"}
OllamaCapabilities == {"chat", "streaming", "tool-calling", "model-list"}
CopilotCapabilities == {"chat", "streaming", "agent-runtime", "skills", "handoffs", "model-list"}
Capabilities(p) ==
  CASE p \in {"openai", "sglang"} -> OpenAICapabilities
    [] p = "anthropic" -> AnthropicCapabilities
    [] p = "ollama" -> OllamaCapabilities
    [] p = "copilot" -> CopilotCapabilities

\* A response format only goes with a request that offers no tools.
OpenAIChat(req) == [req EXCEPT !.json = @ /\ req.tools = {}]
OpenAIRefuses(req) == \E i \in DOMAIN req.msgs : req.msgs[i].role = "tool" /\ req.msgs[i].id = NoId

\* Tools, tool calls and tool results are not sent.
AnthropicChat(req) ==
  LET kept == SelectSeq(req.msgs, LAMBDA m : m.role # "tool")
  IN [msgs |-> [i \in DOMAIN kept |-> Message(kept[i].role, kept[i].text)],
      tools |-> {}, json |-> req.json]

\* A call without an ID gets a fresh one; the result of the call does not.
convertToOllamaMessages(msgs) ==
  [i \in DOMAIN msgs |->
     [msgs[i] EXCEPT !.calls =
        [k \in DOMAIN @ |-> IF @[k].id = NoId THEN [@[k] EXCEPT !.id = <<i, k>>] ELSE @[k]]]]
OllamaChat(req) ==
  [msgs |-> convertToOllamaMessages(req.msgs), tools |-> req.tools,
   json |-> req.json /\ req.tools = {}]

\* The system messages joined, and the last user message of the conversation.
lastUserMessage(msgs) ==
  LET users == {i \in DOMAIN msgs : msgs[i].role = "user"}
  IN IF users = {} THEN {} ELSE msgs[CHOOSE i \in users : \A j \in users : j <= i].text
buildSystemMessage(msgs) ==
  LET systems == {i \in DOMAIN msgs : msgs[i].role = "system"}
  IN IF systems = {} THEN <<>>
     ELSE <<Message("system", UNION {msgs[i].text : i \in systems})>>
CopilotChat(req) ==
  [msgs |-> buildSystemMessage(req.msgs) \o <<Message("user", lastUserMessage(req.msgs))>>,
   tools |-> {}, json |-> FALSE]

Chat(p, req) ==
  CASE p \in {"openai", "sglang"} -> OpenAIChat(req)
    [] p = "anthropic" -> AnthropicChat(req)
    [] p = "ollama" -> OllamaChat(req)
    [] p = "copilot" -> CopilotChat(req)

\* ChatResponse.Truncated: the finish reason, which Copilot does not tell.
Truncated(p, a) == IF p = "copilot" THEN a.text = <<>> ELSE a.early

-----------------------------------------------------------------------------
(* Executor.Run.                                                             *)

NativeToolCallingUnstable == setup.unstable
modelCatalogSupportsTools == ~setup.noTools
shouldRunNativeToolLoop ==
  /\ setup.tools # {}
  /\ "tool-calling" \in Capabilities(setup.provider)
  /\ ~(setup.provider = "ollama" /\ NativeToolCallingUnstable)
  /\ modelCatalogSupportsTools

buildSystemContent(includeTools) ==
  {"persona", "overlays"} \cup (IF includeTools /\ setup.tools # {} THEN {"tools"} ELSE {})

CallInit ==
  /\ setup \in [provider : Providers \cup {"unregistered"}, unstable : BOOLEAN,
                noTools : BOOLEAN, tools : {{}, ModelTools}]
  /\ setup.unstable => setup.provider = "ollama"
  /\ runAt = "start"
  /\ convo = <<>>
  /\ rounds = 0
  /\ pendingCalls = <<>>
  /\ wire = [msgs |-> <<>>, tools |-> {}, json |-> FALSE]
  /\ answer = NoAnswer
  /\ decoded = <<>>

RunStarts ==
  /\ runAt = "start"
  /\ convo' = <<Message("system", buildSystemContent(TRUE)), Message("user", {"task"})>>
  /\ runAt' = IF setup.provider = "unregistered" THEN "failed"
              ELSE IF shouldRunNativeToolLoop THEN "loop" ELSE "structured"
  /\ UNCHANGED <<setup, rounds, pendingCalls, wire, answer, decoded>>

Refuses(req) == setup.provider \in {"openai", "sglang"} /\ OpenAIRefuses(req)

ToolRequest == [msgs |-> convo, tools |-> setup.tools, json |-> FALSE]
LoopEnds == rounds = MaxToolRounds

\* The model asks for tools; its IDs may be missing, its names unknown.
ToolRound ==
  /\ runAt = "loop" /\ ~LoopEnds /\ ~Refuses(ToolRequest)
  /\ wire' = Chat(setup.provider, ToolRequest)
  /\ wire'.tools # {}
  /\ \E n \in 1..CallsPerTurn, given \in BOOLEAN :
       \E names \in [1..n -> ModelTools \cup {"unknown"}] :
         pendingCalls' = [k \in 1..n |-> [id |-> IF given THEN <<rounds, k>> ELSE NoId,
                                          name |-> names[k]]]
  /\ convo' = Append(convo, [Message("assistant", {}) EXCEPT !.calls = pendingCalls'])
  /\ runAt' = "dispatch"
  /\ UNCHANGED <<setup, rounds, answer, decoded>>

\* It asks for none, or Ollama fails in a way that is survived.
ToolLoopEnds ==
  /\ runAt = "loop"
  /\ \/ LoopEnds /\ UNCHANGED wire
     \/ ~LoopEnds /\ ~Refuses(ToolRequest) /\ wire' = Chat(setup.provider, ToolRequest)
  /\ runAt' = "structured"
  /\ UNCHANGED <<setup, convo, rounds, pendingCalls, answer, decoded>>

\* The provider refuses to send, or the call fails: with Ollama, in any way but
\* those that IsRecoverableToolCallError knows.
ToolRoundFails ==
  /\ runAt = "loop" /\ ~LoopEnds
  /\ runAt' = "failed"
  /\ UNCHANGED <<setup, convo, rounds, pendingCalls, wire, answer, decoded>>

ToolMessage(call, text) == [Message("tool", text) EXCEPT !.id = call.id]

\* Mutant of ToolTurn: a tool that failed adds nothing.
FailuresDropped(call, text) == IF text = {"error"} THEN <<>> ELSE <<ToolMessage(call, text)>>
ToolTurn(call, text) == <<ToolMessage(call, text)>>

\* Registry.Call: an unknown name and a failed tool are results as well.
RegistryCall(call) ==
  IF call.name \in setup.tools THEN {{"output"}, {"error"}} ELSE {{"error"}}

DispatchTool ==
  /\ runAt = "dispatch" /\ pendingCalls # <<>>
  /\ \E text \in RegistryCall(Head(pendingCalls)) :
       convo' = convo \o ToolTurn(Head(pendingCalls), text)
  /\ pendingCalls' = Tail(pendingCalls)
  /\ UNCHANGED <<setup, runAt, rounds, wire, answer, decoded>>

RoundEnds ==
  /\ runAt = "dispatch" /\ pendingCalls = <<>>
  /\ rounds' = rounds + 1
  /\ runAt' = "loop"
  /\ UNCHANGED <<setup, convo, pendingCalls, wire, answer, decoded>>

StructuredSystem == buildSystemContent(FALSE) \cup {"api"}

\* jsonConstraint goes to the last user message.
Constrained(msgs) ==
  LET users == {i \in DOMAIN msgs : msgs[i].role = "user"}
      last == CHOOSE i \in users : \A j \in users : j <= i
  IN [msgs EXCEPT ![last].text = @ \cup {"constraint"}]

StructuredRequest(msgs) ==
  [msgs |-> Constrained([i \in DOMAIN msgs |->
              IF msgs[i].role = "system" THEN Message("system", StructuredSystem) ELSE msgs[i]]),
   tools |-> {}, json |-> TRUE]

SlimMessages == <<Message("system", {}), Message("user", {"task"})>>

Unusable(a) == Truncated(setup.provider, a) \/ a.text = <<>> \/ isPreamble(a.text)

StructuredCall ==
  /\ runAt = "structured" /\ ~Refuses(StructuredRequest(convo))
  /\ wire' = Chat(setup.provider, StructuredRequest(convo))
  /\ answer' \in Answers
  /\ runAt' = IF Unusable(answer') THEN "slim" ELSE "returned"
  /\ UNCHANGED <<setup, convo, rounds, pendingCalls, decoded>>

SlimRetry ==
  /\ runAt = "slim"
  /\ wire' = Chat(setup.provider, StructuredRequest(SlimMessages))
  /\ answer' \in Answers
  /\ runAt' = IF Unusable(answer') THEN "failed" ELSE "returned"
  /\ UNCHANGED <<setup, convo, rounds, pendingCalls, decoded>>

StructuredCallFails ==
  /\ runAt \in {"structured", "slim"}
  /\ runAt' = "failed"
  /\ UNCHANGED <<setup, convo, rounds, pendingCalls, wire, answer, decoded>>

\* The persona fills its output from the answer, or fails.
PersonaParses ==
  /\ runAt = "returned"
  /\ decoded' = ParseJSON(answer.text).value
  /\ runAt' = IF ParseJSON(answer.text).err = "none" THEN "parsed" ELSE "failed"
  /\ UNCHANGED <<setup, convo, rounds, pendingCalls, wire, answer>>

CallNext ==
  \/ RunStarts
  \/ ToolRound \/ ToolLoopEnds \/ ToolRoundFails \/ DispatchTool \/ RoundEnds
  \/ StructuredCall \/ SlimRetry \/ StructuredCallFails
  \/ PersonaParses

CallTypeOK ==
  /\ setup.provider \in Providers \cup {"unregistered"}
  /\ runAt \in {"start", "loop", "dispatch", "structured", "slim", "returned", "parsed", "failed"}
  /\ rounds \in 0..MaxToolRounds
  /\ Len(pendingCalls) <= CallsPerTurn
  /\ answer \in Answers \cup {NoAnswer}

CallSpec == CallInit /\ [][CallNext]_callVars

(* What a persona makes of the answer it accepted is the whole artifact the  *)
(* model was writing: never a tool call written out before it, a fragment    *)
(* nested in it, or one that was cut off and repaired.  Copilot is left out: *)
(* its provider does not say that an answer was cut (executor.go ParseJSON,  *)
(* lastJSONObject, repairTruncatedJSON).                                     *)
AnswerWhole == runAt = "parsed" /\ setup.provider # "copilot" => decoded = answer.whole

(* Every tool call on the wire is followed by its result, in order, also     *)
(* those that failed, that name an unknown tool or whose IDs are missing; so *)
(* a structured call after tool rounds is one that a provider accepts        *)
(* (executor.go Run, tools.go Call, the converters of the providers).        *)
ToolTurnsPaired ==
  \A i \in DOMAIN wire.msgs : \A k \in DOMAIN wire.msgs[i].calls :
    /\ i + k \in DOMAIN wire.msgs
    /\ wire.msgs[i + k].role = "tool"
    /\ wire.msgs[i + k].id \in {wire.msgs[i].calls[k].id, NoId}
=============================================================================
