-------------------------- MODULE ProviderAdapters --------------------------
(***************************************************************************)
(* The vendor adapters behind LLMClient (agents/llm_providers.py,          *)
(* llm_gemini.py, llm_watsonx.py) over one tool loop: the request built    *)
(* from the alias's settings, the vendor's answer read into the common     *)
(* response, and the tool round appended to the history in the vendor's    *)
(* own shape, which the next request sends back.                           *)
(*                                                                         *)
(* An answer is a sequence of blocks [kind, v].  A call's v is [id, name,  *)
(* args, sig]; args tells apart an object, JSON that is no object, and     *)
(* text that is no JSON.  Token counts are the vendor's true ones; each    *)
(* vendor reports them in its own way, as a whole, without the cache's     *)
(* part, as nulls, or not at all.                                          *)
(***************************************************************************)
EXTENDS Integers, FiniteSets, SequencesExt

CONSTANTS
    VendorNames,    \* "anthropic", "openai", "compatible", "gemini", "watsonx"
    AliasConfigs,   \* provider_config: [thinking, effort, cache, level, budget]
    VendorAnswers,  \* what a vendor may answer: [blocks, stop, tokens, report]
    MaxToolRounds,  \* bound: tool rounds of a loop
    Absent          \* a key that is not set

VARIABLES
    vendor, family,  \* the adapter, and the family of the model called
    built,      \* the provider_config the adapter was built with
    lane,       \* the calling alias's, or Absent when the call names none
    cachePrefix,  \* whether the call carries a cache prefix
    history,    \* the messages: [role, parts]
    sentReq,    \* the last request
    given,   \* the answers of the rounds so far, as the vendor gave them
    response,   \* the last one, normalised
    adapterAt
adapterVars == <<vendor, family, built, lane, cachePrefix, history, sentReq, given, response, adapterAt>>

-----------------------------------------------------------------------------
(* Requests.  The calling alias's settings replace the adapter's own, whole. *)
CallSettings == IF lane = Absent THEN built ELSE lane
TakesTemperature(families) == family \in families
Thinks(s) == s.thinking \notin {Absent, "disabled"}

AnthropicRequest(s) ==
    [temperature |-> TakesTemperature(IF Thinks(s) THEN {} ELSE {"sampling"}),
     thinking |-> {s.thinking} \ {Absent}, effort |-> s.effort, limit |-> "max_tokens",
     marked |-> (IF cachePrefix THEN {"prefix"} ELSE {})
                \cup (IF s.cache THEN {"system", "tools", "request"} ELSE {})]
OpenAIRequest(s) ==
    LET ours == vendor = "openai" IN
    [temperature |-> ~ours \/ s.effort = "none" \/ TakesTemperature({"sampling"}),
     thinking |-> {}, effort |-> s.effort, limit |-> IF ours THEN "max_completion_tokens" ELSE "max_tokens", marked |-> {}]
(* A level and a budget together are rejected: the level wins. *)
GeminiRequest(s) ==
    [temperature |-> TakesTemperature({"sampling"}),
     thinking |-> IF s.level # Absent THEN {"level"} ELSE IF s.budget # Absent THEN {"budget"} ELSE {},
     effort |-> Absent, limit |-> "max_output_tokens", marked |-> {}]
WatsonxRequest ==
    [temperature |-> TRUE, thinking |-> {}, effort |-> Absent, limit |-> "max_tokens", marked |-> {}]

(* The roles the other adapters use are mapped to Gemini's two; parts are passed through. *)
ToContents(messages) ==
    [i \in DOMAIN messages |-> [messages[i] EXCEPT !.role = IF @ \in {"assistant", "model"} THEN "model" ELSE "user"]]
VendorRequest ==
    CASE vendor = "anthropic" -> AnthropicRequest(CallSettings)
      [] vendor \in {"openai", "compatible"} -> OpenAIRequest(CallSettings)
      [] vendor = "gemini" -> GeminiRequest(CallSettings)
      [] vendor = "watsonx" -> WatsonxRequest
Messages == IF vendor = "gemini" THEN ToContents(history) ELSE history

-----------------------------------------------------------------------------
(* Answers. *)
OfKind(blocks, kinds) == SelectSeq(blocks, LAMBDA b : b.kind \in kinds)
(* A block of a kind no tool round replays has no request form. *)
ContentParam(blocks) == OfKind(blocks, {"thinking", "text", "call"})
Texts(blocks) == [i \in DOMAIN OfKind(blocks, {"text"}) |-> OfKind(blocks, {"text"})[i].v]

StopOf(stop) == IF stop \in {"tool_use", "max_tokens"} THEN stop ELSE "end_turn"
ToolsFirst(calls, stop) == IF calls # <<>> THEN "tool_use" ELSE StopOf(stop)

(* JSON that cannot be read becomes an empty object; watsonx also turns away JSON that is none. *)
OpenAIArguments(args) == IF args = "garbled" THEN "empty" ELSE args
ParseArguments(args) == IF args = "object" THEN args ELSE "empty"
(* A call without an id goes by its name. *)
NamedCall(b) == [b EXCEPT !.v.id = IF @ = Absent THEN b.v.name ELSE @]
ReadCalls(blocks) ==
    LET calls == OfKind(blocks, {"call"}) IN
    [i \in DOMAIN calls |->
        CASE vendor = "anthropic" -> [calls[i] EXCEPT !.v.sig = Absent]
          [] vendor \in {"openai", "compatible"} -> [calls[i] EXCEPT !.v.sig = Absent, !.v.args = OpenAIArguments(@)]
          [] vendor = "gemini" -> NamedCall(calls[i])
          [] vendor = "watsonx" -> NamedCall([calls[i] EXCEPT !.v.sig = Absent, !.v.args = ParseArguments(@)])]

(* What the vendor reports of its true counts (external), and the Usage read from it.  Anthropic *)
(* counts the cache apart, the others inside the prompt; Gemini counts thoughts apart.           *)
WholeReport(t) ==
    CASE vendor = "anthropic" -> [prompt |-> t.fresh, written |-> t.written, read |-> t.read, out |-> t.visible + t.thought, thought |-> 0]
      [] vendor = "gemini" -> [prompt |-> t.fresh + t.written + t.read, written |-> 0, read |-> t.read, out |-> t.visible, thought |-> t.thought]
      [] OTHER -> [prompt |-> t.fresh + t.written + t.read, written |-> t.written, read |-> t.read, out |-> t.visible + t.thought, thought |-> 0]
Reported(a) ==
    CASE a.report = "whole" -> WholeReport(a.tokens)
      [] a.report = "undetailed" -> [WholeReport(a.tokens) EXCEPT !.written = Absent, !.read = Absent]
      [] a.report = "nulls" -> [prompt |-> Absent, written |-> Absent, read |-> Absent, out |-> Absent, thought |-> Absent]
      [] a.report = "none" -> Absent
AtLeastZero(n) == IF n < 0 THEN 0 ELSE n
(* A count that is missing or null reads as zero, and so does a usage that is missing. *)
Count(n) == IF n = Absent THEN 0 ELSE n
NoUsage == [input |-> 0, output |-> 0, written |-> 0, read |-> 0]
AnthropicUsage(r) == [input |-> r.prompt, output |-> r.out, written |-> Count(r.written), read |-> Count(r.read)]
OpenAIUsage(r) ==
    IF r = Absent THEN NoUsage
    ELSE [input |-> AtLeastZero(Count(r.prompt) - Count(r.read) - Count(r.written)), output |-> Count(r.out),
          written |-> Count(r.written), read |-> Count(r.read)]
GeminiUsage(r) ==
    IF r = Absent THEN NoUsage
    ELSE [input |-> AtLeastZero(Count(r.prompt) - Count(r.read)), output |-> Count(r.out) + Count(r.thought),
          written |-> 0, read |-> Count(r.read)]
WatsonxUsage(r) ==
    IF r = Absent THEN NoUsage ELSE [input |-> Count(r.prompt), output |-> Count(r.out), written |-> 0, read |-> 0]
UsageOf(r) ==
    CASE vendor = "anthropic" -> AnthropicUsage(r)
      [] vendor \in {"openai", "compatible"} -> OpenAIUsage(r)
      [] vendor = "gemini" -> GeminiUsage(r)
      [] vendor = "watsonx" -> WatsonxUsage(r)
PromptTokens(u) == u.input + u.written + u.read

NormalizeAnthropic(a) ==
    [text |-> Texts(a.blocks), calls |-> ReadCalls(a.blocks), stop |-> StopOf(a.stop), usage |-> UsageOf(Reported(a)),
     content |-> IF OfKind(a.blocks, {"thinking"}) # <<>> THEN ContentParam(a.blocks) ELSE Absent]
NormalizeOpenAI(a) ==
    [text |-> Texts(a.blocks), calls |-> ReadCalls(a.blocks), stop |-> StopOf(a.stop), usage |-> UsageOf(Reported(a)), content |-> Absent]
NormalizeGemini(a) ==
    [NormalizeOpenAI(a) EXCEPT !.stop = ToolsFirst(ReadCalls(a.blocks), a.stop)]
NormalizeWatsonx(a) == NormalizeGemini(a)
Normalize(a) ==
    CASE vendor = "anthropic" -> NormalizeAnthropic(a)
      [] vendor \in {"openai", "compatible"} -> NormalizeOpenAI(a)
      [] vendor = "gemini" -> NormalizeGemini(a)
      [] vendor = "watsonx" -> NormalizeWatsonx(a)

-----------------------------------------------------------------------------
(* A tool round.  A turn that thought goes back as it came, any other is rebuilt. *)
RebuiltTurn(r) == (IF r.text = <<>> THEN <<>> ELSE <<[kind |-> "text", v |-> r.text]>>) \o r.calls

\* Mutant: a turn that thought is rebuilt like any other.
AssistantContentRebuilt(r) == RebuiltTurn(r)

AssistantContent(r) == IF r.content # Absent THEN r.content ELSE RebuiltTurn(r)
ResultBlock(key, ok) == [kind |-> "result", v |-> [key |-> key, ok |-> ok]]
AnthropicRound(r, results) ==
    <<[role |-> "assistant", parts |-> AssistantContent(r)],
      [role |-> "user", parts |-> [i \in DOMAIN results |-> ResultBlock(results[i].id, results[i].ok)]]>>
(* One message for each result, with no mark of an error. *)
OpenAIRound(r, results) ==
    <<[role |-> "assistant", parts |-> RebuiltTurn(r)]>>
    \o [i \in DOMAIN results |-> [role |-> "tool", parts |-> <<ResultBlock(results[i].id, TRUE)>>]]
(* Results go by the name of the call. *)
GeminiRound(r, results) ==
    LET NameById(id) == IF \E i \in DOMAIN r.calls : r.calls[i].v.id = id
                        THEN r.calls[SelectLastInSeq(r.calls, LAMBDA c : c.v.id = id)].v.name ELSE id
    IN <<[role |-> "model", parts |-> RebuiltTurn(r)],
         [role |-> "user", parts |-> [i \in DOMAIN results |-> ResultBlock(NameById(results[i].id), results[i].ok)]]>>
AppendRound(r, results) ==
    history \o (CASE vendor = "anthropic" -> AnthropicRound(r, results)
                  [] vendor = "gemini" -> GeminiRound(r, results)
                  [] OTHER -> OpenAIRound(r, results))

-----------------------------------------------------------------------------
AdapterInit ==
    /\ vendor \in VendorNames /\ family \in {"sampling", "reasoning"}
    /\ built \in AliasConfigs /\ lane \in AliasConfigs \cup {Absent} /\ cachePrefix \in BOOLEAN
    /\ history = <<[role |-> "user", parts |-> <<[kind |-> "text", v |-> <<"question">>]>>]>>
    /\ sentReq = Absent /\ given = <<>> /\ response = Absent /\ adapterAt = "ask"

(* create_message up to the call, of a call with a system prompt and tools.  Only Anthropic is  *)
(* handed a cache prefix, and watsonx no settings.                                              *)
SendRequest ==
    /\ adapterAt = "ask" /\ adapterAt' = "waiting"
    /\ sentReq' = [fields |-> VendorRequest, messages |-> Messages]
    /\ UNCHANGED <<vendor, family, built, lane, cachePrefix, history, given, response>>

(* A vendor that says it stopped for tools names some; only gemini and watsonx leave out ids;   *)
(* Anthropic always reports its counts, and leaves out only those of a cache it did not use     *)
(* (external).                                                                                  *)
VendorSays(a) ==
    /\ a.stop = "tool_use" => OfKind(a.blocks, {"call"}) # <<>>
    /\ vendor # "anthropic" => OfKind(a.blocks, {"thinking"}) = <<>>
    /\ vendor \in {"anthropic", "openai", "compatible"} => \A b \in ToSet(OfKind(a.blocks, {"call"})) : b.v.id # Absent
    /\ vendor \in {"anthropic", "gemini"} => \A b \in ToSet(OfKind(a.blocks, {"call"})) : b.v.args = "object"
    /\ vendor # "gemini" => \A b \in ToSet(OfKind(a.blocks, {"call"})) : b.v.sig = Absent
    /\ vendor = "gemini" => a.stop # "tool_use" /\ a.tokens.written = 0
    /\ vendor = "watsonx" => a.tokens.written = 0 /\ a.tokens.read = 0
    /\ vendor = "anthropic" => \/ a.report = "whole"
                               \/ a.report = "undetailed" /\ a.tokens.written = 0 /\ a.tokens.read = 0
ReceiveAnswer(a) ==
    /\ adapterAt = "waiting" /\ VendorSays(a)
    /\ response' = Normalize(a) /\ given' = Append(given, a)
    /\ adapterAt' = IF response'.stop = "tool_use" THEN "tools" ELSE "over"
    /\ UNCHANGED <<vendor, family, built, lane, cachePrefix, history, sentReq>>

(* The loop runs every call in order, each with one result, and appends the round. *)
AppendToolResults(oks) ==
    /\ adapterAt = "tools" /\ Len(given) <= MaxToolRounds
    /\ history' = AppendRound(response, [i \in DOMAIN response.calls |-> [id |-> response.calls[i].v.id, ok |-> oks]])
    /\ adapterAt' = "ask"
    /\ UNCHANGED <<vendor, family, built, lane, cachePrefix, sentReq, given, response>>

AdapterNext ==
    \/ SendRequest
    \/ \E a \in VendorAnswers : ReceiveAnswer(a)
    \/ \E oks \in BOOLEAN : AppendToolResults(oks)

-----------------------------------------------------------------------------
(* What the vendors' interfaces reject. *)
FieldsTaken ==
    LET f == sentReq.fields IN
    /\ vendor = "anthropic" /\ f.temperature => family = "sampling" /\ f.thinking \subseteq {"disabled"}
    /\ vendor = "openai" => f.limit = "max_completion_tokens" /\ (f.temperature => family = "sampling" \/ f.effort = "none")
    /\ vendor = "gemini" => Cardinality(f.thinking) <= 1 /\ (f.temperature => family = "sampling")
    /\ Cardinality(f.marked) <= 4

(* The n-th turn of the model in the messages sent, and the result blocks up to the next one. *)
TurnsSent == SelectSeq([i \in DOMAIN sentReq.messages |-> i], LAMBDA i : sentReq.messages[i].role \in {"assistant", "model"})
ResultsSent(n) ==
    LET from == TurnsSent[n] + 1
        to == IF n = Len(TurnsSent) THEN Len(sentReq.messages) ELSE TurnsSent[n + 1] - 1
    IN FlattenSeq([i \in 1..(to - from + 1) |-> sentReq.messages[from + i - 1].parts])
Key(call) == IF vendor = "gemini" \/ call.v.id = Absent THEN call.v.name ELSE call.v.id
TurnGoesBack(n) ==
    LET a == given[n]
        calls == OfKind(a.blocks, {"call"})
        back == sentReq.messages[TurnsSent[n]].parts
        backCalls == OfKind(back, {"call"})
        results == ResultsSent(n)
    IN /\ OfKind(a.blocks, {"thinking"}) # <<>> => back = ContentParam(a.blocks)
       /\ Len(backCalls) = Len(calls) /\ Len(results) = Len(calls)
       /\ \A i \in DOMAIN calls :
            /\ backCalls[i].v.name = calls[i].v.name /\ backCalls[i].v.sig = calls[i].v.sig
            /\ calls[i].v.id # Absent => backCalls[i].v.id = calls[i].v.id
            /\ results[i].v.key = Key(calls[i])

(* Every request of a tool loop is one its vendor takes: each earlier turn of the model is in   *)
(* it, with the thinking and signatures it must carry, and each call with exactly one result    *)
(* under the key the vendor correlates by, whatever ids, stop reasons and arguments it sent.    *)
RequestsAreTaken ==
    sentReq # Absent /\ adapterAt = "waiting" =>
        /\ FieldsTaken
        /\ Len(TurnsSent) = Len(given)
        /\ \A n \in DOMAIN given : TurnGoesBack(n)

(* A call is settled with all the tokens the vendor reports, cached and thought ones too, and   *)
(* with none when it reports no usage or null counts: those adapters read silence as zero.     *)
ReportedTokensAreCounted ==
    response # Absent =>
        LET a == Last(given)
            t == a.tokens
        IN /\ a.report \in {"whole", "undetailed"} =>
                /\ PromptTokens(response.usage) = t.fresh + t.written + t.read
                /\ response.usage.output = t.visible + t.thought
           /\ response.usage.read \in {t.read, 0}
           /\ a.report \in {"nulls", "none"} => response.usage = NoUsage

RoundsReachTheVendor == RequestsAreTaken /\ ReportedTokensAreCounted
=============================================================================
