----------------------------- MODULE TaskAgent -----------------------------
(***************************************************************************)
(* A task agent's run: the LLM loop of agents/base.py, one tool round of   *)
(* agents/task_tool_round.py, the argument check, the permission gate, the *)
(* path sandbox and the built-in tools of agents/tools, under the timeout  *)
(* of the ExecuteTask servicer.                                            *)
(*                                                                         *)
(* A value of an argument is [kind, v]: kind is its JSON type, with the    *)
(* texts and floats that read as numbers told apart, since the argument    *)
(* check converts those.  A path pattern is the set of resolved files it   *)
(* matches; a command is the sequence of words shlex splits it into.       *)
(***************************************************************************)
EXTENDS Integers, Sequences, FiniteSets, SequencesExt

CONSTANTS
    Sigs,          \* tool name -> [params |-> Seq of parameters, narrow |-> argument -> rule]
    AgentConfigs,  \* what an agent may be configured with
    Lengths,       \* text value -> how many characters it has
    Resolve,       \* path text -> the file it resolves to
    Hosts,         \* url text -> [scheme, host]
    Rounds,        \* the tool calls a model may ask for in one answer
    Texts,         \* the final texts a model may answer with
    Tasks,         \* the tasks an agent may be handed
    MaxTimeout,    \* MAX_TIMEOUT_SECONDS
    None

(* Numbers are integers, and so is what an argument of a numeric kind stands for. *)
Numbers == {"integer", "huge", "whole_float", "float", "boolean"}
NumberTexts == {"integer_text", "decimal_text"}
ArgumentsOK(args) == \A n \in DOMAIN args :
    DOMAIN args[n] = {"kind", "v"} /\ (args[n].kind \in Numbers \cup NumberTexts => args[n].v \in Int)
ASSUME TaskAssumption ==
    /\ MaxTimeout \in Nat \ {0} /\ None \notin Int
    /\ \A t \in DOMAIN Sigs : \A p, q \in ToSet(Sigs[t].params) : p.name = q.name => p = q
    /\ \A a \in AgentConfigs :
        /\ a.max_llm_calls \in Int
        /\ a.permissions.shell # None => a.permissions.shell.limit \in Int
    /\ \A t \in Tasks : t.max_llm_calls \in Int
    /\ \A r \in Rounds : r \in Seq(ToSet(r)) /\ \A i \in DOMAIN r : r[i].args # None => ArgumentsOK(r[i].args)

VARIABLES
    agent,    \* the agent's configuration
    task,     \* the task it runs
    phase,    \* where the run waits
    llmCalls,    \* LLM calls made: who each was charged to
    round,    \* the tool calls of the current round
    answers,  \* their results so far, in order
    proc,     \* the subprocess of a shell call: its state and its time limit
    done,     \* every effect a tool had
    out       \* the TaskOutput, or how the run was cut off

taskVars == <<agent, task, phase, llmCalls, round, answers, proc, done, out>>

-----------------------------------------------------------------------------
(* Registration: what @tool derives from a function's signature.           *)

ByName(p) == p.kind = "by_name"
Params(t) == Sigs[t].params
ParamNames(t) == {p.name : p \in {q \in ToSet(Params(t)) : ByName(q)}}

Texty == {"text", "integer_text", "decimal_text", "long_text"}
(* A rule that the argument's own type cannot meet, or that no value passes, stops the registration. *)
RuleApplies == [type |-> {"string", "integer", "number", "boolean"}, enum |-> {"string"},
                minimum |-> {"integer", "number"}, maximum |-> {"integer", "number"},
                minLength |-> {"string"}, maxLength |-> {"string"}]
Workable(rule, own) ==
    /\ DOMAIN rule \subseteq DOMAIN RuleApplies
    /\ \A k \in DOMAIN rule : own \in RuleApplies[k]
    /\ "type" \in DOMAIN rule => rule.type = own
    /\ "enum" \in DOMAIN rule => rule.enum # {} /\ \A x \in rule.enum : x.kind \in Texty
    /\ {"minimum", "maximum"} \subseteq DOMAIN rule => rule.minimum <= rule.maximum
    /\ {"minLength", "maxLength"} \subseteq DOMAIN rule => rule.minLength <= rule.maxLength

PositionalOnly(t) == \E p \in ToSet(Params(t)) : p.kind = "positional_only"
ParamNamed(t, n) == CHOOSE p \in ToSet(Params(t)) : p.name = n
Registers(t) ==
    \A n \in DOMAIN Sigs[t].narrow :
        ~PositionalOnly(t) /\ n \in ParamNames(t) /\ Workable(Sigs[t].narrow[n], ParamNamed(t, n).type)
ToolRegistry == {t \in DOMAIN Sigs : Registers(t)}

(* What the model is offered for a narrowed argument: its rule on top of its own type. *)
Offered(rule, own) == [k \in DOMAIN rule \cup {"type"} |-> IF k = "type" THEN own ELSE rule[k]]
ArgumentSpec(t) ==
    LET P == {p \in ToSet(Params(t)) : ByName(p)}
        Is(type) == {p.name : p \in {q \in P : q.type = type}}
        narrowed == DOMAIN Sigs[t].narrow
        takesNone == {p.name : p \in {q \in P : q.none}}
    IN [names |-> ParamNames(t),
        required |-> {p.name : p \in {q \in P : ~q.default}},
        integers |-> Is("integer"), numbers |-> Is("number"),
        takes_none |-> takesNone,
        nulls_mean_default |-> {p.name : p \in {q \in P : q.default}} \ (takesNone \cup narrowed),
        open |-> \E p \in ToSet(Params(t)) : p.kind = "var_keyword",
        narrow |-> [n \in narrowed |-> Offered(Sigs[t].narrow[n], ParamNamed(t, n).type)]]
Specs == [t \in ToolRegistry |-> ArgumentSpec(t)]

-----------------------------------------------------------------------------
(* The argument check.                                                     *)

JsonType(x) ==
    IF x.kind \in Texty THEN "string"
    ELSE IF x.kind \in {"integer", "huge"} THEN "integer"
    ELSE IF x.kind \in {"whole_float", "float"} THEN "number" ELSE x.kind
IsOfType(x, type) ==
    \/ JsonType(x) = type
    \/ type = "number" /\ JsonType(x) = "integer"
    \/ type = "integer" /\ x.kind = "whole_float"

(* long_text: digits past int()'s limit; huge: an integer no float is equal to. *)
OneInteger(x) == IF x.kind \in {"integer_text", "whole_float"} THEN [x EXCEPT !.kind = "integer"] ELSE x
OneNumber(x) == IF x.kind \in {"integer_text", "integer", "decimal_text"} THEN [x EXCEPT !.kind = "float"] ELSE x

Converted(spec, n, x) ==
    IF n \in spec.integers THEN OneInteger(x) ELSE IF n \in spec.numbers THEN OneNumber(x) ELSE x

Breaks(rule, x) ==
    \/ "type" \in DOMAIN rule /\ ~IsOfType(x, rule.type)
    \/ "minimum" \in DOMAIN rule /\ JsonType(x) \in {"integer", "number"} /\ x.v < rule.minimum
    \/ "maximum" \in DOMAIN rule /\ JsonType(x) \in {"integer", "number"} /\ x.v > rule.maximum
    \/ "enum" \in DOMAIN rule /\ x \notin rule.enum
    \/ "minLength" \in DOMAIN rule /\ x.kind \in Texty /\ Lengths[x] < rule.minLength
    \/ "maxLength" \in DOMAIN rule /\ x.kind \in Texty /\ Lengths[x] > rule.maxLength

BrokenNarrowings(spec, checked) ==
    {n \in DOMAIN spec.narrow \cap DOMAIN checked :
        ~(checked[n].kind = "null" /\ n \in spec.takes_none) /\ Breaks(spec.narrow[n], checked[n])}

Refused == [refused |-> TRUE]
UnknownNames(spec, args) == {n \in DOMAIN args : ~(n \in spec.names \/ spec.open)}
KeptNames(spec, args) == {n \in DOMAIN args : ~(args[n].kind = "null" /\ n \in spec.nulls_mean_default)}
Against(spec, checked) ==
    IF spec.required \subseteq DOMAIN checked /\ BrokenNarrowings(spec, checked) = {} THEN checked ELSE Refused
ValidateAgainst(spec, args) ==
    IF UnknownNames(spec, args) # {} THEN Refused
    ELSE Against(spec, [n \in KeptNames(spec, args) |-> Converted(spec, n, args[n])])
ValidateArguments(t, args) ==
    IF args = None THEN Refused ELSE IF PositionalOnly(t) THEN args ELSE ValidateAgainst(Specs[t], args)

-----------------------------------------------------------------------------
(* What the agent is offered and what its permissions let a tool do.       *)

ListedNames == IF agent.tools = None THEN {} ELSE agent.tools
OfferedTools == ToolRegistry \cap ListedNames
RefuseCall(c) == c.tool \notin OfferedTools
Admitted(c) == ~RefuseCall(c) /\ ValidateArguments(c.tool, c.args) # Refused

Perms == agent.permissions
(* filesystem:read and filesystem:write are granted by their pattern lists, the other two by theirs. *)
GrantedBy == [file_read |-> <<"filesystem", "read">>, file_write |-> <<"filesystem", "write">>,
              shell_exec |-> <<"shell", "allowed_commands">>, http_request |-> <<"network", "allow">>]
GateCheck(t) ==
    LET g == GrantedBy[t] IN Perms[g[1]] # None /\ Perms[g[1]][g[2]] # {}

\* Mutant: a permission overrides a denial.
PathAllowedFirst(path, mode) ==
    LET file == Resolve[path] IN
    \/ \E pattern \in Perms.filesystem[mode] : file \in pattern
    \/ \A pattern \in Perms.filesystem.deny : file \notin pattern

(* Every denial is looked at before any permission. *)
PathAllowed(path, mode) ==
    LET file == Resolve[path] IN
    /\ \A pattern \in Perms.filesystem.deny : file \notin pattern
    /\ \E pattern \in Perms.filesystem[mode] : file \in pattern
IsCommandAllowed(words) == \E pattern \in Perms.shell.allowed_commands : IsPrefix(pattern, words)
(* On both lists: allowed.  Off the allow list: denied, whatever the deny list holds. *)
IsDomainAllowed(host) == host \in Perms.network.allow

ShellTimeLimit == IF Perms.shell.limit < 1 THEN None ELSE Perms.shell.limit
ShellTimeout(requested) ==
    LET Least(a, b) == IF a < b THEN a ELSE b
        cap == IF ShellTimeLimit = None THEN MaxTimeout ELSE Least(ShellTimeLimit, MaxTimeout)
    IN IF Least(requested, cap) < 1 THEN 1 ELSE Least(requested, cap)

-----------------------------------------------------------------------------
NoProc == [state |-> "none", limit |-> 0]

TaskInit ==
    /\ agent \in AgentConfigs
    /\ task = [max_llm_calls |-> 0, max_tokens |-> 0, allowed_tools |-> {}, parent |-> None]
    /\ phase = "idle"
    /\ llmCalls = <<>> /\ round = <<>> /\ answers = <<>>
    /\ proc = NoProc /\ done = {} /\ out = None

(* A task of the orchestrator's: it names no parent. *)
ExecuteTask ==
    /\ phase = "idle"
    /\ \E t \in Tasks : task' = t
    /\ phase' = "start"
    /\ UNCHANGED <<agent, llmCalls, round, answers, proc, done, out>>

Return(status, text) ==
    /\ out' = [status |-> status, text |-> text]
    /\ phase' = "end"
Fail == Return("FAILED", [form |-> "prose"])

LLMLimit == IF task.max_llm_calls = 0 THEN agent.max_llm_calls ELSE task.max_llm_calls

(* No client, no model in the config, or a negative limit: nothing is called. *)
StartLoop ==
    /\ phase = "start"
    /\ IF ~agent.client \/ ~agent.model \/ task.max_llm_calls < 0 \/ task.max_tokens < 0
       THEN Fail ELSE phase' = "ask" /\ UNCHANGED out
    /\ UNCHANGED <<agent, task, llmCalls, round, answers, proc, done>>

(* A sub-agent's call is charged to the agent that delegated to it. *)
Lease ==
    IF task.parent = None THEN [cause |-> "workflow_task", by |-> agent.id]
    ELSE [cause |-> "sub_agent", by |-> task.parent]

Called == phase = "ask" /\ Len(llmCalls) < LLMLimit /\ llmCalls' = Append(llmCalls, Lease)
AskFails ==  \* BudgetExceededError, a provider error, a truncated answer
    /\ Called /\ Fail
    /\ UNCHANGED <<agent, task, round, answers, proc, done>>
AskEnds(text) ==
    /\ Called /\ Return("COMPLETED", text)
    /\ UNCHANGED <<agent, task, round, answers, proc, done>>
AskTools(r) ==
    /\ Called
    /\ round' = r /\ answers' = <<>> /\ phase' = "tools"
    /\ UNCHANGED <<agent, task, proc, done, out>>
AskExhausted ==
    /\ phase = "ask" /\ Len(llmCalls) >= LLMLimit
    /\ Fail
    /\ UNCHANGED <<agent, task, llmCalls, round, answers, proc, done>>

-----------------------------------------------------------------------------
(* One tool round: the calls run one after another, each gets one result.  *)

Current == round[Len(answers) + 1]
Args == ValidateArguments(Current.tool, Current.args)
Answer(ok) == answers' = Append(answers, [id |-> Current.id, ok |-> ok])
NextCall == phase = "tools" /\ Len(answers) < Len(round)

Did(t, on) == done' = done \cup {[tool |-> t, on |-> on]}

RefusedCall ==
    /\ NextCall /\ ~Admitted(Current)
    /\ Answer(FALSE)
    /\ UNCHANGED <<agent, task, phase, llmCalls, round, proc, done, out>>

(* The gate, the sandbox or the arguments stop the tool, or it is not set up: an error result. *)
UrlAllowed(url) == url.scheme \in {"http", "https"} /\ url.host # None /\ IsDomainAllowed(url.host)
HttpAllowed(args) ==
    /\ "method" \in DOMAIN args => args.method.v # "DELETE"
    /\ UrlAllowed(Hosts[args.url.v])
(* _shell_timeout compares the timeout with the cap, which raises for what is no number. *)
Comparable(args) == "timeout" \in DOMAIN args => args.timeout.kind \in Numbers
ToolPermits(t, args) ==
    /\ t = "file_read" => PathAllowed(args.path.v, "read")
    /\ t = "file_write" => PathAllowed(args.path.v, "write")
    /\ t = "shell_exec" => Comparable(args) /\ args.command.v # <<>> /\ IsCommandAllowed(args.command.v)
    /\ t = "http_request" => HttpAllowed(args)
Stopped(t) == ~(agent.ready /\ GateCheck(t) /\ ToolPermits(t, Args))
StoppedCall ==
    /\ NextCall /\ Admitted(Current) /\ Current.tool \in DOMAIN GrantedBy /\ Stopped(Current.tool)
    /\ Answer(FALSE)
    /\ UNCHANGED <<agent, task, phase, llmCalls, round, proc, done, out>>
Runs(t) == NextCall /\ Current.tool = t /\ Admitted(Current) /\ ~Stopped(t)

(* The file may be missing, binary, or fail to open. *)
FileRead ==
    /\ Runs("file_read")
    /\ \E ok \in BOOLEAN : Answer(ok) /\ IF ok THEN Did("file_read", Resolve[Args.path.v]) ELSE UNCHANGED done
    /\ UNCHANGED <<agent, task, phase, llmCalls, round, proc, out>>
FileWrite ==
    /\ Runs("file_write")
    /\ \E ok \in BOOLEAN : Answer(ok) /\ IF ok THEN Did("file_write", Resolve[Args.path.v]) ELSE UNCHANGED done
    /\ UNCHANGED <<agent, task, phase, llmCalls, round, proc, out>>

(* Python binds the arguments by name or raises; a tool without a spec was checked by nothing before. *)
Binds(t, args) ==
    LET P == ToSet(Params(t)) IN
    /\ \A p \in P : p.kind = "positional_only" => p.default
    /\ \A p \in P : ByName(p) /\ ~p.default => p.name \in DOMAIN args
    /\ DOMAIN args \subseteq ParamNames(t) \/ \E p \in P : p.kind = "var_keyword"
(* A tool of the agent's own: it returns, or the wrapper turns what it raised into a failed result. *)
CustomTool ==
    /\ NextCall /\ Admitted(Current) /\ Current.tool \notin DOMAIN GrantedBy
    /\ IF Binds(Current.tool, Args)
       THEN (\E ok \in BOOLEAN : Answer(ok)) /\ Did(Current.tool, Args)
       ELSE Answer(FALSE) /\ UNCHANGED done
    /\ UNCHANGED <<agent, task, phase, llmCalls, round, proc, out>>

RequestedTimeout(args) == IF "timeout" \in DOMAIN args THEN args.timeout.v ELSE 30
ShellStart ==
    /\ Runs("shell_exec")
    /\ \/ /\ proc' = [state |-> "running", limit |-> ShellTimeout(RequestedTimeout(Args))]
          /\ Did("shell_exec", Args.command.v)
          /\ phase' = "shell" /\ UNCHANGED answers
       \/ Answer(FALSE) /\ UNCHANGED <<proc, done, phase>>   \* command not found
    /\ UNCHANGED <<agent, task, llmCalls, round, out>>
ShellExits ==
    /\ phase \in {"shell", "grace"} /\ proc.state \in {"running", "signalled"}
    /\ \E ok \in BOOLEAN : Answer(ok /\ phase = "shell")
    /\ proc' = NoProc /\ phase' = "tools"
    /\ UNCHANGED <<agent, task, llmCalls, round, done, out>>
ShellTimesOut ==
    /\ phase = "shell"
    /\ proc' = [proc EXCEPT !.state = "signalled"] /\ phase' = "grace"
    /\ UNCHANGED <<agent, task, llmCalls, round, answers, done, out>>

\* Mutant: kill() is never sent.
ShellKilledNever ==
    /\ phase = "grace" /\ proc = NoProc
    /\ phase' = "tools" /\ Answer(FALSE)
    /\ UNCHANGED <<agent, task, llmCalls, round, done, out, proc>>

(* Five seconds after terminate(): kill(), which no process survives. *)
ShellKilled ==
    /\ phase = "grace"
    /\ proc' = NoProc /\ phase' = "tools" /\ Answer(FALSE)
    /\ UNCHANGED <<agent, task, llmCalls, round, done, out>>
HttpStart ==
    /\ Runs("http_request")
    /\ Did("http_request", Hosts[Args.url.v].host) /\ phase' = "http"
    /\ UNCHANGED <<agent, task, llmCalls, round, answers, proc, out>>
HttpEnds ==  \* a response, a client error or the 30 s timeout
    /\ phase = "http"
    /\ \E ok \in BOOLEAN : Answer(ok)
    /\ phase' = "tools"
    /\ UNCHANGED <<agent, task, llmCalls, round, proc, done, out>>

AppendToolRound ==
    /\ phase = "tools" /\ Len(answers) = Len(round)
    /\ phase' = "ask"
    /\ UNCHANGED <<agent, task, llmCalls, round, answers, proc, done, out>>

-----------------------------------------------------------------------------
(* The servicer's wait_for, or the caller hanging up, cancels the run where it waits.  Nothing  *)
(* catches the cancellation: a subprocess the run was waiting for is left to itself.            *)
CutOff ==
    /\ phase \in {"ask", "shell", "grace", "http"}
    /\ out' = [status |-> "CUT", text |-> [form |-> "empty"]] /\ phase' = "end"
    /\ UNCHANGED <<agent, task, llmCalls, round, answers, proc, done>>
(* A subprocess left to itself may end on its own. *)
OrphanExits ==
    /\ phase \notin {"shell", "grace"} /\ proc # NoProc
    /\ proc' = NoProc
    /\ UNCHANGED <<agent, task, phase, llmCalls, round, answers, done, out>>

ToolStep ==
    \/ RefusedCall \/ StoppedCall \/ FileRead \/ FileWrite \/ CustomTool
    \/ ShellStart \/ ShellTimesOut \/ ShellKilled \/ HttpStart \/ HttpEnds \/ AppendToolRound
LoopStep ==
    \/ StartLoop \/ AskFails \/ AskExhausted
    \/ \E text \in Texts : AskEnds(text)
    \/ \E r \in Rounds : AskTools(r)
TaskNext == ToolStep \/ LoopStep \/ ShellExits \/ CutOff \/ OrphanExits

-----------------------------------------------------------------------------
(* An argument as the tool takes it: an integer's text is converted, and a narrowed argument    *)
(* has its declared type, unless it is the null its annotation takes.                           *)
TakenAs(t, p, on) ==
    ByName(p) /\ p.name \in DOMAIN on /\ ~PositionalOnly(t) =>
        /\ p.type = "integer" => on[p.name].kind # "integer_text"
        /\ p.name \in DOMAIN Sigs[t].narrow => IsOfType(on[p.name], p.type) \/ (on[p.name].kind = "null" /\ p.none)

(* Whatever a tool has done was on the agent's list, on arguments that tool takes, and within   *)
(* the agent's permissions: no file a deny pattern matches, no command off the allow list, no   *)
(* host but the listed ones.                                                                    *)
ToolsStayInBounds ==
    \A e \in done :
        /\ agent.tools # None /\ e.tool \in agent.tools
        /\ e.tool \in {"file_read", "file_write"} =>
             /\ e.on \notin UNION Perms.filesystem.deny
             /\ e.on \in UNION (IF e.tool = "file_read" THEN Perms.filesystem.read ELSE Perms.filesystem.write)
        /\ e.tool = "shell_exec" => \E p \in Perms.shell.allowed_commands : IsPrefix(p, e.on)
        /\ e.tool = "http_request" => e.on \in Perms.network.allow
        /\ e.tool \notin DOMAIN GrantedBy =>
             \A p \in ToSet(Params(e.tool)) :
                (ByName(p) /\ ~p.default => p.name \in DOMAIN e.on) /\ TakenAs(e.tool, p, e.on)

(* The results of a round answer its calls in order, each once; the model is asked again only  *)
(* when all are in; a subprocess lives only inside its own call, unless the run was cut off    *)
(* while it ran, and never with more time than the operator's shell.max_execution_seconds,     *)
(* when that is a limit, nor than MAX_TIMEOUT_SECONDS.                                         *)
CallsAreSettled ==
    /\ Len(answers) <= Len(round)
    /\ \A i \in DOMAIN answers : answers[i].id = round[i].id
    /\ phase = "ask" => Len(answers) = Len(round)
    /\ proc # NoProc => phase \in {"shell", "grace"} \/ (phase = "end" /\ out.status = "CUT")
    /\ proc.limit <= MaxTimeout
    /\ Perms.shell # None /\ Perms.shell.limit >= 1 => proc.limit <= Perms.shell.limit
    /\ llmCalls # <<>> => Len(llmCalls) <= LLMLimit

(* Every run ends: the model's rounds are numbered, a shell call ends by kill() if not before. *)
TaskEnds == (phase = "start") ~> (phase = "end")

(* Tool use stays governed over all rounds: what is done was allowed, and what was asked is     *)
(* answered once, in order and in bounded time (tools/base.py, gating.py, task_agent.py).       *)
ToolUseIsGoverned == ToolsStayInBounds /\ CallsAreSettled
=============================================================================
