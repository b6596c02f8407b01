--------------------------- MODULE PersonaProofs ---------------------------
(***************************************************************************)
(* What a persona's turn and its agents' tools may do, whatever the model  *)
(* answers and wherever a run is cut off.                                  *)
(***************************************************************************)
EXTENDS Delegation, PersonaTurn, SequenceTheorems, FiniteSetTheorems, TLAPS

(***************************************************************************)
(* Tool use.                                                               *)
(***************************************************************************)
(* What the configuration and the task give as numbers are numbers.        *)
Configured ==
  /\ agent.max_llm_calls \in Int /\ task.max_llm_calls \in Int
  /\ agent.permissions.shell # None => agent.permissions.shell.limit \in Int

(* The results so far answer the calls of the round, in order; while a     *)
(* tool is awaited one more is to come, and none when the model is asked.  *)
RoundInv ==
  /\ round = <<>> \/ round \in Rounds
  /\ \E S : answers \in Seq(S)
  /\ Len(answers) <= Len(round)
  /\ \A i \in DOMAIN answers : answers[i].id = round[i].id
  /\ phase \in {"idle", "start"} => answers = <<>> /\ round = <<>>
  /\ phase = "ask" => Len(answers) = Len(round)
  /\ phase \in {"shell", "grace", "http"} => Len(answers) < Len(round)

(* A subprocess runs inside its call, or was left by a run that was cut    *)
(* off, and has no more time than the limits.                              *)
ProcInv ==
  /\ DOMAIN proc = {"state", "limit"} /\ proc.limit \in Int /\ proc.limit <= MaxTimeout
  /\ Perms.shell # None /\ Perms.shell.limit >= 1 => proc.limit <= Perms.shell.limit
  /\ proc # NoProc => phase \in {"shell", "grace"} \/ (phase = "end" /\ out.status = "CUT")

(* No more calls than the limit, which is settled before the first.        *)
CallInv ==
  /\ \E S : llmCalls \in Seq(S)
  /\ phase \in {"idle", "start"} => llmCalls = <<>>
  /\ llmCalls # <<>> => Len(llmCalls) <= LLMLimit

ToolInv == Configured /\ RoundInv /\ ProcInv /\ CallInv /\ ToolsStayInBounds

LEMMA RoundIs ==
  ASSUME round = <<>> \/ round \in Rounds
  PROVE  /\ Len(round) \in Nat /\ DOMAIN round = 1..Len(round) /\ \E S : round \in Seq(S)
  <1>1. CASE round = <<>>
    <2>1. <<>> \in Seq({})
      OBVIOUS
    <2> QED BY <1>1, <2>1
  <1>2. CASE round \in Rounds
    <2>1. round \in Seq(ToSet(round))
      BY <1>2, TaskAssumption
    <2> QED BY <2>1
  <1> QED BY <1>1, <1>2

(* Another result is of the call it answers.                               *)
LEMMA AnswerCounts ==
  ASSUME RoundInv, Len(answers) < Len(round), round' = round, NEW ok, Answer(ok)
  PROVE  /\ \E S : answers' \in Seq(S)
         /\ Len(answers') = Len(answers) + 1 /\ Len(answers') <= Len(round')
         /\ \A i \in DOMAIN answers' : answers'[i].id = round'[i].id
  <1>1. PICK S : answers \in Seq(S)
    BY DEF RoundInv
  <1> DEFINE x == [id |-> Current.id, ok |-> ok]  T == S \cup {x}
  <1>2. answers \in Seq(T) /\ x \in T /\ answers' = Append(answers, x)
    BY <1>1 DEF Answer
  <1>3. x.id = round[Len(answers) + 1].id
    BY DEF Current
  <1> HIDE DEF x, T
  <1>4. /\ answers' \in Seq(T) /\ Len(answers') = Len(answers) + 1
        /\ \A i \in 1..Len(answers) : answers'[i] = answers[i]
        /\ answers'[Len(answers) + 1] = x
    BY <1>2
  <1>5. Len(answers) \in Nat /\ Len(round) \in Nat /\ DOMAIN answers = 1..Len(answers) /\ DOMAIN answers' = 1..(Len(answers) + 1)
    BY <1>1, <1>4, RoundIs DEF RoundInv
  <1>6. \A i \in DOMAIN answers' : answers'[i].id = round'[i].id
    <2> SUFFICES ASSUME NEW i \in 1..(Len(answers) + 1) PROVE answers'[i].id = round[i].id
      BY <1>5
    <2>1. CASE i = Len(answers) + 1
      BY <2>1, <1>3, <1>4
    <2>2. CASE i # Len(answers) + 1
      <3>1. i \in 1..Len(answers)
        BY <2>2, <1>5
      <3> QED BY <3>1, <1>4, <1>5 DEF RoundInv
    <2> QED BY <2>1, <2>2
  <1> QED BY <1>4, <1>5, <1>6

(* A step of the round that gives an answer, or leaves it to come.         *)
LEMMA RoundStep ==
  ASSUME RoundInv, round' = round, Len(answers) < Len(round),
         \/ (\E ok : Answer(ok)) /\ phase' = "tools"
         \/ answers' = answers /\ phase' \in {"shell", "grace", "http", "tools"}
  PROVE  RoundInv'
  <1>1. CASE (\E ok : Answer(ok)) /\ phase' = "tools"
    <2>1. PICK ok : Answer(ok)
      BY <1>1
    <2> QED BY <1>1, <2>1, AnswerCounts DEF RoundInv
  <1>2. CASE answers' = answers /\ phase' \in {"shell", "grace", "http", "tools"}
    BY <1>2 DEF RoundInv
  <1> QED BY <1>1, <1>2

LEMMA BoundsKept == ASSUME ToolsStayInBounds, done' = done, agent' = agent PROVE ToolsStayInBounds'
  BY DEF ToolsStayInBounds, Perms

LEMMA CallsKept ==
  ASSUME CallInv, UNCHANGED <<agent, task, llmCalls>>, phase' \notin {"idle", "start"}
  PROVE  CallInv'
  BY DEF CallInv, LLMLimit

(* A tool does one more thing, and may.                                    *)
LEMMA BoundsGrow ==
  ASSUME ToolsStayInBounds, agent' = agent, NEW t, NEW on, Did(t, on),
         agent.tools # None /\ t \in agent.tools,
         t = "file_read" => on \notin UNION Perms.filesystem.deny /\ on \in UNION Perms.filesystem.read,
         t = "file_write" => on \notin UNION Perms.filesystem.deny /\ on \in UNION Perms.filesystem.write,
         t = "shell_exec" => \E p \in Perms.shell.allowed_commands : IsPrefix(p, on),
         t = "http_request" => on \in Perms.network.allow,
         t \notin DOMAIN GrantedBy => \A p \in ToSet(Params(t)) :
                (ByName(p) /\ ~p.default => p.name \in DOMAIN on) /\ TakenAs(t, p, on)
  PROVE  ToolsStayInBounds'
  <1> DEFINE x == [tool |-> t, on |-> on]
  <1>1. done' = done \cup {x} /\ x.tool = t /\ x.on = on /\ Perms' = Perms
    BY DEF Did, Perms
  <1> HIDE DEF x
  <1> SUFFICES ASSUME NEW e \in done'
               PROVE /\ agent'.tools # None /\ e.tool \in agent'.tools
                     /\ e.tool \in {"file_read", "file_write"} =>
                          /\ e.on \notin UNION Perms'.filesystem.deny
                          /\ e.on \in UNION (IF e.tool = "file_read" THEN Perms'.filesystem.read ELSE Perms'.filesystem.write)
                     /\ e.tool = "shell_exec" => \E p \in Perms'.shell.allowed_commands : IsPrefix(p, e.on)
                     /\ e.tool = "http_request" => e.on \in Perms'.network.allow
                     /\ e.tool \notin DOMAIN GrantedBy =>
                          \A p \in ToSet(Params(e.tool)) :
                             (ByName(p) /\ ~p.default => p.name \in DOMAIN e.on) /\ TakenAs(e.tool, p, e.on)
    BY DEF ToolsStayInBounds
  <1>2. CASE e \in done
    BY <1>1, <1>2 DEF ToolsStayInBounds
  <1>3. CASE e = x
    BY <1>1, <1>3
  <1> QED BY <1>1, <1>2, <1>3

(* The call in hand is one the model asked for.                            *)
LEMMA CurrentIs ==
  ASSUME RoundInv, Len(answers) < Len(round), Current.args # None
  PROVE  ArgumentsOK(Current.args)
  <1>1. PICK S : answers \in Seq(S)
    BY DEF RoundInv
  <1>2. Len(answers) \in Nat /\ Len(round) \in Nat /\ DOMAIN round = 1..Len(round)
    BY <1>1, RoundIs DEF RoundInv
  <1>3. round # <<>>
    BY <1>2
  <1>4. round \in Rounds /\ Len(answers) + 1 \in DOMAIN round
    BY <1>2, <1>3 DEF RoundInv
  <1> QED BY <1>4, TaskAssumption DEF Current

(* What the argument check hands on: every argument as it was sent, or     *)
(* converted.                                                              *)
LEMMA ConvertedIs ==
  ASSUME NEW spec, NEW n, NEW x, DOMAIN x = {"kind", "v"}
  PROVE  /\ Converted(spec, n, x).v = x.v
         /\ Converted(spec, n, x).kind \in Numbers => x.kind \in Numbers \cup NumberTexts
         /\ n \in spec.integers => Converted(spec, n, x).kind # "integer_text"
  BY DEF Converted, OneInteger, OneNumber, Numbers, NumberTexts

LEMMA Checked ==
  ASSUME NEW t \in ToolRegistry, NEW args, ~PositionalOnly(t), args # None,
         ValidateArguments(t, args) # Refused
  PROVE  LET spec == ArgumentSpec(t)  c == ValidateArguments(t, args) IN
         /\ DOMAIN c \subseteq DOMAIN args
         /\ \A n \in DOMAIN c : c[n] = Converted(spec, n, args[n])
         /\ BrokenNarrowings(spec, c) = {}
  <1> DEFINE spec == ArgumentSpec(t)
             c == [n \in KeptNames(spec, args) |-> Converted(spec, n, args[n])]
  <1>1. Specs[t] = spec
    BY DEF Specs
  <1>2. ValidateArguments(t, args) = ValidateAgainst(spec, args)
    BY <1>1 DEF ValidateArguments
  <1>3. ValidateArguments(t, args) = c /\ BrokenNarrowings(spec, c) = {}
    <2>1. UnknownNames(spec, args) = {}
      BY <1>2 DEF ValidateAgainst
    <2>2. ValidateArguments(t, args) = Against(spec, c)
      BY <1>2, <2>1 DEF ValidateAgainst
    <2> HIDE DEF spec, c
    <2> QED BY <2>2 DEF Against
  <1>4. KeptNames(spec, args) \subseteq DOMAIN args
    BY DEF KeptNames
  <1>5. DOMAIN c = KeptNames(spec, args) /\ \A n \in DOMAIN c : c[n] = Converted(spec, n, args[n])
    OBVIOUS
  <1> HIDE DEF c
  <1> QED BY <1>3, <1>4, <1>5

LEMMA AdmittedIs ==
  ASSUME RoundInv, Len(answers) < Len(round), Admitted(Current)
  PROVE  /\ Current.tool \in ToolRegistry /\ agent.tools # None /\ Current.tool \in agent.tools
         /\ Args # Refused /\ Current.args # None
         /\ \A n \in DOMAIN Args : Args[n].kind \in Numbers => Args[n].v \in Int
         /\ ~PositionalOnly(Current.tool) =>
              /\ \A n \in DOMAIN Args : n \in ArgumentSpec(Current.tool).integers => Args[n].kind # "integer_text"
              /\ BrokenNarrowings(ArgumentSpec(Current.tool), Args) = {}
  <1>1. Current.tool \in ToolRegistry /\ agent.tools # None /\ Current.tool \in agent.tools
    BY DEF Admitted, RefuseCall, OfferedTools, ListedNames
  <1>2. Args # Refused
    BY DEF Admitted, Args
  <1>3. Current.args # None
    BY <1>2 DEF Args, ValidateArguments
  <1>4. ArgumentsOK(Current.args)
    BY <1>3, CurrentIs
  <1>5. CASE PositionalOnly(Current.tool)
    <2>1. Args = Current.args
      BY <1>3, <1>5 DEF Args, ValidateArguments
    <2> QED BY <1>1, <1>2, <1>3, <1>4, <1>5, <2>1 DEF ArgumentsOK
  <1>6. CASE ~PositionalOnly(Current.tool)
    <2> DEFINE spec == ArgumentSpec(Current.tool)
    <2> HIDE DEF spec
    <2>1. /\ DOMAIN Args \subseteq DOMAIN Current.args
          /\ \A n \in DOMAIN Args : Args[n] = Converted(spec, n, Current.args[n])
          /\ BrokenNarrowings(spec, Args) = {}
      BY <1>1, <1>2, <1>3, <1>6, Checked DEF Args, spec
    <2>2. \A n \in DOMAIN Args :
            /\ Args[n].v = Current.args[n].v
            /\ Args[n].kind \in Numbers => Current.args[n].kind \in Numbers \cup NumberTexts
            /\ n \in spec.integers => Args[n].kind # "integer_text"
      <3> SUFFICES ASSUME NEW n \in DOMAIN Args
                   PROVE /\ Args[n].v = Current.args[n].v
                         /\ Args[n].kind \in Numbers => Current.args[n].kind \in Numbers \cup NumberTexts
                         /\ n \in spec.integers => Args[n].kind # "integer_text"
        OBVIOUS
      <3> DEFINE x == Current.args[n]
      <3>1. DOMAIN x = {"kind", "v"} /\ Args[n] = Converted(spec, n, x)
        BY <2>1, <1>4 DEF ArgumentsOK
      <3> HIDE DEF x
      <3>2. /\ Converted(spec, n, x).v = x.v
            /\ Converted(spec, n, x).kind \in Numbers => x.kind \in Numbers \cup NumberTexts
            /\ n \in spec.integers => Converted(spec, n, x).kind # "integer_text"
        BY <3>1, ConvertedIs
      <3> QED BY <3>1, <3>2 DEF x
    <2>3. \A n \in DOMAIN Args : Args[n].kind \in Numbers => Args[n].v \in Int
      BY <2>1, <2>2, <1>4 DEF ArgumentsOK
    <2> QED BY <1>1, <1>2, <1>3, <2>1, <2>2, <2>3, <1>6 DEF spec
  <1> QED BY <1>5, <1>6

(* A narrowed argument that was not refused has its declared type.         *)
LEMMA NarrowedIs ==
  ASSUME NEW t \in ToolRegistry, NEW c, BrokenNarrowings(ArgumentSpec(t), c) = {},
         NEW p \in ToSet(Params(t)), ByName(p), p.name \in DOMAIN c, p.name \in DOMAIN Sigs[t].narrow
  PROVE  IsOfType(c[p.name], p.type) \/ (c[p.name].kind = "null" /\ p.none)
  <1> DEFINE n == p.name  spec == ArgumentSpec(t)
  <1>1. ParamNamed(t, n) = p
    <2>1. t \in DOMAIN Sigs
      BY DEF ToolRegistry
    <2>2. \A q \in ToSet(Params(t)) : q.name = p.name => q = p
      BY <2>1, TaskAssumption DEF Params
    <2>3. \E q \in ToSet(Params(t)) : q.name = p.name
      OBVIOUS
    <2>4. ParamNamed(t, n) \in ToSet(Params(t)) /\ ParamNamed(t, n).name = p.name
      BY <2>3 DEF ParamNamed
    <2> QED BY <2>2, <2>4
  <1>2. n \in DOMAIN spec.narrow /\ spec.narrow[n] = Offered(Sigs[t].narrow[n], p.type)
    BY <1>1 DEF ArgumentSpec
  <1>3. "type" \in DOMAIN spec.narrow[n] /\ spec.narrow[n].type = p.type
    BY <1>2 DEF Offered
  <1>4. n \in spec.takes_none => p.none
    <2> SUFFICES ASSUME n \in spec.takes_none PROVE p.none
      OBVIOUS
    <2>1. PICK q \in ToSet(Params(t)) : q.none /\ q.name = n
      BY DEF ArgumentSpec
    <2>2. t \in DOMAIN Sigs
      BY DEF ToolRegistry
    <2>3. q = p
      BY <2>1, <2>2, TaskAssumption DEF Params
    <2> QED BY <2>1, <2>3
  <1> HIDE DEF spec
  <1>5. (c[n].kind = "null" /\ n \in spec.takes_none) \/ ~Breaks(spec.narrow[n], c[n])
    BY <1>2 DEF BrokenNarrowings, spec
  <1> QED BY <1>3, <1>4, <1>5 DEF Breaks

(* _shell_timeout: whatever the model asks for, within the limits.         *)
LEMMA TimeoutIsCapped ==
  ASSUME NEW n \in Int, Perms.shell.limit \in Int
  PROVE  /\ ShellTimeout(n) \in Int /\ ShellTimeout(n) <= MaxTimeout
         /\ Perms.shell.limit >= 1 => ShellTimeout(n) <= Perms.shell.limit
  <1> DEFINE k == Perms.shell.limit
  <1>1. MaxTimeout \in Nat \ {0} /\ None \notin Int /\ k \in Int
    BY TaskAssumption
  <1>2. ShellTimeLimit = IF k < 1 THEN None ELSE k
    BY DEF ShellTimeLimit
  <1> HIDE DEF k
  <1>3. CASE ShellTimeLimit = None
    BY <1>1, <1>2, <1>3 DEF ShellTimeout, k
  <1>4. CASE ShellTimeLimit # None
    BY <1>1, <1>2, <1>4 DEF ShellTimeout, k
  <1> QED BY <1>3, <1>4 DEF k

LEMMA Awaited == NextCall => Len(answers) < Len(round) /\ phase = "tools"
  BY DEF NextCall

(* What each tool does.                                                    *)
LEMMA FilesInBounds ==
  ASSUME ToolInv, FileRead \/ FileWrite
  PROVE  ToolInv'
  <1>1. NextCall /\ Admitted(Current) /\ UNCHANGED <<agent, task, phase, llmCalls, round, proc, out>>
    BY DEF FileRead, FileWrite, Runs
  <1>2. Len(answers) < Len(round) /\ phase = "tools"
    BY <1>1, Awaited
  <1>3. agent.tools # None /\ Current.tool \in agent.tools
    BY <1>1, <1>2, AdmittedIs DEF ToolInv
  <1>4. \E ok : Answer(ok)
    BY DEF FileRead, FileWrite
  <1>5. RoundInv'
    BY <1>1, <1>2, <1>4, RoundStep DEF ToolInv
  <1>6. ToolsStayInBounds'
    <2>1. CASE done' = done
      BY <1>1, <2>1, BoundsKept DEF ToolInv
    <2>2. CASE FileRead /\ Did("file_read", Resolve[Args.path.v])
      <3>1. Current.tool = "file_read" /\ PathAllowed(Args.path.v, "read")
        BY <2>2 DEF FileRead, Runs, Stopped, ToolPermits
      <3>2. Resolve[Args.path.v] \notin UNION Perms.filesystem.deny /\ Resolve[Args.path.v] \in UNION Perms.filesystem.read
        BY <3>1 DEF PathAllowed
      <3>3. "file_read" \in DOMAIN GrantedBy
        BY DEF GrantedBy
      <3> QED BY <1>1, <1>3, <2>2, <3>1, <3>2, <3>3, BoundsGrow DEF ToolInv
    <2>3. CASE FileWrite /\ Did("file_write", Resolve[Args.path.v])
      <3>1. Current.tool = "file_write" /\ PathAllowed(Args.path.v, "write")
        BY <2>3 DEF FileWrite, Runs, Stopped, ToolPermits
      <3>2. Resolve[Args.path.v] \notin UNION Perms.filesystem.deny /\ Resolve[Args.path.v] \in UNION Perms.filesystem.write
        BY <3>1 DEF PathAllowed
      <3>3. "file_write" \in DOMAIN GrantedBy
        BY DEF GrantedBy
      <3> QED BY <1>1, <1>3, <2>3, <3>1, <3>2, <3>3, BoundsGrow DEF ToolInv
    <2> QED BY <2>1, <2>2, <2>3 DEF FileRead, FileWrite
  <1>7. Configured' /\ ProcInv' /\ CallInv'
    BY <1>1, <1>2 DEF ToolInv, Configured, ProcInv, Perms, CallInv, LLMLimit
  <1> QED BY <1>5, <1>6, <1>7 DEF ToolInv

LEMMA CustomInBounds ==
  ASSUME ToolInv, CustomTool
  PROVE  ToolInv'
  <1>1. NextCall /\ Admitted(Current) /\ UNCHANGED <<agent, task, phase, llmCalls, round, proc, out>>
    BY DEF CustomTool
  <1>2. Len(answers) < Len(round) /\ phase = "tools"
    BY <1>1, Awaited
  <1>3. \E ok : Answer(ok)
    BY DEF CustomTool
  <1>4. RoundInv'
    BY <1>1, <1>2, <1>3, RoundStep DEF ToolInv
  <1>5. ToolsStayInBounds'
    <2>1. CASE done' = done
      BY <1>1, <2>1, BoundsKept DEF ToolInv
    <2>2. CASE Binds(Current.tool, Args) /\ Did(Current.tool, Args)
      <3> DEFINE t == Current.tool
      <3>1. /\ agent.tools # None /\ t \in agent.tools
            /\ t \in ToolRegistry
            /\ ~PositionalOnly(t) =>
                 /\ \A n \in DOMAIN Args : n \in ArgumentSpec(t).integers => Args[n].kind # "integer_text"
                 /\ BrokenNarrowings(ArgumentSpec(t), Args) = {}
        BY <1>1, <1>2, AdmittedIs DEF ToolInv
      <3>2. t \notin DOMAIN GrantedBy
        BY DEF CustomTool
      <3>3. \A p \in ToSet(Params(t)) : ByName(p) /\ p.type = "integer" => p.name \in ArgumentSpec(t).integers
        BY DEF ArgumentSpec
      <3>4. \A p \in ToSet(Params(t)) : ByName(p) /\ ~p.default => p.name \in DOMAIN Args
        BY <2>2 DEF Binds
      <3>5. t # "file_read" /\ t # "file_write" /\ t # "shell_exec" /\ t # "http_request"
        BY <3>2 DEF GrantedBy
      <3> HIDE DEF t
      <3>6. Did(t, Args)
        BY <2>2 DEF t
      <3>7. ASSUME NEW p \in ToSet(Params(t)) PROVE TakenAs(t, p, Args)
        <4> SUFFICES ASSUME ByName(p), p.name \in DOMAIN Args, ~PositionalOnly(t)
                     PROVE  /\ p.type = "integer" => Args[p.name].kind # "integer_text"
                            /\ p.name \in DOMAIN Sigs[t].narrow =>
                                 IsOfType(Args[p.name], p.type) \/ (Args[p.name].kind = "null" /\ p.none)
          BY DEF TakenAs
        <4> QED BY <3>1, <3>3, NarrowedIs
      <3> QED BY <1>1, <3>1, <3>4, <3>5, <3>6, <3>7, BoundsGrow DEF ToolInv
    <2> QED BY <2>1, <2>2 DEF CustomTool
  <1>6. Configured' /\ ProcInv' /\ CallInv'
    BY <1>1, <1>2 DEF ToolInv, Configured, ProcInv, Perms, CallInv, LLMLimit
  <1> QED BY <1>4, <1>5, <1>6 DEF ToolInv

LEMMA ShellInBounds ==
  ASSUME ToolInv, ShellStart
  PROVE  ToolInv'
  <1>1. NextCall /\ Admitted(Current) /\ UNCHANGED <<agent, task, llmCalls, round, out>>
    BY DEF ShellStart, Runs
  <1>2. Len(answers) < Len(round) /\ phase = "tools"
    BY <1>1, Awaited
  <1>3. /\ agent.tools # None /\ Current.tool \in agent.tools
        /\ \A n \in DOMAIN Args : Args[n].kind \in Numbers => Args[n].v \in Int
    BY <1>1, <1>2, AdmittedIs DEF ToolInv
  <1>4. CASE (\E ok : Answer(ok)) /\ UNCHANGED <<proc, done, phase>>
    <2>1. RoundInv'
      BY <1>1, <1>2, <1>4, RoundStep DEF ToolInv
    <2>2. ToolsStayInBounds'
      BY <1>1, <1>4, BoundsKept DEF ToolInv
    <2>3. Configured' /\ ProcInv' /\ CallInv'
      BY <1>1, <1>2, <1>4 DEF ToolInv, Configured, ProcInv, Perms, CallInv, LLMLimit
    <2> QED BY <2>1, <2>2, <2>3 DEF ToolInv
  <1>5. CASE /\ proc' = [state |-> "running", limit |-> ShellTimeout(RequestedTimeout(Args))]
             /\ Did("shell_exec", Args.command.v)
             /\ phase' = "shell" /\ UNCHANGED answers
    <2>1. RoundInv'
      BY <1>1, <1>2, <1>5, RoundStep DEF ToolInv
    <2>2. /\ Current.tool = "shell_exec" /\ GateCheck("shell_exec") /\ Comparable(Args)
          /\ \E p \in Perms.shell.allowed_commands : IsPrefix(p, Args.command.v)
      BY DEF ShellStart, Runs, Stopped, ToolPermits, IsCommandAllowed
    <2>3. ToolsStayInBounds'
      <3>1. "shell_exec" \in DOMAIN GrantedBy
        BY DEF GrantedBy
      <3> QED BY <1>1, <1>3, <1>5, <2>2, <3>1, BoundsGrow DEF ToolInv
    <2>4. Perms.shell.limit \in Int
      <3>1. Perms.shell # None
        BY <2>2 DEF GateCheck, GrantedBy
      <3> QED BY <3>1 DEF ToolInv, Configured, Perms
    <2>5. RequestedTimeout(Args) \in Int
      BY <1>3, <2>2 DEF RequestedTimeout, Comparable
    <2>6. /\ ShellTimeout(RequestedTimeout(Args)) \in Int /\ ShellTimeout(RequestedTimeout(Args)) <= MaxTimeout
          /\ Perms.shell.limit >= 1 => ShellTimeout(RequestedTimeout(Args)) <= Perms.shell.limit
      BY <2>4, <2>5, TimeoutIsCapped
    <2>7. ProcInv'
      BY <1>1, <1>5, <2>4, <2>5, <2>6 DEF ProcInv, Perms
    <2>8. Configured' /\ CallInv'
      BY <1>1, <1>2, <1>5 DEF ToolInv, Configured, CallInv, LLMLimit
    <2> QED BY <2>1, <2>3, <2>7, <2>8 DEF ToolInv
  <1> QED BY <1>4, <1>5 DEF ShellStart

LEMMA HttpInBounds ==
  ASSUME ToolInv, HttpStart
  PROVE  ToolInv'
  <1>1. NextCall /\ Admitted(Current) /\ UNCHANGED <<agent, task, llmCalls, round, answers, proc, out>> /\ phase' = "http"
    BY DEF HttpStart, Runs
  <1>2. Len(answers) < Len(round) /\ phase = "tools"
    BY <1>1, Awaited
  <1>3. agent.tools # None /\ Current.tool \in agent.tools
    BY <1>1, <1>2, AdmittedIs DEF ToolInv
  <1>4. RoundInv'
    BY <1>1, <1>2, RoundStep DEF ToolInv
  <1>5. ToolsStayInBounds'
    <2>1. Did("http_request", Hosts[Args.url.v].host) /\ Current.tool = "http_request" /\ Hosts[Args.url.v].host \in Perms.network.allow
      BY DEF HttpStart, Runs, Stopped, ToolPermits, HttpAllowed, UrlAllowed, IsDomainAllowed
    <2>2. "http_request" \in DOMAIN GrantedBy
      BY DEF GrantedBy
    <2> QED BY <1>1, <1>3, <2>1, <2>2, BoundsGrow DEF ToolInv
  <1>6. Configured' /\ ProcInv' /\ CallInv'
    BY <1>1, <1>2 DEF ToolInv, Configured, ProcInv, Perms, CallInv, LLMLimit
  <1> QED BY <1>4, <1>5, <1>6 DEF ToolInv

(* Every other step of a round: a refusal, the end of what was awaited.    *)
LEMMA RoundGoesOn ==
  ASSUME ToolInv, RefusedCall \/ StoppedCall \/ ShellExits \/ ShellTimesOut \/ ShellKilled \/ HttpEnds \/ AppendToolRound
  PROVE  ToolInv'
  <1>1. UNCHANGED <<agent, task, llmCalls, round, done, out>>
    BY DEF RefusedCall, StoppedCall, ShellExits, ShellTimesOut, ShellKilled, HttpEnds, AppendToolRound
  <1>2. RoundInv'
    <2>1. CASE AppendToolRound
      BY <2>1, <1>1 DEF AppendToolRound, ToolInv, RoundInv
    <2>2. CASE RefusedCall \/ StoppedCall \/ ShellExits \/ ShellTimesOut \/ ShellKilled \/ HttpEnds
      <3>1. Len(answers) < Len(round)
        BY <2>2, Awaited DEF RefusedCall, StoppedCall, ShellExits, ShellTimesOut, ShellKilled, HttpEnds, ToolInv, RoundInv
      <3>2. \/ (\E ok : Answer(ok)) /\ phase' = "tools"
            \/ answers' = answers /\ phase' \in {"shell", "grace", "http", "tools"}
        BY <2>2, Awaited DEF RefusedCall, StoppedCall, ShellExits, ShellTimesOut, ShellKilled, HttpEnds
      <3> QED BY <1>1, <3>1, <3>2, RoundStep DEF ToolInv
    <2> QED BY <2>1, <2>2
  <1>3. phase' \notin {"idle", "start"}
    BY Awaited DEF RefusedCall, StoppedCall, ShellExits, ShellTimesOut, ShellKilled, HttpEnds, AppendToolRound
  <1>4. ProcInv'
    <2>1. CASE proc' = proc /\ phase' = "tools" /\ phase \in {"tools", "http"}
      BY <1>1, <2>1 DEF ToolInv, ProcInv, Perms
    <2>2. CASE proc' = NoProc
      BY <1>1, <2>2, TaskAssumption DEF ToolInv, Configured, ProcInv, Perms, NoProc
    <2>3. CASE proc' = [proc EXCEPT !.state = "signalled"] /\ phase' = "grace"
      BY <1>1, <2>3 DEF ToolInv, ProcInv, Perms
    <2>4. CASE proc' = proc /\ phase = "tools" /\ phase' = "ask"
      BY <1>1, <2>4 DEF ToolInv, ProcInv, Perms
    <2> QED
      BY <2>1, <2>2, <2>3, <2>4, Awaited DEF RefusedCall, StoppedCall, ShellExits, ShellTimesOut, ShellKilled, HttpEnds, AppendToolRound
  <1>5. Configured' /\ CallInv' /\ ToolsStayInBounds'
    BY <1>1, <1>3, BoundsKept, CallsKept DEF ToolInv, Configured
  <1> QED BY <1>2, <1>4, <1>5 DEF ToolInv

(* A call of the model is one of those the task allows.                    *)
LEMMA CalledCounts ==
  ASSUME Configured, CallInv, Called, UNCHANGED <<agent, task>>, phase' \notin {"idle", "start"}
  PROVE  CallInv'
  <1>1. PICK S : llmCalls \in Seq(S)
    BY DEF CallInv
  <1> DEFINE T == S \cup {Lease}
  <1>2. llmCalls \in Seq(T) /\ Lease \in T /\ llmCalls' = Append(llmCalls, Lease) /\ Len(llmCalls) < LLMLimit
    BY <1>1 DEF Called
  <1> HIDE DEF T
  <1>3. llmCalls' \in Seq(T) /\ Len(llmCalls') = Len(llmCalls) + 1 /\ Len(llmCalls) \in Nat
    BY <1>2
  <1>4. LLMLimit \in Int /\ LLMLimit' = LLMLimit
    BY DEF LLMLimit, Configured
  <1> QED BY <1>2, <1>3, <1>4 DEF CallInv

LEMMA LoopGoesOn ==
  ASSUME ToolInv, LoopStep \/ CutOff \/ OrphanExits
  PROVE  ToolInv'
  <1>1. UNCHANGED <<agent, task, done>>
    BY DEF LoopStep, StartLoop, AskFails, AskExhausted, AskEnds, AskTools, CutOff, OrphanExits
  <1>2. ToolsStayInBounds' /\ Configured'
    BY <1>1, BoundsKept DEF ToolInv, Configured
  <1>3. CASE StartLoop
    BY <1>1, <1>2, <1>3 DEF StartLoop, Fail, Return, ToolInv, RoundInv, ProcInv, Perms, CallInv, LLMLimit
  <1>4. CASE AskFails \/ \E text \in Texts : AskEnds(text)
    <2>1. Called /\ phase' = "end" /\ phase = "ask" /\ UNCHANGED <<round, answers, proc>>
      BY <1>4 DEF AskFails, AskEnds, Fail, Return, Called
    <2>2. CallInv'
      BY <1>1, <2>1, CalledCounts DEF ToolInv
    <2>3. RoundInv' /\ ProcInv'
      BY <1>1, <2>1 DEF ToolInv, RoundInv, ProcInv, Perms
    <2> QED BY <1>2, <2>2, <2>3 DEF ToolInv
  <1>5. CASE \E r \in Rounds : AskTools(r)
    <2>1. PICK r \in Rounds : AskTools(r)
      BY <1>5
    <2>2. Called /\ phase = "ask" /\ phase' = "tools" /\ round' = r /\ answers' = <<>> /\ UNCHANGED <<proc, out>>
      BY <2>1 DEF AskTools, Called
    <2>3. CallInv'
      BY <1>1, <2>2, CalledCounts DEF ToolInv
    <2>4. Len(r) \in Nat
      <3>1. r \in Seq(ToSet(r))
        BY TaskAssumption
      <3> QED BY <3>1
    <2>5. <<>> \in Seq({}) /\ Len(<<>>) = 0 /\ DOMAIN <<>> = {}
      OBVIOUS
    <2>6. RoundInv' /\ ProcInv'
      BY <1>1, <2>2, <2>4, <2>5 DEF ToolInv, RoundInv, ProcInv, Perms
    <2> QED BY <1>2, <2>3, <2>6 DEF ToolInv
  <1>6. CASE AskExhausted
    BY <1>1, <1>2, <1>6 DEF AskExhausted, Fail, Return, ToolInv, RoundInv, ProcInv, Perms, CallInv, LLMLimit
  <1>7. CASE CutOff
    BY <1>1, <1>2, <1>7 DEF CutOff, ToolInv, RoundInv, ProcInv, Perms, CallInv, LLMLimit
  <1>8. CASE OrphanExits
    <2>1. ProcInv'
      BY <1>1, <1>8, TaskAssumption DEF OrphanExits, ToolInv, Configured, ProcInv, Perms, NoProc
    <2> QED BY <1>2, <1>8, <2>1 DEF OrphanExits, ToolInv, RoundInv, CallInv, LLMLimit
  <1> QED BY <1>3, <1>4, <1>5, <1>6, <1>7, <1>8 DEF LoopStep

(* The orchestrator's task, or a parent's.                                 *)
LEMMA TaskBegins ==
  ASSUME ToolInv, phase = "idle", phase' = "start", task'.max_llm_calls \in Int,
         UNCHANGED <<agent, llmCalls, round, answers, proc, done, out>>
  PROVE  ToolInv'
  <1>1. ToolsStayInBounds'
    BY BoundsKept DEF ToolInv
  <1>2. Configured' /\ RoundInv' /\ ProcInv' /\ CallInv'
    BY DEF ToolInv, Configured, RoundInv, ProcInv, Perms, CallInv
  <1> QED BY <1>1, <1>2 DEF ToolInv

LEMMA ToolSteps ==
  ToolInv /\ (request \in Requests) /\ [DelegationNext]_<<taskVars, delegationVars>> => ToolInv' /\ (request \in Requests)'
  <1> SUFFICES ASSUME ToolInv, request \in Requests, [DelegationNext]_<<taskVars, delegationVars>>
               PROVE  ToolInv' /\ request' \in Requests
    OBVIOUS
  <1>1. ASSUME UNCHANGED taskVars PROVE ToolInv'
    <2>1. ToolsStayInBounds'
      BY <1>1, BoundsKept DEF ToolInv, taskVars
    <2> QED BY <1>1, <2>1 DEF taskVars, ToolInv, Configured, RoundInv, ProcInv, Perms, CallInv, LLMLimit
  <1>2. CASE UNCHANGED <<taskVars, delegationVars>>
    BY <1>1, <1>2 DEF delegationVars
  <1>3. CASE ChildStep
    <2>1. request' = request
      BY <1>3 DEF ChildStep, delegationVars
    <2>2. CASE ExecuteTask
      <3>1. task'.max_llm_calls \in Int
        BY <2>2, TaskAssumption DEF ExecuteTask
      <3> QED BY <2>1, <2>2, <3>1, TaskBegins DEF ExecuteTask
    <2>3. CASE TaskNext
      BY <2>1, <2>3, FilesInBounds, CustomInBounds, ShellInBounds, HttpInBounds, RoundGoesOn, LoopGoesOn DEF TaskNext, ToolStep
    <2> QED BY <1>3, <2>2, <2>3 DEF ChildStep
  <1>4. CASE Dispatch
    <2>1. task'.max_llm_calls \in Int
      BY <1>4, RequestAssumption DEF Dispatch
    <2> QED BY <1>4, <2>1, TaskBegins DEF Dispatch
  <1>5. CASE DispatchRefused \/ ChildReturns \/ ChildCancelled \/ PersistRows \/ DispatchCancelled
    <2>1. UNCHANGED <<taskVars, request>>
      BY <1>5 DEF DispatchRefused, ChildReturns, ChildCancelled, PersistRows, StoreObservation, StoreFails, RollbackOne, DispatchCancelled
    <2> QED BY <1>1, <2>1
  <1> QED BY <1>2, <1>3, <1>4, <1>5 DEF DelegationNext, Spawn

(* Whatever the model asks for, in a task of the orchestrator's or of a    *)
(* parent's: no tool acts outside the agent's list, arguments and          *)
(* permissions, the calls of a round are answered in order and once, no    *)
(* subprocess outlives its call unless the run was cut off, and neither    *)
(* the time of a command nor the number of LLM calls passes its limit      *)
(* (tools/arg_check.py, permissions.py, builtin.py, base.py).              *)
THEOREM ToolUseStaysGoverned == DelegationSpec => []ToolUseIsGoverned
  <1>1. DelegationInit => ToolInv /\ request \in Requests
    <2> SUFFICES ASSUME DelegationInit PROVE ToolInv /\ request \in Requests
      OBVIOUS
    <2>1. <<>> \in Seq({}) /\ Len(<<>>) = 0 /\ DOMAIN <<>> = {}
      OBVIOUS
    <2>2. Configured /\ ProcInv
      BY TaskAssumption DEF DelegationInit, TaskInit, Configured, ProcInv, Perms, NoProc
    <2>3. RoundInv /\ CallInv /\ ToolsStayInBounds
      BY <2>1 DEF DelegationInit, TaskInit, RoundInv, CallInv, ToolsStayInBounds
    <2> QED BY <2>2, <2>3 DEF DelegationInit, ToolInv
  <1>2. ToolInv => ToolUseIsGoverned
    BY DEF ToolInv, RoundInv, ProcInv, Perms, CallInv, ToolUseIsGoverned, CallsAreSettled
  <1> QED BY <1>1, <1>2, ToolSteps, PTL DEF DelegationSpec

(***************************************************************************)
(* A turn.                                                                 *)
(***************************************************************************)
Waiting == {"received", "bidding", "composing", "calling", "critic", "revise", "guard", "storing", "persisting"}
PassedOver == {"dropped", "replayed", "suppressed", "silent"}
Failures == {"no_model", "idle", "no_response", "provider_error", "truncated", "timeout"}
Decided == PassedOver \cup Failures \cup {"acted", "denied", "raised"}
Live(e) == ~(InChannel(e) /\ e.depth >= MaxDepth) /\ e.model /\ ~e.replay
NoVerdict == [kind |-> NoOne]

(* The outcome is settled where the turn leaves the model's hands.         *)
PhaseInv ==
  /\ pc \in Waiting \cup {"raised", "executing", "done"}
  /\ pc \in Waiting => outcome \notin Decided
  /\ pc = "raised" => outcome \in {"denied", "raised"}
  /\ pc = "executing" => outcome \in Failures \cup {"acted"}
  /\ pc = "done" => outcome \in Decided

(* Every call is one of those the turn may make at its place.              *)
CountInv ==
  /\ calls \in [bid : Nat, turn : Nat, critic : Nat, revise : Nat] /\ rounds \in Nat
  /\ calls.bid <= 1 /\ (pc = "received" => calls.bid = 0)
  /\ calls.turn <= MaxCalls /\ (pc \in {"received", "bidding", "composing"} => calls.turn = 0)
  /\ pc \in {"received", "bidding", "composing", "calling"} => calls.critic = 0 /\ calls.revise = 0 /\ rounds = 0
  /\ pc \in {"critic", "revise"} => rounds < ReviseCap(ev) /\ calls.revise = rounds
  /\ pc = "critic" => calls.critic = rounds
  /\ pc = "revise" => calls.critic = rounds + 1
  /\ calls.critic <= MaxRevise /\ calls.revise <= calls.critic
  /\ outcome \in PassedOver => calls.turn = 0 /\ calls.critic = 0 /\ calls.revise = 0
  /\ outcome \in {"suppressed", "replayed", "dropped"} => calls.bid = 0

(* A turn is composed when the gate admits it and, where it must bid, the  *)
(* bid says so or is still out when the turn is given up.                  *)
GateInv ==
  /\ ev \in Events
  /\ pc = "received" => verdict = NoVerdict
  /\ pc = "bidding" => Live(ev) /\ Bids(ev) /\ verdict = NoVerdict
  /\ Composed /\ ev.model => Live(ev) /\ ResponseGate(ev).respond
  /\ verdict = NoVerdict \/ (Bids(ev) /\ verdict \in BidAnswers(ev) /\ (Composed <=> EvaluateSalience(ev, verdict)))
  /\ outcome = "suppressed" => Live(ev) /\ ~ResponseGate(ev).respond
  /\ outcome = "silent" => Live(ev) /\ Bids(ev)
  /\ outcome = "replayed" => ev.replay
  /\ ~Bids(ev) => calls.bid = 0

(* The episode is written once, on the way out.                            *)
EpisodeInv ==
  /\ stored \in {0, 1}
  /\ pc \in (Waiting \ {"persisting"}) \cup {"raised"} => stored = 0
  /\ pc = "persisting" \/ outcome = "acted" => stored = 1
  /\ outcome \in {"suppressed", "silent", "replayed"} =>
       stored = IF ev.sender = Me \/ ("close" \in ev.marks /\ ~ev.replay) THEN 0 ELSE 1

(* Only a turn that acted publishes its actions; a denial is published     *)
(* alone.                                                                  *)
SentInv ==
  /\ \E S : sent \in Seq(S)
  /\ pc \notin {"executing", "done"} => sent = <<>>
  /\ pc = "executing" /\ outcome # "acted" =>
       sent = <<>> /\ acts \in {<<>>, <<Complete(<<"error">>)>>, <<Nothing>>}
  /\ IF pc = "done" /\ outcome = "denied" /\ InChannel(ev) /\ "synthesis_turn" \notin ev.marks
     THEN Len(sent) = 1 /\ sent[1].err ELSE \A i \in DOMAIN sent : ~sent[i].err
  /\ \A i \in DOMAIN sent :
       /\ sent[i].claim.interaction => InRoom(sent[i]) /\ ev.interaction
       /\ sent[i].claim.synthesis => outcome = "acted" /\ "synthesis_turn" \in ev.marks

TurnInv == PhaseInv /\ CountInv /\ GateInv /\ EpisodeInv /\ SentInv

LEMMA PhaseInvStep ==
  ASSUME TurnInv, TurnNext
  PROVE  PhaseInv'
  <1>1. CASE TooDeep
    BY <1>1 DEF TurnInv, TooDeep, End, Untouched, PhaseInv, Waiting, PassedOver, Failures, Decided
  <1>2. CASE NoModel
    BY <1>2 DEF TurnInv, NoModel, Untouched, PhaseInv, Waiting, PassedOver, Failures, Decided
  <1>3. CASE Replay
    BY <1>3 DEF TurnInv, Replay, Begins, End, Untouched, PhaseInv, Waiting, PassedOver, Failures, Decided
  <1>4. CASE Suppress
    BY <1>4 DEF TurnInv, Suppress, Begins, End, Untouched, PhaseInv, Waiting, PassedOver, Failures, Decided
  <1>5. CASE TooLarge
    BY <1>5 DEF TurnInv, TooLarge, Begins, End, Untouched, PhaseInv, Waiting, PassedOver, Failures, Decided
  <1>6. CASE Bid
    BY <1>6 DEF TurnInv, Bid, Begins, Untouched, PhaseInv, Waiting, PassedOver, Failures, Decided
  <1>7. CASE BidAnswer
    BY <1>7 DEF TurnInv, BidAnswer, End, Untouched, PhaseInv, Waiting, PassedOver, Failures, Decided
  <1>8. CASE Admit
    BY <1>8 DEF TurnInv, Admit, Begins, Untouched, PhaseInv, Waiting, PassedOver, Failures, Decided
  <1>9. CASE Inject
    BY <1>9 DEF TurnInv, Inject, EndWithout, Untouched, PhaseInv, Waiting, PassedOver, Failures, Decided
  <1>10. CASE CallFails
    BY <1>10 DEF TurnInv, CallFails, EndWithout, Untouched, PhaseInv, Waiting, PassedOver, Failures, Decided
  <1>11. CASE CallTools
    BY <1>11 DEF TurnInv, CallTools, DecideTurn, Untouched, PhaseInv, Waiting, PassedOver, Failures, Decided
  <1>12. CASE CallTruncated
    BY <1>12 DEF TurnInv, CallTruncated, EndWithout, Untouched, PhaseInv, Waiting, PassedOver, Failures, Decided
  <1>13. CASE CallAnswers
    BY <1>13 DEF TurnInv, CallAnswers, DecideTurn, Untouched, PhaseInv, Waiting, PassedOver, Failures, Decided
  <1>14. CASE Critic
    BY <1>14 DEF TurnInv, Critic, Untouched, PhaseInv, Waiting, PassedOver, Failures, Decided
  <1>15. CASE Revise
    BY <1>15 DEF TurnInv, Revise, Untouched, PhaseInv, Waiting, PassedOver, Failures, Decided
  <1>16. CASE Guard
    BY <1>16 DEF TurnInv, Guard, Untouched, PhaseInv, Waiting, PassedOver, Failures, Decided
  <1>17. CASE Store
    BY <1>17 DEF TurnInv, Store, Untouched, PhaseInv, Waiting, PassedOver, Failures, Decided
  <1>18. CASE PersistTurn
    BY <1>18 DEF TurnInv, PersistTurn, Untouched, PhaseInv, Waiting, PassedOver, Failures, Decided
  <1>19. CASE Timeout
    BY <1>19 DEF TurnInv, Timeout, EndWithout, Untouched, PhaseInv, Waiting, PassedOver, Failures, Decided
  <1>20. CASE Execute
    BY <1>20 DEF TurnInv, Execute, Untouched, PhaseInv, Waiting, PassedOver, Failures, Decided
  <1>21. CASE Executed
    BY <1>21 DEF TurnInv, Executed, Untouched, PhaseInv, Waiting, PassedOver, Failures, Decided
  <1>22. CASE Recover
    BY <1>22 DEF TurnInv, Recover, Untouched, PhaseInv, Waiting, PassedOver, Failures, Decided
  <1> QED BY <1>1, <1>2, <1>3, <1>4, <1>5, <1>6, <1>7, <1>8, <1>9, <1>10, <1>11, <1>12, <1>13, <1>14, <1>15, <1>16, <1>17, <1>18, <1>19, <1>20, <1>21, <1>22 DEF TurnNext

LEMMA CountInvStep ==
  ASSUME TurnInv, TurnNext
  PROVE  CountInv'
  <1>1. CASE TooDeep
    BY <1>1, TurnAssumption DEF TurnInv, TooDeep, End, Untouched, PhaseInv, CountInv, Waiting, PassedOver, Failures, Decided, ReviseCap, MinOf
  <1>2. CASE NoModel
    BY <1>2, TurnAssumption DEF TurnInv, NoModel, Untouched, PhaseInv, CountInv, Waiting, PassedOver, Failures, Decided, ReviseCap, MinOf
  <1>3. CASE Replay
    BY <1>3, TurnAssumption DEF TurnInv, Replay, Begins, End, Untouched, PhaseInv, CountInv, Waiting, PassedOver, Failures, Decided, ReviseCap, MinOf
  <1>4. CASE Suppress
    BY <1>4, TurnAssumption DEF TurnInv, Suppress, Begins, End, Untouched, PhaseInv, CountInv, Waiting, PassedOver, Failures, Decided, ReviseCap, MinOf
  <1>5. CASE TooLarge
    BY <1>5, TurnAssumption DEF TurnInv, TooLarge, Begins, End, Untouched, PhaseInv, CountInv, Waiting, PassedOver, Failures, Decided, ReviseCap, MinOf
  <1>6. CASE Bid
    <2>1. calls' = [calls EXCEPT !.bid = @ + 1]
      BY <1>6 DEF Bid
    <2>2. /\ calls' \in [bid : Nat, turn : Nat, critic : Nat, revise : Nat] /\ calls'.bid = calls.bid + 1
          /\ calls'.turn = calls.turn /\ calls'.critic = calls.critic /\ calls'.revise = calls.revise
      BY <2>1 DEF TurnInv, CountInv
    <2>3. pc = "received" /\ pc' = "bidding" /\ outcome' \notin Decided /\ UNCHANGED <<ev, plan, rounds>>
      BY <1>6, TurnAssumption DEF TurnInv, Bid, Begins, Untouched, PhaseInv, CountInv, Waiting, PassedOver, Failures, Decided, ReviseCap, MinOf
    <2> QED BY <2>2, <2>3, TurnAssumption DEF TurnInv, PhaseInv, CountInv, Waiting, PassedOver, Failures, Decided, ReviseCap
  <1>7. CASE BidAnswer
    BY <1>7, TurnAssumption DEF TurnInv, BidAnswer, End, Untouched, PhaseInv, CountInv, Waiting, PassedOver, Failures, Decided, ReviseCap, MinOf
  <1>8. CASE Admit
    BY <1>8, TurnAssumption DEF TurnInv, Admit, Begins, Untouched, PhaseInv, CountInv, Waiting, PassedOver, Failures, Decided, ReviseCap, MinOf
  <1>9. CASE Inject
    BY <1>9, TurnAssumption DEF TurnInv, Inject, EndWithout, Untouched, PhaseInv, CountInv, Waiting, PassedOver, Failures, Decided, ReviseCap, MinOf
  <1>10. CASE CallFails
    <2>1. calls' = [calls EXCEPT !.turn = @ + 1]
      BY <1>10 DEF CallFails
    <2>2. /\ calls' \in [bid : Nat, turn : Nat, critic : Nat, revise : Nat] /\ calls'.turn = calls.turn + 1
          /\ calls'.bid = calls.bid /\ calls'.critic = calls.critic /\ calls'.revise = calls.revise
      BY <2>1 DEF TurnInv, CountInv
    <2>3. pc = "calling" /\ pc' \in {"executing", "raised"} /\ outcome' \notin PassedOver /\ calls.turn < MaxCalls /\ UNCHANGED <<ev, plan, rounds>>
      BY <1>10, TurnAssumption DEF TurnInv, CallFails, EndWithout, Untouched, PhaseInv, CountInv, Waiting, PassedOver, Failures, Decided, ReviseCap, MinOf
    <2> QED BY <2>2, <2>3, TurnAssumption DEF TurnInv, PhaseInv, CountInv, Waiting, PassedOver, Failures, Decided, ReviseCap
  <1>11. CASE CallTools
    <2>1. calls' = [calls EXCEPT !.turn = @ + 1]
      BY <1>11 DEF CallTools
    <2>2. /\ calls' \in [bid : Nat, turn : Nat, critic : Nat, revise : Nat] /\ calls'.turn = calls.turn + 1
          /\ calls'.bid = calls.bid /\ calls'.critic = calls.critic /\ calls'.revise = calls.revise
      BY <2>1 DEF TurnInv, CountInv
    <2>3. /\ pc = "calling" /\ calls.turn < MaxCalls /\ UNCHANGED <<ev, plan, rounds>> /\ outcome' \notin PassedOver
          /\ pc' \in {"calling", "guard", "raised"} \/ (pc' = "critic" /\ ReviseCap(ev) > 0)
      BY <1>11, TurnAssumption DEF TurnInv, CallTools, DecideTurn, Untouched, PhaseInv, CountInv, Waiting, PassedOver, Failures, Decided, ReviseCap, MinOf
    <2> QED BY <2>2, <2>3, TurnAssumption DEF TurnInv, PhaseInv, CountInv, Waiting, PassedOver, Failures, Decided, ReviseCap
  <1>12. CASE CallTruncated
    <2>1. calls' = [calls EXCEPT !.turn = @ + 1]
      BY <1>12 DEF CallTruncated
    <2>2. /\ calls' \in [bid : Nat, turn : Nat, critic : Nat, revise : Nat] /\ calls'.turn = calls.turn + 1
          /\ calls'.bid = calls.bid /\ calls'.critic = calls.critic /\ calls'.revise = calls.revise
      BY <2>1 DEF TurnInv, CountInv
    <2>3. pc = "calling" /\ pc' \in {"executing", "raised"} /\ outcome' \notin PassedOver /\ calls.turn < MaxCalls /\ UNCHANGED <<ev, plan, rounds>>
      BY <1>12, TurnAssumption DEF TurnInv, CallTruncated, EndWithout, Untouched, PhaseInv, CountInv, Waiting, PassedOver, Failures, Decided, ReviseCap, MinOf
    <2> QED BY <2>2, <2>3, TurnAssumption DEF TurnInv, PhaseInv, CountInv, Waiting, PassedOver, Failures, Decided, ReviseCap
  <1>13. CASE CallAnswers
    <2>1. calls' = [calls EXCEPT !.turn = @ + 1]
      BY <1>13 DEF CallAnswers
    <2>2. /\ calls' \in [bid : Nat, turn : Nat, critic : Nat, revise : Nat] /\ calls'.turn = calls.turn + 1
          /\ calls'.bid = calls.bid /\ calls'.critic = calls.critic /\ calls'.revise = calls.revise
      BY <2>1 DEF TurnInv, CountInv
    <2>3. /\ pc = "calling" /\ calls.turn < MaxCalls /\ UNCHANGED <<ev, plan, rounds>> /\ outcome' \notin PassedOver
          /\ pc' \in {"calling", "guard", "raised"} \/ (pc' = "critic" /\ ReviseCap(ev) > 0)
      BY <1>13, TurnAssumption DEF TurnInv, CallAnswers, DecideTurn, Untouched, PhaseInv, CountInv, Waiting, PassedOver, Failures, Decided, ReviseCap, MinOf
    <2> QED BY <2>2, <2>3, TurnAssumption DEF TurnInv, PhaseInv, CountInv, Waiting, PassedOver, Failures, Decided, ReviseCap
  <1>14. CASE Critic
    <2>1. calls' = [calls EXCEPT !.critic = @ + 1]
      BY <1>14 DEF Critic
    <2>2. /\ calls' \in [bid : Nat, turn : Nat, critic : Nat, revise : Nat] /\ calls'.critic = calls.critic + 1
          /\ calls'.bid = calls.bid /\ calls'.turn = calls.turn /\ calls'.revise = calls.revise
      BY <2>1 DEF TurnInv, CountInv
    <2>3. pc = "critic" /\ pc' \in {"revise", "guard"} /\ outcome' \notin Decided /\ rounds < ReviseCap(ev) /\ ReviseCap(ev) \in Int /\ ReviseCap(ev) <= MaxRevise /\ UNCHANGED <<ev, plan, rounds>>
      BY <1>14, TurnAssumption DEF TurnInv, Critic, Untouched, GateInv, PhaseInv, CountInv, Waiting, PassedOver, Failures, Decided, ReviseCap, MinOf
    <2> QED BY <2>2, <2>3, TurnAssumption DEF TurnInv, PhaseInv, CountInv, Waiting, PassedOver, Failures, Decided, ReviseCap
  <1>15. CASE Revise
    <2>1. calls' = [calls EXCEPT !.revise = @ + 1]
      BY <1>15 DEF Revise
    <2>2. /\ calls' \in [bid : Nat, turn : Nat, critic : Nat, revise : Nat] /\ calls'.revise = calls.revise + 1
          /\ calls'.bid = calls.bid /\ calls'.turn = calls.turn /\ calls'.critic = calls.critic
      BY <2>1 DEF TurnInv, CountInv
    <2>3. /\ pc = "revise" /\ outcome' \notin Decided /\ UNCHANGED <<ev, plan>> /\ rounds < ReviseCap(ev)
          /\ (pc' = "guard" /\ rounds' = rounds) \/ (rounds' = rounds + 1 /\ pc' = IF rounds + 1 < ReviseCap(ev) THEN "critic" ELSE "guard")
      BY <1>15, TurnAssumption DEF TurnInv, Revise, Untouched, PhaseInv, CountInv, Waiting, PassedOver, Failures, Decided, ReviseCap, MinOf
    <2> QED BY <2>2, <2>3, TurnAssumption DEF TurnInv, PhaseInv, CountInv, Waiting, PassedOver, Failures, Decided, ReviseCap
  <1>16. CASE Guard
    BY <1>16, TurnAssumption DEF TurnInv, Guard, Untouched, PhaseInv, CountInv, Waiting, PassedOver, Failures, Decided, ReviseCap, MinOf
  <1>17. CASE Store
    BY <1>17, TurnAssumption DEF TurnInv, Store, Untouched, PhaseInv, CountInv, Waiting, PassedOver, Failures, Decided, ReviseCap, MinOf
  <1>18. CASE PersistTurn
    BY <1>18, TurnAssumption DEF TurnInv, PersistTurn, Untouched, PhaseInv, CountInv, Waiting, PassedOver, Failures, Decided, ReviseCap, MinOf
  <1>19. CASE Timeout
    BY <1>19, TurnAssumption DEF TurnInv, Timeout, EndWithout, Untouched, PhaseInv, CountInv, Waiting, PassedOver, Failures, Decided, ReviseCap, MinOf
  <1>20. CASE Execute
    BY <1>20, TurnAssumption DEF TurnInv, Execute, Untouched, PhaseInv, CountInv, Waiting, PassedOver, Failures, Decided, ReviseCap, MinOf
  <1>21. CASE Executed
    BY <1>21, TurnAssumption DEF TurnInv, Executed, Untouched, PhaseInv, CountInv, Waiting, PassedOver, Failures, Decided, ReviseCap, MinOf
  <1>22. CASE Recover
    BY <1>22, TurnAssumption DEF TurnInv, Recover, Untouched, PhaseInv, CountInv, Waiting, PassedOver, Failures, Decided, ReviseCap, MinOf
  <1> QED BY <1>1, <1>2, <1>3, <1>4, <1>5, <1>6, <1>7, <1>8, <1>9, <1>10, <1>11, <1>12, <1>13, <1>14, <1>15, <1>16, <1>17, <1>18, <1>19, <1>20, <1>21, <1>22 DEF TurnNext

LEMMA Reasons ==
  ASSUME NEW e
  PROVE  /\ ~ResponseGate(e).respond =>
              ((e.sender = Me \/ "close" \in e.marks) <=> ResponseGate(e).reason \in {"close_notification", "self_sender"})
         /\ Bids(e) => e.sender # Me /\ "close" \notin e.marks /\ ResponseGate(e).respond
  BY DEF ResponseGate, DirectGate, GroupGate, AlwaysGate, MentionedGate, Decision, Bids, IsOpenFloorAdmit

LEMMA EpisodeInvStep ==
  ASSUME TurnInv, TurnNext
  PROVE  EpisodeInv'
  <1>1. CASE TooDeep
    BY <1>1 DEF TurnInv, TooDeep, End, Untouched, PhaseInv, EpisodeInv, Waiting, PassedOver, Failures, Decided
  <1>2. CASE NoModel
    BY <1>2 DEF TurnInv, NoModel, Untouched, PhaseInv, EpisodeInv, Waiting, PassedOver, Failures, Decided
  <1>3. CASE Replay
    <2>1. stored = 0 /\ pc' = "done" /\ outcome' = "replayed" /\ ev' = ev /\ ev.replay /\ stored' = IF ev.sender # Me THEN stored + 1 ELSE stored
      BY <1>3 DEF TurnInv, Replay, Begins, End, Untouched, PhaseInv, EpisodeInv, Waiting, PassedOver, Failures, Decided
    <2>2. stored' = IF ev.sender = Me THEN 0 ELSE 1
      BY <2>1
    <2> QED BY <2>1, <2>2 DEF PhaseInv, EpisodeInv, Waiting, PassedOver, Failures, Decided
  <1>4. CASE Suppress
    <2>1. /\ stored = 0 /\ pc' = "done" /\ outcome' = "suppressed" /\ ev' = ev /\ ~ev.replay /\ ~ResponseGate(ev).respond
          /\ stored' = IF ResponseGate(ev).reason \in {"close_notification", "self_sender"} THEN stored ELSE stored + 1
      BY <1>4 DEF TurnInv, Suppress, Begins, End, Untouched, PhaseInv, EpisodeInv, Waiting, PassedOver, Failures, Decided
    <2>2. stored' = IF ev.sender = Me \/ "close" \in ev.marks THEN 0 ELSE 1
      BY <2>1, Reasons
    <2> QED BY <2>1, <2>2 DEF PhaseInv, EpisodeInv, Waiting, PassedOver, Failures, Decided
  <1>5. CASE TooLarge
    <2>1. stored = 0 /\ pc' = "done" /\ outcome' = "silent" /\ ev' = ev /\ Bids(ev) /\ stored' = stored + 1
      BY <1>5 DEF TurnInv, TooLarge, Begins, End, Untouched, PhaseInv, EpisodeInv, Waiting, PassedOver, Failures, Decided
    <2>2. stored' = 1
      BY <2>1
    <2> QED BY <2>1, <2>2, Reasons DEF PhaseInv, EpisodeInv, Waiting, PassedOver, Failures, Decided
  <1>6. CASE Bid
    BY <1>6 DEF TurnInv, Bid, Begins, Untouched, PhaseInv, EpisodeInv, Waiting, PassedOver, Failures, Decided
  <1>7. CASE BidAnswer
    <2>1. stored = 0 /\ outcome \notin Decided /\ ev' = ev /\ Bids(ev)
      BY <1>7 DEF TurnInv, BidAnswer, Untouched, GateInv, PhaseInv, EpisodeInv, Waiting, PassedOver, Failures, Decided
    <2>2. CASE pc' = "composing" /\ UNCHANGED <<outcome, stored>>
      BY <2>1, <2>2 DEF PhaseInv, EpisodeInv, Waiting, PassedOver, Failures, Decided
    <2>3. CASE pc' = "done" /\ outcome' = "silent" /\ stored' = stored + 1
      <3>1. stored' = 1
        BY <2>1, <2>3
      <3> QED BY <2>1, <2>3, <3>1, Reasons DEF PhaseInv, EpisodeInv, Waiting, PassedOver, Failures, Decided
    <2> QED BY <1>7, <2>2, <2>3 DEF BidAnswer, End
  <1>8. CASE Admit
    BY <1>8 DEF TurnInv, Admit, Begins, Untouched, PhaseInv, EpisodeInv, Waiting, PassedOver, Failures, Decided
  <1>9. CASE Inject
    BY <1>9 DEF TurnInv, Inject, EndWithout, Untouched, PhaseInv, EpisodeInv, Waiting, PassedOver, Failures, Decided
  <1>10. CASE CallFails
    BY <1>10 DEF TurnInv, CallFails, EndWithout, Untouched, PhaseInv, EpisodeInv, Waiting, PassedOver, Failures, Decided
  <1>11. CASE CallTools
    BY <1>11 DEF TurnInv, CallTools, DecideTurn, Untouched, PhaseInv, EpisodeInv, Waiting, PassedOver, Failures, Decided
  <1>12. CASE CallTruncated
    BY <1>12 DEF TurnInv, CallTruncated, EndWithout, Untouched, PhaseInv, EpisodeInv, Waiting, PassedOver, Failures, Decided
  <1>13. CASE CallAnswers
    BY <1>13 DEF TurnInv, CallAnswers, DecideTurn, Untouched, PhaseInv, EpisodeInv, Waiting, PassedOver, Failures, Decided
  <1>14. CASE Critic
    BY <1>14 DEF TurnInv, Critic, Untouched, PhaseInv, EpisodeInv, Waiting, PassedOver, Failures, Decided
  <1>15. CASE Revise
    BY <1>15 DEF TurnInv, Revise, Untouched, PhaseInv, EpisodeInv, Waiting, PassedOver, Failures, Decided
  <1>16. CASE Guard
    BY <1>16 DEF TurnInv, Guard, Untouched, PhaseInv, EpisodeInv, Waiting, PassedOver, Failures, Decided
  <1>17. CASE Store
    <2>1. pc = "storing" /\ stored = 0 /\ outcome \notin Decided /\ stored' = stored + 1 /\ pc' = "persisting" /\ outcome' = outcome
      BY <1>17 DEF TurnInv, Store, PhaseInv, EpisodeInv, Waiting, PassedOver, Failures, Decided
    <2>2. stored' = 1
      BY <2>1
    <2> QED BY <2>1, <2>2 DEF PhaseInv, EpisodeInv, Waiting, PassedOver, Failures, Decided
  <1>18. CASE PersistTurn
    BY <1>18 DEF TurnInv, PersistTurn, Untouched, PhaseInv, EpisodeInv, Waiting, PassedOver, Failures, Decided
  <1>19. CASE Timeout
    BY <1>19 DEF TurnInv, Timeout, EndWithout, Untouched, PhaseInv, EpisodeInv, Waiting, PassedOver, Failures, Decided
  <1>20. CASE Execute
    BY <1>20 DEF TurnInv, Execute, Untouched, PhaseInv, EpisodeInv, Waiting, PassedOver, Failures, Decided
  <1>21. CASE Executed
    BY <1>21 DEF TurnInv, Executed, Untouched, PhaseInv, EpisodeInv, Waiting, PassedOver, Failures, Decided
  <1>22. CASE Recover
    BY <1>22 DEF TurnInv, Recover, Untouched, PhaseInv, EpisodeInv, Waiting, PassedOver, Failures, Decided
  <1> QED BY <1>1, <1>2, <1>3, <1>4, <1>5, <1>6, <1>7, <1>8, <1>9, <1>10, <1>11, <1>12, <1>13, <1>14, <1>15, <1>16, <1>17, <1>18, <1>19, <1>20, <1>21, <1>22 DEF TurnNext

(* The gate, seen from the event.                                          *)
LEMMA GateDecides ==
  ASSUME NEW e, InChannel(e)
  PROVE  /\ Addressed(e) => ResponseGate(e).respond /\ ~Bids(e)
         /\ OutOfTurn(e) => ~ResponseGate(e).respond /\ ~Bids(e)
  BY DEF Addressed, OutOfTurn, ResponseGate, DirectGate, GroupGate, AlwaysGate, MentionedGate, DirectedAt, Decision, Bids,
         IsOpenFloorAdmit, ForcedMarkers

(* Being named lowers the bar, another name raises it.                     *)
LEMMA BarMoves ==
  ASSUME NEW e
  PROVE  /\ Threshold(e) \in 0..10 /\ \A a : Bar(e, a) \in Int
         /\ Bar(e, "other") >= Threshold(e) /\ Bar(e, "self") <= Threshold(e)
  BY DEF Threshold, Bar, MaxOf, MinOf

(* What an event that reaches the turn has passed.                         *)
LEMMA BeginsLive == Begins /\ ~ev.replay => Live(ev)
  BY DEF Begins, Live

(* Steps that settle nothing of the gate: the turn stays composed.         *)
LEMMA ComposedStays ==
  ASSUME TurnInv, Composed, UNCHANGED <<ev, verdict>>, calls'.bid = calls.bid,
         pc' \notin {"received", "bidding"}, outcome' \notin PassedOver
  PROVE  GateInv'
  BY DEF TurnInv, GateInv, Composed, PassedOver, BidAnswers, Live

LEMMA GateInvStep ==
  ASSUME TurnInv, TurnNext
  PROVE  GateInv'
  <1>1. CASE TooDeep
    BY <1>1 DEF TurnInv, TooDeep, End, Untouched, GateInv, Composed
  <1>2. CASE NoModel
    BY <1>2 DEF TurnInv, NoModel, Untouched, GateInv, Composed
  <1>3. CASE Replay
    BY <1>3 DEF TurnInv, Replay, Begins, End, Untouched, GateInv, Composed
  <1>4. CASE Suppress
    BY <1>4, BeginsLive DEF TurnInv, Suppress, Begins, End, Untouched, GateInv, Composed
  <1>5. CASE TooLarge
    BY <1>5, BeginsLive DEF TurnInv, TooLarge, Begins, End, Untouched, GateInv, Composed
  <1>6. CASE Bid
    BY <1>6, BeginsLive DEF TurnInv, Bid, Begins, Untouched, GateInv, Composed
  <1>7. CASE BidAnswer
    <2>1. Live(ev) /\ Bids(ev) /\ ResponseGate(ev).respond /\ UNCHANGED <<ev, calls>> /\ ev \in Events
      BY <1>7, Reasons DEF BidAnswer, Untouched, TurnInv, GateInv
    <2>2. PICK a \in BidAnswers(ev) :
            /\ verdict' = a
            /\ \/ EvaluateSalience(ev, a) /\ pc' = "composing" /\ outcome' = outcome
               \/ ~EvaluateSalience(ev, a) /\ pc' = "done" /\ outcome' = "silent"
      BY <1>7 DEF BidAnswer, End
    <2>3. outcome \notin PassedOver
      BY <1>7 DEF BidAnswer, TurnInv, PhaseInv, Waiting, Decided
    <2> QED BY <2>1, <2>2, <2>3 DEF GateInv, Composed, PassedOver, BidAnswers
  <1>8. CASE Admit
    BY <1>8, BeginsLive DEF TurnInv, Admit, Begins, Untouched, GateInv, Composed
  <1>9. CASE Timeout /\ pc = "bidding"
    BY <1>9, Reasons DEF TurnInv, Timeout, EndWithout, Untouched, GateInv, Composed
  <1>10. CASE \/ Inject \/ CallFails \/ CallTools \/ CallTruncated \/ CallAnswers \/ Critic \/ Revise \/ Guard \/ Store
              \/ PersistTurn \/ (Timeout /\ pc # "bidding") \/ Execute \/ Executed \/ Recover
    <2>1. UNCHANGED <<ev, verdict>>
      BY <1>10 DEF Inject, CallFails, CallTools, CallTruncated, CallAnswers, Critic, Revise, Guard, Store, PersistTurn, Timeout,
         Execute, Executed, Recover, Untouched
    <2>2. calls'.bid = calls.bid
      <3>1. calls' = calls \/ \E f \in {"turn", "critic", "revise"} : calls' = [calls EXCEPT ![f] = @ + 1]
        BY <1>10 DEF Inject, CallFails, CallTools, CallTruncated, CallAnswers, Critic, Revise, Guard, Store, PersistTurn, Timeout,
           Execute, Executed, Recover, Untouched
      <3> QED BY <3>1 DEF TurnInv, CountInv
    <2>3. Composed
      BY <1>10 DEF Inject, CallFails, CallTools, CallTruncated, CallAnswers, Critic, Revise, Guard, Store, PersistTurn, Timeout,
         Execute, Executed, Recover, Composed, TurnInv, PhaseInv, Waiting, PassedOver, Failures, Decided
    <2>4. pc' \notin {"received", "bidding"} /\ outcome' \notin PassedOver
      BY <1>10 DEF Inject, CallFails, CallTools, CallTruncated, CallAnswers, DecideTurn, EndWithout, Critic, Revise, Guard, Store, PersistTurn, Timeout,
         Execute, Executed, Recover, TurnInv, PhaseInv, Waiting, PassedOver, Failures, Decided
    <2> QED BY <2>1, <2>2, <2>3, <2>4, ComposedStays
  <1> QED BY <1>1, <1>2, <1>3, <1>4, <1>5, <1>6, <1>7, <1>8, <1>9, <1>10 DEF TurnNext

(* One publish more.                                                       *)
LEMMA PublishIs ==
  ASSUME NEW a, NEW err, Publish(a, err)
  PROVE  \E x : sent' = Append(sent, x) /\ x.err = err /\ x.ch = a.ch /\ x.claim = Claim(a.ch, ~err)
  <1>1. PICK landed \in BOOLEAN : sent' = Append(sent, Publication(a, err, landed))
    BY DEF Publish
  <1> DEFINE x == Publication(a, err, landed)
  <1>2. x.err = err /\ x.ch = a.ch /\ x.claim = Claim(a.ch, ~err)
    BY DEF Publication
  <1> HIDE DEF x
  <1>3. sent' = Append(sent, x)
    BY <1>1 DEF x
  <1> QED BY <1>2, <1>3

LEMMA ClaimIs ==
  ASSUME NEW ch, NEW s
  PROVE  /\ Claim(ch, s).interaction => ch = ev.ch /\ ev.interaction
         /\ Claim(ch, s).synthesis => s /\ "synthesis_turn" \in ev.marks
  BY DEF Claim

LEMMA Appended ==
  ASSUME NEW S, sent \in Seq(S), NEW x, sent' = Append(sent, x)
  PROVE  /\ \E T : sent' \in Seq(T)
         /\ Len(sent') = Len(sent) + 1 /\ sent'[Len(sent) + 1] = x
         /\ \A i \in DOMAIN sent' : sent'[i] = x \/ \E j \in DOMAIN sent : sent'[i] = sent[j]
  <1> DEFINE T == S \cup {x}
  <1>1. sent \in Seq(T) /\ x \in T
    OBVIOUS
  <1> HIDE DEF T
  <1> QED BY <1>1

(* Where nothing is published.                                             *)
LEMMA SentKept ==
  ASSUME TurnInv, UNCHANGED <<ev, sent>>,
         \/ sent = <<>> /\ ~(pc' = "done" /\ outcome' = "denied" /\ InChannel(ev) /\ "synthesis_turn" \notin ev.marks)
         \/ pc = "executing" /\ pc' = "done" /\ outcome' = outcome,
         pc' = "executing" /\ outcome' # "acted" => acts' \in {<<>>, <<Complete(<<"error">>)>>, <<Nothing>>}
  PROVE  SentInv'
  BY DEF TurnInv, PhaseInv, SentInv, InRoom, Failures

LEMMA SentInvStep ==
  ASSUME TurnInv, TurnNext
  PROVE  SentInv'
  <1>1. CASE TooDeep \/ NoModel \/ Replay \/ Suppress \/ TooLarge \/ Bid \/ BidAnswer \/ Admit
    <2>1. UNCHANGED <<ev, sent>> /\ sent = <<>> /\ outcome' # "denied"
      BY <1>1 DEF TooDeep, NoModel, Replay, Suppress, TooLarge, Bid, BidAnswer, Admit, Begins, End, Untouched,
         TurnInv, SentInv, PhaseInv, Waiting, Decided
    <2>2. pc' = "executing" => acts' = <<Complete(<<"error">>)>>
      BY <1>1 DEF TooDeep, NoModel, Replay, Suppress, TooLarge, Bid, BidAnswer, Admit, End
    <2> QED BY <2>1, <2>2, SentKept
  <1>2. CASE \/ Inject \/ CallFails \/ CallTools \/ CallTruncated \/ CallAnswers \/ Critic \/ Revise \/ Guard \/ Store
             \/ PersistTurn \/ Timeout
    <2>1. UNCHANGED <<ev, sent>> /\ sent = <<>>
      BY <1>2 DEF Inject, CallFails, CallTools, CallTruncated, CallAnswers, Critic, Revise, Guard, Store, PersistTurn, Timeout,
         Untouched, TurnInv, SentInv
    <2>2. pc' # "done"
      BY <1>2 DEF Inject, CallFails, CallTools, CallTruncated, CallAnswers, DecideTurn, EndWithout, Critic, Revise, Guard, Store,
         PersistTurn, Timeout
    <2>3. pc' = "executing" /\ outcome' # "acted" => acts' \in {<<Complete(<<"error">>)>>, <<Nothing>>}
      BY <1>2 DEF Inject, CallFails, CallTools, CallTruncated, CallAnswers, DecideTurn, EndWithout, Critic, Revise, Guard, Store,
         PersistTurn, Timeout, GivenUp
    <2> QED BY <2>1, <2>2, <2>3, SentKept
  <1>3. CASE Execute
    <2>1. pc = "executing" /\ UNCHANGED <<ev, pc, outcome>> /\ acts # <<>> /\ acts' = Tail(acts)
      BY <1>3 DEF Execute
    <2>2. CASE outcome # "acted"
      <3>1. sent = <<>> /\ acts \in {<<Complete(<<"error">>)>>, <<Nothing>>}
        BY <2>1, <2>2 DEF TurnInv, SentInv
      <3>2. Head(acts).type \in {"complete", "nothing"} /\ Tail(acts) = <<>>
        <4>1. PICK r : acts = <<r>> /\ r.type \in {"complete", "nothing"}
          <5>1. Complete(<<"error">>).type = "complete" /\ Nothing.type = "nothing"
            BY DEF Complete, Nothing
          <5> QED BY <3>1, <5>1
        <4>2. Head(<<r>>) = r /\ Tail(<<r>>) = <<>>
          OBVIOUS
        <4> QED BY <4>1, <4>2
      <3>3. ~Publishes(Head(acts))
        BY <3>2 DEF Publishes
      <3>4. sent' = sent
        BY <1>3, <3>3 DEF Execute
      <3> QED BY <2>1, <3>1, <3>2, <3>4, SentKept
    <2>3. CASE outcome = "acted" /\ sent' = sent
      BY <2>1, <2>3 DEF TurnInv, SentInv, InRoom
    <2>4. CASE outcome = "acted" /\ Publish(WithContent(Head(acts)), FALSE)
      <3>1. PICK x : sent' = Append(sent, x) /\ x.err = FALSE /\ x.ch = WithContent(Head(acts)).ch /\ x.claim = Claim(WithContent(Head(acts)).ch, ~FALSE)
        BY <2>4, PublishIs, Zenon
      <3>2. ~x.err /\ (x.claim.interaction => x.ch = ev.ch /\ ev.interaction) /\ (x.claim.synthesis => "synthesis_turn" \in ev.marks)
        BY <3>1, ClaimIs
      <3>3. PICK S : sent \in Seq(S)
        BY DEF TurnInv, SentInv
      <3>4. /\ \E T : sent' \in Seq(T)
            /\ \A i \in DOMAIN sent' : sent'[i] = x \/ \E j \in DOMAIN sent : sent'[i] = sent[j]
        BY <3>1, <3>3, Appended
      <3> QED BY <2>1, <2>4, <3>2, <3>4 DEF TurnInv, SentInv, InRoom
    <2> QED BY <1>3, <2>2, <2>3, <2>4 DEF Execute
  <1>4. CASE Executed
    BY <1>4, SentKept DEF Executed
  <1>5. CASE Recover
    <2>1. pc = "raised" /\ sent = <<>> /\ pc' = "done" /\ UNCHANGED <<ev, outcome>>
      BY <1>5 DEF Recover, TurnInv, SentInv
    <2>2. CASE InChannel(ev) /\ outcome = "denied" /\ "synthesis_turn" \notin ev.marks
      <3>1. Publish(ErrorReply, TRUE)
        BY <1>5, <2>2 DEF Recover, InChannel
      <3>2. PICK x : sent' = Append(sent, x) /\ x.err = TRUE /\ x.ch = ErrorReply.ch /\ x.claim = Claim(ErrorReply.ch, ~TRUE)
        BY <3>1, PublishIs, Zenon
      <3>3. x.err /\ (x.claim.interaction => x.ch = ev.ch /\ ev.interaction) /\ ~x.claim.synthesis
        BY <3>2, ClaimIs
      <3>4. sent \in Seq({}) /\ Len(sent) = 0 /\ DOMAIN sent = {}
        BY <2>1
      <3>5. /\ \E T : sent' \in Seq(T)
            /\ Len(sent') = 1 /\ sent'[1] = x
            /\ \A i \in DOMAIN sent' : sent'[i] = x
        BY <3>2, <3>4, Appended
      <3> QED BY <2>1, <2>2, <3>3, <3>5 DEF SentInv, InRoom
    <2>3. CASE ~(InChannel(ev) /\ outcome = "denied" /\ "synthesis_turn" \notin ev.marks)
      <3>1. sent' = sent
        BY <1>5, <2>3 DEF Recover, InChannel
      <3> QED BY <2>1, <2>3, <3>1, SentKept
    <2> QED BY <2>2, <2>3
  <1> QED BY <1>1, <1>2, <1>3, <1>4, <1>5 DEF TurnNext

(* What the invariant says of the turn's promises.                         *)
LEMMA FloorFollows == ASSUME TurnInv PROVE FloorIsKept
  <1> SUFFICES ASSUME InChannel(ev), ~ev.replay, ev.depth < MaxDepth, ev.model PROVE
        /\ Addressed(ev) => verdict.kind = NoOne /\ pc # "bidding" /\ outcome \notin {"suppressed", "silent"}
        /\ OutOfTurn(ev) => ~Composed /\ calls.bid = 0
        /\ Composed /\ verdict.kind = "verdict" => verdict.post = "yes"
        /\ verdict.kind = "error" => ~Composed
        /\ verdict.kind = "scalar" =>
            /\ Composed => verdict.score >= 0 /\ verdict.speak # "no"
            /\ Composed /\ verdict.addressing = "other" => verdict.score >= Threshold(ev)
            /\ verdict.addressing = "self" /\ verdict.score >= Threshold(ev) /\ verdict.speak # "no" => Composed
    BY DEF FloorIsKept
  <1>1. Addressed(ev) => verdict.kind = NoOne /\ pc # "bidding" /\ outcome \notin {"suppressed", "silent"}
    BY GateDecides DEF TurnInv, GateInv, NoVerdict
  <1>2. OutOfTurn(ev) => ~Composed /\ calls.bid = 0
    BY GateDecides DEF TurnInv, GateInv
  <1>3. verdict.kind = NoOne \/ (verdict \in BidAnswers(ev) /\ (Composed <=> EvaluateSalience(ev, verdict)))
    BY DEF TurnInv, GateInv, NoVerdict
  <1>4. CASE verdict.kind = NoOne
    BY <1>1, <1>2, <1>4 DEF NoOne
  <1>5. CASE verdict.kind = "error"
    BY <1>1, <1>2, <1>3, <1>5 DEF EvaluateSalience, NoOne
  <1>6. CASE verdict.kind = "verdict"
    BY <1>1, <1>2, <1>3, <1>6 DEF EvaluateSalience, ParseVerdict, NoOne
  <1>7. CASE verdict.kind = "scalar"
    <2>1. verdict.score \in Int
      <3>1. verdict \in BidErrors \cup VerdictAnswers \cup ScalarAnswers
        BY <1>3, <1>7 DEF BidAnswers, NoOne
      <3>2. verdict \in ScalarAnswers
        BY <1>7, <3>1 DEF BidErrors, VerdictAnswers
      <3>3. verdict.score \in Scores \cup {-1}
        BY <3>2 DEF ScalarAnswers
      <3>4. Scores \subseteq Int /\ -1 \in Int
        BY TurnAssumption
      <3> QED BY <3>3, <3>4
    <2>2. Composed <=> verdict.score >= 0 /\ verdict.score >= Bar(ev, verdict.addressing) /\ verdict.speak # "no"
      BY <1>3, <1>7 DEF EvaluateSalience, NoOne
    <2>3. Threshold(ev) \in Int /\ Threshold(ev) >= 0 /\ Bar(ev, verdict.addressing) \in Int
      BY BarMoves
    <2>4. Composed => verdict.score >= 0 /\ verdict.speak # "no"
      BY <2>2
    <2>5. Composed /\ verdict.addressing = "other" => verdict.score >= Threshold(ev)
      BY <2>1, <2>2, <2>3, BarMoves
    <2>6. verdict.addressing = "self" /\ verdict.score >= Threshold(ev) /\ verdict.speak # "no" => Composed
      BY <2>1, <2>2, <2>3, BarMoves
    <2> QED BY <1>1, <1>2, <1>7, <2>4, <2>5, <2>6
  <1> QED BY <1>3, <1>4, <1>5, <1>6, <1>7 DEF BidAnswers, BidErrors, VerdictAnswers, ScalarAnswers

LEMMA TraceFollows == ASSUME TurnInv PROVE TurnLeavesItsTrace
  <1>1. HeardIsRemembered
    BY DEF TurnInv, EpisodeInv, HeardIsRemembered
  <1>2. CallsAreBounded
    <2>1. ~Composed => calls.turn = 0 /\ calls.critic = 0 /\ calls.revise = 0
      BY DEF Composed, TurnInv, CountInv, PassedOver
    <2> QED BY <2>1 DEF TurnInv, CountInv, CallsAreBounded, Composed
  <1>3. DenialsAreTold
    <2>1. PICK S : sent \in Seq(S)
      BY DEF TurnInv, SentInv
    <2> DEFINE told == {i \in DOMAIN sent : sent[i].err}
    <2>2. CASE pc = "done" /\ outcome = "denied" /\ InChannel(ev) /\ "synthesis_turn" \notin ev.marks
      <3>1. told = {1}
        BY <2>1, <2>2 DEF TurnInv, SentInv
      <3>2. Cardinality(told) = 1
        BY <3>1, FS_Singleton
      <3> QED BY <2>2, <3>2 DEF TurnInv, SentInv, DenialsAreTold
    <2>3. CASE ~(pc = "done" /\ outcome = "denied" /\ InChannel(ev) /\ "synthesis_turn" \notin ev.marks)
      <3>1. told = {}
        BY <2>3 DEF TurnInv, SentInv
      <3>2. Cardinality(told) = 0
        BY <3>1, FS_EmptySet
      <3> QED BY <2>3, <3>2 DEF TurnInv, SentInv, DenialsAreTold
    <2> QED BY <2>2, <2>3
  <1> QED BY <1>1, <1>2, <1>3 DEF TurnLeavesItsTrace

(* However a turn ends, by a decision, a refusal, an error or a timeout:   *)
(* it spoke only where the gate and the bid gave it the floor, it left its *)
(* episode and its denial, and its calls were bounded (response_gate.py,   *)
(* salience_gate.py, action_loop.py, reflexion.py, chat_reply.py).         *)
THEOREM TurnStaysAccountable == TurnSpec => [](FloorIsKept /\ TurnLeavesItsTrace)
  <1>1. TurnInit => TurnInv
    <2> SUFFICES ASSUME TurnInit PROVE TurnInv
      OBVIOUS
    <2>1. outcome \notin Decided
      BY DEF TurnInit, Decided, PassedOver, Failures
    <2>2. pc = "received" /\ sent = <<>> /\ stored = 0 /\ ev \in Events /\ verdict = NoVerdict /\ rounds = 0
      BY DEF TurnInit, NoVerdict
    <2>3. calls \in [bid : Nat, turn : Nat, critic : Nat, revise : Nat] /\ calls.bid = 0 /\ calls.turn = 0 /\ calls.critic = 0 /\ calls.revise = 0
      BY DEF TurnInit
    <2>4. PhaseInv /\ CountInv
      BY <2>1, <2>2, <2>3, TurnAssumption DEF PhaseInv, CountInv, Waiting, Decided, PassedOver
    <2>5. GateInv /\ EpisodeInv
      BY <2>1, <2>2, <2>3 DEF GateInv, EpisodeInv, Composed, Decided, PassedOver, Waiting
    <2>6. <<>> \in Seq({}) /\ DOMAIN <<>> = {}
      OBVIOUS
    <2>7. SentInv
      BY <2>2, <2>6 DEF SentInv
    <2> QED BY <2>4, <2>5, <2>7 DEF TurnInv
  <1>2. TurnInv /\ [TurnNext]_turnVars => TurnInv'
    <2>1. CASE TurnNext
      BY <2>1, PhaseInvStep, CountInvStep, GateInvStep, EpisodeInvStep, SentInvStep DEF TurnInv
    <2>2. CASE UNCHANGED turnVars
      BY <2>2 DEF turnVars, TurnInv, PhaseInv, CountInv, GateInv, EpisodeInv, SentInv, Composed, InRoom, ReviseCap
    <2> QED BY <2>1, <2>2
  <1>3. TurnInv => FloorIsKept /\ TurnLeavesItsTrace
    BY FloorFollows, TraceFollows
  <1> QED BY <1>1, <1>2, <1>3, PTL DEF TurnSpec
=============================================================================
