----------------------------- MODULE MCPersona -----------------------------
(***************************************************************************)
(* What a persona does with a wake, on small instances: the turn itself,   *)
(* the memory and the transcript its prompt is made of, the task agent     *)
(* that works for the orchestrator or for a persona, and the decision      *)
(* pipeline.  A behaviour is about one of them (focus); the others stay    *)
(* where they started.                                                     *)
(***************************************************************************)
EXTENDS PersonaTurn, MemoryInjection, ConversationWindow, Delegation, Decision
VARIABLE focus

-----------------------------------------------------------------------------
(* The turn: every combination of the fields the response gate reads and,  *)
(* for a handful of events of each kind, every bid answer, every answer of *)
(* one or two actions with or without prose around the list, every failure *)
(* and every publish outcome.                                              *)
Event(kind, ch, sender) ==
    [kind |-> kind, ch |-> ch, sender |-> sender, policy |-> "always", mentions |-> {},
     floor |-> [resolved |-> FALSE, mentions |-> {}], marks |-> {}, threadToMe |-> FALSE,
     governed |-> FALSE, size |-> 0, limit |-> 20, threshold |-> -1, mode |-> "off", revise |-> 0,
     replay |-> FALSE, interaction |-> TRUE, depth |-> 0, model |-> TRUE]

Group == Event("channel", "group", "peer")
Direct == Event("channel", "dm", "peer")

\* everything the gate tells apart in a group
GateEvents ==
    { [Group EXCEPT !.sender = s, !.policy = p, !.mentions = m, !.floor = f, !.marks = k,
                    !.threadToMe = t, !.governed = g] :
        s \in {Me, "peer"},
        p \in {"chair", "addressed", "observer", "unheard_of"},
        m \in SUBSET {Me, All, "third"},
        f \in {[resolved |-> FALSE, mentions |-> {}], [resolved |-> TRUE, mentions |-> {}],
               [resolved |-> TRUE, mentions |-> {"third"}]},
        k \in SUBSET {"convene", "synthesis_turn", "close"},
        t \in BOOLEAN, g \in BOOLEAN }

\* the events whose turn is explored to its end
TurnEvents ==
    { Group, Direct, [Direct EXCEPT !.sender = Me], [Direct EXCEPT !.marks = {"close"}],
      Event("chat", "", "peer"), Event("tick", "", NoOne),
      [Group EXCEPT !.replay = TRUE], [Group EXCEPT !.replay = TRUE, !.sender = Me],
      [Group EXCEPT !.depth = MaxDepth], [Group EXCEPT !.model = FALSE],
      [Group EXCEPT !.marks = {"synthesis_turn"}], [Group EXCEPT !.marks = {"convene"}, !.interaction = FALSE],
      [Group EXCEPT !.governed = TRUE, !.size = 21],
      [Group EXCEPT !.governed = TRUE, !.size = 20, !.mode = "bid", !.revise = 1] }
    \cup { [Group EXCEPT !.governed = TRUE, !.threshold = t] : t \in {-1, 5, 10} }
    \cup { [Group EXCEPT !.governed = TRUE, !.mode = "plan", !.revise = r] : r \in {0, 1, 3} }

MCEvents == GateEvents \cup TurnEvents

Raw ==
    { Send("group", <<"a">>, {"peer"}), Send("dm", <<"a">>, {}), Send("", <<"a">>, {}), Send("other", <<"b">>, {}),
      Vote("", <<>>), Vote("", <<"a">>), Vote("other", <<"v">>),
      Complete(<<"c">>), Complete(<<>>), Nothing }
Odd == { [Nothing EXCEPT !.type = "bogus"], [Nothing EXCEPT !.type = "malformed"] }

MCReplies ==
    [fence : {FALSE}, raw : {<<>>}, prose : {<<>>, <<"p">>}]
    \cup [fence : BOOLEAN, raw : {<<a>> : a \in Raw \cup Odd}, prose : {<<"p">>}]
    \cup [fence : {TRUE}, raw : {<<a, b>> : a \in Raw, b \in Raw}, prose : {<<"p">>}]

-----------------------------------------------------------------------------
(* Stores that mix levels, rooms, tiers and missing provenance, and the    *)
(* transcripts of two channels.                                            *)
ClassDef == [team |-> "internal", dm |-> "internal", board |-> "restricted", hall |-> "public"]
DescribedDef == [team |-> <<"atlas">>, dm |-> <<>>, board |-> <<"atlas", "budget", "hiring">>, hall |-> <<>>]
Home == [team |-> {"me", "ann", "bob"}, dm |-> {"me", "ann"}, board |-> {"me", "ann"}, hall |-> {"me", "ann", "bob"}]
GatheringsDef == {Home}

Row(id, kind, level, room) ==
    [id |-> id, kind |-> kind, level |-> level, room |-> room, prov |-> TRUE, size |-> 1, inter |-> TRUE,
     proj |-> {}, subject |-> "ann", long |-> TRUE]
Ep(id, level, room) == Row(id, "episode", level, room)
Fact(id, level, room, about) == [Row(id, "fact", level, room) EXCEPT !.subject = about]
Note(id, level, room) == Row(id, "note", level, room)
StoresDef ==
    {<<Ep("r1", "internal", "team"), Ep("r2", "restricted", "board"), Ep("r3", "internal", "dm"),
       Note("r4", "internal", "team"), Note("r5", "restricted", "team")>>,
     <<[Ep("r1", "restricted", "board") EXCEPT !.proj = {"public"}], [Ep("r2", "garbled", "team") EXCEPT !.proj = {"public", "internal"}],
       [Ep("r3", "internal", "dm") EXCEPT !.prov = FALSE], [Ep("r4", "secret", "team") EXCEPT !.inter = FALSE, !.long = FALSE]>>,
     <<Fact("r1", "internal", "dm", "ann"), Fact("r2", "internal", "board", "atlas"),
       [Fact("r3", "internal", "team", "self") EXCEPT !.size = 2], Fact("r4", "restricted", "board", "hiring"),
       Fact("r5", "public", "dm", "atlas"), Note("r6", "internal", "board")>>,
     <<[Ep("r1", "public", "team") EXCEPT !.size = 2], [Fact("r2", "internal", "team", "self") EXCEPT !.size = 2],
       Fact("r3", "internal", "team", "ann"), Fact("r4", "internal", "team", "ann"), Note("r5", "public", "team")>>}
(* A decision taken in a room ann shares, abstracted to the level of the room bob is in. *)
AbstractedDef == {<<[Ep("r1", "restricted", "board") EXCEPT !.proj = {"internal"}]>>}

Ev(kind, room, level, sender) ==
    [kind |-> kind, room |-> room, level |-> level, sender |-> sender, said |-> <<"hiring">>, met |-> sender = "ann"]
InTeam == Ev("message", "team", "internal", "ann")
InBoard == Ev("message", "board", "restricted", "ann")
AgendaDef ==
    {<<InBoard, InTeam>>, <<InBoard, Ev("tick", NoRoom, NoRoom, NoRoom)>>, <<Ev("mention", "dm", "internal", "ann"), InTeam>>,
     <<InBoard, [InTeam EXCEPT !.level = "bogus"]>>, <<Ev("message", "hall", "public", "bob")>>}
TeamTurn == {<<InTeam>>}
SettingsDef ==
    {[audience |-> "live", facts |-> x, episodic |-> x, enabled |-> TRUE] : x \in {"live", "off"}}
    \cup {[audience |-> "shadow", facts |-> "live", episodic |-> "live", enabled |-> TRUE],
          [audience |-> "off", facts |-> "live", episodic |-> "live", enabled |-> FALSE]}
LiveSettings == {[audience |-> "live", facts |-> "live", episodic |-> "live", enabled |-> TRUE]}
MinTokensDef == [relationship |-> 2, channel_history |-> 1, facts |-> 1, episodic |-> 1, notes |-> 1]

Msg(who, n) == [who |-> who, size |-> n, blank |-> FALSE]
ShapesDef ==
    {[c1 |-> l, c2 |-> <<Msg("u", 1)>>] :
        l \in {<<Msg("p1", 1), Msg("u", 2), Msg("p1", 2), Msg("u", 1)>>, <<Msg("p1", 1), Msg("u", 2), Msg("u", 1), Msg("u", 1)>>,
               <<Msg("u", 1), [Msg("u", 1) EXCEPT !.blank = TRUE], Msg("p1", 2), Msg("u", 1)>>}}

-----------------------------------------------------------------------------
(* Tools, permissions, answers and delegations of a task agent, and the    *)
(* candidates, checks and policies of a decision.                          *)
V(kind, v) == [kind |-> kind, v |-> v]
Arg(n, type, default) == [name |-> n, kind |-> "by_name", type |-> type, default |-> default, none |-> FALSE]
Sig(params, narrowed) == [params |-> params, narrow |-> [n \in narrowed |-> [type |-> "string"]]]
SigsDef ==
    [file_read |-> Sig(<<Arg("path", "string", FALSE)>>, {"path"}),
     file_write |-> Sig(<<Arg("path", "string", FALSE), Arg("content", "string", FALSE)>>, {"path", "content"}),
     shell_exec |-> Sig(<<Arg("command", "string", FALSE), Arg("timeout", "integer", TRUE)>>, {"command"}),
     http_request |-> Sig(<<Arg("url", "string", FALSE), Arg("method", "string", TRUE), Arg("body", "string", TRUE)>>, {"url", "method"}),
     tally |-> [params |-> <<Arg("count", "integer", FALSE), Arg("rate", "number", TRUE),
                             [Arg("label", "string", TRUE) EXCEPT !.none = TRUE]>>,
                narrow |-> [count |-> [minimum |-> 1, maximum |-> 3], label |-> [enum |-> {V("text", "a"), V("text", "long")}, maxLength |-> 2]]],
     old |-> Sig(<<[Arg("x", "string", TRUE) EXCEPT !.kind = "positional_only"], Arg("n", "integer", FALSE)>>, {}),
     broken |-> [params |-> <<Arg("n", "string", FALSE)>>, narrow |-> [n |-> [minLength |-> 2, maxLength |-> 1]]]]
LengthsDef == [x \in {V("text", "a"), V("text", "long")} |-> IF x.v = "a" THEN 1 ELSE 4]

ResolveDef == [direct |-> "secret", around |-> "secret", plain |-> "notes", other |-> "elsewhere"]
HostsDef == [docs |-> [scheme |-> "https", host |-> "docs"], foreign |-> [scheme |-> "https", host |-> "foreign"],
             odd |-> [scheme |-> "file", host |-> "docs"]]

FullPerms ==
    [filesystem |-> [read |-> {{"secret", "notes"}}, write |-> {{"notes"}}, deny |-> {{"secret"}}],
     shell |-> [allowed_commands |-> {<<"git", "diff">>}, limit |-> 2],
     network |-> [allow |-> {"docs"}, deny |-> {"*"}]]
Agent(tools, perms) ==
    [id |-> "child", tools |-> tools, permissions |-> perms, ready |-> TRUE, client |-> TRUE, model |-> TRUE, max_llm_calls |-> 2]
AllTools == {"file_read", "file_write", "shell_exec", "http_request", "tally", "old", "broken"}
AgentConfigsDef ==
    {Agent(AllTools, FullPerms), Agent(None, FullPerms),
     Agent({"file_read", "shell_exec"}, [FullPerms EXCEPT !.shell = None, !.filesystem.read = {}]),
     Agent({"shell_exec"}, [FullPerms EXCEPT !.shell.limit = 0]),
     [Agent(AllTools, FullPerms) EXCEPT !.ready = FALSE], [Agent(AllTools, FullPerms) EXCEPT !.model = FALSE]}

Call(n, t, args) == [id |-> n, tool |-> t, args |-> args]
Read(n, p) == Call(n, "file_read", [path |-> V("text", p)])
Shell(n, words, k) == Call(n, "shell_exec", [command |-> V("text", words), timeout |-> V(k, 9)])
RoundsDef ==
    {<<Read(1, "around"), Read(2, "plain")>>,
     <<Call(1, "file_write", [path |-> V("text", "plain"), content |-> V("text", 0)]), Call(2, "file_write", [path |-> V("text", "plain")])>>,
     <<Shell(1, <<"git", "diff", "x">>, "integer_text"), Shell(2, <<"git", "push">>, "whole_float"), Shell(3, <<"git", "diff">>, "text")>>,
     <<Call(1, "old", [n |-> V("integer_text", 1)]), Call(2, "old", [x |-> V("text", 1), n |-> V("integer", 1)])>>,
     <<Call(1, "http_request", [url |-> V("text", "docs"), method |-> V("text", "GET"), body |-> V("null", 0)]),
       Call(2, "http_request", [url |-> V("text", "foreign")]), Call(3, "http_request", [url |-> V("text", "odd")])>>,
     <<Call(1, "tally", [count |-> V("integer_text", 2), rate |-> V("integer", 3), label |-> V("null", 0)]),
       Call(2, "tally", [count |-> V("whole_float", 9)]), Call(3, "tally", [rate |-> V("decimal_text", 1)])>>,
     <<Call(1, "tally", [count |-> V("text", "a")]), Call(2, "tally", [count |-> V("integer", 1), label |-> V("text", "long")]),
       Call(3, "tally", [count |-> V("integer", 1), label |-> V("text", "a")]),
       Call(4, "tally", None), Call(5, "broken", [n |-> V("text", 1)]), Call(6, "tally", [count |-> V("integer", 1), odd |-> V("text", 1)])>>}

Write(key, importance, strategy) ==
    [id |-> 0, tier |-> "notes", key |-> key, importance |-> importance, strategy |-> strategy,
     source |-> None, reserved |-> FALSE, blank |-> FALSE, ttl |-> None]
ResultOf(status, writes) == [form |-> "result", result |-> [status |-> status, writes |-> writes]]
TextsDef ==
    {[form |-> "prose"], [form |-> "misfit"], ResultOf("unheard of", <<Write("k1", 5, "replace")>>),
     ResultOf("partial", <<Write("k1", 9, "replace"), Write("k1", 5, "reject_on_conflict"), Write("k2", 5, "reject_on_conflict"), Write("k3", 1, "append")>>),
     ResultOf("completed", <<[Write("k1", 5, "replace") EXCEPT !.source = "boss"], [Write("k2", 5, "patch") EXCEPT !.reserved = TRUE],
                             [Write("k3", 5, "replace") EXCEPT !.tier = "procedural"]>>),
     ResultOf("completed", <<Write("k1", 11, "replace"), [Write("k2", 5, "replace") EXCEPT !.ttl = 0], [Write("k3", 5, "replace") EXCEPT !.ttl = 1]>>),
     ResultOf("completed", <<Write("k1", 5, "append"), Write("k2", 9, "patch"), Write("k3", 2, "replace"), Write("k4", 2, "replace")>>)}
TasksDef == {[max_llm_calls |-> n, max_tokens |-> 0, allowed_tools |-> {}, parent |-> None] : n \in {-1, 0, 1}}
Req == [objective |-> TRUE, ceiling |-> 8, cap |-> 3, oversize |-> FALSE, schema |-> "none", max_llm_calls |-> 2, tokens |-> 5,
        allowed_tools |-> {"file_read"},
        known |-> {"k3"}, persist |-> "facade", episodic |-> TRUE]
RequestsDef ==
    {Req, [Req EXCEPT !.known = {"k2"}, !.ceiling = 1], [Req EXCEPT !.cap = 0], [Req EXCEPT !.episodic = FALSE],
     [Req EXCEPT !.persist = "base"], [Req EXCEPT !.schema = "unmet"], [Req EXCEPT !.oversize = TRUE], [Req EXCEPT !.objective = FALSE]}

Cand(i, c) == [id |-> i, class |-> c]
CandidatesDef == {<<>>, <<Cand("a", "tool_call"), Cand("b", "respond")>>, <<Cand("a", "respond"), Cand("a", "defer")>>}
CheckSetsDef ==
    LET Check == [{"a", "b"} -> {"pass", "no", "broke"}] IN
    {<<>>} \cup {<<f>> : f \in Check} \cup {<<f, g>> : f \in Check, g \in {[a |-> "broke", b |-> "pass"], [a |-> "no", b |-> "pass"]}}
Chooses(class, selected, reason, rejected, confidence) ==
    [name |-> "own", outcome |-> [class |-> class, selected |-> selected, reason |-> reason, rejected |-> rejected, confidence |-> confidence]]
PoliciesDef ==
    {[name |-> "baseline"], [name |-> "raises"], Chooses("respond", "b", "runtime_proposal", <<Rejection("a", "worse")>>, TRUE),
     Chooses("respond", "b", "better", <<>>, FALSE), Chooses("respond", "a", Nil, <<>>, FALSE),
     Chooses("defer", Nil, Nil, <<>>, FALSE), Chooses("tool_call", "a", Nil, <<Rejection("b", "late")>>, FALSE),
     Chooses("defer", Nil, "later", <<Rejection("a", "x"), Rejection("a", "y")>>, FALSE)}
ContextsDef == {[mode |-> "manual"], [mode |-> "automated"]}

-----------------------------------------------------------------------------
personaVars == <<turnVars, injectVars, windowVars, taskVars, delegationVars, decisionVars, focus>>
NoInput == [context |-> [mode |-> "manual"], candidates |-> <<>>, constraints |-> <<>>, gates |-> <<>>, policy |-> [name |-> "raises"]]
Init ==
    /\ focus \in {"turn", "memory", "window", "task", "decision"}
    /\ ev \in IF focus = "turn" THEN Events ELSE {Group}
    /\ disabled \in IF focus = "turn" THEN BOOLEAN ELSE {FALSE}
    /\ store \in IF focus = "memory" THEN Stores ELSE {CHOOSE s \in Stores : TRUE}
    /\ members \in IF focus = "memory" THEN Gatherings ELSE {CHOOSE g \in Gatherings : TRUE}
    /\ todo \in IF focus = "memory" THEN Agenda ELSE {CHOOSE a \in Agenda : TRUE}
    /\ knobs \in IF focus = "memory" THEN Settings ELSE {CHOOSE k \in Settings : TRUE}
    /\ log \in IF focus = "window" THEN Shapes ELSE {CHOOSE l \in Shapes : TRUE}
    /\ request \in IF focus = "task" THEN Requests ELSE {Req}
    /\ agent \in IF focus = "task" THEN AgentConfigs ELSE {Agent(None, FullPerms)}
    /\ TurnInit /\ InjectInit /\ WindowInit /\ DelegationInit
    /\ IF focus = "decision" THEN DecisionInit ELSE input = NoInput /\ record = Nil

\* The gate's combinations are followed up to the gate's decision.
Followed == ev \in TurnEvents \/ pc \in {"received", "bidding"}
InTask == focus = "task" /\ UNCHANGED <<turnVars, injectVars, windowVars, decisionVars, focus>>
Next ==
    \/ /\ focus = "turn" /\ Followed /\ TurnNext
       /\ UNCHANGED <<injectVars, windowVars, taskVars, delegationVars, decisionVars, focus>>
    \/ /\ focus = "memory" /\ InjectNext
       /\ UNCHANGED <<turnVars, windowVars, taskVars, delegationVars, decisionVars, focus>>
    \/ /\ focus = "window" /\ WindowNext
       /\ UNCHANGED <<turnVars, injectVars, taskVars, delegationVars, decisionVars, focus>>
    \/ DelegationNext /\ InTask
    \/ /\ focus = "decision" /\ DecisionNext
       /\ UNCHANGED <<turnVars, injectVars, windowVars, taskVars, delegationVars, focus>>

\* The provider answers or its client gives up, and the timers fire; no
\* subprocess owes anybody an exit.
Spec ==
    /\ Init /\ [][Next]_personaVars
    /\ WF_personaVars(ToolStep /\ UNCHANGED delegationVars /\ InTask)
    /\ WF_personaVars(LoopStep /\ UNCHANGED delegationVars /\ InTask)
=============================================================================
