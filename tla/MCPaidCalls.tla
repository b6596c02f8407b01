---------------------------- MODULE MCPaidCalls ----------------------------
(***************************************************************************)
(* Model calls, on small instances: calls leased from the wallet, a tool   *)
(* loop over a vendor's adapter, a room of personas on the offline         *)
(* provider, a try of an EXP-001 meeting, and the scored run that holds    *)
(* the tries under its cap.  They share no state, so a behaviour is about  *)
(* one of them (focus), the others stay where they started.                *)
(***************************************************************************)
EXTENDS LeasedCall, MeetingTry, ScoredRun, ProviderAdapters, OfflineScript, TLC

CONSTANTS a1, w1, m1
VARIABLE focus

MCPrice   == (m1 :> 1)
MCCeiling == <<>>
MCEstimates == {<<1, 1>>}

\* A call may use less than was estimated, or more: tool definitions are not
\* part of the estimate.
MCActuals == {<<1, 0>>, <<2, 1>>}

\* Two series in two arms, each with its own order of the arms.
MCSeriesList == <<"series 1", "series 2">>
MCArmOrder == ("series 1" :> <<"A", "D">>) @@ ("series 2" :> <<"D", "A">>)
MCMeetingList == <<"briefing", "plan">>

\* Aliases that think, cache and set a level and a budget at once; answers with
\* and without thinking, ids, signatures and readable arguments.
Alias(t, e, c, l, b) == [thinking |-> t, effort |-> e, cache |-> c, level |-> l, budget |-> b]
MCAliasConfigs ==
    {Alias(Absent, Absent, FALSE, Absent, Absent), Alias("adaptive", "none", TRUE, "low", 0), Alias("disabled", "high", TRUE, Absent, 0)}
CallBlock(id, name, args, sig) == [kind |-> "call", v |-> [id |-> id, name |-> name, args |-> args, sig |-> sig]]
TextBlock == [kind |-> "text", v |-> "words"]
Tokens(f, w, r, t) == [fresh |-> f, written |-> w, read |-> r, visible |-> 1, thought |-> t]
Says(blocks, stop, tokens) == [blocks |-> blocks, stop |-> stop, tokens |-> tokens, report |-> "whole"]
ButReports(a, report) == [a EXCEPT !.report = report]
TwoReads == <<TextBlock, CallBlock("i1", "read", "object", Absent), CallBlock("i2", "read", "object", Absent)>>
MCVendorAnswers ==
    {Says(<<>>, "refusal", Tokens(1, 0, 0, 0)), Says(<<TextBlock>>, "end_turn", Tokens(1, 1, 1, 1)),
     Says(TwoReads, "tool_use", Tokens(0, 0, 2, 1)), Says(TwoReads, "end_turn", Tokens(1, 0, 2, 1)), Says(TwoReads, "max_tokens", Tokens(1, 0, 0, 0)),
     Says(<<[kind |-> "thinking", v |-> "s1"], TextBlock, [kind |-> "other", v |-> ""], CallBlock("i1", "write", "object", Absent)>>, "tool_use", Tokens(1, 1, 1, 1)),
     Says(<<CallBlock(Absent, "read", "object", "s1"), CallBlock(Absent, "read", "object", Absent), CallBlock(Absent, "write", "object", "s2")>>, "end_turn", Tokens(1, 0, 1, 1)),
     Says(<<CallBlock(Absent, "read", "garbled", Absent), CallBlock("i2", "write", "list", Absent)>>, "tool_use", Tokens(1, 0, 0, 1)),
     Says(<<CallBlock("i1", "read", "garbled", Absent)>>, "tool_use", Tokens(1, 1, 0, 0))}
    \cup {ButReports(Says(TwoReads, stop, Tokens(1, 0, 0, 1)), "none") : stop \in {"tool_use", "end_turn"}}
    \cup {ButReports(Says(<<TextBlock>>, "end_turn", Tokens(1, 0, 0, 1)), "nulls"), ButReports(Says(<<TextBlock>>, "end_turn", Tokens(1, 0, 1, 1)), "undetailed")}

\* Two personas whose points call for each other's, and a line that closes.
Point(match, reply) == [match |-> match, reply |-> reply, closes |-> FALSE]
MCScript ==
    ("x" :> <<Point({"cost"}, "x on cost"), Point({"cost", "risk"}, "x on risk"), Point({}, "x at large")>>) @@
    ("y" :> <<[match |-> {"done"}, reply |-> "y closes", closes |-> TRUE], Point({"risk"}, "y on risk")>>)
MCKeywords ==
    [t \in {"cost?", "x on cost", "x on risk", "x at large", "y closes", "y on risk", "wrap up", "offline"} |->
        CASE t = "cost?" -> {"cost"} [] t = "x on cost" -> {"cost", "risk"} [] t = "x on risk" -> {"risk"}
          [] t = "y on risk" -> {"cost", "risk"} [] t = "wrap up" -> {"cost", "done"} [] OTHER -> {}]

Symmetry == Permutations(Callers) \cup Permutations(Leases) \cup Permutations(Advisers)

expVars == <<tryVars, scoredVars>>
vendorVars == <<adapterVars, offlineVars>>
paidVars == <<allVars, expVars, vendorVars, focus>>
PaidInit ==
    /\ focus \in {"lease", "meeting", "scored", "adapter", "offline"}
    /\ vendor \in IF focus = "adapter" THEN VendorNames ELSE {"watsonx"}
    /\ family \in IF focus = "adapter" THEN {"sampling", "reasoning"} ELSE {"sampling"}
    /\ built \in IF focus = "adapter" THEN AliasConfigs ELSE {Alias(Absent, Absent, FALSE, Absent, Absent)}
    /\ lane \in IF focus = "adapter" THEN AliasConfigs \cup {Absent} ELSE {Absent}
    /\ cachePrefix \in IF focus = "adapter" THEN BOOLEAN ELSE {FALSE}
    /\ CallInit /\ TryInit /\ ScoredInit /\ AdapterInit /\ OfflineInit
    /\ focus # "meeting" => remembers
PaidNext ==
    \/ focus = "lease" /\ CallNext /\ UNCHANGED <<expVars, vendorVars, focus>>
    \/ focus = "meeting" /\ TryNext /\ UNCHANGED <<allVars, scoredVars, vendorVars, focus>>
    \/ focus = "scored" /\ ScoredNext /\ UNCHANGED <<allVars, tryVars, vendorVars, focus>>
    \/ focus = "adapter" /\ AdapterNext /\ UNCHANGED <<allVars, expVars, offlineVars, focus>>
    \/ focus = "offline" /\ OfflineNext /\ UNCHANGED <<allVars, expVars, adapterVars, focus>>
PaidSpec == PaidInit /\ [][PaidNext]_paidVars

\* The experiment scores nothing that a fault, a kill, a retry or a stop made
\* unfair, and pays for nothing twice (evaluators/exp001): every try is stopped
\* whole and judged by its whole log, and the run over them stays within its
\* cap, its window and one pass of the judge.
ExperimentIsSound == TriesAreFair /\ ScoredRunIsSound

\* A call reaches its vendor whole and comes back with every token the vendor
\* reports counted, round after round (with none when it reports none), and a persona on the offline provider repeats no point it won the
\* floor for (agents/llm_providers.py, llm_gemini.py, llm_watsonx.py, llm_offline.py).
ModelCallsAreSound == RoundsReachTheVendor /\ PointsAreMadeOnce
=============================================================================
