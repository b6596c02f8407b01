----------------------------- MODULE ScoredRun -----------------------------
(***************************************************************************)
(* The scored run of experiment EXP-001 (evaluators/exp001: scored.py,     *)
(* pairs.py, attempts.py, rating.py, judge.py): the arms hold the series   *)
(* one pair at a time under a spend cap and a time window, provider errors *)
(* are retried, harness faults close the window, and what every arm held   *)
(* is drawn and judged once.  The process may be killed between any two    *)
(* steps; what it goes on from is what its files hold.                     *)
(*                                                                         *)
(* Arm A keeps one call log for a pair, the channel arms one for a try; a  *)
(* kill may cut a line of the log being written, and then none of that     *)
(* log's calls count.  A judged packet costs one unit of the judge's cap.  *)
(***************************************************************************)
EXTENDS Integers, Sequences, FiniteSets

CONSTANTS
    SeriesList,   \* the scored series, in order
    ArmOrder,     \* series -> its arms, in the order drawn
    MeetingList,  \* the kinds of a series' meetings, in order; a briefing asks for no answer
    TryRetries, SeriesAttempts, MinSeries, FaultLimit,  \* RETRIES, ATTEMPTS, MIN_SERIES, HARNESS_FAULTS
    SpendCap, TryCosts,      \* SPEND_CAP, and what a try may cost
    WindowLength, JudgeCap,  \* WINDOW and JUDGING_CAP
    MaxRunClock, MaxKills,   \* bounds
    Unset

ArmSet == {ArmOrder[s][i] : s \in DOMAIN ArmOrder, i \in 1..Len(ArmOrder[SeriesList[1]])}
AllSeries == {SeriesList[i] : i \in DOMAIN SeriesList}

VARIABLES
    \* run.json and the current window's directory
    windows,   \* [opened, fault, ended, last] of each window; last: when each series' last try ended
    pairs,     \* series, arm -> [state, attempt, tries]
    seal,      \* the answers the seal was drawn from
    packets,   \* the packets, by the answer each blinds
    judgeLog,     \* the packets the judge's log shows answered, line by line
    replies,   \* packets with a kept answer
    unreadable, \* those whose answer cannot be read
    \* the call logs of every window
    realSpend,     \* the real spend they show
    unpriced,  \* a call of this window the table cannot price
    logged,    \* what the log being written shows
    \* the process
    runAt,        \* what it does next
    orderPos,       \* [s, a, dropped]: its place in the arms' order
    place,       \* [meeting, attempt, n, failed, idle]: its place in the pair
    heldTry,      \* what the try under way gave
    stoppedBy,       \* what stopped the meetings
    runClock, kills,
    holdings   \* how often a pair was begun
judgeVars == <<seal, packets, judgeLog, replies, unreadable>>
spendVars == <<realSpend, unpriced, logged>>
diskVars == <<windows, pairs, judgeVars>>
scoredVars == <<diskVars, spendVars, runAt, orderPos, place, heldTry, stoppedBy, runClock, kills, holdings>>

NoPair == [state |-> "none", attempt |-> 0, tries |-> <<>>]
NoPairs == [s \in AllSeries |-> [a \in ArmSet |-> NoPair]]
NewWindow == [opened |-> Unset, fault |-> FALSE, ended |-> Unset, last |-> [s \in AllSeries |-> Unset]]
FirstPair == [s |-> 1, a |-> 1, dropped |-> 0]
Start0 == [meeting |-> 1, attempt |-> 1, n |-> 1, failed |-> 0, idle |-> 0]

ScoredInit ==
    /\ windows = <<>> /\ pairs = NoPairs /\ seal = {} /\ packets = Unset
    /\ judgeLog = <<>> /\ replies = {} /\ unreadable = {}
    /\ realSpend = 0 /\ unpriced = FALSE /\ logged = 0
    /\ runAt = "off" /\ orderPos = FirstPair /\ place = Start0 /\ heldTry = Unset /\ stoppedBy = Unset
    /\ runClock = 0 /\ kills = 0 /\ holdings = 0

(* The process is over: what it held in memory is gone. *)
ProcessOver ==
    /\ runAt' = "off" /\ orderPos' = FirstPair /\ place' = Start0 /\ heldTry' = Unset /\ stoppedBy' = Unset /\ logged' = 0

LastWindow == windows[Len(windows)]
SetWindow(field, value) == windows' = [windows EXCEPT ![Len(windows)][field] = value]
Faults(ws) == Cardinality({i \in DOMAIN ws : ws[i].fault})

IsScored(w) == ~w.fault /\ w.ended # Unset /\ w.ended.by # "cap" /\ Cardinality(w.ended.kept) >= MinSeries
Incomplete(ws) ==
    LET w == ws[Len(ws)] IN
    \/ Faults(ws) >= FaultLimit
    \/ ~w.fault /\ w.ended # Unset /\ ~IsScored(w)

-----------------------------------------------------------------------------
(* _open.  A fix is named exactly after a fault that was not the last one allowed; a new window *)
(* begins with nothing of the closed one but what it spent.                                     *)
Resume(ws) ==
    CASE Incomplete(ws) -> "report"
      [] ws[Len(ws)].ended = Unset -> "pair"
      [] OTHER -> "draw"
OpenRun(fixed) ==
    /\ runAt = "off"
    /\ LET fresh == windows = <<>>
           over == Faults(windows) >= FaultLimit
           next == ~fresh /\ ~over /\ LastWindow.fault
       IN /\ fixed <=> next
          /\ windows' = IF fresh \/ next THEN Append(windows, NewWindow) ELSE windows
          /\ IF next
             THEN pairs' = NoPairs /\ seal' = {} /\ packets' = Unset /\ judgeLog' = <<>> /\ replies' = {} /\ unreadable' = {} /\ unpriced' = FALSE
             ELSE UNCHANGED <<pairs, judgeVars, unpriced>>
    /\ runAt' = Resume(windows')
    /\ UNCHANGED <<realSpend, logged, orderPos, place, heldTry, stoppedBy, runClock, kills, holdings>>

(* HarnessFault: the window is closed, whatever it held. *)
RecordFault ==
    /\ runAt = "fault"
    /\ SetWindow("fault", TRUE) /\ ProcessOver
    /\ UNCHANGED <<pairs, judgeVars, realSpend, unpriced, runClock, kills, holdings>>

-----------------------------------------------------------------------------
(* _hold: series by series, arm by arm.                                    *)

PairSeries == SeriesList[orderPos.s]
PairArm == ArmOrder[PairSeries][orderPos.a]
PairNow == pairs[PairSeries][PairArm]
EndHolding(reason) == runAt' = "price" /\ stoppedBy' = reason

SeriesOver(dropped) ==
    IF Len(SeriesList) - dropped < MinSeries THEN EndHolding("series") /\ UNCHANGED orderPos
    ELSE /\ orderPos' = [s |-> orderPos.s + 1, a |-> 1, dropped |-> dropped]
         /\ IF orderPos.s = Len(SeriesList) THEN EndHolding(Unset) ELSE runAt' = "pair" /\ UNCHANGED stoppedBy
(* A pair held to the end is read back; a dropped one is held by no arm after. *)
PairHeld ==
    /\ runAt = "pair" /\ PairNow.state = "held"
    /\ IF PairNow.attempt = 0 THEN SeriesOver(orderPos.dropped + 1)
       ELSE IF orderPos.a = Len(ArmOrder[PairSeries]) THEN SeriesOver(orderPos.dropped)
       ELSE orderPos' = [orderPos EXCEPT !.a = @ + 1] /\ UNCHANGED <<runAt, stoppedBy>>
    /\ UNCHANGED <<diskVars, spendVars, place, heldTry, runClock, kills, holdings>>

\* Mutant: a pair stopped partway is gone on with where it is.
SetAsideNever(p) == [p EXCEPT !.state = "part"]

(* One stopped partway is set aside whole, and the series held from its briefing. *)
SetAside(p) == [p EXCEPT !.state = "part", !.tries = <<>>]
HoldPair ==
    /\ runAt = "pair" /\ PairNow.state # "held"
    /\ pairs' = [pairs EXCEPT ![PairSeries][PairArm] = SetAside(@)]
    /\ place' = Start0 /\ runAt' = "check" /\ holdings' = holdings + 1 /\ logged' = 0
    /\ UNCHANGED <<windows, judgeVars, realSpend, unpriced, orderPos, heldTry, stoppedBy, runClock, kills>>

(* What is asked before each try; the first opens the window. *)
WindowOver == LastWindow.opened # Unset /\ runClock - LastWindow.opened >= WindowLength
CheckTry ==
    /\ runAt = "check"
    /\ \/ unpriced /\ runAt' = "fault" /\ UNCHANGED <<windows, stoppedBy>>
       \/ ~unpriced /\ realSpend >= SpendCap /\ EndHolding("cap") /\ UNCHANGED windows
       \/ ~unpriced /\ realSpend < SpendCap /\ WindowOver /\ EndHolding("window") /\ UNCHANGED windows
       \/ /\ ~unpriced /\ realSpend < SpendCap /\ ~WindowOver
          /\ runAt' = "try" /\ UNCHANGED stoppedBy
          /\ IF LastWindow.opened = Unset THEN SetWindow("opened", runClock) ELSE UNCHANGED windows
    /\ heldTry' = [began |-> runClock, gave |-> "nothing"]
    /\ logged' = IF PairArm = "A" THEN logged ELSE 0
    /\ UNCHANGED <<pairs, judgeVars, realSpend, unpriced, orderPos, place, runClock, kills, holdings>>

(* What a try gives: see MeetingTry.  A silent one was held and gave no answer; calls that      *)
(* fail with an error nobody can place come back with it.                                       *)
Outcomes == {"held", "silent", "cut", "not started", "unplaced"}
Stands(gave) == gave \in {"held", "silent"}
TryEnded == SetWindow("last", [LastWindow.last EXCEPT ![PairSeries] = runClock])
HoldTry(gave, cost, odd) ==
    /\ runAt = "try" /\ (gave = "silent" => MeetingList[place.meeting] # "briefing")
    /\ realSpend' = realSpend + cost /\ logged' = logged + cost /\ unpriced' = (unpriced \/ odd)
    /\ IF gave = "raises" THEN runAt' = "fault" /\ UNCHANGED <<heldTry, windows>>
       ELSE runAt' = "keep" /\ heldTry' = [heldTry EXCEPT !.gave = gave] /\ TryEnded
    /\ UNCHANGED <<pairs, judgeVars, orderPos, place, stoppedBy, runClock, kills, holdings>>

NextTry == place' = [place EXCEPT !.n = @ + 1, !.failed = IF heldTry.gave = "cut" THEN @ + 1 ELSE @,
                                !.idle = IF heldTry.gave = "not started" THEN @ + 1 ELSE @]
RestartSeries == place' = [Start0 EXCEPT !.attempt = place.attempt + 1]
NextMeeting == place' = [Start0 EXCEPT !.attempt = place.attempt, !.meeting = place.meeting + 1]

(* The try's line is written, then run_series goes by what it gave. *)
KeptTry == [meeting |-> place.meeting, attempt |-> place.attempt, n |-> place.n, gave |-> heldTry.gave,
            began |-> heldTry.began, holding |-> holdings]
KeepTry ==
    /\ runAt = "keep"
    /\ pairs' = [pairs EXCEPT ![PairSeries][PairArm].tries = Append(@, KeptTry)]
    /\ CASE heldTry.gave = "unplaced" \/ (heldTry.gave = "not started" /\ place.idle = TryRetries) ->
              runAt' = "fault" /\ UNCHANGED place
         [] heldTry.gave = "cut" /\ place.failed = TryRetries ->
              IF place.attempt < SeriesAttempts THEN RestartSeries /\ runAt' = "check" ELSE runAt' = "drop" /\ UNCHANGED place
         [] Stands(heldTry.gave) ->
              IF place.meeting < Len(MeetingList) THEN NextMeeting /\ runAt' = "check" ELSE runAt' = "finish" /\ UNCHANGED place
         [] OTHER -> NextTry /\ runAt' = "check"
    /\ UNCHANGED <<windows, judgeVars, spendVars, orderPos, heldTry, stoppedBy, runClock, kills, holdings>>
MarkPair ==
    /\ runAt \in {"finish", "drop"}
    /\ pairs' = [pairs EXCEPT ![PairSeries][PairArm].state = "held", ![PairSeries][PairArm].attempt = IF runAt = "drop" THEN 0 ELSE place.attempt]
    /\ runAt' = "pair" /\ place' = Start0 /\ heldTry' = Unset /\ logged' = 0
    /\ UNCHANGED <<windows, judgeVars, realSpend, unpriced, orderPos, stoppedBy, runClock, kills, holdings>>

(* The last try's calls are priced, then how the meetings ended is written. *)
HeldBy(s, a) == pairs[s][a].state = "held" /\ pairs[s][a].attempt > 0
DroppedBy(s, a) == pairs[s][a].state = "held" /\ pairs[s][a].attempt = 0
LatestEnd(among) ==
    LET ends == {LastWindow.last[s] : s \in among} \ {Unset}
    IN IF ends = {} THEN Unset ELSE CHOOSE at \in ends : \A other \in ends : other <= at
Ended ==
    LET kept == {s \in AllSeries : \A a \in ArmSet : HeldBy(s, a)}
    IN [kept |-> kept, dropped |-> {s \in AllSeries : \E a \in ArmSet : DroppedBy(s, a)}, by |-> stoppedBy,
        at |-> IF LatestEnd(AllSeries) = Unset THEN runClock ELSE LatestEnd(AllSeries), lastScored |-> LatestEnd(kept)]
EndMeetings ==
    /\ runAt = "price"
    /\ IF unpriced THEN runAt' = "fault" /\ UNCHANGED windows
       ELSE SetWindow("ended", Ended) /\ runAt' = IF IsScored(LastWindow') THEN "draw" ELSE "report"
    /\ UNCHANGED <<pairs, judgeVars, spendVars, orderPos, place, heldTry, stoppedBy, runClock, kills, holdings>>

-----------------------------------------------------------------------------
(* gather_answers: the last try of each meeting in the attempt that finished; a missing answer  *)
(* is in the seal and in no packet.                                                             *)
FinishedTry(p, m) ==
    CHOOSE t \in {p.tries[i] : i \in DOMAIN p.tries} :
        /\ t.meeting = m /\ t.attempt = p.attempt
        /\ \A i \in DOMAIN p.tries : p.tries[i].meeting = m /\ p.tries[i].attempt = p.attempt => p.tries[i].n <= t.n
AnswersHeld == {[series |-> s, arm |-> a, try |-> FinishedTry(pairs[s][a], m)] :
                  s \in LastWindow.ended.kept, a \in ArmSet, m \in {i \in DOMAIN MeetingList : MeetingList[i] # "briefing"}}
Blinded == {r \in AnswersHeld : r.try.gave = "held"}

(* The seal is written before the packets; packets already drawn must be of the same answers. *)
DrawSeal ==
    /\ runAt = "draw"
    /\ IF packets = Unset THEN seal' = AnswersHeld /\ runAt' = "packets"
       ELSE runAt' = (IF seal = AnswersHeld THEN "judge" ELSE "fault") /\ UNCHANGED seal
    /\ UNCHANGED <<windows, pairs, packets, judgeLog, replies, unreadable, spendVars, orderPos, place, heldTry, stoppedBy, runClock, kills, holdings>>
DrawPackets ==
    /\ runAt = "packets"
    /\ packets' = Blinded /\ runAt' = "judge"
    /\ UNCHANGED <<windows, pairs, seal, judgeLog, replies, unreadable, spendVars, orderPos, place, heldTry, stoppedBy, runClock, kills, holdings>>

(* The judge asks in its own drawn order, which any choice of the next packet stands for.  What *)
(* is kept was asked before what is not, and is read first.                                     *)
AnsweredPackets == {judgeLog[i] : i \in DOMAIN judgeLog}

(* Answered, with no answer kept: asking again would be a second pass. *)
Lost == AnsweredPackets \ replies
JudgeBatch ==
    /\ runAt = "judge"
    /\ runAt' = IF Lost # {} THEN "fault" ELSE "ask"
    /\ place' = Start0
    /\ UNCHANGED <<diskVars, spendVars, orderPos, heldTry, stoppedBy, runClock, kills, holdings>>
JudgeSpend == Len(judgeLog)
Ask(p) ==
    /\ runAt = "ask" /\ unreadable = {} /\ p \in packets \ replies /\ JudgeSpend < JudgeCap
    /\ judgeLog' = Append(judgeLog, p)
    /\ runAt' = "reply" /\ heldTry' = p
    /\ UNCHANGED <<windows, pairs, seal, packets, replies, unreadable, spendVars, orderPos, place, stoppedBy, runClock, kills, holdings>>
(* A provider error is tried again, then stops the judging; any other is a fault. *)
AskFails ==
    /\ runAt = "ask" /\ unreadable = {} /\ packets \ replies # {} /\ JudgeSpend < JudgeCap
    /\ \/ /\ place.failed < TryRetries /\ place' = [place EXCEPT !.failed = @ + 1]
          /\ UNCHANGED <<runAt, orderPos, heldTry, stoppedBy, logged>>
       \/ place.failed = TryRetries /\ ProcessOver
       \/ runAt' = "fault" /\ UNCHANGED <<place, orderPos, heldTry, stoppedBy, logged>>
    /\ UNCHANGED <<diskVars, realSpend, unpriced, runClock, kills, holdings>>
KeepAnswer(readable) ==
    /\ runAt = "reply"
    /\ replies' = replies \cup {heldTry} /\ heldTry' = Unset
    /\ unreadable' = IF readable THEN unreadable ELSE unreadable \cup {heldTry}
    /\ runAt' = (IF readable THEN "ask" ELSE "fault") /\ place' = Start0
    /\ UNCHANGED <<windows, pairs, seal, packets, judgeLog, spendVars, orderPos, stoppedBy, runClock, kills, holdings>>
(* A kept answer is read again by every start. *)
ReadKept ==
    /\ runAt = "ask" /\ unreadable # {}
    /\ runAt' = "fault"
    /\ UNCHANGED <<diskVars, spendVars, orderPos, place, heldTry, stoppedBy, runClock, kills, holdings>>
Judged ==
    /\ runAt = "ask" /\ unreadable = {} /\ (packets \subseteq replies \/ JudgeSpend >= JudgeCap)
    /\ runAt' = "report"
    /\ UNCHANGED <<diskVars, spendVars, orderPos, place, heldTry, stoppedBy, runClock, kills, holdings>>
WriteReport ==
    /\ runAt = "report" /\ ProcessOver
    /\ UNCHANGED <<diskVars, realSpend, unpriced, runClock, kills, holdings>>

-----------------------------------------------------------------------------
(* Killed: a try under way has made some of its calls; a log cut in mid-line counts for nothing. *)
KillRun(cost, odd, cut) ==
    /\ runAt # "off" /\ kills < MaxKills /\ kills' = kills + 1
    /\ (runAt # "try" => cost = 0 /\ ~odd /\ ~cut)
    /\ (cut => cost = 0 /\ ~odd)
    /\ realSpend' = IF cut THEN realSpend - logged ELSE realSpend + cost
    /\ unpriced' = (unpriced \/ odd)
    /\ ProcessOver
    /\ UNCHANGED <<diskVars, runClock, holdings>>
RunTick ==
    /\ runClock < MaxRunClock /\ runClock' = runClock + 1
    /\ UNCHANGED <<diskVars, spendVars, runAt, orderPos, place, heldTry, stoppedBy, kills, holdings>>

HoldNext ==
    \/ PairHeld \/ HoldPair \/ CheckTry \/ KeepTry \/ MarkPair \/ EndMeetings
    \/ \E gave \in Outcomes \cup {"raises"}, cost \in TryCosts, odd \in BOOLEAN : HoldTry(gave, cost, odd)
JudgeNext ==
    \/ DrawSeal \/ DrawPackets \/ JudgeBatch \/ AskFails \/ ReadKept \/ Judged \/ WriteReport
    \/ (packets # Unset /\ \E p \in packets : Ask(p)) \/ \E readable \in BOOLEAN : KeepAnswer(readable)
ScoredNext ==
    \/ (\E fixed \in BOOLEAN : OpenRun(fixed)) \/ RecordFault \/ HoldNext \/ JudgeNext
    \/ (\E cost \in TryCosts \cup {0}, odd, cut \in BOOLEAN : KillRun(cost, odd, cut)) \/ RunTick

-----------------------------------------------------------------------------
(* Over every window and kill the logs show at most one try past the cap, and every try that    *)
(* counts began within seven days of the window's first and ended by what run.json keeps.       *)
MaxCost == CHOOSE c \in TryCosts : \A d \in TryCosts : d <= c
TriesStayInBounds ==
    /\ realSpend < SpendCap + MaxCost
    /\ \A s \in AllSeries, a \in ArmSet : \A i \in DOMAIN pairs[s][a].tries :
          /\ pairs[s][a].tries[i].began - LastWindow.opened < WindowLength
          /\ pairs[s][a].tries[i].began <= LastWindow.last[s]
          /\ LastWindow.ended # Unset /\ s \in LastWindow.ended.kept => pairs[s][a].tries[i].began <= LastWindow.ended.lastScored
    /\ windows # <<>> /\ LastWindow.ended # Unset /\ LastWindow.ended.kept # {} => LastWindow.ended.lastScored <= LastWindow.ended.at

(* A pair held to the end is one holding: in the attempt that finished every meeting's last try *)
(* stands, and a dropped one ran out of retries in its last attempt.  After a drop no later arm *)
(* holds the series.                                                                            *)
PairsAreWhole ==
    \A s \in AllSeries : \A i \in 1..Len(ArmOrder[s]) :
        LET p == pairs[s][ArmOrder[s][i]] IN
        /\ \A j, k \in DOMAIN p.tries : p.tries[j].holding = p.tries[k].holding
        /\ p.state = "held" /\ p.attempt > 0 =>
             \A m \in DOMAIN MeetingList : Stands(FinishedTry(p, m).gave)
        /\ p.state = "held" /\ p.attempt = 0 =>
             /\ \E m \in DOMAIN MeetingList :
                  Cardinality({j \in DOMAIN p.tries : p.tries[j].attempt = SeriesAttempts /\ p.tries[j].meeting = m /\ p.tries[j].gave = "cut"}) = TryRetries + 1
             /\ \A j \in i + 1 .. Len(ArmOrder[s]) : pairs[s][ArmOrder[s][j]] = NoPair

(* What the judge reads is what every arm held to the end in a window no fault has closed, as   *)
(* the seal has it, and it answers for no packet twice, however often the process was killed.   *)
JudgedOnce ==
    /\ packets # Unset => packets \subseteq seal /\ \A r \in seal : r.series \in LastWindow.ended.kept /\ HeldBy(r.series, r.arm)
    /\ \A i, j \in DOMAIN judgeLog : judgeLog[i] = judgeLog[j] => i = j
    /\ runAt \in {"draw", "packets", "judge", "ask", "reply"} => ~LastWindow.fault /\ IsScored(LastWindow)

(* The third fault ends the run. *)
FaultsEndTheRun == Len(windows) <= FaultLimit /\ (Faults(windows) = FaultLimit => runAt \in {"off", "report"})

(* The run never pays past its cap, scores nothing it discarded or mixed, and asks the judge    *)
(* once, over kills, faults and restarts (scored.py, pairs.py, rating.py, judge.py).            *)
ScoredRunIsSound == TriesStayInBounds /\ PairsAreWhole /\ JudgedOnce /\ FaultsEndTheRun
=============================================================================
