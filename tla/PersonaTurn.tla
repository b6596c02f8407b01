---------------------------- MODULE PersonaTurn ----------------------------
(***************************************************************************)
(* One turn of a persona, from the event it is woken with to what the room *)
(* hears.  The inbound event passes the depth clamp, the replay short cut, *)
(* the response gate (response_gate.py) and, on the open floor of a        *)
(* governed channel, the salience bid (salience_bid.py).  An admitted      *)
(* event is composed with at most MaxCalls LLM calls (action_loop.py), the *)
(* answer is parsed into actions, bound to the room (channel_reply.py),    *)
(* criticised and revised (reflexion.py), confined to the room             *)
(* (single_channel_turn.py), remembered and executed                       *)
(* (action_executor.py, end_vote_action.py).                               *)
(*                                                                         *)
(* One event is handled per behaviour: the persona's lock serialises turns *)
(* (EventLoop models the queue around them and PersonaClose what closing   *)
(* an interaction does to memory).  A text is a sequence of parts, <<>>    *)
(* the blank text; scores and thresholds are in tenths.                    *)
(***************************************************************************)
EXTENDS Integers, Sequences, FiniteSets, SequencesExt

CONSTANTS Events,      \* the events the persona may be woken with
          Replies,     \* what the compose call may answer: [fence, raw, prose]
          Scores,      \* the scores a scalar bid may answer, in tenths
          MaxCalls,    \* config.max_llm_calls
          MaxDepth,    \* max_cascade_depth
          MaxRevise    \* reflexion.MAX_REVISE_ROUNDS

ASSUME TurnAssumption ==
    /\ MaxCalls \in Nat /\ MaxRevise \in Nat /\ MaxDepth \in Int /\ Scores \subseteq Int
    /\ \A e \in Events : e.depth \in Int /\ e.revise \in Int

VARIABLES ev,        \* the event
          pc,        \* where the turn is
          outcome,   \* how it ended, "" while undecided
          verdict,   \* the bid's answer, "none" before or without a bid
          plan,      \* a composition plan was parsed from the bid
          calls,     \* LLM calls made, by purpose
          rounds,    \* revision rounds that changed the draft
          acts,      \* the actions of the turn still to be executed
          said,      \* the actions the turn decided on
          stored,    \* episodes written for the event
          closed,    \* what closed the interaction under the turn, "" if nothing
          sent,      \* every publish attempted, in order
          disabled,  \* HTTPChannelPublisher._disabled
          reply      \* the answer of SendChatMessage

turnVars == <<ev, pc, outcome, verdict, plan, calls, rounds, acts, said, stored,
          closed, sent, disabled, reply>>

Me   == "me"
All  == "@everyone"
NoOne == "none"

Send(ch, text, to) == [type |-> "send", ch |-> ch, text |-> text, to |-> to]
Vote(ch, text)     == [type |-> "vote", ch |-> ch, text |-> text, to |-> {}]
Complete(text)     == [type |-> "complete", ch |-> "", text |-> text, to |-> {}]
Nothing            == [type |-> "nothing", ch |-> "", text |-> <<>>, to |-> {}]

InChannel(e) == e.kind = "channel"
IsDM(e)      == e.ch = "dm"

-----------------------------------------------------------------------------
(***************************************************************************)
(* The response gate.                                                      *)
(***************************************************************************)

\* response_policies._DISPOSITION_ALIASES
PolicyOf(e) == CASE e.policy \in {"participant", "chair"} -> "always"
                 [] e.policy = "addressed"                -> "when_mentioned"
                 [] e.policy = "observer"                 -> "never"
                 [] OTHER                                 -> e.policy

ForcedMarkers == {"chair_escalation", "convene", "synthesis_turn"}

Decision(respond, reason) == [respond |-> respond, reason |-> reason]

DirectGate(e) ==
    IF e.sender = Me THEN Decision(FALSE, "self_sender")
    ELSE IF "close" \in e.marks THEN Decision(FALSE, "close_notification")
    ELSE Decision(TRUE, "dm")

\* the mentions that direct a message at somebody else: the resolved floor
\* when the router sent one
DirectedAt(e) == IF e.floor.resolved THEN e.floor.mentions ELSE e.mentions

AlwaysGate(e) ==
    IF Me \in e.mentions THEN Decision(TRUE, "mentioned")
    ELSE IF All \in e.mentions THEN Decision(TRUE, "broadcast")
    ELSE IF e.mentions # {} /\ DirectedAt(e) # {} THEN Decision(FALSE, "directed_elsewhere")
    ELSE Decision(TRUE, "policy_always")

MentionedGate(e) ==
    IF Me \in e.mentions THEN Decision(TRUE, "mentioned")
    ELSE Decision(e.threadToMe, "thread")

GroupGate(e) ==
    IF "close" \in e.marks THEN Decision(FALSE, "close_notification")
    ELSE IF e.sender = Me THEN Decision(FALSE, "self_sender")
    ELSE IF PolicyOf(e) = "never" THEN Decision(FALSE, "policy_never")
    ELSE IF PolicyOf(e) \in {"always", "when_mentioned"} /\ e.marks \cap ForcedMarkers # {}
         THEN Decision(TRUE, "forced")
    ELSE CASE PolicyOf(e) = "always"         -> AlwaysGate(e)
           [] PolicyOf(e) = "when_mentioned" -> MentionedGate(e)
           [] OTHER                          -> Decision(FALSE, "unknown_policy")

ResponseGate(e) == IF ~InChannel(e) THEN Decision(TRUE, "not_channel")
           ELSE IF IsDM(e) THEN DirectGate(e) ELSE GroupGate(e)

IsOpenFloorAdmit(d) == d.respond /\ d.reason = "policy_always"

-----------------------------------------------------------------------------
(***************************************************************************)
(* The salience bid.  Only an open-floor admission of a governed channel   *)
(* bids; a channel above its size limit is not bid for at all.             *)
(***************************************************************************)

\* Mutant: every admission of a governed channel bids.
BidsAlways(e) == ResponseGate(e).respond /\ e.governed

Bids(e) == IsOpenFloorAdmit(ResponseGate(e)) /\ e.governed

SkipForSize(e) == e.limit > 0 /\ e.size > e.limit

Structured(e) == e.mode \in {"bid", "plan"}

MaxOf(a, b) == IF a > b THEN a ELSE b
MinOf(a, b) == IF a < b THEN a ELSE b

\* an unset or out-of-range threshold falls back to the decisive score
Threshold(e) == IF e.threshold \in 0..10 THEN e.threshold ELSE 8

Bar(e, addressing) ==
    LET base == Threshold(e)
        bar  == CASE addressing = "self"  -> base - 2
                  [] addressing = "other" -> MinOf(base + 2, MaxOf(9, base))
                  [] OTHER                -> base
    IN  MaxOf(0, MinOf(10, bar))

\* What the bid call may come back with.  detect_nl_addressing reads the
\* message's wording, which the model does not hold: it may find either.
Addressings == {"self", "other", "nobody"}
ScalarAnswers ==
    [kind : {"scalar"}, score : Scores \cup {-1}, speak : {"yes", "no", "missing"},
     addressing : Addressings]
VerdictAnswers ==
    [kind : {"verdict"}, post : {"yes", "no", "missing"}, code : {"silence", "substance", "missing"},
     plan : BOOLEAN]
BidErrors == [kind : {"error"}]     \* lease denied, provider error, no "fast" model
BidAnswers(e) == BidErrors \cup (IF Structured(e) THEN VerdictAnswers ELSE ScalarAnswers)

ParseVerdict(a) == a.post = "yes" /\ a.code # "silence"

EvaluateSalience(e, a) ==
    CASE a.kind = "error"   -> FALSE
      [] a.kind = "verdict" -> ParseVerdict(a)
      [] a.kind = "scalar"  -> /\ a.score >= 0          \* -1: no score could be parsed
                               /\ a.score >= Bar(e, a.addressing)
                               /\ a.speak # "no"

PlanFrom(e, a) == e.mode = "plan" /\ a.kind = "verdict" /\ a.plan

\* revise rounds the channel asks for, clamped; only a planned turn revises
ReviseCap(e) == IF plan THEN MinOf(e.revise, MaxRevise) ELSE 0

-----------------------------------------------------------------------------
(***************************************************************************)
(* From the model's answer to the turn's actions.                          *)
(***************************************************************************)

\* validate_action_payload: a send without a room or without content, and a
\* malformed delegate or spawn, become DO_NOTHING
Validated(a) == IF a.type = "send" /\ (a.ch = "" \/ a.text = <<>>) THEN Nothing ELSE a

\* An entry of an unknown type is dropped.  A fenced list with a vote keeps the prose
\* around the fence.  Anything that is not an action list is one COMPLETE_TASK.
ParseActions(r) ==
    LET known == SelectSeq(r.raw, LAMBDA a : a.type # "bogus")
        parsed == [i \in DOMAIN known |-> Validated(known[i])]
        votes == \E i \in DOMAIN known : known[i].type = "vote"
    IN  IF r.raw = <<>> \/ known = <<>> THEN <<Complete(r.prose)>>
        ELSE IF r.fence /\ r.prose # <<>> /\ votes THEN Append(parsed, Complete(r.prose))
        ELSE parsed

BindEndVote(e, as) ==
    [i \in DOMAIN as |-> IF as[i].type = "vote" /\ as[i].ch = ""
                         THEN [as[i] EXCEPT !.ch = e.ch] ELSE as[i]]

InGroup(ch) == ch \notin {"", "dm"}

\* the parts without the repetitions
Distinct(parts) ==
    LET firsts == SetToSortSeq({i \in DOMAIN parts : \A j \in 1..(i - 1) : parts[j] # parts[i]}, <)
    IN  [k \in DOMAIN firsts |-> parts[firsts[k]]]

\* The first vote in a group takes the turn's prose for that room into its
\* own content; the actions that carried the prose are dropped.
FoldProse(e, as) ==
    LET votes == {i \in DOMAIN as : as[i].type = "vote" /\ InGroup(as[i].ch)} IN
    IF votes = {} THEN as
    ELSE LET v == CHOOSE i \in votes : \A j \in votes : i <= j
             Prose(i) == /\ i # v
                         /\ \/ as[i].type = "send" /\ as[i].ch = as[v].ch
                            \/ as[i].type = "complete"
                         /\ as[i].text # <<>>
             prose == FlattenSeq([i \in DOMAIN as |-> IF Prose(i) THEN as[i].text ELSE <<>>])
             folded == [as EXCEPT ![v].text = Distinct(prose \o as[v].text)]
             keep == SetToSortSeq({i \in DOMAIN as : ~Prose(i)}, <)
         IN  IF prose = <<>> THEN as ELSE [k \in DOMAIN keep |-> folded[keep[k]]]

Forced(e) == e.marks \cap {"convene", "synthesis_turn"} # {}

\* What a turn that did not publish in its room says there: the first
\* non-blank COMPLETE_TASK, a placeholder in a direct message, nothing in a group
SynthesizeReply(e, as) ==
    LET bound == FoldProse(e, BindEndVote(e, as))
        told  == SelectSeq(bound, LAMBDA a : a.type = "complete" /\ a.text # <<>>)
        to    == IF Forced(e) THEN {} ELSE {e.sender}
    IN  CASE ~InChannel(e) -> as
          [] InChannel(e) /\ (\E i \in DOMAIN bound : bound[i].type = "send" /\ bound[i].ch = e.ch)
                 -> bound
          [] OTHER -> IF told # <<>> THEN <<Send(e.ch, told[1].text, to)>> \o bound
                      ELSE IF IsDM(e) THEN <<Send(e.ch, <<"placeholder">>, to)>> \o bound
                      ELSE bound

\* a channel turn sends messages to its own channel only; votes pass
EnforceSingleChannel(e, as) ==
    IF ~InChannel(e) THEN as
    ELSE [i \in DOMAIN as |-> IF as[i].type = "send" /\ as[i].ch # e.ch THEN Nothing ELSE as[i]]

FirstDraft(as) == {i \in DOMAIN as : /\ as[i].type = "send" /\ as[i].text # <<>>
                                     /\ \A j \in 1..(i - 1) : as[j].type # "send" \/ as[j].text = <<>>}

-----------------------------------------------------------------------------
(***************************************************************************)
(* Deciding whether to take the turn.                                      *)
(***************************************************************************)

End(how) == pc' = "done" /\ outcome' = how

Untouched == UNCHANGED <<ev, disabled>>

\* process_inbound_channel_event: the cascade is cut before the persona sees it
TooDeep ==
    /\ pc = "received" /\ InChannel(ev) /\ ev.depth >= MaxDepth
    /\ End("dropped")
    /\ UNCHANGED <<verdict, plan, calls, rounds, acts, said, stored, closed, sent, reply>> /\ Untouched

\* _on_event_inner: a persona configured without a model answers nothing
NoModel ==
    /\ pc = "received" /\ ~(InChannel(ev) /\ ev.depth >= MaxDepth) /\ ~ev.model
    /\ pc' = "executing" /\ outcome' = "no_model"
    /\ acts' = <<Complete(<<"error">>)>> /\ said' = acts'
    /\ UNCHANGED <<verdict, plan, calls, rounds, stored, closed, sent, reply>> /\ Untouched

Begins == pc = "received" /\ ~(InChannel(ev) /\ ev.depth >= MaxDepth) /\ ev.model

\* _on_event_inner: a replayed message is remembered unless it is the persona's own
Replay ==
    /\ Begins /\ ev.replay
    /\ stored' = IF ev.sender # Me THEN stored + 1 ELSE stored
    /\ End("replayed")
    /\ UNCHANGED <<verdict, plan, calls, rounds, acts, said, closed, sent, reply>> /\ Untouched

\* suppressed_event_actions: a close notification closes the interaction, an
\* own message leaves no trace, everything else is remembered unanswered
Suppress ==
    /\ Begins /\ ~ev.replay /\ ~ResponseGate(ev).respond
    /\ IF ResponseGate(ev).reason = "close_notification"
       THEN closed' = "notification" /\ UNCHANGED stored
       ELSE /\ stored' = IF ResponseGate(ev).reason = "self_sender" THEN stored ELSE stored + 1
            /\ UNCHANGED closed
    /\ End("suppressed")
    /\ UNCHANGED <<verdict, plan, calls, rounds, acts, said, sent, reply>> /\ Untouched

\* Mutant: a channel that is too large is left before the message is remembered.
TooLargeForgets ==
    /\ Begins /\ ~ev.replay /\ Bids(ev) /\ SkipForSize(ev)
    /\ End("silent")
    /\ UNCHANGED <<verdict, plan, calls, rounds, acts, said, stored, closed, sent, reply>> /\ Untouched

\* run_salience_gate in a channel above its size limit: silent, without a call
TooLarge ==
    /\ Begins /\ ~ev.replay /\ Bids(ev) /\ SkipForSize(ev)
    /\ stored' = stored + 1
    /\ End("silent")
    /\ UNCHANGED <<verdict, plan, calls, rounds, acts, said, closed, sent, reply>> /\ Untouched

\* run_salience_gate: the bid is sent ...
Bid ==
    /\ Begins /\ ~ev.replay /\ Bids(ev) /\ ~SkipForSize(ev)
    /\ calls' = [calls EXCEPT !.bid = @ + 1]
    /\ pc' = "bidding"
    /\ UNCHANGED <<outcome, verdict, plan, rounds, acts, said, stored, closed, sent, reply>> /\ Untouched

\* ... and answered: any failure and any refusal is silence
BidAnswer ==
    /\ pc = "bidding"
    /\ \E a \in BidAnswers(ev) :
        /\ verdict' = a
        /\ IF EvaluateSalience(ev, a)
           THEN pc' = "composing" /\ plan' = PlanFrom(ev, a) /\ UNCHANGED <<outcome, stored>>
           ELSE End("silent") /\ stored' = stored + 1 /\ UNCHANGED plan
    /\ UNCHANGED <<calls, rounds, acts, said, closed, sent, reply>> /\ Untouched

\* an admission that does not bid
Admit ==
    /\ Begins /\ ~ev.replay /\ ResponseGate(ev).respond /\ ~Bids(ev)
    /\ pc' = "composing"
    /\ UNCHANGED <<outcome, verdict, plan, calls, rounds, acts, said, stored, closed, sent, reply>>
    /\ Untouched

-----------------------------------------------------------------------------
(***************************************************************************)
(* Composing.                                                              *)
(***************************************************************************)

\* A turn that ends without a decision of the model: one COMPLETE_TASK for the
\* caller, which no room hears, or DO_NOTHING on a tick
EndWithout(how, as) ==
    /\ pc' = "executing" /\ outcome' = how
    /\ acts' = as /\ said' = as

\* Memory is injected; a tick that found none, with no goal and no recent
\* context, idles without a call.
Inject ==
    /\ pc = "composing"
    /\ \/ ev.kind = "tick" /\ EndWithout("idle", <<Nothing>>)
       \/ MaxCalls = 0 /\ EndWithout("no_response", <<Complete(<<"error">>)>>)
       \/ MaxCalls > 0 /\ pc' = "calling" /\ UNCHANGED <<outcome, acts, said>>
    /\ UNCHANGED <<verdict, plan, calls, rounds, stored, closed, sent, reply>> /\ Untouched

\* handle_llm_call_exception_with_cost_close: a spent interaction is closed
\* first; a tick idles on a denial, any other turn lets the denial through to
\* its caller; every other error is a COMPLETE_TASK
CallFails ==
    /\ pc = "calling" /\ calls.turn < MaxCalls
    /\ calls' = [calls EXCEPT !.turn = @ + 1]
    /\ \E denial \in {"interaction_budget", "budget", "exhausted", "other"} :
        /\ closed' = IF denial = "interaction_budget" THEN "cost" ELSE closed
        /\ CASE denial = "other" -> EndWithout("provider_error", <<Complete(<<"error">>)>>)
             [] denial # "other" /\ ev.kind = "tick" -> EndWithout("idle", <<Nothing>>)
             [] OTHER -> pc' = "raised" /\ outcome' = "denied" /\ UNCHANGED <<acts, said>>
    /\ UNCHANGED <<verdict, plan, rounds, stored, sent, reply>> /\ Untouched

\* the action list is bound to the room; its first draft may be revised
DecideTurn(r) ==
    LET as == SynthesizeReply(ev, ParseActions(r)) IN
    /\ acts' = as /\ said' = as
    /\ pc' = IF ReviseCap(ev) > 0 /\ FirstDraft(as) # {} THEN "critic" ELSE "guard"
    /\ UNCHANGED outcome

\* The model asks for tools; its last permitted call still asking is an answer
\* that says so.
CallTools ==
    /\ pc = "calling" /\ calls.turn < MaxCalls
    /\ calls' = [calls EXCEPT !.turn = @ + 1]
    /\ IF calls.turn + 1 < MaxCalls THEN UNCHANGED <<pc, outcome, acts, said>>
       ELSE DecideTurn([fence |-> FALSE, raw |-> <<>>, prose |-> <<"budget spent">>])
    /\ UNCHANGED <<verdict, plan, rounds, stored, closed, sent, reply>> /\ Untouched

CallTruncated ==
    /\ pc = "calling" /\ calls.turn < MaxCalls
    /\ calls' = [calls EXCEPT !.turn = @ + 1]
    /\ EndWithout("truncated", <<Complete(<<"error">>)>>)
    /\ UNCHANGED <<verdict, plan, rounds, stored, closed, sent, reply>> /\ Untouched

\* A list whose entries are not objects raises out of the parser.
CallAnswers ==
    /\ pc = "calling" /\ calls.turn < MaxCalls
    /\ calls' = [calls EXCEPT !.turn = @ + 1]
    /\ \E r \in Replies :
        IF \E i \in DOMAIN r.raw : r.raw[i].type = "malformed"
        THEN pc' = "raised" /\ outcome' = "raised" /\ UNCHANGED <<acts, said>>
        ELSE DecideTurn(r)
    /\ UNCHANGED <<verdict, plan, rounds, stored, closed, sent, reply>> /\ Untouched

\* run_reflexion: the critic finds the draft weak, or the rounds are over
Critic ==
    /\ pc = "critic"
    /\ calls' = [calls EXCEPT !.critic = @ + 1]
    /\ pc' \in {"revise", "guard"}
    /\ UNCHANGED <<outcome, verdict, plan, rounds, acts, said, stored, closed, sent, reply>> /\ Untouched

\* ... and the draft is rewritten.  A failed, truncated, blank or unchanged
\* revision ends the rounds with the draft there was.
Revise ==
    /\ pc = "revise"
    /\ calls' = [calls EXCEPT !.revise = @ + 1]
    /\ \/ pc' = "guard" /\ UNCHANGED <<rounds, acts, said>>
       \/ /\ rounds' = rounds + 1
          /\ LET i == CHOOSE i \in FirstDraft(acts) : TRUE IN
             acts' = [acts EXCEPT ![i].text = <<"revised">>]
          /\ said' = acts'
          /\ pc' = IF rounds + 1 < ReviseCap(ev) THEN "critic" ELSE "guard"
    /\ UNCHANGED <<outcome, verdict, plan, stored, closed, sent, reply>> /\ Untouched

\* _on_event_inner's tail: confine the turn to its room, remember it (the
\* event with its actions), persist the persona's state
Guard ==
    /\ pc = "guard"
    /\ acts' = EnforceSingleChannel(ev, acts) /\ said' = acts'
    /\ pc' = "storing"
    /\ UNCHANGED <<outcome, verdict, plan, calls, rounds, stored, closed, sent, reply>> /\ Untouched

Store ==
    /\ pc = "storing"
    /\ stored' = stored + 1
    /\ pc' = "persisting"
    /\ UNCHANGED <<outcome, verdict, plan, calls, rounds, acts, said, closed, sent, reply>> /\ Untouched

PersistTurn ==
    /\ pc = "persisting"
    /\ pc' = "executing" /\ outcome' = "acted"
    /\ UNCHANGED <<verdict, plan, calls, rounds, acts, said, stored, closed, sent, reply>> /\ Untouched

\* on_tick's answer to a timeout is DO_NOTHING, on_event's a COMPLETE_TASK
GivenUp == IF ev.kind = "tick" THEN <<Nothing>> ELSE <<Complete(<<"error">>)>>

\* on_event / on_tick: wait_for gives the turn up wherever it is waiting.
\* What it had decided is dropped, an episode already written stays.
Timeout ==
    /\ pc \in {"bidding", "composing", "calling", "critic", "revise", "storing", "persisting"}
    /\ EndWithout("timeout", GivenUp)
    /\ UNCHANGED <<verdict, plan, calls, rounds, stored, closed, sent, reply>> /\ Untouched

-----------------------------------------------------------------------------
(***************************************************************************)
(* What the room hears.                                                    *)
(***************************************************************************)

\* DispatchContext.same_channel_claim: a publish claims the interaction the
\* turn was dispatched under only in the room it came from, and the synthesis
\* reply only when the event asked for it
Claim(ch, synthesis) ==
    LET same == InChannel(ev) /\ ev.interaction /\ ch = ev.ch IN
    [interaction |-> same, synthesis |-> same /\ synthesis /\ "synthesis_turn" \in ev.marks]

Publication(a, err, landed) ==
    [ch |-> a.ch, text |-> a.text, to |-> a.to, vote |-> a.type = "vote", err |-> err,
     claim |-> Claim(a.ch, ~err), landed |-> landed]

\* publish: after the first 503 every call is refused without being sent; an
\* error or a timeout may come after the message has landed
Publish(a, err) ==
    IF disabled THEN sent' = Append(sent, Publication(a, err, FALSE)) /\ UNCHANGED disabled
    ELSE \/ \E landed \in BOOLEAN :
              sent' = Append(sent, Publication(a, err, landed)) /\ UNCHANGED disabled
         \/ sent' = Append(sent, Publication(a, err, FALSE)) /\ disabled' = TRUE

\* a vote without a room or in a direct message is not published; a vote
\* without content says the default sentence
Publishes(a) == a.type = "send" \/ (a.type = "vote" /\ InGroup(a.ch))

WithContent(a) == IF a.type = "vote" /\ a.text = <<>> THEN [a EXCEPT !.text = <<"default">>] ELSE a

\* extract_chat_reply: a message to the user, any message, the task's result
ChatReply(as) ==
    LET sends == SelectSeq(as, LAMBDA a : a.type = "send")
        mine  == SelectSeq(sends, LAMBDA a : ev.sender \in a.to)
        tasks == SelectSeq(as, LAMBDA a : a.type = "complete")
    IN  IF mine # <<>> THEN [text |-> mine[1].text, status |-> "ok"]
        ELSE IF sends # <<>> THEN [text |-> sends[1].text, status |-> "ok"]
        ELSE IF tasks # <<>> THEN [text |-> tasks[1].text, status |-> "ok"]
        ELSE [text |-> <<>>, status |-> "empty"]

\* ActionExecutor.execute: one action after the other; the chat servicer has
\* read its reply from the whole list before
Execute ==
    /\ pc = "executing" /\ acts # <<>>
    /\ reply' = IF ev.kind = "chat" /\ reply.status = NoOne THEN ChatReply(acts) ELSE reply
    /\ acts' = Tail(acts)
    /\ IF Publishes(Head(acts)) THEN Publish(WithContent(Head(acts)), FALSE)
       ELSE UNCHANGED <<sent, disabled>>
    /\ UNCHANGED <<ev, pc, outcome, verdict, plan, calls, rounds, said, stored, closed>>

Executed ==
    /\ pc = "executing" /\ acts = <<>>
    /\ pc' = "done"
    /\ UNCHANGED <<ev, outcome, verdict, plan, calls, rounds, acts, said, stored, closed, sent, disabled, reply>>

\* publish_chat_error_on_channel: the denial, to its sender, in the room
ErrorReply == Send(ev.ch, <<"denied">>, {ev.sender})

\* dispatch_channel_event_with_chat_error_recovery: a denial is told to the
\* room, at depth 0 and never as the synthesis reply; other errors are logged.
\* SendChatMessage answers its caller with an error instead.
Recover ==
    /\ pc = "raised"
    /\ IF ev.kind = "channel" /\ outcome = "denied" /\ "synthesis_turn" \notin ev.marks
       THEN Publish(ErrorReply, TRUE)
       ELSE UNCHANGED <<sent, disabled>>
    /\ reply' = IF ev.kind = "chat" THEN [text |-> <<>>, status |-> "error"] ELSE reply
    /\ pc' = "done"
    /\ UNCHANGED <<ev, outcome, verdict, plan, calls, rounds, acts, said, stored, closed>>

TurnInit ==
    /\ ev \in Events
    /\ pc = "received" /\ outcome = "" /\ verdict = [kind |-> NoOne] /\ plan = FALSE
    /\ calls = [bid |-> 0, turn |-> 0, critic |-> 0, revise |-> 0] /\ rounds = 0
    /\ acts = <<>> /\ said = <<>> /\ stored = 0 /\ closed = "" /\ sent = <<>>
    /\ disabled \in BOOLEAN
    /\ reply = [text |-> <<>>, status |-> NoOne]

TurnNext ==
    \/ TooDeep \/ NoModel \/ Replay \/ Suppress \/ TooLarge \/ Bid \/ BidAnswer \/ Admit
    \/ Inject \/ CallFails \/ CallTools \/ CallTruncated \/ CallAnswers
    \/ Critic \/ Revise \/ Guard \/ Store \/ PersistTurn \/ Timeout
    \/ Execute \/ Executed \/ Recover

TurnSpec == TurnInit /\ [][TurnNext]_turnVars

-----------------------------------------------------------------------------
(***************************************************************************)
(* Properties.                                                             *)
(***************************************************************************)

Composed == pc \notin {"received", "bidding"} /\ outcome \notin {"dropped", "replayed", "suppressed", "silent"}

\* the message is put to the persona by name, by role or because it is alone with it
Addressed(e) ==
    /\ e.sender # Me /\ "close" \notin e.marks
    /\ \/ IsDM(e)
       \/ PolicyOf(e) \in {"always", "when_mentioned"} /\
          (Me \in e.mentions \/ e.marks \cap ForcedMarkers # {})
       \/ PolicyOf(e) = "always" /\ All \in e.mentions
       \/ PolicyOf(e) = "when_mentioned" /\ e.threadToMe

\* the message is not the persona's to answer
OutOfTurn(e) ==
    \/ e.sender = Me \/ "close" \in e.marks
    \/ ~IsDM(e) /\ PolicyOf(e) \notin {"always", "when_mentioned"}
    \/ ~IsDM(e) /\ ~Addressed(e) /\ PolicyOf(e) = "when_mentioned"
    \/ /\ ~IsDM(e) /\ ~Addressed(e) /\ e.mentions # {}
       /\ e.floor.resolved => e.floor.mentions # {}

(***************************************************************************)
(* The floor is kept (response_gate.py, salience_gate.py): a live message  *)
(* that addresses the persona is answered without a bid, one that is not   *)
(* its to answer never reaches the compose call, and a bid that failed, was*)
(* not understood or said no keeps it silent; being named by the speaker   *)
(* only ever lowers the bar, another name only ever raises it.             *)
(***************************************************************************)
FloorIsKept ==
    InChannel(ev) /\ ~ev.replay /\ ev.depth < MaxDepth /\ ev.model =>
        /\ Addressed(ev) => verdict.kind = NoOne /\ pc # "bidding" /\ outcome \notin {"suppressed", "silent"}
        /\ OutOfTurn(ev) => ~Composed /\ calls.bid = 0
        /\ Composed /\ verdict.kind = "verdict" => verdict.post = "yes"
        /\ verdict.kind = "error" => ~Composed
        /\ verdict.kind = "scalar" =>
            /\ Composed => verdict.score >= 0 /\ verdict.speak # "no"
            /\ Composed /\ verdict.addressing = "other" => verdict.score >= Threshold(ev)
            /\ verdict.addressing = "self" /\ verdict.score >= Threshold(ev) /\ verdict.speak # "no"
                   => Composed

(***************************************************************************)
(* What is heard is remembered once (gate_suppress.py, salience_gate.py,   *)
(* action_loop.py): a turn that ends by a decision, to speak, to stay      *)
(* silent or to pass, has written one episode of the event, its own        *)
(* messages and close notifications none; no ending writes two.            *)
(***************************************************************************)
HeardIsRemembered ==
    /\ stored <= 1
    /\ pc = "done" =>
        /\ outcome = "acted" => stored = 1
        /\ outcome \in {"suppressed", "silent", "replayed"} =>
             stored = IF ev.sender = Me \/ ("close" \in ev.marks /\ ~ev.replay) THEN 0 ELSE 1

InRoom(p) == p.ch = ev.ch

(***************************************************************************)
(* The room hears one answer (channel_reply.py): a turn that acted on a    *)
(* direct message has published there, and never only blank text; a turn   *)
(* with one vote in its group says everything it has for that room in the  *)
(* vote; messages, unlike votes, never leave the room.                     *)
(***************************************************************************)
RoomHearsOneAnswer ==
    pc = "done" /\ InChannel(ev) =>
        /\ outcome = "acted" /\ IsDM(ev) => \E i \in DOMAIN sent : InRoom(sent[i]) /\ sent[i].text # <<>>
        /\ \A i \in DOMAIN sent : ~sent[i].vote => InRoom(sent[i])
        /\ Cardinality({i \in DOMAIN said : said[i].type = "vote"}) = 1 =>
             \A i, j \in DOMAIN sent : sent[i].vote /\ InRoom(sent[i]) /\ i # j => ~InRoom(sent[j])

(***************************************************************************)
(* Denials and claims (chat_reply.py, dispatch_context.py): a turn whose   *)
(* budget was refused tells its room so exactly once, except on a          *)
(* synthesis turn, where any reply of the persona would end the exchange;  *)
(* only a deliberate answer claims to be the synthesis, and only in the    *)
(* room whose interaction it was dispatched under.                         *)
(***************************************************************************)
DenialsAreTold ==
    /\ pc = "done" /\ InChannel(ev) =>
         Cardinality({i \in DOMAIN sent : sent[i].err}) =
             IF outcome = "denied" /\ "synthesis_turn" \notin ev.marks THEN 1 ELSE 0
    /\ \A i \in DOMAIN sent :
         /\ sent[i].claim.interaction => InRoom(sent[i]) /\ ev.interaction
         /\ sent[i].claim.synthesis => outcome = "acted" /\ "synthesis_turn" \in ev.marks

(***************************************************************************)
(* A turn's spending is bounded before it starts (action_loop.py,          *)
(* reflexion.py): one bid, MaxCalls compose calls and MaxRevise rounds of  *)
(* two calls whatever the channel asks for; a suppressed, replayed or      *)
(* dropped event costs nothing and a silent one at most the bid.           *)
(***************************************************************************)
CallsAreBounded ==
    /\ calls.bid <= 1 /\ calls.turn <= MaxCalls
    /\ calls.critic <= MaxRevise /\ calls.revise <= calls.critic
    /\ ~Composed => calls.turn + calls.critic + calls.revise = 0
    /\ outcome \in {"suppressed", "replayed", "dropped"} => calls.bid = 0

(***************************************************************************)
(* single_channel_turn.py's header: "a turn acting in channel C can        *)
(* publish only to C".                                                     *)
(***************************************************************************)
PublishesOnlyInItsRoom ==
    InChannel(ev) => \A i \in DOMAIN sent : sent[i].ch = ev.ch

(***************************************************************************)
(* What the others see of a turn: it speaks when the floor is the          *)
(* persona's, once, and in the right room (response_gate.py,               *)
(* salience_gate.py, channel_reply.py).                                    *)
(***************************************************************************)
TurnKeepsTheFloor == FloorIsKept /\ RoomHearsOneAnswer

(***************************************************************************)
(* What is left of a turn however it ends, by a decision, a refusal, a     *)
(* failure or a timeout: its episode, its denial and a bounded bill        *)
(* (action_loop.py, chat_reply.py, reflexion.py).                          *)
(***************************************************************************)
TurnLeavesItsTrace == HeardIsRemembered /\ DenialsAreTold /\ CallsAreBounded

(***************************************************************************)
(* Both: a turn says what it may, where it may, and leaves what it must    *)
(* behind, however it ends (persona_runtime/__init__.py).                  *)
(***************************************************************************)
TurnIsSound == TurnKeepsTheFloor /\ TurnLeavesItsTrace
=============================================================================
