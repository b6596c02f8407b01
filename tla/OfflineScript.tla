---------------------------- MODULE OfflineScript ----------------------------
(***************************************************************************)
(* The offline provider (agents/llm_offline.py) in a room of personas: a   *)
(* persona bids on every message of the others with the scripted points it *)
(* has not made yet, and posts the first of them.  What it has made it     *)
(* reads off its prompt, whose window ends at the message being answered:  *)
(* a reply it posted after that message is not in it, so the provider      *)
(* replays what it would have answered to each earlier one.                *)
(*                                                                         *)
(* A text is a model value; Keywords gives the keywords it contains.       *)
(***************************************************************************)
EXTENDS Integers, FiniteSets, SequencesExt

CONSTANTS
    Speakers,     \* the personas of the room
    Script,       \* persona -> its entries in file order: [match, reply, closes]
    Keywords,     \* text -> the keywords in it
    Topics,       \* what somebody from outside may say
    FallbackText, \* the generated placeholder
    MaxPosts,     \* bound: messages of the room
    NoText

VARIABLES
    room,      \* the messages: [by, text]
    handledTo, \* persona -> the last message it has handled
    bidding,   \* persona -> the message it won the floor for, or 0
    posts      \* persona -> what it posted: [answering, text, bid]
offlineVars == <<room, handledTo, bidding, posts>>

EntriesOf(p) == Script[p]
ClosingReplies == {e.reply : e \in {f \in UNION {ToSet(EntriesOf(p)) : p \in Speakers} : f.closes}}

(* _points: the matching replies not made, those made, and the first catch-all. *)
Matching(p, text) == SelectSeq(EntriesOf(p), LAMBDA e : e.match \subseteq Keywords[text])
Specific(p, text) == SelectSeq(Matching(p, text), LAMBDA e : e.match # {})
UnmadePoints(p, text, made) == SelectSeq(Specific(p, text), LAMBDA e : e.reply \notin made)
RepeatedPoints(p, text, made) == SelectSeq(Specific(p, text), LAMBDA e : e.reply \in made)
CatchAll(p, text) ==
    LET general == SelectSeq(Matching(p, text), LAMBDA e : e.match = {})
    IN IF general = <<>> THEN NoText ELSE general[1].reply

(* The turns before the current one, the last of the window; a room here is shorter than a window. *)
WindowTurns(i) == SubSeq(room, 1, i - 1)

\* Mutant: only its own turns in the window count.
MadeOwn(p, turns) ==
    LET After(made, turn) ==
            IF turn.text \in ClosingReplies THEN {}
            ELSE IF turn.by = p THEN made \cup {turn.text} ELSE made
    IN FoldLeft(After, {}, turns)

(* Its own turns, and the point it would have made on each turn of a peer, since a closing line. *)
Made(p, turns) ==
    LET PointOn(text, made) ==
            LET unmade == UnmadePoints(p, text, made) IN IF unmade = <<>> THEN {} ELSE {unmade[1].reply}
        After(made, turn) ==
            IF turn.text \in ClosingReplies THEN {}
            ELSE made \cup (IF turn.by = p THEN {turn.text} ELSE PointOn(turn.text, made))
    IN FoldLeft(After, {}, turns)

(* The first point not made, the catch-all once, a point again, the catch-all again. *)
ScriptedReply(p, text, made) ==
    LET unmade == UnmadePoints(p, text, made)
        repeats == RepeatedPoints(p, text, made)
        general == CatchAll(p, text)
    IN IF unmade # <<>> THEN unmade[1].reply
       ELSE IF general # NoText /\ general \notin made THEN general
       ELSE IF repeats # <<>> THEN repeats[1].reply ELSE general
BidVerdict(p, i) == UnmadePoints(p, room[i].text, Made(p, WindowTurns(i))) # <<>>
OfflineReply(p, i) ==
    LET scripted == ScriptedReply(p, room[i].text, Made(p, WindowTurns(i)))
    IN IF scripted # NoText THEN scripted ELSE FallbackText

-----------------------------------------------------------------------------
OfflineInit ==
    /\ room = <<>> /\ handledTo = [p \in Speakers |-> 0]
    /\ bidding = [p \in Speakers |-> 0] /\ posts = [p \in Speakers |-> <<>>]

(* Somebody from outside speaks. *)
Outsider(text) ==
    /\ Len(room) < MaxPosts
    /\ room' = Append(room, [by |-> NoText, text |-> text])
    /\ UNCHANGED <<handledTo, bidding, posts>>

(* A persona takes the next message of the others from its queue and bids, or is handed the turn *)
(* without a bid (a mention, a re-fanned reply).                                                 *)
NextMessage(p) == IF \E i \in handledTo[p] + 1 .. Len(room) : room[i].by # p
                  THEN CHOOSE i \in handledTo[p] + 1 .. Len(room) :
                           room[i].by # p /\ \A j \in handledTo[p] + 1 .. i - 1 : room[j].by = p
                  ELSE 0
TakeTurn(p, asked) ==
    /\ bidding[p] = 0 /\ NextMessage(p) # 0
    /\ handledTo' = [handledTo EXCEPT ![p] = NextMessage(p)]
    /\ bidding' = [bidding EXCEPT ![p] = IF asked \/ BidVerdict(p, NextMessage(p)) THEN NextMessage(p) ELSE 0]
    /\ UNCHANGED <<room, posts>>
(* By the time it posts, the room may have gone on. *)
PostReply(p) ==
    /\ bidding[p] # 0 /\ Len(room) < MaxPosts
    /\ LET reply == OfflineReply(p, bidding[p]) IN
       /\ room' = Append(room, [by |-> p, text |-> reply])
       /\ posts' = [posts EXCEPT ![p] = Append(@, [answering |-> bidding[p], text |-> reply, bid |-> BidVerdict(p, bidding[p])])]
    /\ bidding' = [bidding EXCEPT ![p] = 0]
    /\ UNCHANGED handledTo

OfflineNext ==
    \/ \E text \in Topics : Outsider(text)
    \/ \E p \in Speakers : (\E asked \in BOOLEAN : TakeTurn(p, asked)) \/ PostReply(p)

-----------------------------------------------------------------------------
(* A persona that has the floor by its bid posts a point it has not posted in this discussion,   *)
(* though its own replies may stand after the message it answers and so outside its window; a    *)
(* discussion ends with a closing line between the two messages answered.                        *)
PointsAreMadeOnce ==
    \A p \in Speakers : \A i, j \in DOMAIN posts[p] :
        i < j /\ posts[p][j].bid /\ posts[p][i].text = posts[p][j].text =>
            \E k \in posts[p][i].answering .. posts[p][j].answering - 1 : room[k].text \in ClosingReplies
=============================================================================
