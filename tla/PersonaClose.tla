---------------------------- MODULE PersonaClose ----------------------------
(***************************************************************************)
(* How one persona turns the messages of a room into episodes: the         *)
(* InteractionTracker with its boundary detectors and replay bookkeeping,  *)
(* the doors that close a record (idle gap, turn cap, wire rotation, room  *)
(* close notification, end vote, budget denial, session end, shutdown and  *)
(* the end of the catch-up pass), the two-phase episode write and the      *)
(* janitor, with the agent process crashing and starting again.            *)
(*                                                                         *)
(* The room's messages arrive live, and again, without a watermark, from   *)
(* the catch-up pass of every start.  A record holds the turns of one      *)
(* speaker.  Every await of a handler is a step of its own; the event      *)
(* handlers hold the agent's lock (job), the pass-end sweep does not.      *)
(***************************************************************************)
EXTENDS Naturals, Sequences, FiniteSets, SequencesExt

CONSTANTS
  PrevWire,     \* [wire -> previous_interaction_id its events carry]
  NoWire,       \* an event or a record without a wire interaction id
  Self,         \* the persona, as the sender of a close notification
  MaxTurns,     \* MaxTurnsDetector.max_turns
  IdleAge,      \* clock steps of an idle gap
  GraceAge,     \* clock steps of the janitor's grace
  GateSize,     \* REPLAY_SUMMARIZE_MAX_IN_FLIGHT
  Speakers,     \* members that write in the room
  Wires,        \* wire interaction ids of the room
  Budgets       \* bounds of a behaviour: the messages of its room, in order
                \* [speaker, wire], how many it holds before the first start
                \* and how many of them the store kept without principal;
                \* how often the process starts, end votes are cast, the
                \* room is closed elsewhere and the database fails; whether
                \* it lasts longer than an idle gap, and whether the persona
                \* gets ticks (autonomy level semi-autonomous or autonomous)

ASSUME CloseAssumption ==
  /\ MaxTurns \in Nat \ {0} /\ IdleAge \in Nat \ {0}
  /\ GraceAge \in Nat \ {0} /\ GateSize \in Nat \ {0}
  /\ \A b \in Budgets :
       /\ b \in [room : Seq([speaker : Speakers, wire : Wires \cup {NoWire}]),
                 sent : Nat, unowned : Nat, starts : Nat, votes : Nat,
                 notices : Nat, failures : Nat, long : BOOLEAN,
                 ticks : BOOLEAN]
       /\ b.sent <= Len(b.room)

VARIABLES
  up,       \* is the process running
  sent,     \* how many messages the room holds
  inbox,    \* messages on their way to the persona
  trk,      \* the InteractionTracker
  job,      \* what the holder of the agent's lock is doing
  catch,    \* the catch-up pass and its sweep
  vote,     \* _pending_vote_closes and _vote_closed_wire_ids of the room
  ballots,  \* end votes whose publish has not been resolved: tokens
  rows,     \* the episodes table
  tasks,    \* _pending_summarize_tasks
  janitor,  \* clock steps since the janitor ran
  count,    \* what is left of the bounds, and the record ids given out
  ghost     \* messages recorded live, and those whose record was dropped

vars == <<up, sent, inbox, trk, job, catch, vote, ballots, rows, tasks,
          janitor, count, ghost>>

History == count.room
Messages == 1..Len(History)
Owned(m) == m > count.unowned
First(S) == CHOOSE r \in S : \A q \in S : r.id <= q.id
Capped(n, cap) == IF n < cap THEN n + 1 ELSE cap

-----------------------------------------------------------------------------
(* InteractionTracker: at most one open record per key (here the speaker). *)
NoJob == [kind |-> "none"]
FreshTracker ==
  [open |-> {}, cut |-> {}, live |-> {}, pass |-> TRUE]

NewRecord(id, s, replayed, owned) ==
  [id |-> id, speaker |-> s, replayed |-> replayed,
   owned |-> owned, wire |-> NoWire, prev |-> NoWire, turns |-> <<>>,
   age |-> 0, whole |-> FALSE]

RecordOf(t, s) == {r \in t.open : r.speaker = s}

Turn(m, own) == [m |-> m, own |-> own]
WithTurn(r, turn) == [r EXCEPT !.turns = Append(@, turn), !.age = 0]

(* close_record of every record in S: a replayed one closed before its     *)
(* window is complete compromises what is left of that window.             *)
CloseRecords(t, S) ==
  [t EXCEPT !.open = @ \ S,
            !.cut = @ \cup {r.speaker : r \in {q \in S : q.replayed}}]

(* The segment closes with its window complete: nothing is compromised.    *)
CloseWhole(t, S) == [t EXCEPT !.open = @ \ S]

Expired(S) == {r \in S : r.turns # <<>> /\ (r.age >= IdleAge \/ Len(r.turns) >= MaxTurns)}

(* admitted_records: a live door never takes a replayed record.            *)
Admitted(records) == {r \in records : ~r.replayed}

WireAdmits(r, anchor, tolerant) ==
  \/ r.wire = NoWire
  \/ IF anchor = NoWire THEN tolerant ELSE r.wire = anchor

WireRotationCloses(r, w) ==
  w # NoWire /\ r.wire \notin {NoWire, w} /\ r.prev # w

-----------------------------------------------------------------------------
(* The two-phase write.                                                    *)
OwnTurns(r) == {r.turns[i] : i \in {j \in DOMAIN r.turns : r.turns[j].own}}
MessagesOf(turns) == [i \in DOMAIN turns |-> turns[i].m]

(* The row's id: a uuid, or for a replayed span the digest of everything   *)
(* the record holds, which every later start computes again.               *)
Identity(r, checked) ==
  IF r.replayed /\ checked
  THEN [uid |-> 0, speaker |-> r.speaker, span |-> MessagesOf(r.turns)]
  ELSE [uid |-> r.id, speaker |-> r.speaker, span |-> <<>>]

(* Mutant: a replayed record derives whatever part of its window it holds. *)
(* Mutant: the completeness gate applies to live records too.              *)
DerivableWhole(r) == r.turns # <<>> /\ r.whole /\ OwnTurns(r) # {}

Derivable(r) ==
  /\ r.turns # <<>>
  /\ r.replayed => r.owned /\ r.whole
  /\ OwnTurns(r) # {}

(* has_episode_for_interaction and clear_failed_episode: a row whose       *)
(* summary failed does not count, and is replaced.                         *)
HasEpisode(iid) == \E row \in rows : row.iid = iid /\ row.summary # "unavailable"
FailedEpisodes(iid) == {row \in rows : row.iid = iid /\ row.summary = "unavailable"}

(* Mutant: the span of an earlier start is derived again.                  *)
AlreadyDerivedNever(r) == FALSE

AlreadyDerived(r) == r.replayed /\ HasEpisode(Identity(r, TRUE))

NewRow(r, iid) ==
  [iid |-> iid, replayed |-> r.replayed, msgs |-> {t.m : t \in OwnTurns(r)},
   span |-> MessagesOf(r.turns), speaker |-> r.speaker, wire |-> r.wire,
   win |-> IF r.replayed THEN catch.win ELSE 0,
   summary |-> "pending", age |-> 0, facts |-> 0]
NewTask(r, iid) ==
  [iid |-> iid, replayed |-> r.replayed, ok |-> FALSE,
   pc |-> IF r.replayed THEN "gate" ELSE "llm"]

LiveMessages(S) ==
  (UNION {{r.turns[i].m : i \in DOMAIN r.turns} : r \in {q \in S : ~q.replayed}}) \ {0}

Drop(S) == ghost' = [ghost EXCEPT !.lost = @ \cup LiveMessages(S)]

(* persist_closed_interaction: skipped, or a pending row and its summary   *)
(* task.  A failed duplicate check leaves the record its uuid; a failed    *)
(* deletion leaves the failed rows beside the new one, under one id; a     *)
(* failed insert drops the record.                                         *)
Store(r, checked, cleared) ==
  LET iid == Identity(r, checked)
  IN /\ rows' = (rows \ IF r.replayed /\ cleared THEN FailedEpisodes(iid) ELSE {})
                \cup {NewRow(r, iid)}
     /\ tasks' = tasks \cup {NewTask(r, iid)}
     /\ UNCHANGED ghost

PersistClosed(r) ==
  \/ /\ ~Derivable(r) \/ AlreadyDerived(r)
     /\ UNCHANGED <<rows, tasks, ghost, count>>
  \/ /\ Derivable(r) /\ ~AlreadyDerived(r)
     /\ Store(r, TRUE, TRUE) /\ UNCHANGED count
  \/ /\ Derivable(r) /\ count.failures > 0
     /\ count' = [count EXCEPT !.failures = @ - 1]
     /\ \/ r.replayed /\ Store(r, FALSE, TRUE)
        \/ r.replayed /\ ~AlreadyDerived(r) /\ Store(r, TRUE, FALSE)
        \/ ~AlreadyDerived(r) /\ Drop({r}) /\ UNCHANGED <<rows, tasks>>

-----------------------------------------------------------------------------
Init ==
  /\ up = FALSE /\ inbox = {}
  /\ \E b \in Budgets :
       /\ sent = b.sent
       /\ count = [f \in {"ids"} \cup DOMAIN b |-> IF f = "ids" THEN 0 ELSE b[f]]
  /\ trk = FreshTracker /\ job = NoJob
  /\ catch = [pc |-> "off", win |-> 0, at |-> 1, gaps |-> {}, todo |-> {},
              snap |-> {}, done |-> FALSE]
  /\ vote = [pending |-> NoJob, closed |-> NoWire] /\ ballots = {}
  /\ rows = {} /\ tasks = {} /\ janitor = GraceAge
  /\ ghost = [recorded |-> {}, lost |-> {}]

(* The process starts, registers for dispatch, then begins its catch-up.   *)
Boot ==
  /\ ~up /\ up' = TRUE
  /\ count.starts > 0 /\ count' = [count EXCEPT !.starts = @ - 1]
  /\ catch' = [catch EXCEPT !.pc = "list", !.win = 0, !.at = 1,
                            !.gaps = {}, !.done = FALSE]
  /\ UNCHANGED <<sent, inbox, trk, job, vote, ballots, rows, tasks,
                 janitor, ghost>>

(* Everything but the database dies with the process.                      *)
Halt ==
  /\ up' = FALSE
  /\ inbox' = {} /\ trk' = FreshTracker /\ job' = NoJob
  /\ catch' = [catch EXCEPT !.pc = "off", !.snap = {}, !.todo = {}]
  /\ vote' = [pending |-> NoJob, closed |-> NoWire] /\ ballots' = {}
  /\ tasks' = {} /\ janitor' = GraceAge
  /\ UNCHANGED <<sent, count>>

(* (Bound: the crash after the last start is left out.)                     *)
Crash ==
  /\ up /\ count.starts > 0
  /\ Drop(trk.open \cup catch.todo \cup (IF job = NoJob THEN {} ELSE job.todo))
  /\ UNCHANGED rows /\ Halt

(* A member publishes; the orchestrator delivers to a registered persona.  *)
Publish ==
  /\ sent < Len(History) /\ sent' = sent + 1
  /\ inbox' = IF up THEN inbox \cup {sent + 1} ELSE inbox
  /\ UNCHANGED <<up, trk, job, catch, vote, ballots, rows, tasks, janitor,
                 count, ghost>>

(* Time passes for the open records, the rows and the janitor.             *)
ClockStep ==
  /\ count.long
  /\ trk' = [trk EXCEPT !.open = {[r EXCEPT !.age = Capped(@, IdleAge)] : r \in @}]
  /\ rows' = {[row EXCEPT !.age = Capped(@, GraceAge)] : row \in rows}
  /\ janitor' = Capped(janitor, GraceAge)
  /\ UNCHANGED <<up, sent, inbox, job, catch, vote, ballots, tasks, count, ghost>>

-----------------------------------------------------------------------------
(* on_event, under the agent's lock.                                       *)
Free == up /\ job = NoJob

(* _store_event_episode begins with the idle check, whatever the event.    *)
Begin(j, t) ==
  LET due == Expired(t.open)
  IN /\ job' = [j EXCEPT !.todo = due]
     /\ trk' = CloseRecords(t, due)

EventJob(m, replayed) ==
  [kind |-> IF replayed THEN "replay" ELSE "event", m |-> m, pc |-> "stale",
   dup |-> FALSE, rec |-> 0, todo |-> {}]

(* A live message the persona records, whatever it decides to do.          *)
OnMessage(m) ==
  /\ Free /\ m \in inbox /\ inbox' = inbox \ {m}
  /\ Begin(EventJob(m, FALSE), trk)
  /\ UNCHANGED <<up, sent, catch, vote, ballots, rows, tasks, janitor, count, ghost>>

(* The salience gate keeps it silent: nothing is recorded.                 *)
OnMessageSilent(m) ==
  /\ Free /\ m \in inbox /\ inbox' = inbox \ {m}
  /\ UNCHANGED <<up, sent, trk, job, catch, vote, ballots, rows, tasks,
                 janitor, count, ghost>>

(* close_interaction_on_cost: the wallet denied the turn's LLM call.       *)
OnMessageDenied(m) ==
  LET out == Admitted({r \in trk.open : WireAdmits(r, History[m].wire, TRUE)})
  IN /\ Free /\ m \in inbox /\ inbox' = inbox \ {m}
     /\ trk' = CloseRecords(trk, out)
     /\ job' = [kind |-> "event", pc |-> "done", todo |-> out]
     /\ UNCHANGED <<up, sent, catch, vote, ballots, rows, tasks, janitor, count, ghost>>

(* One record of the job's closed ones is persisted.                       *)
JobPersist ==
  /\ up /\ job # NoJob /\ job.todo # {}
  /\ PersistClosed(First(job.todo))
  /\ job' = [job EXCEPT !.todo = @ \ {First(@)}]
  /\ UNCHANGED <<up, sent, inbox, trk, catch, vote, ballots, janitor>>

JobAt(pc) == up /\ job # NoJob /\ job.todo = {} /\ job.pc = pc

(* observe_wire_message: a live message is remembered while the pass runs; *)
(* its replayed copy is a duplicate.                                       *)
Observed(t, m, replayed) ==
  IF ~replayed /\ t.pass THEN [t EXCEPT !.live = @ \cup {m}] ELSE t

(* stale_close_reason: the catch-up boundary, between replayed and live    *)
(* turns and between known and unknown principals, ends only the record    *)
(* the event would join.                                                   *)
CatchupBoundary(r, m, replayed) ==
  /\ r.speaker = History[m].speaker
  /\ r.replayed # replayed \/ (replayed /\ r.owned # Owned(m))

(* A rotation between two replayed messages ends a whole conversation,     *)
(* unless the window was cut before.                                       *)
SegmentComplete(r, replayed) == r.replayed /\ replayed /\ r.speaker \notin trk.cut

(* close_stale_records: a rotation of the wire id ends every record of the *)
(* room.                                                                   *)
CloseStale ==
  /\ JobAt("stale")
  /\ LET replayed == job.kind = "replay"
         boundary == {r \in trk.open : CatchupBoundary(r, job.m, replayed)}
         rotated == {r \in trk.open \ boundary :
                       WireRotationCloses(r, History[job.m].wire)}
         whole == {r \in rotated : SegmentComplete(r, replayed)}
         part == boundary \cup (rotated \ whole)
     IN /\ trk' = Observed(CloseRecords(CloseWhole(trk, whole), part), job.m, replayed)
        /\ job' = [job EXCEPT !.pc = "turn", !.dup = replayed /\ job.m \in trk.live,
                     !.todo = part \cup {[r EXCEPT !.whole = TRUE] : r \in whole}]
  /\ UNCHANGED <<up, sent, inbox, catch, vote, ballots, rows, tasks, janitor,
                 count, ghost>>

(* A record without a wire id takes the event's, and its predecessor.      *)
Stamped(r, w) ==
  IF r.wire = NoWire /\ w # NoWire
  THEN [r EXCEPT !.wire = w, !.prev = PrevWire[w]]
  ELSE r

(* add_turn: append to the speaker's record or open one; the wire id is    *)
(* stamped on a record still open; the turn cap closes inline.             *)
AddTurn ==
  /\ JobAt("turn")
  /\ LET m == job.m
         ev == History[m]
         replayed == job.kind = "replay"
         mine == RecordOf(trk, ev.speaker)
         base == IF mine # {} THEN First(mine)
                 ELSE NewRecord(count.ids + 1, ev.speaker, replayed, Owned(m))
         r == WithTurn(base, Turn(m, ~job.dup))
         full == Len(r.turns) >= MaxTurns
         opened == [trk EXCEPT !.open = (@ \ mine) \cup {IF full THEN r ELSE Stamped(r, ev.wire)}]
     IN /\ count' = [count EXCEPT !.ids = IF mine = {} THEN @ + 1 ELSE @]
        /\ trk' = IF full THEN CloseRecords(opened, {r}) ELSE opened
        /\ job' = [job EXCEPT !.pc = "end", !.rec = IF full THEN 0 ELSE base.id,
                              !.todo = IF full THEN {r} ELSE {}]
        /\ ghost' = IF replayed THEN ghost
                    ELSE [ghost EXCEPT !.recorded = @ \cup {m}]
  /\ UNCHANGED <<up, sent, inbox, catch, vote, ballots, rows, tasks, janitor>>

(* The event carries a session end: the room's conversation is over.       *)
EndSession ==
  LET out == Admitted({r \in trk.open : WireAdmits(r, History[job.m].wire, TRUE)})
  IN /\ JobAt("end") /\ job.kind = "event"
     /\ trk' = CloseRecords(trk, out)
     /\ job' = [job EXCEPT !.pc = "done", !.todo = out]
     /\ UNCHANGED <<up, sent, inbox, catch, vote, ballots, rows, tasks,
                    janitor, count, ghost>>

(* park_end_vote_close: n end votes wait for the outcome of their publish. *)
ParkVote(n) ==
  /\ JobAt("end") /\ job.kind = "event" /\ job.rec # 0
  /\ count.votes >= n
  /\ count' = [count EXCEPT !.votes = @ - n]
  /\ LET r == CHOOSE q \in trk.open : q.id = job.rec
     IN vote' = [vote EXCEPT !.pending =
          [rec |-> r.id, token |-> count.votes, inFlight |-> n,
           wire |-> r.wire, room |-> {q.id : q \in trk.open}]]
  /\ ballots' = ballots \cup ({count.votes} \X (1..n))
  /\ job' = NoJob
  /\ UNCHANGED <<up, sent, inbox, trk, catch, rows, tasks, janitor, ghost>>

(* The handler returns and the lock is released.                           *)
JobEnd ==
  /\ JobAt("end") \/ JobAt("done")
  /\ job' = NoJob
  /\ catch' = IF job.kind = "replay" THEN [catch EXCEPT !.at = @ + 1] ELSE catch
  /\ UNCHANGED <<up, sent, inbox, trk, vote, ballots, rows, tasks, janitor,
                 count, ghost>>

(* The event timeout cancels a live handler at an await; records it had    *)
(* closed and not persisted are gone.                                      *)
EventTimeout ==
  /\ up /\ job # NoJob /\ job.todo # {} /\ job.kind \in {"event", "notice", "tick"}
  /\ Drop(job.todo) /\ job' = NoJob
  /\ UNCHANGED <<up, sent, inbox, trk, catch, vote, ballots, rows, tasks,
                 janitor, count>>

-----------------------------------------------------------------------------
(* close_interaction_on_notification: the room was closed elsewhere.       *)
NoticeJob(from, w) == [kind |-> "notice", pc |-> "close", from |-> from, w |-> w, todo |-> {}]
OnNotification(from, w) ==
  /\ Free /\ count.notices > 0
  /\ count' = [count EXCEPT !.notices = @ - 1]
  /\ Begin(NoticeJob(from, w), trk)
  /\ UNCHANGED <<up, sent, inbox, catch, vote, ballots, rows, tasks, janitor, ghost>>

NoticeRecords == Admitted({r \in trk.open : WireAdmits(r, job.w, TRUE)})

(* A record without a wire id takes the notice's.  No turn for a redelivered *)
(* bounded close or the persona's own message.                             *)
NoticeTurn(r, redelivered) ==
  LET stamped == IF r.wire = NoWire THEN [r EXCEPT !.wire = job.w] ELSE r
  IN IF job.from = Self \/ redelivered THEN stamped
     ELSE WithTurn(stamped, Turn(0, r.speaker = job.from))

NoticeClose(redelivered) ==
  /\ JobAt("close")
  /\ trk' = CloseRecords(trk, NoticeRecords)
  /\ job' = [job EXCEPT !.pc = "done", !.todo = {NoticeTurn(r, redelivered) : r \in NoticeRecords}]
  /\ UNCHANGED <<up, sent, inbox, catch, vote, ballots, rows, tasks, janitor,
                 count, ghost>>

-----------------------------------------------------------------------------
(* Mutant: the vote takes every record of the room it finds.               *)
VoteAdmitsAny(p, anchor, r) == TRUE

VoteAdmits(p, anchor, r) == r.id \in p.room /\ WireAdmits(r, anchor, FALSE)

(* discharge_end_vote_publish: the vote's publish succeeded or failed.     *)
Resolve(b) ==
  /\ Free /\ b \in ballots /\ ballots' = ballots \ {b}
  /\ UNCHANGED <<up, sent, inbox, catch, rows, tasks, janitor, count, ghost>>

Mine(b) == vote.pending # NoJob /\ vote.pending.token = b[1]

VoteFailed(b) ==
  /\ Resolve(b)
  /\ vote' = IF ~Mine(b) THEN vote
             ELSE IF vote.pending.inFlight > 1
             THEN [vote EXCEPT !.pending.inFlight = @ - 1]
             ELSE [vote EXCEPT !.pending = NoJob]
  /\ UNCHANGED <<trk, job>>

VotePublished(b, synthesis) ==
  LET p == vote.pending
      parked == {r \in trk.open : r.id = p.rec}
      anchor == IF p.wire # NoWire THEN p.wire
                ELSE IF parked = {} THEN NoWire ELSE First(parked).wire
      again == anchor # NoWire /\ vote.closed = anchor
      out == Admitted({r \in trk.open : VoteAdmits(p, anchor, r)})
  IN /\ Resolve(b)
     /\ IF ~Mine(b) THEN UNCHANGED <<vote, trk, job>>
        ELSE /\ vote' = [pending |-> NoJob,
                         closed |-> IF anchor = NoWire THEN vote.closed ELSE anchor]
             /\ IF synthesis \/ again \/ (anchor = NoWire /\ parked = {})
                THEN UNCHANGED <<trk, job>>
                ELSE /\ trk' = CloseRecords(trk, out)
                     /\ job' = [kind |-> "vote", pc |-> "done", todo |-> out]

-----------------------------------------------------------------------------
(* The catch-up pass.                                                      *)
Replaying == up /\ catch.pc = "replay"

(* close_replayed_scopes takes the list of the open records.               *)
SweepFrom(c) ==
  [c EXCEPT !.pc = "sweep", !.snap = {r.id : r \in {q \in trk.open : q.replayed}}]

(* The room's window is fetched.                                           *)
FetchWindow ==
  /\ up /\ catch.pc = "list"
  /\ catch' = [catch EXCEPT !.pc = "replay", !.win = sent]
  /\ UNCHANGED <<up, sent, inbox, trk, job, vote, ballots, rows, tasks,
                 janitor, count, ghost>>

(* The room list, its members or its history cannot be read, or the        *)
(* persona is no member: nothing is replayed.                              *)
FetchFails ==
  /\ up /\ catch.pc = "list" /\ catch' = SweepFrom(catch)
  /\ UNCHANGED <<up, sent, inbox, trk, job, vote, ballots, rows, tasks,
                 janitor, count, ghost>>

ReplayMessage ==
  /\ Replaying /\ catch.at <= catch.win /\ job = NoJob
  /\ Begin(EventJob(catch.at, TRUE), trk)
  /\ UNCHANGED <<up, sent, inbox, catch, vote, ballots, rows, tasks, janitor,
                 count, ghost>>

(* A row raises on the way in: its speaker's window has a hole.            *)
ReplayRaises ==
  /\ Replaying /\ catch.at <= catch.win /\ job = NoJob
  /\ count.failures > 0
  /\ count' = [count EXCEPT !.failures = @ - 1]
  /\ LET s == History[catch.at].speaker
     IN /\ catch' = [catch EXCEPT !.at = @ + 1, !.gaps = @ \cup {s}]
        /\ trk' = [trk EXCEPT !.cut = @ \cup {s}]
  /\ UNCHANGED <<up, sent, inbox, job, vote, ballots, rows, tasks, janitor, ghost>>

ReplayFinished ==
  /\ Replaying /\ catch.at > catch.win
  /\ catch' = SweepFrom([catch EXCEPT !.done = TRUE])
  /\ UNCHANGED <<up, sent, inbox, trk, job, vote, ballots, rows, tasks,
                 janitor, count, ghost>>

(* The budget runs out, or the orchestrator rate-limits the pass.          *)
ReplayCutShort ==
  /\ Replaying
  /\ catch' = SweepFrom(catch)
  /\ IF job # NoJob /\ job.kind = "replay"
     THEN job' = NoJob /\ Drop(job.todo)
     ELSE UNCHANGED <<job, ghost>>
  /\ UNCHANGED <<up, sent, inbox, trk, vote, ballots, rows, tasks, janitor, count>>

(* The iterations of close_replayed_scopes, without the agent's lock.      *)
Sweeping == up /\ catch.pc = "sweep" /\ catch.todo = {}

SweepClose ==
  /\ Sweeping /\ catch.snap # {}
  /\ LET id == CHOOSE i \in catch.snap : \A k \in catch.snap : i <= k
         found == {r \in trk.open : r.id = id}
         whole == {r \in found : /\ catch.done /\ r.speaker \notin trk.cut
                                 /\ r.speaker \notin catch.gaps}
     IN /\ trk' = CloseRecords(CloseWhole(trk, whole), found \ whole)
        /\ catch' = [catch EXCEPT !.snap = @ \ {id},
                       !.todo = {[r EXCEPT !.whole = r \in whole] : r \in found}]
  /\ UNCHANGED <<up, sent, inbox, job, vote, ballots, rows, tasks, janitor,
                 count, ghost>>

SweepPersist ==
  /\ up /\ catch.todo # {}
  /\ PersistClosed(First(catch.todo))
  /\ catch' = [catch EXCEPT !.todo = @ \ {First(@)}]
  /\ UNCHANGED <<up, sent, inbox, trk, job, vote, ballots, janitor>>

(* clear_replay_pass_state.                                                *)
SweepEnd ==
  /\ Sweeping /\ catch.snap = {}
  /\ trk' = [trk EXCEPT !.cut = {}, !.live = {}, !.pass = FALSE]
  /\ catch' = [catch EXCEPT !.pc = "off"]
  /\ UNCHANGED <<up, sent, inbox, job, vote, ballots, rows, tasks, janitor,
                 count, ghost>>

-----------------------------------------------------------------------------
(* finalize_closed_interaction, one task per stored row.                   *)
InGate == {k \in tasks : k.replayed /\ k.pc # "gate"}

TaskEnter(k) ==
  /\ k.pc = "gate" /\ Cardinality(InGate) < GateSize
  /\ tasks' = (tasks \ {k}) \cup {[k EXCEPT !.pc = "llm"]}
  /\ UNCHANGED <<up, sent, inbox, trk, job, catch, vote, ballots, rows,
                 janitor, count, ghost>>

Updates(row, k) == row.iid = k.iid /\ row.summary = "pending"

AfterUpdate(hit, k, ok) ==
  IF hit = {} THEN {} ELSE {[k EXCEPT !.pc = "facts", !.ok = ok]}

(* The summary call answers, or fails, is denied, times out or answers     *)
(* nothing usable.                                                         *)
SummaryOf(ok) == IF ok THEN "ok" ELSE "unavailable"

(* The row is updated, and without one the task ends.                      *)
TaskUpdate(k, ok) ==
  LET hit == {row \in rows : Updates(row, k)}
  IN /\ k.pc = "llm"
     /\ rows' = (rows \ hit) \cup
          {[row EXCEPT !.summary = SummaryOf(ok)] : row \in hit}
     /\ tasks' = (tasks \ {k}) \cup AfterUpdate(hit, k, ok)
     /\ UNCHANGED <<up, sent, inbox, trk, job, catch, vote, ballots, janitor,
                    count, ghost>>

(* The extracted facts and what follows them.                              *)
TaskFacts(k) ==
  /\ k.pc = "facts" /\ tasks' = tasks \ {k}
  /\ rows' = {IF row.iid = k.iid /\ k.ok THEN [row EXCEPT !.facts = Capped(@, 2)]
              ELSE row : row \in rows}
  /\ UNCHANGED <<up, sent, inbox, trk, job, catch, vote, ballots, janitor,
                 count, ghost>>

-----------------------------------------------------------------------------
(* Mutant: a crashed start's rows are left to their finalize task.         *)
AbandonedNever(row) == FALSE

Abandoned(row) == row.summary = "pending" /\ row.age >= GraceAge

(* maybe_run_janitor: when its interval is over.                           *)
CleanupClosing ==
  IF janitor >= GraceAge
  THEN /\ janitor' = 0
       /\ rows' = {IF Abandoned(row) THEN [row EXCEPT !.summary = "unavailable"]
                   ELSE row : row \in rows}
  ELSE UNCHANGED <<janitor, rows>>

(* on_tick with records to write first: the janitor runs after them.       *)
OnTick ==
  /\ Free /\ count.ticks /\ Expired(trk.open) # {}
  /\ Begin([kind |-> "tick", pc |-> "janitor", todo |-> {}], trk)
  /\ UNCHANGED <<up, sent, inbox, catch, vote, ballots, rows, tasks, janitor,
                 count, ghost>>

TickEnds ==
  /\ JobAt("janitor") /\ job' = NoJob /\ CleanupClosing
  /\ UNCHANGED <<up, sent, inbox, trk, catch, vote, ballots, tasks, count, ghost>>

(* on_tick that writes no record: none has expired, or the context was     *)
(* empty and the turn ended before the idle check.                         *)
OnQuietTick ==
  /\ Free /\ count.ticks /\ CleanupClosing
  /\ UNCHANGED <<up, sent, inbox, trk, job, catch, vote, ballots, tasks,
                 count, ghost>>

(* close_open_interactions: the live records, idle or not; a replayed one  *)
(* is left to the next start's pass.                                       *)
ShutdownCloses == Admitted(trk.open)

(* close_memory(write_open): they are closed and written, then the summary *)
(* tasks are drained, or cancelled at the timeout.                         *)
Shutdown ==
  /\ Free /\ catch.pc = "off"
  /\ trk' = CloseRecords(trk, ShutdownCloses)
  /\ job' = [kind |-> "stop", pc |-> "drain", todo |-> ShutdownCloses]
  /\ UNCHANGED <<up, sent, inbox, catch, vote, ballots, rows, tasks, janitor,
                 count, ghost>>

Drained ==
  /\ JobAt("drain") /\ UNCHANGED <<rows, ghost>> /\ Halt

-----------------------------------------------------------------------------
(* A handler runs until it awaits: the loop is single-threaded, and only   *)
(* the database calls of a record that derives, the gate and the LLM call  *)
(* suspend.                                                                *)
Suspends(todo) == todo # {} /\ Derivable(First(todo))
Busy ==
  \/ job # NoJob /\ job.pc # "drain" /\ ~Suspends(job.todo)
  \/ catch.pc = "sweep" /\ ~Suspends(catch.todo)

Locked ==
  \/ JobPersist \/ CloseStale \/ AddTurn \/ EndSession \/ JobEnd
  \/ \E n \in 1..2 : ParkVote(n)
  \/ \E b \in BOOLEAN : NoticeClose(b)
  \/ TickEnds
Sweep == SweepClose \/ SweepPersist \/ SweepEnd
Replay ==
  FetchWindow \/ FetchFails \/ ReplayMessage \/ ReplayRaises \/ ReplayFinished \/ ReplayCutShort
Finalize ==
  \E k \in tasks : TaskEnter(k) \/ TaskFacts(k)
                   \/ \E ok \in BOOLEAN : TaskUpdate(k, ok)
Arrive ==
  \/ \E m \in inbox : OnMessage(m) \/ OnMessageSilent(m) \/ OnMessageDenied(m)
  \/ \E s \in Speakers \cup {Self}, w \in Wires \cup {NoWire} : OnNotification(s, w)
  \/ \E b \in ballots : VoteFailed(b) \/ \E y \in BOOLEAN : VotePublished(b, y)
  \/ OnTick \/ OnQuietTick \/ Shutdown
World == Boot \/ Crash \/ Publish \/ ClockStep
Next ==
  \/ Locked \/ Sweep
  \/ ~Busy /\ (World \/ EventTimeout \/ Drained \/ Replay \/ Finalize \/ Arrive)

(* A handler that holds the thread goes on; a summary task's calls return  *)
(* (the LLM's by its timeout); time goes on, and so do the ticks of a      *)
(* persona that gets them: a reactive one never enables OnQuietTick.       *)
Fairness ==
  /\ WF_vars(Locked) /\ WF_vars(Sweep)
  /\ WF_vars(~Busy /\ (Finalize \/ Drained)) /\ WF_vars(~Busy /\ ClockStep)
  /\ WF_vars(~Busy /\ OnQuietTick)

Spec == Init /\ [][Next]_vars
FairSpec == Spec /\ Fairness

Tracked == trk.open \cup catch.todo \cup (IF job = NoJob THEN {} ELSE job.todo)

TypeOK ==
  /\ sent \in 0..Len(History) /\ inbox \subseteq Messages
  /\ \A r \in Tracked : r.speaker \in Speakers /\ Len(r.turns) <= MaxTurns + 1
  /\ Cardinality({r.speaker : r \in trk.open}) = Cardinality(trk.open)
  /\ trk.cut \subseteq Speakers /\ trk.live \subseteq Messages
  /\ \A row \in rows : row.summary \in {"pending", "ok", "unavailable"}
  /\ \A k \in tasks : k.pc \in {"gate", "llm", "facts"}
  /\ Cardinality(InGate) <= GateSize
=============================================================================
