--------------------------- MODULE MCPersonaClose ---------------------------
(* Instances and properties of the persona's close paths for TLC.          *)
EXTENDS PersonaClose

CONSTANTS s1, s2, w1, w2

PrevWireDef == w1 :> NoWire @@ w2 :> w1

Msg(s, w) == [speaker |-> s, wire |-> w]
Budget(room, before, unowned, starts, votes, notices, failures, long, ticks) ==
  [room |-> room, sent |-> before, unowned |-> unowned, starts |-> starts,
   votes |-> votes, notices |-> notices, failures |-> failures,
   long |-> long, ticks |-> ticks]

(* Two turns of one speaker, then the conversation rotates.                *)
Rotation == <<Msg(s1, w1), Msg(s1, w1), Msg(s2, w2)>>

BudgetsDef == {
  \* restarts over a fixed window, with one failure
  Budget(Rotation, 3, 0, 2, 0, 0, 1, TRUE, TRUE),
  \* restarts of a reactive persona, with a message arriving live
  Budget(Rotation, 2, 0, 2, 0, 0, 0, TRUE, FALSE),
  \* a live turn of the speaker being replayed, and stragglers
  Budget(<<Msg(s1, w1), Msg(s1, w2)>>, 0, 0, 1, 0, 0, 0, FALSE, FALSE),
  \* a window the store knows in part
  Budget(Rotation, 3, 1, 1, 0, 0, 0, TRUE, TRUE),
  \* votes, and a conversation that follows
  Budget(<<Msg(s1, w1), Msg(s2, w2)>>, 0, 2, 1, 2, 0, 0, FALSE, FALSE),
  \* the room is closed elsewhere
  Budget(<<Msg(s1, w1), Msg(s2, w1)>>, 0, 2, 1, 0, 1, 0, FALSE, TRUE)}

-----------------------------------------------------------------------------
(* No turn is forgotten: every message recorded live is in an open record, *)
(* in a record being written, in an episode, or was dropped by a crash, a  *)
(* cancelled handler or a failed insert (the close doors of                *)
(* InteractionTracker and persist_closed_interaction together).            *)
LiveTurnsAreKept ==
  ghost.recorded \subseteq
    ghost.lost \cup LiveMessages(Tracked)
      \cup UNION {row.msgs : row \in {q \in rows : ~q.replayed}}

(* The messages of one speaker in one wire conversation of the window.     *)
Segment(s, w, win) == {i \in 1..win : History[i].speaker = s /\ History[i].wire = w}

(* An episode derived from catch-up spans exactly one whole conversation   *)
(* of its window, in order, whatever live turn, idle gap, budget or        *)
(* raising row interrupted the pass (replay_window_complete).              *)
ReplayedSpansAreWhole ==
  \A row \in rows : row.replayed =>
    /\ \A i, j \in DOMAIN row.span : i < j => row.span[i] < row.span[j]
    /\ ToSet(row.span) = Segment(row.speaker, History[row.span[1]].wire, row.win)

(* However often the process starts and wherever it crashes, one id has at *)
(* most one row that is pending or summarised, so that the update of a     *)
(* summary, which has no LIMIT, rewrites one row.  A replayed span keeps   *)
(* the id of its digest over every start; rows whose summary failed may    *)
(* stay beside the row when their deletion raises, and a duplicate check   *)
(* that raises derives the span again, under an id of its own              *)
(* (replay_span_already_derived, clear_failed_episode).                    *)
OneRowPerSpan ==
  \A a, b \in rows :
    a.iid = b.iid /\ "unavailable" \notin {a.summary, b.summary} => a = b

(* Facts are extracted once per id, and only when a summary was written    *)
(* under it: a finalize task the janitor overtook writes none              *)
(* (update_episode_summary, finalize_closed_interaction).                  *)
FactsFollowSummary ==
  \A row \in rows : row.facts > 0 =>
    /\ row.facts = 1
    /\ \E q \in rows : q.iid = row.iid /\ q.summary = "ok"

(* No record mixes two conversations: next to its own wire id a record     *)
(* holds only stragglers of the predecessor (close_stale_records).         *)
RecordsDoNotMix ==
  \A r \in Tracked : r.wire # NoWire =>
    \A i \in DOMAIN r.turns : r.turns[i].m # 0 =>
      History[r.turns[i].m].wire \in {r.wire, r.prev, NoWire}

(* An end vote resolved late closes no record of a later conversation      *)
(* (discharge_end_vote_publish).                                           *)
VoteSparesSuccessors ==
  [][\A b \in ballots \ ballots' : up' /\ Mine(b) /\ vote.pending.wire # NoWire =>
       \A r \in trk.open \ trk'.open : \A i \in DOMAIN r.turns :
         History[r.turns[i].m].wire
           \in {vote.pending.wire, PrevWire[vote.pending.wire], NoWire}]_vars

(* No episode stays pending while the process runs: its finalize task      *)
(* settles it, or after a crash the janitor.  The janitor runs from        *)
(* on_tick only, so on a reactive persona a row whose task died with an    *)
(* earlier process may stay pending (maybe_run_janitor).                   *)
PendingIsSettled ==
  <>[]up => []<>(\A row \in rows : row.summary = "pending" =>
                   ~count.ticks /\ \A k \in tasks : k.iid # row.iid)

(* Every span is kept, whole and unmixed, from the first turn of a record  *)
(* to its episode (InteractionTracker, the close doors and catch-up).      *)
SpansAreWhole == TypeOK /\ LiveTurnsAreKept /\ ReplayedSpansAreWhole /\ RecordsDoNotMix

(* A span is remembered once: one episode, one extraction of facts         *)
(* (replay_span_already_derived, update_episode_summary).                  *)
OneEpisodePerSpan == OneRowPerSpan /\ FactsFollowSummary
=============================================================================
