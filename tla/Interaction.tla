---------------------------- MODULE Interaction -----------------------------
(***************************************************************************)
(* The lifecycle of a channel's interactions in the ChannelRouter          *)
(* (internal/channels): resolving the open interaction of a publish, the   *)
(* reply budget, the end-vote quorum, the bounded close, the close         *)
(* teardown with its no-reopen ledger, and the purge on channel delete.    *)
(*                                                                         *)
(* One channel: channels share no state.  The state is spread over four    *)
(* leaf mutexes that are never held together (interactionMu,               *)
(* replyBudgetMu, endVoteMu, budgetMu), so every critical section is a     *)
(* step of its own, and publishes interleave between any two.  An id is a  *)
(* number in order of minting.  Wall-clock time is abstracted: time may    *)
(* pass between any two steps, so a resolve that is eligible to rotate may *)
(* find the idle window elapsed or not.  The channel has no chair that     *)
(* could be sent a synthesis turn, so a crossed bound closes at once, and  *)
(* its configuration does not change.  Spend is the wallet's: whether it   *)
(* has crossed the soft budget is a free choice.                           *)
(***************************************************************************)
EXTENDS Integers, Sequences, FiniteSets, Functions

CONSTANTS
  Publishers,       \* goroutines that may be publishing at once
  Senders, NoSender,
  Exempt,           \* senders the reply budget does not apply to
  MaxInteractions,  \* bound: ids minted
  MaxPublishes,     \* bound: publishes begun
  ReplyBudget,      \* K of the reply budget, 0 for uncapped
  Quorum, Window,   \* K and W of the end vote
  MaxRounds,        \* autonomous.max_rounds
  Generations,      \* postCloseLatchGenerations
  Autonomy,         \* the values autonomous.enabled may have
  Rotates,          \* the channel is no thread and has an idle window
  Capped            \* interaction_budget_tokens > 0

ASSUME ChannelAssumption ==
  /\ NoSender \notin Senders /\ Exempt \subseteq Senders /\ IsFiniteSet(Publishers)
  /\ {MaxInteractions, MaxPublishes, ReplyBudget} \subseteq Nat
  /\ {Quorum, Window, MaxRounds, Generations} \subseteq Nat \ {0}
  /\ Autonomy \subseteq BOOLEAN /\ {Rotates, Capped} \subseteq BOOLEAN

VARIABLES
  autonomous,  \* AutonomousFor(channel).Enabled
  entry,       \* openInteractions[channel]
  minted,      \* ids minted so far
  counts,      \* replyCounts
  endVotes,    \* endVotes, turn 0 where there is no accumulator
  closed,      \* closedInteractions, the tombstones
  snapshots,   \* ids in interactionBudgetSnapshots
  pub,         \* the publishes in progress
  store,       \* the channel's row: "live", "deleted", and "purged" thereafter
  doomed,      \* discards PurgeChannelInteraction has yet to make
  begun,       \* publishes begun
  persisted,   \* history: replies stored, per interaction and sender
  closes,      \* history: closes won, per interaction
  discharged,  \* history: ids whose governance state was discarded
  stranded     \* history: ids still in use when discarded, or never parked

vars == <<autonomous, entry, minted, counts, endVotes, closed, snapshots, pub,
          store, doomed, begun, persisted, closes, discharged, stranded>>
governance == <<counts, endVotes, closed, snapshots>>
history    == <<persisted, closes, discharged, stranded>>

None == 0
Ids  == 1..MaxInteractions

NoEntry == [live |-> FALSE, id |-> None, committed |-> FALSE, retired |-> None,
            rounds |-> 0, ledger |-> <<>>]
NoVotes == [turn |-> 0, stamp |-> [s \in Senders |-> 0]]
NoReplies == [s \in Senders |-> 0]
Idle == [pc |-> "idle", sender |-> NoSender, vote |-> FALSE, id |-> None,
         latched |-> FALSE, reserved |-> FALSE, todo |-> <<>>, then |-> "idle"]

Ledger == Range(entry.ledger)
OpenCommitted == entry.id # None /\ entry.committed

\* Publish r at its next step pc.  Once its vote is counted only its id matters.
At(r, pc) ==
  IF pc = "idle" THEN Idle
  ELSE IF pc \in {"postclose", "fanout", "tail", "bound", "mark"}
  THEN [Idle EXCEPT !.pc = pc, !.id = r.id, !.latched = r.latched]
  ELSE [r EXCEPT !.pc = pc, !.todo = <<>>, !.then = "idle"]

Goto(p, pc) == pub' = [pub EXCEPT ![p] = At(@, pc)]

\* discardInteractionGovernance(i): three discards, each under its own mutex;
\* nothing when there is no id.
Governance(i) ==
  IF i = None THEN <<>> ELSE <<<<"replies", i>>, <<"votes", i>>, <<"budget", i>>>>

\* p makes the discards in todo and goes on at pc.
DiscardThen(p, todo, pc) ==
  pub' = [pub EXCEPT ![p] =
            IF todo = <<>> THEN At(@, pc)
            ELSE [(IF pc = "reserve" THEN @ ELSE At(@, "mark"))
                  EXCEPT !.pc = "discard", !.todo = todo, !.then = pc]]

Init ==
  /\ autonomous \in Autonomy
  /\ entry = NoEntry /\ minted = 0
  /\ counts = [i \in Ids |-> NoReplies] /\ endVotes = [i \in Ids |-> NoVotes]
  /\ closed = {} /\ snapshots = {}
  /\ pub = [p \in Publishers |-> Idle]
  /\ store = "live" /\ doomed = <<>> /\ begun = 0
  /\ persisted = [i \in Ids |-> NoReplies] /\ closes = [i \in Ids |-> 0]
  /\ discharged = {} /\ stranded = {}

-----------------------------------------------------------------------------
\* resolveInteractionID.

Begin(p) == pub[p].pc = "idle" /\ begun < MaxPublishes /\ begun' = begun + 1

\* A claim of a deliberately closed interaction is kept on an autonomous
\* channel, and touches no resolver state.
Latch(p, s, v, claim) ==
  /\ Begin(p)
  /\ autonomous /\ claim \in Ledger
  /\ pub' = [pub EXCEPT ![p] = [Idle EXCEPT !.pc = "reserve", !.sender = s, !.vote = v,
                                            !.id = claim, !.latched = TRUE]]
  /\ UNCHANGED <<autonomous, entry, minted, governance, store, doomed, history>>

\* Any other claim is overridden: the open interaction, rotated when it has
\* been idle for longer than the window, or a fresh one.
Resolve(p, s, v, idle) ==
  LET rotates == idle /\ OpenCommitted /\ Rotates
      mints   == rotates \/ entry.id = None
      id      == IF mints THEN minted + 1 ELSE entry.id
  IN /\ Begin(p)
     /\ idle => rotates
     /\ id \in Ids
     /\ minted' = IF mints THEN id ELSE minted
     /\ entry' = [entry EXCEPT !.live = TRUE, !.id = id,
                    !.committed = @ /\ ~mints,
                    !.retired = IF rotates THEN entry.id ELSE @,
                    !.rounds = IF mints THEN 0 ELSE @]
     /\ LET todo == IF rotates THEN Governance(entry.retired) ELSE <<>>
            pc   == IF todo = <<>> THEN "reserve" ELSE "discard"
        IN pub' = [pub EXCEPT ![p] =
                     [Idle EXCEPT !.pc = pc, !.sender = s, !.vote = v, !.id = id,
                                  !.todo = todo, !.then = IF todo = <<>> THEN "idle" ELSE "reserve"]]
     /\ UNCHANGED <<autonomous, governance, store, doomed, history>>

\* The next of the discards p has to make, and of those of a purge.
Discard(what, i) ==
  /\ counts' = IF what = "replies" THEN [counts EXCEPT ![i] = NoReplies] ELSE counts
  /\ endVotes' = IF what = "votes" THEN [endVotes EXCEPT ![i] = NoVotes] ELSE endVotes
  /\ closed' = IF what = "votes" THEN closed \ {i} ELSE closed
  /\ snapshots' = IF what = "budget" THEN snapshots \ {i} ELSE snapshots

InFlight(i) == \E p \in Publishers : pub[p].id = i /\ ~pub[p].latched

\* Governance(i) starts with the replies and, unlike the discards of a close in
\* progress, is not made by a publish of i itself.
Discharge(p) ==
  LET what == Head(pub[p].todo)[1]
      i    == Head(pub[p].todo)[2]
  IN /\ pub[p].pc = "discard"
     /\ Discard(what, i)
     /\ DiscardThen(p, Tail(pub[p].todo), pub[p].then)
     /\ IF i = pub[p].id THEN UNCHANGED <<discharged, stranded>>
        ELSE /\ discharged' = discharged \cup {i}
             /\ stranded' = stranded \cup IF InFlight(i) THEN {i} ELSE {}
     /\ UNCHANGED <<autonomous, entry, minted, store, doomed, begun, persisted, closes>>

-----------------------------------------------------------------------------
\* publishWithReplyBudget.

\* enforceReplyBudget: a vote, an exempt sender and an uncapped channel reserve
\* nothing.
Reserve(p) ==
  LET i == pub[p].id
      s == pub[p].sender
      exempt == pub[p].vote \/ s \in Exempt \/ ReplyBudget = 0
      full   == counts[i][s] >= ReplyBudget
  IN /\ pub[p].pc = "reserve"
     /\ pub' = [pub EXCEPT ![p].pc = IF full /\ ~exempt THEN "rejected" ELSE "persist",
                           ![p].reserved = ~full /\ ~exempt]
     /\ counts' = IF full \/ exempt THEN counts ELSE [counts EXCEPT ![i][s] = @ + 1]
     /\ UNCHANGED <<autonomous, entry, minted, endVotes, closed, snapshots, store, doomed, begun, history>>

\* Mutant: a refused publish keeps its reply slot.
PersistKeepsSlot(p) ==
  LET i == pub[p].id
      s == pub[p].sender
  IN /\ pub[p].pc = "persist"
     /\ \/ /\ store = "live"
           /\ pub' = [pub EXCEPT ![p] = [At(@, IF @.latched THEN "postclose" ELSE "persisted")
                                         EXCEPT !.reserved = FALSE]]
           /\ persisted' = IF pub[p].vote THEN persisted ELSE [persisted EXCEPT ![i][s] = @ + 1]
        \/ /\ Goto(p, "rejected")
           /\ UNCHANGED persisted
     /\ UNCHANGED <<autonomous, entry, minted, governance, store, doomed, begun, closes, discharged, stranded>>

\* store.PublishMessage, which may refuse, and must when the channel is gone.
Persist(p) ==
  LET i == pub[p].id
      s == pub[p].sender
  IN /\ pub[p].pc = "persist"
     /\ \/ /\ store = "live"
           /\ pub' = [pub EXCEPT ![p] = [At(@, IF @.latched THEN "postclose" ELSE "persisted")
                                         EXCEPT !.reserved = FALSE]]
           /\ persisted' = IF pub[p].vote THEN persisted ELSE [persisted EXCEPT ![i][s] = @ + 1]
        \/ /\ Goto(p, IF pub[p].reserved THEN "release" ELSE "rejected")
           /\ UNCHANGED persisted
     /\ UNCHANGED <<autonomous, entry, minted, governance, store, doomed, begun, closes, discharged, stranded>>

\* releaseReplyReservation.
Release(p) ==
  LET i == pub[p].id
      s == pub[p].sender
  IN /\ pub[p].pc = "release"
     /\ Goto(p, "rejected")
     /\ counts' = IF counts[i][s] = 0 THEN counts ELSE [counts EXCEPT ![i][s] = @ - 1]
     /\ UNCHANGED <<autonomous, entry, minted, endVotes, closed, snapshots, store, doomed, begun, history>>

-----------------------------------------------------------------------------
\* settleInteraction, a no-op for a latched publish.

SettleRejected(p) ==
  /\ pub[p].pc = "rejected"
  /\ Goto(p, "idle")
  /\ entry' = IF /\ ~pub[p].latched /\ entry.id = pub[p].id
                 /\ ~entry.committed /\ entry.retired = None
              THEN NoEntry ELSE entry
  /\ UNCHANGED <<autonomous, minted, governance, store, doomed, begun, history>>

\* A publish stored under an id that is no longer open parks it as the retiree
\* when that slot is free.
SettlePersisted(p) ==
  LET i == pub[p].id
      e == IF entry.live THEN entry ELSE [NoEntry EXCEPT !.live = TRUE, !.id = i]
      first == e.id = i /\ ~e.committed
  IN /\ pub[p].pc = "persisted"
     /\ entry' = IF e.id = i THEN [e EXCEPT !.committed = TRUE]
                 ELSE IF e.retired = None THEN [e EXCEPT !.retired = i] ELSE e
     /\ stranded' = IF i \in {entry'.id, entry'.retired} THEN stranded ELSE stranded \cup {i}
     /\ Goto(p, IF first /\ Capped THEN "snapshot" ELSE "endvote")
     /\ UNCHANGED <<autonomous, minted, governance, store, doomed, begun, persisted, closes, discharged>>

\* snapshotInteractionBudget, after interactionMu is released.
Snapshot(p) ==
  /\ pub[p].pc = "snapshot"
  /\ snapshots' = snapshots \cup {pub[p].id}
  /\ Goto(p, "endvote")
  /\ UNCHANGED <<autonomous, entry, minted, counts, endVotes, closed, store, doomed, begun, history>>

-----------------------------------------------------------------------------
\* processEndVote and the suppression of post-close traffic.

\* Mutant: the counter the reservation re-created stays.
DropPostCloseKeeps(p) ==
  /\ pub[p].pc = "postclose"
  /\ Goto(p, "idle")
  /\ UNCHANGED <<autonomous, entry, minted, governance, store, doomed, begun, history>>

\* dropPostCloseTraffic.
DropPostClose(p) ==
  /\ pub[p].pc = "postclose"
  /\ counts' = [counts EXCEPT ![pub[p].id] = NoReplies]
  /\ Goto(p, "idle")
  /\ UNCHANGED <<autonomous, entry, minted, endVotes, closed, snapshots, store, doomed, begun, history>>

\* tombstoneInteractionLocked, once it is known that i has no tombstone.
Tombstone(i) ==
  /\ closed' = closed \cup {i}
  /\ endVotes' = [endVotes EXCEPT ![i] = NoVotes]
  /\ closes' = [closes EXCEPT ![i] = @ + 1]

\* finalizeInteractionClose: the reply counters go first, then the id is
\* retired.
Teardown(p) == DiscardThen(p, <<<<"replies", pub[p].id>>>>, "mark")

\* Where a publish goes that is not suppressed: only an autonomous channel has
\* a bounded close at the tail of its fanout.
Fanout == IF autonomous THEN "fanout" ELSE "idle"

\* The tally of i after p: every publish is a turn once there is a vote.
Tallied(p) ==
  LET v == endVotes[pub[p].id] IN
  [turn |-> v.turn + 1,
   stamp |-> IF pub[p].vote THEN [v.stamp EXCEPT ![pub[p].sender] = v.turn + 1] ELSE v.stamp]

\* The votes that are less than Window turns old.
Recent(v) == {s \in Senders : v.stamp[s] # 0 /\ v.turn - v.stamp[s] < Window}

\* A duplicate vote is fanned out on an autonomous channel and not on another,
\* where the fanout changes nothing here.
EndVote(p) ==
  LET i == pub[p].id
      v == Tallied(p)
      untracked == endVotes[i].turn = 0 /\ ~pub[p].vote
  IN /\ pub[p].pc = "endvote"
     /\ \/ /\ i \in closed
           /\ Goto(p, "postclose")
           /\ UNCHANGED <<endVotes, closed, closes>>
        \/ /\ i \notin closed /\ untracked
           /\ Goto(p, Fanout)
           /\ UNCHANGED <<endVotes, closed, closes>>
        \/ /\ i \notin closed /\ pub[p].vote /\ Cardinality(Recent(v)) >= Quorum
           /\ Tombstone(i)
           /\ Teardown(p)
        \/ /\ i \notin closed /\ ~untracked
           /\ ~(pub[p].vote /\ Cardinality(Recent(v)) >= Quorum)
           /\ endVotes' = [endVotes EXCEPT ![i] = v]
           /\ Goto(p, Fanout)
           /\ UNCHANGED <<closed, closes>>
     /\ UNCHANGED <<autonomous, entry, minted, counts, snapshots, store, doomed, begun, persisted, discharged, stranded>>

-----------------------------------------------------------------------------
\* The bounded close, on an autonomous channel.

\* A floor speaker's reply is left to the loop of its round: the last one waits
\* at "fanout" until the loop re-fans it (maybeContinueDiscussion), the others
\* end here.
InRoundReply(p) ==
  /\ pub[p].pc = "fanout"
  /\ Goto(p, "idle")
  /\ UNCHANGED <<autonomous, entry, minted, governance, store, doomed, begun, history>>

\* A publish at the cascade cap closes its interaction on an autonomous channel.
CloseOnCascadeBound(p) ==
  /\ pub[p].pc = "fanout"
  /\ Goto(p, "bound")
  /\ UNCHANGED <<autonomous, entry, minted, governance, store, doomed, begun, history>>

\* stimulusOutlivedClose: the floor path looks before its round and again at
\* the tail, the concurrent path only at the tail.
FloorRound(p) ==
  /\ pub[p].pc = "fanout"
  /\ Goto(p, IF pub[p].id \in Ledger THEN "idle" ELSE "tail")
  /\ UNCHANGED <<autonomous, entry, minted, governance, store, doomed, begun, history>>

\* advanceBoundedCloseRound and maybeBoundedClose: the round counts unless the
\* stimulus outlived its interaction, and closes it when a bound is crossed,
\* but never with the first dispatch still pending.
MaybeBoundedClose(p, cost) ==
  LET pending == pub[p].pc = "fanout"
      live    == pub[p].id \notin Ledger /\ OpenCommitted /\ entry.id = pub[p].id
      round   == entry.rounds + 1
  IN /\ pub[p].pc \in {"fanout", "tail"}
     /\ cost => Capped /\ live
     /\ entry' = IF live THEN [entry EXCEPT !.rounds = round] ELSE entry
     /\ Goto(p, IF live /\ (cost \/ round >= MaxRounds) /\ ~(pending /\ round = 1)
                THEN "bound" ELSE "idle")
     /\ UNCHANGED <<autonomous, minted, governance, store, doomed, begun, history>>

\* Mutant: the tombstone is written without looking for it.
BoundedCloseBlind(p) ==
  /\ pub[p].pc = "bound"
  /\ Tombstone(pub[p].id)
  /\ Teardown(p)
  /\ UNCHANGED <<autonomous, entry, minted, counts, snapshots, store, doomed, begun, persisted, discharged, stranded>>

\* boundedClose: who finds the tombstone standing has lost.
BoundedClose(p) ==
  /\ pub[p].pc = "bound"
  /\ \/ /\ pub[p].id \in closed
        /\ Goto(p, "idle")
        /\ UNCHANGED <<endVotes, closed, closes>>
     \/ /\ pub[p].id \notin closed
        /\ Tombstone(pub[p].id)
        /\ Teardown(p)
  /\ UNCHANGED <<autonomous, entry, minted, counts, snapshots, store, doomed, begun, persisted, discharged, stranded>>

-----------------------------------------------------------------------------
\* rememberClosed: the last Generations ids, newest last.
Remember(ledger, i) ==
  LET l == Append(ledger, i) IN
  IF i \in Range(ledger) THEN ledger
  ELSE IF Len(l) > Generations THEN Tail(l) ELSE l

\* markInteractionClosed: the ledger remembers i in any case; the entry retires
\* it only while it is the open one, displacing the previous retiree.
MarkInteractionClosed(p) ==
  LET i == pub[p].id
      retires == entry.live /\ entry.id = i
  IN /\ pub[p].pc = "mark"
     /\ entry' = IF ~entry.live THEN entry
                 ELSE [entry EXCEPT !.ledger = Remember(@, i),
                                    !.retired = IF retires THEN i ELSE @,
                                    !.id = IF retires THEN None ELSE @]
     /\ DiscardThen(p, IF retires THEN Governance(entry.retired) ELSE <<>>, "idle")
     /\ UNCHANGED <<autonomous, minted, governance, store, doomed, begun, history>>

-----------------------------------------------------------------------------
\* handleDeleteChannel: the row goes first, then PurgeChannelInteraction drops
\* the entry and discards what its two ids hold.

DeleteChannel ==
  /\ store = "live" /\ store' = "deleted"
  /\ UNCHANGED <<autonomous, entry, minted, governance, pub, doomed, begun, history>>

PurgeChannelInteraction ==
  /\ store = "deleted" /\ store' = "purged"
  /\ entry' = NoEntry
  /\ doomed' = Governance(entry.id) \o Governance(entry.retired)
  /\ UNCHANGED <<autonomous, minted, governance, pub, begun, history>>

PurgeDiscard ==
  LET i == Head(doomed)[2] IN
  /\ doomed # <<>> /\ doomed' = Tail(doomed)
  /\ Discard(Head(doomed)[1], i)
  /\ discharged' = discharged \cup {i}
  /\ stranded' = stranded \cup IF InFlight(i) THEN {i} ELSE {}
  /\ UNCHANGED <<autonomous, entry, minted, pub, store, begun, persisted, closes>>

-----------------------------------------------------------------------------
Publish(p) ==
  \/ \E s \in Senders, v \in BOOLEAN :
       \/ \E claim \in Ids : Latch(p, s, v, claim)
       \/ \E idle \in BOOLEAN : Resolve(p, s, v, idle)
  \/ Discharge(p) \/ Reserve(p) \/ Persist(p) \/ Release(p)
  \/ SettleRejected(p) \/ SettlePersisted(p) \/ Snapshot(p)
  \/ EndVote(p) \/ DropPostClose(p)
  \/ InRoundReply(p) \/ CloseOnCascadeBound(p) \/ FloorRound(p)
  \/ \E cost \in BOOLEAN : MaybeBoundedClose(p, cost)
  \/ BoundedClose(p) \/ MarkInteractionClosed(p)

Next ==
  \/ \E p \in Publishers : Publish(p)
  \/ DeleteChannel \/ PurgeChannelInteraction \/ PurgeDiscard

Spec == Init /\ [][Next]_vars

-----------------------------------------------------------------------------
PublishRecords ==
  [pc : {"idle", "discard", "reserve", "persist", "release", "rejected", "persisted",
         "snapshot", "endvote", "postclose", "fanout", "tail", "bound", "mark"},
   sender : Senders \cup {NoSender}, vote : BOOLEAN, id : Ids \cup {None},
   latched : BOOLEAN, reserved : BOOLEAN,
   todo : Seq({"replies", "votes", "budget"} \X Ids),
   then : {"idle", "reserve", "mark"}]

\* The router's maps are well typed.  Nobody holds more reply slots than the
\* budget, and the no-reopen ledger holds at most Generations ids, all distinct.
TypeOK ==
  /\ autonomous \in BOOLEAN /\ minted \in 0..MaxInteractions
  /\ entry \in [live : BOOLEAN, id : Ids \cup {None}, committed : BOOLEAN,
                retired : Ids \cup {None}, rounds : Nat, ledger : Seq(Ids)]
  /\ counts \in [Ids -> [Senders -> 0..ReplyBudget]]
  /\ endVotes \in [Ids -> [turn : Nat, stamp : [Senders -> Nat]]]
  /\ closed \subseteq Ids /\ snapshots \subseteq Ids
  /\ pub \in [Publishers -> PublishRecords]
  /\ store \in {"live", "deleted", "purged"}
  /\ doomed \in Seq({"replies", "votes", "budget"} \X Ids)
  /\ begun \in 0..MaxPublishes
  /\ persisted \in [Ids -> [Senders -> Nat]] /\ closes \in [Ids -> Nat]
  /\ discharged \subseteq Ids /\ stranded \subseteq Ids
  /\ Len(entry.ledger) <= Generations /\ IsInjective(entry.ledger)

\* A publish that has resolved i and has yet to report how it ended.
Unsettled(i) ==
  \E p \in Publishers :
    /\ pub[p].id = i /\ ~pub[p].latched
    /\ pub[p].pc \in {"reserve", "persist", "release", "rejected", "persisted"}
         \cup IF pub[p].then = "reserve" THEN {"discard"} ELSE {}

Closing(i) ==
  \E p \in Publishers : pub[p].id = i /\ (pub[p].pc = "mark" \/ pub[p].then = "mark")

\* No zombies: an interaction that was deliberately closed is not the open one
\* any more, but while the close that won its tombstone is on its way to
\* markInteractionClosed.  Publishes to it would be suppressed, and the channel
\* mute, until it idled out.
ClosedIsRetired ==
  store = "live" =>
    /\ entry.id \notin Ledger
    /\ entry.id \in closed => Closing(entry.id)

\* "Entries exist only for channels with at least one persisted publish"
\* (settleInteraction): a resolver entry is backed by a stored publish, or by
\* one that has yet to settle.
EntriesHaveHistory ==
  entry.live =>
    \/ entry.committed \/ entry.retired # None
    \/ Unsettled(entry.id)

\* The other way round: no rejected publish takes the entry of a channel with
\* history, and with it the retiree whose discard is pending and the ledger.
HistoryHasEntry ==
  store = "live" =>
    \A i \in Ids :
      (\E s \in Senders : persisted[i][s] > 0) => entry.live \/ Unsettled(i)

\* "The counter tracks history, not attempts": while nothing has closed or
\* discarded an interaction, a sender's counter is the number of its replies in
\* the store plus those about to be stored or released; so no sender gets more
\* than its budget of replies into it.
CountsTrackHistory ==
  ReplyBudget > 0 =>
  \A i \in Ids, s \in Senders \ Exempt :
    (closes[i] = 0 /\ i \notin discharged) =>
      counts[i][s] = persisted[i][s] +
        Cardinality({p \in Publishers :
          /\ pub[p].id = i /\ pub[p].sender = s
          /\ pub[p].reserved /\ pub[p].pc \in {"persist", "release"}})

\* A capped interaction has its ceiling snapshot from its first commit to its
\* discharge, but for the publish that is about to record it.
SnapshotWhileOpen ==
  (Capped /\ store = "live" /\ OpenCommitted) =>
    \/ entry.id \in snapshots
    \/ \E p \in Publishers : pub[p].pc = "snapshot" /\ pub[p].id = entry.id

Resident(i) ==
  counts[i] # NoReplies \/ endVotes[i].turn > 0 \/ i \in closed \/ i \in snapshots

\* No leaks: what the router keeps about an interaction can still be reached by
\* a discard, because the interaction is open, retired or in use, or its discard
\* is under way.  The only ids left behind are those a publish still used when
\* they were discarded, and those settled when the retiree's slot was taken.
GovernanceIsReachable ==
  \A i \in Ids : Resident(i) =>
    \/ i \in {entry.id, entry.retired} \cup stranded
    \/ \E p \in Publishers : pub[p].id = i \/ \E k \in 1..Len(pub[p].todo) : pub[p].todo[k][2] = i
    \/ \E k \in 1..Len(doomed) : doomed[k][2] = i

\* However the end-vote quorum, the bounded closes and the cascade cap race, one
\* of them closes the interaction, as long as its tombstone was not discarded
\* under a publish that still used it.
ClosedOnceWhileTracked == \A i \in Ids \ stranded : closes[i] <= 1

\* "No production path closes the same id twice" (rememberClosed), of a channel
\* that exists.
ClosedOnce == store = "live" => \A i \in Ids : closes[i] <= 1

\* The resolver's entry, the reply counters and the ceiling snapshots agree with
\* the channel's history at every step, rejected publishes included
\* (settleInteraction, publishWithReplyBudget, snapshotInteractionBudget).
TrackingMatchesHistory ==
  TypeOK /\ EntriesHaveHistory /\ HistoryHasEntry /\ CountsTrackHistory /\ SnapshotWhileOpen

\* Whoever closes an interaction closes it alone, and it stays closed
\* (tombstoneInteractionLocked, markInteractionClosed).
ClosesAreSingle == ClosedIsRetired /\ ClosedOnceWhileTracked
=============================================================================
