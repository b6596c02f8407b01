---------------------------- MODULE RecordTiers ----------------------------
(***************************************************************************)
(* The tiers a persona's turns and background closes write row by row:     *)
(* notes (written by tools, one call at a time under the persona's lock),  *)
(* commitments, and relationships with their identity record.  Each tier   *)
(* has one connection; an operation is one task that yields between its    *)
(* statements, and a commit publishes whatever its connection has open.    *)
(***************************************************************************)
EXTENDS MemoryScope

CONSTANTS
    Tasks,        \* coroutines that call the stores
    Calls,        \* the sets of calls they may have to make
    Peers,
    MaxNotes, MaxOpen, MaxCrashes

(* A call comes with its room resolved; the ids of commitments and of      *)
(* conversations are drawn at random, so no two of a run are the same.     *)
ASSUME RecordAssumption ==
    /\ IsFiniteSet(Tasks) /\ MaxNotes \in Nat \ {0}
    /\ \A S \in Calls :
        /\ \A c \in S : /\ c.scope.session # Unset
                        /\ c.acting \in {Unset, "public", "internal", "restricted", "secret"}
                        /\ c.op = "close" => c.state \in {"fulfilled", "cancelled"}
        /\ \A c, d \in S : c.op = d.op /\ c.op \in {"create", "record"} /\ c.id = d.id => c = d

VARIABLES
    notes,     \* rows of the notes table
    pledges,   \* rows of the commitments table
    pairs,     \* relationship rows, by peer: at most one per peer
    talks,     \* rows of the interactions table
    saved,     \* the four tables as committed
    task,      \* [Tasks -> call in progress]
    locks,     \* the persona's turn lock and the identity write lock
    ledger     \* calls due and what callers were told (no table holds it)

recordVars == <<notes, pledges, pairs, talks, saved, task, locks, ledger>>
Tables == [notes |-> notes, pledges |-> pledges, pairs |-> pairs, talks |-> talks]

Free == [pc |-> "free"]
Levels == <<"public", "internal", "restricted", "secret">>
Rank(l) == CHOOSE i \in DOMAIN Levels : Levels[i] = l
(* The two defaults go opposite ways: a row written at an unknown level is *)
(* stamped internal, and a reader at an unknown level sees public only.    *)
Stamp(acting) == Or(acting, "internal")
ActingRank(acting) == Rank(Or(acting, "public"))
Injectable(acting) == {l \in {"public", "internal", "restricted", "secret"} : Rank(l) <= ActingRank(acting)}
Doing(t, op, pc) == task[t] # Free /\ task[t].call.op = op /\ task[t].pc = pc
C(t) == task[t].call
Goto(t, pc) == task' = [task EXCEPT ![t].pc = pc]
Return(t) == task' = [task EXCEPT ![t] = Free]
Tell(t, what) == ledger' = [ledger EXCEPT !.told = @ \cup {[op |-> C(t).op, id |-> C(t).id, by |-> t, what |-> what]}]
Fresh(S) == 1 + Cardinality({r.id : r \in S} \cup ledger.gone)
Commit(new) == saved' = new

InTurn(call) == call.op \in {"store_note", "update_note", "delete_note", "recall_notes"}
Call(t, c) ==
    /\ task[t] = Free /\ c \in ledger.due
    /\ InTurn(c) => locks.turn = {}
    /\ locks' = IF InTurn(c) THEN [locks EXCEPT !.turn = {t}] ELSE locks
    /\ task' = [task EXCEPT ![t] = [pc |-> "start", call |-> c, seen |-> {}]]
    /\ ledger' = [ledger EXCEPT !.due = @ \ {c}]
    /\ UNCHANGED <<notes, pledges, pairs, talks, saved>>
EndTurn == locks' = [locks EXCEPT !.turn = {}]

(***************************************************************************)
(* Notes.                                                                  *)
(***************************************************************************)
Mine(n, c) == InScope(n, {c.scope.session}, c.scope.principal, c.scope.epoch)
(* Mutation and recall scope: the active room, and rows older than rooms. *)
Reachable(n, c) == InScope(n, {Legacy, c.scope.session}, c.scope.principal, c.scope.epoch)

(* Least recalled first, then oldest: what a new note pushes out. *)
Precedes(a, b) == a.used < b.used \/ (a.used = b.used /\ a.id < b.id)
Pruned(S, cap) ==
    {n \in S : Cardinality({m \in S : Precedes(m, n)}) < Cardinality(S) + 1 - cap}

(* A note about the person spoken to goes to their identity record when    *)
(* the room is no more confidential than the default and something in it   *)
(* parses, and is then not stored as a note; it is when the record could   *)
(* not be written.                                                         *)
WritesThrough(c) == c.about # Unset /\ c.fields # {} /\ ActingRank(c.acting) <= Rank("internal")

PruneNotes(t) ==
    /\ Doing(t, "store_note", "note") \/ (Doing(t, "store_note", "start") /\ ~WritesThrough(C(t)))
    /\ LET out == Pruned({n \in notes : Mine(n, C(t))}, MaxNotes) IN
       /\ notes' = notes \ out
       /\ ledger' = [ledger EXCEPT !.gone = @ \cup {n.id : n \in out}]
    /\ Goto(t, "insert")
    /\ UNCHANGED <<pledges, pairs, talks, saved, locks>>
InsertNote(t) ==
    /\ Doing(t, "store_note", "insert")
    /\ notes' = notes \cup
           {[id |-> Fresh(notes), used |-> 0, level |-> Stamp(C(t).acting), peak |-> Stamp(C(t).acting),
             sess |-> NormalSession(C(t).scope.session),
             world |-> [principal |-> C(t).scope.principal, epoch |-> C(t).scope.epoch]]}
    /\ Commit([saved EXCEPT !.notes = notes'])
    /\ EndTurn /\ Return(t)
    /\ UNCHANGED <<pledges, pairs, talks, ledger>>

(* Rewriting a note under a higher classification raises its level, and    *)
(* nothing lowers it.                                                      *)
Restamped(n, acting) == IF Rank(n.level) < Rank(Stamp(acting)) THEN Stamp(acting) ELSE n.level
UpdateNote(t) ==
    /\ Doing(t, "update_note", "start")
    /\ notes' = {IF n.id = C(t).id /\ Reachable(n, C(t))
                 THEN [n EXCEPT !.level = Restamped(n, C(t).acting),
                         !.peak = IF Rank(Stamp(C(t).acting)) > Rank(@) THEN Stamp(C(t).acting) ELSE @]
                 ELSE n : n \in notes}
    /\ Commit([saved EXCEPT !.notes = notes'])
    /\ EndTurn /\ Return(t)
    /\ UNCHANGED <<pledges, pairs, talks, ledger>>
DeleteNote(t) ==
    /\ Doing(t, "delete_note", "start")
    /\ notes' = {n \in notes : ~(n.id = C(t).id /\ Reachable(n, C(t)))}
    /\ ledger' = [ledger EXCEPT !.gone = @ \cup {n.id : n \in notes \ notes'}]
    /\ Commit([saved EXCEPT !.notes = notes'])
    /\ EndTurn /\ Return(t)
    /\ UNCHANGED <<pledges, pairs, talks>>

RecallNotes(t) ==
    /\ Doing(t, "recall_notes", "start")
    /\ task' = [task EXCEPT ![t].pc = "reinforce", ![t].seen =
           {n.id : n \in {m \in notes : Reachable(m, C(t)) /\ m.level \in Injectable(C(t).acting)}}]
    /\ ledger' = [ledger EXCEPT !.shown = @ \cup
           {[level |-> n.peak, acting |-> C(t).acting] :
             n \in {m \in notes : m.id \in task'[t].seen}}]
    /\ UNCHANGED <<notes, pledges, pairs, talks, saved, locks>>
CountRecall(t) ==
    /\ Doing(t, "recall_notes", "reinforce")
    /\ notes' = {IF n.id \in task[t].seen THEN [n EXCEPT !.used = @ + 1] ELSE n : n \in notes}
    /\ Commit([saved EXCEPT !.notes = notes'])
    /\ EndTurn /\ Return(t)
    /\ UNCHANGED <<pledges, pairs, talks, ledger>>

(***************************************************************************)
(* Commitments.                                                            *)
(***************************************************************************)
OwnedBy(p, c) == p.world = [principal |-> c.scope.principal, epoch |-> c.scope.epoch]
                 /\ p.sess \in {Legacy, c.scope.session}
(* The cap counts what is open and not yet due, in every room: one         *)
(* statement both counts and inserts.                                      *)
UnderCap(epoch) == Cardinality({p \in pledges :
    p.state = "open" /\ p.world.epoch = epoch /\ ~p.overdue}) < MaxOpen
Create(t) ==
    /\ Doing(t, "create", "start")
    /\ pledges' = IF UnderCap(C(t).scope.epoch)
                  THEN pledges \cup
                    {[id |-> C(t).id, state |-> "open", overdue |-> FALSE,
                      sess |-> NormalSession(C(t).scope.session),
                      world |-> [principal |-> C(t).scope.principal, epoch |-> C(t).scope.epoch]]}
                  ELSE pledges
    /\ Commit([saved EXCEPT !.pledges = pledges'])
    /\ Return(t)
    /\ UNCHANGED <<notes, pairs, talks, locks, ledger>>
FallsDue(p) ==
    /\ p \in pledges /\ ~p.overdue
    /\ pledges' = (pledges \ {p}) \cup {[p EXCEPT !.overdue = TRUE]}
    /\ Commit([saved EXCEPT !.pledges = pledges'])
    /\ UNCHANGED <<notes, pairs, talks, task, locks, ledger>>

Closable(p, c) == p.id = c.id /\ OwnedBy(p, c) /\ p.state = "open"
CloseUpdate(t) ==
    /\ Doing(t, "close", "start")
    /\ LET S == {p \in pledges : Closable(p, C(t))} IN
       /\ pledges' = (pledges \ S) \cup {[p EXCEPT !.state = C(t).state] : p \in S}
       /\ task' = [task EXCEPT ![t].pc = "answer", ![t].seen = {p.id : p \in S}]
    /\ Commit([saved EXCEPT !.pledges = pledges'])
    /\ UNCHANGED <<notes, pairs, talks, locks, ledger>>
(* The row is read back: gone, already closed, or closed by this call. *)
CloseAnswer(t) ==
    /\ Doing(t, "close", "answer")
    /\ LET row == {p \in pledges : p.id = C(t).id /\ OwnedBy(p, C(t))} IN
       Tell(t, IF row = {} THEN "not found"
               ELSE IF task[t].seen = {} THEN "already closed"
               ELSE (CHOOSE p \in row : TRUE).state)
    /\ Return(t)
    /\ UNCHANGED <<notes, pledges, pairs, talks, saved, locks>>

(* Open commitments of this room, or of before rooms, soonest due first. *)
ListOpen(t) ==
    /\ Doing(t, "list", "start")
    /\ Tell(t, {p.id : p \in {q \in pledges : OwnedBy(q, C(t)) /\ q.state = "open"}})
    /\ Return(t)
    /\ UNCHANGED <<notes, pledges, pairs, talks, saved, locks>>

(***************************************************************************)
(* Relationships.  Trust is a count of steps around the middle.            *)
(***************************************************************************)
MaxTrust == 2
NewPair(peer, trust, n, fields) == [peer |-> peer, trust |-> trust, n |-> n, fields |-> fields]
HasPair(peer) == \E p \in pairs : p.peer = peer
PairOf(peer) == CHOOSE p \in pairs : p.peer = peer
Clamp(x) == IF x > MaxTrust THEN MaxTrust ELSE IF x < 0 THEN 0 ELSE x
(* ON CONFLICT DO UPDATE: a pair that is there becomes `changed'. *)
Upsert(peer, new, changed) ==
    pairs' = IF HasPair(peer) THEN (pairs \ {PairOf(peer)}) \cup {changed}
             ELSE pairs \cup {new}
CommitRelations == Commit([saved EXCEPT !.pairs = pairs', !.talks = talks'])

(* Configured trust is seeded once, when the store opens. *)
SeedTrust(peer) == NewPair(peer, MaxTrust, 0, {})
UpdateTrust(t) ==
    /\ Doing(t, "trust", "start")
    /\ Upsert(C(t).peer, NewPair(C(t).peer, Clamp(1 + C(t).delta), 0, {}),
              [PairOf(C(t).peer) EXCEPT !.trust = Clamp(@ + C(t).delta)])
    /\ UNCHANGED talks /\ CommitRelations
    /\ Return(t)
    /\ UNCHANGED <<notes, pledges, locks, ledger>>
(* Every pair drifts one step towards the middle. *)
ApplyDecay(t) ==
    /\ Doing(t, "decay", "start")
    /\ pairs' = {IF p.trust > 1 THEN [p EXCEPT !.trust = @ - 1]
                 ELSE IF p.trust < 1 THEN [p EXCEPT !.trust = @ + 1] ELSE p : p \in pairs}
    /\ UNCHANGED talks
    /\ IF pairs' # pairs THEN CommitRelations ELSE UNCHANGED saved
    /\ Return(t)
    /\ UNCHANGED <<notes, pledges, locks, ledger>>

(* A closed direct conversation is recorded: the row, then the pair. *)
RecordTalk(t) ==
    /\ Doing(t, "record", "start")
    /\ talks' = talks \cup {[id |-> C(t).id, peer |-> C(t).peer, sess |-> NormalSession(C(t).scope.session)]}
    /\ Goto(t, "pair")
    /\ UNCHANGED <<notes, pledges, pairs, saved, locks, ledger>>
RecordPair(t) ==
    /\ Doing(t, "record", "pair")
    /\ Upsert(C(t).peer, NewPair(C(t).peer, 1, 1, {}), [PairOf(C(t).peer) EXCEPT !.n = @ + 1])
    /\ UNCHANGED talks /\ CommitRelations
    /\ Return(t)
    /\ UNCHANGED <<notes, pledges, locks, ledger>>

(* A summary is the pair's row and then the conversations of this room and *)
(* of before rooms, in a second statement.                                 *)
SummaryRow(t) ==
    /\ Doing(t, "summary", "start")
    /\ IF HasPair(C(t).peer)
       THEN task' = [task EXCEPT ![t].pc = "count", ![t].seen = {PairOf(C(t).peer).trust}] /\ UNCHANGED ledger
       ELSE Return(t) /\ Tell(t, [trust |-> 1, talks |-> 0])
    /\ UNCHANGED <<notes, pledges, pairs, talks, saved, locks>>
SummaryCount(t) ==
    /\ Doing(t, "summary", "count")
    /\ Tell(t, [trust |-> CHOOSE x \in task[t].seen : TRUE,
                talks |-> Cardinality({k \in talks : k.peer = C(t).peer /\ k.sess \in {Legacy, C(t).scope.session}})])
    /\ Return(t)
    /\ UNCHANGED <<notes, pledges, pairs, talks, saved, locks>>

(* The identity record is read, merged and written back under a lock. *)
MergeIdentity(existing, fields) == existing \cup fields

(* Mutant: nothing serialises the read, the merge and the write. *)
IdentityFreeAlways == TRUE

IdentityFree == locks.identity = {}
WritesIdentity(t) == \/ Doing(t, "identity", "start")
                     \/ Doing(t, "store_note", "start") /\ WritesThrough(C(t))
ReadIdentity(t) ==
    /\ WritesIdentity(t) /\ IdentityFree
    /\ locks' = [locks EXCEPT !.identity = {t}]
    /\ task' = [task EXCEPT ![t].pc = "write",
           ![t].seen = IF HasPair(C(t).about) THEN PairOf(C(t).about).fields ELSE {}]
    /\ UNCHANGED <<notes, pledges, pairs, talks, saved, ledger>>
WriteIdentity(t) ==
    /\ task[t] # Free /\ task[t].pc = "write"
    /\ LET merged == MergeIdentity(task[t].seen, C(t).fields) IN
       Upsert(C(t).about, NewPair(C(t).about, 1, 0, merged), [PairOf(C(t).about) EXCEPT !.fields = merged])
    /\ UNCHANGED talks /\ CommitRelations
    /\ ledger' = [ledger EXCEPT !.learnt = @ \cup {[peer |-> C(t).about, field |-> f] : f \in C(t).fields}]
    /\ locks' = [identity |-> {}, turn |-> locks.turn \ {t}]
    /\ Return(t)
    /\ UNCHANGED <<notes, pledges>>

(* The database is busy: a note falls back to the room, what a close learnt *)
(* is given up.                                                             *)
WriteIdentityRaises(t) ==
    /\ task[t] # Free /\ task[t].pc = "write"
    /\ locks' = [locks EXCEPT !.identity = {}]
    /\ IF C(t).op = "store_note" THEN Goto(t, "note") ELSE Return(t)
    /\ UNCHANGED <<notes, pledges, pairs, talks, saved, ledger>>

(* The process dies: open statements are rolled back, tasks are gone. *)
RecordCrash ==
    /\ ledger.crashes < MaxCrashes
    /\ notes' = saved.notes /\ pledges' = saved.pledges
    /\ pairs' = saved.pairs /\ talks' = saved.talks
    /\ task' = [t \in Tasks |-> Free]
    /\ locks' = [turn |-> {}, identity |-> {}]
    /\ ledger' = [ledger EXCEPT !.crashes = @ + 1,
                    !.gone = @ \cup ({n.id : n \in notes} \ {n.id : n \in saved.notes})]
    /\ UNCHANGED saved

RecordInit ==
    /\ notes = {} /\ pledges = {} /\ talks = {}
    /\ \E P \in SUBSET Peers : pairs = {SeedTrust(p) : p \in P}
    /\ saved = Tables
    /\ task = [t \in Tasks |-> Free]
    /\ locks = [turn |-> {}, identity |-> {}]
    /\ \E S \in Calls : ledger =
         [due |-> S, told |-> {}, shown |-> {}, learnt |-> {}, gone |-> {}, crashes |-> 0]

TaskStep(t) ==
    \/ \E c \in ledger.due : Call(t, c)
    \/ PruneNotes(t) \/ InsertNote(t) \/ UpdateNote(t) \/ DeleteNote(t)
    \/ RecallNotes(t) \/ CountRecall(t)
    \/ Create(t) \/ CloseUpdate(t) \/ CloseAnswer(t) \/ ListOpen(t) \/ SummaryRow(t) \/ SummaryCount(t)
    \/ UpdateTrust(t) \/ ApplyDecay(t) \/ RecordTalk(t) \/ RecordPair(t)
    \/ ReadIdentity(t) \/ WriteIdentity(t) \/ WriteIdentityRaises(t)
RecordNext == (\E t \in Tasks : TaskStep(t)) \/ (\E p \in pledges : FallsDue(p)) \/ RecordCrash
RecordSpec == RecordInit /\ [][RecordNext]_recordVars

(***************************************************************************)
(* Properties.                                                             *)
(***************************************************************************)
(* A note is never shown in a room less confidential than the most         *)
(* confidential one it was written or rewritten in, nor any but a public   *)
(* one where the level is not known, and a room never holds more notes     *)
(* than its limit.                                                         *)
NotesKeepTheirSecrecy ==
    /\ \A s \in ledger.shown : Rank(s.level) <= ActingRank(s.acting)
    /\ \A n \in notes : Cardinality({m \in notes : m.sess = n.sess /\ m.world = n.world}) <= MaxNotes

(* Of the calls that race to close a commitment one is told it did, and    *)
(* what it was told is how the commitment stays.                           *)
OneCloserWins == LET closers == {a \in ledger.told : a.op = "close" /\ a.what \in {"fulfilled", "cancelled"}} IN
  \A a, b \in closers : a.id = b.id =>
        /\ a = b
        /\ \A p \in pledges : p.id = a.id => p.state = a.what

(* Nothing a completed call recorded about a person is lost to another     *)
(* call's read-merge-write, and between calls the pair's count is the      *)
(* number of conversations on record unless the process died in between.   *)
NothingLearntIsLost ==
    /\ \A l \in ledger.learnt : HasPair(l.peer) /\ l.field \in PairOf(l.peer).fields
    /\ (\A t \in Tasks : task[t] = Free) /\ ledger.crashes = 0 =>
         \A peer \in Peers : Cardinality({k \in talks : k.peer = peer})
                             = IF HasPair(peer) THEN PairOf(peer).n ELSE 0

(* No completed call's effect is undone by another that read before it     *)
(* (relationship_mutations.py, commitments.py).                            *)
NothingIsOverwritten == NothingLearntIsLost /\ OneCloserWins
=============================================================================
