------------------------- MODULE PersonaCloseProofs -------------------------
(***************************************************************************)
(* Theorems about how a persona turns the messages of a room into          *)
(* episodes.  The inductive invariant has five parts, each proved from the *)
(* ones before it:                                                         *)
(*   TrackInv   every record is well formed and in one place               *)
(*   StoreInv   a tracked record is not stored, rows and tasks agree       *)
(*   MarkInv    what has been replayed lies before the pass                *)
(*   SoundInv   what a record holds, and what may join it                  *)
(*   SpanInv    a record marked whole holds its whole conversation         *)
(* A step is summed up first by what it does to the records (Rests,        *)
(* Closes, Sheds, Joined); the parts are then proved from the summaries.   *)
(***************************************************************************)
EXTENDS MCPersonaClose, FiniteSetTheorems, TLAPS

(***************************************************************************)
(* The shape of the state.                                                 *)
(***************************************************************************)
TurnSet == [m : Nat, own : BOOLEAN]

(* A record, wherever it is kept.                                          *)
RecordFields == {"id", "speaker", "replayed", "owned", "wire", "prev", "turns", "age", "whole"}

Rec(r) ==
  /\ DOMAIN r = RecordFields
  /\ r.id \in Nat \ {0} /\ r.speaker \in Speakers /\ r.age \in Nat
  /\ r.replayed \in BOOLEAN /\ r.whole \in BOOLEAN
  /\ r.turns \in Seq(TurnSet) /\ r.turns # <<>>

(* The records the holder of the lock has closed and not written.          *)
JobTodo == IF job = NoJob THEN {} ELSE job.todo

(* A handler by what it is about: a message, a notice, or nothing more.    *)
MessageJob(j) ==
  /\ DOMAIN j = {"kind", "m", "pc", "dup", "rec", "todo"}
  /\ j.kind \in {"event", "replay"} /\ j.m \in Messages
  /\ j.pc \in {"stale", "turn", "end", "done"} /\ (j.kind = "replay" => j.pc # "done")
  /\ j.dup \in BOOLEAN

NoticeJobOK(j) ==
  /\ DOMAIN j = {"kind", "pc", "from", "w", "todo"}
  /\ j.kind = "notice" /\ j.pc \in {"close", "done"}

PlainJob(j) ==
  /\ DOMAIN j = {"kind", "pc", "todo"}
  /\ j.kind \in {"event", "tick", "vote", "stop"} /\ j.pc \in {"done", "janitor", "drain"}

JobOK(j) == j = NoJob \/ MessageJob(j) \/ NoticeJobOK(j) \/ PlainJob(j)

CatchOK(c) ==
  /\ DOMAIN c = {"pc", "win", "at", "gaps", "todo", "snap", "done"}
  /\ c.pc \in {"off", "list", "replay", "sweep"}
  /\ c.win \in 0..sent /\ c.at \in Nat \ {0} /\ c.done \in BOOLEAN /\ c.snap \subseteq Nat

CountOK(c) ==
  /\ DOMAIN c = {"ids", "room", "sent", "unowned", "starts", "votes", "notices", "failures", "long", "ticks"}
  /\ c.ids \in Nat /\ c.room \in Seq([speaker : Speakers, wire : Wires \cup {NoWire}])

(* The shape of every variable but the store.                              *)
Shape ==
  /\ up \in BOOLEAN /\ sent \in 0..Len(History) /\ inbox \subseteq Messages
  /\ DOMAIN trk = {"open", "cut", "live", "pass"} /\ trk.cut \subseteq Speakers /\ trk.live \subseteq Messages
  /\ CatchOK(catch) /\ CountOK(count) /\ DOMAIN ghost = {"recorded", "lost"} /\ JobOK(job)
  /\ ~up => trk.open = {} /\ catch.todo = {} /\ job = NoJob /\ tasks = {} /\ inbox = {} /\ catch.pc = "off"
  /\ job # NoJob /\ job.kind = "replay" => catch.pc = "replay" /\ job.m = catch.at /\ catch.at <= catch.win

(* Every record is in one place, and no two have the same id.              *)
Placed(O, J, C, n) ==
  /\ \A r \in O \cup J \cup C : Rec(r) /\ r.id <= n
  /\ \A r, q \in O \cup J \cup C : r.id = q.id => r = q
  /\ O \cap J = {} /\ O \cap C = {} /\ J \cap C = {}

(* One record is open per speaker, and a full one is not open.             *)
OpenOK(O) ==
  /\ IsFiniteSet(O)
  /\ \A r, q \in O : r.speaker = q.speaker => r = q
  /\ \A r \in O : Len(r.turns) < MaxTurns

(* The records: each is well formed and in one place.                      *)
TrackInv ==
  /\ Shape
  /\ Placed(trk.open, JobTodo, catch.todo, count.ids)
  /\ OpenOK(trk.open)
  /\ \A r \in Tracked : Len(r.turns) <= MaxTurns

(***************************************************************************)
(* Rows and their tasks.                                                   *)
(***************************************************************************)
IdOK(iid, n) == DOMAIN iid = {"uid", "speaker", "span"} /\ iid.uid \in 0..n

(* A row and its summary task.                                             *)
RowOK(row, n) ==
  /\ DOMAIN row = {"iid", "replayed", "msgs", "span", "speaker", "wire", "win", "summary", "age", "facts"}
  /\ IdOK(row.iid, n) /\ row.replayed \in BOOLEAN /\ row.age \in Nat
  /\ row.iid.uid = 0 => row.replayed
  /\ row.summary \in {"pending", "ok", "unavailable"}
  /\ row.facts \in {0, 1}

TaskOK(k, n) ==
  /\ DOMAIN k = {"iid", "replayed", "ok", "pc"}
  /\ IdOK(k.iid, n) /\ k.replayed \in BOOLEAN /\ k.ok \in BOOLEAN /\ k.pc \in {"gate", "llm", "facts"}

(* A summary was written under this identity.                              *)
Summarised(iid, R) == \E row \in R : row.iid = iid /\ row.summary = "ok"

(* Two rows that are pending or summarised, and any two tasks, differ in   *)
(* their identity; facts come with a summary.                              *)
Standing(row) == row.summary # "unavailable"
RowsOK(R, n) ==
  /\ \A row \in R : RowOK(row, n)
  /\ \A a, b \in R : a.iid = b.iid /\ Standing(a) /\ Standing(b) => a = b
  /\ \A row \in R : row.facts = 1 => Summarised(row.iid, R)

TasksOK(K, n) == (\A k \in K : TaskOK(k, n)) /\ \A k, l \in K : k.iid = l.iid => k = l

(* What a task finds under its identity: no summary before its own, and    *)
(* when its own was written, no facts yet.                                 *)
Serves(k, R) ==
  /\ k.pc # "facts" => ~Summarised(k.iid, R)
  /\ k.pc = "facts" /\ k.ok =>
       Summarised(k.iid, R) /\ \A row \in R : row.iid = k.iid => row.facts = 0

(* A tracked record is not stored yet, and will not take a task's identity. *)
Unstored(r, R, K) ==
  /\ \A row \in R : row.iid.uid # r.id
  /\ \A k \in K : k.iid.uid # r.id /\ (k.iid.uid = 0 /\ r.replayed => k.iid.span[1] # r.turns[1].m)

(* The store: a tracked record is in no row and under no task yet.         *)
StoreInv ==
  /\ RowsOK(rows, count.ids) /\ TasksOK(tasks, count.ids)
  /\ \A k \in tasks : Serves(k, rows)
  /\ \A r \in Tracked : Unstored(r, rows, tasks)
  /\ \A r, q \in Tracked : r.replayed /\ q.replayed /\ r.turns[1].m = q.turns[1].m => r = q

(* What has been replayed lies before the pass.                            *)
Past(m) ==
  /\ m \in Nat
  /\ \/ m < catch.at
     \/ m = catch.at /\ job # NoJob /\ job.kind = "replay" /\ job.pc = "end"

(* The mark of the pass: what has been replayed lies before it.            *)
MarkInv ==
  /\ catch.pc = "list" =>
       catch.at = 1 /\ (\A r \in Tracked : ~r.replayed) /\ \A k \in tasks : k.iid.uid # 0
  /\ catch.pc = "replay" =>
       /\ \A r \in Tracked : r.replayed => Past(r.turns[1].m)
       /\ \A k \in tasks : k.iid.uid = 0 => Past(k.iid.span[1])

(***************************************************************************)
(* Live turns and wires.                                                   *)
(***************************************************************************)
LiveOK(r) ==
  ~r.replayed =>
    /\ r.turns[1].m # 0
    /\ \A i \in DOMAIN r.turns : r.turns[i].m # 0 => r.turns[i].own

(* The turns of a record are messages of the room, of one conversation.    *)
InRoom(r) == \A i \in DOMAIN r.turns : r.turns[i].m # 0 => r.turns[i].m \in Messages

Unmixed(r) ==
  r.wire # NoWire =>
    \A i \in DOMAIN r.turns : r.turns[i].m # 0 => History[r.turns[i].m].wire \in {r.wire, r.prev, NoWire}

Unstamped(r) ==
  r.wire = NoWire => \A i \in DOMAIN r.turns : r.turns[i].m # 0 => History[r.turns[i].m].wire = NoWire

(* The record a message is about to join is one of its kind.               *)
Joins ==
  job # NoJob /\ job.pc = "turn" =>
    /\ job.kind = "event" => ~job.dup
    /\ \A r \in trk.open :
         /\ r.speaker = History[job.m].speaker => r.replayed = (job.kind = "replay")
         /\ ~WireRotationCloses(r, History[job.m].wire)

(***************************************************************************)
(* Lemmas about sets, records and turns.                                   *)
(***************************************************************************)
LEMMA LeastOf ==
  ASSUME NEW N, N \subseteq Nat, N # {}
  PROVE  \E n \in N : \A k \in N : n <= k
  <1>1. PICK m \in N : TRUE
    OBVIOUS
  <1> DEFINE D == 0..m  M == {k \in N : k <= m}  F == {0..k : k \in M}
  <1>2. IsFiniteSet(D)
    BY <1>1, FS_Interval
  <1>3. \A T \in F : T \in FiniteSubsetsOf(D)
    <2>1. FiniteSubsetsOf(D) = SUBSET D
      BY <1>2, FS_FiniteSubsetsOfFinite
    <2>2. \A k \in M : 0..k \subseteq D
      BY <1>1
    <2> QED BY <2>1, <2>2
  <1>4. F # {}
    <2>1. 0..m \in F
      BY <1>1
    <2> QED BY <2>1
  <1>5. IsWellFoundedOn(StrictSubsetOrdering(D), FiniteSubsetsOf(D))
    BY FS_StrictSubsetOrderingWellFounded
  <1>6. PICK T \in F : \A Y \in F : ~(<<Y, T>> \in StrictSubsetOrdering(D))
    <2> HIDE DEF F, D
    <2>1. F \subseteq FiniteSubsetsOf(D)
      BY <1>3
    <2> QED BY <2>1, <1>4, <1>5, WFMin
  <1>7. PICK n \in M : T = 0..n
    BY <1>6
  <1>8. ASSUME NEW k \in N, ~(n <= k) PROVE FALSE
    <2>1. k \in M /\ k \in Nat /\ n \in Nat /\ k < n
      BY <1>1, <1>7, <1>8
    <2>2. 0..k \in F /\ 0..k \subseteq D /\ 0..n \subseteq D /\ 0..k \subseteq 0..n /\ 0..k # 0..n
      <3>1. n \in 0..n /\ n \notin 0..k
        BY <2>1
      <3>2. 0..k \subseteq D /\ 0..n \subseteq D /\ 0..k \subseteq 0..n
        BY <2>1, <1>1, <1>7
      <3>3. 0..k \in F
        BY <2>1
      <3> QED BY <3>1, <3>2, <3>3
    <2>3. <<0..k, 0..n>> \in StrictSubsetOrdering(D)
      BY <2>2 DEF StrictSubsetOrdering
    <2> QED BY <2>2, <2>3, <1>6, <1>7
  <1> QED BY <1>7, <1>8

LEMMA FirstIsOne ==
  ASSUME NEW S, S # {}, \A r \in S : r.id \in Nat
  PROVE  First(S) \in S
  <1> DEFINE N == {r.id : r \in S}
  <1>1. N \subseteq Nat /\ N # {}
    OBVIOUS
  <1>2. PICK n \in N : \A k \in N : n <= k
    <2> HIDE DEF N
    <2> QED BY <1>1, LeastOf
  <1>3. PICK r \in S : r.id = n
    BY <1>2
  <1>4. \A q \in S : r.id <= q.id
    BY <1>2, <1>3
  <1> QED BY <1>4 DEF First

LEMMA JobOfKind == ASSUME NEW j, j.kind # "none" PROVE j # NoJob
  BY DEF NoJob

(* Records X take the place of S, which were open: with new ids, or each   *)
(* with the id of one of S.                                                *)
TakesOver(S, X, n, n2) ==
  /\ \A x \in X : Rec(x) /\ x.id <= n2 /\ (x.id > n \/ \E q \in S : q.id = x.id)
  /\ \A x, y \in X : x.id = y.id => x = y

LEMMA Replacing ==
  ASSUME NEW O, NEW J, NEW C, NEW n \in Nat, NEW n2 \in Nat, n <= n2, NEW S, NEW X,
         Placed(O, J, C, n), S \subseteq O, TakesOver(S, X, n, n2)
  PROVE  /\ Placed((O \ S) \cup X, J, C, n2)
         /\ Placed(O \ S, J \cup X, C, n2)
         /\ Placed(O \ S, J, C \cup X, n2)
  <1> DEFINE Y == (O \ S) \cup J \cup C
  <1>1. \A r \in Y : Rec(r) /\ r.id <= n2 /\ r.id <= n
    BY DEF Placed, Rec
  <1>2. \A r, q \in Y : r.id = q.id => r = q
    BY DEF Placed
  <1>3. \A x \in X, y \in Y : x.id # y.id
    <2> SUFFICES ASSUME NEW x \in X, NEW y \in Y, x.id = y.id PROVE FALSE
      OBVIOUS
    <2>1. x.id \in Nat /\ y.id \in Nat /\ y.id <= n
      BY <1>1 DEF TakesOver, Rec
    <2>2. PICK q \in S : q.id = x.id
      BY <2>1 DEF TakesOver
    <2>3. q = y
      BY <2>2 DEF Placed
    <2> QED BY <2>2, <2>3 DEF Placed
  <1>4. \A x \in X : Rec(x) /\ x.id <= n2
    BY DEF TakesOver
  <1>5. \A r, q \in X \cup Y : r.id = q.id => r = q
    BY <1>2, <1>3 DEF TakesOver
  <1>6. X \cap Y = {}
    BY <1>3
  <1>7. (O \ S) \cap J = {} /\ (O \ S) \cap C = {} /\ J \cap C = {}
    BY DEF Placed
  <1>8. \A r \in X \cup Y : Rec(r) /\ r.id <= n2
    BY <1>1, <1>4
  <1> DEFINE P == O \ S
  <1>9. /\ (P \cup X) \cup J \cup C = X \cup Y
        /\ P \cup (J \cup X) \cup C = X \cup Y
        /\ P \cup J \cup (C \cup X) = X \cup Y
    OBVIOUS
  <1> HIDE DEF P
  <1>10. P \cap J = {} /\ P \cap C = {} /\ J \cap C = {} /\ X \cap P = {} /\ X \cap J = {} /\ X \cap C = {}
    BY <1>6, <1>7 DEF P
  <1> HIDE DEF Y
  <1>11. Placed(P \cup X, J, C, n2)
    BY <1>5, <1>8, <1>9, <1>10 DEF Placed
  <1>12. Placed(P, J \cup X, C, n2)
    BY <1>5, <1>8, <1>9, <1>10 DEF Placed
  <1>13. Placed(P, J, C \cup X, n2)
    BY <1>5, <1>8, <1>9, <1>10 DEF Placed
  <1> QED BY <1>11, <1>12, <1>13 DEF P

LEMMA Fewer ==
  ASSUME NEW O, NEW J, NEW C, NEW n, Placed(O, J, C, n), NEW P, NEW K, NEW D,
         P \subseteq O, K \subseteq J, D \subseteq C
  PROVE  Placed(P, K, D, n)
  BY DEF Placed

LEMMA Themselves ==
  ASSUME NEW O, NEW J, NEW C, NEW n, Placed(O, J, C, n), NEW S, S \subseteq O
  PROVE  TakesOver(S, S, n, n)
  BY DEF Placed, TakesOver

LEMMA FewerOpen ==
  ASSUME NEW O, NEW P, OpenOK(O), P \subseteq O PROVE OpenOK(P)
  <1>1. IsFiniteSet(P)
    BY FS_Subset DEF OpenOK
  <1> QED BY <1>1 DEF OpenOK

LEMMA MarkedWhole ==
  ASSUME NEW r, Rec(r), NEW b \in BOOLEAN
  PROVE  /\ Rec([r EXCEPT !.whole = b])
         /\ [r EXCEPT !.whole = b].id = r.id /\ [r EXCEPT !.whole = b].speaker = r.speaker
         /\ [r EXCEPT !.whole = b].replayed = r.replayed /\ [r EXCEPT !.whole = b].turns = r.turns
         /\ [r EXCEPT !.whole = b].wire = r.wire /\ [r EXCEPT !.whole = b].prev = r.prev
         /\ [r EXCEPT !.whole = b].whole = b
  BY DEF Rec, RecordFields

LEMMA Aged ==
  ASSUME NEW r, Rec(r)
  PROVE  /\ Rec([r EXCEPT !.age = Capped(@, IdleAge)])
         /\ [r EXCEPT !.age = Capped(@, IdleAge)].id = r.id /\ [r EXCEPT !.age = Capped(@, IdleAge)].speaker = r.speaker
         /\ [r EXCEPT !.age = Capped(@, IdleAge)].replayed = r.replayed /\ [r EXCEPT !.age = Capped(@, IdleAge)].turns = r.turns
         /\ [r EXCEPT !.age = Capped(@, IdleAge)].wire = r.wire /\ [r EXCEPT !.age = Capped(@, IdleAge)].prev = r.prev
         /\ [r EXCEPT !.age = Capped(@, IdleAge)].whole = r.whole
  BY CloseAssumption DEF Rec, RecordFields, Capped

(* Turns only grow.                                                        *)
LEMMA TurnAdded ==
  ASSUME NEW s \in Seq(TurnSet), NEW t \in TurnSet
  PROVE  /\ Append(s, t) \in Seq(TurnSet) /\ Append(s, t) # <<>> /\ Len(Append(s, t)) = Len(s) + 1
         /\ DOMAIN s = 1..Len(s) /\ DOMAIN Append(s, t) = 1..(Len(s) + 1) /\ Len(s) \in Nat
         /\ \A i \in DOMAIN s : Append(s, t)[i] = s[i]
         /\ Append(s, t)[Len(s) + 1] = t
  OBVIOUS

(***************************************************************************)
(* What the steps do to the records.                                       *)
(***************************************************************************)
Rests ==
  /\ trk'.open = trk.open /\ JobTodo' = JobTodo /\ catch'.todo = catch.todo /\ count'.ids = count.ids

(* The records S are closed into the hands of the lock's holder.           *)
Closes(S) ==
  /\ S \subseteq trk.open /\ JobTodo = {} /\ trk'.open = trk.open \ S /\ JobTodo' = S
  /\ catch'.todo = catch.todo /\ count'.ids = count.ids

(* The messages of the room are fixed for a behaviour.                     *)
SameRoom == count'.room = count.room

LEMMA RoomStays ==
  ASSUME SameRoom PROVE History' = History /\ Messages' = Messages
  BY DEF SameRoom, History, Messages

LEMMA OldCount ==
  ASSUME TrackInv PROVE CountOK(count) /\ CatchOK(catch) /\ JobOK(job) /\ Shape
  BY DEF TrackInv, Shape

LEMMA RoomEntry ==
  ASSUME CountOK(count), NEW i \in Messages
  PROVE  /\ History[i].speaker \in Speakers /\ History[i].wire \in Wires \cup {NoWire}
         /\ i \in Nat /\ i # 0 /\ Len(History) \in Nat
  <1> DEFINE E == [speaker : Speakers, wire : Wires \cup {NoWire}]  h == count.room
  <1>1. h \in Seq(E)
    BY DEF CountOK
  <1> HIDE DEF E, h
  <1>2. Len(h) \in Nat /\ \A j \in 1..Len(h) : h[j] \in E
    BY <1>1
  <1>3. i \in 1..Len(h)
    BY DEF Messages, History, h
  <1>4. h[i] \in E
    BY <1>2, <1>3
  <1> QED BY <1>2, <1>3, <1>4 DEF E, h, History

(* Nothing of the tracker moves.                                           *)
LEMMA BootRests == TrackInv /\ Boot => Shape' /\ Rests /\ SameRoom
  BY DEF TrackInv, Shape, Boot, Rests, SameRoom, JobTodo, CatchOK, CountOK, History, Messages, JobOK

LEMMA PublishRests == TrackInv /\ Publish => Shape' /\ Rests /\ SameRoom
  BY DEF TrackInv, Shape, Publish, Rests, SameRoom, JobTodo, CatchOK, CountOK, History, Messages, JobOK, MessageJob

LEMMA SilentRests ==
  ASSUME NEW m PROVE TrackInv /\ OnMessageSilent(m) => Shape' /\ Rests /\ SameRoom
  BY DEF TrackInv, Shape, OnMessageSilent, Rests, SameRoom, JobTodo, CatchOK, CountOK, History, Messages, JobOK, MessageJob

LEMMA VoteFailedRests ==
  ASSUME NEW b PROVE TrackInv /\ VoteFailed(b) => Shape' /\ Rests /\ SameRoom
  BY DEF TrackInv, Shape, VoteFailed, Resolve, Rests, SameRoom, JobTodo, CatchOK, CountOK, History, Messages, JobOK, MessageJob

LEMMA SnapOfOpen == TrackInv => {r.id : r \in {q \in trk.open : q.replayed}} \subseteq Nat
  BY DEF TrackInv, Placed, Rec

LEMMA FetchRests == TrackInv /\ FetchWindow => Shape' /\ Rests /\ SameRoom
  BY DEF TrackInv, Shape, FetchWindow, Rests, SameRoom, JobTodo, CatchOK, CountOK, History, Messages, JobOK, MessageJob

LEMMA FetchFailsRests == TrackInv /\ FetchFails => Shape' /\ Rests /\ SameRoom
  BY SnapOfOpen DEF TrackInv, Shape, FetchFails, SweepFrom, Rests, SameRoom, JobTodo, CatchOK, CountOK, History, Messages, JobOK, MessageJob

LEMMA RaisesRests == TrackInv /\ ReplayRaises => Shape' /\ Rests /\ SameRoom
  <1> SUFFICES ASSUME TrackInv, ReplayRaises PROVE Shape' /\ Rests /\ SameRoom
    OBVIOUS
  <1>1. catch.at \in Messages
    <2>1. catch.at \in Nat \ {0} /\ catch.at <= catch.win /\ catch.win \in 0..sent /\ sent \in 0..Len(History)
      BY DEF TrackInv, Shape, ReplayRaises, CatchOK
    <2> QED BY <2>1 DEF Messages
  <1>2. History[catch.at].speaker \in Speakers
    BY <1>1, RoomEntry DEF TrackInv, Shape
  <1> QED BY <1>2 DEF TrackInv, Shape, ReplayRaises, Replaying, Rests, SameRoom, JobTodo, CatchOK, CountOK, History, Messages, JobOK

LEMMA FinishedRests == TrackInv /\ ReplayFinished => Shape' /\ Rests /\ SameRoom
  BY DEF TrackInv, Shape, ReplayFinished, SweepFrom, Replaying, Rests, SameRoom, JobTodo, CatchOK, CountOK, History, Messages, JobOK, MessageJob, Placed, Rec

LEMMA JobEndRests == TrackInv /\ JobEnd => Shape' /\ Rests /\ SameRoom
  BY DEF TrackInv, Shape, JobEnd, JobAt, Rests, SameRoom, JobTodo, CatchOK, CountOK, History, Messages, JobOK

LEMMA ParkRests ==
  ASSUME NEW n PROVE TrackInv /\ ParkVote(n) => Shape' /\ Rests /\ SameRoom
  BY DEF TrackInv, Shape, ParkVote, JobAt, Rests, SameRoom, JobTodo, CatchOK, CountOK, History, Messages, JobOK

LEMMA SweepEndRests == TrackInv /\ SweepEnd => Shape' /\ Rests /\ SameRoom
  BY DEF TrackInv, Shape, SweepEnd, Sweeping, Rests, SameRoom, JobTodo, CatchOK, CountOK, History, Messages, JobOK, MessageJob

LEMMA TasksRest ==
  ASSUME NEW k, NEW ok PROVE TrackInv /\ k \in tasks /\ (TaskEnter(k) \/ TaskUpdate(k, ok) \/ TaskFacts(k)) => Shape' /\ Rests /\ SameRoom
  BY DEF TrackInv, Shape, TaskEnter, TaskUpdate, TaskFacts, Rests, SameRoom, JobTodo, CatchOK, CountOK, History, Messages, JobOK, MessageJob

LEMMA TicksRest == TrackInv /\ (TickEnds \/ OnQuietTick) => Shape' /\ Rests /\ SameRoom
  BY DEF TrackInv, Shape, TickEnds, OnQuietTick, JobAt, Free, Rests, SameRoom, JobTodo, CatchOK, CountOK, History, Messages, JobOK, MessageJob

LEMMA StutterRests == TrackInv /\ UNCHANGED vars => Shape' /\ Rests /\ SameRoom
  BY DEF TrackInv, Shape, vars, Rests, SameRoom, JobTodo, CatchOK, CountOK, History, Messages, JobOK, MessageJob

(* Records are closed by the handler that has none in hand.                *)
LEMMA NowTodo == ASSUME NEW S, job' # NoJob, job'.todo = S PROVE JobTodo' = S
  BY DEF JobTodo

LEMMA EventBegins ==
  ASSUME NEW m, NEW b \in BOOLEAN, TrackInv, Free, m \in Messages, Begin(EventJob(m, b), trk), UNCHANGED <<catch, count, sent>>,
         b => catch.pc = "replay" /\ m = catch.at /\ catch.at <= catch.win
  PROVE  /\ JobOK(job') /\ Closes(Expired(trk.open)) /\ DOMAIN trk' = {"open", "cut", "live", "pass"} /\ trk'.cut \subseteq Speakers
         /\ trk'.live = trk.live /\ trk'.pass = trk.pass
         /\ MessageJob(job') /\ job'.m = m /\ job'.pc = "stale" /\ (job'.kind = IF b THEN "replay" ELSE "event")
  <1> DEFINE due == Expired(trk.open)
  <1>1. /\ DOMAIN job' = {"kind", "m", "pc", "dup", "rec", "todo"} /\ job'.kind = (IF b THEN "replay" ELSE "event")
        /\ job'.m = m /\ job'.pc = "stale" /\ job'.dup = FALSE /\ job'.todo = due
    BY DEF Begin, EventJob
  <1>2. MessageJob(job') /\ job' # NoJob
    BY <1>1, JobOfKind DEF MessageJob, Messages, History
  <1>3. due \subseteq trk.open
    BY DEF Expired
  <1>4. /\ DOMAIN trk' = {"open", "cut", "live", "pass"} /\ trk'.open = trk.open \ due
        /\ trk'.cut = trk.cut \cup {r.speaker : r \in {q \in due : q.replayed}}
        /\ trk'.live = trk.live /\ trk'.pass = trk.pass
    BY DEF Begin, CloseRecords, TrackInv, Shape
  <1> HIDE DEF due
  <1>5. trk'.cut \subseteq Speakers
    BY <1>3, <1>4 DEF TrackInv, Shape, Placed, Rec
  <1>6. Closes(due)
    BY <1>1, <1>2, <1>3, <1>4 DEF Closes, JobTodo, Free
  <1> QED BY <1>1, <1>2, <1>4, <1>5, <1>6 DEF JobOK, due

LEMMA MessageCloses ==
  ASSUME NEW m PROVE TrackInv /\ OnMessage(m) => Shape' /\ Closes(Expired(trk.open)) /\ SameRoom
  <1> SUFFICES ASSUME TrackInv, OnMessage(m) PROVE Shape' /\ Closes(Expired(trk.open)) /\ SameRoom
    OBVIOUS
  <1>1. m \in Messages /\ Free /\ Begin(EventJob(m, FALSE), trk) /\ UNCHANGED <<up, sent, catch, count, ghost, tasks>> /\ inbox' = inbox \ {m}
    BY DEF OnMessage, TrackInv, Shape
  <1>2. /\ JobOK(job') /\ Closes(Expired(trk.open)) /\ DOMAIN trk' = {"open", "cut", "live", "pass"} /\ trk'.cut \subseteq Speakers
        /\ trk'.live = trk.live /\ job'.kind = "event"
    BY <1>1, EventBegins
  <1>3. SameRoom
    BY <1>1 DEF SameRoom
  <1>4. JobOK(job)'
    BY <1>2, <1>1 DEF JobOK, MessageJob, Messages, History
  <1> QED BY <1>1, <1>2, <1>3, <1>4 DEF TrackInv, Shape, CatchOK, CountOK, History, Messages, Free

LEMMA ReplayCloses == TrackInv /\ ReplayMessage => Shape' /\ Closes(Expired(trk.open)) /\ SameRoom
  <1> SUFFICES ASSUME TrackInv, ReplayMessage PROVE Shape' /\ Closes(Expired(trk.open)) /\ SameRoom
    OBVIOUS
  <1>1. /\ catch.at \in Messages /\ Free /\ catch.pc = "replay" /\ catch.at <= catch.win
        /\ Begin(EventJob(catch.at, TRUE), trk) /\ UNCHANGED <<up, sent, catch, count, ghost, tasks, inbox>>
    <2>1. catch.at \in Nat \ {0} /\ catch.at <= catch.win /\ catch.win \in 0..sent /\ sent \in 0..Len(History)
      BY DEF TrackInv, Shape, ReplayMessage, CatchOK
    <2>2. catch.at \in Messages
      BY <2>1 DEF Messages
    <2> QED BY <2>1, <2>2 DEF ReplayMessage, Replaying, Free
  <1>2. /\ JobOK(job') /\ Closes(Expired(trk.open)) /\ DOMAIN trk' = {"open", "cut", "live", "pass"} /\ trk'.cut \subseteq Speakers
        /\ trk'.live = trk.live /\ job'.kind = "replay" /\ job'.m = catch.at
    BY <1>1, EventBegins
  <1>3. SameRoom
    BY <1>1 DEF SameRoom
  <1>4. JobOK(job)'
    BY <1>2, <1>1 DEF JobOK, MessageJob, Messages, History
  <1> QED BY <1>1, <1>2, <1>3, <1>4 DEF TrackInv, Shape, CatchOK, CountOK, History, Messages, Free

LEMMA CloseInto ==
  ASSUME NEW S, TrackInv, S \subseteq trk.open, trk' = CloseRecords(trk, S), job' # NoJob, job'.todo = S, JobTodo = {},
         UNCHANGED catch, count'.ids = count.ids
  PROVE  /\ Closes(S) /\ DOMAIN trk' = {"open", "cut", "live", "pass"} /\ trk'.cut \subseteq Speakers
         /\ trk'.live = trk.live /\ trk'.pass = trk.pass /\ trk.cut \subseteq trk'.cut
  <1>1. /\ DOMAIN trk' = {"open", "cut", "live", "pass"} /\ trk'.open = trk.open \ S
        /\ trk'.cut = trk.cut \cup {r.speaker : r \in {q \in S : q.replayed}}
        /\ trk'.live = trk.live /\ trk'.pass = trk.pass
    BY DEF CloseRecords, TrackInv, Shape
  <1>2. trk'.cut \subseteq Speakers
    BY <1>1 DEF TrackInv, Shape, Placed, Rec
  <1> QED BY <1>1, <1>2 DEF Closes, JobTodo

(* The other variables of the shape.                                       *)
LEMMA ShapeKept ==
  ASSUME TrackInv, up, UNCHANGED <<up, sent, catch, ghost>>, inbox' \subseteq inbox, CountOK(count'), SameRoom,
         DOMAIN trk' = {"open", "cut", "live", "pass"}, trk'.cut \subseteq Speakers, trk'.live \subseteq Messages, JobOK(job'),
         job' # NoJob => job'.kind # "replay" \/ (job # NoJob /\ job.kind = "replay" /\ job'.m = job.m)
  PROVE  Shape'
  <1>1. Messages' = Messages /\ History' = History
    BY RoomStays
  <1>2. JobOK(job)'
    BY <1>1 DEF JobOK, MessageJob
  <1>3. CatchOK(catch)' /\ CountOK(count)'
    BY DEF TrackInv, Shape, CatchOK, CountOK
  <1>4. up' \in BOOLEAN /\ sent' \in 0..Len(History') /\ inbox' \subseteq Messages' /\ DOMAIN ghost' = {"recorded", "lost"}
    BY <1>1 DEF TrackInv, Shape
  <1>5. job' # NoJob /\ job'.kind = "replay" => catch'.pc = "replay" /\ job'.m = catch'.at /\ catch'.at <= catch'.win
    BY DEF TrackInv, Shape
  <1> QED BY <1>1, <1>2, <1>3, <1>4, <1>5 DEF Shape

LEMMA DeniedCloses ==
  ASSUME NEW m, TrackInv, OnMessageDenied(m)
  PROVE  Shape' /\ SameRoom /\ Closes(Admitted({r \in trk.open : WireAdmits(r, History[m].wire, TRUE)}))
  <1> DEFINE out == Admitted({r \in trk.open : WireAdmits(r, History[m].wire, TRUE)})
  <1>1. /\ up /\ UNCHANGED <<up, sent, catch, ghost, count>> /\ inbox' \subseteq inbox /\ trk' = CloseRecords(trk, out)
        /\ job' = [kind |-> "event", pc |-> "done", todo |-> out] /\ JobTodo = {}
    BY DEF OnMessageDenied, Free, JobTodo
  <1>2. out \subseteq trk.open
    BY DEF Admitted
  <1> HIDE DEF out
  <1>3. DOMAIN job' = {"kind", "pc", "todo"} /\ job'.kind = "event" /\ job'.pc = "done" /\ job'.todo = out
    BY <1>1
  <1>4. job' # NoJob /\ JobOK(job')
    BY <1>3, JobOfKind DEF JobOK, PlainJob
  <1>5. /\ Closes(out) /\ DOMAIN trk' = {"open", "cut", "live", "pass"} /\ trk'.cut \subseteq Speakers /\ trk'.live = trk.live
    BY <1>1, <1>2, <1>3, <1>4, CloseInto
  <1>6. SameRoom /\ CountOK(count') /\ trk'.live \subseteq Messages
    BY <1>1, <1>5 DEF SameRoom, TrackInv, Shape
  <1>7. Shape'
    BY <1>1, <1>3, <1>4, <1>5, <1>6, ShapeKept
  <1> QED BY <1>5, <1>6, <1>7 DEF out

LEMMA SessionCloses ==
  ASSUME TrackInv, EndSession
  PROVE  Shape' /\ SameRoom /\ Closes(Admitted({r \in trk.open : WireAdmits(r, History[job.m].wire, TRUE)}))
  <1> DEFINE out == Admitted({r \in trk.open : WireAdmits(r, History[job.m].wire, TRUE)})
  <1>1. /\ up /\ UNCHANGED <<up, sent, catch, ghost, count, inbox>> /\ trk' = CloseRecords(trk, out)
        /\ job' = [job EXCEPT !.pc = "done", !.todo = out] /\ JobTodo = {} /\ MessageJob(job) /\ job.kind = "event"
    BY DEF EndSession, JobAt, JobTodo, TrackInv, Shape, JobOK, NoticeJobOK, PlainJob
  <1>2. out \subseteq trk.open
    BY DEF Admitted
  <1> HIDE DEF out
  <1>3. job'.kind = "event" /\ job'.pc = "done" /\ job'.todo = out /\ MessageJob(job')
    BY <1>1 DEF MessageJob
  <1>4. job' # NoJob /\ JobOK(job')
    BY <1>3, JobOfKind DEF JobOK
  <1>5. /\ Closes(out) /\ DOMAIN trk' = {"open", "cut", "live", "pass"} /\ trk'.cut \subseteq Speakers /\ trk'.live = trk.live
    BY <1>1, <1>2, <1>3, <1>4, CloseInto
  <1>6. SameRoom /\ CountOK(count') /\ trk'.live \subseteq Messages
    BY <1>1, <1>5 DEF SameRoom, TrackInv, Shape
  <1>7. Shape'
    BY <1>1, <1>3, <1>4, <1>5, <1>6, ShapeKept
  <1> QED BY <1>5, <1>6, <1>7 DEF out

LEMMA NotificationCloses ==
  ASSUME NEW from, NEW w, TrackInv, OnNotification(from, w)
  PROVE  Shape' /\ SameRoom /\ Closes(Expired(trk.open))
  <1> DEFINE out == Expired(trk.open)
  <1>1. /\ up /\ UNCHANGED <<up, sent, catch, ghost, inbox>> /\ trk' = CloseRecords(trk, out)
        /\ job' = [NoticeJob(from, w) EXCEPT !.todo = out] /\ JobTodo = {}
        /\ count' = [count EXCEPT !.notices = @ - 1]
    BY DEF OnNotification, Begin, Free, JobTodo
  <1>2. out \subseteq trk.open
    BY DEF Expired
  <1> HIDE DEF out
  <1>3. job'.kind = "notice" /\ job'.pc = "close" /\ job'.todo = out /\ NoticeJobOK(job')
    BY <1>1 DEF NoticeJobOK, NoticeJob
  <1>4. job' # NoJob /\ JobOK(job')
    BY <1>3, JobOfKind DEF JobOK
  <1>5. SameRoom /\ CountOK(count') /\ count'.ids = count.ids
    BY <1>1 DEF SameRoom, TrackInv, Shape, CountOK
  <1>6. /\ Closes(out) /\ DOMAIN trk' = {"open", "cut", "live", "pass"} /\ trk'.cut \subseteq Speakers /\ trk'.live = trk.live
    BY <1>1, <1>2, <1>3, <1>4, <1>5, CloseInto
  <1>7. trk'.live \subseteq Messages
    BY <1>6 DEF TrackInv, Shape
  <1>8. Shape'
    BY <1>1, <1>3, <1>4, <1>5, <1>6, <1>7, ShapeKept
  <1> QED BY <1>5, <1>6, <1>8 DEF out

LEMMA TickCloses ==
  ASSUME TrackInv, OnTick
  PROVE  Shape' /\ SameRoom /\ Closes(Expired(trk.open))
  <1> DEFINE out == Expired(trk.open)
  <1>1. /\ up /\ UNCHANGED <<up, sent, catch, ghost, inbox, count>> /\ trk' = CloseRecords(trk, out)
        /\ job' = [[kind |-> "tick", pc |-> "janitor", todo |-> {}] EXCEPT !.todo = out] /\ JobTodo = {}
    BY DEF OnTick, Begin, Free, JobTodo
  <1>2. out \subseteq trk.open
    BY DEF Expired
  <1> HIDE DEF out
  <1>3. job'.kind = "tick" /\ job'.pc = "janitor" /\ job'.todo = out /\ PlainJob(job')
    BY <1>1 DEF PlainJob
  <1>4. job' # NoJob /\ JobOK(job')
    BY <1>3, JobOfKind DEF JobOK
  <1>5. SameRoom /\ CountOK(count') /\ count'.ids = count.ids
    BY <1>1 DEF SameRoom, TrackInv, Shape, CountOK
  <1>6. /\ Closes(out) /\ DOMAIN trk' = {"open", "cut", "live", "pass"} /\ trk'.cut \subseteq Speakers /\ trk'.live = trk.live
    BY <1>1, <1>2, <1>3, <1>4, <1>5, CloseInto
  <1>7. trk'.live \subseteq Messages
    BY <1>6 DEF TrackInv, Shape
  <1>8. Shape'
    BY <1>1, <1>3, <1>4, <1>5, <1>6, <1>7, ShapeKept
  <1> QED BY <1>5, <1>6, <1>8 DEF out

LEMMA ShutdownClosesThem ==
  ASSUME TrackInv, Shutdown
  PROVE  Shape' /\ SameRoom /\ Closes(ShutdownCloses)
  <1> DEFINE out == ShutdownCloses
  <1>1. /\ up /\ UNCHANGED <<up, sent, catch, ghost, inbox, count>> /\ trk' = CloseRecords(trk, out)
        /\ job' = [kind |-> "stop", pc |-> "drain", todo |-> out] /\ JobTodo = {}
    BY DEF Shutdown, Free, JobTodo
  <1>2. out \subseteq trk.open
    BY DEF ShutdownCloses, Admitted
  <1> HIDE DEF out
  <1>3. job'.kind = "stop" /\ job'.pc = "drain" /\ job'.todo = out /\ PlainJob(job')
    BY <1>1 DEF PlainJob
  <1>4. job' # NoJob /\ JobOK(job')
    BY <1>3, JobOfKind DEF JobOK
  <1>5. SameRoom /\ CountOK(count') /\ count'.ids = count.ids
    BY <1>1 DEF SameRoom, TrackInv, Shape, CountOK
  <1>6. /\ Closes(out) /\ DOMAIN trk' = {"open", "cut", "live", "pass"} /\ trk'.cut \subseteq Speakers /\ trk'.live = trk.live
    BY <1>1, <1>2, <1>3, <1>4, <1>5, CloseInto
  <1>7. trk'.live \subseteq Messages
    BY <1>6 DEF TrackInv, Shape
  <1>8. Shape'
    BY <1>1, <1>3, <1>4, <1>5, <1>6, <1>7, ShapeKept
  <1> QED BY <1>5, <1>6, <1>8 DEF out

(* A vote that came through closes the records it admits, or none.         *)
LEMMA VoteCloses ==
  ASSUME NEW b, NEW y, TrackInv, VotePublished(b, y)
  PROVE  Shape' /\ SameRoom /\ ((Rests /\ UNCHANGED <<trk, job>>) \/ \E S : Closes(S) /\ (\A r \in S : ~r.replayed) /\ job'.kind = "vote" /\ job' # NoJob /\ job'.pc = "done")
  <1>1. up /\ UNCHANGED <<up, sent, catch, ghost, inbox, count>> /\ JobTodo = {}
    BY DEF VotePublished, Resolve, Free, JobTodo
  <1>2. SameRoom /\ CountOK(count') /\ count'.ids = count.ids
    BY <1>1 DEF SameRoom, TrackInv, Shape, CountOK
  <1>3. CASE UNCHANGED <<trk, job>>
    <2>1. Rests
      BY <1>1, <1>3 DEF Rests, JobTodo
    <2>2. Shape'
      BY <1>1, <1>2, <1>3, ShapeKept DEF TrackInv, Shape
    <2> QED BY <1>2, <1>3, <2>1, <2>2
  <1>4. CASE ~UNCHANGED <<trk, job>>
    <2>1. PICK S : /\ S \subseteq trk.open /\ (\A r \in S : ~r.replayed) /\ trk' = CloseRecords(trk, S)
                   /\ job' = [kind |-> "vote", pc |-> "done", todo |-> S]
      BY <1>4 DEF VotePublished, Admitted
    <2>2. job'.kind = "vote" /\ job'.pc = "done" /\ job'.todo = S /\ PlainJob(job')
      BY <2>1 DEF PlainJob
    <2>3. job' # NoJob /\ JobOK(job')
      BY <2>2, JobOfKind DEF JobOK
    <2>4. /\ Closes(S) /\ DOMAIN trk' = {"open", "cut", "live", "pass"} /\ trk'.cut \subseteq Speakers /\ trk'.live = trk.live
      BY <1>1, <1>2, <2>1, <2>2, <2>3, CloseInto
    <2>5. trk'.live \subseteq Messages
      BY <2>4 DEF TrackInv, Shape
    <2>6. Shape'
      BY <1>1, <1>2, <2>2, <2>3, <2>4, <2>5, ShapeKept
    <2> QED BY <1>2, <2>1, <2>2, <2>3, <2>4, <2>6
  <1> QED BY <1>3, <1>4

(***************************************************************************)
(* Where the records are after a step.                                     *)
(***************************************************************************)
LEMMA TrackedIs == Tracked = trk.open \cup JobTodo \cup catch.todo
  BY DEF Tracked, JobTodo

LEMMA TrackedNext == Tracked' = trk'.open \cup JobTodo' \cup catch'.todo
  BY DEF Tracked, JobTodo

LEMMA TrackedOnes ==
  ASSUME TrackInv, NEW r \in Tracked PROVE Rec(r) /\ r.id <= count.ids /\ Len(r.turns) <= MaxTurns
  BY TrackedIs DEF TrackInv, Placed

LEMMA TrackedDiffer ==
  ASSUME TrackInv, NEW r \in Tracked, NEW q \in Tracked, r.id = q.id PROVE r = q
  BY TrackedIs DEF TrackInv, Placed

LEMMA RestsTracks ==
  ASSUME TrackInv, Shape', Rests PROVE TrackInv' /\ Tracked' = Tracked
  <1>1. Tracked' = Tracked
    BY TrackedIs, TrackedNext DEF Rests
  <1> QED BY <1>1 DEF TrackInv, Rests

LEMMA ClosesTracks ==
  ASSUME NEW S, TrackInv, Shape', Closes(S) PROVE TrackInv' /\ Tracked' = Tracked
  <1>1. Tracked' = Tracked
    BY TrackedIs, TrackedNext DEF Closes
  <1> DEFINE O == trk.open  C == catch.todo  n == count.ids
  <1>2. Placed(O, {}, C, n) /\ S \subseteq O /\ n \in Nat /\ n <= n
    BY DEF TrackInv, Closes, Shape, CountOK
  <1>3. TakesOver(S, S, n, n)
    BY <1>2, Themselves
  <1>4. Placed(O \ S, {} \cup S, C, n)
    BY <1>2, <1>3, Replacing
  <1>5. OpenOK(O \ S)
    BY FewerOpen DEF TrackInv
  <1>6. Placed(trk'.open, JobTodo', catch'.todo, count'.ids) /\ OpenOK(trk'.open)
    BY <1>4, <1>5 DEF Closes
  <1> QED BY <1>1, <1>6 DEF TrackInv

(* Two states of a record that differ at most in its age and its mark.     *)
Alike(q, r) ==
  /\ q.id = r.id /\ q.speaker = r.speaker /\ q.replayed = r.replayed /\ q.owned = r.owned
  /\ q.wire = r.wire /\ q.prev = r.prev /\ q.turns = r.turns

(* Every record is kept, but for its age and its mark.                     *)
AllAlike ==
  /\ \A r \in Tracked' : \E q \in Tracked : Alike(q, r)
  /\ \A q \in Tracked : \E r \in Tracked' : Alike(q, r)

LEMMA StaleCloses ==
  ASSUME TrackInv, CloseStale
  PROVE  /\ TrackInv' /\ AllAlike /\ SameRoom
         /\ trk'.open \subseteq trk.open /\ UNCHANGED <<catch, rows, tasks, ghost, count, up, sent>>
         /\ MessageJob(job) /\ job.pc = "stale" /\ job' # NoJob /\ job'.pc = "turn" /\ job'.kind = job.kind /\ job'.m = job.m
         /\ job'.dup = (job.kind = "replay" /\ job.m \in trk.live)
         /\ \A r \in trk'.open : ~CatchupBoundary(r, job.m, job.kind = "replay") /\ ~WireRotationCloses(r, History[job.m].wire)
  <1> DEFINE replayed == job.kind = "replay"
             boundary == {r \in trk.open : CatchupBoundary(r, job.m, replayed)}
             rotated == {r \in trk.open \ boundary : WireRotationCloses(r, History[job.m].wire)}
             whole == {r \in rotated : SegmentComplete(r, replayed)}
             part == boundary \cup (rotated \ whole)
             W == {[r EXCEPT !.whole = TRUE] : r \in whole}
             S == part \cup whole
             X == part \cup W
  <1>1. /\ up /\ UNCHANGED <<up, sent, catch, ghost, count, inbox, rows, tasks>> /\ JobTodo = {} /\ MessageJob(job) /\ job.pc = "stale"
    BY DEF CloseStale, JobAt, JobTodo, TrackInv, Shape, JobOK, NoticeJobOK, PlainJob
  <1>2. /\ trk' = Observed(CloseRecords(CloseWhole(trk, whole), part), job.m, replayed)
        /\ job' = [job EXCEPT !.pc = "turn", !.dup = replayed /\ job.m \in trk.live, !.todo = X]
    BY DEF CloseStale
  <1>3. part \subseteq trk.open /\ whole \subseteq trk.open /\ part \cap whole = {} /\ boundary \subseteq S /\ rotated \subseteq S
    OBVIOUS
  <1>4. \A r \in trk.open \ S : ~CatchupBoundary(r, job.m, replayed) /\ ~WireRotationCloses(r, History[job.m].wire)
    BY <1>3
  <1> HIDE DEF boundary, rotated, whole, part
  <1>5. /\ DOMAIN trk' = {"open", "cut", "live", "pass"} /\ trk'.open = trk.open \ S
        /\ trk'.cut = trk.cut \cup {r.speaker : r \in {q \in part : q.replayed}}
        /\ trk'.live \in {trk.live, trk.live \cup {job.m}}
    <2> DEFINE t == CloseRecords(CloseWhole(trk, whole), part)
    <2>1. /\ DOMAIN t = {"open", "cut", "live", "pass"} /\ t.open = trk.open \ S /\ t.live = trk.live
          /\ t.cut = trk.cut \cup {r.speaker : r \in {q \in part : q.replayed}}
      BY DEF CloseRecords, CloseWhole, TrackInv, Shape
    <2> HIDE DEF t
    <2>2. trk' = Observed(t, job.m, replayed)
      BY <1>2 DEF t
    <2> QED BY <2>1, <2>2 DEF Observed
  <1>6. trk'.cut \subseteq Speakers /\ trk'.live \subseteq Messages
    <2>1. \A r \in part : r.speaker \in Speakers
      BY <1>3 DEF TrackInv, Placed, Rec
    <2> QED BY <1>1, <1>5, <2>1 DEF TrackInv, Shape, MessageJob
  <1>7. /\ MessageJob(job') /\ job'.kind = job.kind /\ job'.m = job.m /\ job'.pc = "turn" /\ job'.todo = X
        /\ job'.dup = (replayed /\ job.m \in trk.live)
    <2> HIDE DEF X
    <2> QED BY <1>1, <1>2 DEF MessageJob
  <1>8. job' # NoJob /\ JobOK(job') /\ job # NoJob
    BY <1>1, <1>7, JobOfKind DEF JobOK, MessageJob
  <1>9. SameRoom /\ CountOK(count')
    BY <1>1 DEF SameRoom, TrackInv, Shape
  <1>10. Shape'
    BY <1>1, <1>5, <1>6, <1>7, <1>8, <1>9, ShapeKept
  <1>11. \A r \in trk.open : Rec(r) /\ r.id <= count.ids
    BY DEF TrackInv, Placed
  <1>12. \A x \in X : \E q \in S : Alike(q, x) /\ Rec(x)
    <2>1. \A x \in part : x \in S /\ Alike(x, x) /\ Rec(x)
      BY <1>3, <1>11 DEF Alike
    <2>2. \A x \in W : \E q \in S : Alike(q, x) /\ Rec(x)
      <3> SUFFICES ASSUME NEW q \in whole PROVE Alike(q, [q EXCEPT !.whole = TRUE]) /\ Rec([q EXCEPT !.whole = TRUE])
        OBVIOUS
      <3> QED BY <1>3, <1>11 DEF Alike, Rec, RecordFields
    <2> QED BY <2>1, <2>2
  <1>13. \A q \in S : \E x \in X : Alike(q, x)
    <2>1. \A q \in part : q \in X /\ Alike(q, q)
      BY DEF Alike
    <2>2. \A q \in whole : \E x \in X : Alike(q, x)
      <3> SUFFICES ASSUME NEW q \in whole PROVE Alike(q, [q EXCEPT !.whole = TRUE])
        OBVIOUS
      <3> QED BY <1>3, <1>11 DEF Alike, Rec, RecordFields
    <2> QED BY <2>1, <2>2
  <1>14. TakesOver(S, X, count.ids, count.ids)
    <2>1. \A x \in X : Rec(x) /\ x.id <= count.ids /\ \E q \in S : q.id = x.id
      BY <1>3, <1>11, <1>12 DEF Alike
    <2>2. \A r, q \in trk.open : r.id = q.id => r = q
      BY DEF TrackInv, Placed
    <2>3. \A r \in whole : [r EXCEPT !.whole = TRUE].id = r.id
      BY <1>3, <1>11 DEF Rec, RecordFields
    <2>4. \A x, y \in X : x.id = y.id => x = y
      <3> SUFFICES ASSUME NEW x \in X, NEW y \in X, x.id = y.id PROVE x = y
        OBVIOUS
      <3>1. PICK p \in S : p.id = x.id /\ (p \in part => x = p) /\ (p \in whole => x = [p EXCEPT !.whole = TRUE])
        BY <1>3, <2>3
      <3>2. PICK q \in S : q.id = y.id /\ (q \in part => y = q) /\ (q \in whole => y = [q EXCEPT !.whole = TRUE])
        BY <1>3, <2>3
      <3>3. p = q
        BY <1>3, <2>2, <3>1, <3>2
      <3> QED BY <3>1, <3>2, <3>3
    <2> HIDE DEF X, S
    <2> QED BY <2>1, <2>4 DEF TakesOver
  <1> HIDE DEF X, S
  <1>15. Placed(trk'.open, JobTodo', catch'.todo, count'.ids)
    <2>1. Placed(trk.open, {}, catch.todo, count.ids) /\ count.ids \in Nat /\ count.ids <= count.ids /\ S \subseteq trk.open
      BY <1>1, <1>3 DEF TrackInv, Shape, CountOK, S
    <2>2. Placed(trk.open \ S, {} \cup X, catch.todo, count.ids)
      BY <2>1, <1>14, Replacing
    <2>3. JobTodo' = X
      BY <1>7, <1>8 DEF JobTodo
    <2> QED BY <1>1, <1>5, <2>2, <2>3
  <1>16. OpenOK(trk'.open)
    BY <1>5, FewerOpen DEF TrackInv
  <1>17. Tracked' = (trk.open \ S) \cup X \cup catch.todo /\ Tracked = trk.open \cup catch.todo
    BY <1>1, <1>5, <1>7, <1>8, TrackedIs, TrackedNext DEF JobTodo
  <1>18. AllAlike
    <2>1. \A r : Alike(r, r)
      BY DEF Alike
    <2>2. S \subseteq trk.open
      BY <1>3 DEF S
    <2> QED BY <2>1, <2>2, <1>12, <1>13, <1>17 DEF AllAlike
  <1>19. \A r \in Tracked' : Len(r.turns) <= MaxTurns
    BY <1>18, TrackedOnes DEF AllAlike, Alike
  <1>20. TrackInv'
    BY <1>10, <1>15, <1>16, <1>19 DEF TrackInv
  <1> QED BY <1>1, <1>4, <1>5, <1>7, <1>8, <1>9, <1>18, <1>20

(* A room's closing notice, as the last turn of a record or only as its wire id. *)
Noticed(q, x) ==
  /\ Rec(x) /\ x.id = q.id /\ x.speaker = q.speaker /\ x.replayed = q.replayed /\ x.prev = q.prev
  /\ x.wire = q.wire \/ q.wire = NoWire
  /\ \/ x.turns = q.turns
     \/ \E b \in BOOLEAN : x.turns = Append(q.turns, [m |-> 0, own |-> b])

LEMMA NoticeTurnIs ==
  ASSUME NEW r, Rec(r), NEW red PROVE Noticed(r, NoticeTurn(r, red))
  <1> DEFINE s == IF r.wire = NoWire THEN [r EXCEPT !.wire = job.w] ELSE r
             t == Turn(0, r.speaker = job.from)
             x == WithTurn(s, t)
  <1>1. /\ Rec(s) /\ s.id = r.id /\ s.speaker = r.speaker /\ s.replayed = r.replayed /\ s.prev = r.prev
        /\ (s.wire = r.wire \/ r.wire = NoWire) /\ s.turns = r.turns
    BY DEF Rec, RecordFields
  <1>2. t = [m |-> 0, own |-> r.speaker = job.from] /\ t \in TurnSet /\ (r.speaker = job.from) \in BOOLEAN
    BY DEF Turn, TurnSet
  <1> HIDE DEF s, t
  <1>3. Append(s.turns, t) \in Seq(TurnSet) /\ Append(s.turns, t) # <<>>
    BY <1>1, <1>2, TurnAdded DEF Rec
  <1>4. /\ Rec(x) /\ x.id = s.id /\ x.speaker = s.speaker /\ x.replayed = s.replayed /\ x.prev = s.prev
        /\ x.wire = s.wire /\ x.turns = Append(s.turns, t)
    BY <1>1, <1>3 DEF WithTurn, Rec, RecordFields
  <1> HIDE DEF x
  <1>5. Noticed(r, x)
    BY <1>1, <1>2, <1>4 DEF Noticed
  <1>6. Noticed(r, s)
    BY <1>1 DEF Noticed
  <1>7. NoticeTurn(r, red) = x \/ NoticeTurn(r, red) = s
    BY DEF NoticeTurn, x, s, t
  <1> QED BY <1>5, <1>6, <1>7

LEMMA NoticeIsLonger ==
  ASSUME NEW q, Rec(q), NEW x, Noticed(q, x), Len(q.turns) < MaxTurns PROVE Len(x.turns) <= MaxTurns
  <1>1. q.turns \in Seq(TurnSet) /\ MaxTurns \in Nat /\ Len(q.turns) \in Nat
    BY CloseAssumption DEF Rec
  <1>2. CASE x.turns = q.turns
    BY <1>1, <1>2
  <1>3. ASSUME NEW b \in BOOLEAN, x.turns = Append(q.turns, [m |-> 0, own |-> b]) PROVE Len(x.turns) <= MaxTurns
    <2>1. [m |-> 0, own |-> b] \in TurnSet
      BY DEF TurnSet
    <2>2. Len(x.turns) = Len(q.turns) + 1
      BY <1>1, <1>3, <2>1, TurnAdded
    <2> QED BY <1>1, <2>2
  <1> QED BY <1>2, <1>3 DEF Noticed

LEMMA NoticeCloses ==
  ASSUME NEW red, TrackInv, NoticeClose(red)
  PROVE  /\ TrackInv' /\ SameRoom /\ trk'.open \subseteq trk.open
         /\ UNCHANGED <<catch, rows, tasks, ghost, count, up, sent>>
         /\ job' # NoJob /\ job'.kind = "notice" /\ job'.pc = "done"
         /\ trk'.cut = trk.cut
         /\ \A r \in Tracked' : \/ r \in Tracked
                                \/ \E q \in trk.open : ~q.replayed /\ Noticed(q, r)
         /\ \A q \in Tracked : \/ q \in Tracked'
                               \/ ~q.replayed /\ q \in trk.open /\ \E r \in Tracked' : Noticed(q, r)
  <1> DEFINE S == NoticeRecords  X == {NoticeTurn(r, red) : r \in S}
  <1>1. /\ up /\ UNCHANGED <<up, sent, catch, ghost, count, inbox, rows, tasks>> /\ JobTodo = {} /\ NoticeJobOK(job)
        /\ trk' = CloseRecords(trk, S) /\ job' = [job EXCEPT !.pc = "done", !.todo = X]
    BY DEF NoticeClose, JobAt, JobTodo, TrackInv, Shape, JobOK, MessageJob, PlainJob
  <1>2. S \subseteq trk.open /\ \A r \in S : ~r.replayed
    BY DEF NoticeRecords, Admitted
  <1> HIDE DEF S
  <1>3. /\ DOMAIN trk' = {"open", "cut", "live", "pass"} /\ trk'.open = trk.open \ S /\ trk'.cut = trk.cut
        /\ trk'.live = trk.live
    BY <1>1, <1>2 DEF CloseRecords, TrackInv, Shape
  <1>4. NoticeJobOK(job') /\ job'.kind = "notice" /\ job'.pc = "done" /\ job'.todo = X
    <2> HIDE DEF X
    <2> QED BY <1>1 DEF NoticeJobOK
  <1>5. job' # NoJob /\ JobOK(job')
    BY <1>4, JobOfKind DEF JobOK
  <1>6. SameRoom /\ CountOK(count') /\ trk'.cut \subseteq Speakers /\ trk'.live \subseteq Messages
    BY <1>1, <1>3 DEF SameRoom, TrackInv, Shape
  <1>7. Shape'
    BY <1>1, <1>3, <1>4, <1>5, <1>6, ShapeKept
  <1>8. \A r \in trk.open : Rec(r) /\ r.id <= count.ids /\ Len(r.turns) < MaxTurns
    BY DEF TrackInv, Placed, OpenOK
  <1>9. \A q \in S : Noticed(q, NoticeTurn(q, red)) /\ NoticeTurn(q, red) \in X
    BY <1>2, <1>8, NoticeTurnIs
  <1>10. \A x \in X : \E q \in S : x = NoticeTurn(q, red)
    OBVIOUS
  <1> HIDE DEF X
  <1>11. TakesOver(S, X, count.ids, count.ids)
    <2>1. \A x \in X : Rec(x) /\ x.id <= count.ids /\ \E q \in S : q.id = x.id
      BY <1>2, <1>8, <1>9, <1>10 DEF Noticed
    <2>2. \A r, q \in trk.open : r.id = q.id => r = q
      BY DEF TrackInv, Placed
    <2>3. \A x, y \in X : x.id = y.id => x = y
      BY <1>2, <1>9, <1>10, <2>2 DEF Noticed
    <2> QED BY <2>1, <2>3 DEF TakesOver
  <1>12. Placed(trk'.open, JobTodo', catch'.todo, count'.ids)
    <2>1. Placed(trk.open, {}, catch.todo, count.ids) /\ count.ids \in Nat /\ count.ids <= count.ids /\ S \subseteq trk.open
      BY <1>1, <1>2 DEF TrackInv, Shape, CountOK
    <2>2. Placed(trk.open \ S, {} \cup X, catch.todo, count.ids)
      BY <2>1, <1>11, Replacing
    <2>3. JobTodo' = X
      BY <1>4, <1>5 DEF JobTodo
    <2> QED BY <1>1, <1>3, <2>2, <2>3
  <1>13. OpenOK(trk'.open)
    BY <1>3, FewerOpen DEF TrackInv
  <1>14. Tracked' = (trk.open \ S) \cup X \cup catch.todo /\ Tracked = trk.open \cup catch.todo
    BY <1>1, <1>3, <1>4, <1>5, TrackedIs, TrackedNext DEF JobTodo
  <1>15. \A r \in Tracked' : \/ r \in Tracked
                             \/ \E q \in trk.open : ~q.replayed /\ Noticed(q, r)
    BY <1>2, <1>9, <1>10, <1>14
  <1>16. \A q \in Tracked : \/ q \in Tracked'
                            \/ ~q.replayed /\ q \in trk.open /\ \E r \in Tracked' : Noticed(q, r)
    BY <1>2, <1>9, <1>14
  <1>17. \A r \in Tracked' : Len(r.turns) <= MaxTurns
    BY <1>8, <1>15, TrackedOnes, NoticeIsLonger
  <1>18. TrackInv'
    BY <1>7, <1>12, <1>13, <1>17 DEF TrackInv
  <1> QED BY <1>1, <1>3, <1>4, <1>5, <1>6, <1>15, <1>16, <1>18

LEMMA SweepCloses ==
  ASSUME TrackInv, SweepClose
  PROVE  /\ TrackInv' /\ AllAlike /\ SameRoom /\ trk'.open \subseteq trk.open
         /\ UNCHANGED <<job, rows, tasks, ghost, count, up, sent>>
         /\ catch'.pc = "sweep" /\ catch.pc = "sweep" /\ catch'.win = catch.win
  <1> DEFINE id == CHOOSE i \in catch.snap : \A k \in catch.snap : i <= k
             found == {r \in trk.open : r.id = id}
             whole == {r \in found : catch.done /\ r.speaker \notin trk.cut /\ r.speaker \notin catch.gaps}
             X == {[r EXCEPT !.whole = r \in whole] : r \in found}
  <1>1. /\ up /\ UNCHANGED <<up, sent, job, ghost, count, inbox, rows, tasks>> /\ catch.pc = "sweep" /\ catch.todo = {}
        /\ trk' = CloseRecords(CloseWhole(trk, whole), found \ whole)
        /\ catch' = [catch EXCEPT !.snap = @ \ {id}, !.todo = X]
    BY DEF SweepClose, Sweeping
  <1>2. found \subseteq trk.open /\ whole \subseteq found
    OBVIOUS
  <1> HIDE DEF id, found, whole
  <1>3. /\ DOMAIN trk' = {"open", "cut", "live", "pass"} /\ trk'.open = trk.open \ found
        /\ trk'.cut = trk.cut \cup {r.speaker : r \in {q \in found \ whole : q.replayed}}
        /\ trk'.live = trk.live
    BY <1>1, <1>2 DEF CloseRecords, CloseWhole, TrackInv, Shape
  <1>4. \A r \in trk.open : Rec(r) /\ r.id <= count.ids /\ Len(r.turns) < MaxTurns
    BY DEF TrackInv, Placed, OpenOK
  <1>5. trk'.cut \subseteq Speakers
    BY <1>2, <1>3, <1>4 DEF TrackInv, Shape, Rec
  <1>6. \A q \in found : Alike(q, [q EXCEPT !.whole = q \in whole]) /\ Rec([q EXCEPT !.whole = q \in whole])
    BY <1>2, <1>4 DEF Alike, Rec, RecordFields
  <1>7. \A q \in found : \E x \in X : x = [q EXCEPT !.whole = q \in whole]
    OBVIOUS
  <1>8. \A x \in X : \E q \in found : x = [q EXCEPT !.whole = q \in whole]
    OBVIOUS
  <1> HIDE DEF X
  <1>9. /\ CatchOK(catch') /\ catch'.pc = catch.pc /\ catch'.win = catch.win /\ catch'.at = catch.at /\ catch'.todo = X
    BY <1>1 DEF CatchOK, TrackInv, Shape
  <1>10. SameRoom /\ History' = History /\ Messages' = Messages
    BY <1>1, RoomStays DEF SameRoom
  <1>11. Shape'
    BY <1>1, <1>3, <1>5, <1>9, <1>10 DEF TrackInv, Shape, CatchOK, CountOK, JobOK, MessageJob
  <1>12. TakesOver(found, X, count.ids, count.ids)
    <2> DEFINE f(q) == [q EXCEPT !.whole = q \in whole]
    <2>1. \A q \in found : f(q).id = q.id /\ Rec(f(q)) /\ q.id <= count.ids
      BY <1>2, <1>4, <1>6 DEF Alike
    <2>2. \A r, q \in found : r.id = q.id => r = q
      BY <1>2 DEF TrackInv, Placed
    <2>3. \A x \in X : \E q \in found : x = f(q)
      BY <1>8
    <2> HIDE DEF f
    <2>4. \A x \in X : Rec(x) /\ x.id <= count.ids /\ \E q \in found : q.id = x.id
      BY <2>1, <2>3
    <2>5. \A x, y \in X : x.id = y.id => x = y
      BY <2>1, <2>2, <2>3
    <2> QED BY <2>4, <2>5 DEF TakesOver
  <1>13. Placed(trk'.open, JobTodo', catch'.todo, count'.ids)
    <2>1. Placed(trk.open, JobTodo, {}, count.ids) /\ count.ids \in Nat /\ count.ids <= count.ids
      BY <1>1 DEF TrackInv, Shape, CountOK
    <2>2. Placed(trk.open \ found, JobTodo, {} \cup X, count.ids)
      BY <2>1, <1>2, <1>12, Replacing
    <2>3. JobTodo' = JobTodo
      BY <1>1 DEF JobTodo
    <2> QED BY <1>1, <1>3, <1>9, <2>2, <2>3
  <1>14. OpenOK(trk'.open)
    BY <1>3, FewerOpen DEF TrackInv
  <1>15. Tracked' = (trk.open \ found) \cup JobTodo \cup X /\ Tracked = trk.open \cup JobTodo
    BY <1>1, <1>3, <1>9, TrackedIs, TrackedNext DEF JobTodo
  <1>16. AllAlike
    <2>1. \A r : Alike(r, r)
      BY DEF Alike
    <2> QED BY <2>1, <1>2, <1>6, <1>7, <1>8, <1>15 DEF AllAlike
  <1>17. \A r \in Tracked' : Len(r.turns) <= MaxTurns
    BY <1>16, TrackedOnes DEF AllAlike, Alike
  <1>18. TrackInv'
    BY <1>11, <1>13, <1>14, <1>17 DEF TrackInv
  <1> QED BY <1>1, <1>3, <1>9, <1>10, <1>16, <1>18

LEMMA ClockAges ==
  ASSUME TrackInv, ClockStep
  PROVE  /\ TrackInv' /\ AllAlike /\ SameRoom
         /\ \A r \in trk'.open : \E q \in trk.open : Alike(q, r)
         /\ UNCHANGED <<job, catch, tasks, ghost, count, up, sent>>
  <1> DEFINE f(q) == [q EXCEPT !.age = Capped(@, IdleAge)]
             X == {f(q) : q \in trk.open}
  <1>1. /\ UNCHANGED <<up, sent, job, ghost, count, inbox, tasks, catch>>
        /\ trk' = [trk EXCEPT !.open = X]
    BY DEF ClockStep
  <1>2. \A q \in trk.open : Rec(q) /\ q.id <= count.ids /\ Len(q.turns) < MaxTurns
    BY DEF TrackInv, Placed, OpenOK
  <1>3. \A q \in trk.open : Rec(f(q)) /\ Alike(q, f(q))
    BY <1>2, Aged DEF Alike, Rec, RecordFields
  <1>4. \A q \in trk.open : f(q) \in X
    OBVIOUS
  <1>5. \A x \in X : \E q \in trk.open : x = f(q)
    OBVIOUS
  <1>6. IsFiniteSet(X)
    <2>1. IsFiniteSet(trk.open)
      BY DEF TrackInv, OpenOK
    <2> DEFINE g == [q \in trk.open |-> f(q)]
    <2>2. g \in Surjection(trk.open, X)
      BY <1>4, <1>5 DEF Surjection
    <2> QED BY <2>1, <2>2, FS_Surjection
  <1> HIDE DEF f, X
  <1>7. DOMAIN trk' = DOMAIN trk /\ trk'.open = X /\ trk'.cut = trk.cut /\ trk'.live = trk.live
    BY <1>1 DEF TrackInv, Shape
  <1>8. SameRoom /\ History' = History /\ Messages' = Messages
    BY <1>1, RoomStays DEF SameRoom
  <1>9. trk.open = {} => X = {}
    BY <1>5
  <1>10. Shape'
    BY <1>1, <1>7, <1>8, <1>9 DEF TrackInv, Shape, CatchOK, CountOK, JobOK, MessageJob
  <1>11. TakesOver(trk.open, X, count.ids, count.ids)
    <2>1. \A q \in trk.open : f(q).id = q.id /\ Rec(f(q))
      BY <1>3 DEF Alike
    <2>2. \A r, q \in trk.open : r.id = q.id => r = q
      BY DEF TrackInv, Placed
    <2>3. \A x \in X : Rec(x) /\ x.id <= count.ids /\ \E q \in trk.open : q.id = x.id
      BY <1>2, <1>5, <2>1
    <2>4. \A x, y \in X : x.id = y.id => x = y
      BY <1>5, <2>1, <2>2
    <2> QED BY <2>3, <2>4 DEF TakesOver
  <1>12. Placed(trk'.open, JobTodo', catch'.todo, count'.ids)
    <2>1. /\ Placed(trk.open, JobTodo, catch.todo, count.ids) /\ count.ids \in Nat /\ count.ids <= count.ids
          /\ trk.open \subseteq trk.open
      BY DEF TrackInv, Shape, CountOK
    <2>2. Placed((trk.open \ trk.open) \cup X, JobTodo, catch.todo, count.ids)
      BY <2>1, <1>11, Replacing
    <2>3. (trk.open \ trk.open) \cup X = X /\ JobTodo' = JobTodo
      BY <1>1 DEF JobTodo
    <2> QED BY <1>1, <1>7, <2>2, <2>3
  <1>13. OpenOK(trk'.open)
    <2>1. \A r, q \in trk.open : r.speaker = q.speaker => r = q
      BY DEF TrackInv, OpenOK
    <2>2. \A q \in trk.open : f(q).speaker = q.speaker /\ f(q).turns = q.turns
      BY <1>3 DEF Alike
    <2> QED BY <1>2, <1>5, <1>6, <1>7, <2>1, <2>2 DEF OpenOK
  <1>14. Tracked' = X \cup JobTodo \cup catch.todo /\ Tracked = trk.open \cup JobTodo \cup catch.todo
    BY <1>1, <1>7, TrackedIs, TrackedNext DEF JobTodo
  <1>15. AllAlike
    <2>1. \A r : Alike(r, r)
      BY DEF Alike
    <2> QED BY <2>1, <1>3, <1>4, <1>5, <1>14 DEF AllAlike
  <1>16. \A r \in Tracked' : Len(r.turns) <= MaxTurns
    BY <1>15, TrackedOnes DEF AllAlike, Alike
  <1>17. TrackInv'
    BY <1>10, <1>12, <1>13, <1>16 DEF TrackInv
  <1> QED BY <1>1, <1>3, <1>5, <1>7, <1>8, <1>15, <1>17

(* What a step may forget: records it was to write.                        *)
Sheds(J, C) ==
  /\ trk'.open = trk.open /\ JobTodo' = J /\ catch'.todo = C /\ J \subseteq JobTodo /\ C \subseteq catch.todo
  /\ count'.ids = count.ids

LEMMA ShedsTracks ==
  ASSUME NEW J, NEW C, TrackInv, Shape', Sheds(J, C)
  PROVE  TrackInv' /\ Tracked' = trk.open \cup J \cup C /\ Tracked' \subseteq Tracked
  <1>1. Tracked' = trk.open \cup J \cup C /\ Tracked' \subseteq Tracked
    BY TrackedIs, TrackedNext DEF Sheds
  <1>2. Placed(trk.open, J, C, count.ids)
    <2>1. Placed(trk.open, JobTodo, catch.todo, count.ids) /\ trk.open \subseteq trk.open
      BY DEF TrackInv
    <2> QED BY <2>1, Fewer DEF Sheds
  <1> QED BY <1>1, <1>2 DEF TrackInv, Sheds

LEMMA PersistCounts ==
  ASSUME NEW r, TrackInv, PersistClosed(r)
  PROVE  CountOK(count') /\ SameRoom /\ count'.ids = count.ids /\ (ghost' = ghost \/ ghost' = [ghost EXCEPT !.lost = @ \cup LiveMessages({r})])
  <1>1. CountOK(count) /\ (count' = count \/ count' = [count EXCEPT !.failures = @ - 1])
    BY DEF PersistClosed, TrackInv, Shape
  <1>2. CountOK(count') /\ SameRoom /\ count'.ids = count.ids
    BY <1>1 DEF CountOK, SameRoom
  <1> QED BY <1>2 DEF PersistClosed, Store, Drop

LEMMA JobPersistSheds ==
  ASSUME TrackInv, JobPersist
  PROVE  /\ Shape' /\ SameRoom /\ Sheds(JobTodo \ {First(job.todo)}, catch.todo)
         /\ job # NoJob /\ First(job.todo) \in job.todo /\ First(job.todo) \in Tracked /\ PersistClosed(First(job.todo))
         /\ UNCHANGED <<trk, catch, up, sent>> /\ job' # NoJob /\ job'.kind = job.kind /\ job'.pc = job.pc
         /\ (job.kind \in {"event", "replay"} /\ job.pc = "turn" => job'.m = job.m /\ job'.dup = job.dup)
         /\ (job.kind = "replay" => job'.m = job.m)
  <1> DEFINE r == First(job.todo)
  <1>1. up /\ job # NoJob /\ job.todo # {} /\ JobTodo = job.todo
    BY DEF JobPersist, JobTodo
  <1>2. r \in job.todo
    <2>1. \A q \in job.todo : q.id \in Nat
      BY <1>1 DEF TrackInv, Placed, Rec
    <2> QED BY <1>1, <2>1, FirstIsOne
  <1>3. /\ PersistClosed(r) /\ UNCHANGED <<up, sent, inbox, trk, catch>>
        /\ job' = [job EXCEPT !.todo = job.todo \ {r}]
    BY DEF JobPersist
  <1> HIDE DEF r
  <1>4. /\ CountOK(count') /\ SameRoom /\ count'.ids = count.ids /\ DOMAIN ghost' = {"recorded", "lost"}
    BY <1>3, PersistCounts DEF TrackInv, Shape
  <1>5. JobOK(job)
    BY DEF TrackInv, Shape
  <1>6. /\ JobOK(job') /\ job'.kind = job.kind /\ job'.pc = job.pc /\ job'.todo = job.todo \ {r} /\ job' # NoJob
        /\ MessageJob(job) => job'.m = job.m /\ job'.dup = job.dup
    <2>1. CASE MessageJob(job)
      BY <1>3, <2>1, JobOfKind DEF JobOK, MessageJob
    <2>2. CASE NoticeJobOK(job)
      BY <1>3, <2>2, JobOfKind DEF JobOK, NoticeJobOK, MessageJob
    <2>3. CASE PlainJob(job)
      BY <1>3, <2>3, JobOfKind DEF JobOK, PlainJob, MessageJob
    <2> QED BY <1>1, <1>5, <2>1, <2>2, <2>3 DEF JobOK
  <1>7. History' = History /\ Messages' = Messages
    BY <1>4, RoomStays
  <1>8. Shape'
    BY <1>1, <1>3, <1>4, <1>5, <1>6, <1>7 DEF TrackInv, Shape, CatchOK, JobOK, MessageJob, NoticeJobOK, PlainJob
  <1>9. Sheds(JobTodo \ {r}, catch.todo)
    BY <1>1, <1>3, <1>4, <1>6 DEF Sheds, JobTodo
  <1>10. ((job.kind \in {"event", "replay"} /\ job.pc = "turn") \/ job.kind = "replay") => MessageJob(job)
    BY <1>1, <1>5 DEF JobOK, MessageJob, NoticeJobOK, PlainJob
  <1>11. r \in Tracked
    BY <1>1, <1>2, TrackedIs
  <1> QED BY <1>1, <1>2, <1>3, <1>4, <1>6, <1>8, <1>9, <1>10, <1>11 DEF r

LEMMA SweepPersistSheds ==
  ASSUME TrackInv, SweepPersist
  PROVE  /\ Shape' /\ SameRoom /\ Sheds(JobTodo, catch.todo \ {First(catch.todo)})
         /\ First(catch.todo) \in catch.todo /\ First(catch.todo) \in Tracked /\ PersistClosed(First(catch.todo))
         /\ UNCHANGED <<trk, job, up, sent>> /\ catch'.pc = catch.pc /\ catch'.win = catch.win /\ catch'.at = catch.at
  <1> DEFINE r == First(catch.todo)
  <1>1. up /\ catch.todo # {}
    BY DEF SweepPersist
  <1>2. r \in catch.todo
    <2>1. \A q \in catch.todo : q.id \in Nat
      BY DEF TrackInv, Placed, Rec
    <2> QED BY <1>1, <2>1, FirstIsOne
  <1>3. /\ PersistClosed(r) /\ UNCHANGED <<up, sent, inbox, trk, job>>
        /\ catch' = [catch EXCEPT !.todo = catch.todo \ {r}]
    BY DEF SweepPersist
  <1> HIDE DEF r
  <1>4. /\ CountOK(count') /\ SameRoom /\ count'.ids = count.ids /\ DOMAIN ghost' = {"recorded", "lost"}
    BY <1>3, PersistCounts DEF TrackInv, Shape
  <1>5. CatchOK(catch)
    BY DEF TrackInv, Shape
  <1>6. CatchOK(catch') /\ catch'.todo = catch.todo \ {r} /\ catch'.pc = catch.pc /\ catch'.win = catch.win /\ catch'.at = catch.at
    BY <1>3, <1>5 DEF CatchOK
  <1>7. History' = History /\ Messages' = Messages
    BY <1>4, RoomStays
  <1>8. Shape'
    BY <1>1, <1>3, <1>4, <1>5, <1>6, <1>7 DEF TrackInv, Shape, CatchOK, JobOK, MessageJob, NoticeJobOK, PlainJob
  <1>9. Sheds(JobTodo, catch.todo \ {r})
    BY <1>1, <1>3, <1>4, <1>6 DEF Sheds, JobTodo
  <1>11. r \in Tracked
    BY <1>1, <1>2, TrackedIs
  <1> QED BY <1>2, <1>3, <1>4, <1>6, <1>8, <1>9, <1>11 DEF r

LEMMA TimeoutSheds ==
  ASSUME TrackInv, EventTimeout
  PROVE  Shape' /\ SameRoom /\ Sheds({}, catch.todo) /\ ghost' = [ghost EXCEPT !.lost = @ \cup LiveMessages(JobTodo)] /\ job' = NoJob
         /\ UNCHANGED <<trk, catch, up, sent, rows, tasks, count>>
  <1>1. /\ UNCHANGED <<trk, catch, up, sent, rows, tasks, count, inbox>> /\ job' = NoJob /\ up /\ JobTodo = job.todo
        /\ ghost' = [ghost EXCEPT !.lost = @ \cup LiveMessages(job.todo)]
    BY DEF EventTimeout, Drop, JobTodo
  <1>2. SameRoom /\ History' = History /\ Messages' = Messages
    BY <1>1, RoomStays DEF SameRoom
  <1>3. Shape'
    BY <1>1, <1>2 DEF TrackInv, Shape, CatchOK, CountOK, JobOK
  <1> QED BY <1>1, <1>2, <1>3 DEF Sheds, JobTodo

LEMMA CutShortSheds ==
  ASSUME TrackInv, ReplayCutShort
  PROVE  /\ Shape' /\ SameRoom /\ UNCHANGED <<trk, up, sent, rows, tasks, count>> /\ catch'.pc = "sweep" /\ catch.pc = "replay"
         /\ \/ Sheds({}, catch.todo) /\ job # NoJob /\ job.kind = "replay" /\ job' = NoJob
               /\ ghost' = [ghost EXCEPT !.lost = @ \cup LiveMessages(JobTodo)]
            \/ Sheds(JobTodo, catch.todo) /\ UNCHANGED <<job, ghost>> /\ (job = NoJob \/ job.kind # "replay")
  <1>1. /\ UNCHANGED <<trk, up, sent, rows, tasks, count, inbox>> /\ up /\ catch' = SweepFrom(catch) /\ catch.pc = "replay"
        /\ \/ job # NoJob /\ job.kind = "replay" /\ job' = NoJob /\ ghost' = [ghost EXCEPT !.lost = @ \cup LiveMessages(JobTodo)]
           \/ UNCHANGED <<job, ghost>> /\ (job = NoJob \/ job.kind # "replay")
    BY DEF ReplayCutShort, Drop, JobTodo, Replaying
  <1>2. SameRoom /\ History' = History /\ Messages' = Messages
    BY <1>1, RoomStays DEF SameRoom
  <1>3. CatchOK(catch') /\ catch'.todo = catch.todo /\ catch'.pc = "sweep"
    BY <1>1, SnapOfOpen DEF TrackInv, Shape, CatchOK, SweepFrom
  <1>4. Shape'
    BY <1>1, <1>2, <1>3 DEF TrackInv, Shape, CatchOK, CountOK, JobOK, MessageJob
  <1> QED BY <1>1, <1>2, <1>3, <1>4 DEF Sheds, JobTodo

(***************************************************************************)
(* A message joins the record of its speaker (add_turn).                   *)
(***************************************************************************)
(* The record x is b with one more turn, and with wire w if it had none.   *)
Base(b) ==
  /\ DOMAIN b = RecordFields
  /\ b.id \in Nat \ {0} /\ b.speaker \in Speakers /\ b.age \in Nat
  /\ b.replayed \in BOOLEAN /\ b.whole \in BOOLEAN /\ b.turns \in Seq(TurnSet)

(* Record b takes the turn t of an event of wire w, and is now x.          *)
Grows(b, x, t, w) ==
  /\ x.id = b.id /\ x.speaker = b.speaker /\ x.replayed = b.replayed /\ x.owned = b.owned /\ x.whole = b.whole
  /\ x.turns = Append(b.turns, t)
  /\ \/ x.wire = b.wire /\ x.prev = b.prev
     \/ b.wire = NoWire /\ w # NoWire /\ x.wire = w /\ x.prev = PrevWire[w]

LEMMA GrownRecord ==
  ASSUME NEW b, Base(b), NEW t \in TurnSet, NEW w
  PROVE  /\ Rec(WithTurn(b, t)) /\ Grows(b, WithTurn(b, t), t, w) /\ WithTurn(b, t).wire = b.wire
         /\ Rec(Stamped(WithTurn(b, t), w)) /\ Grows(b, Stamped(WithTurn(b, t), w), t, w)
         /\ (Stamped(WithTurn(b, t), w).wire = NoWire => w = NoWire /\ b.wire = NoWire)
  <1> DEFINE r == WithTurn(b, t)  y == Stamped(r, w)
  <1>1. Append(b.turns, t) \in Seq(TurnSet) /\ Append(b.turns, t) # <<>>
    BY TurnAdded DEF Base
  <1>2. /\ DOMAIN r = RecordFields /\ r.id = b.id /\ r.speaker = b.speaker /\ r.replayed = b.replayed /\ r.owned = b.owned
        /\ r.whole = b.whole /\ r.turns = Append(b.turns, t) /\ r.wire = b.wire /\ r.prev = b.prev /\ r.age = 0
    BY DEF WithTurn, Base, RecordFields
  <1> HIDE DEF r
  <1>3. Rec(r) /\ Grows(b, r, t, w)
    BY <1>1, <1>2 DEF Rec, Base, Grows
  <1>4. /\ DOMAIN y = RecordFields /\ y.id = b.id /\ y.speaker = b.speaker /\ y.replayed = b.replayed /\ y.owned = b.owned
        /\ y.whole = b.whole /\ y.turns = Append(b.turns, t) /\ y.age = 0
        /\ \/ y.wire = b.wire /\ y.prev = b.prev
           \/ b.wire = NoWire /\ w # NoWire /\ y.wire = w /\ y.prev = PrevWire[w]
        /\ (y.wire = NoWire => w = NoWire /\ b.wire = NoWire)
    <2>1. CASE r.wire = NoWire /\ w # NoWire
      <3>1. y = [r EXCEPT !.wire = w, !.prev = PrevWire[w]]
        BY <2>1 DEF Stamped
      <3> QED BY <1>2, <2>1, <3>1 DEF RecordFields
    <2>2. CASE ~(r.wire = NoWire /\ w # NoWire)
      <3>1. y = r
        BY <2>2 DEF Stamped
      <3> QED BY <1>2, <2>2, <3>1
    <2> QED BY <2>1, <2>2
  <1> HIDE DEF y
  <1>5. Rec(y) /\ Grows(b, y, t, w)
    BY <1>1, <1>4 DEF Rec, Base, Grows
  <1> QED BY <1>2, <1>3, <1>4, <1>5 DEF r, y

(* A message joins its speaker's record or opens one.                      *)
Joined(b, x) ==
  /\ Base(b) /\ Rec(x) /\ b.speaker = History[job.m].speaker /\ Len(x.turns) <= MaxTurns
  /\ Grows(b, x, [m |-> job.m, own |-> ~job.dup], History[job.m].wire)
  /\ \/ b \in trk.open /\ count'.ids = count.ids
     \/ /\ b = NewRecord(count.ids + 1, History[job.m].speaker, job.kind = "replay", Owned(job.m))
        /\ (\A r \in trk.open : r.speaker # History[job.m].speaker) /\ count'.ids = count.ids + 1
  /\ \/ /\ trk'.open = (trk.open \ {b}) \cup {x} /\ JobTodo' = {} /\ trk'.cut = trk.cut
        /\ (x.wire = NoWire => b.wire = NoWire /\ History[job.m].wire = NoWire) /\ Len(x.turns) < MaxTurns
     \/ /\ trk'.open = trk.open \ {b} /\ JobTodo' = {x} /\ x.wire = b.wire
        /\ trk'.cut = (IF x.replayed THEN trk.cut \cup {x.speaker} ELSE trk.cut)

LEMMA TurnJoinsOne ==
  ASSUME TrackInv, AddTurn
  PROVE  /\ SameRoom /\ UNCHANGED <<catch, rows, tasks, up, sent, inbox>>
         /\ MessageJob(job) /\ MessageJob(job') /\ job.pc = "turn" /\ job' # NoJob /\ job'.pc = "end" /\ job'.kind = job.kind /\ job'.m = job.m
         /\ JobTodo = {} /\ up /\ CountOK(count')
         /\ DOMAIN trk' = DOMAIN trk /\ trk'.live = trk.live
         /\ ghost' = (IF job.kind = "replay" THEN ghost ELSE [ghost EXCEPT !.recorded = @ \cup {job.m}])
         /\ \E b, x : Joined(b, x)
  <1> DEFINE m == job.m
             ev == History[m]
             replayed == job.kind = "replay"
             mine == RecordOf(trk, ev.speaker)
             base == IF mine # {} THEN First(mine)
                     ELSE NewRecord(count.ids + 1, ev.speaker, replayed, Owned(m))
             t == Turn(m, ~job.dup)
             r == WithTurn(base, t)
             full == Len(r.turns) >= MaxTurns
             x == IF full THEN r ELSE Stamped(r, ev.wire)
             opened == [trk EXCEPT !.open = (@ \ mine) \cup {x}]
  <1>1. /\ up /\ UNCHANGED <<up, sent, inbox, catch, rows, tasks>> /\ JobTodo = {} /\ MessageJob(job) /\ job.pc = "turn"
        /\ count' = [count EXCEPT !.ids = IF mine = {} THEN @ + 1 ELSE @]
        /\ trk' = (IF full THEN CloseRecords(opened, {r}) ELSE opened)
        /\ job' = [job EXCEPT !.pc = "end", !.rec = IF full THEN 0 ELSE base.id, !.todo = IF full THEN {r} ELSE {}]
        /\ ghost' = (IF replayed THEN ghost ELSE [ghost EXCEPT !.recorded = @ \cup {m}])
    BY SMTT(30) DEF AddTurn, JobAt, JobTodo, TrackInv, Shape, JobOK, NoticeJobOK, PlainJob
  <1>2. m \in Messages /\ job.dup \in BOOLEAN /\ ev.speaker \in Speakers /\ m \in Nat
    BY <1>1, RoomEntry DEF MessageJob, TrackInv, Shape
  <1>3. t = [m |-> job.m, own |-> ~job.dup] /\ t \in TurnSet
    BY <1>2 DEF Turn, TurnSet
  <1>4. \A q \in trk.open : Rec(q) /\ q.id <= count.ids /\ Len(q.turns) < MaxTurns
    BY DEF TrackInv, Placed, OpenOK
  <1>5. \A q, p \in trk.open : q.speaker = p.speaker => q = p
    BY DEF TrackInv, OpenOK
  <1>6. count.ids \in Nat
    BY DEF TrackInv, Shape, CountOK
  <1>7. CASE mine # {}
    <2>1. PICK b \in trk.open : b.speaker = ev.speaker /\ mine = {b}
      BY <1>5, <1>7 DEF RecordOf
    <2>2. base = b
      <3>1. \A q \in mine : q.id \in Nat
        BY <1>4, <2>1 DEF Rec
      <3>2. First(mine) \in mine
        BY <1>7, <3>1, FirstIsOne
      <3> QED BY <1>7, <2>1, <3>2
    <2>3. Base(b) /\ Len(b.turns) < MaxTurns
      BY <1>4, <2>1 DEF Base, Rec
    <2>4. /\ r = WithTurn(b, t) /\ mine = {b}
      BY <2>1, <2>2
    <2>5. count'.ids = count.ids /\ CountOK(count') /\ SameRoom
      BY <1>1, <1>7 DEF CountOK, SameRoom, TrackInv, Shape
    <2> QED
      <3> HIDE DEF mine, base, ev, m, t, replayed
      <3>1. /\ Rec(r) /\ Grows(b, r, t, ev.wire) /\ r.wire = b.wire
            /\ Rec(Stamped(r, ev.wire)) /\ Grows(b, Stamped(r, ev.wire), t, ev.wire)
            /\ (Stamped(r, ev.wire).wire = NoWire => ev.wire = NoWire /\ b.wire = NoWire)
        BY <1>3, <2>3, <2>4, GrownRecord
      <3> HIDE DEF r
      <3>2. Rec(x) /\ Grows(b, x, t, ev.wire)
        BY <3>1
      <3>3. /\ Len(b.turns) \in Nat /\ MaxTurns \in Nat /\ Len(x.turns) = Len(b.turns) + 1 /\ Len(r.turns) = Len(x.turns)
        BY <3>1, <3>2, <1>3, <2>3, TurnAdded, CloseAssumption DEF Grows, Base
      <3>4. Len(x.turns) <= MaxTurns /\ (~full => Len(x.turns) < MaxTurns)
        BY <2>3, <3>3
      <3>5. x.speaker = ev.speaker /\ r.speaker = ev.speaker /\ x.replayed = r.replayed
        BY <2>1, <3>1, <3>2 DEF Grows
      <3>6. r \notin trk.open \ {b}
        BY <1>5, <2>1, <3>5
      <3>7. /\ DOMAIN trk' = DOMAIN trk /\ trk'.live = trk.live
            /\ (full => trk'.open = trk.open \ {b} /\ trk'.cut = (IF x.replayed THEN trk.cut \cup {x.speaker} ELSE trk.cut))
            /\ (~full => trk'.open = (trk.open \ {b}) \cup {x} /\ trk'.cut = trk.cut)
        <4>1. CASE full
          <5>1. x = r
            BY <4>1
          <5> HIDE DEF full, x
          <5>2. /\ DOMAIN opened = DOMAIN trk /\ opened.open = (trk.open \ {b}) \cup {r} /\ opened.cut = trk.cut /\ opened.live = trk.live
                /\ DOMAIN trk = {"open", "cut", "live", "pass"}
            BY <5>1, <2>4 DEF TrackInv, Shape
          <5>3. trk' = CloseRecords(opened, {r})
            BY <1>1, <4>1
          <5> HIDE DEF opened
          <5> DEFINE cutting == {q.speaker : q \in {p \in {r} : p.replayed}}
          <5>4. cutting = IF r.replayed THEN {r.speaker} ELSE {}
            OBVIOUS
          <5>5. /\ DOMAIN trk' = DOMAIN trk /\ trk'.live = trk.live /\ trk'.open = opened.open \ {r}
                /\ trk'.cut = trk.cut \cup cutting
            BY <5>2, <5>3 DEF CloseRecords
          <5>6. trk'.open = trk.open \ {b}
            BY <5>2, <5>5, <3>6
          <5> HIDE DEF cutting
          <5> QED BY <4>1, <5>1, <5>4, <5>5, <5>6
        <4>2. CASE ~full
          <5> HIDE DEF full, x
          <5> QED BY <1>1, <4>2, <2>4 DEF TrackInv, Shape
        <4> QED BY <4>1, <4>2
      <3>8. /\ MessageJob(job') /\ job'.pc = "end" /\ job'.kind = job.kind /\ job'.m = job.m /\ job'.todo = IF full THEN {r} ELSE {}
        <4> HIDE DEF full
        <4> QED BY <1>1 DEF MessageJob
      <3>9. job' # NoJob
        BY <3>8, JobOfKind DEF MessageJob
      <3>10. JobTodo' = IF full THEN {x} ELSE {}
        BY <3>8, <3>9 DEF JobTodo
      <3>11. full => x.wire = b.wire
        BY <3>1
      <3>12. ~full => (x.wire = NoWire => b.wire = NoWire /\ ev.wire = NoWire)
        BY <3>1
      <3> HIDE DEF x, full
      <3>13. Joined(b, x)
        <4>1. /\ Base(b) /\ Rec(x) /\ b.speaker = ev.speaker /\ Len(x.turns) <= MaxTurns /\ Grows(b, x, t, ev.wire)
              /\ b \in trk.open /\ count'.ids = count.ids
          BY <2>1, <2>3, <2>5, <3>2, <3>4
        <4>2. CASE full
          BY <4>1, <4>2, <1>3, <3>7, <3>10, <3>11 DEF Joined, ev, m
        <4>3. CASE ~full
          BY <4>1, <4>3, <1>3, <3>4, <3>7, <3>10, <3>12 DEF Joined, ev, m
        <4> QED BY <4>2, <4>3
      <3> QED BY <1>1, <2>5, <3>7, <3>8, <3>9, <3>13 DEF m, replayed
  <1>8. CASE mine = {}
    <2> DEFINE b == NewRecord(count.ids + 1, ev.speaker, replayed, Owned(m))
    <2>1. base = b /\ \A q \in trk.open : q.speaker # ev.speaker
      BY <1>8 DEF RecordOf
    <2>2. /\ DOMAIN b = RecordFields /\ b.id = count.ids + 1 /\ b.speaker = ev.speaker /\ b.age = 0 /\ b.replayed = replayed
          /\ b.whole = FALSE /\ b.turns = <<>>
      BY DEF NewRecord, RecordFields
    <2>3. Base(b) /\ Len(b.turns) = 0 /\ b \notin trk.open
      <3>1. b.replayed \in BOOLEAN /\ b.whole \in BOOLEAN
        BY DEF NewRecord
      <3>3. count.ids + 1 \in Nat \ {0}
        BY <1>6
      <3>2. b.turns \in Seq(TurnSet) /\ Len(b.turns) = 0
        <4>1. <<>> \in Seq(TurnSet) /\ Len(<<>>) = 0
          OBVIOUS
        <4> HIDE DEF b
        <4> QED BY <2>2, <4>1
      <3> HIDE DEF b, replayed
      <3> QED BY <1>2, <2>1, <2>2, <3>1, <3>2, <3>3 DEF Base
    <2>4. r = WithTurn(b, t)
      BY <2>1
    <2>5. count'.ids = count.ids + 1 /\ CountOK(count') /\ SameRoom
      BY <1>1, <1>8 DEF CountOK, SameRoom, TrackInv, Shape
    <2> HIDE DEF b
    <2> QED
      <3>0. mine = {}
        BY <1>8
      <3> HIDE DEF mine, base, ev, m, t, replayed
      <3>1. /\ Rec(r) /\ Grows(b, r, t, ev.wire) /\ r.wire = b.wire
            /\ Rec(Stamped(r, ev.wire)) /\ Grows(b, Stamped(r, ev.wire), t, ev.wire)
            /\ (Stamped(r, ev.wire).wire = NoWire => ev.wire = NoWire /\ b.wire = NoWire)
        BY <1>3, <2>3, <2>4, GrownRecord
      <3> HIDE DEF r
      <3>2. Rec(x) /\ Grows(b, x, t, ev.wire)
        BY <3>1
      <3>3. /\ MaxTurns \in Nat /\ MaxTurns # 0 /\ Len(x.turns) = 1 /\ Len(r.turns) = 1
        <4>1. x.turns = Append(b.turns, t) /\ r.turns = Append(b.turns, t) /\ b.turns \in Seq(TurnSet)
          BY <3>1, <3>2, <2>3 DEF Grows, Base
        <4>2. Len(Append(b.turns, t)) = Len(b.turns) + 1
          BY <4>1, <1>3, TurnAdded
        <4> HIDE DEF x, b
        <4> QED BY <4>1, <4>2, <2>3, CloseAssumption
      <3>4. Len(x.turns) <= MaxTurns /\ (~full => Len(x.turns) < MaxTurns)
        <4> HIDE DEF x
        <4> QED BY <3>3
      <3>5. x.speaker = ev.speaker /\ r.speaker = ev.speaker /\ x.replayed = r.replayed
        BY <2>1, <2>2, <3>1, <3>2 DEF Grows
      <3>6. r \notin trk.open /\ trk.open \ {b} = trk.open
        BY <2>1, <2>3, <3>5
      <3>7. /\ DOMAIN trk' = DOMAIN trk /\ trk'.live = trk.live
            /\ (full => trk'.open = trk.open \ {b} /\ trk'.cut = (IF x.replayed THEN trk.cut \cup {x.speaker} ELSE trk.cut))
            /\ (~full => trk'.open = (trk.open \ {b}) \cup {x} /\ trk'.cut = trk.cut)
        <4>1. CASE full
          <5>1. x = r
            BY <4>1
          <5> HIDE DEF full, x
          <5>2. /\ DOMAIN opened = DOMAIN trk /\ opened.open = trk.open \cup {r} /\ opened.cut = trk.cut /\ opened.live = trk.live
                /\ DOMAIN trk = {"open", "cut", "live", "pass"}
            BY <5>1, <3>0 DEF TrackInv, Shape
          <5>3. trk' = CloseRecords(opened, {r})
            BY <1>1, <4>1
          <5> HIDE DEF opened
          <5> DEFINE cutting == {q.speaker : q \in {p \in {r} : p.replayed}}
          <5>4. cutting = IF r.replayed THEN {r.speaker} ELSE {}
            OBVIOUS
          <5>5. /\ DOMAIN trk' = DOMAIN trk /\ trk'.live = trk.live /\ trk'.open = opened.open \ {r}
                /\ trk'.cut = trk.cut \cup cutting
            BY <5>2, <5>3 DEF CloseRecords
          <5>6. trk'.open = trk.open \ {b}
            BY <5>2, <5>5, <3>6
          <5> HIDE DEF cutting
          <5> QED BY <4>1, <5>1, <5>4, <5>5, <5>6
        <4>2. CASE ~full
          <5> HIDE DEF full, x
          <5> QED BY <1>1, <4>2, <3>0, <3>6 DEF TrackInv, Shape
        <4> QED BY <4>1, <4>2
      <3>8. /\ MessageJob(job') /\ job'.pc = "end" /\ job'.kind = job.kind /\ job'.m = job.m /\ job'.todo = IF full THEN {r} ELSE {}
        <4> HIDE DEF full
        <4> QED BY <1>1 DEF MessageJob
      <3>9. job' # NoJob
        BY <3>8, JobOfKind DEF MessageJob
      <3>10. JobTodo' = IF full THEN {x} ELSE {}
        BY <3>8, <3>9 DEF JobTodo
      <3>11. full => x.wire = b.wire
        BY <3>1
      <3>12. ~full => (x.wire = NoWire => b.wire = NoWire /\ ev.wire = NoWire)
        BY <3>1
      <3> HIDE DEF x, full
      <3>13. Joined(b, x)
        <4>1. /\ Base(b) /\ Rec(x) /\ b.speaker = ev.speaker /\ Len(x.turns) <= MaxTurns /\ Grows(b, x, t, ev.wire)
              /\ b = NewRecord(count.ids + 1, ev.speaker, replayed, Owned(m)) /\ count'.ids = count.ids + 1
              /\ \A q \in trk.open : q.speaker # ev.speaker
          BY <2>1, <2>2, <2>3, <2>5, <3>2, <3>4 DEF b
        <4>2. CASE full
          BY <4>1, <4>2, <1>3, <3>7, <3>10, <3>11 DEF Joined, ev, m, replayed
        <4>3. CASE ~full
          BY <4>1, <4>3, <1>3, <3>4, <3>7, <3>10, <3>12 DEF Joined, ev, m, replayed
        <4> QED BY <4>2, <4>3
      <3> QED BY <1>1, <2>5, <3>7, <3>8, <3>9, <3>13 DEF m, replayed
  <1> QED BY <1>7, <1>8, SMTT(30)

LEMMA TurnTracks ==
  ASSUME TrackInv, AddTurn, NEW b, NEW x, Joined(b, x)
  PROVE  TrackInv' /\ Tracked' = (Tracked \ {b}) \cup {x} /\ Tracked = trk.open \cup catch.todo
  <1> DEFINE S == {b} \cap trk.open  X == {x}  n == count.ids  n2 == count'.ids
  <1>1. /\ SameRoom /\ UNCHANGED <<catch, rows, tasks, up, sent, inbox>> /\ JobTodo = {} /\ up /\ CountOK(count')
        /\ MessageJob(job) /\ MessageJob(job') /\ job'.kind = job.kind /\ job'.m = job.m /\ job' # NoJob
        /\ DOMAIN trk' = DOMAIN trk /\ trk'.live = trk.live
        /\ ghost' = (IF job.kind = "replay" THEN ghost ELSE [ghost EXCEPT !.recorded = @ \cup {job.m}])
    BY TurnJoinsOne
  <1>2. n \in Nat /\ n2 \in Nat /\ n <= n2 /\ n2 \in {n, n + 1}
    BY <1>1 DEF TrackInv, Shape, CountOK, Joined
  <1>3. b \notin trk.open => b.id = n + 1 /\ n2 = n + 1 /\ b \notin catch.todo
    <2> SUFFICES ASSUME b \notin trk.open PROVE b.id = n + 1 /\ n2 = n + 1 /\ b \notin catch.todo
      OBVIOUS
    <2>1. b = NewRecord(count.ids + 1, History[job.m].speaker, job.kind = "replay", Owned(job.m)) /\ n2 = n + 1
      BY DEF Joined
    <2>2. b.id = n + 1
      BY <2>1 DEF NewRecord
    <2>3. b \in catch.todo => b.id <= n
      BY DEF TrackInv, Placed
    <2> QED BY <2>1, <2>2, <2>3, <1>2
  <1>4. b \in trk.open => b \notin catch.todo
    BY DEF TrackInv, Placed
  <1>5. Rec(x) /\ x.id = b.id /\ x.speaker = b.speaker
    BY DEF Joined, Grows
  <1>6. TakesOver(S, X, n, n2)
    <2>1. x.id <= n2 /\ (x.id > n \/ \E q \in S : q.id = x.id)
      <3>1. CASE b \in trk.open
        <4>1. b.id <= n
          BY <3>1 DEF TrackInv, Placed
        <4> QED BY <1>2, <1>5, <3>1, <4>1 DEF Joined, Base
      <3>2. CASE b \notin trk.open
        BY <1>2, <1>3, <1>5, <3>2
      <3> QED BY <3>1, <3>2
    <2> QED BY <1>5, <2>1 DEF TakesOver
  <1>7. Placed(trk.open, {}, catch.todo, n) /\ S \subseteq trk.open
    BY <1>1 DEF TrackInv
  <1>8. Placed((trk.open \ S) \cup X, {}, catch.todo, n2) /\ Placed(trk.open \ S, {} \cup X, catch.todo, n2)
    <2> HIDE DEF S, X, n, n2
    <2> QED BY <1>2, <1>6, <1>7, Replacing
  <1>9. trk.open \ S = trk.open \ {b} /\ {} \cup X = {x}
    OBVIOUS
  <1>10. \/ trk'.open = (trk.open \ {b}) \cup {x} /\ JobTodo' = {} /\ Len(x.turns) < MaxTurns /\ trk'.cut = trk.cut
         \/ /\ trk'.open = trk.open \ {b} /\ JobTodo' = {x}
            /\ trk'.cut = (IF x.replayed THEN trk.cut \cup {x.speaker} ELSE trk.cut)
    BY DEF Joined
  <1>11. Placed(trk'.open, JobTodo', catch'.todo, count'.ids)
    BY <1>1, <1>8, <1>9, <1>10
  <1>12. OpenOK(trk.open \ {b})
    BY FewerOpen DEF TrackInv
  <1>13. \A q \in trk.open \ {b} : q.speaker # x.speaker
    <2>1. \A q, p \in trk.open : q.speaker = p.speaker => q = p
      BY DEF TrackInv, OpenOK
    <2> QED BY <1>5, <2>1 DEF Joined
  <1>14. OpenOK(trk'.open)
    <2>1. CASE trk'.open = trk.open \ {b}
      BY <1>12, <2>1
    <2>2. CASE trk'.open = (trk.open \ {b}) \cup {x} /\ Len(x.turns) < MaxTurns
      <3>1. IsFiniteSet(trk'.open)
        BY <2>2, <1>12, FS_AddElement DEF OpenOK
      <3> QED BY <3>1, <2>2, <1>12, <1>13 DEF OpenOK
    <2> QED BY <1>10, <2>1, <2>2
  <1>15. Tracked = trk.open \cup catch.todo /\ Tracked' = trk'.open \cup JobTodo' \cup catch'.todo
    BY <1>1, TrackedIs, TrackedNext
  <1>16. Tracked' = (Tracked \ {b}) \cup {x}
    BY <1>1, <1>3, <1>4, <1>10, <1>15
  <1>17. \A r \in Tracked' : Len(r.turns) <= MaxTurns
    BY <1>16 DEF TrackInv, Joined
  <1>18. Shape'
    <2>1. x.speaker \in Speakers
      BY <1>5 DEF Rec
    <2>2. trk'.cut \subseteq Speakers /\ trk'.live \subseteq Messages /\ DOMAIN trk' = {"open", "cut", "live", "pass"}
      BY <1>1, <1>10, <2>1 DEF TrackInv, Shape
    <2>3. DOMAIN ghost' = {"recorded", "lost"}
      BY <1>1 DEF TrackInv, Shape
    <2>4. Messages' = Messages /\ History' = History
      BY <1>1, RoomStays
    <2>5. job # NoJob
      BY <1>1, JobOfKind DEF MessageJob
    <2>6. JobOK(job') /\ JobOK(job)'
      BY <1>1, <2>4 DEF JobOK, MessageJob
    <2>7. CatchOK(catch)' /\ CountOK(count)'
      BY <1>1 DEF TrackInv, Shape, CatchOK, CountOK
    <2> QED BY <1>1, <2>2, <2>3, <2>4, <2>5, <2>6, <2>7 DEF TrackInv, Shape
  <1> QED BY <1>11, <1>14, <1>15, <1>16, <1>17, <1>18 DEF TrackInv

LEMMA HaltTracks ==
  ASSUME TrackInv, Halt, DOMAIN ghost' = {"recorded", "lost"}
  PROVE  TrackInv' /\ Tracked' = {} /\ SameRoom /\ job' = NoJob /\ catch'.pc = "off" /\ tasks' = {}
  <1>1. /\ up' = FALSE /\ inbox' = {} /\ UNCHANGED <<sent, count>> /\ tasks' = {} /\ job' = NoJob
        /\ DOMAIN trk' = {"open", "cut", "live", "pass"} /\ trk'.open = {} /\ trk'.cut = {} /\ trk'.live = {}
    BY DEF Halt, FreshTracker
  <1>2. CatchOK(catch') /\ catch'.todo = {} /\ catch'.pc = "off"
    BY DEF Halt, TrackInv, Shape, CatchOK
  <1>3. SameRoom /\ Messages' = Messages /\ History' = History
    BY <1>1, RoomStays DEF SameRoom
  <1>4. JobTodo' = {} /\ Tracked' = {}
    BY <1>1, <1>2, TrackedNext DEF JobTodo
  <1>5. Shape'
    BY <1>1, <1>2, <1>3 DEF TrackInv, Shape, CatchOK, CountOK, JobOK
  <1>6. IsFiniteSet({})
    BY FS_EmptySet
  <1> QED BY <1>1, <1>2, <1>3, <1>4, <1>5, <1>6 DEF TrackInv, Placed, OpenOK

LEMMA CrashTracks ==
  ASSUME TrackInv, Crash
  PROVE  /\ TrackInv' /\ Tracked' = {} /\ SameRoom /\ job' = NoJob /\ catch'.pc = "off" /\ tasks' = {} /\ UNCHANGED rows
         /\ ghost' = [ghost EXCEPT !.lost = @ \cup LiveMessages(Tracked)]
  <1>1. Halt /\ UNCHANGED rows /\ ghost' = [ghost EXCEPT !.lost = @ \cup LiveMessages(Tracked)]
    BY DEF Crash, Drop, Tracked
  <1>2. DOMAIN ghost' = {"recorded", "lost"}
    BY <1>1 DEF TrackInv, Shape
  <1> QED BY <1>1, <1>2, HaltTracks

LEMMA DrainedTracks ==
  ASSUME TrackInv, Drained
  PROVE  /\ TrackInv' /\ Tracked' = {} /\ SameRoom /\ job' = NoJob /\ catch'.pc = "off" /\ tasks' = {} /\ UNCHANGED <<rows, ghost>>
  <1>1. Halt /\ UNCHANGED <<rows, ghost>>
    BY DEF Drained
  <1>2. DOMAIN ghost' = {"recorded", "lost"}
    BY <1>1 DEF TrackInv, Shape
  <1> QED BY <1>1, <1>2, HaltTracks

LEMMA InitTracks == Init => TrackInv /\ Tracked = {}
  <1> SUFFICES ASSUME Init PROVE TrackInv /\ Tracked = {}
    OBVIOUS
  <1>1. PICK b \in Budgets : sent = b.sent /\ count = [f \in {"ids"} \cup DOMAIN b |-> IF f = "ids" THEN 0 ELSE b[f]]
    BY DEF Init
  <1>2. /\ b \in [room : Seq([speaker : Speakers, wire : Wires \cup {NoWire}]),
                  sent : Nat, unowned : Nat, starts : Nat, votes : Nat,
                  notices : Nat, failures : Nat, long : BOOLEAN, ticks : BOOLEAN]
        /\ b.sent <= Len(b.room)
    BY CloseAssumption
  <1>3. /\ DOMAIN b = {"room", "sent", "unowned", "starts", "votes", "notices", "failures", "long", "ticks"}
        /\ b.room \in Seq([speaker : Speakers, wire : Wires \cup {NoWire}]) /\ b.sent \in Nat
    BY <1>2
  <1>4. /\ DOMAIN count = {"ids", "room", "sent", "unowned", "starts", "votes", "notices", "failures", "long", "ticks"}
        /\ count.ids = 0 /\ count.room = b.room
    BY <1>1, <1>3
  <1>5. CountOK(count) /\ sent \in 0..Len(History)
    BY <1>1, <1>2, <1>3, <1>4 DEF CountOK, History
  <1>6. /\ up = FALSE /\ inbox = {} /\ job = NoJob /\ tasks = {}
        /\ DOMAIN trk = {"open", "cut", "live", "pass"} /\ trk.open = {} /\ trk.cut = {} /\ trk.live = {}
        /\ CatchOK(catch) /\ catch.todo = {} /\ catch.pc = "off" /\ DOMAIN ghost = {"recorded", "lost"}
    BY <1>5 DEF Init, FreshTracker, CatchOK
  <1>7. JobTodo = {} /\ Tracked = {}
    BY <1>6, TrackedIs DEF JobTodo
  <1>8. Shape
    BY <1>5, <1>6 DEF Shape, JobOK
  <1>9. IsFiniteSet({})
    BY FS_EmptySet
  <1> QED BY <1>6, <1>7, <1>8, <1>9 DEF TrackInv, Placed, OpenOK

(***************************************************************************)
(* The store: rows and summary tasks.                                      *)
(***************************************************************************)
(* Every tracked record is one tracked before, by its id, its kind and its first message. *)
SameTag(q, r) == q.id = r.id /\ q.replayed = r.replayed /\ q.turns[1].m = r.turns[1].m

(* Every tracked record was tracked before.                                *)
Descends == \A r \in Tracked' : \E q \in Tracked : SameTag(q, r)

SameIds(K, L) == \A k \in K : \E l \in L : l.iid = k.iid

LEMMA FewerDescend == ASSUME Tracked' \subseteq Tracked PROVE Descends
  BY DEF Descends, SameTag

LEMMA AlikeDescend == ASSUME AllAlike PROVE Descends
  BY DEF AllAlike, Alike, Descends, SameTag

LEMMA Monotone ==
  ASSUME NEW n \in Nat, NEW p \in Nat, n <= p, NEW R, NEW K, RowsOK(R, n), TasksOK(K, n)
  PROVE  RowsOK(R, p) /\ TasksOK(K, p)
  <1>1. 0..n \subseteq 0..p
    OBVIOUS
  <1>2. \A row \in R : RowOK(row, p)
    BY <1>1 DEF RowsOK, RowOK, IdOK
  <1>3. \A k \in K : TaskOK(k, p)
    BY <1>1 DEF TasksOK, TaskOK, IdOK
  <1> QED BY <1>2, <1>3 DEF RowsOK, TasksOK

LEMMA StoreKept ==
  ASSUME TrackInv, TrackInv', StoreInv, Descends, RowsOK(rows', count'.ids), TasksOK(tasks', count'.ids),
         \A k \in tasks' : Serves(k, rows'), SameIds(rows', rows), SameIds(tasks', tasks)
  PROVE  StoreInv'
  <1>1. \A r \in Tracked' : Unstored(r, rows', tasks')
    <2> SUFFICES ASSUME NEW r \in Tracked' PROVE Unstored(r, rows', tasks')
      OBVIOUS
    <2>1. PICK q \in Tracked : SameTag(q, r)
      BY DEF Descends
    <2>2. Unstored(q, rows, tasks)
      BY DEF StoreInv
    <2>3. \A row \in rows' : row.iid.uid # r.id
      BY <2>1, <2>2 DEF Unstored, SameTag, SameIds
    <2>4. \A k \in tasks' : k.iid.uid # r.id /\ (k.iid.uid = 0 /\ r.replayed => k.iid.span[1] # r.turns[1].m)
      BY <2>1, <2>2 DEF Unstored, SameTag, SameIds
    <2> QED BY <2>3, <2>4 DEF Unstored
  <1>2. \A r, q \in Tracked' : r.replayed /\ q.replayed /\ r.turns[1].m = q.turns[1].m => r = q
    <2> SUFFICES ASSUME NEW r \in Tracked', NEW q \in Tracked', r.replayed, q.replayed, r.turns[1].m = q.turns[1].m PROVE r = q
      OBVIOUS
    <2>1. PICK a \in Tracked : SameTag(a, r)
      BY DEF Descends
    <2>2. PICK b \in Tracked : SameTag(b, q)
      BY DEF Descends
    <2>3. a = b
      BY <2>1, <2>2 DEF StoreInv, SameTag
    <2>4. r.id = q.id
      BY <2>1, <2>2, <2>3 DEF SameTag
    <2> QED BY <2>4, TrackedNext DEF TrackInv, Placed
  <1> QED BY <1>1, <1>2 DEF StoreInv

(* Most steps touch neither rows nor tasks.                                *)
LEMMA StoreRests ==
  ASSUME TrackInv, TrackInv', StoreInv, Descends, UNCHANGED <<rows, tasks>>, count'.ids = count.ids
  PROVE  StoreInv'
  <1>1. RowsOK(rows', count'.ids) /\ TasksOK(tasks', count'.ids) /\ \A k \in tasks' : Serves(k, rows')
    BY DEF StoreInv
  <1>2. SameIds(rows', rows) /\ SameIds(tasks', tasks)
    BY DEF SameIds
  <1> QED BY <1>1, <1>2, StoreKept

LEMMA StoreForgets ==
  ASSUME TrackInv, TrackInv', StoreInv, Tracked' = {}, rows' = rows, tasks' = {}, count'.ids = count.ids
  PROVE  StoreInv'
  BY DEF StoreInv, RowsOK, TasksOK

(* The rows a clock step or the janitor touches stay where they are.       *)
LEMMA StoreTouched ==
  ASSUME TrackInv, TrackInv', StoreInv, Descends, count'.ids = count.ids, tasks' = tasks,
         NEW f, DOMAIN f = rows, rows' = {f[row] : row \in rows},
         \A row \in rows : RowOK(f[row], count.ids) /\ f[row].iid = row.iid /\ f[row].facts = row.facts,
         \A row \in rows : Standing(f[row]) => Standing(row),
         \A row \in rows : f[row].summary = "ok" <=> row.summary = "ok"
  PROVE  StoreInv'
  <1>1. \A row \in rows' : \E q \in rows : row = f[q]
    OBVIOUS
  <1>2. \A iid : Summarised(iid, rows') <=> Summarised(iid, rows)
    BY <1>1 DEF Summarised
  <1>3. RowsOK(rows', count'.ids)
    <2>1. \A a, b \in rows' : a.iid = b.iid /\ Standing(a) /\ Standing(b) => a = b
      BY <1>1 DEF StoreInv, RowsOK
    <2>2. \A row \in rows' : row.facts = 1 => Summarised(row.iid, rows')
      BY <1>1, <1>2 DEF StoreInv, RowsOK
    <2>3. \A row \in rows' : RowOK(row, count'.ids)
      BY <1>1
    <2> QED BY <2>1, <2>2, <2>3 DEF RowsOK
  <1>4. SameIds(rows', rows) /\ SameIds(tasks', tasks)
    BY <1>1 DEF SameIds
  <1>5. \A k \in tasks' : Serves(k, rows')
    <2>1. \A k \in tasks : Serves(k, rows)
      BY DEF StoreInv
    <2> QED BY <1>1, <1>2, <2>1 DEF Serves
  <1>6. TasksOK(tasks', count'.ids)
    BY DEF StoreInv
  <1> QED BY <1>3, <1>4, <1>5, <1>6, StoreKept

LEMMA StoreAges ==
  ASSUME TrackInv, TrackInv', StoreInv, Descends, ClockStep
  PROVE  StoreInv'
  <1> DEFINE f == [row \in rows |-> [row EXCEPT !.age = Capped(@, GraceAge)]]
  <1>1. /\ rows' = {[row EXCEPT !.age = Capped(@, GraceAge)] : row \in rows} /\ tasks' = tasks /\ count' = count
    BY DEF ClockStep
  <1>2. \A row \in rows : RowOK(row, count.ids)
    BY DEF StoreInv, RowsOK
  <1>3. \A row \in rows : /\ RowOK([row EXCEPT !.age = Capped(@, GraceAge)], count.ids)
                          /\ [row EXCEPT !.age = Capped(@, GraceAge)].iid = row.iid
                          /\ [row EXCEPT !.age = Capped(@, GraceAge)].summary = row.summary
                          /\ [row EXCEPT !.age = Capped(@, GraceAge)].facts = row.facts
    BY <1>2, CloseAssumption DEF RowOK, Capped
  <1>4. DOMAIN f = rows /\ \A row \in rows : f[row] = [row EXCEPT !.age = Capped(@, GraceAge)]
    OBVIOUS
  <1>5. rows' = {f[row] : row \in rows}
    BY <1>1, <1>4
  <1> HIDE DEF f
  <1>6. \A row \in rows : RowOK(f[row], count.ids) /\ f[row].iid = row.iid /\ f[row].summary = row.summary /\ f[row].facts = row.facts
    BY <1>3, <1>4
  <1>7. /\ \A row \in rows : Standing(f[row]) => Standing(row)
        /\ \A row \in rows : f[row].summary = "ok" <=> row.summary = "ok"
    BY <1>6 DEF Standing
  <1> QED BY <1>1, <1>4, <1>5, <1>6, <1>7, StoreTouched

LEMMA StoreCleaned ==
  ASSUME TrackInv, TrackInv', StoreInv, Descends, CleanupClosing, UNCHANGED <<tasks, count>>
  PROVE  StoreInv'
  <1>1. CASE rows' = rows
    BY <1>1, StoreRests
  <1>2. CASE rows' = {IF Abandoned(row) THEN [row EXCEPT !.summary = "unavailable"] ELSE row : row \in rows}
    <2> DEFINE g(row) == IF Abandoned(row) THEN [row EXCEPT !.summary = "unavailable"] ELSE row
               f == [row \in rows |-> g(row)]
    <2>1. \A row \in rows : RowOK(row, count.ids)
      BY DEF StoreInv, RowsOK
    <2>2. \A row \in rows : /\ RowOK(g(row), count.ids) /\ g(row).iid = row.iid /\ g(row).facts = row.facts
                            /\ (row.summary = "ok" => g(row).summary = "ok")
                            /\ (row.summary # "ok" => g(row).summary # "ok")
                            /\ (Standing(g(row)) => Standing(row))
      <3> SUFFICES ASSUME NEW row \in rows
                   PROVE  /\ RowOK(g(row), count.ids) /\ g(row).iid = row.iid /\ g(row).facts = row.facts
                          /\ (row.summary = "ok" => g(row).summary = "ok")
                          /\ (row.summary # "ok" => g(row).summary # "ok")
                          /\ (Standing(g(row)) => Standing(row))
        OBVIOUS
      <3>1. CASE ~Abandoned(row)
        BY <3>1, <2>1
      <3>2. CASE Abandoned(row)
        <4>1. g(row) = [row EXCEPT !.summary = "unavailable"] /\ row.summary = "pending" /\ RowOK(row, count.ids)
          BY <3>2, <2>1 DEF Abandoned
        <4> HIDE DEF g
        <4> QED BY <4>1 DEF RowOK, Standing
      <3> QED BY <3>1, <3>2
    <2>3. rows' = {g(row) : row \in rows}
      BY <1>2
    <2> HIDE DEF g
    <2>4. DOMAIN f = rows /\ \A row \in rows : f[row] = g(row)
      OBVIOUS
    <2>5. rows' = {f[row] : row \in rows}
      BY <2>3, <2>4
    <2> HIDE DEF f
    <2>6. /\ \A row \in rows : RowOK(f[row], count.ids) /\ f[row].iid = row.iid /\ f[row].facts = row.facts
          /\ \A row \in rows : Standing(f[row]) => Standing(row)
          /\ \A row \in rows : f[row].summary = "ok" <=> row.summary = "ok"
      BY <2>2, <2>4
    <2> QED BY <2>4, <2>5, <2>6, StoreTouched
  <1> QED BY <1>1, <1>2 DEF CleanupClosing

LEMMA StoreEntered ==
  ASSUME TrackInv, TrackInv', StoreInv, Descends, NEW k \in tasks, TaskEnter(k)
  PROVE  StoreInv'
  <1> DEFINE l == [k EXCEPT !.pc = "llm"]
  <1>1. rows' = rows /\ count' = count /\ tasks' = (tasks \ {k}) \cup {l} /\ k.pc = "gate"
    BY DEF TaskEnter
  <1>2. TaskOK(k, count.ids) /\ TaskOK(l, count.ids) /\ l.iid = k.iid /\ l.pc = "llm"
    BY DEF StoreInv, TasksOK, TaskOK
  <1> HIDE DEF l
  <1>3. TasksOK(tasks', count'.ids) /\ SameIds(tasks', tasks)
    BY <1>1, <1>2 DEF StoreInv, TasksOK, SameIds
  <1>4. RowsOK(rows', count'.ids) /\ SameIds(rows', rows)
    BY <1>1 DEF StoreInv, SameIds
  <1>5. \A t \in tasks' : Serves(t, rows')
    <2>1. \A t \in tasks : Serves(t, rows)
      BY DEF StoreInv
    <2> QED BY <1>1, <1>2, <2>1 DEF Serves
  <1> QED BY <1>3, <1>4, <1>5, StoreKept

LEMMA StoreUpdated ==
  ASSUME TrackInv, TrackInv', StoreInv, Descends, NEW k \in tasks, NEW ok \in BOOLEAN, TaskUpdate(k, ok)
  PROVE  StoreInv'
  <1> DEFINE hit == {row \in rows : Updates(row, k)}
             g(row) == [row EXCEPT !.summary = SummaryOf(ok)]
             l == [k EXCEPT !.pc = "facts", !.ok = ok]
  <1>1. /\ count' = count /\ k.pc = "llm" /\ rows' = (rows \ hit) \cup {g(row) : row \in hit}
        /\ tasks' = (tasks \ {k}) \cup (IF hit = {} THEN {} ELSE {l})
    BY DEF TaskUpdate, AfterUpdate
  <1>2. \A row \in rows : RowOK(row, count.ids)
    BY DEF StoreInv, RowsOK
  <1>3. ~Summarised(k.iid, rows)
    BY <1>1 DEF StoreInv, Serves
  <1>4. \A row \in rows : row.iid = k.iid => row.facts = 0
    BY <1>2, <1>3 DEF StoreInv, RowsOK, RowOK
  <1>5. /\ \A row \in hit : row \in rows /\ row.iid = k.iid /\ row.summary = "pending" /\ row.facts = 0
        /\ \A row \in rows \ hit : row.iid = k.iid => row.summary = "unavailable"
    BY <1>2, <1>3, <1>4 DEF Updates, RowOK, Summarised
  <1> HIDE DEF hit
  <1>6. \A row \in hit : RowOK(g(row), count.ids) /\ g(row).iid = k.iid /\ g(row).summary = SummaryOf(ok) /\ g(row).facts = 0
    <2> SUFFICES ASSUME NEW row \in hit PROVE RowOK(g(row), count.ids) /\ g(row).iid = k.iid /\ g(row).summary = SummaryOf(ok) /\ g(row).facts = 0
      OBVIOUS
    <2>1. RowOK(row, count.ids) /\ row.iid = k.iid /\ row.facts = 0 /\ SummaryOf(ok) \in {"ok", "unavailable"}
      BY <1>2, <1>5 DEF SummaryOf
    <2> QED BY <2>1 DEF RowOK
  <1>7. TaskOK(k, count.ids) /\ TaskOK(l, count.ids) /\ l.iid = k.iid /\ l.pc = "facts" /\ l.ok = ok
    BY DEF StoreInv, TasksOK, TaskOK
  <1>8. \A row \in rows' : row \in rows \ hit \/ \E q \in hit : row = g(q)
    BY <1>1
  <1>9. rows \ hit \subseteq rows' /\ \A q \in hit : g(q) \in rows'
    BY <1>1
  <1> HIDE DEF g, l
  <1>10. \A a, b \in hit : a = b
    BY <1>5 DEF StoreInv, RowsOK, Standing
  <1>11. SameIds(rows', rows) /\ SameIds(tasks', tasks)
    BY <1>1, <1>5, <1>6, <1>7, <1>8 DEF SameIds
  <1>12. \A iid : iid # k.iid => (Summarised(iid, rows') <=> Summarised(iid, rows))
    BY <1>5, <1>6, <1>8, <1>9 DEF Summarised
  <1>13. \A row \in rows' : row.iid = k.iid => row.facts = 0
    BY <1>4, <1>6, <1>8
  <1>14. RowsOK(rows', count'.ids)
    <2>1. \A row \in rows' : RowOK(row, count'.ids)
      BY <1>1, <1>2, <1>6, <1>8
    <2>2. \A a, b \in rows' : a.iid = b.iid /\ Standing(a) /\ Standing(b) => a = b
      <3>1. \A a \in hit, b \in rows \ hit : a.iid = b.iid => ~Standing(b)
        BY <1>5 DEF Standing
      <3>2. \A a, b \in rows \ hit : a.iid = b.iid /\ Standing(a) /\ Standing(b) => a = b
        BY DEF StoreInv, RowsOK
      <3> QED BY <3>1, <3>2, <1>5, <1>6, <1>8, <1>10
    <2>3. \A row \in rows' : row.facts = 1 => Summarised(row.iid, rows')
      <3> SUFFICES ASSUME NEW row \in rows', row.facts = 1 PROVE Summarised(row.iid, rows')
        OBVIOUS
      <3>1. row.iid # k.iid
        BY <1>13
      <3>2. row \in rows
        BY <1>6, <1>8, <3>1
      <3> QED BY <1>12, <3>1, <3>2 DEF StoreInv, RowsOK
    <2> QED BY <2>1, <2>2, <2>3 DEF RowsOK
  <1>15. TasksOK(tasks', count'.ids)
    <2>1. \A a, b \in tasks : a.iid = b.iid => a = b
      BY DEF StoreInv, TasksOK
    <2>2. \A a \in tasks : TaskOK(a, count.ids)
      BY DEF StoreInv, TasksOK
    <2> QED BY <1>1, <1>7, <2>1, <2>2 DEF TasksOK
  <1>16. \A t \in tasks' : Serves(t, rows')
    <2> SUFFICES ASSUME NEW t \in tasks' PROVE Serves(t, rows')
      OBVIOUS
    <2>1. CASE t \in tasks \ {k}
      <3>1. t.iid # k.iid
        BY <2>1 DEF StoreInv, TasksOK
      <3>2. Serves(t, rows)
        BY <2>1 DEF StoreInv
      <3>3. \A row \in rows' : row.iid = t.iid => row \in rows
        BY <1>6, <1>8, <3>1
      <3> QED BY <1>12, <3>1, <3>2, <3>3 DEF Serves
    <2>2. CASE t = l /\ hit # {}
      <3>1. PICK h \in hit : TRUE
        BY <2>2
      <3>2. ok => Summarised(k.iid, rows')
        BY <3>1, <1>6, <1>9 DEF Summarised, SummaryOf
      <3> QED BY <1>7, <1>13, <2>2, <3>2 DEF Serves
    <2> QED BY <1>1, <2>1, <2>2
  <1> QED BY <1>11, <1>14, <1>15, <1>16, StoreKept

LEMMA StoreExtracted ==
  ASSUME TrackInv, TrackInv', StoreInv, Descends, NEW k \in tasks, TaskFacts(k)
  PROVE  StoreInv'
  <1> DEFINE g(row) == IF row.iid = k.iid /\ k.ok THEN [row EXCEPT !.facts = Capped(@, 2)] ELSE row
  <1>1. count' = count /\ k.pc = "facts" /\ tasks' = tasks \ {k} /\ rows' = {g(row) : row \in rows}
    BY DEF TaskFacts
  <1>2. \A row \in rows : RowOK(row, count.ids)
    BY DEF StoreInv, RowsOK
  <1>3. k.ok => Summarised(k.iid, rows) /\ \A row \in rows : row.iid = k.iid => row.facts = 0
    BY <1>1 DEF StoreInv, Serves
  <1>4. \A row \in rows : /\ RowOK(g(row), count.ids) /\ g(row).iid = row.iid /\ g(row).summary = row.summary
                          /\ (row.iid # k.iid \/ ~k.ok) => g(row) = row
    <2> SUFFICES ASSUME NEW row \in rows
                 PROVE  /\ RowOK(g(row), count.ids) /\ g(row).iid = row.iid /\ g(row).summary = row.summary
                        /\ (row.iid # k.iid \/ ~k.ok) => g(row) = row
      OBVIOUS
    <2>1. CASE row.iid = k.iid /\ k.ok
      <3>1. g(row) = [row EXCEPT !.facts = 1] /\ RowOK(row, count.ids)
        BY <2>1, <1>2, <1>3 DEF Capped
      <3> HIDE DEF g
      <3> QED BY <2>1, <3>1 DEF RowOK
    <2>2. CASE ~(row.iid = k.iid /\ k.ok)
      BY <2>2, <1>2
    <2> QED BY <2>1, <2>2
  <1> HIDE DEF g
  <1>5. \A row \in rows' : \E q \in rows : row = g(q)
    BY <1>1
  <1>6. \A q \in rows : g(q) \in rows'
    BY <1>1
  <1>7. \A iid : Summarised(iid, rows') <=> Summarised(iid, rows)
    BY <1>4, <1>5, <1>6 DEF Summarised
  <1>8. RowsOK(rows', count'.ids)
    <2>1. \A row \in rows' : RowOK(row, count'.ids)
      BY <1>1, <1>4, <1>5
    <2>2. \A a, b \in rows' : a.iid = b.iid /\ Standing(a) /\ Standing(b) => a = b
      BY <1>4, <1>5 DEF StoreInv, RowsOK, Standing
    <2>3. \A row \in rows' : row.facts = 1 => Summarised(row.iid, rows')
      BY <1>3, <1>4, <1>5, <1>7 DEF StoreInv, RowsOK
    <2> QED BY <2>1, <2>2, <2>3 DEF RowsOK
  <1>9. \A t \in tasks' : Serves(t, rows')
    <2> SUFFICES ASSUME NEW t \in tasks \ {k} PROVE Serves(t, rows')
      BY <1>1
    <2>1. t.iid # k.iid /\ Serves(t, rows)
      BY DEF StoreInv, TasksOK
    <2>2. \A row \in rows' : row.iid = t.iid => row \in rows
      BY <1>4, <1>5, <2>1
    <2> QED BY <1>7, <2>1, <2>2 DEF Serves
  <1>10. SameIds(tasks', tasks) /\ TasksOK(tasks', count'.ids)
    BY <1>1 DEF SameIds, StoreInv, TasksOK
  <1>11. SameIds(rows', rows)
    BY <1>4, <1>5 DEF SameIds
  <1> QED BY <1>8, <1>9, <1>10, <1>11, StoreKept

(* The identity of a record that is stored.                                *)
LEMMA IdentityIs ==
  ASSUME NEW r, Rec(r), NEW checked \in BOOLEAN
  PROVE  /\ Identity(r, checked).uid \in {0, r.id} /\ DOMAIN Identity(r, checked) = {"uid", "speaker", "span"}
         /\ Identity(r, checked).uid = 0 => r.replayed /\ checked /\ Identity(r, checked).span[1] = r.turns[1].m
                                            /\ Identity(r, checked) = Identity(r, TRUE)
         /\ Identity(r, checked).uid = r.id <=> ~(r.replayed /\ checked)
  <1>1. 1 \in DOMAIN r.turns
    <2>1. r.turns \in Seq(TurnSet) /\ r.turns # <<>>
      BY DEF Rec
    <2> QED BY <2>1
  <1>2. MessagesOf(r.turns)[1] = r.turns[1].m
    BY <1>1 DEF MessagesOf
  <1>3. r.id # 0
    BY DEF Rec
  <1>4. CASE r.replayed /\ checked
    BY <1>2, <1>3, <1>4 DEF Identity
  <1>5. CASE ~(r.replayed /\ checked)
    BY <1>3, <1>5 DEF Identity
  <1> QED BY <1>4, <1>5

LEMMA StoreStored ==
  ASSUME TrackInv, TrackInv', StoreInv, NEW r \in Tracked, Tracked' = Tracked \ {r}, count'.ids = count.ids,
         NEW checked \in BOOLEAN, NEW cleared \in BOOLEAN, Store(r, checked, cleared), checked => ~AlreadyDerived(r)
  PROVE  /\ StoreInv'
         /\ \A k \in tasks' : k \in tasks \/ (k.iid.uid # 0 /\ k.iid.uid = r.id) \/ (k.iid.uid = 0 /\ r.replayed /\ k.iid.span[1] = r.turns[1].m)
  <1> DEFINE iid == Identity(r, checked)  row == NewRow(r, iid)  k == NewTask(r, iid)  n == count.ids
             gone == IF r.replayed /\ cleared THEN FailedEpisodes(iid) ELSE {}
  <1>1. rows' = (rows \ gone) \cup {row} /\ tasks' = tasks \cup {k}
    BY DEF Store
  <1>2. /\ iid.uid \in {0, r.id} /\ DOMAIN iid = {"uid", "speaker", "span"}
        /\ iid.uid = 0 => r.replayed /\ checked /\ iid.span[1] = r.turns[1].m /\ iid = Identity(r, TRUE)
        /\ iid.uid = r.id <=> ~(r.replayed /\ checked)
    BY TrackedOnes, IdentityIs
  <1>3. Rec(r) /\ r.id <= n /\ n \in Nat /\ r.id \in Nat /\ r.id # 0
    BY TrackedOnes DEF Rec, TrackInv, Shape, CountOK
  <1>4. IdOK(iid, n)
    <2> HIDE DEF iid, n
    <2> QED BY <1>2, <1>3 DEF IdOK
  <1>5. /\ DOMAIN row = {"iid", "replayed", "msgs", "span", "speaker", "wire", "win", "summary", "age", "facts"}
        /\ row.iid = iid /\ row.replayed = r.replayed /\ row.age = 0 /\ row.summary = "pending" /\ row.facts = 0
    BY DEF NewRow
  <1>6. DOMAIN k = {"iid", "replayed", "ok", "pc"} /\ k.iid = iid /\ k.replayed = r.replayed /\ k.ok = FALSE /\ k.pc \in {"gate", "llm"}
    BY DEF NewTask
  <1>7. \A q \in rows : q.iid = iid => ~Standing(q)
    <2>1. CASE iid.uid = r.id
      BY <2>1 DEF StoreInv, Unstored
    <2>2. CASE iid.uid = 0
      <3>1. ~HasEpisode(iid) /\ r.replayed
        BY <1>2, <2>2 DEF AlreadyDerived
      <3> QED BY <3>1 DEF HasEpisode, Standing
    <2> QED BY <1>2, <2>1, <2>2
  <1>8. \A t \in tasks : t.iid # iid
    BY <1>2 DEF StoreInv, Unstored
  <1>8a. \A q \in gone : ~Standing(q)
    BY DEF FailedEpisodes, Standing
  <1> HIDE DEF iid, row, k, n, gone
  <1>8b. ~Summarised(iid, rows) /\ ~Summarised(iid, rows')
    BY <1>1, <1>5, <1>7 DEF Summarised, Standing
  <1>8c. \A i : Summarised(i, rows') <=> Summarised(i, rows)
    BY <1>1, <1>5, <1>8a DEF Summarised, Standing
  <1>9. RowOK(row, n)
    BY <1>2, <1>3, <1>4, <1>5 DEF RowOK, Rec
  <1>10. TaskOK(k, n)
    BY <1>3, <1>4, <1>6 DEF TaskOK, Rec
  <1>11. RowsOK(rows', count'.ids)
    <2>1. \A q \in rows' : RowOK(q, count'.ids)
      BY <1>1, <1>9 DEF StoreInv, RowsOK, n
    <2>2. \A a, b \in rows' : a.iid = b.iid /\ Standing(a) /\ Standing(b) => a = b
      BY <1>1, <1>5, <1>7 DEF StoreInv, RowsOK
    <2>3. \A q \in rows : q.facts = 1 => Summarised(q.iid, rows)
      BY DEF StoreInv, RowsOK
    <2>4. \A q \in rows' : q.facts = 1 => q \in rows
      BY <1>1, <1>5
    <2>5. \A q \in rows' : q.facts = 1 => Summarised(q.iid, rows')
      BY <1>8c, <2>3, <2>4
    <2> QED BY <2>1, <2>2, <2>5 DEF RowsOK
  <1>12. TasksOK(tasks', count'.ids)
    BY <1>1, <1>6, <1>8, <1>10 DEF StoreInv, TasksOK, n
  <1>13. \A t \in tasks' : Serves(t, rows')
    <2>1. Serves(k, rows')
      BY <1>6, <1>8b DEF Serves
    <2>2. ASSUME NEW t \in tasks PROVE Serves(t, rows')
      <3>1. Serves(t, rows) /\ t.iid # iid
        BY <1>8 DEF StoreInv
      <3> QED BY <1>1, <1>5, <1>8c, <3>1 DEF Serves
    <2> QED BY <1>1, <2>1, <2>2
  <1>14. \A q \in Tracked' : Unstored(q, rows', tasks')
    <2> SUFFICES ASSUME NEW q \in Tracked, q # r PROVE Unstored(q, rows', tasks')
      OBVIOUS
    <2>1. q.id # r.id /\ q.id # 0
      BY TrackedDiffer, TrackedOnes DEF Rec
    <2>2. Unstored(q, rows, tasks)
      BY DEF StoreInv
    <2>3. iid.uid # q.id
      BY <1>2, <2>1
    <2>4. iid.uid = 0 /\ q.replayed => iid.span[1] # q.turns[1].m
      BY <1>2 DEF StoreInv
    <2> QED BY <1>1, <1>5, <1>6, <2>2, <2>3, <2>4 DEF Unstored
  <1>15. \A a, b \in Tracked' : a.replayed /\ b.replayed /\ a.turns[1].m = b.turns[1].m => a = b
    BY DEF StoreInv
  <1>16. StoreInv'
    BY <1>11, <1>12, <1>13, <1>14, <1>15 DEF StoreInv
  <1> QED BY <1>1, <1>2, <1>3, <1>6, <1>16

LEMMA StorePersists ==
  ASSUME TrackInv, TrackInv', StoreInv, NEW r \in Tracked, Tracked' = Tracked \ {r}, PersistClosed(r)
  PROVE  /\ StoreInv' /\ count'.ids = count.ids
         /\ \A k \in tasks' : k \in tasks \/ (k.iid.uid # 0 /\ k.iid.uid = r.id) \/ (k.iid.uid = 0 /\ r.replayed /\ k.iid.span[1] = r.turns[1].m)
  <1>1. count'.ids = count.ids
    BY PersistCounts
  <1>2. Descends
    BY FewerDescend
  <1>3. CASE UNCHANGED <<rows, tasks>>
    BY <1>1, <1>2, <1>3, StoreRests
  <1>4. CASE (Store(r, TRUE, TRUE) \/ Store(r, TRUE, FALSE)) /\ ~AlreadyDerived(r)
    BY <1>1, <1>4, StoreStored
  <1>5. CASE Store(r, FALSE, TRUE)
    BY <1>1, <1>5, StoreStored
  <1> QED BY <1>1, <1>3, <1>4, <1>5 DEF PersistClosed

LEMMA GrownTag ==
  ASSUME NEW b, NEW x, Rec(b), NEW t \in TurnSet, NEW w, Grows(b, x, t, w) PROVE SameTag(b, x)
  <1>1. b.turns \in Seq(TurnSet) /\ b.turns # <<>>
    BY DEF Rec
  <1>2. Append(b.turns, t)[1] = b.turns[1]
    BY <1>1
  <1> QED BY <1>2 DEF Grows, SameTag

LEMMA NoticedTag ==
  ASSUME NEW q, NEW x, Rec(q), Noticed(q, x) PROVE SameTag(q, x)
  <1>1. q.turns \in Seq(TurnSet) /\ q.turns # <<>>
    BY DEF Rec
  <1>2. x.turns[1] = q.turns[1]
    <2>1. CASE x.turns = q.turns
      BY <2>1
    <2>2. ASSUME NEW b \in BOOLEAN, x.turns = Append(q.turns, [m |-> 0, own |-> b]) PROVE x.turns[1] = q.turns[1]
      <3>1. [m |-> 0, own |-> b] \in TurnSet
        BY DEF TurnSet
      <3> QED BY <1>1, <2>2, <3>1
    <2> QED BY <2>1, <2>2 DEF Noticed
  <1> QED BY <1>2 DEF Noticed, SameTag

LEMMA NewTag ==
  ASSUME NEW b, NEW x, b.turns = <<>>, NEW t, NEW w, Grows(b, x, t, w) PROVE x.turns[1] = t
  <1>1. Append(<<>>, t)[1] = t
    OBVIOUS
  <1> QED BY <1>1 DEF Grows

(* What a replayed turn opens comes after all that was replayed before.    *)
LEMMA StoreJoined ==
  ASSUME TrackInv, TrackInv', StoreInv, MarkInv, AddTurn
  PROVE  /\ StoreInv' /\ UNCHANGED <<rows, tasks, catch>> /\ count.ids <= count'.ids
         /\ \A r \in Tracked' : \/ \E q \in Tracked : SameTag(q, r)
                                \/ r.replayed = (job.kind = "replay") /\ r.turns[1].m = job.m
         /\ MessageJob(job) /\ job.pc = "turn" /\ job # NoJob /\ job' # NoJob /\ job'.pc = "end" /\ job'.kind = job.kind /\ job'.m = job.m
  <1>1. /\ UNCHANGED <<rows, tasks, catch>> /\ MessageJob(job) /\ job.pc = "turn" /\ job' # NoJob /\ job'.pc = "end"
        /\ job'.kind = job.kind /\ job'.m = job.m
        /\ \E b, x : Joined(b, x)
    BY TurnJoinsOne
  <1>2. PICK b, x : Joined(b, x)
    BY <1>1
  <1>3. Tracked' = (Tracked \ {b}) \cup {x} /\ Tracked = trk.open \cup catch.todo
    BY <1>2, TurnTracks
  <1>4. job # NoJob /\ job.dup \in BOOLEAN /\ job.m \in Nat
    BY <1>1, JobOfKind DEF MessageJob, Messages
  <1>5. [m |-> job.m, own |-> ~job.dup] \in TurnSet
    BY <1>4 DEF TurnSet
  <1>6. CASE b \in trk.open /\ count'.ids = count.ids
    <2>1. SameTag(b, x) /\ b \in Tracked
      <3>1. Rec(b) /\ b \in Tracked
        BY <1>3, <1>6, TrackedOnes
      <3> QED BY <3>1, <1>2, <1>5, GrownTag DEF Joined
    <2>2. Descends
      BY <1>3, <2>1 DEF Descends, SameTag
    <2>3. StoreInv'
      BY <1>1, <1>6, <2>2, StoreRests
    <2>4. count.ids <= count'.ids
      BY <1>6 DEF TrackInv, Shape, CountOK
    <2> QED BY <1>1, <1>4, <2>2, <2>3, <2>4 DEF Descends
  <1>7. CASE /\ b = NewRecord(count.ids + 1, History[job.m].speaker, job.kind = "replay", Owned(job.m))
             /\ count'.ids = count.ids + 1
    <2>1. b.id = count.ids + 1 /\ b.turns = <<>> /\ b.replayed = (job.kind = "replay")
      BY <1>7 DEF NewRecord
    <2>2. x.id = count.ids + 1 /\ x.replayed = (job.kind = "replay") /\ x.turns[1].m = job.m
      <3>1. x.turns[1] = [m |-> job.m, own |-> ~job.dup]
        BY <1>2, <2>1, NewTag DEF Joined
      <3> QED BY <3>1, <1>2, <2>1 DEF Joined, Grows
    <2>3. count.ids \in Nat
      BY DEF TrackInv, Shape, CountOK
    <2>4. b \notin Tracked
      BY <2>1, <2>3, TrackedOnes
    <2>5. Tracked' = Tracked \cup {x}
      BY <1>3, <2>4
    <2>6. RowsOK(rows', count'.ids) /\ TasksOK(tasks', count'.ids) /\ count.ids <= count'.ids
      <3>1. count.ids + 1 \in Nat /\ count.ids <= count.ids + 1
        BY <2>3
      <3> QED BY <3>1, <1>1, <1>7, <2>3, Monotone DEF StoreInv
    <2>7. x.replayed => job.kind = "replay" /\ catch.pc = "replay" /\ job.m = catch.at
      BY <1>4, <2>2 DEF TrackInv, Shape
    <2>8. catch.at \in Nat
      BY DEF TrackInv, Shape, CatchOK
    <2>9. x.replayed => /\ \A r \in Tracked : r.replayed => r.turns[1].m < job.m
                        /\ \A k \in tasks : k.iid.uid = 0 => k.iid.span[1] < job.m
      BY <1>1, <2>7 DEF MarkInv, Past
    <2>10. job.m \in Nat
      BY <1>4
    <2>11. Unstored(x, rows', tasks')
      <3>1. \A row \in rows : row.iid.uid # x.id
        BY <2>2, <2>3 DEF StoreInv, RowsOK, RowOK, IdOK
      <3>2. \A k \in tasks : k.iid.uid # x.id
        BY <2>2, <2>3 DEF StoreInv, TasksOK, TaskOK, IdOK
      <3>3. \A k \in tasks : k.iid.uid = 0 /\ x.replayed => k.iid.span[1] # x.turns[1].m
        BY <2>2, <2>9, <2>10
      <3> QED BY <1>1, <3>1, <3>2, <3>3 DEF Unstored
    <2>12. \A r \in Tracked' : Unstored(r, rows', tasks')
      BY <1>1, <2>5, <2>11 DEF StoreInv
    <2>13. \A r, q \in Tracked' : r.replayed /\ q.replayed /\ r.turns[1].m = q.turns[1].m => r = q
      <3>1. \A q \in Tracked : x.replayed /\ q.replayed => q.turns[1].m # x.turns[1].m
        BY <2>2, <2>9, <2>10
      <3> QED BY <2>5, <3>1 DEF StoreInv
    <2>14. StoreInv'
      BY <1>1, <2>6, <2>12, <2>13 DEF StoreInv
    <2>15. \A r \in Tracked' : \/ \E q \in Tracked : SameTag(q, r)
                               \/ r.replayed = (job.kind = "replay") /\ r.turns[1].m = job.m
      BY <2>2, <2>5 DEF SameTag
    <2> QED BY <1>1, <1>4, <2>6, <2>14, <2>15
  <1> QED BY <1>2, <1>6, <1>7 DEF Joined

(* The mark of the pass only moves on.                                     *)
MarkMoves ==
  /\ catch'.pc = "list" => (catch.pc = "list" /\ catch'.at = catch.at) \/ (~up /\ catch'.at = 1 /\ tasks = {})
  /\ catch'.pc = "replay" => catch.pc = "list" \/ (catch.pc = "replay" /\ \A m : Past(m) => Past(m)')

LEMMA MarkKept ==
  ASSUME TrackInv, MarkInv, Descends, MarkMoves, SameIds(tasks', tasks)
  PROVE  MarkInv'
  <1>1. CASE catch'.pc = "list"
    <2>1. ~up => \A r \in Tracked : ~r.replayed
      BY TrackedIs DEF TrackInv, Shape, JobTodo
    <2>2. /\ catch'.at = 1 /\ (\A r \in Tracked : ~r.replayed) /\ \A k \in tasks : k.iid.uid # 0
      BY <1>1, <2>1 DEF MarkInv, MarkMoves
    <2> QED BY <1>1, <2>2 DEF MarkInv, Descends, SameTag, SameIds
  <1>2. CASE catch'.pc = "replay"
    <2>1. CASE catch.pc = "list"
      BY <1>2, <2>1 DEF MarkInv, Descends, SameTag, SameIds
    <2>2. CASE catch.pc = "replay" /\ \A m : Past(m) => Past(m)'
      <3>1. \A r \in Tracked' : r.replayed => Past(r.turns[1].m)'
        BY <2>2 DEF MarkInv, Descends, SameTag
      <3>2. \A k \in tasks' : k.iid.uid = 0 => Past(k.iid.span[1])'
        BY <2>2 DEF MarkInv, SameIds
      <3> QED BY <1>2, <3>1, <3>2 DEF MarkInv
    <2> QED BY <1>2, <2>1, <2>2 DEF MarkMoves
  <1>3. CASE catch'.pc # "list" /\ catch'.pc # "replay"
    BY <1>3 DEF MarkInv
  <1> QED BY <1>1, <1>2, <1>3

(***************************************************************************)
(* The records, the store and the mark, one step at a time.                *)
(***************************************************************************)
(* The three parts that need one another.                                  *)
Held == TrackInv /\ StoreInv /\ MarkInv

LEMMA MarkStays ==
  ASSUME TrackInv, catch'.pc = catch.pc, catch'.at = catch.at,
         job # NoJob /\ job.kind = "replay" /\ job.pc = "end" => job' # NoJob /\ job'.kind = "replay" /\ job'.pc = "end"
  PROVE  MarkMoves
  BY DEF MarkMoves, Past

LEMMA SameMark == ASSUME TrackInv, UNCHANGED <<catch, job>> PROVE MarkMoves
  BY MarkStays

LEMMA RestsHeld ==
  ASSUME Held, Shape', Rests, UNCHANGED <<rows, tasks>>, MarkMoves PROVE Held'
  <1>1. TrackInv' /\ Tracked' = Tracked /\ TrackInv
    BY RestsTracks DEF Held
  <1>2. Descends /\ SameIds(tasks', tasks)
    BY <1>1, FewerDescend DEF SameIds
  <1>3. StoreInv'
    BY <1>1, <1>2, StoreRests DEF Held, Rests
  <1> QED BY <1>1, <1>2, <1>3, MarkKept DEF Held

LEMMA ClosesHeld ==
  ASSUME NEW S, Held, Shape', Closes(S), UNCHANGED <<rows, tasks>>, MarkMoves PROVE Held'
  <1>1. TrackInv' /\ Tracked' = Tracked /\ TrackInv
    BY ClosesTracks DEF Held
  <1>2. Descends /\ SameIds(tasks', tasks)
    BY <1>1, FewerDescend DEF SameIds
  <1>3. StoreInv'
    BY <1>1, <1>2, StoreRests DEF Held, Closes
  <1> QED BY <1>1, <1>2, <1>3, MarkKept DEF Held

LEMMA ShedsHeld ==
  ASSUME NEW J, NEW C, Held, Shape', Sheds(J, C), UNCHANGED <<rows, tasks>>, MarkMoves PROVE Held'
  <1>1. TrackInv' /\ Tracked' \subseteq Tracked /\ TrackInv
    BY ShedsTracks DEF Held
  <1>2. Descends /\ SameIds(tasks', tasks)
    BY <1>1, FewerDescend DEF SameIds
  <1>3. StoreInv'
    BY <1>1, <1>2, StoreRests DEF Held, Sheds
  <1> QED BY <1>1, <1>2, <1>3, MarkKept DEF Held

LEMMA BootHeld == ASSUME Held, Boot PROVE Held'
  <1>1. TrackInv /\ Shape' /\ Rests
    BY BootRests DEF Held
  <1>2. MarkMoves
    BY <1>1 DEF Boot, MarkMoves, TrackInv, Shape, CatchOK
  <1> QED BY <1>1, <1>2, RestsHeld DEF Boot

LEMMA CrashHeld == ASSUME Held, Crash \/ Drained PROVE Held'
  <1>1. TrackInv /\ TrackInv' /\ Tracked' = {} /\ catch'.pc = "off" /\ tasks' = {} /\ rows' = rows
    BY CrashTracks, DrainedTracks DEF Held
  <1>2. count'.ids = count.ids
    BY DEF Crash, Drained, Halt
  <1>3. StoreInv'
    BY <1>1, <1>2, StoreForgets DEF Held
  <1> QED BY <1>1, <1>3 DEF Held, MarkInv

LEMMA PublishHeld == ASSUME Held, Publish PROVE Held'
  <1>1. TrackInv /\ Shape' /\ Rests /\ UNCHANGED <<rows, tasks, catch, job>>
    BY PublishRests DEF Held, Publish
  <1> QED BY <1>1, SameMark, RestsHeld

LEMMA ClockHeld == ASSUME Held, ClockStep PROVE Held'
  <1>1. TrackInv /\ TrackInv' /\ AllAlike /\ UNCHANGED <<job, catch, tasks>>
    BY ClockAges DEF Held
  <1>2. Descends /\ SameIds(tasks', tasks)
    BY <1>1, AlikeDescend DEF SameIds
  <1>3. StoreInv'
    BY <1>1, <1>2, StoreAges DEF Held
  <1> QED BY <1>1, <1>2, <1>3, SameMark, MarkKept DEF Held

LEMMA MessageHeld == ASSUME Held, NEW m, OnMessage(m) \/ OnMessageSilent(m) \/ OnMessageDenied(m) PROVE Held'
  <1>1. job = NoJob /\ UNCHANGED <<rows, tasks, catch>> /\ TrackInv
    BY DEF OnMessage, OnMessageSilent, OnMessageDenied, Free, Held
  <1>2. MarkMoves
    BY <1>1, MarkStays
  <1>3. CASE OnMessage(m)
    BY <1>1, <1>2, <1>3, MessageCloses, ClosesHeld
  <1>4. CASE OnMessageSilent(m)
    BY <1>1, <1>2, <1>4, SilentRests, RestsHeld
  <1>5. CASE OnMessageDenied(m)
    BY <1>1, <1>2, <1>5, DeniedCloses, ClosesHeld
  <1> QED BY <1>3, <1>4, <1>5

LEMMA NotificationHeld == ASSUME Held, NEW s, NEW w, OnNotification(s, w) PROVE Held'
  <1>1. job = NoJob /\ UNCHANGED <<rows, tasks, catch>> /\ TrackInv
    BY DEF OnNotification, Free, Held
  <1>2. MarkMoves
    BY <1>1, MarkStays
  <1> QED BY <1>1, <1>2, NotificationCloses, ClosesHeld

LEMMA VoteHeld == ASSUME Held, NEW b, NEW y, VoteFailed(b) \/ VotePublished(b, y) PROVE Held'
  <1>1. job = NoJob /\ UNCHANGED <<rows, tasks, catch>> /\ TrackInv
    BY DEF VoteFailed, VotePublished, Resolve, Free, Held
  <1>2. MarkMoves
    BY <1>1, MarkStays
  <1>3. CASE VoteFailed(b)
    BY <1>1, <1>2, <1>3, VoteFailedRests, RestsHeld
  <1>4. CASE VotePublished(b, y)
    BY <1>1, <1>2, <1>4, VoteCloses, RestsHeld, ClosesHeld
  <1> QED BY <1>3, <1>4

LEMMA TickHeld == ASSUME Held, OnTick \/ OnQuietTick \/ TickEnds \/ Shutdown PROVE Held'
  <1>1. TrackInv /\ UNCHANGED <<tasks, catch>> /\ (job # NoJob => job.pc = "janitor")
    BY DEF OnTick, OnQuietTick, TickEnds, Shutdown, JobAt, Free, Held
  <1>2. MarkMoves
    BY <1>1, MarkStays
  <1>3. CASE OnTick
    BY <1>1, <1>2, <1>3, TickCloses, ClosesHeld DEF OnTick
  <1>4. CASE Shutdown
    BY <1>1, <1>2, <1>4, ShutdownClosesThem, ClosesHeld DEF Shutdown
  <1>5. CASE OnQuietTick \/ TickEnds
    <2>1. TrackInv' /\ Tracked' = Tracked /\ CleanupClosing /\ count' = count
      BY <1>1, <1>5, TicksRest, RestsTracks DEF OnQuietTick, TickEnds
    <2>2. Descends /\ SameIds(tasks', tasks)
      BY <1>1, <2>1, FewerDescend DEF SameIds
    <2>3. StoreInv'
      BY <1>1, <2>1, <2>2, StoreCleaned DEF Held
    <2> QED BY <1>1, <1>2, <2>1, <2>2, <2>3, MarkKept DEF Held
  <1> QED BY <1>3, <1>4, <1>5

LEMMA EndsHeld == ASSUME Held, EndSession \/ JobEnd \/ (\E n \in 1..2 : ParkVote(n)) \/ EventTimeout PROVE Held'
  <1>1. TrackInv /\ UNCHANGED <<rows, tasks>>
    BY DEF EndSession, JobEnd, ParkVote, EventTimeout, Held
  <1>2. CASE EndSession
    <2>1. MarkMoves
      BY <1>1, <1>2, MarkStays DEF EndSession
    <2> QED BY <1>1, <1>2, <2>1, SessionCloses, ClosesHeld
  <1>3. CASE JobEnd
    <2>1. MarkMoves
      <3>1. CASE job.kind = "replay"
        <4>1. catch' = [catch EXCEPT !.at = @ + 1] /\ job # NoJob /\ CatchOK(catch)
          BY <1>1, <1>3, <3>1 DEF JobEnd, JobAt, TrackInv, Shape
        <4>2. catch'.at = catch.at + 1 /\ catch.at \in Nat /\ catch'.pc = catch.pc /\ catch.pc = "replay"
          BY <1>1, <3>1, <4>1 DEF CatchOK, TrackInv, Shape
        <4> QED BY <4>2 DEF MarkMoves, Past
      <3>2. CASE job.kind # "replay"
        BY <1>1, <1>3, <3>2, MarkStays DEF JobEnd
      <3> QED BY <3>1, <3>2
    <2> QED BY <1>1, <1>3, <2>1, JobEndRests, RestsHeld
  <1>4. CASE \E n \in 1..2 : ParkVote(n)
    <2>1. MarkMoves
      BY <1>1, <1>4, MarkStays DEF ParkVote
    <2> QED BY <1>1, <1>4, <2>1, ParkRests, RestsHeld
  <1>5. CASE EventTimeout
    <2>1. MarkMoves
      BY <1>1, <1>5, MarkStays DEF EventTimeout
    <2> QED BY <1>1, <1>5, <2>1, TimeoutSheds, ShedsHeld
  <1> QED BY <1>2, <1>3, <1>4, <1>5

LEMMA StaleHeld == ASSUME Held, CloseStale PROVE Held'
  <1>1. /\ TrackInv /\ TrackInv' /\ AllAlike /\ UNCHANGED <<catch, rows, tasks, count>> /\ job.pc = "stale"
    BY StaleCloses DEF Held
  <1>2. Descends /\ SameIds(tasks', tasks)
    BY <1>1, AlikeDescend DEF SameIds
  <1>3. MarkMoves
    BY <1>1, MarkStays
  <1>4. StoreInv'
    BY <1>1, <1>2, StoreRests DEF Held
  <1> QED BY <1>1, <1>2, <1>3, <1>4, MarkKept DEF Held

LEMMA NoticeHeld == ASSUME Held, NEW red, NoticeClose(red) PROVE Held'
  <1>1. /\ TrackInv /\ TrackInv' /\ UNCHANGED <<catch, rows, tasks, count>> /\ job.pc = "close"
        /\ \A r \in Tracked' : r \in Tracked \/ \E q \in trk.open : Noticed(q, r)
    BY NoticeCloses DEF Held, NoticeClose, JobAt
  <1>2. Descends
    <2> SUFFICES ASSUME NEW r \in Tracked' PROVE \E q \in Tracked : SameTag(q, r)
      BY DEF Descends
    <2>1. CASE r \in Tracked
      BY <2>1 DEF SameTag
    <2>2. ASSUME NEW q \in trk.open, Noticed(q, r) PROVE \E p \in Tracked : SameTag(p, r)
      BY <1>1, <2>2, NoticedTag, TrackedIs, TrackedOnes
    <2> QED BY <1>1, <2>1, <2>2
  <1>3. SameIds(tasks', tasks)
    BY <1>1 DEF SameIds
  <1>4. MarkMoves
    BY <1>1, MarkStays
  <1>5. StoreInv'
    BY <1>1, <1>2, StoreRests DEF Held
  <1> QED BY <1>1, <1>2, <1>3, <1>4, <1>5, MarkKept, SMTT(30) DEF Held

LEMMA ReplayHeld ==
  ASSUME Held, FetchWindow \/ FetchFails \/ ReplayMessage \/ ReplayRaises \/ ReplayFinished \/ ReplayCutShort PROVE Held'
  <1>1. TrackInv /\ UNCHANGED <<rows, tasks>> /\ CatchOK(catch)
    BY DEF FetchWindow, FetchFails, ReplayMessage, ReplayRaises, ReplayFinished, ReplayCutShort, Held, TrackInv, Shape
  <1>2. CASE FetchWindow
    <2>1. MarkMoves
      BY <1>1, <1>2 DEF FetchWindow, MarkMoves, CatchOK
    <2> QED BY <1>1, <1>2, <2>1, FetchRests, RestsHeld
  <1>3. CASE FetchFails
    <2>1. MarkMoves
      BY <1>1, <1>3 DEF FetchFails, SweepFrom, MarkMoves, CatchOK
    <2> QED BY <1>1, <1>3, <2>1, FetchFailsRests, RestsHeld
  <1>4. CASE ReplayMessage
    <2>1. MarkMoves
      BY <1>1, <1>4, MarkStays DEF ReplayMessage
    <2> QED BY <1>1, <1>4, <2>1, ReplayCloses, ClosesHeld
  <1>5. CASE ReplayRaises
    <2>1. catch'.at = catch.at + 1 /\ catch.at \in Nat /\ catch'.pc = catch.pc /\ job = NoJob /\ catch.pc = "replay"
      BY <1>1, <1>5 DEF CatchOK, ReplayRaises, Replaying
    <2>2. MarkMoves
      BY <2>1 DEF MarkMoves, Past
    <2> QED BY <1>1, <1>5, <2>2, RaisesRests, RestsHeld
  <1>6. CASE ReplayFinished
    <2>1. MarkMoves
      BY <1>1, <1>6 DEF ReplayFinished, SweepFrom, MarkMoves, CatchOK
    <2> QED BY <1>1, <1>6, <2>1, FinishedRests, RestsHeld
  <1>7. CASE ReplayCutShort
    <2>1. MarkMoves
      BY <1>1, <1>7, CutShortSheds DEF MarkMoves
    <2> QED BY <1>1, <1>7, <2>1, CutShortSheds, ShedsHeld
  <1> QED BY <1>2, <1>3, <1>4, <1>5, <1>6, <1>7

LEMMA SweepHeld == ASSUME Held, SweepClose \/ SweepEnd PROVE Held'
  <1>1. CASE SweepClose
    <2>1. TrackInv /\ TrackInv' /\ AllAlike /\ UNCHANGED <<job, rows, tasks, count>> /\ catch'.pc = "sweep"
      BY <1>1, SweepCloses DEF Held
    <2>2. Descends /\ SameIds(tasks', tasks) /\ MarkMoves
      BY <2>1, AlikeDescend DEF SameIds, MarkMoves
    <2>3. StoreInv'
      BY <2>1, <2>2, StoreRests DEF Held
    <2> QED BY <2>1, <2>2, <2>3, MarkKept DEF Held
  <1>2. CASE SweepEnd
    <2>1. TrackInv /\ UNCHANGED <<rows, tasks>> /\ catch'.pc = "off"
      BY <1>2 DEF SweepEnd, Held, TrackInv, Shape, CatchOK
    <2>2. MarkMoves
      BY <2>1 DEF MarkMoves
    <2> QED BY <1>2, <2>1, <2>2, SweepEndRests, RestsHeld
  <1> QED BY <1>1, <1>2

LEMMA FinalizeHeld == ASSUME Held, Finalize PROVE Held'
  <1>1. PICK k \in tasks : TaskEnter(k) \/ TaskFacts(k) \/ \E ok \in BOOLEAN : TaskUpdate(k, ok)
    BY DEF Finalize
  <1>2. PICK ok \in BOOLEAN : TaskEnter(k) \/ TaskFacts(k) \/ TaskUpdate(k, ok)
    BY <1>1
  <1>3. TrackInv /\ TrackInv' /\ Tracked' = Tracked /\ UNCHANGED <<catch, job>>
    BY <1>2, TasksRest, RestsTracks DEF Held, TaskEnter, TaskFacts, TaskUpdate
  <1>4. Descends /\ MarkMoves
    BY <1>3, FewerDescend, SameMark
  <1>5. SameIds(tasks', tasks)
    <2>1. TaskOK(k, count.ids)
      BY DEF Held, StoreInv, TasksOK
    <2>2. CASE TaskEnter(k)
      <3>1. tasks' = (tasks \ {k}) \cup {[k EXCEPT !.pc = "llm"]} /\ [k EXCEPT !.pc = "llm"].iid = k.iid
        BY <2>1, <2>2 DEF TaskEnter, TaskOK
      <3> QED BY <3>1 DEF SameIds
    <2>3. CASE TaskFacts(k)
      BY <2>3 DEF TaskFacts, SameIds
    <2>4. CASE TaskUpdate(k, ok)
      <3> DEFINE l == [k EXCEPT !.pc = "facts", !.ok = ok]
      <3>1. l.iid = k.iid
        BY <2>1 DEF TaskOK
      <3>2. tasks' \subseteq (tasks \ {k}) \cup {l}
        BY <2>4 DEF TaskUpdate, AfterUpdate
      <3> HIDE DEF l
      <3> QED BY <3>1, <3>2 DEF SameIds
    <2> QED BY <1>2, <2>2, <2>3, <2>4
  <1>6. StoreInv'
    BY <1>2, <1>3, <1>4, StoreEntered, StoreUpdated, StoreExtracted DEF Held
  <1> QED BY <1>3, <1>4, <1>5, <1>6, MarkKept DEF Held

LEMMA MarkPersisted ==
  ASSUME TrackInv, TrackInv', MarkInv, MarkMoves, NEW r \in Tracked, Tracked' \subseteq Tracked, up,
         \A k \in tasks' : k \in tasks \/ (k.iid.uid # 0 /\ k.iid.uid = r.id) \/ (k.iid.uid = 0 /\ r.replayed /\ k.iid.span[1] = r.turns[1].m)
  PROVE  MarkInv'
  <1>1. CASE catch'.pc = "list"
    <2>1. /\ catch'.at = 1 /\ (\A q \in Tracked : ~q.replayed) /\ \A k \in tasks : k.iid.uid # 0
      BY <1>1 DEF MarkInv, MarkMoves
    <2> QED BY <1>1, <2>1 DEF MarkInv
  <1>2. CASE catch'.pc = "replay"
    <2>1. CASE catch.pc = "list"
      BY <1>2, <2>1 DEF MarkInv
    <2>2. CASE catch.pc = "replay" /\ \A m : Past(m) => Past(m)'
      <3>1. \A q \in Tracked' : q.replayed => Past(q.turns[1].m)'
        BY <2>2 DEF MarkInv
      <3>2. \A k \in tasks' : k.iid.uid = 0 => Past(k.iid.span[1])'
        BY <2>2 DEF MarkInv
      <3> QED BY <1>2, <3>1, <3>2 DEF MarkInv
    <2> QED BY <1>2, <2>1, <2>2 DEF MarkMoves
  <1>3. CASE catch'.pc # "list" /\ catch'.pc # "replay"
    BY <1>3 DEF MarkInv
  <1> QED BY <1>1, <1>2, <1>3

LEMMA JobPersistHeld == ASSUME Held, JobPersist PROVE Held'
  <1> DEFINE r == First(job.todo)
  <1>1. /\ TrackInv /\ Shape' /\ Sheds(JobTodo \ {r}, catch.todo) /\ r \in JobTodo /\ r \in Tracked /\ PersistClosed(r)
        /\ UNCHANGED catch /\ job' # NoJob /\ job'.kind = job.kind /\ job'.pc = job.pc /\ up
    BY JobPersistSheds DEF Held, JobTodo, JobPersist
  <1> HIDE DEF r
  <1>2. TrackInv' /\ Tracked' = trk.open \cup (JobTodo \ {r}) \cup catch.todo
    BY <1>1, ShedsTracks
  <1>3. Tracked' = Tracked \ {r}
    BY <1>1, <1>2, TrackedIs DEF TrackInv, Placed
  <1>4. /\ StoreInv'
        /\ \A k \in tasks' : k \in tasks \/ (k.iid.uid # 0 /\ k.iid.uid = r.id) \/ (k.iid.uid = 0 /\ r.replayed /\ k.iid.span[1] = r.turns[1].m)
    BY <1>1, <1>2, <1>3, StorePersists DEF Held
  <1>5. MarkMoves
    BY <1>1, MarkStays
  <1>6. MarkInv'
    BY <1>1, <1>2, <1>3, <1>4, <1>5, MarkPersisted DEF Held
  <1> QED BY <1>2, <1>4, <1>6 DEF Held

LEMMA SweepPersistHeld == ASSUME Held, SweepPersist PROVE Held'
  <1> DEFINE r == First(catch.todo)
  <1>1. /\ TrackInv /\ Shape' /\ Sheds(JobTodo, catch.todo \ {r}) /\ r \in catch.todo /\ r \in Tracked /\ PersistClosed(r)
        /\ UNCHANGED job /\ catch'.pc = catch.pc /\ catch'.at = catch.at /\ up
    BY SweepPersistSheds DEF Held, SweepPersist
  <1> HIDE DEF r
  <1>2. TrackInv' /\ Tracked' = trk.open \cup JobTodo \cup (catch.todo \ {r})
    BY <1>1, ShedsTracks
  <1>3. Tracked' = Tracked \ {r}
    BY <1>1, <1>2, TrackedIs DEF TrackInv, Placed
  <1>4. /\ StoreInv'
        /\ \A k \in tasks' : k \in tasks \/ (k.iid.uid # 0 /\ k.iid.uid = r.id) \/ (k.iid.uid = 0 /\ r.replayed /\ k.iid.span[1] = r.turns[1].m)
    BY <1>1, <1>2, <1>3, StorePersists DEF Held
  <1>5. MarkMoves
    BY <1>1, MarkStays
  <1>6. MarkInv'
    BY <1>1, <1>2, <1>3, <1>4, <1>5, MarkPersisted DEF Held
  <1> QED BY <1>2, <1>4, <1>6 DEF Held

LEMMA TurnHeld == ASSUME Held, AddTurn PROVE Held'
  <1>1. TrackInv /\ TrackInv' /\ up
    BY TurnJoinsOne, TurnTracks, Zenon DEF Held, AddTurn, JobAt
  <1>2. /\ StoreInv' /\ UNCHANGED <<rows, tasks, catch>>
        /\ \A r \in Tracked' : \/ \E q \in Tracked : SameTag(q, r)
                               \/ r.replayed = (job.kind = "replay") /\ r.turns[1].m = job.m
        /\ job.pc = "turn" /\ job # NoJob /\ job' # NoJob /\ job'.pc = "end" /\ job'.kind = job.kind /\ job'.m = job.m
        /\ MessageJob(job)
    BY <1>1, StoreJoined DEF Held
  <1>3. job.kind = "replay" => catch.pc = "replay" /\ job.m = catch.at /\ catch.at \in Nat
    BY <1>1, <1>2 DEF TrackInv, Shape, CatchOK
  <1>4. \A m : Past(m) => Past(m)'
    BY <1>2 DEF Past
  <1>5. \A r \in Tracked' : catch.pc = "list" => ~r.replayed
    BY <1>2, <1>3 DEF Held, MarkInv, SameTag
  <1>6. \A r \in Tracked' : catch.pc = "replay" /\ r.replayed => Past(r.turns[1].m)'
    <2> SUFFICES ASSUME NEW r \in Tracked', catch.pc = "replay", r.replayed PROVE Past(r.turns[1].m)'
      OBVIOUS
    <2>1. CASE \E q \in Tracked : SameTag(q, r)
      BY <2>1, <1>4 DEF Held, MarkInv, SameTag
    <2>2. CASE r.replayed = (job.kind = "replay") /\ r.turns[1].m = job.m
      BY <2>2, <1>2, <1>3 DEF Past
    <2> QED BY <1>2, <2>1, <2>2
  <1>7. \A k \in tasks : catch.pc = "replay" /\ k.iid.uid = 0 => Past(k.iid.span[1])'
    BY <1>4 DEF Held, MarkInv
  <1>8. MarkInv'
    BY <1>2, <1>5, <1>6, <1>7 DEF Held, MarkInv
  <1> QED BY <1>1, <1>2, <1>8, SMTT(30) DEF Held

LEMMA HeldStep == Held /\ [Next]_vars => Held'
  <1> SUFFICES ASSUME Held, [Next]_vars PROVE Held'
    OBVIOUS
  <1>1. CASE UNCHANGED vars
    <2>1. TrackInv /\ Shape' /\ Rests /\ UNCHANGED <<rows, tasks, catch, job>>
      BY <1>1, StutterRests DEF Held, vars
    <2> QED BY <2>1, SameMark, RestsHeld
  <1>2. CASE Locked
    BY <1>2, JobPersistHeld, StaleHeld, TurnHeld, EndsHeld, NoticeHeld, TickHeld DEF Locked
  <1>3. CASE Sweep
    BY <1>3, SweepHeld, SweepPersistHeld DEF Sweep
  <1>4. CASE World
    BY <1>4, BootHeld, CrashHeld, PublishHeld, ClockHeld DEF World
  <1>5. CASE EventTimeout \/ Drained
    BY <1>5, EndsHeld, CrashHeld
  <1>6. CASE Replay
    BY <1>6, ReplayHeld DEF Replay
  <1>7. CASE Finalize
    BY <1>7, FinalizeHeld
  <1>8. CASE Arrive
    <2>1. CASE \E m \in inbox : OnMessage(m) \/ OnMessageSilent(m) \/ OnMessageDenied(m)
      BY <2>1, MessageHeld
    <2>2. CASE \E s \in Speakers \cup {Self}, w \in Wires \cup {NoWire} : OnNotification(s, w)
      BY <2>2, NotificationHeld
    <2>3. CASE \E b \in ballots : VoteFailed(b) \/ \E y \in BOOLEAN : VotePublished(b, y)
      BY <2>3, VoteHeld
    <2>4. CASE OnTick \/ OnQuietTick \/ Shutdown
      BY <2>4, TickHeld
    <2> QED BY <1>8, <2>1, <2>2, <2>3, <2>4 DEF Arrive
  <1> QED BY <1>1, <1>2, <1>3, <1>4, <1>5, <1>6, <1>7, <1>8 DEF Next

LEMMA HeldInit == Init => Held
  <1> SUFFICES ASSUME Init PROVE Held
    OBVIOUS
  <1>1. TrackInv /\ Tracked = {} /\ rows = {} /\ tasks = {} /\ catch.pc = "off"
    BY InitTracks DEF Init
  <1> QED BY <1>1 DEF Held, StoreInv, MarkInv, RowsOK, TasksOK

(* Whatever handler, timeout, crash or restart comes next, every record of *)
(* the tracker is in one place (open, in the hands of the lock's holder or *)
(* of the sweep), has an id no row and no task knows, and what catch-up has*)
(* replayed lies before its mark (InteractionTracker, the close doors,     *)
(* persist_closed_interaction).                                            *)
THEOREM CloseInvariant == Spec => []Held
  BY HeldInit, HeldStep, PTL DEF Spec

(* A span is remembered once under its identity: of the rows of an id at   *)
(* most one is pending or summarised, whatever failed rows a raising       *)
(* deletion left beside it, and facts are extracted at most once, when a   *)
(* summary was written (replay_span_already_derived, clear_failed_episode, *)
(* update_episode_summary), for any number of starts, crashes and failures.*)
THEOREM SpansAreStoredOnce == Spec => []OneEpisodePerSpan
  <1>1. Held => OneEpisodePerSpan
    <2> SUFFICES ASSUME Held PROVE OneEpisodePerSpan
      OBVIOUS
    <2>1. RowsOK(rows, count.ids)
      BY DEF Held, StoreInv
    <2>2. OneRowPerSpan
      BY <2>1 DEF RowsOK, Standing, OneRowPerSpan
    <2>3. \A row \in rows : row.facts > 0 => row.facts = 1
      BY <2>1 DEF RowsOK, RowOK
    <2>4. FactsFollowSummary
      BY <2>1, <2>3 DEF RowsOK, Summarised, FactsFollowSummary
    <2> QED BY <2>2, <2>4 DEF OneEpisodePerSpan
  <1> QED BY <1>1, CloseInvariant, PTL

(***************************************************************************)
(* Live turns: none is forgotten, and no record mixes conversations.       *)
(***************************************************************************)
(* What makes a record fit to be written.                                  *)
Sound(r) == LiveOK(r) /\ InRoom(r) /\ Unmixed(r)
(* While the process stops it holds no live record, and the sweep leaves   *)
(* nothing behind.                                                         *)
DrainInv ==
  /\ catch.pc # "sweep" => catch.todo = {}
  /\ job # NoJob /\ job.pc = "drain" => catch.pc = "off" /\ \A r \in trk.open : r.replayed

(* Every tracked record is sound, and so will be the one about to grow.    *)
SoundInv ==
  /\ \A r \in Tracked : Sound(r)
  /\ \A r \in trk.open : Unstamped(r)
  /\ Joins /\ DrainInv

(* A step that neither adds a turn nor begins a stop.                      *)
Steady ==
  /\ SameRoom
  /\ \A r \in Tracked' : \E q \in Tracked : Alike(q, r)
  /\ \A r \in trk'.open : \E q \in trk.open : Alike(q, r)
  /\ job' # NoJob /\ job'.pc = "turn" => job # NoJob /\ job.pc = "turn" /\ job'.kind = job.kind /\ job'.m = job.m /\ job'.dup = job.dup
  /\ job' # NoJob /\ job'.pc = "drain" => job # NoJob /\ job.pc = "drain" /\ (catch.pc = "off" => catch'.pc = "off")
  /\ catch'.pc # "sweep" => catch'.todo = {}

LEMMA AlikeSound ==
  ASSUME SameRoom, NEW q, NEW r, Alike(q, r), Sound(q) PROVE Sound(r)'
  <1>1. History' = History /\ Messages' = Messages
    BY RoomStays
  <1>2. r.replayed = q.replayed /\ r.turns = q.turns /\ r.wire = q.wire /\ r.prev = q.prev
    BY DEF Alike
  <1>3. LiveOK(r)' /\ InRoom(r)'
    BY <1>1, <1>2 DEF Sound, LiveOK, InRoom
  <1>4. Unmixed(r)'
    BY <1>1, <1>2 DEF Sound, Unmixed
  <1> QED BY <1>3, <1>4 DEF Sound

LEMMA AlikeUnstamped ==
  ASSUME SameRoom, NEW q, NEW r, Alike(q, r), Unstamped(q) PROVE Unstamped(r)'
  <1>1. History' = History
    BY RoomStays
  <1> QED BY <1>1 DEF Alike, Unstamped

LEMMA SteadySound == ASSUME SoundInv, Steady PROVE SoundInv'
  <1>1. History' = History /\ Messages' = Messages /\ SameRoom
    BY RoomStays DEF Steady
  <1>2. \A r \in Tracked' : Sound(r)'
    BY <1>1, AlikeSound DEF Steady, SoundInv
  <1>3. \A r \in trk'.open : Unstamped(r)'
    BY <1>1, AlikeUnstamped DEF Steady, SoundInv
  <1>4. Joins'
    <2> SUFFICES ASSUME job' # NoJob, job'.pc = "turn"
                 PROVE  /\ job'.kind = "event" => ~job'.dup
                        /\ \A r \in trk'.open :
                             /\ r.speaker = History'[job'.m].speaker => r.replayed = (job'.kind = "replay")
                             /\ ~WireRotationCloses(r, History'[job'.m].wire)
      BY DEF Joins
    <2>1. job # NoJob /\ job.pc = "turn" /\ job'.kind = job.kind /\ job'.m = job.m /\ job'.dup = job.dup
      BY DEF Steady
    <2>2. /\ job.kind = "event" => ~job.dup
          /\ \A r \in trk.open :
               /\ r.speaker = History[job.m].speaker => r.replayed = (job.kind = "replay")
               /\ ~WireRotationCloses(r, History[job.m].wire)
      BY <2>1 DEF SoundInv, Joins
    <2> SUFFICES ASSUME NEW r \in trk'.open
                 PROVE  /\ r.speaker = History[job.m].speaker => r.replayed = (job.kind = "replay")
                        /\ ~WireRotationCloses(r, History[job.m].wire)
      BY <1>1, <2>1, <2>2
    <2>3. PICK q \in trk.open : Alike(q, r)
      BY DEF Steady
    <2>4. r.speaker = q.speaker /\ r.replayed = q.replayed /\ r.wire = q.wire /\ r.prev = q.prev
      BY <2>3 DEF Alike
    <2>5. WireRotationCloses(r, History[job.m].wire) <=> WireRotationCloses(q, History[job.m].wire)
      BY <2>4 DEF WireRotationCloses
    <2> QED BY <2>2, <2>4, <2>5
  <1>5. DrainInv'
    BY DEF SoundInv, DrainInv, Steady, Alike
  <1> QED BY <1>2, <1>3, <1>4, <1>5 DEF SoundInv

(* The messages of the live records among S.                               *)
LEMMA InLive ==
  ASSUME NEW S, NEW m
  PROVE  m \in LiveMessages(S) <=> m # 0 /\ \E r \in S : ~r.replayed /\ \E i \in DOMAIN r.turns : r.turns[i].m = m
  <1> DEFINE f(r) == {r.turns[i].m : i \in DOMAIN r.turns}  L == {q \in S : ~q.replayed}
  <1>1. LiveMessages(S) = (UNION {f(r) : r \in L}) \ {0}
    BY DEF LiveMessages
  <1>2. \A r : m \in f(r) <=> \E i \in DOMAIN r.turns : r.turns[i].m = m
    OBVIOUS
  <1>3. \A r : r \in L <=> r \in S /\ ~r.replayed
    OBVIOUS
  <1> HIDE DEF f, L
  <1>4. m \in LiveMessages(S) <=> m # 0 /\ \E r \in L : m \in f(r)
    <2> DEFINE U == {f(r) : r \in L}
    <2>1. m \in UNION U <=> \E u \in U : m \in u
      <3> HIDE DEF U
      <3> QED OBVIOUS
    <2>2. (\E u \in U : m \in u) <=> \E r \in L : m \in f(r)
      OBVIOUS
    <2> HIDE DEF U
    <2>3. LiveMessages(S) = (UNION U) \ {0}
      BY <1>1 DEF U
    <2> QED BY <2>1, <2>2, <2>3
  <1> QED BY <1>2, <1>3, <1>4

LEMMA LiveOfMore ==
  ASSUME NEW S, NEW T, S \subseteq T PROVE LiveMessages(S) \subseteq LiveMessages(T)
  BY DEF LiveMessages

LEMMA LiveOfBoth ==
  ASSUME NEW S, NEW T PROVE LiveMessages(S \cup T) \subseteq LiveMessages(S) \cup LiveMessages(T)
  BY DEF LiveMessages

(* The live messages in episodes.                                          *)
RowMsgs(R) == UNION {row.msgs : row \in {q \in R : ~q.replayed}}

LEMMA KeptIs == LiveTurnsAreKept <=> ghost.recorded \subseteq ghost.lost \cup LiveMessages(Tracked) \cup RowMsgs(rows)
  BY DEF LiveTurnsAreKept, RowMsgs

LEMMA KeptNext == LiveTurnsAreKept' <=> ghost'.recorded \subseteq ghost'.lost \cup LiveMessages(Tracked') \cup RowMsgs(rows')
  BY DEF LiveTurnsAreKept, RowMsgs

LEMMA KeptAsIs ==
  ASSUME LiveTurnsAreKept, ghost' = ghost, LiveMessages(Tracked) \subseteq LiveMessages(Tracked'), RowMsgs(rows) \subseteq RowMsgs(rows')
  PROVE  LiveTurnsAreKept'
  BY KeptIs, KeptNext

LEMMA KeptDropped ==
  ASSUME Shape, LiveTurnsAreKept, NEW S, ghost' = [ghost EXCEPT !.lost = @ \cup LiveMessages(S)], Tracked \subseteq Tracked' \cup S,
         RowMsgs(rows) \subseteq RowMsgs(rows')
  PROVE  LiveTurnsAreKept'
  <1>1. ghost'.recorded = ghost.recorded /\ ghost'.lost = ghost.lost \cup LiveMessages(S)
    BY DEF Shape
  <1>2. LiveMessages(Tracked) \subseteq LiveMessages(Tracked') \cup LiveMessages(S)
    BY LiveOfMore, LiveOfBoth
  <1> QED BY <1>1, <1>2, KeptIs, KeptNext

LEMMA AlikeLive ==
  ASSUME AllAlike PROVE LiveMessages(Tracked) \subseteq LiveMessages(Tracked')
  <1> SUFFICES ASSUME NEW m \in LiveMessages(Tracked) PROVE m \in LiveMessages(Tracked')
    OBVIOUS
  <1>1. PICK q \in Tracked : m # 0 /\ ~q.replayed /\ \E i \in DOMAIN q.turns : q.turns[i].m = m
    BY InLive
  <1>2. PICK r \in Tracked' : Alike(q, r)
    BY DEF AllAlike
  <1>3. ~r.replayed /\ \E i \in DOMAIN r.turns : r.turns[i].m = m
    BY <1>1, <1>2 DEF Alike
  <1> QED BY <1>1, <1>3, InLive

(* A live record always has something to write, and all of it is written.  *)
LEMMA LiveIsWritten ==
  ASSUME NEW r, Rec(r), LiveOK(r), ~r.replayed
  PROVE  /\ Derivable(r) /\ ~AlreadyDerived(r)
         /\ LiveMessages({r}) \subseteq {t.m : t \in OwnTurns(r)}
  <1>1. r.turns \in Seq(TurnSet) /\ r.turns # <<>>
    BY DEF Rec
  <1>2. 1 \in DOMAIN r.turns
    BY <1>1
  <1>3. r.turns[1].own
    BY <1>2 DEF LiveOK
  <1>4. r.turns[1] \in OwnTurns(r)
    BY <1>2, <1>3 DEF OwnTurns
  <1>5. Derivable(r)
    BY <1>1, <1>4 DEF Derivable
  <1>6. ~AlreadyDerived(r)
    BY DEF AlreadyDerived
  <1>7. ASSUME NEW m \in LiveMessages({r}) PROVE m \in {t.m : t \in OwnTurns(r)}
    <2>1. PICK i \in DOMAIN r.turns : m # 0 /\ r.turns[i].m = m
      BY <1>7, InLive
    <2>2. r.turns[i].own
      BY <2>1 DEF LiveOK
    <2>3. r.turns[i] \in OwnTurns(r)
      BY <2>1, <2>2 DEF OwnTurns
    <2> QED BY <2>1, <2>3
  <1> QED BY <1>5, <1>6, <1>7

LEMMA LivePersists ==
  ASSUME Held, LiveTurnsAreKept, NEW r \in Tracked, Sound(r), Tracked' = Tracked \ {r}, PersistClosed(r)
  PROVE  LiveTurnsAreKept'
  <1>1. Rec(r) /\ LiveOK(r) /\ Shape /\ r.replayed \in BOOLEAN
    BY TrackedOnes DEF Held, Sound, TrackInv, Rec
  <1>2. Tracked \subseteq Tracked' \cup {r}
    OBVIOUS
  <1>3. CASE UNCHANGED <<rows, tasks, ghost>> /\ (~Derivable(r) \/ AlreadyDerived(r))
    <2>1. r.replayed
      BY <1>1, <1>3, LiveIsWritten
    <2>2. LiveMessages({r}) = {}
      BY <2>1, InLive
    <2>3. LiveMessages(Tracked) \subseteq LiveMessages(Tracked')
      BY <1>2, <2>2, LiveOfMore, LiveOfBoth
    <2> QED BY <1>3, <2>3, KeptAsIs
  <1>4. CASE UNCHANGED <<rows, tasks>> /\ Drop({r})
    BY <1>1, <1>2, <1>4, KeptDropped DEF Drop
  <1>5. ASSUME NEW checked \in BOOLEAN, NEW cleared \in BOOLEAN, Store(r, checked, cleared) PROVE LiveTurnsAreKept'
    <2> DEFINE iid == Identity(r, checked)
               gone == IF r.replayed /\ cleared THEN FailedEpisodes(iid) ELSE {}
    <2>1. rows' = (rows \ gone) \cup {NewRow(r, iid)} /\ ghost' = ghost
      BY <1>5 DEF Store
    <2>2. \A q \in gone : q.replayed
      <3>1. \A row \in rows : row.iid.uid # r.id /\ (row.iid.uid = 0 => row.replayed)
        BY DEF Held, StoreInv, Unstored, RowsOK, RowOK
      <3>2. iid.uid \in {0, r.id}
        BY <1>1, IdentityIs
      <3> QED BY <3>1, <3>2 DEF FailedEpisodes
    <2>3. NewRow(r, iid).replayed = r.replayed /\ NewRow(r, iid).msgs = {t.m : t \in OwnTurns(r)}
      BY DEF NewRow
    <2> HIDE DEF gone, iid
    <2>4. RowMsgs(rows) \subseteq RowMsgs(rows')
      BY <2>1, <2>2 DEF RowMsgs
    <2>5. LiveMessages({r}) \subseteq RowMsgs(rows')
      <3>1. CASE r.replayed
        BY <3>1, InLive
      <3>2. CASE ~r.replayed
        <4>1. LiveMessages({r}) \subseteq NewRow(r, iid).msgs /\ NewRow(r, iid) \in rows' /\ ~NewRow(r, iid).replayed
          BY <1>1, <3>2, <2>1, <2>3, LiveIsWritten
        <4> QED BY <4>1 DEF RowMsgs
      <3> QED BY <3>1, <3>2
    <2>6. LiveMessages(Tracked) \subseteq LiveMessages(Tracked') \cup LiveMessages({r})
      BY <1>2, LiveOfMore, LiveOfBoth
    <2> QED BY <2>1, <2>4, <2>5, <2>6, KeptIs, KeptNext
  <1> QED BY <1>3, <1>4, <1>5 DEF PersistClosed

(* The step takes no record in.                                            *)
Settled ==
  /\ \A r \in Tracked' : \E q \in Tracked : Alike(q, r)
  /\ \A r \in trk'.open : \E q \in trk.open : Alike(q, r)

LEMMA AlikeItself == ASSUME NEW r PROVE Alike(r, r)
  BY DEF Alike

LEMMA SettledSubset ==
  ASSUME Tracked' \subseteq Tracked, trk'.open \subseteq trk.open PROVE Settled
  BY AlikeItself DEF Settled

(* Neither a message about to be recorded nor a stop begins.               *)
Calm ==
  /\ job' # NoJob /\ job'.pc = "turn" => job # NoJob /\ job.pc = "turn" /\ job'.kind = job.kind /\ job'.m = job.m /\ job'.dup = job.dup
  /\ job' # NoJob /\ job'.pc = "drain" => job # NoJob /\ job.pc = "drain" /\ (catch.pc = "off" => catch'.pc = "off")
  /\ catch'.pc # "sweep" => catch'.todo = {}

LEMMA Calmly == ASSUME SameRoom, Settled, Calm PROVE Steady
  BY DEF Settled, Calm, Steady

LEMMA CalmlyAtRest ==
  ASSUME SoundInv, catch' = catch, \/ job' = job
                                   \/ job' = NoJob
                                   \/ job'.pc # "turn" /\ job'.pc # "drain"
  PROVE  Calm
  BY DEF Calm, SoundInv, DrainInv

(* No live turn is forgotten.                                              *)
LiveHeld == SoundInv /\ LiveTurnsAreKept
(* The step leaves the records, the rows and the ghost as they are, but for closing records. *)
LEMMA LiveRests ==
  ASSUME Held, LiveHeld, SameRoom, Calm, Tracked' = Tracked, trk'.open \subseteq trk.open, ghost' = ghost, RowMsgs(rows) \subseteq RowMsgs(rows')
  PROVE  LiveHeld'
  <1>1. SoundInv'
    BY SettledSubset, Calmly, SteadySound DEF LiveHeld
  <1>2. LiveTurnsAreKept'
    BY KeptAsIs DEF LiveHeld
  <1> QED BY <1>1, <1>2 DEF LiveHeld

LEMMA RestsLive ==
  ASSUME Held, LiveHeld, SameRoom, Calm, Shape', Rests, UNCHANGED <<rows, ghost>> PROVE LiveHeld'
  <1>1. Tracked' = Tracked /\ trk'.open \subseteq trk.open
    BY RestsTracks DEF Held, Rests
  <1> QED BY <1>1, LiveRests

LEMMA ClosesLive ==
  ASSUME NEW S, Held, LiveHeld, SameRoom, Calm, Shape', Closes(S), UNCHANGED <<rows, ghost>> PROVE LiveHeld'
  <1>1. Tracked' = Tracked /\ trk'.open \subseteq trk.open
    BY ClosesTracks DEF Held, Closes
  <1> QED BY <1>1, LiveRests

LEMMA BootLive == ASSUME Held, LiveHeld, Boot PROVE LiveHeld'
  <1>1. Shape' /\ Rests /\ SameRoom /\ UNCHANGED <<rows, ghost, job>>
    BY BootRests DEF Held, Boot
  <1>2. Calm
    <2>1. job = NoJob /\ catch.todo = {} /\ catch'.todo = {}
      BY DEF Held, TrackInv, Shape, Boot, CatchOK
    <2> QED BY <1>1, <2>1 DEF Calm
  <1> QED BY <1>1, <1>2, RestsLive

LEMMA PublishLive == ASSUME Held, LiveHeld, Publish PROVE LiveHeld'
  <1>1. Shape' /\ Rests /\ SameRoom /\ UNCHANGED <<rows, ghost, job, catch>> /\ SoundInv
    BY PublishRests DEF Held, LiveHeld, Publish
  <1> QED BY <1>1, CalmlyAtRest, RestsLive

LEMMA CrashLive == ASSUME Held, LiveHeld, Crash PROVE LiveHeld'
  <1>1. /\ TrackInv' /\ Tracked' = {} /\ SameRoom /\ job' = NoJob /\ UNCHANGED rows /\ Shape
        /\ ghost' = [ghost EXCEPT !.lost = @ \cup LiveMessages(Tracked)]
    BY CrashTracks DEF Held, TrackInv
  <1>2. trk'.open = {} /\ catch'.todo = {}
    BY <1>1, TrackedNext
  <1>3. Calm /\ Settled
    BY <1>1, <1>2 DEF Calm, Settled
  <1>4. SoundInv'
    BY <1>1, <1>3, Calmly, SteadySound DEF LiveHeld
  <1>5. LiveTurnsAreKept'
    BY <1>1, KeptDropped DEF LiveHeld
  <1> QED BY <1>4, <1>5 DEF LiveHeld

LEMMA DrainedLive == ASSUME Held, LiveHeld, Drained PROVE LiveHeld'
  <1>1. /\ TrackInv' /\ Tracked' = {} /\ SameRoom /\ job' = NoJob /\ UNCHANGED <<rows, ghost>>
    BY DrainedTracks DEF Held
  <1>2. trk'.open = {} /\ catch'.todo = {}
    BY <1>1, TrackedNext
  <1>3. Calm /\ Settled
    BY <1>1, <1>2 DEF Calm, Settled
  <1>4. SoundInv'
    BY <1>1, <1>3, Calmly, SteadySound DEF LiveHeld
  <1>5. \A r \in Tracked : r.replayed
    <2>1. job # NoJob /\ job.pc = "drain" /\ JobTodo = {}
      BY DEF Drained, JobAt, JobTodo
    <2>2. catch.todo = {} /\ \A r \in trk.open : r.replayed
      BY <2>1 DEF LiveHeld, SoundInv, DrainInv
    <2> QED BY <2>1, <2>2, TrackedIs
  <1>6. LiveMessages(Tracked) \subseteq LiveMessages(Tracked')
    BY <1>5, InLive
  <1>7. LiveTurnsAreKept'
    BY <1>1, <1>6, KeptAsIs DEF LiveHeld
  <1> QED BY <1>4, <1>7 DEF LiveHeld

LEMMA ClockLive == ASSUME Held, LiveHeld, ClockStep PROVE LiveHeld'
  <1>1. TrackInv' /\ AllAlike /\ SameRoom /\ (\A r \in trk'.open : \E q \in trk.open : Alike(q, r)) /\ UNCHANGED <<job, catch, ghost>>
    BY ClockAges DEF Held
  <1>2. Settled /\ Calm
    BY <1>1, CalmlyAtRest DEF Settled, AllAlike, LiveHeld
  <1>3. SoundInv'
    BY <1>1, <1>2, Calmly, SteadySound DEF LiveHeld
  <1>4. RowMsgs(rows) \subseteq RowMsgs(rows')
    <2> DEFINE g(row) == [row EXCEPT !.age = Capped(@, GraceAge)]
    <2>1. rows' = {g(row) : row \in rows}
      BY DEF ClockStep
    <2>2. \A row \in rows : g(row).msgs = row.msgs /\ g(row).replayed = row.replayed
      BY DEF Held, StoreInv, RowsOK, RowOK
    <2> HIDE DEF g
    <2> QED BY <2>1, <2>2 DEF RowMsgs
  <1>5. LiveTurnsAreKept'
    BY <1>1, <1>4, AlikeLive, KeptAsIs DEF LiveHeld
  <1> QED BY <1>3, <1>5 DEF LiveHeld

LEMMA MessageLive == ASSUME Held, LiveHeld, NEW m, OnMessage(m) \/ OnMessageSilent(m) \/ OnMessageDenied(m) PROVE LiveHeld'
  <1>1. UNCHANGED <<rows, ghost, catch>> /\ TrackInv /\ SoundInv
    BY DEF OnMessage, OnMessageSilent, OnMessageDenied, Held, LiveHeld
  <1>2. CASE OnMessage(m)
    <2>1. job'.pc = "stale"
      BY <1>2 DEF OnMessage, Begin, EventJob
    <2>2. Calm
      BY <1>1, <2>1, CalmlyAtRest
    <2> QED BY <1>1, <1>2, <2>2, MessageCloses, ClosesLive
  <1>3. CASE OnMessageSilent(m)
    <2>1. Calm
      BY <1>1, <1>3, CalmlyAtRest DEF OnMessageSilent
    <2> QED BY <1>1, <1>3, <2>1, SilentRests, RestsLive
  <1>4. CASE OnMessageDenied(m)
    <2>1. job'.pc = "done"
      BY <1>4 DEF OnMessageDenied
    <2>2. Calm
      BY <1>1, <2>1, CalmlyAtRest
    <2> QED BY <1>1, <1>4, <2>2, DeniedCloses, ClosesLive
  <1> QED BY <1>2, <1>3, <1>4

LEMMA NotificationLive == ASSUME Held, LiveHeld, NEW s, NEW w, OnNotification(s, w) PROVE LiveHeld'
  <1>1. UNCHANGED <<rows, ghost, catch>> /\ TrackInv /\ SoundInv /\ job'.pc = "close"
    BY DEF OnNotification, Begin, NoticeJob, Held, LiveHeld
  <1>2. Calm
    BY <1>1, CalmlyAtRest
  <1> QED BY <1>1, <1>2, NotificationCloses, ClosesLive

LEMMA VoteLive == ASSUME Held, LiveHeld, NEW b, NEW y, VoteFailed(b) \/ VotePublished(b, y) PROVE LiveHeld'
  <1>1. UNCHANGED <<rows, ghost, catch>> /\ TrackInv /\ SoundInv
    BY DEF VoteFailed, VotePublished, Resolve, Held, LiveHeld
  <1>2. CASE VoteFailed(b)
    <2>1. Calm
      BY <1>1, <1>2, CalmlyAtRest DEF VoteFailed
    <2> QED BY <1>1, <1>2, <2>1, VoteFailedRests, RestsLive
  <1>3. CASE VotePublished(b, y)
    <2>1. CASE Rests /\ UNCHANGED <<trk, job>>
      <3>1. Calm
        BY <1>1, <2>1, CalmlyAtRest
      <3> QED BY <1>1, <1>3, <2>1, <3>1, VoteCloses, RestsLive
    <2>2. ASSUME NEW S, Closes(S), job' # NoJob, job'.pc = "done" PROVE LiveHeld'
      <3>1. Calm
        BY <1>1, <2>2, CalmlyAtRest
      <3> QED BY <1>1, <1>3, <2>2, <3>1, VoteCloses, ClosesLive
    <2> QED BY <1>1, <1>3, <2>1, <2>2, VoteCloses
  <1> QED BY <1>2, <1>3

LEMMA CleanedMsgs == ASSUME Held, CleanupClosing PROVE RowMsgs(rows) \subseteq RowMsgs(rows')
  <1>1. CASE rows' = rows
    BY <1>1
  <1>2. CASE rows' = {IF Abandoned(row) THEN [row EXCEPT !.summary = "unavailable"] ELSE row : row \in rows}
    <2> DEFINE g(row) == IF Abandoned(row) THEN [row EXCEPT !.summary = "unavailable"] ELSE row
    <2>1. rows' = {g(row) : row \in rows}
      BY <1>2
    <2>2. \A row \in rows : g(row).msgs = row.msgs /\ g(row).replayed = row.replayed
      BY DEF Held, StoreInv, RowsOK, RowOK
    <2> HIDE DEF g
    <2> QED BY <2>1, <2>2 DEF RowMsgs
  <1> QED BY <1>1, <1>2 DEF CleanupClosing

LEMMA TickLive == ASSUME Held, LiveHeld, OnTick \/ OnQuietTick \/ TickEnds PROVE LiveHeld'
  <1>1. UNCHANGED <<ghost, catch>> /\ TrackInv /\ SoundInv
    BY DEF OnTick, OnQuietTick, TickEnds, Held, LiveHeld
  <1>2. CASE OnTick
    <2>1. job'.pc = "janitor" /\ rows' = rows
      BY <1>2 DEF OnTick, Begin
    <2>2. Calm
      BY <1>1, <2>1, CalmlyAtRest
    <2> QED BY <1>1, <1>2, <2>1, <2>2, TickCloses, ClosesLive
  <1>3. CASE OnQuietTick \/ TickEnds
    <2>1. Calm
      BY <1>1, <1>3, CalmlyAtRest DEF OnQuietTick, TickEnds
    <2>2. Tracked' = Tracked /\ trk'.open \subseteq trk.open /\ SameRoom /\ CleanupClosing
      BY <1>1, <1>3, TicksRest, RestsTracks DEF OnQuietTick, TickEnds, Rests
    <2> QED BY <1>1, <2>1, <2>2, CleanedMsgs, LiveRests
  <1> QED BY <1>2, <1>3

LEMMA ShutdownLive == ASSUME Held, LiveHeld, Shutdown PROVE LiveHeld'
  <1>1. /\ UNCHANGED <<ghost, catch, rows>> /\ TrackInv /\ SoundInv /\ Shape' /\ SameRoom /\ Closes(ShutdownCloses)
        /\ catch.pc = "off" /\ job'.pc = "drain" /\ TrackInv' /\ Tracked' = Tracked
    BY ShutdownClosesThem, ClosesTracks DEF Shutdown, Held, LiveHeld
  <1>2. \A r \in trk'.open : r.replayed
    BY <1>1 DEF Closes, ShutdownCloses, Admitted
  <1>3. trk'.open \subseteq trk.open /\ SoundInv
    BY <1>1 DEF Closes
  <1>4. LiveTurnsAreKept'
    BY <1>1, KeptAsIs DEF LiveHeld
  <1>5. \A r \in Tracked' : Sound(r)'
    BY <1>1, AlikeSound, AlikeItself DEF SoundInv
  <1>6. \A r \in trk'.open : Unstamped(r)'
    BY <1>1, <1>3, AlikeUnstamped, AlikeItself DEF SoundInv
  <1>7. Joins' /\ DrainInv'
    BY <1>1, <1>2 DEF Joins, DrainInv, SoundInv
  <1> QED BY <1>4, <1>5, <1>6, <1>7 DEF LiveHeld, SoundInv

LEMMA EndsLive == ASSUME Held, LiveHeld, EndSession \/ JobEnd \/ (\E n \in 1..2 : ParkVote(n)) \/ EventTimeout PROVE LiveHeld'
  <1>1. TrackInv /\ Shape /\ SoundInv /\ LiveTurnsAreKept /\ UNCHANGED rows
    BY DEF EndSession, JobEnd, ParkVote, EventTimeout, Held, LiveHeld, TrackInv
  <1>2. CASE EndSession
    <2>1. catch' = catch /\ job'.pc = "done" /\ ghost' = ghost
      BY <1>1, <1>2 DEF EndSession, JobAt, Shape, JobOK, MessageJob, PlainJob, NoticeJobOK
    <2>2. Calm
      BY <1>1, <2>1, CalmlyAtRest
    <2> QED BY <1>1, <1>2, <2>1, <2>2, SessionCloses, ClosesLive
  <1>3. CASE JobEnd
    <2>1. job' = NoJob /\ ghost' = ghost /\ catch'.pc = catch.pc /\ catch'.todo = catch.todo
      BY <1>1, <1>3 DEF JobEnd, Shape, CatchOK
    <2>2. Calm
      BY <1>1, <2>1 DEF Calm, SoundInv, DrainInv
    <2> QED BY <1>1, <1>3, <2>1, <2>2, JobEndRests, RestsLive
  <1>4. CASE \E n \in 1..2 : ParkVote(n)
    <2>1. job' = NoJob /\ ghost' = ghost /\ catch' = catch
      BY <1>1, <1>4 DEF ParkVote
    <2>2. Calm
      BY <1>1, <2>1, CalmlyAtRest
    <2> QED BY <1>1, <1>4, <2>1, <2>2, ParkRests, RestsLive
  <1>5. CASE EventTimeout
    <2>1. /\ Shape' /\ SameRoom /\ Sheds({}, catch.todo) /\ ghost' = [ghost EXCEPT !.lost = @ \cup LiveMessages(JobTodo)]
          /\ job' = NoJob /\ UNCHANGED <<trk, catch, rows>>
      BY <1>1, <1>5, TimeoutSheds
    <2>2. Tracked' = trk.open \cup {} \cup catch.todo /\ Tracked' \subseteq Tracked
      BY <1>1, <2>1, ShedsTracks
    <2>3. Calm /\ Settled
      BY <1>1, <2>1, <2>2, CalmlyAtRest, SettledSubset
    <2>4. SoundInv'
      BY <1>1, <2>1, <2>3, Calmly, SteadySound
    <2>5. Tracked \subseteq Tracked' \cup JobTodo
      BY <2>2, TrackedIs
    <2>6. LiveTurnsAreKept'
      BY <1>1, <2>1, <2>5, KeptDropped
    <2> QED BY <2>4, <2>6 DEF LiveHeld
  <1> QED BY <1>2, <1>3, <1>4, <1>5

LEMMA StaleLive == ASSUME Held, LiveHeld, CloseStale PROVE LiveHeld'
  <1>1. /\ TrackInv' /\ AllAlike /\ SameRoom /\ trk'.open \subseteq trk.open /\ UNCHANGED <<catch, rows, ghost>>
        /\ MessageJob(job) /\ job' # NoJob /\ job'.pc = "turn" /\ job'.kind = job.kind /\ job'.m = job.m
        /\ job'.dup = (job.kind = "replay" /\ job.m \in trk.live)
        /\ \A r \in trk'.open : ~CatchupBoundary(r, job.m, job.kind = "replay") /\ ~WireRotationCloses(r, History[job.m].wire)
    BY StaleCloses DEF Held
  <1>2. History' = History /\ SoundInv /\ LiveTurnsAreKept
    BY <1>1, RoomStays DEF LiveHeld
  <1>3. \A r \in Tracked' : Sound(r)'
    BY <1>1, <1>2, AlikeSound DEF AllAlike, SoundInv
  <1>4. \A r \in trk'.open : Unstamped(r)'
    BY <1>1, <1>2, AlikeUnstamped, AlikeItself DEF SoundInv
  <1>5. Joins'
    <2>1. \A r \in trk'.open : r.speaker = History[job.m].speaker => r.replayed = (job.kind = "replay")
      <3> SUFFICES ASSUME NEW r \in trk'.open, r.speaker = History[job.m].speaker PROVE r.replayed = (job.kind = "replay")
        OBVIOUS
      <3>1. r.replayed \in BOOLEAN
        BY <1>1 DEF TrackInv, Placed, Rec
      <3> QED BY <1>1, <3>1 DEF CatchupBoundary
    <2>2. job'.kind = "event" => ~job'.dup
      BY <1>1
    <2>3. \A r \in trk'.open : ~WireRotationCloses(r, History[job.m].wire)
      BY <1>1
    <2> QED BY <1>1, <1>2, <2>1, <2>2, <2>3 DEF Joins
  <1>6. DrainInv'
    BY <1>1, <1>2 DEF DrainInv, SoundInv
  <1>7. LiveTurnsAreKept'
    BY <1>1, <1>2, AlikeLive, KeptAsIs
  <1> QED BY <1>3, <1>4, <1>5, <1>6, <1>7 DEF LiveHeld, SoundInv

(* A record a message may be appended to: an open one of its kind, or none yet. *)
Fits(b) ==
  /\ b.replayed = (job.kind = "replay") /\ ~WireRotationCloses(b, History[job.m].wire)
  /\ Sound(b) \/ b.turns = <<>>
  /\ Unstamped(b)

LEMMA JoinedFits ==
  ASSUME Held, SoundInv, AddTurn, NEW b, NEW x, Joined(b, x) PROVE Fits(b)
  <1>1. job # NoJob /\ job.pc = "turn"
    BY DEF AddTurn, JobAt
  <1>2. CASE b \in trk.open
    BY <1>1, <1>2, TrackedIs DEF Fits, SoundInv, Joins, Joined
  <1>3. CASE b = NewRecord(count.ids + 1, History[job.m].speaker, job.kind = "replay", Owned(job.m))
    <2>1. b.turns = <<>> /\ b.wire = NoWire /\ b.replayed = (job.kind = "replay")
      BY <1>3 DEF NewRecord
    <2> QED BY <2>1 DEF Fits, WireRotationCloses, Unstamped
  <1> QED BY <1>2, <1>3, SMTT(30) DEF Joined

(* What the turns of a record become.                                      *)
LEMMA TurnsOfGrown ==
  ASSUME NEW b, Base(b), NEW t \in TurnSet, NEW x, NEW w, Grows(b, x, t, w)
  PROVE  /\ \A i \in DOMAIN x.turns : x.turns[i] = t \/ (i \in DOMAIN b.turns /\ x.turns[i] = b.turns[i])
         /\ \A i \in DOMAIN b.turns : i \in DOMAIN x.turns /\ x.turns[i] = b.turns[i]
         /\ \E i \in DOMAIN x.turns : x.turns[i] = t
         /\ x.turns[1] = IF b.turns = <<>> THEN t ELSE b.turns[1]
         /\ b.turns # <<>> => 1 \in DOMAIN b.turns
  <1> DEFINE s == b.turns
  <1>1. s \in Seq(TurnSet) /\ x.turns = Append(s, t)
    BY DEF Base, Grows
  <1> HIDE DEF s
  <1>2. /\ DOMAIN s = 1..Len(s) /\ DOMAIN x.turns = 1..(Len(s) + 1) /\ Len(s) \in Nat
        /\ \A i \in DOMAIN s : x.turns[i] = s[i]
        /\ x.turns[Len(s) + 1] = t /\ (s = <<>> <=> Len(s) = 0)
    BY <1>1, TurnAdded
  <1>3. \A i \in DOMAIN x.turns : i = Len(s) + 1 \/ i \in DOMAIN s
    BY <1>2
  <1>4. s # <<>> => 1 \in DOMAIN s
    BY <1>2
  <1>5. s = <<>> => Len(s) + 1 = 1
    BY <1>2
  <1> QED BY <1>2, <1>3, <1>4, <1>5 DEF s

LEMMA TurnSound ==
  ASSUME Held, SoundInv, AddTurn, NEW b, NEW x, Joined(b, x)
  PROVE  Sound(x)' /\ (x \in trk'.open => Unstamped(x)')
  <1> DEFINE t == [m |-> job.m, own |-> ~job.dup]  w == History[job.m].wire
  <1>1. Fits(b) /\ Base(b) /\ Grows(b, x, t, w)
    BY JoinedFits, SMTT(30) DEF Joined
  <1>2. /\ History' = History /\ Messages' = Messages /\ MessageJob(job) /\ job.m \in Messages /\ job # NoJob /\ job.pc = "turn"
    BY TurnJoinsOne, RoomStays, Zenon DEF Held, MessageJob, AddTurn, JobAt
  <1>3. t \in TurnSet /\ t.m = job.m /\ t.own = ~job.dup /\ job.m # 0 /\ job.m \in Nat
    BY <1>2, RoomEntry DEF TurnSet, MessageJob, Held, TrackInv, Shape
  <1>4. job.kind # "replay" => t.own
    BY <1>2, <1>3 DEF MessageJob, SoundInv, Joins
  <1> HIDE DEF t
  <1>5. /\ \A i \in DOMAIN x.turns : x.turns[i] = t \/ (i \in DOMAIN b.turns /\ x.turns[i] = b.turns[i])
        /\ x.turns[1] = (IF b.turns = <<>> THEN t ELSE b.turns[1])
        /\ b.turns # <<>> => 1 \in DOMAIN b.turns
    BY <1>1, <1>3, TurnsOfGrown
  <1>6. x.replayed = b.replayed /\ b.replayed = (job.kind = "replay")
    BY <1>1 DEF Grows, Fits
  <1>7. b.turns = <<>> => DOMAIN b.turns = {}
    OBVIOUS
  <1>8. LiveOK(x)'
    BY <1>1, <1>3, <1>4, <1>5, <1>6, <1>7 DEF LiveOK, Fits, Sound
  <1>9. InRoom(x)'
    BY <1>1, <1>2, <1>3, <1>5, <1>7 DEF InRoom, Fits, Sound
  <1>10. Unmixed(x)'
    <2> SUFFICES ASSUME x.wire # NoWire, NEW i \in DOMAIN x.turns, x.turns[i].m # 0
                 PROVE  History[x.turns[i].m].wire \in {x.wire, x.prev, NoWire}
      BY <1>2 DEF Unmixed
    <2>1. CASE x.wire = b.wire /\ x.prev = b.prev
      <3>1. CASE x.turns[i] = t
        BY <1>1, <1>3, <2>1, <3>1 DEF Fits, WireRotationCloses
      <3>2. CASE i \in DOMAIN b.turns /\ x.turns[i] = b.turns[i]
        BY <1>1, <1>7, <2>1, <3>2 DEF Fits, Sound, Unmixed
      <3> QED BY <1>5, <3>1, <3>2
    <2>2. CASE b.wire = NoWire /\ x.wire = w
      <3>1. CASE x.turns[i] = t
        BY <1>3, <2>2, <3>1
      <3>2. CASE i \in DOMAIN b.turns /\ x.turns[i] = b.turns[i]
        BY <1>1, <2>2, <3>2 DEF Fits, Unstamped
      <3> QED BY <1>5, <3>1, <3>2
    <2> QED BY <1>1, <2>1, <2>2 DEF Grows
  <1>11. ASSUME x \in trk'.open PROVE Unstamped(x)'
    <2>1. CASE x \in trk.open
      BY <1>2, <2>1 DEF SoundInv, Unstamped
    <2>2. CASE x.wire = NoWire => b.wire = NoWire /\ w = NoWire
      BY <1>1, <1>2, <1>3, <1>5, <2>2 DEF Unstamped, Fits
    <2> QED BY <1>11, <2>1, <2>2 DEF Joined
  <1> QED BY <1>8, <1>9, <1>10, <1>11 DEF Sound

LEMMA TurnLive == ASSUME Held, LiveHeld, AddTurn PROVE LiveHeld'
  <1>1. /\ SameRoom /\ UNCHANGED <<catch, rows>> /\ MessageJob(job) /\ job' # NoJob /\ job'.pc = "end" /\ Shape /\ SoundInv /\ LiveTurnsAreKept
        /\ ghost' = (IF job.kind = "replay" THEN ghost ELSE [ghost EXCEPT !.recorded = @ \cup {job.m}])
    BY TurnJoinsOne DEF Held, TrackInv, LiveHeld
  <1>2. PICK b, x : Joined(b, x)
    BY TurnJoinsOne DEF Held
  <1>3. Tracked' = (Tracked \ {b}) \cup {x}
    BY <1>2, TurnTracks DEF Held
  <1>4. Sound(x)' /\ (x \in trk'.open => Unstamped(x)')
    BY <1>1, <1>2, TurnSound
  <1>5. \A r \in trk'.open : r = x \/ r \in trk.open
    BY <1>2 DEF Joined
  <1>6. \A r \in Tracked' : Sound(r)'
    BY <1>1, <1>3, <1>4, AlikeSound, AlikeItself DEF SoundInv
  <1>7. \A r \in trk'.open : Unstamped(r)'
    BY <1>1, <1>4, <1>5, AlikeUnstamped, AlikeItself DEF SoundInv
  <1>8. Joins' /\ DrainInv'
    BY <1>1 DEF Joins, DrainInv, SoundInv
  <1>9. LiveTurnsAreKept'
    <2> DEFINE t == [m |-> job.m, own |-> ~job.dup]
    <2>1. Base(b) /\ Grows(b, x, t, History[job.m].wire) /\ t \in TurnSet /\ t.m = job.m /\ job.m # 0 /\ x.replayed = b.replayed
      BY <1>1, <1>2, RoomEntry DEF Joined, Grows, MessageJob, TurnSet, Shape
    <2>2. Fits(b)
      BY <1>1, <1>2, JoinedFits
    <2> HIDE DEF t
    <2>3. /\ \A i \in DOMAIN b.turns : i \in DOMAIN x.turns /\ x.turns[i] = b.turns[i]
          /\ \E i \in DOMAIN x.turns : x.turns[i] = t
      BY <2>1, TurnsOfGrown
    <2>4. LiveMessages(Tracked) \subseteq LiveMessages(Tracked')
      <3> SUFFICES ASSUME NEW m \in LiveMessages(Tracked) PROVE m \in LiveMessages(Tracked')
        OBVIOUS
      <3>1. PICK q \in Tracked : m # 0 /\ ~q.replayed /\ \E i \in DOMAIN q.turns : q.turns[i].m = m
        BY InLive
      <3>2. \E r \in Tracked' : ~r.replayed /\ \E i \in DOMAIN r.turns : r.turns[i].m = m
        <4>1. CASE q = b
          BY <1>3, <2>1, <2>3, <3>1, <4>1
        <4>2. CASE q # b
          BY <1>3, <3>1, <4>2
        <4> QED BY <4>1, <4>2
      <3> QED BY <3>1, <3>2, InLive
    <2>5. CASE job.kind = "replay"
      BY <1>1, <2>4, <2>5, KeptAsIs
    <2>6. CASE job.kind # "replay"
      <3>1. ~x.replayed
        BY <2>1, <2>2, <2>6 DEF Fits
      <3>2. job.m \in LiveMessages(Tracked')
        BY <1>3, <2>1, <2>3, <3>1, InLive
      <3>3. ghost'.recorded = ghost.recorded \cup {job.m} /\ ghost'.lost = ghost.lost
        BY <1>1, <2>6 DEF Shape
      <3> QED BY <1>1, <2>4, <3>2, <3>3, KeptIs, KeptNext
    <2> QED BY <2>5, <2>6
  <1> QED BY <1>6, <1>7, <1>8, <1>9 DEF LiveHeld, SoundInv

LEMMA NoticedSound ==
  ASSUME SameRoom, NEW q, Rec(q), Sound(q), Unstamped(q), NEW x, Noticed(q, x)
  PROVE  Sound(x)' /\ (\A i \in DOMAIN q.turns : i \in DOMAIN x.turns /\ x.turns[i] = q.turns[i])
  <1>1. History' = History /\ Messages' = Messages
    BY RoomStays
  <1>2. /\ \A i \in DOMAIN x.turns : x.turns[i].m = 0 \/ (i \in DOMAIN q.turns /\ x.turns[i] = q.turns[i])
        /\ \A i \in DOMAIN q.turns : i \in DOMAIN x.turns /\ x.turns[i] = q.turns[i]
        /\ x.turns[1] = q.turns[1]
    <2>1. CASE x.turns = q.turns
      BY <2>1
    <2>2. ASSUME NEW b \in BOOLEAN, x.turns = Append(q.turns, [m |-> 0, own |-> b])
          PROVE  <1>2!1 /\ <1>2!2 /\ <1>2!3
      <3> DEFINE s == q.turns  t == [m |-> 0, own |-> b]
      <3>1. s \in Seq(TurnSet) /\ s # <<>> /\ t \in TurnSet /\ t.m = 0
        BY DEF Rec, TurnSet
      <3>2. x.turns = Append(s, t)
        BY <2>2
      <3> HIDE DEF s, t
      <3>3. /\ DOMAIN s = 1..Len(s) /\ DOMAIN x.turns = 1..(Len(s) + 1) /\ Len(s) \in Nat
            /\ \A i \in DOMAIN s : x.turns[i] = s[i]
            /\ x.turns[Len(s) + 1] = t /\ Len(s) # 0
        BY <3>1, <3>2, TurnAdded
      <3>4. \A i \in DOMAIN x.turns : i = Len(s) + 1 \/ i \in DOMAIN s
        BY <3>3
      <3>5. 1 \in DOMAIN s /\ \A i \in DOMAIN s : i \in DOMAIN x.turns
        BY <3>3
      <3> QED BY <3>1, <3>3, <3>4, <3>5 DEF s
    <2> QED BY <2>1, <2>2 DEF Noticed
  <1>3. x.replayed = q.replayed /\ x.prev = q.prev /\ (x.wire = q.wire \/ q.wire = NoWire)
    BY DEF Noticed
  <1>4. LiveOK(x)' /\ InRoom(x)'
    BY <1>1, <1>2, <1>3 DEF Sound, LiveOK, InRoom
  <1>5. Unmixed(x)'
    <2> SUFFICES ASSUME x.wire # NoWire, NEW i \in DOMAIN x.turns, x.turns[i].m # 0
                 PROVE  History[x.turns[i].m].wire \in {x.wire, x.prev, NoWire}
      BY <1>1 DEF Unmixed
    <2>1. i \in DOMAIN q.turns /\ x.turns[i] = q.turns[i]
      BY <1>2
    <2>2. CASE x.wire = q.wire
      BY <1>3, <2>1, <2>2 DEF Sound, Unmixed
    <2>3. CASE q.wire = NoWire
      BY <2>1, <2>3 DEF Unstamped
    <2> QED BY <1>3, <2>2, <2>3
  <1> QED BY <1>2, <1>4, <1>5 DEF Sound

LEMMA NoticeLive == ASSUME Held, LiveHeld, NEW red, NoticeClose(red) PROVE LiveHeld'
  <1>1. /\ TrackInv /\ SameRoom /\ trk'.open \subseteq trk.open /\ UNCHANGED <<catch, rows, ghost>>
        /\ job' # NoJob /\ job'.pc = "done" /\ SoundInv /\ LiveTurnsAreKept
        /\ \A r \in Tracked' : r \in Tracked \/ \E q \in trk.open : ~q.replayed /\ Noticed(q, r)
        /\ \A q \in Tracked : q \in Tracked' \/ (~q.replayed /\ q \in trk.open /\ \E r \in Tracked' : Noticed(q, r))
    BY NoticeCloses DEF Held, LiveHeld
  <1>2. \A q \in trk.open : Rec(q) /\ Sound(q) /\ Unstamped(q)
    BY <1>1, TrackedIs, TrackedOnes DEF SoundInv
  <1>3. \A r \in Tracked' : Sound(r)'
    <2> SUFFICES ASSUME NEW r \in Tracked' PROVE Sound(r)'
      OBVIOUS
    <2>1. CASE r \in Tracked
      BY <1>1, <2>1, AlikeSound, AlikeItself DEF SoundInv
    <2>2. ASSUME NEW q \in trk.open, Noticed(q, r) PROVE Sound(r)'
      BY <1>1, <1>2, <2>2, NoticedSound
    <2> QED BY <1>1, <2>1, <2>2
  <1>4. \A r \in trk'.open : Unstamped(r)'
    BY <1>1, AlikeUnstamped, AlikeItself DEF SoundInv
  <1>5. Joins' /\ DrainInv'
    BY <1>1 DEF Joins, DrainInv, SoundInv
  <1>6. LiveMessages(Tracked) \subseteq LiveMessages(Tracked')
    <2> SUFFICES ASSUME NEW m \in LiveMessages(Tracked) PROVE m \in LiveMessages(Tracked')
      OBVIOUS
    <2>1. PICK q \in Tracked : m # 0 /\ ~q.replayed /\ \E i \in DOMAIN q.turns : q.turns[i].m = m
      BY InLive
    <2>2. CASE q \in Tracked'
      BY <2>1, <2>2, InLive
    <2>3. ASSUME q \in trk.open, NEW r \in Tracked', Noticed(q, r) PROVE m \in LiveMessages(Tracked')
      <3>1. \A i \in DOMAIN q.turns : i \in DOMAIN r.turns /\ r.turns[i] = q.turns[i]
        BY <1>1, <1>2, <2>3, NoticedSound
      <3>2. ~r.replayed
        BY <2>1, <2>3 DEF Noticed
      <3> QED BY <2>1, <3>1, <3>2, InLive
    <2> QED BY <1>1, <2>2, <2>3
  <1>7. LiveTurnsAreKept'
    BY <1>1, <1>6, KeptAsIs
  <1> QED BY <1>3, <1>4, <1>5, <1>7 DEF LiveHeld, SoundInv

LEMMA ReplayLive ==
  ASSUME Held, LiveHeld, FetchWindow \/ FetchFails \/ ReplayMessage \/ ReplayRaises \/ ReplayFinished \/ ReplayCutShort PROVE LiveHeld'
  <1>1. TrackInv /\ Shape /\ CatchOK(catch) /\ SoundInv /\ LiveTurnsAreKept /\ UNCHANGED rows
    BY DEF FetchWindow, FetchFails, ReplayMessage, ReplayRaises, ReplayFinished, ReplayCutShort, Held, TrackInv, Shape, LiveHeld
  <1>2. CASE FetchWindow
    <2>1. job' = job /\ ghost' = ghost /\ catch'.todo = catch.todo /\ catch.pc = "list" /\ catch'.pc = "replay"
      BY <1>1, <1>2 DEF FetchWindow, CatchOK
    <2>2. Calm
      BY <1>1, <2>1 DEF Calm, SoundInv, DrainInv
    <2> QED BY <1>1, <1>2, <2>1, <2>2, FetchRests, RestsLive
  <1>3. CASE FetchFails
    <2>1. job' = job /\ ghost' = ghost /\ catch.pc = "list" /\ catch'.pc = "sweep"
      BY <1>1, <1>3 DEF FetchFails, SweepFrom, CatchOK
    <2>2. Calm
      BY <1>1, <2>1 DEF Calm
    <2> QED BY <1>1, <1>3, <2>1, <2>2, FetchFailsRests, RestsLive
  <1>4. CASE ReplayMessage
    <2>1. catch' = catch /\ ghost' = ghost /\ job'.pc = "stale"
      BY <1>4 DEF ReplayMessage, Begin, EventJob
    <2>2. Calm
      BY <1>1, <2>1, CalmlyAtRest
    <2> QED BY <1>1, <1>4, <2>1, <2>2, ReplayCloses, ClosesLive
  <1>5. CASE ReplayRaises
    <2>1. job' = job /\ ghost' = ghost /\ job = NoJob /\ catch'.pc = catch.pc /\ catch'.todo = catch.todo
      BY <1>1, <1>5 DEF CatchOK, ReplayRaises
    <2>2. Calm
      BY <1>1, <2>1 DEF Calm, SoundInv, DrainInv
    <2> QED BY <1>1, <1>5, <2>1, <2>2, RaisesRests, RestsLive
  <1>6. CASE ReplayFinished
    <2>1. job' = job /\ ghost' = ghost /\ catch.pc = "replay" /\ catch'.pc = "sweep"
      BY <1>1, <1>6 DEF ReplayFinished, Replaying, SweepFrom, CatchOK
    <2>2. Calm
      BY <1>1, <2>1 DEF Calm
    <2> QED BY <1>1, <1>6, <2>1, <2>2, FinishedRests, RestsLive
  <1>7. CASE ReplayCutShort
    <2>1. Shape' /\ SameRoom /\ UNCHANGED trk /\ catch'.pc = "sweep" /\ catch.pc = "replay"
      BY <1>1, <1>7, CutShortSheds
    <2>2. CASE Sheds({}, catch.todo) /\ job' = NoJob /\ ghost' = [ghost EXCEPT !.lost = @ \cup LiveMessages(JobTodo)]
      <3>1. Tracked' = trk.open \cup {} \cup catch.todo /\ Tracked' \subseteq Tracked
        BY <1>1, <2>1, <2>2, ShedsTracks
      <3>2. Calm /\ Settled
        BY <2>1, <2>2, <3>1, SettledSubset DEF Calm
      <3>3. SoundInv'
        BY <1>1, <2>1, <3>2, Calmly, SteadySound
      <3>4. Tracked \subseteq Tracked' \cup JobTodo
        BY <3>1, TrackedIs
      <3>5. LiveTurnsAreKept'
        BY <1>1, <2>2, <3>4, KeptDropped
      <3> QED BY <3>3, <3>5 DEF LiveHeld
    <2>3. CASE Sheds(JobTodo, catch.todo) /\ UNCHANGED <<job, ghost>>
      <3>1. Tracked' = trk.open \cup JobTodo \cup catch.todo /\ trk'.open \subseteq trk.open
        BY <1>1, <2>1, <2>3, ShedsTracks
      <3>2. Tracked' = Tracked
        BY <3>1, TrackedIs
      <3>3. Calm
        BY <1>1, <2>1, <2>3 DEF Calm
      <3> QED BY <1>1, <2>1, <2>3, <3>1, <3>2, <3>3, LiveRests
    <2> QED BY <1>1, <1>7, <2>2, <2>3, CutShortSheds
  <1> QED BY <1>2, <1>3, <1>4, <1>5, <1>6, <1>7

LEMMA SweepLive == ASSUME Held, LiveHeld, SweepClose \/ SweepEnd PROVE LiveHeld'
  <1>1. SoundInv /\ LiveTurnsAreKept /\ TrackInv /\ CatchOK(catch)
    BY DEF Held, LiveHeld, TrackInv, Shape
  <1>2. CASE SweepClose
    <2>1. /\ AllAlike /\ SameRoom /\ trk'.open \subseteq trk.open /\ UNCHANGED <<job, rows, ghost>> /\ catch'.pc = "sweep" /\ catch.pc = "sweep"
      BY <1>1, <1>2, SweepCloses
    <2>2. Settled /\ Calm
      BY <2>1, AlikeItself DEF Settled, Calm, AllAlike
    <2>3. SoundInv'
      BY <1>1, <2>1, <2>2, Calmly, SteadySound
    <2>4. LiveTurnsAreKept'
      BY <1>1, <2>1, AlikeLive, KeptAsIs
    <2> QED BY <2>3, <2>4 DEF LiveHeld
  <1>3. CASE SweepEnd
    <2>1. job' = job /\ catch.pc = "sweep" /\ catch'.pc = "off" /\ catch'.todo = {} /\ UNCHANGED <<rows, ghost>>
      BY <1>1, <1>3 DEF SweepEnd, Sweeping, CatchOK
    <2>2. Calm
      BY <2>1 DEF Calm
    <2> QED BY <1>1, <1>3, <2>1, <2>2, SweepEndRests, RestsLive
  <1> QED BY <1>2, <1>3

LEMMA PersistLive == ASSUME Held, LiveHeld, JobPersist \/ SweepPersist PROVE LiveHeld'
  <1>1. SoundInv /\ LiveTurnsAreKept /\ TrackInv
    BY DEF Held, LiveHeld
  <1>2. CASE JobPersist
    <2> DEFINE r == First(job.todo)
    <2>1. /\ Shape' /\ SameRoom /\ Sheds(JobTodo \ {r}, catch.todo) /\ r \in JobTodo /\ r \in Tracked /\ PersistClosed(r)
          /\ UNCHANGED <<trk, catch>> /\ job # NoJob /\ job' # NoJob /\ job'.kind = job.kind /\ job'.pc = job.pc
          /\ (job.kind \in {"event", "replay"} /\ job.pc = "turn" => job'.m = job.m /\ job'.dup = job.dup)
      BY <1>1, <1>2, JobPersistSheds DEF JobTodo
    <2> HIDE DEF r
    <2>2. Tracked' = trk.open \cup (JobTodo \ {r}) \cup catch.todo /\ Tracked' \subseteq Tracked
      BY <1>1, <2>1, ShedsTracks
    <2>3. r \notin trk.open /\ r \notin catch.todo
      BY <1>1, <2>1 DEF TrackInv, Placed
    <2>4. Tracked' = Tracked \ {r}
      BY <2>2, <2>3, TrackedIs
    <2>5. job.pc = "turn" => job.kind \in {"event", "replay"}
      BY <1>1, <2>1 DEF TrackInv, Shape, JobOK, MessageJob, NoticeJobOK, PlainJob
    <2>6. Calm
      BY <1>1, <2>1, <2>5 DEF Calm, SoundInv, DrainInv
    <2>7. SoundInv'
      BY <1>1, <2>1, <2>2, <2>6, SettledSubset, Calmly, SteadySound
    <2>8. LiveTurnsAreKept'
      BY <1>1, <2>1, <2>4, LivePersists DEF SoundInv
    <2> QED BY <2>7, <2>8 DEF LiveHeld
  <1>3. CASE SweepPersist
    <2> DEFINE r == First(catch.todo)
    <2>1. /\ Shape' /\ SameRoom /\ Sheds(JobTodo, catch.todo \ {r}) /\ r \in catch.todo /\ r \in Tracked /\ PersistClosed(r)
          /\ UNCHANGED <<trk, job>> /\ catch'.pc = catch.pc
      BY <1>1, <1>3, SweepPersistSheds
    <2> HIDE DEF r
    <2>2. Tracked' = trk.open \cup JobTodo \cup (catch.todo \ {r}) /\ Tracked' \subseteq Tracked
      BY <1>1, <2>1, ShedsTracks
    <2>3. r \notin trk.open /\ r \notin JobTodo
      BY <1>1, <2>1 DEF TrackInv, Placed
    <2>4. Tracked' = Tracked \ {r}
      BY <2>2, <2>3, TrackedIs
    <2>5. catch'.pc = "sweep"
      BY <1>1, <2>1 DEF SoundInv, DrainInv
    <2>6. Calm
      BY <1>1, <2>1, <2>5 DEF Calm
    <2>7. SoundInv'
      BY <1>1, <2>1, <2>2, <2>6, SettledSubset, Calmly, SteadySound
    <2>8. LiveTurnsAreKept'
      BY <1>1, <2>1, <2>4, LivePersists DEF SoundInv
    <2> QED BY <2>7, <2>8 DEF LiveHeld
  <1> QED BY <1>2, <1>3

LEMMA FinalizeLive == ASSUME Held, LiveHeld, Finalize PROVE LiveHeld'
  <1>1. PICK k \in tasks : TaskEnter(k) \/ TaskFacts(k) \/ \E ok \in BOOLEAN : TaskUpdate(k, ok)
    BY DEF Finalize
  <1>2. UNCHANGED <<job, catch, ghost>> /\ TrackInv /\ SoundInv /\ \A row \in rows : RowOK(row, count.ids)
    BY <1>1 DEF TaskEnter, TaskFacts, TaskUpdate, Held, LiveHeld, StoreInv, RowsOK
  <1>3. Shape' /\ Rests /\ SameRoom
    BY <1>1, <1>2, TasksRest
  <1>4. Tracked' = Tracked /\ trk'.open \subseteq trk.open
    BY <1>2, <1>3, RestsTracks DEF Rests
  <1>5. RowMsgs(rows) \subseteq RowMsgs(rows')
    <2>1. CASE TaskEnter(k)
      BY <2>1 DEF TaskEnter
    <2>2. CASE TaskFacts(k)
      <3> DEFINE g(row) == IF row.iid = k.iid /\ k.ok THEN [row EXCEPT !.facts = Capped(@, 2)] ELSE row
      <3>1. rows' = {g(row) : row \in rows}
        BY <2>2 DEF TaskFacts
      <3>2. \A row \in rows : g(row).msgs = row.msgs /\ g(row).replayed = row.replayed
        BY <1>2 DEF RowOK
      <3> HIDE DEF g
      <3> QED BY <3>1, <3>2 DEF RowMsgs
    <2>3. ASSUME NEW ok \in BOOLEAN, TaskUpdate(k, ok) PROVE RowMsgs(rows) \subseteq RowMsgs(rows')
      <3> DEFINE hit == {row \in rows : Updates(row, k)}
                 g(row) == [row EXCEPT !.summary = SummaryOf(ok)]
      <3>1. rows' = (rows \ hit) \cup {g(row) : row \in hit}
        BY <2>3 DEF TaskUpdate
      <3>2. \A row \in rows : g(row).msgs = row.msgs /\ g(row).replayed = row.replayed
        BY <1>2 DEF RowOK
      <3>3. hit \subseteq rows
        OBVIOUS
      <3> HIDE DEF g, hit
      <3>4. \A row \in rows : \E q \in rows' : q.msgs = row.msgs /\ q.replayed = row.replayed
        BY <3>1, <3>2, <3>3
      <3> QED BY <3>4 DEF RowMsgs
    <2> QED BY <1>1, <2>1, <2>2, <2>3
  <1>6. Calm
    BY <1>2, CalmlyAtRest
  <1> QED BY <1>2, <1>3, <1>4, <1>5, <1>6, LiveRests

LEMMA LiveStep == Held /\ LiveHeld /\ [Next]_vars => LiveHeld'
  <1> SUFFICES ASSUME Held, LiveHeld, [Next]_vars PROVE LiveHeld'
    OBVIOUS
  <1>1. CASE UNCHANGED vars
    <2>1. TrackInv /\ SoundInv /\ Shape' /\ Rests /\ SameRoom /\ UNCHANGED <<rows, ghost, catch, job>>
      BY <1>1, StutterRests DEF Held, LiveHeld, vars
    <2> QED BY <2>1, CalmlyAtRest, RestsLive
  <1>2. CASE Locked
    BY <1>2, PersistLive, StaleLive, TurnLive, EndsLive, NoticeLive, TickLive DEF Locked
  <1>3. CASE Sweep
    BY <1>3, SweepLive, PersistLive DEF Sweep
  <1>4. CASE World
    BY <1>4, BootLive, CrashLive, PublishLive, ClockLive DEF World
  <1>5. CASE EventTimeout \/ Drained
    BY <1>5, EndsLive, DrainedLive
  <1>6. CASE Replay
    BY <1>6, ReplayLive DEF Replay
  <1>7. CASE Finalize
    BY <1>7, FinalizeLive
  <1>8. CASE Arrive
    <2>1. CASE \E m \in inbox : OnMessage(m) \/ OnMessageSilent(m) \/ OnMessageDenied(m)
      BY <2>1, MessageLive
    <2>2. CASE \E s \in Speakers \cup {Self}, w \in Wires \cup {NoWire} : OnNotification(s, w)
      BY <2>2, NotificationLive
    <2>3. CASE \E b \in ballots : VoteFailed(b) \/ \E y \in BOOLEAN : VotePublished(b, y)
      BY <2>3, VoteLive
    <2>4. CASE OnTick \/ OnQuietTick \/ Shutdown
      BY <2>4, TickLive, ShutdownLive
    <2> QED BY <1>8, <2>1, <2>2, <2>3, <2>4 DEF Arrive
  <1> QED BY <1>1, <1>2, <1>3, <1>4, <1>5, <1>6, <1>7, <1>8 DEF Next

LEMMA LiveInit == Init => LiveHeld
  <1> SUFFICES ASSUME Init PROVE LiveHeld
    OBVIOUS
  <1>1. /\ TrackInv /\ Tracked = {} /\ catch.pc = "off" /\ job = NoJob /\ ghost.recorded = {} /\ catch.todo = {} /\ trk.open = {}
    BY InitTracks DEF Init, FreshTracker
  <1> QED BY <1>1 DEF LiveHeld, SoundInv, Joins, DrainInv, LiveTurnsAreKept

(***************************************************************************)
(* The gate.                                                               *)
(***************************************************************************)
Inside(K) == {k \in K : k.replayed /\ k.pc # "gate"}

GateOK(K) == IsFiniteSet(K) /\ Cardinality(Inside(K)) <= GateSize

LEMMA FewerInside ==
  ASSUME NEW K, GateOK(K), NEW L, IsFiniteSet(L), Inside(L) \subseteq Inside(K) PROVE GateOK(L)
  <1>1. IsFiniteSet(Inside(K))
    BY FS_Subset DEF GateOK, Inside
  <1>2. IsFiniteSet(Inside(L)) /\ Cardinality(Inside(L)) <= Cardinality(Inside(K))
    BY <1>1, FS_Subset
  <1>3. Cardinality(Inside(L)) \in Nat /\ Cardinality(Inside(K)) \in Nat
    BY <1>1, <1>2, FS_CardinalityType
  <1> QED BY <1>2, <1>3, CloseAssumption DEF GateOK

LEMMA GateEmpty == GateOK({})
  <1>1. Inside({}) = {}
    BY DEF Inside
  <1> QED BY <1>1, FS_EmptySet, CloseAssumption DEF GateOK

LEMMA GatePersists == ASSUME NEW r, Rec(r), GateOK(tasks), PersistClosed(r) PROVE GateOK(tasks')
  <1>1. CASE tasks' = tasks
    BY <1>1
  <1>2. ASSUME NEW c \in BOOLEAN, NEW d \in BOOLEAN, Store(r, c, d) PROVE GateOK(tasks')
    <2> DEFINE k == NewTask(r, Identity(r, c))
    <2>1. tasks' = tasks \cup {k}
      BY <1>2 DEF Store
    <2>2. ~(k.replayed /\ k.pc # "gate")
      BY DEF NewTask, Rec
    <2> HIDE DEF k
    <2>3. Inside(tasks') \subseteq Inside(tasks)
      BY <2>1, <2>2 DEF Inside
    <2>4. IsFiniteSet(tasks')
      BY <2>1, FS_AddElement DEF GateOK
    <2> QED BY <2>3, <2>4, FewerInside
  <1> QED BY <1>1, <1>2 DEF PersistClosed

LEMMA GateFinalizes == ASSUME Held, GateOK(tasks), Finalize PROVE GateOK(tasks')
  <1>1. PICK k \in tasks : TaskEnter(k) \/ TaskFacts(k) \/ \E ok \in BOOLEAN : TaskUpdate(k, ok)
    BY DEF Finalize
  <1>2. /\ IsFiniteSet(tasks) /\ IsFiniteSet(tasks \ {k}) /\ IsFiniteSet(Inside(tasks)) /\ Cardinality(Inside(tasks)) \in Nat
        /\ Cardinality(Inside(tasks)) <= GateSize /\ GateSize \in Nat
    <2>1. IsFiniteSet(tasks) /\ Inside(tasks) \subseteq tasks
      BY DEF GateOK, Inside
    <2>2. IsFiniteSet(Inside(tasks)) /\ IsFiniteSet(tasks \ {k})
      BY <2>1, FS_Subset
    <2> QED BY <2>1, <2>2, FS_CardinalityType, CloseAssumption DEF GateOK
  <1>3. CASE TaskFacts(k)
    <2>1. tasks' = tasks \ {k}
      BY <1>3 DEF TaskFacts
    <2> QED BY <1>2, <2>1, FewerInside DEF Inside
  <1>4. CASE TaskEnter(k)
    <2> DEFINE l == [k EXCEPT !.pc = "llm"]
    <2>1. tasks' = (tasks \ {k}) \cup {l} /\ Cardinality(Inside(tasks)) < GateSize
      BY <1>4 DEF TaskEnter, Inside, InGate
    <2> HIDE DEF l
    <2>2. IsFiniteSet(tasks')
      BY <1>2, <2>1, FS_AddElement
    <2>3. Inside(tasks') \subseteq Inside(tasks) \cup {l}
      BY <2>1 DEF Inside
    <2>4. /\ IsFiniteSet(Inside(tasks) \cup {l})
          /\ Cardinality(Inside(tasks) \cup {l}) \in {Cardinality(Inside(tasks)), Cardinality(Inside(tasks)) + 1}
      BY <1>2, FS_AddElement
    <2>5. IsFiniteSet(Inside(tasks')) /\ Cardinality(Inside(tasks')) <= Cardinality(Inside(tasks) \cup {l})
      BY <2>3, <2>4, FS_Subset
    <2>6. Cardinality(Inside(tasks')) \in Nat
      BY <2>5, FS_CardinalityType
    <2>7. Cardinality(Inside(tasks')) <= GateSize
      BY <1>2, <2>1, <2>4, <2>5, <2>6
    <2> QED BY <2>2, <2>7 DEF GateOK
  <1>5. ASSUME NEW ok \in BOOLEAN, TaskUpdate(k, ok) PROVE GateOK(tasks')
    <2> DEFINE l == [k EXCEPT !.pc = "facts", !.ok = ok]
    <2>1. tasks' = tasks \ {k} \/ tasks' = (tasks \ {k}) \cup {l}
      BY <1>5 DEF TaskUpdate, AfterUpdate
    <2>2. l.replayed = k.replayed /\ k.pc = "llm"
      BY <1>5 DEF TaskUpdate, Held, StoreInv, TasksOK, TaskOK
    <2> HIDE DEF l
    <2>3. CASE tasks' = tasks \ {k}
      BY <1>2, <2>3, FewerInside DEF Inside
    <2>4. CASE tasks' = (tasks \ {k}) \cup {l} /\ ~k.replayed
      <3>1. IsFiniteSet(tasks')
        BY <1>2, <2>4, FS_AddElement
      <3>2. Inside(tasks') \subseteq Inside(tasks)
        BY <2>2, <2>4 DEF Inside
      <3> QED BY <3>1, <3>2, FewerInside
    <2>5. CASE tasks' = (tasks \ {k}) \cup {l} /\ k.replayed
      <3> DEFINE I == Inside(tasks) \ {k}
      <3>1. IsFiniteSet(tasks')
        BY <1>2, <2>5, FS_AddElement
      <3>2. k \in Inside(tasks) /\ Inside(tasks') \subseteq I \cup {l}
        BY <2>2, <2>5 DEF Inside
      <3>3. IsFiniteSet(I) /\ Cardinality(I) = Cardinality(Inside(tasks)) - 1
        BY <1>2, <3>2, FS_RemoveElement
      <3> HIDE DEF I
      <3>4. IsFiniteSet(I \cup {l}) /\ Cardinality(I \cup {l}) \in {Cardinality(I), Cardinality(I) + 1}
        BY <3>3, FS_AddElement
      <3>5. IsFiniteSet(Inside(tasks')) /\ Cardinality(Inside(tasks')) <= Cardinality(I \cup {l})
        BY <3>2, <3>4, FS_Subset
      <3>6. Cardinality(Inside(tasks')) \in Nat
        BY <3>5, FS_CardinalityType
      <3>7. Cardinality(Inside(tasks')) <= GateSize
        BY <1>2, <3>3, <3>4, <3>5, <3>6
      <3> QED BY <3>1, <3>7 DEF GateOK
    <2>6. k.replayed \in BOOLEAN
      BY DEF Held, StoreInv, TasksOK, TaskOK
    <2> QED BY <2>1, <2>3, <2>4, <2>5, <2>6
  <1> QED BY <1>1, <1>3, <1>4, <1>5

LEMMA GateStep == ASSUME Held, GateOK(tasks), [Next]_vars PROVE GateOK(tasks')
  <1>1. CASE tasks' = tasks
    BY <1>1
  <1>2. CASE tasks' = {}
    BY <1>2, GateEmpty
  <1>3. CASE JobPersist
    BY <1>3, JobPersistSheds, GatePersists, TrackedOnes DEF Held
  <1>4. CASE SweepPersist
    BY <1>4, SweepPersistSheds, GatePersists, TrackedOnes DEF Held
  <1>5. CASE Finalize
    BY <1>5, GateFinalizes
  <1>6. CASE UNCHANGED vars
    BY <1>1, <1>6 DEF vars
  <1>7. CASE Locked /\ ~JobPersist
    <2>1. tasks' = tasks
      BY <1>7, Zenon DEF Locked, CloseStale, AddTurn, EndSession, JobEnd, ParkVote, NoticeClose, TickEnds
    <2> QED BY <2>1, SMTT(30)
  <1>8. CASE Sweep /\ ~SweepPersist
    <2>1. tasks' = tasks
      BY <1>8 DEF Sweep, SweepClose, SweepEnd
    <2> QED BY <2>1
  <1>9. CASE World \/ EventTimeout \/ Drained
    <2>1. tasks' = tasks \/ tasks' = {}
      BY <1>9 DEF World, Boot, Crash, Publish, ClockStep, EventTimeout, Drained, Halt
    <2> QED BY <2>1, <1>1, <1>2
  <1>10. CASE Replay
    <2>1. tasks' = tasks
      BY <1>10 DEF Replay, FetchWindow, FetchFails, ReplayMessage, ReplayRaises, ReplayFinished, ReplayCutShort
    <2> QED BY <2>1
  <1>11. CASE Arrive
    <2>1. tasks' = tasks
      BY <1>11 DEF Arrive, OnMessage, OnMessageSilent, OnMessageDenied, OnNotification, VoteFailed, VotePublished, Resolve, OnTick, OnQuietTick, Shutdown
    <2> QED BY <2>1
  <1> QED BY <1>3, <1>4, <1>5, <1>6, <1>7, <1>8, <1>9, <1>10, <1>11 DEF Next

(* One record is open per speaker.                                         *)
LEMMA OnePerSpeaker == ASSUME NEW O, OpenOK(O) PROVE Cardinality({r.speaker : r \in O}) = Cardinality(O)
  <1> DEFINE T == {r.speaker : r \in O}  g == [r \in O |-> r.speaker]
  <1>1. g \in Bijection(O, T)
    <2>1. g \in [O -> T]
      OBVIOUS
    <2>2. \A a, b \in O : g[a] = g[b] => a = b
      BY DEF OpenOK
    <2>3. \A s \in T : \E r \in O : g[r] = s
      OBVIOUS
    <2> HIDE DEF g, T
    <2> QED BY <2>1, <2>2, <2>3 DEF Bijection, Injection, Surjection, IsInjective
  <1>2. IsFiniteSet(O)
    BY DEF OpenOK
  <1> HIDE DEF g, T
  <1>3. Cardinality(T) = Cardinality(O)
    BY <1>1, <1>2, FS_Bijection DEF ExistsBijection
  <1> QED BY <1>3 DEF T

(* Everything of the close paths that holds in every room.                 *)
LiveSpansAreWhole == TypeOK /\ LiveTurnsAreKept /\ RecordsDoNotMix

(* The invariant of the close paths, in every room.                        *)
CloseInv == Held /\ LiveHeld /\ GateOK(tasks)

LEMMA CloseInvImplies == CloseInv => LiveSpansAreWhole
  <1> SUFFICES ASSUME CloseInv PROVE LiveSpansAreWhole
    OBVIOUS
  <1>1. \A r \in Tracked : Rec(r) /\ Len(r.turns) <= MaxTurns /\ Sound(r)
    BY TrackedOnes DEF CloseInv, Held, LiveHeld, SoundInv
  <1>2. \A r \in Tracked : r.speaker \in Speakers /\ Len(r.turns) <= MaxTurns + 1
    <2> SUFFICES ASSUME NEW r \in Tracked PROVE r.speaker \in Speakers /\ Len(r.turns) <= MaxTurns + 1
      OBVIOUS
    <2>1. Len(r.turns) \in Nat /\ r.speaker \in Speakers
      BY <1>1 DEF Rec
    <2> QED BY <1>1, <2>1, CloseAssumption
  <1>3. Cardinality({r.speaker : r \in trk.open}) = Cardinality(trk.open)
    BY OnePerSpeaker DEF CloseInv, Held, TrackInv
  <1>4. Inside(tasks) = InGate
    BY DEF Inside, InGate
  <1>5. /\ \A row \in rows : row.summary \in {"pending", "ok", "unavailable"}
        /\ \A k \in tasks : k.pc \in {"gate", "llm", "facts"}
        /\ sent \in 0..Len(History) /\ inbox \subseteq Messages /\ trk.cut \subseteq Speakers /\ trk.live \subseteq Messages
    BY DEF CloseInv, Held, StoreInv, RowsOK, TasksOK, RowOK, TaskOK, TrackInv, Shape
  <1>6. TypeOK
    BY <1>2, <1>3, <1>4, <1>5 DEF TypeOK, CloseInv, GateOK
  <1>7. RecordsDoNotMix
    BY <1>1 DEF RecordsDoNotMix, Sound, Unmixed
  <1> QED BY <1>6, <1>7 DEF LiveSpansAreWhole, CloseInv, LiveHeld

(* No live turn is forgotten, no record mixes two conversations, one record*)
(* is open per speaker, none outgrows the turn cap by more than a notice,  *)
(* and the replay gate is never overfull, in every room, with stragglers and*)
(* unstamped messages (add_turn, close_stale_records,                      *)
(* persist_closed_interaction, the summarize gate).                        *)
THEOREM LiveSpansStayWhole == Spec => []LiveSpansAreWhole
  <1>1. Init => CloseInv
    BY HeldInit, LiveInit, GateEmpty DEF CloseInv, Init
  <1>2. CloseInv /\ [Next]_vars => CloseInv'
    BY HeldStep, LiveStep, GateStep DEF CloseInv
  <1> QED BY <1>1, <1>2, CloseInvImplies, PTL DEF Spec

(***************************************************************************)
(* Replayed spans, in rooms whose conversations follow one another.        *)
(***************************************************************************)
Rotates(h) ==
  /\ \A i \in DOMAIN h : h[i].wire # NoWire
  /\ \A i, j, k \in DOMAIN h : i < j /\ j < k /\ h[i].wire = h[k].wire => h[j].wire = h[i].wire
  /\ \A i, j \in DOMAIN h : i < j => PrevWire[h[i].wire] # h[j].wire

(* The messages of a record, against a history h and a window of n.        *)
Of(r, m) == \E i \in DOMAIN r.turns : r.turns[i].m = m

Ordered(r) == \A i, j \in DOMAIN r.turns : i < j => r.turns[i].m < r.turns[j].m

Within(r, n, w, h) ==
  \A i \in DOMAIN r.turns :
    r.turns[i].m \in 1..n /\ h[r.turns[i].m].speaker = r.speaker /\ h[r.turns[i].m].wire = w

WholeOf(r, n, w, h) ==
  /\ Ordered(r) /\ Within(r, n, w, h)
  /\ \A m \in 1..n : h[m].speaker = r.speaker /\ h[m].wire = w => Of(r, m)

(* An open replayed record holds what is behind the pass of its conversation,*)
(* unless the window of its speaker was cut.                               *)
PartOf(r, n, P, cut, h) ==
  /\ Ordered(r) /\ Within(r, n, r.wire, h) /\ r.prev = PrevWire[r.wire]
  /\ \A i \in DOMAIN r.turns : r.turns[i].m \in P
  /\ r.speaker \notin cut => \A m \in P : h[m].speaker = r.speaker /\ h[m].wire = r.wire => Of(r, m)

(* Nothing of the conversation is still to come.                           *)
Finished(w, n, P, h) == \A m \in 1..n : h[m].wire = w => m \in P

(* What is behind the pass is in an open record, or of a finished          *)
(* conversation, or of a speaker whose window was cut.                     *)
Account(O, n, P, cut, h) ==
  \A m \in P : h[m].speaker \notin cut =>
    \/ \E r \in O : r.replayed /\ r.speaker = h[m].speaker /\ r.wire = h[m].wire
    \/ Finished(h[m].wire, n, P, h)

(* The part of the window the pass has replayed.                           *)
Behind == {m \in 1..catch.win : Past(m)}

Passing == catch.pc = "replay" \/ (catch.pc = "sweep" /\ catch.done)

PassOK(c) ==
  /\ c.pc \in {"list", "replay"} => ~c.done
  /\ c.pc = "sweep" /\ c.done => c.at > c.win

(* What a record marked whole, and one still open, hold of the window.     *)
SpanInv ==
  /\ PassOK(catch)
  /\ \A r \in trk.open : ~r.whole
  /\ \A r \in Tracked : r.replayed /\ r.whole => \E w : WholeOf(r, catch.win, w, History)
  /\ Passing => \A r \in trk.open : r.replayed => PartOf(r, catch.win, Behind, trk.cut, History)
  /\ catch.pc = "replay" => Account(trk.open, catch.win, Behind, trk.cut, History)

(* Alike, and marked alike.                                                *)
Same(q, r) == Alike(q, r) /\ q.whole = r.whole

ReplayEnd == job # NoJob /\ job.kind = "replay" /\ job.pc = "end"
(* The pass keeps its place, and a replayed record it loses is held against its speaker. *)
SpanShrinks ==
  /\ SameRoom /\ catch'.win = catch.win /\ PassOK(catch')
  /\ \A r \in trk'.open : (~r.replayed /\ ~r.whole) \/ \E q \in trk.open : Same(q, r)
  /\ \A r \in Tracked' : r.replayed /\ r.whole => \E q \in Tracked : Same(q, r)
  /\ Passing' => Passing /\ trk.cut \subseteq trk'.cut /\ Behind' = Behind
  /\ catch'.pc = "replay" =>
       /\ catch.pc = "replay"
       /\ \A q \in trk.open : q.replayed => q.speaker \in trk'.cut \/ \E r \in trk'.open : Same(q, r)

LEMMA SameItself == ASSUME NEW r PROVE Same(r, r)
  BY DEF Same, Alike

LEMMA SamePart ==
  ASSUME NEW q, NEW r, Same(q, r), NEW n, NEW P, NEW cut, NEW c2, cut \subseteq c2, NEW h, PartOf(q, n, P, cut, h)
  PROVE  PartOf(r, n, P, c2, h)
  <1>1. r.speaker = q.speaker /\ r.turns = q.turns /\ r.wire = q.wire /\ r.prev = q.prev
    BY DEF Same, Alike
  <1> QED BY <1>1 DEF PartOf, Ordered, Within, Of

LEMMA SameWhole ==
  ASSUME NEW q, NEW r, Alike(q, r), NEW n, NEW w, NEW h, WholeOf(q, n, w, h)
  PROVE  WholeOf(r, n, w, h)
  <1>1. r.speaker = q.speaker /\ r.turns = q.turns
    BY DEF Alike
  <1> QED BY <1>1 DEF WholeOf, Ordered, Within, Of

LEMMA SpanFrame == ASSUME SpanInv, SpanShrinks PROVE SpanInv'
  <1>1. History' = History /\ catch'.win = catch.win /\ PassOK(catch)'
    BY RoomStays DEF SpanShrinks, PassOK
  <1>2. \A r \in trk'.open : ~r.whole
    BY DEF SpanInv, SpanShrinks, Same
  <1>3. \A r \in Tracked' : r.replayed /\ r.whole => \E w : WholeOf(r, catch'.win, w, History')
    <2> SUFFICES ASSUME NEW r \in Tracked', r.replayed, r.whole PROVE \E w : WholeOf(r, catch.win, w, History)
      BY <1>1
    <2>1. PICK q \in Tracked : Same(q, r)
      BY DEF SpanShrinks
    <2>2. q.replayed /\ q.whole /\ Alike(q, r)
      BY <2>1 DEF Same, Alike
    <2>3. PICK w : WholeOf(q, catch.win, w, History)
      BY <2>2 DEF SpanInv
    <2> QED BY <2>2, <2>3, SameWhole
  <1>4. ASSUME Passing', NEW r \in trk'.open, r.replayed PROVE PartOf(r, catch'.win, Behind', trk'.cut, History')
    <2>1. PICK q \in trk.open : Same(q, r)
      BY <1>4 DEF SpanShrinks
    <2>2. q.replayed /\ Passing /\ trk.cut \subseteq trk'.cut /\ Behind' = Behind
      BY <1>4, <2>1 DEF Same, Alike, SpanShrinks
    <2>3. PartOf(q, catch.win, Behind, trk.cut, History)
      BY <2>2 DEF SpanInv
    <2> QED BY <1>1, <2>1, <2>2, <2>3, SamePart
  <1>5. ASSUME catch'.pc = "replay" PROVE Account(trk'.open, catch'.win, Behind', trk'.cut, History')
    <2>1. /\ catch.pc = "replay" /\ trk.cut \subseteq trk'.cut /\ Behind' = Behind
          /\ \A q \in trk.open : q.replayed => q.speaker \in trk'.cut \/ \E r \in trk'.open : Same(q, r)
      BY <1>5 DEF SpanShrinks, Passing
    <2>2. Account(trk.open, catch.win, Behind, trk.cut, History)
      BY <2>1 DEF SpanInv
    <2> HIDE DEF Behind, History
    <2> SUFFICES ASSUME NEW m \in Behind, History[m].speaker \notin trk'.cut
                 PROVE  \/ \E r \in trk'.open : r.replayed /\ r.speaker = History[m].speaker /\ r.wire = History[m].wire
                        \/ Finished(History[m].wire, catch.win, Behind, History)
      BY <1>1, <2>1 DEF Account
    <2>3. CASE Finished(History[m].wire, catch.win, Behind, History)
      BY <2>3
    <2>4. ASSUME NEW q \in trk.open, q.replayed, q.speaker = History[m].speaker, q.wire = History[m].wire
          PROVE  \E r \in trk'.open : r.replayed /\ r.speaker = History[m].speaker /\ r.wire = History[m].wire
      <3>1. PICK r \in trk'.open : Same(q, r)
        BY <2>1, <2>4
      <3>2. r.replayed /\ r.speaker = History[m].speaker /\ r.wire = History[m].wire
        BY <2>4, <3>1 DEF Same, Alike
      <3> QED BY <3>2
    <2> QED BY <2>1, <2>2, <2>3, <2>4 DEF Account
  <1> QED BY <1>1, <1>2, <1>3, <1>4, <1>5 DEF SpanInv

LEMMA BehindStays ==
  ASSUME catch'.win = catch.win, catch'.at = catch.at, ReplayEnd' <=> ReplayEnd PROVE Behind' = Behind
  BY DEF Behind, Past, ReplayEnd

LEMMA StillShrinks ==
  ASSUME SpanInv, SameRoom, trk'.open = trk.open, trk'.cut = trk.cut, Tracked' \subseteq Tracked, catch'.pc = catch.pc, catch'.win = catch.win,
         catch'.at = catch.at, catch'.done = catch.done, ReplayEnd' <=> ReplayEnd
  PROVE  SpanInv'
  <1>1. PassOK(catch')
    BY DEF SpanInv, PassOK
  <1>2. \A r \in trk.open : Same(r, r)
    BY SameItself
  <1>3. \A r \in Tracked : Same(r, r)
    BY SameItself
  <1>4. SpanShrinks
    BY <1>1, <1>2, <1>3, BehindStays DEF SpanShrinks, Passing
  <1> QED BY <1>4, SpanFrame

LEMMA OffShrinks ==
  ASSUME SpanInv, SameRoom, trk'.open \subseteq trk.open, Tracked' \subseteq Tracked, catch'.win = catch.win,
         catch'.pc = "off" \/ (catch'.pc = "sweep" /\ ~catch'.done)
  PROVE  SpanInv'
  <1>1. PassOK(catch') /\ ~Passing' /\ catch'.pc # "replay"
    BY DEF PassOK, Passing
  <1>2. \A r \in trk.open : Same(r, r)
    BY SameItself
  <1>3. \A r \in Tracked : Same(r, r)
    BY SameItself
  <1>4. SpanShrinks
    BY <1>1, <1>2, <1>3 DEF SpanShrinks
  <1> QED BY <1>4, SpanFrame

LEMMA GoneSpan ==
  ASSUME Tracked' = {}, catch'.pc = "off" \/ (catch'.pc = "list" /\ ~catch'.done) PROVE SpanInv'
  <1>1. trk'.open = {}
    BY TrackedNext
  <1> QED BY <1>1 DEF SpanInv, PassOK, Passing

LEMMA ClosesShrinks ==
  ASSUME NEW S, Shape, SpanInv, SameRoom, trk' = CloseRecords(trk, S), Tracked' \subseteq Tracked, catch' = catch, ReplayEnd' <=> ReplayEnd
  PROVE  SpanInv'
  <1>1. trk'.open = trk.open \ S /\ trk'.cut = trk.cut \cup {r.speaker : r \in {q \in S : q.replayed}}
    BY DEF CloseRecords, Shape
  <1>2. \A q \in trk.open : q.replayed => q.speaker \in trk'.cut \/ q \in trk'.open
    BY <1>1
  <1>3. PassOK(catch')
    BY DEF SpanInv
  <1>4. \A r \in trk.open : Same(r, r)
    BY SameItself
  <1>5. \A r \in Tracked : Same(r, r)
    BY SameItself
  <1>6. trk.cut \subseteq trk'.cut /\ trk'.open \subseteq trk.open /\ Behind' = Behind
    BY <1>1, BehindStays
  <1>7. SpanShrinks
    BY <1>2, <1>3, <1>4, <1>5, <1>6 DEF SpanShrinks, Passing
  <1> QED BY <1>7, SpanFrame

LEMMA FreeEnd == ASSUME job = NoJob PROVE ~ReplayEnd
  BY DEF ReplayEnd

LEMMA WorldSpans == ASSUME Held, SpanInv, Boot \/ Crash \/ Publish \/ Drained PROVE SpanInv'
  <1>1. TrackInv /\ Shape /\ CatchOK(catch)
    BY DEF Held, TrackInv, Shape
  <1>2. CASE Boot
    <2>1. Tracked' = Tracked /\ SameRoom
      BY <1>1, <1>2, BootRests, RestsTracks
    <2>2. Tracked = {}
      BY <1>1, <1>2, TrackedIs DEF Boot, Shape, JobTodo
    <2>3. catch'.pc = "list" /\ ~catch'.done
      BY <1>1, <1>2 DEF Boot, CatchOK
    <2> QED BY <2>1, <2>2, <2>3, GoneSpan
  <1>3. CASE Crash
    BY <1>1, <1>3, CrashTracks, GoneSpan
  <1>4. CASE Drained
    BY <1>1, <1>4, DrainedTracks, GoneSpan
  <1>5. CASE Publish
    <2>1. Tracked' = Tracked /\ SameRoom /\ UNCHANGED <<trk, catch, job>>
      BY <1>1, <1>5, PublishRests, RestsTracks DEF Publish
    <2>2. ReplayEnd' <=> ReplayEnd
      BY <2>1 DEF ReplayEnd
    <2> QED BY <2>1, <2>2, StillShrinks
  <1> QED BY <1>2, <1>3, <1>4, <1>5

LEMMA AgedSame == ASSUME NEW q, Rec(q) PROVE Same(q, [q EXCEPT !.age = Capped(@, IdleAge)])
  BY DEF Rec, RecordFields, Same, Alike

LEMMA ClockSpans == ASSUME Held, SpanInv, ClockStep PROVE SpanInv'
  <1> DEFINE g(r) == [r EXCEPT !.age = Capped(@, IdleAge)]
  <1>1. /\ SameRoom /\ UNCHANGED <<job, catch>> /\ Shape /\ TrackInv
    BY ClockAges DEF Held, TrackInv
  <1>2. trk'.open = {g(r) : r \in trk.open} /\ trk'.cut = trk.cut
    BY <1>1 DEF ClockStep, Shape
  <1>3. \A q \in trk.open : Same(q, g(q))
    BY <1>1, TrackedIs, TrackedOnes, AgedSame
  <1> HIDE DEF g
  <1>4. (\A r \in trk'.open : \E q \in trk.open : Same(q, r)) /\ (\A q \in trk.open : \E r \in trk'.open : Same(q, r))
    BY <1>2, <1>3
  <1>5. JobTodo' = JobTodo
    BY <1>1 DEF JobTodo
  <1>6. \A r \in Tracked' : \E q \in Tracked : Same(q, r)
    <2> SUFFICES ASSUME NEW r \in Tracked' PROVE \E q \in Tracked : Same(q, r)
      OBVIOUS
    <2>1. CASE r \in trk'.open
      BY <1>4, <2>1, TrackedIs
    <2>2. CASE r \in Tracked
      BY <2>2, SameItself
    <2> QED BY <1>1, <1>5, <2>1, <2>2, TrackedIs, TrackedNext
  <1>7. Behind' = Behind /\ PassOK(catch')
    BY <1>1, BehindStays DEF ReplayEnd, SpanInv
  <1>8. SpanShrinks
    BY <1>1, <1>2, <1>4, <1>6, <1>7 DEF SpanShrinks, Passing
  <1> QED BY <1>8, SpanFrame

LEMMA ArriveSpans == ASSUME Held, SpanInv, Arrive PROVE SpanInv'
  <1>1. TrackInv /\ Shape /\ UNCHANGED catch /\ job = NoJob /\ ~ReplayEnd
    BY FreeEnd DEF Held, TrackInv, Arrive, OnMessage, OnMessageSilent, OnMessageDenied, OnNotification, VoteFailed, VotePublished, Resolve,
           OnTick, OnQuietTick, Shutdown, Free
  <1>2. ASSUME NEW m, OnMessage(m) PROVE SpanInv'
    <2>1. Tracked' = Tracked /\ SameRoom
      BY <1>1, <1>2, MessageCloses, ClosesTracks
    <2>2. trk' = CloseRecords(trk, Expired(trk.open)) /\ job'.pc = "stale"
      BY <1>2 DEF OnMessage, Begin, EventJob
    <2> QED BY <1>1, <2>1, <2>2, ClosesShrinks DEF ReplayEnd
  <1>3. ASSUME NEW m, OnMessageSilent(m) PROVE SpanInv'
    <2>1. Tracked' = Tracked /\ SameRoom /\ UNCHANGED <<trk, job>>
      BY <1>1, <1>3, SilentRests, RestsTracks DEF OnMessageSilent
    <2> QED BY <1>1, <2>1, StillShrinks DEF ReplayEnd
  <1>4. ASSUME NEW m, OnMessageDenied(m) PROVE SpanInv'
    <2> DEFINE S == Admitted({r \in trk.open : WireAdmits(r, History[m].wire, TRUE)})
    <2>1. Tracked' = Tracked /\ SameRoom
      BY <1>1, <1>4, DeniedCloses, ClosesTracks
    <2>2. trk' = CloseRecords(trk, S) /\ job'.pc = "done"
      BY <1>4 DEF OnMessageDenied
    <2> HIDE DEF S
    <2> QED BY <1>1, <2>1, <2>2, ClosesShrinks DEF ReplayEnd
  <1>5. ASSUME NEW s, NEW w, OnNotification(s, w) PROVE SpanInv'
    <2>1. Tracked' = Tracked /\ SameRoom
      BY <1>1, <1>5, NotificationCloses, ClosesTracks
    <2>2. trk' = CloseRecords(trk, Expired(trk.open)) /\ job'.pc = "close"
      BY <1>5 DEF OnNotification, Begin, NoticeJob
    <2> QED BY <1>1, <2>1, <2>2, ClosesShrinks DEF ReplayEnd
  <1>6. ASSUME NEW b, VoteFailed(b) PROVE SpanInv'
    <2>1. Tracked' = Tracked /\ SameRoom /\ UNCHANGED <<trk, job>>
      BY <1>1, <1>6, VoteFailedRests, RestsTracks DEF VoteFailed
    <2> QED BY <1>1, <2>1, StillShrinks DEF ReplayEnd
  <1>7. ASSUME NEW b, NEW y, VotePublished(b, y) PROVE SpanInv'
    <2>1. Tracked' = Tracked /\ SameRoom
      BY <1>1, <1>7, VoteCloses, RestsTracks, ClosesTracks
    <2>2. CASE UNCHANGED <<trk, job>>
      BY <1>1, <2>1, <2>2, StillShrinks DEF ReplayEnd
    <2>3. CASE ~UNCHANGED <<trk, job>>
      <3>1. \E S : trk' = CloseRecords(trk, S) /\ job' = [kind |-> "vote", pc |-> "done", todo |-> S]
        BY <1>7, <2>3 DEF VotePublished
      <3>2. PICK S : trk' = CloseRecords(trk, S) /\ job'.pc = "done"
        BY <3>1
      <3> QED BY <1>1, <2>1, <3>2, ClosesShrinks DEF ReplayEnd
    <2> QED BY <2>2, <2>3
  <1>8. CASE OnTick
    <2>1. Tracked' = Tracked /\ SameRoom
      BY <1>1, <1>8, TickCloses, ClosesTracks
    <2>2. trk' = CloseRecords(trk, Expired(trk.open)) /\ job'.pc = "janitor"
      BY <1>8 DEF OnTick, Begin
    <2> QED BY <1>1, <2>1, <2>2, ClosesShrinks DEF ReplayEnd
  <1>9. CASE OnQuietTick
    <2>1. Tracked' = Tracked /\ SameRoom /\ UNCHANGED <<trk, job>>
      BY <1>1, <1>9, TicksRest, RestsTracks DEF OnQuietTick
    <2> QED BY <1>1, <2>1, StillShrinks DEF ReplayEnd
  <1>10. CASE Shutdown
    <2>1. Tracked' = Tracked /\ SameRoom
      BY <1>1, <1>10, ShutdownClosesThem, ClosesTracks
    <2>2. trk' = CloseRecords(trk, ShutdownCloses) /\ job'.pc = "drain"
      BY <1>10 DEF Shutdown
    <2> QED BY <1>1, <2>1, <2>2, ClosesShrinks DEF ReplayEnd
  <1> QED BY <1>2, <1>3, <1>4, <1>5, <1>6, <1>7, <1>8, <1>9, <1>10 DEF Arrive

LEMMA EndsSpans ==
  ASSUME Held, SpanInv, EndSession \/ JobEnd \/ (\E n \in 1..2 : ParkVote(n)) \/ EventTimeout \/ TickEnds PROVE SpanInv'
  <1>1. TrackInv /\ Shape /\ CatchOK(catch) /\ job # NoJob /\ JobOK(job)
    BY DEF Held, TrackInv, Shape, EndSession, JobEnd, ParkVote, EventTimeout, TickEnds, JobAt
  <1>2. CASE EndSession
    <2> DEFINE S == Admitted({r \in trk.open : WireAdmits(r, History[job.m].wire, TRUE)})
    <2>1. Tracked' = Tracked /\ SameRoom
      BY <1>1, <1>2, SessionCloses, ClosesTracks
    <2>2. trk' = CloseRecords(trk, S) /\ catch' = catch /\ job.kind = "event"
      BY <1>2 DEF EndSession
    <2>3. job'.kind = "event"
      BY <1>1, <1>2, <2>2 DEF EndSession, JobOK, MessageJob, NoticeJobOK, PlainJob
    <2> HIDE DEF S
    <2> QED BY <1>1, <2>1, <2>2, <2>3, ClosesShrinks DEF ReplayEnd
  <1>3. CASE JobEnd
    <2>1. Tracked' = Tracked /\ SameRoom /\ trk' = trk /\ job' = NoJob /\ ~ReplayEnd'
      BY <1>1, <1>3, JobEndRests, RestsTracks DEF JobEnd, ReplayEnd
    <2>2. CASE job.kind = "replay"
      <3>1. catch'.at = catch.at + 1 /\ catch'.win = catch.win /\ catch'.pc = catch.pc /\ catch'.done = catch.done /\ catch.pc = "replay" /\ catch.at \in Nat
        BY <1>1, <1>3, <2>2 DEF JobEnd, CatchOK, Shape
      <3>2. ReplayEnd
        BY <1>1, <1>3, <2>2 DEF ReplayEnd, JobEnd, JobAt, JobOK, MessageJob, NoticeJobOK, PlainJob
      <3>3. Behind' = Behind
        <4>1. \A m \in 1..catch.win : Past(m)' <=> Past(m)
          BY <2>1, <3>1, <3>2 DEF Past, ReplayEnd
        <4> QED BY <3>1, <4>1 DEF Behind
      <3>4. (\A r \in trk.open : Same(r, r)) /\ \A r \in Tracked : Same(r, r)
        BY SameItself
      <3>5. PassOK(catch')
        BY <3>1 DEF SpanInv, PassOK
      <3>6. SpanShrinks
        BY <2>1, <3>1, <3>3, <3>4, <3>5 DEF SpanShrinks, Passing
      <3> QED BY <3>6, SpanFrame
    <2>3. CASE job.kind # "replay"
      <3>1. catch' = catch /\ ~ReplayEnd
        BY <1>3, <2>3 DEF JobEnd, ReplayEnd
      <3> QED BY <2>1, <3>1, StillShrinks
    <2> QED BY <2>2, <2>3
  <1>4. CASE \E n \in 1..2 : ParkVote(n)
    <2>1. Tracked' = Tracked /\ SameRoom /\ UNCHANGED <<trk, catch>> /\ job' = NoJob /\ job.kind = "event"
      BY <1>1, <1>4, ParkRests, RestsTracks DEF ParkVote
    <2> QED BY <1>1, <2>1, StillShrinks DEF ReplayEnd
  <1>5. CASE EventTimeout
    <2>1. Tracked' \subseteq Tracked /\ SameRoom /\ UNCHANGED <<trk, catch>> /\ job' = NoJob /\ job.kind # "replay"
      BY <1>1, <1>5, TimeoutSheds, ShedsTracks DEF EventTimeout
    <2> QED BY <1>1, <2>1, StillShrinks DEF ReplayEnd
  <1>6. CASE TickEnds
    <2>1. Tracked' = Tracked /\ SameRoom /\ UNCHANGED <<trk, catch>> /\ job' = NoJob /\ job.pc # "end"
      BY <1>1, <1>6, TicksRest, RestsTracks DEF TickEnds, JobAt
    <2> QED BY <1>1, <2>1, StillShrinks DEF ReplayEnd
  <1> QED BY <1>2, <1>3, <1>4, <1>5, <1>6

LEMMA NoticeSpans == ASSUME Held, SpanInv, NEW red, NoticeClose(red) PROVE SpanInv'
  <1>1. /\ TrackInv /\ Shape /\ SameRoom /\ UNCHANGED catch /\ job' # NoJob /\ job'.kind = "notice" /\ job.pc = "close"
        /\ \A r \in Tracked' : r \in Tracked \/ \E q \in trk.open : ~q.replayed /\ Noticed(q, r)
    <2>1. TrackInv
      BY DEF Held
    <2>2. Shape /\ job.pc = "close"
      BY <2>1 DEF TrackInv, NoticeClose, JobAt
    <2> QED BY <2>1, <2>2, NoticeCloses
  <1>2. trk'.open = trk.open \ NoticeRecords /\ trk.cut \subseteq trk'.cut
    BY <1>1 DEF NoticeClose, CloseRecords, Shape
  <1>3. \A r \in NoticeRecords : ~r.replayed
    BY DEF NoticeRecords, Admitted
  <1>4. \A r \in Tracked' : r.replayed => r \in Tracked
    BY <1>1 DEF Noticed
  <1>5. Behind' = Behind /\ PassOK(catch')
    BY <1>1, BehindStays DEF ReplayEnd, SpanInv
  <1>6. (\A r \in trk.open : Same(r, r)) /\ \A r \in Tracked : Same(r, r)
    BY SameItself
  <1>7. trk'.open \subseteq trk.open /\ \A q \in trk.open : q.replayed => q \in trk'.open
    BY <1>2, <1>3
  <1>8. SpanShrinks
    BY <1>1, <1>2, <1>4, <1>5, <1>6, <1>7 DEF SpanShrinks, Passing
  <1> QED BY <1>8, SpanFrame

LEMMA PersistSpans == ASSUME Held, SpanInv, JobPersist \/ SweepPersist PROVE SpanInv'
  <1>1. TrackInv /\ CatchOK(catch)
    BY DEF Held, TrackInv, Shape
  <1>2. CASE JobPersist
    <2>1. Tracked' \subseteq Tracked /\ SameRoom /\ UNCHANGED <<trk, catch>> /\ job # NoJob /\ job' # NoJob /\ job'.kind = job.kind /\ job'.pc = job.pc
      BY <1>1, <1>2, JobPersistSheds, ShedsTracks
    <2> QED BY <2>1, StillShrinks DEF ReplayEnd
  <1>3. CASE SweepPersist
    <2>1. /\ Tracked' \subseteq Tracked /\ SameRoom /\ UNCHANGED <<trk, job>> /\ catch'.pc = catch.pc /\ catch'.win = catch.win /\ catch'.at = catch.at
      BY <1>1, <1>3, SweepPersistSheds, ShedsTracks
    <2>2. catch'.done = catch.done
      BY <1>1, <1>3 DEF SweepPersist, CatchOK
    <2> QED BY <2>1, <2>2, StillShrinks DEF ReplayEnd
  <1> QED BY <1>2, <1>3

LEMMA FinalizeSpans == ASSUME Held, SpanInv, Finalize PROVE SpanInv'
  <1>1. PICK k \in tasks : TaskEnter(k) \/ TaskFacts(k) \/ \E ok \in BOOLEAN : TaskUpdate(k, ok)
    BY DEF Finalize
  <1>2. UNCHANGED <<trk, job, catch>> /\ TrackInv
    BY <1>1 DEF TaskEnter, TaskFacts, TaskUpdate, Held
  <1>3. Shape' /\ Rests /\ SameRoom
    BY <1>1, <1>2, TasksRest
  <1>4. Tracked' = Tracked
    BY <1>2, <1>3, RestsTracks
  <1> QED BY <1>2, <1>3, <1>4, StillShrinks DEF ReplayEnd

LEMMA ReplaySpans ==
  ASSUME Held, SpanInv, FetchWindow \/ FetchFails \/ ReplayMessage \/ ReplayRaises \/ ReplayFinished \/ ReplayCutShort PROVE SpanInv'
  <1>1. TrackInv /\ Shape /\ CatchOK(catch) /\ MarkInv
    BY DEF Held, TrackInv, Shape
  <1>2. CASE FetchWindow
    <2>1. /\ Tracked' = Tracked /\ SameRoom /\ trk' = trk /\ job' = job /\ catch.pc = "list" /\ catch'.pc = "replay"
          /\ catch'.done = catch.done /\ catch'.at = catch.at
      BY <1>1, <1>2, FetchRests, RestsTracks DEF FetchWindow, CatchOK
    <2>2. catch.at = 1 /\ (\A r \in Tracked : ~r.replayed) /\ ~catch.done /\ (job = NoJob \/ job.kind # "replay")
      BY <1>1, <2>1 DEF MarkInv, SpanInv, PassOK, Shape
    <2>3. \A m \in 1..catch'.win : ~Past(m)'
      BY <2>1, <2>2 DEF Past
    <2>4. Behind' = {}
      BY <2>3 DEF Behind
    <2>5. PassOK(catch)'
      BY <2>1, <2>2 DEF PassOK
    <2>6. \A r \in trk'.open : ~r.replayed
      BY <2>1, <2>2, TrackedIs
    <2>7. \A r \in trk'.open : ~r.whole
      BY <2>1 DEF SpanInv
    <2>8. \A r \in Tracked' : ~r.replayed
      BY <2>1, <2>2
    <2>9. Account(trk'.open, catch'.win, Behind', trk'.cut, History')
      BY <2>4 DEF Account
    <2> QED BY <2>5, <2>6, <2>7, <2>8, <2>9 DEF SpanInv
  <1>3. CASE FetchFails
    <2>1. Tracked' = Tracked /\ SameRoom /\ trk' = trk /\ catch.pc = "list" /\ catch'.pc = "sweep" /\ catch'.done = catch.done /\ catch'.win = catch.win
      BY <1>1, <1>3, FetchFailsRests, RestsTracks DEF FetchFails, SweepFrom, CatchOK
    <2>2. ~catch.done
      BY <2>1 DEF SpanInv, PassOK
    <2> QED BY <2>1, <2>2, OffShrinks
  <1>4. CASE ReplayMessage
    <2>1. Tracked' = Tracked /\ SameRoom
      BY <1>1, <1>4, ReplayCloses, ClosesTracks
    <2>2. trk' = CloseRecords(trk, Expired(trk.open)) /\ job'.pc = "stale" /\ catch' = catch /\ job = NoJob
      BY <1>4 DEF ReplayMessage, Begin, EventJob
    <2> QED BY <1>1, <2>1, <2>2, ClosesShrinks DEF ReplayEnd
  <1>5. CASE ReplayRaises
    <2> DEFINE s == History[catch.at].speaker
    <2>1. /\ Tracked' = Tracked /\ SameRoom /\ trk'.open = trk.open /\ trk'.cut = trk.cut \cup {s} /\ job' = NoJob /\ job = NoJob
          /\ catch'.pc = "replay" /\ catch.pc = "replay" /\ catch'.done = catch.done /\ catch'.win = catch.win
          /\ catch'.at = catch.at + 1 /\ catch.at \in Nat /\ catch.at <= catch.win /\ catch.win \in Nat
      <3>1. Tracked' = Tracked /\ SameRoom
        BY <1>1, <1>5, RaisesRests, RestsTracks
      <3> QED BY <1>1, <1>5, <3>1 DEF ReplayRaises, Replaying, CatchOK, Shape
    <2>2. History' = History
      BY <2>1, RoomStays
    <2>3. \A m \in Behind' : m \in Behind \/ m = catch.at
      BY <2>1 DEF Behind, Past
    <2>4. \A m \in Behind : m \in Behind'
      BY <2>1 DEF Behind, Past
    <2>5. PassOK(catch)'
      BY <2>1 DEF SpanInv, PassOK
    <2>6. ASSUME NEW r \in trk'.open, r.replayed PROVE PartOf(r, catch'.win, Behind', trk'.cut, History')
      <3>1. PartOf(r, catch.win, Behind, trk.cut, History)
        BY <2>1, <2>6 DEF SpanInv, Passing
      <3> HIDE DEF Behind, History
      <3>2. r.speaker \notin trk'.cut => r.speaker \notin trk.cut /\ r.speaker # s
        BY <2>1
      <3> QED BY <2>1, <2>2, <2>3, <2>4, <3>1, <3>2 DEF PartOf
    <2>7. Account(trk'.open, catch'.win, Behind', trk'.cut, History')
      <3>1. Account(trk.open, catch.win, Behind, trk.cut, History)
        BY <2>1 DEF SpanInv
      <3> HIDE DEF Behind, History
      <3> QED BY <2>1, <2>2, <2>3, <2>4, <3>1 DEF Account, Finished
    <2>8. \A r \in trk'.open : ~r.whole
      BY <2>1 DEF SpanInv
    <2>9. \A r \in Tracked' : r.replayed /\ r.whole => \E w : WholeOf(r, catch'.win, w, History')
      BY <2>1, <2>2 DEF SpanInv
    <2> QED BY <2>5, <2>6, <2>7, <2>8, <2>9 DEF SpanInv
  <1>6. CASE ReplayFinished
    <2>1. /\ Tracked' = Tracked /\ SameRoom /\ trk' = trk /\ job' = job /\ catch.pc = "replay" /\ catch'.pc = "sweep"
          /\ catch'.at = catch.at /\ catch'.win = catch.win /\ catch.at > catch.win
      BY <1>1, <1>6, FinishedRests, RestsTracks DEF ReplayFinished, Replaying, SweepFrom, CatchOK
    <2>2. Behind' = Behind /\ PassOK(catch')
      BY <2>1, BehindStays DEF ReplayEnd, PassOK
    <2>3. (\A r \in trk.open : Same(r, r)) /\ \A r \in Tracked : Same(r, r)
      BY SameItself
    <2>4. SpanShrinks
      BY <2>1, <2>2, <2>3 DEF SpanShrinks, Passing
    <2> QED BY <2>4, SpanFrame
  <1>7. CASE ReplayCutShort
    <2>1. SameRoom /\ trk' = trk /\ catch'.pc = "sweep" /\ catch.pc = "replay" /\ Tracked' \subseteq Tracked
      BY <1>1, <1>7, CutShortSheds, ShedsTracks
    <2>2. catch'.done = catch.done /\ catch'.win = catch.win
      BY <1>1, <1>7 DEF ReplayCutShort, SweepFrom, CatchOK
    <2>3. ~catch.done
      BY <2>1 DEF SpanInv, PassOK
    <2> QED BY <2>1, <2>2, <2>3, OffShrinks
  <1> QED BY <1>2, <1>3, <1>4, <1>5, <1>6, <1>7

(* A record the sweep takes as whole holds all of its conversation.        *)
LEMMA PassedIsWhole ==
  ASSUME NEW r, NEW n, NEW P, NEW cut, NEW h, PartOf(r, n, P, cut, h), r.speaker \notin cut, Finished(r.wire, n, P, h)
  PROVE  WholeOf(r, n, r.wire, h)
  BY DEF PartOf, Finished, WholeOf

LEMMA SweepSpans == ASSUME Held, SpanInv, SweepClose \/ SweepEnd PROVE SpanInv'
  <1>1. TrackInv /\ Shape /\ CatchOK(catch)
    BY DEF Held, TrackInv, Shape
  <1>2. CASE SweepEnd
    <2>1. Tracked' = Tracked /\ SameRoom /\ catch'.pc = "off" /\ catch'.win = catch.win /\ trk'.open = trk.open
      BY <1>1, <1>2, SweepEndRests, RestsTracks DEF SweepEnd, CatchOK, Rests
    <2> QED BY <2>1, OffShrinks
  <1>3. CASE SweepClose
    <2>1. /\ TrackInv' /\ SameRoom /\ trk'.open \subseteq trk.open /\ UNCHANGED job /\ catch'.pc = "sweep" /\ catch.pc = "sweep" /\ catch'.win = catch.win
      BY <1>1, <1>3, SweepCloses
    <2>2. History' = History /\ PassOK(catch) /\ JobTodo' = JobTodo
      BY <2>1, RoomStays DEF SpanInv, JobTodo
    <2> DEFINE id == CHOOSE i \in catch.snap : \A k \in catch.snap : i <= k
               found == {r \in trk.open : r.id = id}
               whole == {r \in found : /\ catch.done /\ r.speaker \notin trk.cut
                                       /\ r.speaker \notin catch.gaps}
               f(r) == [r EXCEPT !.whole = r \in whole]
    <2>3. trk' = CloseRecords(CloseWhole(trk, whole), found \ whole)
      BY <1>3 DEF SweepClose
    <2>4. catch'.todo = {f(r) : r \in found} /\ catch'.done = catch.done /\ catch'.at = catch.at
      <3>1. catch' = [catch EXCEPT !.snap = @ \ {id}, !.todo = {f(r) : r \in found}]
        BY <1>3 DEF SweepClose
      <3> HIDE DEF id, found, f
      <3> QED BY <1>1, <3>1 DEF CatchOK
    <2>5. trk.cut \subseteq trk'.cut
      <3> HIDE DEF found, whole
      <3> QED BY <1>1, <2>3 DEF CloseRecords, CloseWhole, Shape
    <2>6. found \subseteq trk.open /\ whole \subseteq found /\ \A r \in whole : catch.done /\ r.speaker \notin trk.cut
      OBVIOUS
    <2>7. \A r \in found : /\ f(r).replayed = r.replayed /\ f(r).turns = r.turns /\ f(r).speaker = r.speaker /\ f(r).whole = (r \in whole)
                           /\ Alike(r, f(r))
      <3> HIDE DEF whole
      <3>1. \A r \in found : Rec(r)
        BY <1>1, TrackedIs, TrackedOnes
      <3> QED BY <3>1 DEF Rec, RecordFields, Alike
    <2> HIDE DEF id, found, whole, f
    <2>8. ASSUME NEW r \in whole, r.replayed PROVE WholeOf(r, catch.win, r.wire, History)
      <3>1. PartOf(r, catch.win, Behind, trk.cut, History)
        BY <2>1, <2>6, <2>8 DEF SpanInv, Passing
      <3>2. \A m \in 1..catch.win : m \in Behind
        <4>1. catch.at > catch.win /\ catch.at \in Nat /\ catch.win \in Nat
          BY <1>1, <2>1, <2>2, <2>6 DEF PassOK, CatchOK, Shape
        <4> QED BY <4>1 DEF Behind, Past
      <3>3. Finished(r.wire, catch.win, Behind, History)
        BY <3>2 DEF Finished
      <3> QED BY <2>6, <3>1, <3>3, PassedIsWhole
    <2>9. \A r \in Tracked' : r.replayed /\ r.whole => \E w : WholeOf(r, catch'.win, w, History')
      <3> SUFFICES ASSUME NEW r \in Tracked', r.replayed, r.whole PROVE \E w : WholeOf(r, catch.win, w, History)
        BY <2>1, <2>2
      <3>1. CASE r \in Tracked
        BY <3>1 DEF SpanInv
      <3>2. ASSUME NEW q \in found, r = f(q) PROVE \E w : WholeOf(r, catch.win, w, History)
        <4>1. q \in whole /\ q.replayed /\ Alike(q, r)
          BY <2>7, <3>2
        <4> QED BY <2>8, <4>1, SameWhole
      <3> QED BY <2>1, <2>2, <2>4, <3>1, <3>2, TrackedIs, TrackedNext
    <2>10. \A r \in trk'.open : ~r.whole
      BY <2>1 DEF SpanInv
    <2>11. PassOK(catch)'
      BY <2>1, <2>2, <2>4 DEF PassOK
    <2>12. ASSUME Passing', NEW r \in trk'.open, r.replayed PROVE PartOf(r, catch'.win, Behind', trk'.cut, History')
      <3>1. Passing /\ Behind' = Behind
        BY <2>1, <2>4, <2>12, BehindStays DEF Passing, ReplayEnd
      <3>2. PartOf(r, catch.win, Behind, trk.cut, History)
        BY <2>1, <2>12, <3>1 DEF SpanInv
      <3> QED BY <2>1, <2>2, <2>5, <3>1, <3>2, SamePart, SameItself
    <2> QED BY <2>1, <2>9, <2>10, <2>11, <2>12 DEF SpanInv
  <1> QED BY <1>2, <1>3

(* What close_stale_records takes away, and how.                           *)
StaleTakes(P, W) ==
  /\ P \subseteq trk.open /\ W \subseteq trk.open
  /\ trk'.open = trk.open \ (P \cup W)
  /\ trk'.cut = trk.cut \cup {r.speaker : r \in {q \in P : q.replayed}}
  /\ JobTodo' = P \cup {[r EXCEPT !.whole = TRUE] : r \in W}
  /\ \A r \in W : /\ r.replayed /\ job.kind = "replay" /\ r.speaker \notin trk.cut
                  /\ WireRotationCloses(r, History[job.m].wire)

LEMMA StaleTakesThem == ASSUME TrackInv, CloseStale PROVE \E P, W : StaleTakes(P, W)
  <1> DEFINE replayed == job.kind = "replay"
             boundary == {r \in trk.open : CatchupBoundary(r, job.m, replayed)}
             rotated == {r \in trk.open \ boundary : WireRotationCloses(r, History[job.m].wire)}
             whole == {r \in rotated : SegmentComplete(r, replayed)}
             part == boundary \cup (rotated \ whole)
             X == part \cup {[r EXCEPT !.whole = TRUE] : r \in whole}
  <1>1. /\ trk' = Observed(CloseRecords(CloseWhole(trk, whole), part), job.m, replayed)
        /\ job' = [job EXCEPT !.pc = "turn", !.dup = replayed /\ job.m \in trk.live, !.todo = X]
    BY DEF CloseStale
  <1>2. part \subseteq trk.open /\ whole \subseteq trk.open
    OBVIOUS
  <1>3. \A r \in whole : r.replayed /\ replayed /\ r.speaker \notin trk.cut /\ WireRotationCloses(r, History[job.m].wire)
    BY DEF SegmentComplete
  <1>4. MessageJob(job) /\ job' # NoJob
    BY StaleCloses
  <1> HIDE DEF boundary, rotated, whole, part
  <1>5. trk'.open = trk.open \ (part \cup whole) /\ trk'.cut = trk.cut \cup {r.speaker : r \in {q \in part : q.replayed}}
    <2> DEFINE t == CloseRecords(CloseWhole(trk, whole), part)
    <2>1. /\ DOMAIN t = {"open", "cut", "live", "pass"} /\ t.open = trk.open \ (part \cup whole)
          /\ t.cut = trk.cut \cup {r.speaker : r \in {q \in part : q.replayed}}
      BY DEF CloseRecords, CloseWhole, TrackInv, Shape
    <2> HIDE DEF t
    <2>2. trk' = Observed(t, job.m, replayed)
      BY <1>1 DEF t
    <2> QED BY <2>1, <2>2 DEF Observed
  <1>6. JobTodo' = X
    <2> HIDE DEF X
    <2>1. job'.todo = X
      BY <1>1, <1>4 DEF MessageJob
    <2> QED BY <1>4, <2>1 DEF JobTodo
  <1>7. StaleTakes(part, whole)
    BY <1>2, <1>3, <1>5, <1>6 DEF StaleTakes
  <1> QED BY <1>7

(* A rotation ends a conversation: none of its messages is still to come.  *)
LEMMA RotationFinishes ==
  ASSUME Held, Rotates(History), NEW r, Rec(r), PartOf(r, catch.win, Behind, trk.cut, History), ~ReplayEnd,
         catch.at <= catch.win, WireRotationCloses(r, History[catch.at].wire)
  PROVE  Finished(r.wire, catch.win, Behind, History)
  <1>1. catch.at \in Nat \ {0} /\ catch.win \in Nat /\ 1..catch.win \subseteq DOMAIN History
    <2>1. CatchOK(catch) /\ sent \in 0..Len(History) /\ CountOK(count)
      BY DEF Held, TrackInv, Shape
    <2>2. DOMAIN History = 1..Len(History) /\ Len(History) \in Nat
      BY <2>1 DEF CountOK, History
    <2> QED BY <2>1, <2>2 DEF CatchOK
  <1>2. Behind = {m \in 1..catch.win : m < catch.at}
    BY <1>1 DEF Behind, Past, ReplayEnd
  <1>3. 1 \in DOMAIN r.turns
    BY DEF Rec
  <1> DEFINE k == r.turns[1].m
  <1>4. k \in 1..catch.win /\ k < catch.at /\ History[k].wire = r.wire
    BY <1>2, <1>3 DEF PartOf, Within
  <1>5. History[catch.at].wire # r.wire
    BY DEF WireRotationCloses
  <1> HIDE DEF k, History
  <1>6. ASSUME NEW m \in 1..catch.win, History[m].wire = r.wire PROVE m < catch.at
    <2> SUFFICES ASSUME ~(m < catch.at) PROVE FALSE
      OBVIOUS
    <2>1. m # catch.at
      BY <1>5, <1>6
    <2>2. k < catch.at /\ catch.at < m
      BY <1>1, <1>4, <2>1
    <2>3. k \in DOMAIN History /\ catch.at \in DOMAIN History /\ m \in DOMAIN History
      BY <1>1, <1>4
    <2>4. History[catch.at].wire = History[k].wire
      BY <1>4, <1>6, <2>2, <2>3 DEF Rotates
    <2> QED BY <1>4, <1>5, <2>4
  <1> QED BY <1>2, <1>6 DEF Finished

LEMMA StaleSpans == ASSUME Held, SpanInv, Rotates(History), CloseStale PROVE SpanInv'
  <1>1. /\ TrackInv /\ Shape /\ SameRoom /\ UNCHANGED catch /\ job # NoJob /\ job.pc = "stale" /\ job' # NoJob /\ job'.pc = "turn"
    <2>1. TrackInv /\ Shape /\ job # NoJob
      BY DEF Held, TrackInv, CloseStale, JobAt
    <2> QED BY <2>1, StaleCloses
  <1>2. PICK P, W : StaleTakes(P, W)
    BY <1>1, StaleTakesThem
  <1>3. /\ P \subseteq trk.open /\ W \subseteq trk.open /\ trk'.open = trk.open \ (P \cup W)
        /\ trk'.cut = trk.cut \cup {r.speaker : r \in {q \in P : q.replayed}}
        /\ \A r \in W : r.replayed /\ job.kind = "replay" /\ r.speaker \notin trk.cut /\ WireRotationCloses(r, History[job.m].wire)
    BY <1>2 DEF StaleTakes
  <1>4. Behind' = Behind /\ History' = History /\ PassOK(catch)' /\ ~ReplayEnd
    BY <1>1, RoomStays, BehindStays DEF ReplayEnd, SpanInv, PassOK
  <1>5. \A r \in trk.open : Rec(r)
    BY <1>1, TrackedIs, TrackedOnes
  <1>6. ASSUME NEW r \in W
        PROVE  Finished(r.wire, catch.win, Behind, History) /\ WholeOf(r, catch.win, r.wire, History)
    <2>1. r.replayed /\ r.speaker \notin trk.cut /\ Rec(r) /\ catch.pc = "replay" /\ job.m = catch.at /\ catch.at <= catch.win
          /\ WireRotationCloses(r, History[catch.at].wire)
      BY <1>1, <1>3, <1>5, <1>6 DEF Shape
    <2>2. PartOf(r, catch.win, Behind, trk.cut, History)
      BY <1>3, <1>6, <2>1 DEF SpanInv, Passing
    <2>3. Finished(r.wire, catch.win, Behind, History)
      BY <1>4, <2>1, <2>2, RotationFinishes
    <2> QED BY <2>1, <2>2, <2>3, PassedIsWhole
  <1>7. \A r \in Tracked' : r.replayed /\ r.whole => \E w : WholeOf(r, catch'.win, w, History')
    <2> SUFFICES ASSUME NEW r \in Tracked', r.replayed, r.whole PROVE \E w : WholeOf(r, catch.win, w, History)
      BY <1>1, <1>4
    <2>1. CASE r \in Tracked
      BY <2>1 DEF SpanInv
    <2>2. ASSUME NEW q \in W, r = [q EXCEPT !.whole = TRUE] PROVE \E w : WholeOf(r, catch.win, w, History)
      <3>1. Alike(q, r)
        BY <1>3, <1>5, <2>2 DEF Rec, RecordFields, Alike
      <3> QED BY <1>6, <3>1, SameWhole
    <2> QED BY <1>1, <1>2, <1>3, <2>1, <2>2, TrackedIs, TrackedNext DEF StaleTakes
  <1>8. trk.cut \subseteq trk'.cut /\ trk'.open \subseteq trk.open /\ \A q \in trk.open : q \in trk'.open \/ q \in W \/ (q.replayed => q.speaker \in trk'.cut)
    BY <1>3
  <1>9. ASSUME Passing', NEW r \in trk'.open, r.replayed PROVE PartOf(r, catch'.win, Behind', trk'.cut, History')
    <2>1. PartOf(r, catch.win, Behind, trk.cut, History)
      BY <1>1, <1>8, <1>9 DEF SpanInv, Passing
    <2> QED BY <1>1, <1>4, <1>8, <2>1, SamePart, SameItself
  <1>10. ASSUME catch'.pc = "replay" PROVE Account(trk'.open, catch'.win, Behind', trk'.cut, History')
    <2>1. Account(trk.open, catch.win, Behind, trk.cut, History)
      BY <1>1, <1>10 DEF SpanInv
    <2> HIDE DEF Behind, History
    <2> SUFFICES ASSUME NEW m \in Behind, History[m].speaker \notin trk'.cut
                 PROVE  \/ \E r \in trk'.open : r.replayed /\ r.speaker = History[m].speaker /\ r.wire = History[m].wire
                        \/ Finished(History[m].wire, catch.win, Behind, History)
      BY <1>1, <1>4 DEF Account
    <2>2. CASE Finished(History[m].wire, catch.win, Behind, History)
      BY <2>2
    <2>3. ASSUME NEW q \in trk.open, q.replayed, q.speaker = History[m].speaker, q.wire = History[m].wire
          PROVE  \/ \E r \in trk'.open : r.replayed /\ r.speaker = History[m].speaker /\ r.wire = History[m].wire
                 \/ Finished(History[m].wire, catch.win, Behind, History)
      <3>1. CASE q \in trk'.open
        BY <2>3, <3>1
      <3>2. CASE q \in W
        <4>1. Finished(q.wire, catch.win, Behind, History)
          BY <1>6, <3>2
        <4> QED BY <2>3, <4>1
      <3> QED BY <1>8, <2>3, <3>1, <3>2
    <2> QED BY <1>8, <2>1, <2>2, <2>3 DEF Account
  <1>11. \A r \in trk'.open : ~r.whole
    BY <1>8 DEF SpanInv
  <1> QED BY <1>4, <1>7, <1>9, <1>10, <1>11 DEF SpanInv

(* Record b may take the next message of conversation w.                   *)
Extends(b, w, n, P, cut, h) ==
  \/ b.turns # <<>> /\ b.wire = w /\ PartOf(b, n, P, cut, h)
  \/ b.turns = <<>> /\ (b.speaker \notin cut => \A m \in P : ~(h[m].speaker = b.speaker /\ h[m].wire = w))

(* The record grows by the next message of its conversation.               *)
LEMMA PartGrows ==
  ASSUME NEW b, Base(b), NEW x, NEW t \in TurnSet, NEW w, Grows(b, x, t, w), x.wire = w, x.prev = PrevWire[w],
         NEW n \in Nat, NEW h, NEW cut, NEW a \in 1..n, t.m = a, h[a].speaker = b.speaker, h[a].wire = w,
         NEW P, P \subseteq 1..n, \A m \in P : m < a, Extends(b, w, n, P, cut, h)
  PROVE  PartOf(x, n, P \cup {a}, cut, h)
  <1>1. /\ \A i \in DOMAIN x.turns : x.turns[i] = t \/ (i \in DOMAIN b.turns /\ x.turns[i] = b.turns[i])
        /\ \A i \in DOMAIN b.turns : i \in DOMAIN x.turns /\ x.turns[i] = b.turns[i]
        /\ \E i \in DOMAIN x.turns : x.turns[i] = t
    BY TurnsOfGrown
  <1>2. x.speaker = b.speaker /\ x.turns = Append(b.turns, t) /\ b.turns \in Seq(TurnSet)
    BY DEF Grows, Base
  <1>3. /\ b.turns = <<>> => DOMAIN b.turns = {}
        /\ \/ b.turns # <<>> /\ b.wire = w /\ PartOf(b, n, P, cut, h)
           \/ b.turns = <<>> /\ (b.speaker \notin cut => \A m \in P : ~(h[m].speaker = b.speaker /\ h[m].wire = w))
    BY DEF Extends
  <1>4. \A i \in DOMAIN b.turns : b.turns[i].m \in P /\ h[b.turns[i].m].speaker = b.speaker /\ h[b.turns[i].m].wire = w
    BY <1>3 DEF PartOf, Within
  <1>5. Ordered(x)
    <2> DEFINE s == b.turns
    <2>1. s \in Seq(TurnSet) /\ x.turns = Append(s, t) /\ (\A i, j \in DOMAIN s : i < j => s[i].m < s[j].m) /\ (\A i \in DOMAIN s : s[i].m < a)
      BY <1>2, <1>3, <1>4 DEF PartOf, Ordered
    <2> HIDE DEF s
    <2>2. /\ DOMAIN s = 1..Len(s) /\ DOMAIN x.turns = 1..(Len(s) + 1) /\ Len(s) \in Nat
          /\ \A i \in DOMAIN s : x.turns[i] = s[i]
          /\ x.turns[Len(s) + 1] = t
      BY <2>1, TurnAdded
    <2> SUFFICES ASSUME NEW i \in DOMAIN x.turns, NEW j \in DOMAIN x.turns, i < j PROVE x.turns[i].m < x.turns[j].m
      BY DEF Ordered
    <2>3. i \in DOMAIN s
      BY <2>2
    <2>4. CASE j \in DOMAIN s
      BY <2>1, <2>2, <2>3, <2>4
    <2>5. CASE j = Len(s) + 1
      BY <2>1, <2>2, <2>3, <2>5
    <2> QED BY <2>2, <2>4, <2>5
  <1>6. Within(x, n, w, h)
    BY <1>1, <1>2, <1>4, ZenonT(40) DEF Within
  <1>7. \A i \in DOMAIN x.turns : x.turns[i].m \in P \cup {a}
    BY <1>1, <1>4
  <1>8. ASSUME x.speaker \notin cut, NEW m \in P \cup {a}, h[m].speaker = x.speaker, h[m].wire = w PROVE Of(x, m)
    <2>1. CASE m = a
      BY <1>1, <2>1 DEF Of
    <2>2. CASE m \in P
      <3>1. b.turns # <<>> /\ Of(b, m)
        BY <1>2, <1>3, <1>8, <2>2 DEF PartOf
      <3> QED BY <1>1, <3>1 DEF Of
    <2> QED BY <2>1, <2>2
  <1> QED BY <1>5, <1>6, <1>7, <1>8 DEF PartOf

(* A record of another speaker is not concerned.                           *)
LEMMA PartOfOther ==
  ASSUME NEW r, NEW n, NEW P, NEW cut, NEW c2, cut \subseteq c2, NEW h, NEW a, PartOf(r, n, P, cut, h), h[a].speaker # r.speaker
  PROVE  PartOf(r, n, P \cup {a}, c2, h)
  BY DEF PartOf

LEMMA LiveTurnSpans == ASSUME Held, LiveHeld, SpanInv, AddTurn, job.kind # "replay" PROVE SpanInv'
  <1>1. TrackInv /\ Shape /\ SoundInv /\ CatchOK(catch)
    BY DEF Held, LiveHeld, TrackInv, Shape
  <1>2. SameRoom /\ UNCHANGED catch /\ job' # NoJob /\ job'.kind = job.kind
    BY <1>1, TurnJoinsOne
  <1>3. PICK b, x : Joined(b, x)
    BY <1>1, TurnJoinsOne
  <1>4. Tracked' = (Tracked \ {b}) \cup {x}
    BY <1>1, <1>3, TurnTracks
  <1>5. ~b.replayed
    BY <1>1, <1>3, JoinedFits DEF Fits
  <1>6. ~b.whole
    BY <1>3 DEF Joined, SpanInv, NewRecord
  <1>7. ~x.replayed /\ ~x.whole
    BY <1>3, <1>5, <1>6 DEF Joined, Grows
  <1>8. trk'.open \subseteq (trk.open \ {b}) \cup {x} /\ trk.open \ {b} \subseteq trk'.open /\ trk'.cut = trk.cut
    BY <1>3, <1>7 DEF Joined
  <1>9. Behind' = Behind /\ PassOK(catch')
    BY <1>2, BehindStays DEF ReplayEnd, SpanInv
  <1>10. (\A r \in trk.open : Same(r, r)) /\ \A r \in Tracked : Same(r, r)
    BY SameItself
  <1>11. \A q \in trk.open : q.replayed => q \in trk'.open
    BY <1>5, <1>8
  <1>12. SpanShrinks
    BY <1>2, <1>4, <1>7, <1>8, <1>9, <1>10, <1>11 DEF SpanShrinks, Passing
  <1> QED BY <1>12, SpanFrame

LEMMA ReplayTurnSpans == ASSUME Held, LiveHeld, SpanInv, Rotates(History), AddTurn, job.kind = "replay" PROVE SpanInv'
  <1>1. TrackInv /\ Shape /\ SoundInv /\ CatchOK(catch) /\ CountOK(count) /\ job # NoJob /\ job.pc = "turn"
    BY DEF Held, LiveHeld, TrackInv, Shape, AddTurn, JobAt
  <1>2. SameRoom /\ UNCHANGED catch /\ job' # NoJob /\ job'.kind = job.kind /\ job'.pc = "end" /\ MessageJob(job)
    BY <1>1, TurnJoinsOne
  <1> DEFINE a == catch.at  n == catch.win  h == History  w == h[a].wire  s == h[a].speaker  P == Behind
             t == [m |-> job.m, own |-> ~job.dup]
  <1>3. /\ job.m = a /\ a \in 1..n /\ n \in Nat /\ catch.pc = "replay" /\ h' = h /\ 1..n \subseteq DOMAIN h
    <2>1. DOMAIN History = 1..Len(History) /\ Len(History) \in Nat /\ sent \in 0..Len(History)
      BY <1>1 DEF CountOK, History, Shape
    <2> QED BY <1>1, <1>2, <2>1, RoomStays DEF Shape, CatchOK
  <1>4. P \subseteq 1..n /\ (\A m \in P : m < a) /\ Behind' = P \cup {a} /\ a \notin P
    <2>1. P = {m \in 1..n : m < a}
      BY <1>1, <1>3 DEF Behind, Past
    <2>2. Behind' = {m \in 1..n : m < a \/ m = a}
      BY <1>2, <1>3 DEF Behind, Past
    <2> QED BY <1>3, <2>1, <2>2
  <1>5. PICK b, x : Joined(b, x)
    BY <1>1, TurnJoinsOne
  <1>6. Tracked' = (Tracked \ {b}) \cup {x}
    BY <1>1, <1>5, TurnTracks
  <1>7. /\ Fits(b) /\ b.replayed /\ Base(b) /\ Rec(x) /\ Grows(b, x, t, w) /\ b.speaker = s /\ x.speaker = s /\ x.replayed
        /\ t \in TurnSet /\ t.m = a
    <2>1. Fits(b)
      BY <1>1, <1>5, JoinedFits
    <2>2. b.replayed /\ Base(b) /\ Rec(x) /\ Grows(b, x, t, w) /\ b.speaker = s
      BY <1>3, <1>5, <2>1 DEF Fits, Joined
    <2>3. t \in TurnSet /\ t.m = a
      BY <1>2, <1>3 DEF TurnSet, MessageJob
    <2> QED BY <2>1, <2>2, <2>3 DEF Grows
  <1>8. ~x.whole
    <2>1. ~b.whole
      BY <1>5 DEF Joined, SpanInv, NewRecord
    <2> QED BY <1>7, <2>1 DEF Grows
  <1>9. \A r \in trk.open : r # b => r.speaker # s
    BY <1>1, <1>3, <1>5, <1>7 DEF Joined, TrackInv, OpenOK
  <1>10. \A r \in trk.open : r.replayed => PartOf(r, n, P, trk.cut, h)
    BY <1>3 DEF SpanInv, Passing
  <1>11. Account(trk.open, n, P, trk.cut, h)
    BY <1>3 DEF SpanInv
  <1>12. w # NoWire
    BY <1>3 DEF Rotates
  <1>14. b \in trk.open => /\ b.turns # <<>> /\ b.wire = w /\ PartOf(b, n, P, trk.cut, h) /\ b.prev = PrevWire[w]
    <2> SUFFICES ASSUME b \in trk.open PROVE b.turns # <<>> /\ b.wire = w /\ PartOf(b, n, P, trk.cut, h) /\ b.prev = PrevWire[w]
      OBVIOUS
    <2>1. Rec(b) /\ PartOf(b, n, P, trk.cut, h)
      BY <1>1, <1>7, <1>10, TrackedIs, TrackedOnes
    <2>2. 1 \in DOMAIN b.turns /\ b.turns # <<>>
      BY <2>1 DEF Rec
    <2>3. b.turns[1].m \in P /\ h[b.turns[1].m].wire = b.wire /\ b.prev = PrevWire[b.wire]
      BY <2>1, <2>2 DEF PartOf, Within
    <2>4. b.wire # NoWire /\ PrevWire[b.wire] # w
      <3> HIDE DEF h, P, a, n
      <3>1. b.turns[1].m \in DOMAIN h /\ a \in DOMAIN h /\ b.turns[1].m < a
        BY <1>3, <1>4, <2>3
      <3>2. Rotates(h)
        BY DEF h
      <3> QED BY <2>3, <3>1, <3>2 DEF Rotates
    <2>5. ~WireRotationCloses(b, w)
      BY <1>3, <1>7 DEF Fits
    <2> QED BY <1>12, <2>1, <2>2, <2>3, <2>4, <2>5 DEF WireRotationCloses
  <1>15. b \notin trk.open => b.turns = <<>> /\ b.wire = NoWire /\ (\A r \in trk.open : r.speaker # s)
    BY <1>3, <1>5 DEF Joined, NewRecord
  <1> HIDE DEF a, n, h, w, s, P, t
  <1>16. s \notin trk.cut /\ b \notin trk.open => \A m \in P : ~(h[m].speaker = s /\ h[m].wire = w)
    <2> SUFFICES ASSUME s \notin trk.cut, b \notin trk.open, NEW m \in P, h[m].speaker = s, h[m].wire = w PROVE FALSE
      OBVIOUS
    <2>1. Finished(w, n, P, h)
      BY <1>11, <1>15 DEF Account
    <2>2. h[a].wire = w
      BY DEF w
    <2> QED BY <1>3, <1>4, <2>1, <2>2 DEF Finished
  <1>17. CASE trk'.open = (trk.open \ {b}) \cup {x} /\ trk'.cut = trk.cut /\ (x.wire = NoWire => w = NoWire)
    <2>1. x.wire = w /\ x.prev = PrevWire[w]
      BY <1>7, <1>12, <1>14, <1>15, <1>17 DEF Grows
    <2>2. h[a].speaker = b.speaker /\ h[a].wire = w
      BY <1>7 DEF w, s
    <2>3. Extends(b, w, n, P, trk.cut, h)
      BY <1>7, <1>14, <1>15, <1>16 DEF Extends
    <2>4. PartOf(x, n, P \cup {a}, trk.cut, h)
      <3>1. Base(b) /\ t \in TurnSet /\ Grows(b, x, t, w) /\ n \in Nat /\ a \in 1..n /\ t.m = a
        BY <1>3, <1>7
      <3>2. P \subseteq 1..n /\ \A m \in P : m < a
        BY <1>4
      <3> QED BY <2>1, <2>2, <2>3, <3>1, <3>2, PartGrows
    <2>5. ASSUME NEW r \in trk'.open, r.replayed PROVE PartOf(r, n, P \cup {a}, trk'.cut, h)
      <3>1. CASE r = x
        BY <1>17, <2>4, <3>1
      <3>2. CASE r \in trk.open /\ r # b
        <4>1. h[a].speaker # r.speaker
          BY <1>9, <3>2 DEF s
        <4>2. PartOf(r, n, P, trk.cut, h)
          BY <1>10, <2>5, <3>2
        <4> QED BY <1>17, <4>1, <4>2, PartOfOther
      <3> QED BY <1>17, <3>1, <3>2
    <2>6. Account(trk'.open, n, P \cup {a}, trk'.cut, h)
      <3> SUFFICES ASSUME NEW m \in P \cup {a}, h[m].speaker \notin trk.cut
                   PROVE  \/ \E r \in trk'.open : r.replayed /\ r.speaker = h[m].speaker /\ r.wire = h[m].wire
                          \/ Finished(h[m].wire, n, P \cup {a}, h)
        BY <1>17 DEF Account
      <3>1. CASE m = a
        BY <1>7, <1>17, <2>1, <2>2, <3>1
      <3>2. CASE m \in P /\ Finished(h[m].wire, n, P, h)
        BY <3>2 DEF Finished
      <3>3. ASSUME NEW r \in trk.open, r.replayed, r.speaker = h[m].speaker, r.wire = h[m].wire
            PROVE  \E q \in trk'.open : q.replayed /\ q.speaker = h[m].speaker /\ q.wire = h[m].wire
        <4>1. CASE r = b
          BY <1>7, <1>14, <1>17, <2>1, <3>3, <4>1
        <4>2. CASE r # b
          BY <1>17, <3>3, <4>2
        <4> QED BY <4>1, <4>2
      <3> QED BY <1>11, <3>1, <3>2, <3>3 DEF Account
    <2> QED BY <2>5, <2>6, <1>2, <1>3, <1>4, <1>6, <1>8, <1>17 DEF SpanInv, PassOK, n, h
  <1>18. CASE trk'.open = trk.open \ {b} /\ trk'.cut = trk.cut \cup {s}
    <2>1. ASSUME NEW r \in trk'.open, r.replayed PROVE PartOf(r, n, P \cup {a}, trk'.cut, h)
      <3>1. h[a].speaker # r.speaker
        BY <1>9, <1>18, <2>1 DEF s
      <3>2. PartOf(r, n, P, trk.cut, h)
        BY <1>10, <1>18, <2>1
      <3> QED BY <1>18, <3>1, <3>2, PartOfOther
    <2>2. Account(trk'.open, n, P \cup {a}, trk'.cut, h)
      <3> SUFFICES ASSUME NEW m \in P \cup {a}, h[m].speaker \notin trk'.cut
                   PROVE  \/ \E r \in trk'.open : r.replayed /\ r.speaker = h[m].speaker /\ r.wire = h[m].wire
                          \/ Finished(h[m].wire, n, P \cup {a}, h)
        BY DEF Account
      <3>1. m \in P /\ h[m].speaker \notin trk.cut /\ h[m].speaker # s
        BY <1>18 DEF s
      <3>2. CASE Finished(h[m].wire, n, P, h)
        BY <3>2 DEF Finished
      <3>3. ASSUME NEW r \in trk.open, r.replayed, r.speaker = h[m].speaker, r.wire = h[m].wire
            PROVE  r \in trk'.open
        BY <1>7, <1>18, <3>1, <3>3
      <3> QED BY <1>11, <3>1, <3>2, <3>3 DEF Account
    <2> QED BY <2>1, <2>2, <1>2, <1>3, <1>4, <1>6, <1>8, <1>18 DEF SpanInv, PassOK, n, h
  <1> QED BY <1>3, <1>5, <1>7, <1>17, <1>18, SMTT(30) DEF Joined, w, h, s

(***************************************************************************)
(* Every step, and the rows.                                               *)
(***************************************************************************)
LEMMA RoomKept == ASSUME Held, [Next]_vars PROVE SameRoom
  <1>1. TrackInv /\ DOMAIN count = {"ids", "room", "sent", "unowned", "starts", "votes", "notices", "failures", "long", "ticks"}
    BY DEF Held, TrackInv, Shape, CountOK
  <1>2. CASE UNCHANGED count
    BY <1>2 DEF SameRoom
  <1>3. CASE JobPersist
    BY <1>1, <1>3, JobPersistSheds
  <1>4. CASE SweepPersist
    BY <1>1, <1>4, SweepPersistSheds
  <1>5. CASE AddTurn
    BY <1>1, <1>5, TurnJoinsOne
  <1>6. CASE Boot \/ ReplayRaises \/ (\E n \in 1..2 : ParkVote(n)) \/ (\E s, w : OnNotification(s, w))
    BY <1>1, <1>6 DEF Boot, ReplayRaises, ParkVote, OnNotification, SameRoom
  <1>7. CASE UNCHANGED vars
    BY <1>2, <1>7 DEF vars
  <1>8. CASE Locked
    <2>1. CASE CloseStale \/ EndSession \/ JobEnd \/ (\E b \in BOOLEAN : NoticeClose(b)) \/ TickEnds
      BY <1>2, <2>1 DEF CloseStale, EndSession, JobEnd, NoticeClose, TickEnds
    <2> QED BY <1>3, <1>5, <1>6, <1>8, <2>1 DEF Locked
  <1>9. CASE Sweep
    BY <1>2, <1>4, <1>9 DEF Sweep, SweepClose, SweepEnd
  <1>10. CASE World
    BY <1>2, <1>6, <1>10 DEF World, Crash, Halt, Publish, ClockStep
  <1>11. CASE EventTimeout \/ Drained
    BY <1>2, <1>11 DEF EventTimeout, Drained, Halt
  <1>12. CASE Replay
    BY <1>2, <1>6, <1>12 DEF Replay, FetchWindow, FetchFails, ReplayMessage, ReplayFinished, ReplayCutShort
  <1>13. CASE Finalize
    BY <1>2, <1>13 DEF Finalize, TaskEnter, TaskFacts, TaskUpdate
  <1>14. CASE Arrive
    BY <1>2, <1>6, <1>14 DEF Arrive, OnMessage, OnMessageSilent, OnMessageDenied, VoteFailed, VotePublished, Resolve, OnTick, OnQuietTick, Shutdown
  <1> QED BY <1>7, <1>8, <1>9, <1>10, <1>11, <1>12, <1>13, <1>14 DEF Next

LEMMA SpanStep == ASSUME Held, LiveHeld, SpanInv, Rotates(History), [Next]_vars PROVE SpanInv'
  <1>1. CASE UNCHANGED vars
    <2>1. UNCHANGED <<trk, catch, job, count>>
      BY <1>1 DEF vars
    <2>2. SameRoom /\ Tracked' \subseteq Tracked /\ (ReplayEnd' <=> ReplayEnd)
      BY <2>1 DEF SameRoom, Tracked, ReplayEnd
    <2> QED BY <2>1, <2>2, StillShrinks
  <1>2. CASE Locked
    BY <1>2, PersistSpans, StaleSpans, LiveTurnSpans, ReplayTurnSpans, EndsSpans, NoticeSpans DEF Locked
  <1>3. CASE Sweep
    BY <1>3, SweepSpans, PersistSpans DEF Sweep
  <1>4. CASE World \/ Drained
    BY <1>4, WorldSpans, ClockSpans DEF World
  <1>5. CASE EventTimeout
    BY <1>5, EndsSpans
  <1>6. CASE Replay
    BY <1>6, ReplaySpans DEF Replay
  <1>7. CASE Finalize
    BY <1>7, FinalizeSpans
  <1>8. CASE Arrive
    BY <1>8, ArriveSpans
  <1> QED BY <1>1, <1>2, <1>3, <1>4, <1>5, <1>6, <1>7, <1>8 DEF Next

(* The rows a step does not store keep their span.                         *)
SameSpan(q, row) == q.replayed = row.replayed /\ q.span = row.span /\ q.speaker = row.speaker /\ q.win = row.win

(* A row spans one whole conversation of its window, in order.             *)
RowWhole(row, h) ==
  /\ \A i, j \in DOMAIN row.span : i < j => row.span[i] < row.span[j]
  /\ ToSet(row.span) = {i \in 1..row.win : h[i].speaker = row.speaker /\ h[i].wire = h[row.span[1]].wire}

LEMMA RowsAre == ReplayedSpansAreWhole <=> \A row \in rows : row.replayed => RowWhole(row, History)
  BY DEF ReplayedSpansAreWhole, RowWhole, Segment

LEMMA RowsNext == ReplayedSpansAreWhole' <=> \A row \in rows' : row.replayed => RowWhole(row, History')
  BY DEF ReplayedSpansAreWhole, RowWhole, Segment

LEMMA SpansKept ==
  ASSUME ReplayedSpansAreWhole, SameRoom,
         \A row \in rows' : row.replayed => RowWhole(row, History) \/ \E q \in rows : SameSpan(q, row)
  PROVE  ReplayedSpansAreWhole'
  <1>1. History' = History
    BY RoomStays
  <1>2. ASSUME NEW row \in rows', row.replayed PROVE RowWhole(row, History)
    <2>1. ASSUME NEW q \in rows, SameSpan(q, row) PROVE RowWhole(row, History)
      <3>1. RowWhole(q, History) /\ q.span = row.span /\ q.speaker = row.speaker /\ q.win = row.win
        BY <1>2, <2>1, RowsAre DEF SameSpan
      <3> QED BY <3>1 DEF RowWhole
    <2> QED BY <1>2, <2>1
  <1> QED BY <1>1, <1>2, RowsNext

LEMMA StoredWhole ==
  ASSUME NEW r, Rec(r), r.replayed, NEW w, WholeOf(r, catch.win, w, History), NEW iid
  PROVE  RowWhole(NewRow(r, iid), History)
  <1> DEFINE row == NewRow(r, iid)
  <1>1. row.span = [i \in DOMAIN r.turns |-> r.turns[i].m] /\ row.speaker = r.speaker /\ row.win = catch.win
    BY DEF NewRow, MessagesOf
  <1> HIDE DEF row, History
  <1>2. DOMAIN row.span = DOMAIN r.turns /\ \A i \in DOMAIN r.turns : row.span[i] = r.turns[i].m
    BY <1>1
  <1>3. 1 \in DOMAIN r.turns
    BY DEF Rec
  <1>4. History[row.span[1]].wire = w
    BY <1>2, <1>3 DEF WholeOf, Within
  <1>5. \A i, j \in DOMAIN row.span : i < j => row.span[i] < row.span[j]
    BY <1>2 DEF WholeOf, Ordered
  <1>6. ToSet(row.span) = {i \in 1..row.win : History[i].speaker = row.speaker /\ History[i].wire = w}
    <2>1. ToSet(row.span) = {row.span[i] : i \in DOMAIN row.span}
      BY DEF ToSet
    <2>2. \A m : m \in ToSet(row.span) <=> Of(r, m)
      BY <1>2, <2>1 DEF Of
    <2>3. \A m : Of(r, m) <=> m \in 1..catch.win /\ History[m].speaker = r.speaker /\ History[m].wire = w
      BY DEF WholeOf, Within, Of
    <2> QED BY <1>1, <2>2, <2>3
  <1> QED BY <1>4, <1>5, <1>6 DEF RowWhole, row

LEMMA PersistedWhole ==
  ASSUME Held, SpanInv, ReplayedSpansAreWhole, SameRoom, NEW r \in Tracked, PersistClosed(r) PROVE ReplayedSpansAreWhole'
  <1>1. Rec(r)
    BY TrackedOnes DEF Held
  <1>2. CASE rows' = rows
    BY <1>2, SpansKept DEF SameSpan
  <1>3. ASSUME NEW c \in BOOLEAN, NEW d \in BOOLEAN, Store(r, c, d), Derivable(r) PROVE ReplayedSpansAreWhole'
    <2> DEFINE iid == Identity(r, c)
    <2>1. \A row \in rows' : row \in rows \/ row = NewRow(r, iid)
      BY <1>3 DEF Store
    <2>2. NewRow(r, iid).replayed = r.replayed
      BY DEF NewRow
    <2>3. ASSUME r.replayed PROVE RowWhole(NewRow(r, iid), History)
      <3>1. r.whole
        BY <1>3, <2>3 DEF Derivable
      <3>2. PICK w : WholeOf(r, catch.win, w, History)
        BY <2>3, <3>1 DEF SpanInv
      <3> HIDE DEF iid
      <3> QED BY <1>1, <2>3, <3>2, StoredWhole
    <2> HIDE DEF iid
    <2>4. \A row \in rows' : row.replayed => RowWhole(row, History) \/ \E q \in rows : SameSpan(q, row)
      BY <2>1, <2>2, <2>3 DEF SameSpan
    <2> QED BY <2>4, SpansKept
  <1> QED BY <1>2, <1>3 DEF PersistClosed

LEMMA RowsStep ==
  ASSUME Held, SpanInv, ReplayedSpansAreWhole, [Next]_vars PROVE ReplayedSpansAreWhole'
  <1>1. SameRoom /\ TrackInv /\ \A row \in rows : RowOK(row, count.ids)
    BY RoomKept DEF Held, StoreInv, RowsOK
  <1>2. CASE rows' = rows
    BY <1>1, <1>2, SpansKept DEF SameSpan
  <1>3. CASE JobPersist
    BY <1>1, <1>3, JobPersistSheds, PersistedWhole
  <1>4. CASE SweepPersist
    BY <1>1, <1>4, SweepPersistSheds, PersistedWhole
  <1>5. CASE ClockStep
    <2> DEFINE g(row) == [row EXCEPT !.age = Capped(@, GraceAge)]
    <2>1. rows' = {g(row) : row \in rows}
      BY <1>5 DEF ClockStep
    <2>2. \A row \in rows : SameSpan(row, g(row))
      BY <1>1 DEF RowOK, SameSpan
    <2> HIDE DEF g
    <2> QED BY <1>1, <2>1, <2>2, SpansKept
  <1>6. CASE CleanupClosing
    <2> DEFINE g(row) == IF Abandoned(row) THEN [row EXCEPT !.summary = "unavailable"] ELSE row
    <2>1. \A row \in rows : SameSpan(row, g(row))
      BY <1>1 DEF RowOK, SameSpan
    <2>2. CASE rows' = {g(row) : row \in rows}
      <3> HIDE DEF g
      <3> QED BY <1>1, <2>1, <2>2, SpansKept
    <2> QED BY <1>2, <1>6, <2>2 DEF CleanupClosing
  <1>7. CASE Finalize
    <2>1. PICK k \in tasks : TaskEnter(k) \/ TaskFacts(k) \/ \E ok \in BOOLEAN : TaskUpdate(k, ok)
      BY <1>7 DEF Finalize
    <2>2. CASE TaskEnter(k)
      BY <1>2, <2>2 DEF TaskEnter
    <2>3. CASE TaskFacts(k)
      <3> DEFINE g(row) == IF row.iid = k.iid /\ k.ok THEN [row EXCEPT !.facts = Capped(@, 2)] ELSE row
      <3>1. rows' = {g(row) : row \in rows}
        BY <2>3 DEF TaskFacts
      <3>2. \A row \in rows : SameSpan(row, g(row))
        BY <1>1 DEF RowOK, SameSpan
      <3> HIDE DEF g
      <3> QED BY <1>1, <3>1, <3>2, SpansKept
    <2>4. ASSUME NEW ok \in BOOLEAN, TaskUpdate(k, ok) PROVE ReplayedSpansAreWhole'
      <3> DEFINE hit == {row \in rows : Updates(row, k)}
                 g(row) == [row EXCEPT !.summary = SummaryOf(ok)]
      <3>1. rows' = (rows \ hit) \cup {g(row) : row \in hit}
        BY <2>4 DEF TaskUpdate
      <3>2. \A row \in rows : SameSpan(row, g(row)) /\ SameSpan(row, row)
        BY <1>1 DEF RowOK, SameSpan
      <3>3. hit \subseteq rows
        OBVIOUS
      <3> HIDE DEF g, hit
      <3>4. \A row \in rows' : \E q \in rows : SameSpan(q, row)
        BY <3>1, <3>2, <3>3
      <3> QED BY <1>1, <3>4, SpansKept
    <2> QED BY <2>1, <2>2, <2>3, <2>4
  <1>8. CASE UNCHANGED vars
    BY <1>2, <1>8 DEF vars
  <1>9. CASE Locked
    <2>1. CASE CloseStale \/ AddTurn \/ EndSession \/ JobEnd \/ (\E n \in 1..2 : ParkVote(n)) \/ (\E b \in BOOLEAN : NoticeClose(b))
      BY <1>2, <2>1, Zenon DEF CloseStale, AddTurn, EndSession, JobEnd, ParkVote, NoticeClose
    <2>2. CASE TickEnds
      BY <1>6, <2>2 DEF TickEnds
    <2> QED BY <1>3, <1>9, <2>1, <2>2, SMTT(30) DEF Locked
  <1>10. CASE Sweep
    BY <1>2, <1>4, <1>10 DEF Sweep, SweepClose, SweepEnd
  <1>11. CASE World \/ EventTimeout \/ Drained
    BY <1>2, <1>5, <1>11 DEF World, Boot, Crash, Publish, EventTimeout, Drained
  <1>12. CASE Replay
    BY <1>2, <1>12 DEF Replay, FetchWindow, FetchFails, ReplayMessage, ReplayRaises, ReplayFinished, ReplayCutShort
  <1>13. CASE Arrive
    <2>1. CASE OnQuietTick
      BY <1>6, <2>1 DEF OnQuietTick
    <2>2. CASE Arrive /\ ~OnQuietTick
      BY <1>2, <2>2 DEF Arrive, OnMessage, OnMessageSilent, OnMessageDenied, OnNotification, VoteFailed, VotePublished, Resolve, OnTick, Shutdown
    <2> QED BY <1>13, <2>1, <2>2
  <1> QED BY <1>7, <1>8, <1>9, <1>10, <1>11, <1>12, <1>13 DEF Next

(* The invariant of the replay, in a room whose conversations rotate.      *)
ReplayInv == Rotates(History) /\ SpanInv /\ ReplayedSpansAreWhole

(* Every room the behaviours may have rotates.                             *)
RoomsRotate == \A b \in Budgets : Rotates(b.room)

(* In a room whose conversations follow one another, an episode derived from*)
(* catch-up is also exactly one whole conversation of its window, in order,*)
(* whatever live turn, idle gap, turn cap, raising row or budget interrupted*)
(* the pass (replay_window_complete, close_replayed_scopes).               *)
THEOREM SpansStayWhole ==
  ASSUME RoomsRotate
  PROVE  Spec => []SpansAreWhole
  <1>1. Init => CloseInv /\ ReplayInv
    <2> SUFFICES ASSUME Init PROVE CloseInv /\ ReplayInv
      OBVIOUS
    <2>1. CloseInv
      BY HeldInit, LiveInit, GateEmpty DEF CloseInv, Init
    <2>2. Tracked = {} /\ trk.open = {} /\ catch.pc = "off" /\ rows = {}
      BY InitTracks DEF Init, FreshTracker
    <2>3. SpanInv /\ ReplayedSpansAreWhole
      BY <2>2 DEF SpanInv, PassOK, Passing, ReplayedSpansAreWhole
    <2>4. Rotates(History)
      <3>1. PICK b \in Budgets : count = [f \in {"ids"} \cup DOMAIN b |-> IF f = "ids" THEN 0 ELSE b[f]]
        BY DEF Init
      <3>2. "room" \in DOMAIN b
        BY CloseAssumption
      <3>3. count.room = b.room
        BY <3>1, <3>2
      <3> QED BY <3>3 DEF RoomsRotate, History
    <2> QED BY <2>1, <2>3, <2>4 DEF ReplayInv
  <1>2. CloseInv /\ ReplayInv /\ [Next]_vars => (CloseInv /\ ReplayInv)'
    <2> SUFFICES ASSUME CloseInv, ReplayInv, [Next]_vars PROVE CloseInv' /\ ReplayInv'
      OBVIOUS
    <2>1. CloseInv'
      BY HeldStep, LiveStep, GateStep DEF CloseInv
    <2>2. SpanInv'
      BY SpanStep DEF CloseInv, ReplayInv
    <2>3. ReplayedSpansAreWhole'
      BY RowsStep DEF CloseInv, ReplayInv
    <2>4. History' = History
      BY RoomKept, RoomStays DEF CloseInv
    <2>5. Rotates(History)'
      BY <2>4 DEF ReplayInv, Rotates
    <2> QED BY <2>1, <2>2, <2>3, <2>5 DEF ReplayInv
  <1>3. CloseInv /\ ReplayInv => SpansAreWhole
    BY CloseInvImplies DEF LiveSpansAreWhole, ReplayInv, SpansAreWhole
  <1> QED BY <1>1, <1>2, <1>3, PTL DEF Spec

(***************************************************************************)
(* What a resolved end vote closes.                                        *)
(***************************************************************************)
(* A record that is open has a message in each turn, and its wire's predecessor. *)
Linked(r) ==
  /\ r.wire # NoWire => r.prev = PrevWire[r.wire]
  /\ \A i \in DOMAIN r.turns : r.turns[i].m # 0

(* Every open record is linked.                                            *)
LinkInv == \A r \in trk.open : Linked(r)

LEMMA FewerLinked == ASSUME LinkInv, trk'.open \subseteq trk.open PROVE LinkInv'
  BY DEF LinkInv, Linked

LEMMA ClosedFewer == ASSUME Shape, NEW S, trk' = CloseRecords(trk, S) PROVE trk'.open \subseteq trk.open
  BY DEF Shape, CloseRecords

LEMMA LinkJoined == ASSUME Held, LinkInv, AddTurn PROVE LinkInv'
  <1>1. TrackInv /\ Shape
    BY DEF Held, TrackInv
  <1>2. PICK b, x : Joined(b, x)
    BY <1>1, TurnJoinsOne
  <1> DEFINE t == [m |-> job.m, own |-> ~job.dup]  w == History[job.m].wire
  <1>3. MessageJob(job) /\ job.m # 0 /\ t \in TurnSet /\ t.m = job.m
    BY <1>1, TurnJoinsOne, RoomEntry DEF MessageJob, TurnSet, Shape
  <1>4. Base(b) /\ Grows(b, x, t, w) /\ trk'.open \subseteq trk.open \cup {x}
    BY <1>2 DEF Joined
  <1>5. Linked(b)
    <2>1. CASE b \in trk.open
      BY <2>1 DEF LinkInv
    <2>2. CASE b \notin trk.open
      <3>1. b.wire = NoWire /\ b.turns = <<>>
        BY <1>2, <2>2 DEF Joined, NewRecord
      <3> QED BY <3>1 DEF Linked
    <2> QED BY <2>1, <2>2
  <1> HIDE DEF t, w
  <1>6. \A i \in DOMAIN x.turns : x.turns[i] = t \/ (i \in DOMAIN b.turns /\ x.turns[i] = b.turns[i])
    BY <1>3, <1>4, TurnsOfGrown
  <1>7. Linked(x)
    BY <1>3, <1>4, <1>5, <1>6 DEF Linked, Grows
  <1>8. \A r \in trk'.open : Linked(r)
    BY <1>4, <1>7 DEF LinkInv
  <1> QED BY <1>8 DEF LinkInv, Linked

LEMMA LinkStep == ASSUME Held, LinkInv, [Next]_vars PROVE LinkInv'
  <1>1. TrackInv /\ Shape
    BY DEF Held, TrackInv
  <1>2. CASE trk' = trk
    BY <1>2, FewerLinked
  <1>3. ASSUME NEW S, trk' = CloseRecords(trk, S) PROVE LinkInv'
    BY <1>1, <1>3, ClosedFewer, FewerLinked
  <1>4. CASE UNCHANGED vars
    BY <1>2, <1>4 DEF vars
  <1>5. CASE Locked
    <2>1. CASE JobPersist \/ JobEnd \/ (\E n \in 1..2 : ParkVote(n)) \/ TickEnds
      BY <1>2, <2>1 DEF JobPersist, JobEnd, ParkVote, TickEnds
    <2>2. CASE EndSession \/ \E b \in BOOLEAN : NoticeClose(b)
      BY <1>3, <2>2 DEF EndSession, NoticeClose
    <2>3. CASE CloseStale
      BY <1>1, <2>3, StaleCloses, FewerLinked
    <2> QED BY <1>5, <2>1, <2>2, <2>3, LinkJoined DEF Locked
  <1>6. CASE Sweep
    <2>1. CASE SweepClose
      BY <1>1, <2>1, SweepCloses, FewerLinked
    <2>2. CASE SweepEnd
      BY <1>1, <2>2, FewerLinked DEF SweepEnd, Shape
    <2>3. CASE SweepPersist
      BY <1>2, <2>3 DEF SweepPersist
    <2> QED BY <1>6, <2>1, <2>2, <2>3 DEF Sweep
  <1>7. CASE Crash \/ Drained
    <2>1. trk'.open = {}
      BY <1>7 DEF Crash, Drained, Halt, FreshTracker
    <2> QED BY <2>1, FewerLinked
  <1>8. CASE ClockStep
    <2>1. \A r \in trk'.open : \E q \in trk.open : Alike(q, r)
      BY <1>1, <1>8, ClockAges
    <2>2. \A r \in trk'.open : Linked(r)
      BY <2>1 DEF LinkInv, Linked, Alike
    <2> QED BY <2>2 DEF LinkInv, Linked
  <1>9. CASE Boot \/ Publish \/ EventTimeout \/ Finalize
    BY <1>2, <1>9 DEF Boot, Publish, EventTimeout, Finalize, TaskEnter, TaskFacts, TaskUpdate
  <1>10. CASE Replay
    <2>1. CASE ReplayMessage
      BY <1>3, <2>1 DEF ReplayMessage, Begin
    <2>2. CASE ReplayRaises
      <3>1. trk'.open = trk.open
        BY <1>1, <2>2 DEF ReplayRaises, Shape
      <3> QED BY <3>1, FewerLinked
    <2>3. CASE FetchWindow \/ FetchFails \/ ReplayFinished \/ ReplayCutShort
      BY <1>2, <2>3 DEF FetchWindow, FetchFails, ReplayFinished, ReplayCutShort
    <2> QED BY <1>10, <2>1, <2>2, <2>3 DEF Replay
  <1>11. CASE Arrive
    <2>1. trk' = trk \/ \E S : trk' = CloseRecords(trk, S)
      BY <1>11 DEF Arrive, OnMessage, OnMessageSilent, OnMessageDenied, OnNotification, VoteFailed, VotePublished, Begin, OnTick, OnQuietTick, Shutdown
    <2> QED BY <1>2, <1>3, <2>1
  <1> QED BY <1>4, <1>5, <1>6, <1>7, <1>8, <1>9, <1>10, <1>11 DEF Next, World

(* What a resolved vote closes.                                            *)
VoteSpares ==
  \A b \in ballots \ ballots' : up' /\ Mine(b) /\ vote.pending.wire # NoWire =>
    \A r \in trk.open \ trk'.open : \A i \in DOMAIN r.turns :
      History[r.turns[i].m].wire \in {vote.pending.wire, PrevWire[vote.pending.wire], NoWire}

LEMMA VoteStep == ASSUME Held, LiveHeld, LinkInv, [Next]_vars PROVE VoteSpares
  <1>1. Shape /\ SoundInv
    BY DEF Held, TrackInv, LiveHeld
  <1>2. CASE ballots \subseteq ballots' \/ trk' = trk \/ ~up'
    BY <1>2 DEF VoteSpares
  <1>3. ASSUME NEW c \in ballots, NEW y, VotePublished(c, y) PROVE VoteSpares
    <2> SUFFICES ASSUME NEW b \in ballots \ ballots', up', Mine(b), vote.pending.wire # NoWire,
                        NEW r \in trk.open \ trk'.open, NEW i \in DOMAIN r.turns
                 PROVE  History[r.turns[i].m].wire \in {vote.pending.wire, PrevWire[vote.pending.wire], NoWire}
      BY DEF VoteSpares
    <2> DEFINE p == vote.pending  out == Admitted({q \in trk.open : VoteAdmits(p, p.wire, q)})
    <2>1. trk' = trk \/ trk' = CloseRecords(trk, out)
      BY <1>3 DEF VotePublished
    <2>2. trk'.open = trk.open \ out
      <3> HIDE DEF out
      <3> QED BY <1>1, <2>1 DEF CloseRecords, Shape
    <2>3. r \in out
      BY <2>2
    <2>4. r.wire = NoWire \/ r.wire = p.wire
      BY <2>3 DEF Admitted, VoteAdmits, WireAdmits
    <2>5. Linked(r) /\ Unstamped(r) /\ Sound(r)
      BY <1>1, TrackedIs DEF LinkInv, SoundInv
    <2>6. r.turns[i].m # 0
      BY <2>5 DEF Linked
    <2>7. CASE r.wire = NoWire
      BY <2>5, <2>6, <2>7 DEF Unstamped
    <2>8. CASE r.wire # NoWire
      BY <2>4, <2>5, <2>6, <2>8 DEF Sound, Unmixed, Linked
    <2> QED BY <2>7, <2>8
  <1>4. CASE UNCHANGED vars
    BY <1>2, <1>4, SMTT(30) DEF vars
  <1>5. CASE Locked
    BY <1>2, <1>5, Zenon DEF Locked, JobPersist, CloseStale, AddTurn, EndSession, JobEnd, ParkVote, NoticeClose, TickEnds
  <1>6. CASE Sweep
    BY <1>2, <1>6 DEF Sweep, SweepClose, SweepPersist, SweepEnd
  <1>7. CASE World \/ EventTimeout \/ Drained \/ Finalize
    BY <1>2, <1>7 DEF World, Boot, Crash, Halt, Publish, ClockStep, EventTimeout, Drained, Finalize, TaskEnter, TaskFacts, TaskUpdate
  <1>8. CASE Replay
    BY <1>2, <1>8 DEF Replay, FetchWindow, FetchFails, ReplayMessage, ReplayRaises, ReplayFinished, ReplayCutShort
  <1>9. CASE Arrive
    <2>1. CASE \E b \in ballots : VoteFailed(b)
      BY <1>2, <2>1 DEF VoteFailed
    <2>2. CASE \E b \in ballots : \E y \in BOOLEAN : VotePublished(b, y)
      BY <1>3, <2>2
    <2>3. CASE Arrive /\ ~\E b \in ballots : VoteFailed(b) \/ \E y \in BOOLEAN : VotePublished(b, y)
      BY <1>2, <2>3 DEF Arrive, OnMessage, OnMessageSilent, OnMessageDenied, OnNotification, OnTick, OnQuietTick, Shutdown
    <2> QED BY <1>9, <2>1, <2>2, <2>3
  <1> QED BY <1>4, <1>5, <1>6, <1>7, <1>8, <1>9 DEF Next

(* An end vote whose publish is resolved late closes only records of the   *)
(* conversation it was cast in: no turn of a later one is in a record it   *)
(* takes (discharge_end_vote_publish).                                     *)
THEOREM VotesSpareSuccessors == Spec => VoteSparesSuccessors
  <1>1. Init => CloseInv /\ LinkInv
    <2> SUFFICES ASSUME Init PROVE CloseInv /\ LinkInv
      OBVIOUS
    <2>1. trk.open = {}
      BY DEF Init, FreshTracker
    <2>2. LinkInv
      BY <2>1 DEF LinkInv
    <2> QED BY <2>2, HeldInit, LiveInit, GateEmpty DEF CloseInv, Init
  <1>2. CloseInv /\ LinkInv /\ [Next]_vars => (CloseInv /\ LinkInv)'
    BY HeldStep, LiveStep, GateStep, LinkStep DEF CloseInv
  <1>3. CloseInv /\ LinkInv /\ [Next]_vars => [VoteSpares]_vars
    BY VoteStep DEF CloseInv
  <1>4. [][VoteSpares]_vars => VoteSparesSuccessors
    BY DEF VoteSpares, VoteSparesSuccessors
  <1> QED BY <1>1, <1>2, <1>3, <1>4, PTL DEF Spec
=============================================================================
