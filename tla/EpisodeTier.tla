---------------------------- MODULE EpisodeTier ----------------------------
(***************************************************************************)
(* The episodes table: what happened (rows a turn or a close stores),      *)
(* procedures (rows with a key whose confidence decays unless they are     *)
(* validated again), the hourly eviction pass that shrinks both, and the   *)
(* shared pool, a bounded table several agents publish to.  Every          *)
(* operation is a task that yields between its statements; each statement  *)
(* here stands for the execute and its commit.                             *)
(* Importance and confidence are steps of a scale, decay loses one step    *)
(* per unit of age: the code's exponential has the same order.             *)
(***************************************************************************)
EXTENDS MemoryScope

CONSTANTS
    Workers,        \* coroutines that use the store
    Jobs,           \* the sets of calls they may have to make
    Full,           \* confidence 1.0
    CMin,           \* confidence below which a procedure is forgotten
    LowImportance,  \* importance below which age alone evicts
    Ttl, EpisodicCap,
    PoolReaders, PoolWriters, PoolSensitive, PoolConfidence, PoolCap,
    MaxClock, MaxKills

(* Importance and confidence are numbers; what has a key is a procedure,   *)
(* and an observation has none.                                            *)
ASSUME EpisodeAssumption ==
    /\ IsFiniteSet(Workers) /\ Unset \notin Nat
    /\ Full \in Nat /\ CMin \in Nat /\ PoolCap \in Nat
    /\ \A S \in Jobs : \A c \in S :
        /\ c.imp \in Nat
        /\ c.op = "observe" => c.key = Unset
        /\ c.op = "procedure" => c.key # Unset

VARIABLES
    eps,       \* rows of the episodes table
    pool,      \* rows of the shared pool
    job,       \* [Workers -> the call in progress]
    procLock,  \* the worker inside store_procedure
    clock,     \* agent_now()
    book       \* calls due, results shown, rows evicted: no table holds it

episodeVars == <<eps, pool, job, procLock, clock, book>>

Off == [pc |-> "off"]
On(w, op, pc) == job[w] # Off /\ job[w].call.op = op /\ job[w].pc = pc
J(w) == job[w].call
Then(w, pc) == job' = [job EXCEPT ![w].pc = pc]
Done(w) == job' = [job EXCEPT ![w] = Off]
Taken(ids, S) == {r \in S : r.id \in ids}
Lowest(S, n, below(_, _)) == {r \in S : Cardinality({q \in S : below(q, r)}) < n}
SessionsOf(c) == {Legacy, c.scope.session}
WorldOf(c) == [principal |-> c.scope.principal, epoch |-> c.scope.epoch]

Evicting == \E v \in Workers : job[v] # Off /\ J(v).op = "evict"
Start(w, c) ==
    /\ job[w] = Off /\ c \in book.due
    \* the eviction loop runs one pass at a time
    /\ ~(c.op = "evict" /\ Evicting)
    /\ job' = [job EXCEPT ![w] = [pc |-> "start", call |-> c, now |-> clock, ids |-> {}, n |-> 0]]
    /\ book' = [book EXCEPT !.due = @ \ {c}]
    /\ UNCHANGED <<eps, pool, procLock, clock>>

(***************************************************************************)
(* Rows.                                                                   *)
(***************************************************************************)
IsProcedure(e) == e.key # Unset
(* insert_episode: confidence is left to its column default, the full one. *)
NewEpisode(id, c, text) ==
    [id |-> id, key |-> c.key, imp |-> c.imp, conf |-> Full, val |-> Unset, at |-> clock,
     used |-> 0, level |-> 0, text |-> text, words |-> c.words, said |-> c.imp,
     sess |-> NormalSession(c.scope.session), world |-> WorldOf(c)]
Insert(c, text) ==
    /\ eps' = eps \cup {NewEpisode(book.next, c, text)}
    /\ book' = [book EXCEPT !.next = @ + 1]

(* store_observation, or the row of a close whose summary is pending. *)
StoreEpisode(w) ==
    /\ On(w, "observe", "start")
    /\ Insert(J(w), J(w).text)
    /\ Done(w)
    /\ UNCHANGED <<pool, procLock, clock>>
(* The summary arrives: it replaces the pending text and nothing else. *)
UpdateSummary(w) ==
    /\ On(w, "settle", "start")
    /\ eps' = {IF e.id = J(w).id /\ e.text = "pending" THEN [e EXCEPT !.text = "said"] ELSE e : e \in eps}
    /\ Done(w)
    /\ UNCHANGED <<pool, procLock, clock, book>>

(***************************************************************************)
(* Procedures.                                                             *)
(***************************************************************************)
(* A row inserted and not yet stamped holds the column default: what its   *)
(* writer declared is then in its importance.                              *)
ResolveBase(e) == IF e.conf = Full /\ e.val = Unset /\ e.imp # Full THEN e.imp ELSE e.conf
Anchor(e) == IF e.val = Unset THEN e.at ELSE e.val
Decayed(e, now) ==
    LET age == IF now > Anchor(e) THEN now - Anchor(e) ELSE 0
    IN IF ResolveBase(e) > age THEN ResolveBase(e) - age ELSE 0

ProcedureFree == procLock = {}
SameProcedure(e, c) == e.key = c.key /\ InScope(e, SessionsOf(c), c.scope.principal, c.scope.epoch)
(* refresh_confidence: a known procedure is validated, and that is all. *)
RefreshProcedure(w) ==
    /\ On(w, "procedure", "start") /\ ProcedureFree
    /\ LET known == {e \in eps : SameProcedure(e, J(w))} IN
       /\ eps' = (eps \ known) \cup {[e EXCEPT !.conf = Full, !.val = clock] : e \in known}
       /\ IF known # {} THEN Done(w) /\ UNCHANGED procLock
          ELSE Then(w, "insert") /\ procLock' = {w}
    /\ UNCHANGED <<pool, clock, book>>
InsertProcedure(w) ==
    /\ On(w, "procedure", "insert")
    /\ job' = [job EXCEPT ![w].pc = "stamp", ![w].ids = {book.next}]
    /\ Insert(J(w), "said")
    /\ UNCHANGED <<pool, procLock, clock>>
StampProcedure(w) ==
    /\ On(w, "procedure", "stamp")
    /\ eps' = {IF e.id \in job[w].ids THEN [e EXCEPT !.conf = J(w).imp, !.val = clock] ELSE e : e \in eps}
    /\ procLock' = {} /\ Done(w)
    /\ UNCHANGED <<pool, clock, book>>
(* recall_procedures: newest first, those that decayed away left out. *)
RetrieveProcedures(w) ==
    /\ On(w, "retrieve", "start")
    /\ LET admitted == {e \in eps : /\ IsProcedure(e) /\ Decayed(e, clock) >= CMin
                                    /\ InScope(e, SessionsOf(J(w)), J(w).scope.principal, J(w).scope.epoch)}
           out == Lowest(admitted, J(w).limit, LAMBDA a, b : a.at > b.at \/ (a.at = b.at /\ a.id > b.id))
       IN book' = [book EXCEPT !.shown = @ \cup {[row |-> e, conf |-> ResolveBase(e), to |-> J(w).scope] : e \in out}]
    /\ Done(w)
    /\ UNCHANGED <<eps, pool, procLock, clock>>

(***************************************************************************)
(* The eviction pass.                                                      *)
(***************************************************************************)
Plain == {e \in eps : ~IsProcedure(e)}
Evict(S) ==
    /\ eps' = eps \ S
    /\ book' = [book EXCEPT !.evicted = @ \cup S]
EvictTtl(w) ==
    /\ On(w, "evict", "start")
    /\ Evict({e \in Plain : e.imp < LowImportance /\ e.at + Ttl < clock})
    /\ Then(w, "count")
    /\ UNCHANGED <<pool, procLock, clock>>
CountPlain(w) ==
    /\ On(w, "evict", "count")
    /\ LET over == Cardinality(Plain) - EpisodicCap IN
       job' = [job EXCEPT ![w].pc = IF over > 0 THEN "select" ELSE "procedures",
                          ![w].n = IF over > 0 THEN over ELSE 0]
    /\ UNCHANGED <<eps, pool, procLock, clock, book>>
(* Importance, recency and use, weighted 6 : 3 : 1, recency and use as     *)
(* shares of the range in the table (here over a common denominator).      *)
Score(e, S) ==
    LET ats == {r.at : r \in S}
        first == CHOOSE x \in ats : \A y \in ats : x <= y
        last == CHOOSE x \in ats : \A y \in ats : x >= y
        most == CHOOSE x \in {r.used : r \in S} : \A r \in S : x >= r.used
        span == IF last = first THEN 1 ELSE last - first
        uses == IF most = 0 THEN 1 ELSE most
    IN 6 * e.imp * span * uses
       + 3 * Full * uses * (IF last = first THEN 1 ELSE e.at - first)
       + Full * span * e.used
SelectVictims(w) ==
    /\ On(w, "evict", "select")
    /\ LET S == Plain
           worse(a, b) == \/ Score(a, S) < Score(b, S)
                          \/ Score(a, S) = Score(b, S) /\ a.at < b.at
                          \/ Score(a, S) = Score(b, S) /\ a.at = b.at /\ a.id < b.id
       IN job' = [job EXCEPT ![w].pc = "delete", ![w].ids = {e.id : e \in Lowest(S, job[w].n, worse)}]
    /\ UNCHANGED <<eps, pool, procLock, clock, book>>
DeleteVictims(w) ==
    /\ On(w, "evict", "delete")
    /\ Evict(Taken(job[w].ids, eps))
    /\ Then(w, "procedures")
    /\ UNCHANGED <<pool, procLock, clock>>
SelectForgotten(w) ==
    /\ On(w, "evict", "procedures")
    /\ job' = [job EXCEPT ![w].pc = "forget", ![w].now = clock, ![w].ids =
           {e.id : e \in {r \in eps : IsProcedure(r) /\ Decayed(r, clock) < CMin}}]
    /\ UNCHANGED <<eps, pool, procLock, clock, book>>

(* Mutant: the rows that were read are deleted as they are now. *)
ForgettableAll(e, now) == TRUE

(* What was validated since the rows were read is spared. *)
Forgettable(e, now) == e.val = Unset \/ e.val < now
DeleteForgotten(w) ==
    /\ On(w, "evict", "forget")
    /\ Evict({e \in Taken(job[w].ids, eps) : Forgettable(e, job[w].now)})
    /\ Done(w)
    /\ UNCHANGED <<pool, procLock, clock>>

(***************************************************************************)
(* Recall: a wall (the room and what predates rooms) or, ranked by room, a *)
(* boost; with a query the best matches, without one the best scores.      *)
(***************************************************************************)
Fit(e, c) == e.imp + e.used + (IF c.ranked /\ e.sess \in SessionsOf(c) THEN e.imp + e.used ELSE 0)
Best(S, c) == Lowest(S, c.limit, LAMBDA a, b : Fit(a, c) > Fit(b, c) \/ (Fit(a, c) = Fit(b, c) /\ a.id > b.id))
Candidates(c) == {e \in eps : InScope(e, IF c.ranked THEN {e.sess} ELSE SessionsOf(c),
                                      c.scope.principal, c.scope.epoch)}
RecallRecency(c) == Best(Candidates(c), c)
RecallLike(c) == Best({e \in Candidates(c) : c.query \in e.words}, c)
(* The index: only rows within reach of the best match are returned; a     *)
(* query of stop words alone matches nothing and one with no words at all  *)
(* falls back on recency, a query the index rejects on a plain search.     *)
RecallFts(c, broken) ==
    IF c.query = "" THEN RecallRecency(c)
    ELSE IF broken THEN RecallLike(c)
    ELSE Best({e \in Candidates(c) : c.query \in e.words}, c)
(* A row whose summary is pending is not shown. *)
Recalled(w) ==
    /\ On(w, "recall", "start")
    /\ \E broken \in BOOLEAN :
       LET out == {e \in RecallFts(J(w), broken) : e.text # "pending"} IN
       /\ job' = [job EXCEPT ![w].pc = "reinforce", ![w].ids = {e.id : e \in out}]
       /\ book' = [book EXCEPT !.shown = @ \cup {[row |-> e, conf |-> 0, to |-> J(w).scope] : e \in out}]
    /\ UNCHANGED <<eps, pool, procLock, clock>>
Reinforce(w) ==
    /\ On(w, "recall", "reinforce")
    /\ eps' = {IF e.id \in job[w].ids THEN [e EXCEPT !.used = @ + 1] ELSE e : e \in eps}
    /\ Done(w)
    /\ UNCHANGED <<pool, procLock, clock, book>>

(***************************************************************************)
(* Retention: raw rows past an age are summarised by a model, row by row,  *)
(* and summarised rows past an age are deleted.                            *)
(***************************************************************************)
SelectOld(w) ==
    /\ On(w, "summarize", "start")
    /\ job' = [job EXCEPT ![w].pc = "ask", ![w].ids =
           {e.id : e \in {r \in eps : r.level < 1 /\ r.at + J(w).age < clock}}]
    /\ UNCHANGED <<eps, pool, procLock, clock, book>>
(* The model answers for one row, or gives nothing usable for it. *)
SummarizeOne(w) ==
    /\ On(w, "summarize", "ask") /\ job[w].ids # {}
    /\ LET id == CHOOSE x \in job[w].ids : \A y \in job[w].ids : x <= y IN
       /\ job' = [job EXCEPT ![w].ids = @ \ {id}]
       /\ \/ UNCHANGED eps
          \/ eps' = {IF e.id = id THEN [e EXCEPT !.text = "gist", !.level = 1] ELSE e : e \in eps}
    /\ UNCHANGED <<pool, procLock, clock, book>>
EndSummaries(w) ==
    /\ On(w, "summarize", "ask") /\ job[w].ids = {} /\ Done(w)
    /\ UNCHANGED <<eps, pool, procLock, clock, book>>
DeleteOld(w) ==
    /\ On(w, "delete_old", "start")
    /\ eps' = {e \in eps : ~(e.level >= 1 /\ e.at + J(w).age < clock)}
    /\ Done(w)
    /\ UNCHANGED <<pool, procLock, clock, book>>
DeleteEpisode(w) ==
    /\ On(w, "delete", "start")
    /\ eps' = {e \in eps : e.id # J(w).id}
    /\ Done(w)
    /\ UNCHANGED <<pool, procLock, clock, book>>

(***************************************************************************)
(* The shared pool.                                                        *)
(***************************************************************************)
(* publish_to_pool: a sensitive pool takes nothing from an agent's own     *)
(* memory; then the writer list, the content and the confidence.  The row  *)
(* is stamped when its INSERT is handed to the pool's connection, which    *)
(* runs what it is handed in order: the rows land in the order stamped.    *)
Publishable(c) == ~PoolSensitive /\ c.agent \in PoolWriters /\ c.imp >= PoolConfidence
Publish(w) ==
    /\ On(w, "publish", "start")
    /\ IF Publishable(J(w))
       THEN /\ pool' = pool \cup {[id |-> book.next, at |-> clock, by |-> J(w).agent, conf |-> J(w).imp]}
            /\ book' = [book EXCEPT !.next = @ + 1]
            /\ Then(w, "cap")
       ELSE UNCHANGED <<pool, book>> /\ Done(w)
    /\ UNCHANGED <<eps, procLock, clock>>
Newer(a, b) == a.at > b.at \/ (a.at = b.at /\ a.id > b.id)
Kept(S) == Lowest(S, PoolCap, Newer)
EnforceFifoCap(w) ==
    /\ On(w, "publish", "cap")
    /\ pool' = Kept(pool)
    /\ book' = [book EXCEPT !.fifo = @ \cup (pool \ pool')]
    /\ Done(w)
    /\ UNCHANGED <<eps, procLock, clock>>
ReadPool(w) ==
    /\ On(w, "read_pool", "start")
    /\ book' = IF J(w).agent \in PoolReaders
               THEN [book EXCEPT !.read = @ \cup {[who |-> J(w).agent, ids |-> {e.id : e \in
                       Lowest({r \in pool : r.conf >= J(w).imp}, J(w).limit, Newer)}]}]
               ELSE book
    /\ Done(w)
    /\ UNCHANGED <<eps, pool, procLock, clock>>

(***************************************************************************)
(* Time and faults.                                                        *)
(***************************************************************************)
TickClock ==
    /\ clock < MaxClock /\ clock' = clock + 1
    /\ UNCHANGED <<eps, pool, job, procLock, book>>
Capping == {w \in Workers : On(w, "publish", "cap")}
Kill ==
    /\ book.kills < MaxKills
    /\ job' = [w \in Workers |-> Off] /\ procLock' = {}
    /\ book' = [book EXCEPT !.kills = @ + 1, !.stranded = @ + Cardinality(Capping)]
    /\ UNCHANGED <<eps, pool, clock>>

EpisodeInit ==
    /\ eps = {} /\ pool = {} /\ procLock = {} /\ clock = 0
    /\ job = [w \in Workers |-> Off]
    /\ \E S \in Jobs : book =
         [due |-> S, next |-> 1, shown |-> {}, evicted |-> {}, fifo |-> {}, read |-> {}, kills |-> 0, stranded |-> 0]
WorkerStep(w) ==
    \/ \E c \in book.due : Start(w, c)
    \/ StoreEpisode(w) \/ UpdateSummary(w) \/ Recalled(w) \/ Reinforce(w)
    \/ RefreshProcedure(w) \/ InsertProcedure(w) \/ StampProcedure(w) \/ RetrieveProcedures(w)
    \/ EvictTtl(w) \/ CountPlain(w) \/ SelectVictims(w) \/ DeleteVictims(w)
    \/ SelectForgotten(w) \/ DeleteForgotten(w)
    \/ SelectOld(w) \/ SummarizeOne(w) \/ EndSummaries(w) \/ DeleteOld(w) \/ DeleteEpisode(w)
    \/ Publish(w) \/ EnforceFifoCap(w) \/ ReadPool(w)
EpisodeNext == (\E w \in Workers : WorkerStep(w)) \/ TickClock \/ Kill
EpisodeSpec == EpisodeInit /\ [][EpisodeNext]_episodeVars

(***************************************************************************)
(* Properties.                                                             *)
(***************************************************************************)
(* However stores of one key interleave with evictions and crashes, a room *)
(* has one row per procedure, and nobody is ever told a confidence above   *)
(* the one declared unless the procedure was validated.                    *)
OneProcedurePerKey ==
    /\ \A a, b \in eps : IsProcedure(a) /\ a.key = b.key /\ a.sess = b.sess /\ a.world = b.world => a = b
    /\ \A s \in book.shown : s.row.val = Unset => s.conf <= s.row.said

(* An eviction pass that read a procedure as forgotten does not take it    *)
(* once it has been validated.                                             *)
EvictionSparesTheValidated == \A e \in book.evicted : IsProcedure(e) => Decayed(e, clock) < CMin

(* The pool never outgrows its limit by more than the writes in progress   *)
(* and those a crash cut short, only what was newer than an entry pushed   *)
(* it out, and only agents listed for it wrote or read.                    *)
PoolIsBounded ==
    /\ Cardinality(pool) <= PoolCap + Cardinality(Capping) + book.stranded
    /\ \A e \in book.fifo : \A r \in pool : Newer(r, e)
    /\ \A e \in pool : e.by \in PoolWriters /\ e.conf >= PoolConfidence
    /\ \A r \in book.read : r.who \in PoolReaders

(* An episode is shown only to its own principal and epoch. *)
EpisodesStayWithTheirPrincipal == \A s \in book.shown :
    s.row.world = [principal |-> s.to.principal, epoch |-> s.to.epoch] /\ s.row.text # "pending"

(* Forgetting and sharing keep to their rules while writers are at work    *)
(* (facade_procedural.py, eviction.py, shared_pool.py).                    *)
ForgettingIsSafe == OneProcedurePerKey /\ EvictionSparesTheValidated /\ PoolIsBounded
=============================================================================
