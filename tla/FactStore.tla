----------------------------- MODULE FactStore -----------------------------
(***************************************************************************)
(* The facts tier: what a closed interaction is taken to have said, as     *)
(* (subject, predicate, object) rows of which only the latest assertion    *)
(* stays live.  One SQLite connection serves every background finalize     *)
(* task of the agent, so the statements of two extractions interleave and  *)
(* a commit of one publishes the open statements of the other.             *)
(***************************************************************************)
EXTENDS MemoryScope

CONSTANTS
    Writers,       \* background finalize tasks
    Agendas,       \* sets of extractions those tasks may have to store
    Readers,       \* ambient scopes that recall facts
    SingleValued,  \* predicates that hold one value at a time
    NoSource,      \* a fact no interaction is known for
    Snapshot,      \* the scopes the store was built under
    RecallLimit, MaxSweeps

(* asserted_at is a time; the extractions are those of interactions closed. *)
ASSUME FactAssumption == \A A \in Agendas : \A e \in A : e.at \in Nat

VARIABLES
    facts,      \* the rows as the connection sees them
    kept,       \* the rows as committed
    writer,     \* [Writers -> the extraction in progress]
    recalled,   \* ids a prompt was built from and not yet reinforced, and from
                \* which rooms they were asked, by reader
    sweeps,     \* recalls, maintenance calls, failures and restarts left
    history     \* what no table records: rows gone, chains an operator touched
                \* and chains in which two extractions raced for one instant

factVars == <<facts, kept, writer, recalled, sweeps, history>>

Live == 0
Idle == [pc |-> "idle"]
NoRecall == [ids |-> {}, asked |-> Here]

(* validate_predicate, canonicalize_subject, validate_object, certainty *)
Storable(f) == f.valid

World(e) == [principal |-> WritePrincipal(e.principal, e.ambient, Snapshot),
             epoch |-> ActiveEpoch(e.ambient, Snapshot)]
NewFact(id, e, f) ==
    [id |-> id, key |-> f.key, obj |-> f.obj, src |-> e.src, at |-> e.at,
     sess |-> NormalSession(e.sess), world |-> World(e), by |-> Live,
     owner |-> e.principal, readers |-> {}]

(* Ids are random in the code; here the next number, so that they also     *)
(* order the rows as rowids do.                                            *)
NextId == 1 + Cardinality({r.id : r \in facts} \cup history.gone)

(***************************************************************************)
(* Supersession: per chain the latest assertion wins.                      *)
(***************************************************************************)
Chain(r) == <<r.key, r.world>>
SameChain(r, n) == Chain(r) = Chain(n)

(* Facts one extraction states together coexist, unless the predicate      *)
(* holds one value at a time.                                              *)
Together(r, n) ==
    /\ n.key[2] \notin SingleValued
    /\ r.src # NoSource /\ r.src = n.src
    /\ r.at = n.at /\ r.obj # n.obj

Older(n) == {r \in facts :
    /\ SameChain(r, n) /\ r.sess \in {n.sess, Legacy}
    /\ r.by = Live /\ r.at <= n.at /\ r.id # n.id
    /\ ~Together(r, n)}

(* Mutant: the new row yields to any live row, not only to a newer one. *)
NewerAnyAge(n) == {r \in facts :
    SameChain(r, n) /\ r.sess = n.sess /\ r.by = Live /\ r.id # n.id}

NewerThan(n) == {r \in facts :
    SameChain(r, n) /\ r.sess = n.sess /\ r.by = Live /\ r.at > n.at}
Newest(S) == CHOOSE r \in S : \A q \in S : <<q.at, q.id>> = <<r.at, r.id>>
    \/ q.at < r.at \/ (q.at = r.at /\ q.id < r.id)

Marked(S, by) == {IF r \in S THEN [r EXCEPT !.by = by] ELSE r : r \in facts}
RowsOf(ids) == {r \in facts : r.id \in ids}

(***************************************************************************)
(* One extraction: dispatch_facts_from_response on a finalize task.        *)
(***************************************************************************)
Extract(w, e) ==
    /\ writer[w] = Idle
    /\ writer' = [writer EXCEPT ![w] =
           [pc |-> IF e.parsed THEN "insert" ELSE "end", e |-> e,
            todo |-> e.facts, id |-> 0, older |-> {}, newer |-> {}]]
    /\ history' = [history EXCEPT !.due = @ \ {e}]
    /\ UNCHANGED <<facts, kept, recalled, sweeps>>

At(w, pc) == writer[w] # Idle /\ writer[w].pc = pc
Next1(w) == Head(writer[w].todo)
Row(w) == CHOOSE r \in facts : r.id = writer[w].id
Step(w, pc) == writer' = [writer EXCEPT ![w].pc = pc]

(* A fact that does not validate is counted and skipped; the others of the *)
(* same answer are still stored.                                           *)
SkipFact(w) ==
    /\ At(w, "insert") /\ writer[w].todo # <<>> /\ ~Storable(Next1(w))
    /\ writer' = [writer EXCEPT ![w].todo = Tail(@)]
    /\ UNCHANGED <<facts, kept, recalled, sweeps, history>>

(* Another extraction has a row of the same room and instant in this chain *)
(* and has not looked for older rows yet: each of the two will find the    *)
(* other.                                                                  *)
Rival(r, n) == SameChain(r, n) /\ r.sess = n.sess /\ r.at = n.at
Races(w, n) == \E v \in Writers \ {w} : At(v, "older") /\ \E r \in RowsOf({writer[v].id}) : Rival(r, n)
InsertFact(w) ==
    /\ At(w, "insert") /\ writer[w].todo # <<>> /\ Storable(Next1(w))
    /\ LET n == NewFact(NextId, writer[w].e, Next1(w)) IN
       /\ facts' = facts \cup {n}
       /\ history' = [history EXCEPT !.raced = IF Races(w, n) THEN @ \cup {Chain(n)} ELSE @]
    /\ writer' = [writer EXCEPT ![w].pc = "older", ![w].id = NextId, ![w].todo = Tail(@)]
    /\ UNCHANGED <<kept, recalled, sweeps>>

(* The database is busy: the error is not a validation error, so the rest  *)
(* of the extraction is given up.                                          *)
InsertRaises(w) ==
    /\ At(w, "insert") /\ writer[w].todo # <<>> /\ Storable(Next1(w)) /\ facts = kept
    /\ sweeps > 0 /\ sweeps' = sweeps - 1
    /\ Step(w, "end")
    /\ UNCHANGED <<facts, kept, recalled, history>>

Stored(w) == RowsOf({writer[w].id}) # {}
SelectOlder(w) ==
    /\ At(w, "older")
    /\ writer' = [writer EXCEPT ![w].pc = "newer",
           ![w].older = IF Stored(w) THEN {r.id : r \in Older(Row(w))} ELSE {}]
    /\ UNCHANGED <<facts, kept, recalled, sweeps, history>>
SelectNewer(w) ==
    /\ At(w, "newer")
    /\ writer' = [writer EXCEPT ![w].pc = "mark",
           ![w].newer = IF Stored(w) /\ NewerThan(Row(w)) # {}
                        THEN {Newest(NewerThan(Row(w))).id} ELSE {}]
    /\ UNCHANGED <<facts, kept, recalled, sweeps, history>>
MarkOlder(w) ==
    /\ At(w, "mark")
    /\ facts' = Marked(RowsOf(writer[w].older), writer[w].id)
    /\ Step(w, "self")
    /\ UNCHANGED <<kept, recalled, sweeps, history>>
MarkSelf(w) ==
    /\ At(w, "self")
    /\ facts' = IF writer[w].newer = {} THEN facts
                ELSE Marked(RowsOf({writer[w].id}), CHOOSE id \in writer[w].newer : TRUE)
    /\ Step(w, "commit")
    /\ UNCHANGED <<kept, recalled, sweeps, history>>
CommitFact(w) ==
    /\ At(w, "commit")
    /\ kept' = facts
    /\ Step(w, "insert")
    /\ UNCHANGED <<facts, recalled, sweeps, history>>
EndExtraction(w) ==
    /\ \/ At(w, "end")
       \/ At(w, "insert") /\ writer[w].todo = <<>>
    /\ writer' = [writer EXCEPT ![w] = Idle]
    /\ UNCHANGED <<facts, kept, recalled, sweeps, history>>

(***************************************************************************)
(* Reads.  A recall lists the newest live rows in scope; the rows that     *)
(* made it into the prompt are reinforced by a later statement.  A persona *)
(* whose facts cross rooms asks for every room, any other for its own.     *)
(***************************************************************************)
WorldOfReader(c) == [principal |-> ActivePrincipal(c, Snapshot), epoch |-> ActiveEpoch(c, Snapshot)]
Visible(r, c, asked, subject) ==
    /\ r.key[1] = subject /\ r.by = Live
    /\ Admits(asked, r, c, Snapshot) /\ r.world = WorldOfReader(c)
Before(r, q) == q.at > r.at \/ (q.at = r.at /\ q.id > r.id)
NewestOf(S, n) == {r \in S : Cardinality({q \in S : Before(r, q)}) < n}
(* From both ends: the newest and the oldest alternately, the newest first. *)
BothEndsOf(S, n) == {r \in S :
    LET newer(x) == Cardinality({q \in S : Before(x, q)})
        older(x) == Cardinality({q \in S : Before(q, x)})
        rank(x) == IF newer(x) <= older(x) THEN 2 * newer(x) ELSE 2 * older(x) + 1
    IN Cardinality({q \in S : rank(q) < rank(r)}) < n}
Recall(c, asked, subject) ==
    LET S == {r \in facts : Visible(r, c, asked, subject)} IN
    \E order \in {"newest", "both_ends"} :
        recalled' = [recalled EXCEPT ![c] = [asked |-> asked, ids |-> {r.id :
            r \in IF order = "newest" THEN NewestOf(S, RecallLimit) ELSE BothEndsOf(S, RecallLimit)}]]
RecallFacts(c, asked, subject) ==
    /\ recalled[c] = NoRecall /\ sweeps > 0 /\ sweeps' = sweeps - 1
    /\ \E r \in facts : Visible(r, c, asked, subject)
    /\ Recall(c, asked, subject)
    /\ UNCHANGED <<facts, kept, writer, history>>
MarkRecalled(c) ==
    /\ recalled[c] # NoRecall
    /\ facts' = {IF r.id \in recalled[c].ids 
                 THEN [r EXCEPT !.readers = @ \cup {[by |-> c, asked |-> recalled[c].asked]}] ELSE r :
                 r \in facts}
    /\ kept' = facts'
    /\ recalled' = [recalled EXCEPT ![c] = NoRecall]
    /\ UNCHANGED <<writer, sweeps, history>>

(***************************************************************************)
(* Maintenance: each is one statement and a commit.                        *)
(***************************************************************************)
Sweep == sweeps > 0 /\ sweeps' = sweeps - 1 /\ UNCHANGED <<writer, recalled>>

Prunable(r, before) == r.by # Live /\ r.at < before
Prune(before) ==
    /\ Sweep
    /\ facts' = {r \in facts : ~Prunable(r, before)}
    /\ kept' = facts'
    /\ history' = [history EXCEPT !.gone = @ \cup {r.id : r \in facts \ facts'},
                                  !.pruned = @ \cup {[r EXCEPT !.readers = {}] : r \in facts \ facts'}]

Erased(subject, principal) ==
    {r \in facts : (r.key[1] = subject \/ r.src = subject) /\ r.world.principal = principal}
DeleteBySubject(subject, c) ==
    /\ Sweep
    /\ LET S == Erased(subject, ActivePrincipal(c, Snapshot)) IN
       /\ facts' = facts \ S
       /\ history' = [history EXCEPT !.gone = @ \cup {r.id : r \in S},
                                     !.touched = @ \cup {Chain(r) : r \in S}]
    /\ kept' = facts'

(* supersede(): an operator retracts one live row in favour of another.    *)
Retract(id, by, c) ==
    /\ Sweep
    /\ LET S == {r \in RowsOf({id}) : r.by = Live
                   /\ r.world = WorldOfReader(c)}
       IN /\ facts' = Marked(S, by)
          /\ history' = [history EXCEPT !.touched = @ \cup {Chain(r) : r \in S}]
    /\ kept' = facts'

(* The process dies; what no commit covered is rolled back. *)
Restart ==
    /\ sweeps > 0 /\ sweeps' = sweeps - 1
    /\ facts' = kept
    /\ writer' = [w \in Writers |-> Idle]
    /\ recalled' = [c \in Readers |-> NoRecall]
    /\ history' = [history EXCEPT !.restarts = @ + 1,
                     !.gone = @ \cup ({r.id : r \in facts} \ {r.id : r \in kept})]
    /\ UNCHANGED kept

FactInit ==
    /\ facts = {} /\ kept = {}
    /\ writer = [w \in Writers |-> Idle]
    /\ recalled = [c \in Readers |-> NoRecall]
    /\ sweeps = MaxSweeps
    /\ \E A \in Agendas : history =
           [due |-> A, gone |-> {}, touched |-> {}, raced |-> {}, pruned |-> {}, restarts |-> 0]

Extractions == UNION Agendas
Subjects == {f.key[1] : f \in UNION {{e.facts[i] : i \in DOMAIN e.facts} : e \in Extractions}}
WriterStep(w) ==
    \/ \E e \in history.due : Extract(w, e)
    \/ SkipFact(w) \/ InsertFact(w) \/ InsertRaises(w) \/ SelectOlder(w) \/ SelectNewer(w)
    \/ MarkOlder(w) \/ MarkSelf(w) \/ CommitFact(w) \/ EndExtraction(w)
ReaderStep(c) == MarkRecalled(c) \/ \E s \in Subjects, asked \in {Here, SessionsAll} : RecallFacts(c, asked, s)
Maintain ==
    \/ \E e \in Extractions : Prune(e.at)
    \/ \E s \in Subjects \cup {e.src : e \in Extractions}, c \in Readers : DeleteBySubject(s, c)
    \/ \E r, q \in facts, c \in Readers : r # q /\ Retract(r.id, q.id, c)
    \/ Restart
FactNext == (\E w \in Writers : WriterStep(w)) \/ (\E c \in Readers : ReaderStep(c)) \/ Maintain
FactSpec == FactInit /\ [][FactNext]_factVars

(***************************************************************************)
(* Properties.                                                             *)
(***************************************************************************)
Quiet == \A w \in Writers : writer[w] = Idle
Group(r) == {q \in facts : SameChain(q, r) /\ q.sess = r.sess}
Untouched(r) == Chain(r) \notin history.touched
Judged(r) == Untouched(r) /\ Chain(r) \notin history.raced

(* A row is superseded, and pruned, only for one asserted no earlier in    *)
(* the same chain: as long as no operator erased or retracted there, and   *)
(* no two extractions raced for one instant, what the agent believed last  *)
(* is never the row that goes.                                             *)
SupersedersSurvive == \A r \in facts \cup history.pruned :
    Judged(r) /\ (r.by # Live \/ r \in history.pruned) =>
        \E q \in facts : q.id # r.id /\ SameChain(q, r) /\ q.at >= r.at

(* Latest assertion wins: whatever order the statements of concurrent      *)
(* extractions ran in, the newest assertion of a chain is live (a room may *)
(* reassert what predates rooms), and between extractions nothing older    *)
(* is, as long as no restart cut one short (the next write of that chain   *)
(* heals what a restart left).  A row of before rooms yields to newer live *)
(* rows only: one that a room reasserted in between hides what it beat.    *)
(* Of assertions of one instant, which a room's close stamps on all its    *)
(* records, one stays live, unless each of two extractions stored its row  *)
(* before the other looked for older ones (see TiesKeepOneRow).            *)
LatestAssertionWins == \A r \in facts : Judged(r) =>
    /\ r.sess # Legacy /\ (\A q \in Group(r) : q.at <= r.at) =>
            \E q \in Group(r) : q.at = r.at /\ q.by = Live
    /\ Quiet /\ history.restarts = 0 /\ r.by = Live =>
            \A q \in Group(r) : r.sess # Legacy \/ q.by = Live => q.at <= r.at

(* A fact is stamped with the principal of the interaction that said it,   *)
(* and only ever recalled under that principal and that epoch: in its own  *)
(* room, or in any by a persona whose facts cross rooms.                   *)
FactsStayWithTheirPrincipal == \A r \in facts :
    /\ r.owner # Unset => r.world.principal = r.owner
    /\ \A c \in r.readers :
         /\ r.world = WorldOfReader(c.by)
         /\ c.asked = SessionsAll \/ r.sess \in {ActiveSession(c.by, Snapshot), Legacy}

(* Two speakers of one room repeat a claim, the room closes at one instant *)
(* and both extractions store it: one of the two rows stays live.          *)
TiesKeepOneRow == Quiet => \A r \in facts : Untouched(r) =>
    \E q \in Group(r) : q.by = Live

(* What the agent believes is what it was told last, in every chain that   *)
(* concurrent extractions, prunes and restarts touch (_facts_supersede.py, *)
(* _facts_write.py, facts.py).                                             *)
BeliefsAreCurrent == SupersedersSurvive /\ LatestAssertionWins
=============================================================================
