---------------------------- MODULE MemoryProofs ----------------------------
(***************************************************************************)
(* Theorems about the three tiers of an agent's memory.  Each tier has an  *)
(* inductive invariant of its own, over its own variables:                 *)
(*   facts     FactScopeInv (stamps) and BeliefInv (who gives way to whom) *)
(*   records   NoteInv, PledgeInv and PairInv, over RecordTypes            *)
(*   episodes  EpisodeInv (rows and plans) and PoolInv (the shared pool)   *)
(* A plan is what a coroutine read before it yielded and will act on       *)
(* afterwards: most of the work is to say what stays true of it meanwhile. *)
(* At the end the tiers meet in the specification the memory run checks.   *)
(***************************************************************************)
EXTENDS MCMemory, FiniteSetTheorems, TLAPS

(* A transitive irreflexive relation has a maximal element in a finite set. *)
LEMMA HasMaximal ==
    ASSUME NEW S, IsFiniteSet(S), S # {}, NEW R,
           \A x, y, z \in S : <<x, y>> \in R /\ <<y, z>> \in R => <<x, z>> \in R,
           \A x \in S : <<x, x>> \notin R
    PROVE  \E m \in S : \A y \in S : <<m, y>> \notin R
  <1> DEFINE U(x) == {y \in S : <<x, y>> \in R}
             F == {U(x) : x \in S}
  <1>1. F \subseteq FiniteSubsetsOf(S) /\ F # {}
    <2>1. FiniteSubsetsOf(S) = SUBSET S
      BY FS_FiniteSubsetsOfFinite
    <2>2. PICK x \in S : TRUE
      OBVIOUS
    <2>3. U(x) \in F
      OBVIOUS
    <2>4. \A T \in F : T \in SUBSET S
      <3>1. \A y \in S : U(y) \in SUBSET S
        OBVIOUS
      <3> HIDE DEF U
      <3> QED
        BY <3>1
    <2> HIDE DEF F
    <2> QED
      BY <2>1, <2>3, <2>4
  <1>2. IsWellFoundedOn(StrictSubsetOrdering(S), FiniteSubsetsOf(S))
    BY FS_StrictSubsetOrderingWellFounded
  <1>3. PICK T \in F : \A Y \in F : ~(<<Y, T>> \in StrictSubsetOrdering(S))
    BY <1>1, <1>2, WFMin
  <1>4. PICK m \in S : T = U(m)
    BY <1>3
  <1>5. ASSUME NEW y \in S, <<m, y>> \in R PROVE FALSE
    <2>1. U(y) \subseteq U(m) /\ y \in U(m) /\ y \notin U(y)
      BY <1>5
    <2>2. <<U(y), U(m)>> \in StrictSubsetOrdering(S)
      BY <2>1 DEF StrictSubsetOrdering
    <2> QED
      BY <2>2, <1>3, <1>4
  <1> QED
    BY <1>5

(***************************************************************************)
(* Facts: who a row belongs to.                                            *)
(***************************************************************************)
InRoom(r, c, asked) ==
    /\ r.world = WorldOfReader(c)
    /\ asked = SessionsAll \/ r.sess \in {ActiveSession(c, Snapshot), Legacy}
FactRow(r) ==
    /\ DOMAIN r = {"id", "key", "obj", "src", "at", "sess", "world", "by", "owner", "readers"}
    /\ r.id \in Nat /\ r.at \in Nat /\ r.by \in Nat
    /\ r.owner # Unset => r.world.principal = r.owner
    /\ \A c \in r.readers : InRoom(r, c.by, c.asked)

(* Two states of one row: marks and readers may differ. *)
SameFact(r, q) ==
    /\ r.id = q.id /\ r.key = q.key /\ r.obj = q.obj /\ r.src = q.src /\ r.at = q.at
    /\ r.sess = q.sess /\ r.world = q.world /\ r.owner = q.owner

FactIds(S) == {r.id : r \in S}
Used == FactIds(facts) \cup history.gone
Chaining == {"older", "newer", "mark", "self", "commit"}
WriterOK(j) == j = Idle \/
    /\ DOMAIN j = {"pc", "e", "todo", "id", "older", "newer"}
    /\ j.pc \in {"insert", "end"} \cup Chaining
    /\ j.e \in Extractions
    /\ j.pc \in Chaining => j.id \in Used
    /\ j.older \subseteq Used /\ j.newer \subseteq Used
FactTypes ==
    /\ DOMAIN history = {"due", "gone", "touched", "raced", "pruned", "restarts"}
    /\ history.due \subseteq Extractions /\ history.restarts \in Nat
    /\ DOMAIN writer = Writers
    /\ \A w \in Writers : WriterOK(writer[w])
    /\ recalled \in [Readers -> [ids : SUBSET Nat, asked : SUBSET {Unset, "*"}]]
FactNames ==
    /\ \E K \in Nat : Used = 1..K
    /\ FactIds(kept) \subseteq Used
    /\ \A c \in Readers : recalled[c].ids \subseteq Used
    /\ \A r, q \in facts : r.id = q.id => r = q
    /\ \A r, q \in kept : r.id = q.id => r = q
    /\ \A r \in facts, q \in kept : r.id = q.id => SameFact(r, q)
RecallsInRoom == \A c \in Readers : \A r \in facts \cup kept :
    r.id \in recalled[c].ids => InRoom(r, c, recalled[c].asked)
FactScopeInv ==
    FactTypes /\ FactNames /\ RecallsInRoom /\ (\A r \in facts \cup kept : FactRow(r))

LEMMA NextIdIsNew ==
    ASSUME FactScopeInv
    PROVE  /\ NextId \in Nat \ {0} /\ NextId \notin Used
           /\ Used \cup {NextId} = 1..NextId
  <1>1. PICK K \in Nat : Used = 1..K
    BY DEF FactScopeInv, FactNames
  <1>2. Cardinality(1..K) = K
    BY FS_Interval
  <1>3. NextId = 1 + K
    BY <1>1, <1>2 DEF NextId, Used, FactIds
  <1> QED
    BY <1>1, <1>3

LEMMA InitScope == FactInit => FactScopeInv
  <1> SUFFICES ASSUME FactInit PROVE FactScopeInv
    OBVIOUS
  <1> PICK A \in Agendas : history = [due |-> A, gone |-> {}, touched |-> {}, raced |-> {}, pruned |-> {}, restarts |-> 0]
    BY DEF FactInit
  <1>1. FactTypes
    BY DEF FactInit, FactTypes, WriterOK, NoRecall, Here, Extractions
  <1>2. FactNames
    <2>1. Used = 1..0
      BY DEF FactInit, Used, FactIds
    <2> QED
      BY <2>1 DEF FactInit, FactNames, FactIds, NoRecall
  <1> QED
    BY <1>1, <1>2 DEF FactInit, FactScopeInv, RecallsInRoom

(* What a step may do to the rows: change marks and readers, drop rows, or *)
(* go back to what was committed.                                          *)
LEMMA ScopeFrame ==
    ASSUME FactScopeInv, FactTypes',
           \A d \in facts' : FactRow(d) /\ \E r \in facts \cup kept : SameFact(r, d),
           \A d, b \in facts' : d.id = b.id => d = b,
           kept' = kept \/ kept' = facts',
           Used' = Used,
           \A c \in Readers : recalled'[c] = recalled[c] \/ recalled'[c].ids = {}
    PROVE  FactScopeInv'
  <1>1. \A d \in facts' \cup kept' : FactRow(d) /\ \E r \in facts \cup kept : SameFact(r, d)
    BY DEF FactScopeInv, SameFact
  <1>2. RecallsInRoom'
    BY <1>1 DEF FactScopeInv, RecallsInRoom, SameFact, InRoom
  <1>3. \A r, q \in facts \cup kept : r.id = q.id => SameFact(r, q)
    BY DEF FactScopeInv, FactNames, SameFact
  <1>4. \A r \in facts', q \in kept' : r.id = q.id => SameFact(r, q)
    <2> TAKE r \in facts', q \in kept'
    <2>1. PICK r1 \in facts \cup kept : SameFact(r1, r)
      BY <1>1
    <2>2. PICK q1 \in facts \cup kept : SameFact(q1, q)
      BY <1>1
    <2> QED
      BY <1>3, <2>1, <2>2 DEF SameFact
  <1>5. FactIds(kept') \subseteq Used
    <2> SUFFICES ASSUME NEW q \in kept' PROVE q.id \in Used
      BY DEF FactIds
    <2>1. PICK q1 \in facts \cup kept : SameFact(q1, q)
      BY <1>1
    <2>2. q1.id \in Used
      BY DEF FactScopeInv, FactNames, Used, FactIds
    <2> QED
      BY <2>1, <2>2 DEF SameFact
  <1>6. FactNames'
    <2>1. \A r, q \in kept' : r.id = q.id => r = q
      BY DEF FactScopeInv, FactNames
    <2>2. \E K \in Nat : Used' = 1..K
      BY DEF FactScopeInv, FactNames
    <2>3. \A c \in Readers : recalled'[c].ids \subseteq Used'
      BY DEF FactScopeInv, FactNames
    <2> QED
      BY <1>4, <1>5, <2>1, <2>2, <2>3 DEF FactNames, FactIds
  <1> QED
    BY <1>1, <1>2, <1>6 DEF FactScopeInv

LEMMA FactRowIsItsVersion == ASSUME FactScopeInv PROVE \A d \in facts : FactRow(d) /\ \E r \in facts \cup kept : SameFact(r, d)
  BY DEF FactScopeInv, SameFact

LEMMA WriterFacts ==
    ASSUME FactScopeInv, NEW w \in Writers, writer[w] # Idle
    PROVE  /\ DOMAIN writer = Writers
           /\ DOMAIN writer[w] = {"pc", "e", "todo", "id", "older", "newer"}
           /\ writer[w].e \in Extractions
           /\ writer[w].pc \in Chaining => writer[w].id \in Used
           /\ writer[w].older \subseteq Used /\ writer[w].newer \subseteq Used
  BY DEF FactScopeInv, FactTypes, WriterOK

(* A step takes a writer to here. *)
Moves(w, pc, e, todo, id, older, newer) ==
    /\ DOMAIN writer' = Writers
    /\ \A v \in Writers : v # w => writer'[v] = writer[v]
    /\ DOMAIN writer'[w] = {"pc", "e", "todo", "id", "older", "newer"}
    /\ writer'[w].pc = pc /\ writer'[w].e = e /\ writer'[w].todo = todo
    /\ writer'[w].id = id /\ writer'[w].older = older /\ writer'[w].newer = newer

LEMMA MovesOK ==
    ASSUME FactScopeInv, NEW w \in Writers, NEW pc, NEW e \in Extractions, NEW todo, NEW id,
           NEW A \in SUBSET Used, NEW B \in SUBSET Used, Moves(w, pc, e, todo, id, A, B),
           pc \in {"insert", "end"} \cup Chaining, pc \in Chaining => id \in Used', Used \subseteq Used'
    PROVE  DOMAIN writer' = Writers /\ \A v \in Writers : WriterOK(writer[v])'
  <1>1. WriterOK(writer[w])'
    BY DEF WriterOK, Moves
  <1>2. \A v \in Writers : v # w => WriterOK(writer[v])'
    BY DEF FactScopeInv, FactTypes, WriterOK, Moves
  <1> QED
    BY <1>1, <1>2 DEF Moves

LEMMA OlderUsed == ASSUME NEW n PROVE FactIds(Older(n)) \subseteq Used
  BY DEF Older, FactIds, Used

LEMMA FactsFinite ==
    ASSUME FactScopeInv
    PROVE  IsFiniteSet(facts)
  <1>1. PICK K \in Nat : Used = 1..K
    BY DEF FactScopeInv, FactNames
  <1> DEFINE f == [r \in facts |-> r.id]
  <1>2. f \in Injection(facts, 1..K)
    <2>1. f \in [facts -> 1..K]
      BY <1>1 DEF Used, FactIds
    <2>2. \A r, q \in facts : f[r] = f[q] => r = q
      BY DEF FactScopeInv, FactNames
    <2> HIDE DEF f
    <2> QED
      BY <2>1, <2>2 DEF Injection, IsInjective
  <1>3. IsFiniteSet(1..K)
    BY FS_Interval
  <1> HIDE DEF f
  <1> QED
    BY <1>2, <1>3, FS_Injection

LEMMA NewestExists ==
    ASSUME FactScopeInv, NEW S, S \subseteq facts, S # {}
    PROVE  Newest(S) \in S
  <1> DEFINE R == {p \in S \X S : p[1].at < p[2].at \/ (p[1].at = p[2].at /\ p[1].id < p[2].id)}
  <1>1. IsFiniteSet(S)
    BY FactsFinite, FS_Subset
  <1>2. \A x \in S : x.at \in Nat /\ x.id \in Nat
    BY DEF FactScopeInv, FactRow
  <1>3. \A x, y \in S : <<x, y>> \in R <=> x.at < y.at \/ (x.at = y.at /\ x.id < y.id)
    OBVIOUS
  <1> HIDE DEF R
  <1>4. PICK m \in S : \A y \in S : <<m, y>> \notin R
    <2>1. \A x, y, z \in S : <<x, y>> \in R /\ <<y, z>> \in R => <<x, z>> \in R
      BY <1>2, <1>3
    <2>2. \A x \in S : <<x, x>> \notin R
      BY <1>2, <1>3
    <2> QED
      BY <1>1, <2>1, <2>2, HasMaximal
  <1>5. \A q \in S : <<q.at, q.id>> = <<m.at, m.id>>
            \/ q.at < m.at \/ (q.at = m.at /\ q.id < m.id)
    <2> TAKE q \in S
    <2>1. ~(m.at < q.at) /\ ~(m.at = q.at /\ m.id < q.id)
      BY <1>3, <1>4
    <2>2. q.at < m.at \/ (q.at = m.at /\ q.id < m.id) \/ (q.at = m.at /\ q.id = m.id)
      BY <1>2, <2>1
    <2> QED
      BY <2>2
  <1> QED
    BY <1>5 DEF Newest

LEMMA SkipFactMoves ==
    ASSUME FactScopeInv, NEW w \in Writers, SkipFact(w)
    PROVE  /\ writer[w] # Idle /\ writer[w].pc = "insert"
           /\ Moves(w, "insert", writer[w].e, Tail(writer[w].todo), writer[w].id, writer[w].older, writer[w].newer)
  BY WriterFacts DEF SkipFact, At, Step, Moves

LEMMA InsertRaisesMoves ==
    ASSUME FactScopeInv, NEW w \in Writers, InsertRaises(w)
    PROVE  /\ writer[w] # Idle /\ writer[w].pc = "insert"
           /\ Moves(w, "end", writer[w].e, writer[w].todo, writer[w].id, writer[w].older, writer[w].newer)
  BY WriterFacts DEF InsertRaises, At, Step, Moves

LEMMA CommitFactMoves ==
    ASSUME FactScopeInv, NEW w \in Writers, CommitFact(w)
    PROVE  /\ writer[w] # Idle /\ writer[w].pc = "commit"
           /\ Moves(w, "insert", writer[w].e, writer[w].todo, writer[w].id, writer[w].older, writer[w].newer)
  BY WriterFacts DEF CommitFact, At, Step, Moves

LEMMA SelectOlderMoves ==
    ASSUME FactScopeInv, NEW w \in Writers, SelectOlder(w)
    PROVE  /\ writer[w] # Idle /\ writer[w].pc = "older"
           /\ Moves(w, "newer", writer[w].e, writer[w].todo, writer[w].id, 
                    IF Stored(w) THEN {r.id : r \in Older(Row(w))} ELSE {}, writer[w].newer)
  BY WriterFacts DEF SelectOlder, At, Step, Moves

LEMMA SelectNewerMoves ==
    ASSUME FactScopeInv, NEW w \in Writers, SelectNewer(w)
    PROVE  /\ writer[w] # Idle /\ writer[w].pc = "newer"
           /\ Moves(w, "mark", writer[w].e, writer[w].todo, writer[w].id, writer[w].older, 
                    IF Stored(w) /\ NewerThan(Row(w)) # {} THEN {Newest(NewerThan(Row(w))).id} ELSE {})
  BY WriterFacts DEF SelectNewer, At, Step, Moves

LEMMA MarkOlderMoves ==
    ASSUME FactScopeInv, NEW w \in Writers, MarkOlder(w)
    PROVE  /\ writer[w] # Idle /\ writer[w].pc = "mark"
           /\ Moves(w, "self", writer[w].e, writer[w].todo, writer[w].id, writer[w].older, writer[w].newer)
  BY WriterFacts DEF MarkOlder, At, Step, Moves

LEMMA MarkSelfMoves ==
    ASSUME FactScopeInv, NEW w \in Writers, MarkSelf(w)
    PROVE  /\ writer[w] # Idle /\ writer[w].pc = "self"
           /\ Moves(w, "commit", writer[w].e, writer[w].todo, writer[w].id, writer[w].older, writer[w].newer)
  BY WriterFacts DEF MarkSelf, At, Step, Moves

LEMMA InsertFactMoves ==
    ASSUME FactScopeInv, NEW w \in Writers, InsertFact(w)
    PROVE  /\ writer[w] # Idle /\ writer[w].pc = "insert"
           /\ Moves(w, "older", writer[w].e, Tail(writer[w].todo), NextId, writer[w].older, writer[w].newer)
  BY WriterFacts DEF InsertFact, At, Step, Moves

LEMMA ExtractMoves ==
    ASSUME FactScopeInv, NEW w \in Writers, NEW e, Extract(w, e)
    PROVE  writer[w] = Idle /\ Moves(w, IF e.parsed THEN "insert" ELSE "end", e, e.facts, 0, {}, {})
  BY DEF Extract, Moves, FactScopeInv, FactTypes

(***************************************************************************)
(* The steps of the facts tier.                                            *)
(***************************************************************************)
LEMMA ScopeExtract ==
    ASSUME FactScopeInv, NEW w \in Writers, NEW e \in history.due, Extract(w, e)
    PROVE  FactScopeInv'
  <1>1. e \in Extractions
    BY DEF FactScopeInv, FactTypes
  <1>2. /\ history'.gone = history.gone /\ history'.due \subseteq history.due
        /\ history'.restarts = history.restarts /\ DOMAIN history' = DOMAIN history
        /\ UNCHANGED <<facts, kept, recalled, sweeps>>
    BY DEF Extract, FactScopeInv, FactTypes
  <1>3. Used' = Used
    BY <1>2 DEF Used, FactIds
  <1>4. FactTypes'
    <2>1. DOMAIN writer' = Writers /\ \A v \in Writers : WriterOK(writer[v])'
      BY <1>1, <1>3, ExtractMoves, MovesOK DEF Chaining
    <2> QED
      BY <1>2, <2>1 DEF FactScopeInv, FactTypes
  <1> QED
    BY <1>2, <1>3, <1>4, ScopeFrame, FactRowIsItsVersion DEF FactScopeInv, FactNames

LEMMA ScopeLook ==
    ASSUME FactScopeInv, NEW w \in Writers,
           SkipFact(w) \/ InsertRaises(w) \/ SelectOlder(w) \/ SelectNewer(w) \/ CommitFact(w) \/ EndExtraction(w)
    PROVE  FactScopeInv'
  <1>1. facts' = facts /\ (kept' = kept \/ kept' = facts) /\ recalled' = recalled /\ history' = history
    BY DEF SkipFact, InsertRaises, SelectOlder, SelectNewer, CommitFact, EndExtraction
  <1>2. Used' = Used
    BY <1>1 DEF Used, FactIds
  <1>3. DOMAIN writer' = Writers /\ \A v \in Writers : WriterOK(writer[v])'
    <2>1. CASE SkipFact(w)
      BY <1>2, <2>1, SkipFactMoves, WriterFacts, MovesOK DEF Chaining
    <2>2. CASE InsertRaises(w)
      BY <1>2, <2>2, InsertRaisesMoves, WriterFacts, MovesOK DEF Chaining
    <2>3. CASE CommitFact(w)
      BY <1>2, <2>3, CommitFactMoves, WriterFacts, MovesOK DEF Chaining
    <2>4. CASE EndExtraction(w)
      <3>1. DOMAIN writer' = Writers /\ writer'[w] = Idle /\ \A v \in Writers : v # w => writer'[v] = writer[v]
        BY <2>4 DEF EndExtraction, FactScopeInv, FactTypes
      <3> QED
        BY <1>2, <3>1 DEF WriterOK, FactScopeInv, FactTypes
    <2>5. CASE SelectOlder(w)
      <3> DEFINE A == IF Stored(w) THEN {r.id : r \in Older(Row(w))} ELSE {}
      <3>1. A \in SUBSET Used
        BY OlderUsed DEF FactIds
      <3>2. Moves(w, "newer", writer[w].e, writer[w].todo, writer[w].id, A, writer[w].newer)
        BY <2>5, SelectOlderMoves
      <3>3. writer[w] # Idle /\ writer[w].pc = "older"
        BY <2>5, SelectOlderMoves
      <3> HIDE DEF A
      <3> QED
        BY <1>2, <3>1, <3>2, <3>3, WriterFacts, MovesOK DEF Chaining
    <2>6. CASE SelectNewer(w)
      <3> DEFINE A == IF Stored(w) /\ NewerThan(Row(w)) # {} THEN {Newest(NewerThan(Row(w))).id} ELSE {}
      <3>1. A \in SUBSET Used
        BY NewestExists, ZenonT(40) DEF NewerThan, Used, FactIds
      <3>2. Moves(w, "mark", writer[w].e, writer[w].todo, writer[w].id, writer[w].older, A)
        BY <2>6, SelectNewerMoves
      <3>3. writer[w] # Idle /\ writer[w].pc = "newer"
        BY <2>6, SelectNewerMoves
      <3> HIDE DEF A
      <3> QED
        BY <1>2, <3>1, <3>2, <3>3, WriterFacts, MovesOK DEF Chaining
    <2> QED
      BY <2>1, <2>2, <2>3, <2>4, <2>5, <2>6
  <1>4. FactTypes'
    BY <1>1, <1>3 DEF FactScopeInv, FactTypes
  <1> QED
    BY <1>1, <1>2, <1>4, ScopeFrame, FactRowIsItsVersion DEF FactScopeInv, FactNames

(* Marking rows keeps all of them, each with its name and its scope. *)
LEMMA MarkedRows ==
    ASSUME FactScopeInv, NEW S, NEW by \in Nat, facts' = Marked(S, by)
    PROVE  /\ \A d \in facts' : FactRow(d) /\ \E r \in facts : SameFact(r, d) /\ d.readers = r.readers
                                   /\ d.by = IF r \in S THEN by ELSE r.by
           /\ \A r \in facts : \E d \in facts' : SameFact(r, d) /\ d.by = IF r \in S THEN by ELSE r.by
           /\ \A d, b \in facts' : d.id = b.id => d = b
           /\ FactIds(facts') = FactIds(facts)
  <1>1. \A r \in facts : FactRow(r)
    BY DEF FactScopeInv
  <1>2. \A r \in facts : LET d == IF r \in S THEN [r EXCEPT !.by = by] ELSE r IN
          /\ FactRow(d) /\ SameFact(r, d) /\ d.readers = r.readers /\ d.by = IF r \in S THEN by ELSE r.by
    BY <1>1 DEF FactRow, SameFact, InRoom
  <1>3. \A d \in facts' : \E r \in facts : d = IF r \in S THEN [r EXCEPT !.by = by] ELSE r
    BY DEF Marked
  <1>4. \A r \in facts : (IF r \in S THEN [r EXCEPT !.by = by] ELSE r) \in facts'
    BY DEF Marked
  <1>5. \A d \in facts' : FactRow(d) /\ \E r \in facts : SameFact(r, d) /\ d.readers = r.readers
                                   /\ d.by = IF r \in S THEN by ELSE r.by
    BY <1>2, <1>3
  <1>6. \A r \in facts : \E d \in facts' : SameFact(r, d) /\ d.by = IF r \in S THEN by ELSE r.by
    BY <1>2, <1>4
  <1>7. \A d, b \in facts' : d.id = b.id => d = b
    <2> TAKE d, b \in facts'
    <2> HAVE d.id = b.id
    <2>1. PICK r \in facts : d = IF r \in S THEN [r EXCEPT !.by = by] ELSE r
      BY <1>3
    <2>2. PICK q \in facts : b = IF q \in S THEN [q EXCEPT !.by = by] ELSE q
      BY <1>3
    <2>3. r.id = q.id
      BY <1>2, <2>1, <2>2 DEF SameFact
    <2>4. r = q
      BY <2>3 DEF FactScopeInv, FactNames
    <2> QED
      BY <2>1, <2>2, <2>4
  <1>8. FactIds(facts') = FactIds(facts)
    BY <1>5, <1>6 DEF FactIds, SameFact
  <1> QED
    BY <1>5, <1>6, <1>7, <1>8

LEMMA ScopeMarked ==
    ASSUME FactScopeInv, NEW S, NEW by \in Nat, facts' = Marked(S, by),
           kept' = kept \/ kept' = facts', recalled' = recalled, history'.gone = history.gone,
           FactTypes'
    PROVE  FactScopeInv'
  <1>1. Used' = Used
    BY MarkedRows DEF Used, FactIds
  <1>2. \A d \in facts' : FactRow(d) /\ \E r \in facts \cup kept : SameFact(r, d)
    BY MarkedRows
  <1> QED
    BY <1>1, <1>2, MarkedRows, ScopeFrame

LEMMA ScopeMarkOlder ==
    ASSUME FactScopeInv, NEW w \in Writers, MarkOlder(w)
    PROVE  FactScopeInv'
  <1>1. /\ facts' = Marked(RowsOf(writer[w].older), writer[w].id)
        /\ UNCHANGED <<kept, recalled, sweeps, history>>
    BY DEF MarkOlder
  <1>2. writer[w] # Idle /\ writer[w].pc = "mark"
    BY MarkOlderMoves
  <1>3. writer[w].id \in Used /\ Used \subseteq Nat
    BY <1>2, WriterFacts DEF Chaining, FactScopeInv, FactNames
  <1>4. Used' = Used
    BY <1>1, <1>3, MarkedRows DEF Used, FactIds
  <1>5. FactTypes'
    <2>1. DOMAIN writer' = Writers /\ \A v \in Writers : WriterOK(writer[v])'
      BY <1>2, <1>3, <1>4, MarkOlderMoves, WriterFacts, MovesOK DEF Chaining
    <2> QED
      BY <1>1, <2>1 DEF FactScopeInv, FactTypes
  <1> QED
    BY <1>1, <1>3, <1>5, ScopeMarked

LEMMA ScopeMarkSelf ==
    ASSUME FactScopeInv, NEW w \in Writers, MarkSelf(w)
    PROVE  FactScopeInv'
  <1>1. UNCHANGED <<kept, recalled, sweeps, history>>
    BY DEF MarkSelf
  <1>2. writer[w] # Idle /\ writer[w].pc = "self"
    BY MarkSelfMoves
  <1>3. writer[w].id \in Used /\ Used \subseteq Nat /\ writer[w].newer \subseteq Used
    BY <1>2, WriterFacts DEF Chaining, FactScopeInv, FactNames
  <1>4. Used' = Used => FactTypes'
    <2> HAVE Used' = Used
    <2>1. DOMAIN writer' = Writers /\ \A v \in Writers : WriterOK(writer[v])'
      BY <1>2, <1>3, MarkSelfMoves, WriterFacts, MovesOK DEF Chaining
    <2> QED
      BY <1>1, <2>1 DEF FactScopeInv, FactTypes
  <1>5. CASE writer[w].newer = {}
    <2>1. facts' = facts
      BY <1>5 DEF MarkSelf
    <2>2. Used' = Used
      BY <1>1, <2>1 DEF Used, FactIds
    <2> QED
      BY <1>1, <1>4, <2>1, <2>2, ScopeFrame, FactRowIsItsVersion DEF FactScopeInv, FactNames
  <1>6. CASE writer[w].newer # {}
    <2>1. PICK b \in Nat : b = CHOOSE id \in writer[w].newer : TRUE
      BY <1>3, <1>6
    <2>2. facts' = Marked(RowsOf({writer[w].id}), b)
      BY <1>6, <2>1 DEF MarkSelf
    <2>3. Used' = Used
      BY <1>1, <2>2, MarkedRows DEF Used, FactIds
    <2> QED
      BY <1>1, <1>4, <2>2, <2>3, ScopeMarked
  <1> QED
    BY <1>5, <1>6

LEMMA ScopeInsert ==
    ASSUME FactScopeInv, NEW w \in Writers, InsertFact(w)
    PROVE  FactScopeInv'
  <1> DEFINE n == NewFact(NextId, writer[w].e, Next1(w))
  <1>1. /\ facts' = facts \cup {n} /\ UNCHANGED <<kept, recalled, sweeps>>
        /\ DOMAIN history' = DOMAIN history /\ history'.due = history.due
        /\ history'.restarts = history.restarts /\ history'.gone = history.gone
    BY DEF InsertFact, FactScopeInv, FactTypes
  <1>2. n.id = NextId /\ n.readers = {} /\ FactRow(n)
    <2>1. writer[w].e \in Extractions
      BY InsertFactMoves, WriterFacts
    <2>2. writer[w].e.at \in Nat
      BY <2>1, FactAssumption DEF Extractions
    <2>3. n.owner # Unset => n.world.principal = n.owner
      BY DEF NewFact, World, WritePrincipal, NormalPrincipal, Or
    <2>4. /\ DOMAIN n = {"id", "key", "obj", "src", "at", "sess", "world", "by", "owner", "readers"}
          /\ n.id = NextId /\ n.readers = {} /\ n.at = writer[w].e.at /\ n.by = 0
      BY DEF NewFact, Live
    <2> HIDE DEF n
    <2> QED
      BY <2>2, <2>3, <2>4, NextIdIsNew DEF FactRow
  <1> HIDE DEF n
  <1>3. Used' = Used \cup {NextId}
    BY <1>1, <1>2 DEF Used, FactIds
  <1>4. FactTypes'
    <2>1. writer[w] # Idle /\ Moves(w, "older", writer[w].e, Tail(writer[w].todo), NextId, writer[w].older, writer[w].newer)
      BY InsertFactMoves
    <2>2. DOMAIN writer' = Writers /\ \A v \in Writers : WriterOK(writer[v])'
      BY <1>3, <2>1, WriterFacts, MovesOK DEF Chaining
    <2> QED
      BY <1>1, <2>2 DEF FactScopeInv, FactTypes
  <1>5. FactNames'
    <2>1. \E K \in Nat : Used' = 1..K
      BY <1>3, NextIdIsNew
    <2>2. \A r \in facts \cup kept : r.id # n.id
      BY <1>2, NextIdIsNew DEF FactScopeInv, FactNames, Used, FactIds
    <2> QED
      BY <1>1, <1>3, <2>1, <2>2 DEF FactScopeInv, FactNames, FactIds, SameFact
  <1>6. RecallsInRoom'
    <2>1. \A c \in Readers : n.id \notin recalled[c].ids
      BY <1>2, NextIdIsNew DEF FactScopeInv, FactNames
    <2> QED
      BY <1>1, <2>1 DEF FactScopeInv, RecallsInRoom, InRoom
  <1> QED
    BY <1>1, <1>2, <1>4, <1>5, <1>6 DEF FactScopeInv

(* Writers and reads are as they were, and no name was forgotten. *)
LEMMA TypesKept ==
    ASSUME FactScopeInv, writer' = writer, recalled' = recalled, Used \subseteq Used',
           DOMAIN history' = DOMAIN history, history'.due = history.due, history'.restarts = history.restarts
    PROVE  FactTypes'
  <1>1. \A w \in Writers : WriterOK(writer[w])'
    BY DEF FactScopeInv, FactTypes, WriterOK
  <1> QED
    BY <1>1 DEF FactScopeInv, FactTypes

LEMMA ScopeRecall ==
    ASSUME FactScopeInv, NEW c \in Readers, NEW subject, NEW asked \in {Here, SessionsAll}, RecallFacts(c, asked, subject)
    PROVE  FactScopeInv'
  <1> DEFINE S == {r \in facts : Visible(r, c, asked, subject)}
  <1>1. PICK T : T \subseteq S /\ recalled' = [recalled EXCEPT ![c] = [asked |-> asked, ids |-> FactIds(T)]]
    <2>1. NewestOf(S, RecallLimit) \subseteq S /\ BothEndsOf(S, RecallLimit) \subseteq S
      BY DEF NewestOf, BothEndsOf
    <2>2. PICK order \in {"newest", "both_ends"} : recalled' = [recalled EXCEPT ![c] = [asked |-> asked, ids |-> {r.id :
            r \in IF order = "newest" THEN NewestOf(S, RecallLimit) ELSE BothEndsOf(S, RecallLimit)}]]
      BY DEF RecallFacts, Recall
    <2> QED
      BY <2>1, <2>2 DEF FactIds
  <1>2. UNCHANGED <<facts, kept, writer, history>>
    BY DEF RecallFacts
  <1>3. \A r \in S : InRoom(r, c, asked)
    BY DEF Visible, Admits, SessionList, InRoom
  <1>4. FactIds(T) \subseteq Nat /\ FactIds(T) \subseteq Used
    BY <1>1 DEF FactScopeInv, FactRow, FactIds, Used
  <1>5. Used' = Used
    BY <1>2 DEF Used, FactIds
  <1>6. recalled' \in [Readers -> [ids : SUBSET Nat, asked : SUBSET {Unset, "*"}]] /\ recalled'[c].ids = FactIds(T) /\ recalled'[c].asked = asked
        /\ \A d \in Readers : d # c => recalled'[d] = recalled[d]
    BY <1>1, <1>4 DEF FactScopeInv, FactTypes, Here, SessionsAll
  <1>7. FactTypes'
    BY <1>2, <1>5, <1>6 DEF FactScopeInv, FactTypes, WriterOK
  <1>8. RecallsInRoom'
    <2> SUFFICES ASSUME NEW d \in Readers, NEW r \in facts \cup kept, r.id \in recalled'[d].ids
                 PROVE  InRoom(r, d, recalled'[d].asked)
      BY <1>2 DEF RecallsInRoom, InRoom
    <2>1. CASE d = c
      <3>1. PICK q \in T : q.id = r.id
        BY <1>6, <2>1 DEF FactIds
      <3>2. SameFact(q, r)
        BY <1>1, <3>1 DEF FactScopeInv, FactNames, SameFact
      <3> QED
        BY <1>1, <1>3, <1>6, <2>1, <3>2 DEF SameFact, InRoom
    <2>2. CASE d # c
      BY <1>6, <2>2 DEF FactScopeInv, RecallsInRoom
    <2> QED
      BY <2>1, <2>2
  <1>9. FactNames'
    BY <1>2, <1>4, <1>5, <1>6 DEF FactScopeInv, FactNames, FactIds
  <1> QED
    BY <1>2, <1>7, <1>8, <1>9 DEF FactScopeInv

LEMMA ScopeMarkRecalled ==
    ASSUME FactScopeInv, NEW c \in Readers, MarkRecalled(c)
    PROVE  FactScopeInv'
  <1> DEFINE F(r) == IF r.id \in recalled[c].ids 
                         THEN [r EXCEPT !.readers = @ \cup {[by |-> c, asked |-> recalled[c].asked]}] ELSE r
  <1>1. /\ facts' = {F(r) : r \in facts} /\ kept' = facts' /\ recalled' = [recalled EXCEPT ![c] = NoRecall]
        /\ UNCHANGED <<writer, sweeps, history>>
    BY DEF MarkRecalled
  <1>2. \A r \in facts : FactRow(F(r)) /\ SameFact(r, F(r)) /\ F(r).by = r.by
    BY DEF FactScopeInv, FactRow, RecallsInRoom, SameFact, InRoom
  <1>3. \A d \in facts' : \E r \in facts : d = F(r)
    BY <1>1
  <1>4. \A r \in facts : F(r) \in facts'
    BY <1>1
  <1> HIDE DEF F
  <1>5. \A d \in facts' : FactRow(d) /\ \E r \in facts \cup kept : SameFact(r, d)
    BY <1>2, <1>3
  <1>6. \A d, b \in facts' : d.id = b.id => d = b
    <2> TAKE d, b \in facts'
    <2> HAVE d.id = b.id
    <2>1. PICK r \in facts : d = F(r)
      BY <1>3
    <2>2. PICK q \in facts : b = F(q)
      BY <1>3
    <2>3. r.id = q.id
      BY <1>2, <2>1, <2>2 DEF SameFact
    <2> QED
      BY <2>1, <2>2, <2>3 DEF FactScopeInv, FactNames
  <1>7. FactIds(facts') = FactIds(facts)
    BY <1>2, <1>3, <1>4 DEF FactIds, SameFact
  <1>8. Used' = Used
    BY <1>1, <1>7 DEF Used, FactIds
  <1>9. recalled' \in [Readers -> [ids : SUBSET Nat, asked : SUBSET {Unset, "*"}]] /\ \A d \in Readers : recalled'[d] = recalled[d] \/ recalled'[d].ids = {}
    BY <1>1 DEF FactScopeInv, FactTypes, NoRecall, Here
  <1>10. FactTypes'
    BY <1>1, <1>8, <1>9 DEF FactScopeInv, FactTypes, WriterOK
  <1> QED
    BY <1>1, <1>5, <1>6, <1>8, <1>9, <1>10, ScopeFrame

LEMMA ScopeDrop ==
    ASSUME FactScopeInv, NEW S, facts' = facts \ S, kept' = facts', writer' = writer, recalled' = recalled,
           DOMAIN history' = DOMAIN history, history'.due = history.due, history'.restarts = history.restarts,
           history'.gone = history.gone \cup FactIds(facts \ facts')
    PROVE  FactScopeInv'
  <1>1. Used' = Used
    BY DEF Used, FactIds
  <1>2. FactTypes'
    BY <1>1, TypesKept
  <1>3. \A d \in facts' : FactRow(d) /\ \E r \in facts \cup kept : SameFact(r, d)
    BY FactRowIsItsVersion
  <1> QED
    BY <1>1, <1>2, <1>3, ScopeFrame DEF FactScopeInv, FactNames

LEMMA ScopePrune ==
    ASSUME FactScopeInv, NEW before, Prune(before)
    PROVE  FactScopeInv'
  <1>1. facts' = facts \ {r \in facts : Prunable(r, before)} /\ kept' = facts' /\ writer' = writer /\ recalled' = recalled
    BY DEF Prune, Sweep
  <1>2. /\ DOMAIN history' = DOMAIN history /\ history'.due = history.due /\ history'.restarts = history.restarts
        /\ history'.gone = history.gone \cup FactIds(facts \ facts')
    BY DEF Prune, FactIds, FactScopeInv, FactTypes
  <1> QED
    BY <1>1, <1>2, ScopeDrop

LEMMA ScopeDelete ==
    ASSUME FactScopeInv, NEW subject, NEW c, DeleteBySubject(subject, c)
    PROVE  FactScopeInv'
  <1> DEFINE S == Erased(subject, ActivePrincipal(c, Snapshot))
  <1>1. facts' = facts \ S /\ kept' = facts' /\ writer' = writer /\ recalled' = recalled
    BY DEF DeleteBySubject, Sweep
  <1>2. /\ DOMAIN history' = DOMAIN history /\ history'.due = history.due /\ history'.restarts = history.restarts
        /\ history'.gone = history.gone \cup FactIds(S)
    BY DEF DeleteBySubject, FactIds, FactScopeInv, FactTypes
  <1>3. facts \ facts' = S
    BY <1>1 DEF Erased
  <1> QED
    BY <1>1, <1>2, <1>3, ScopeDrop

LEMMA ScopeRetract ==
    ASSUME FactScopeInv, NEW r \in facts, NEW q \in facts, NEW c, Retract(r.id, q.id, c)
    PROVE  FactScopeInv'
  <1>1. PICK S : /\ facts' = Marked(S, q.id)
                 /\ history' = [history EXCEPT !.touched = @ \cup {Chain(x) : x \in S}]
    BY DEF Retract
  <1>2. kept' = facts' /\ writer' = writer /\ recalled' = recalled
    BY DEF Retract, Sweep
  <1>3. q.id \in Nat
    BY DEF FactScopeInv, FactRow
  <1>4. /\ DOMAIN history' = DOMAIN history /\ history'.due = history.due /\ history'.restarts = history.restarts
        /\ history'.gone = history.gone
    BY <1>1 DEF FactScopeInv, FactTypes
  <1>5. Used' = Used
    BY <1>1, <1>3, <1>4, MarkedRows DEF Used, FactIds
  <1> QED
    BY <1>1, <1>2, <1>3, <1>4, <1>5, TypesKept, ScopeMarked

LEMMA ScopeRestart ==
    ASSUME FactScopeInv, Restart
    PROVE  FactScopeInv'
  <1>1. /\ facts' = kept /\ kept' = kept /\ writer' = [w \in Writers |-> Idle]
        /\ recalled' = [c \in Readers |-> NoRecall]
    BY DEF Restart
  <1>2. /\ DOMAIN history' = DOMAIN history /\ history'.due = history.due /\ history'.restarts = history.restarts + 1
        /\ history'.gone = history.gone \cup (FactIds(facts) \ FactIds(kept))
    BY DEF Restart, FactIds, FactScopeInv, FactTypes
  <1>3. Used' = Used
    BY <1>1, <1>2 DEF Used, FactIds, FactScopeInv, FactNames
  <1>4. FactTypes'
    BY <1>1, <1>2 DEF FactScopeInv, FactTypes, WriterOK, NoRecall, Here
  <1>5. \A d \in facts' : FactRow(d) /\ \E r \in facts \cup kept : SameFact(r, d)
    BY <1>1 DEF FactScopeInv, SameFact
  <1> QED
    BY <1>1, <1>3, <1>4, <1>5, ScopeFrame DEF FactScopeInv, FactNames, NoRecall

LEMMA ScopeSteps == FactScopeInv /\ [FactNext]_factVars => FactScopeInv'
  <1> SUFFICES ASSUME FactScopeInv, [FactNext]_factVars PROVE FactScopeInv'
    OBVIOUS
  <1>1. CASE UNCHANGED factVars
    <2>1. Used' = Used
      BY <1>1 DEF factVars, Used, FactIds
    <2> QED
      BY <1>1, <2>1, ScopeFrame, TypesKept, FactRowIsItsVersion DEF factVars, FactScopeInv, FactNames
  <1>2. ASSUME NEW w \in Writers, WriterStep(w) PROVE FactScopeInv'
    BY <1>2, ScopeExtract, ScopeLook, ScopeInsert, ScopeMarkOlder, ScopeMarkSelf DEF WriterStep
  <1>3. ASSUME NEW c \in Readers, ReaderStep(c) PROVE FactScopeInv'
    BY <1>3, ScopeRecall, ScopeMarkRecalled DEF ReaderStep
  <1>4. ASSUME Maintain PROVE FactScopeInv'
    BY <1>4, ScopePrune, ScopeDelete, ScopeRetract, ScopeRestart DEF Maintain
  <1> QED
    BY <1>1, <1>2, <1>3, <1>4 DEF FactNext

(* However extractions, recalls, sweeps and restarts interleave, a fact    *)
(* carries the principal of the interaction that said it and is recalled   *)
(* only under that principal and epoch, and outside its room only by a     *)
(* read of every room.                                                     *)
THEOREM FactsKeepTheirPrincipal == FactSpec => []FactsStayWithTheirPrincipal
  <1>1. FactScopeInv => FactsStayWithTheirPrincipal
    BY DEF FactScopeInv, FactRow, FactsStayWithTheirPrincipal, InRoom
  <1> QED
    BY <1>1, InitScope, ScopeSteps, PTL DEF FactSpec

(***************************************************************************)
(* Facts: what is believed.                                                *)
(***************************************************************************)
(* A later assertion of the same chain, in the same room or over a row of  *)
(* before rooms: the order in which rows give way.                         *)
Under(r, q) ==
    /\ SameChain(r, q) /\ (r.sess = q.sess \/ r.sess = Legacy)
    /\ r.at < q.at \/ (r.at = q.at /\ (r.sess # q.sess \/ r.id < q.id))
Beaten(r, S) == \E q \in S : Under(r, q)
Settled(S) == \A r \in S : Judged(r) /\ r.by # Live => Beaten(r, S)
Believed ==
    /\ Settled(facts) /\ Settled(kept)
    /\ \A r \in history.pruned : /\ r.at \in Nat /\ r.id \in Nat
                                 /\ r.id \in history.gone /\ \A q \in facts \cup kept : q.id # r.id
                                 /\ Judged(r) => Beaten(r, facts) /\ Beaten(r, kept)

(* What a writer is about to mark is already beaten. *)
ToMark(j, r) ==
    \/ j.pc \in {"newer", "mark"} /\ r.id \in j.older
    \/ j.pc \in {"mark", "self"} /\ j.newer # {} /\ r.id = j.id
MarksAreDue(j) == j # Idle => \A r \in facts : Judged(r) /\ ToMark(j, r) => Beaten(r, facts)
(* Of its own instant a writer's row is the latest until it has looked for *)
(* older ones.                                                             *)
LatestOfItsInstant(j) == j # Idle /\ j.pc = "older" =>
    \A r, n \in facts : n.id = j.id /\ Judged(n) /\ Rival(r, n) => r.id <= n.id

(* A live row behind another of its room has a writer that will mark it. *)
Lagging(r, q) ==
    /\ Judged(r) /\ r.by = Live /\ SameChain(q, r) /\ q.sess = r.sess /\ r.at < q.at
    /\ r.sess # Legacy \/ q.by = Live
Waits(j, i, k) == j # Idle /\
    \/ j.pc \in {"newer", "mark"} /\ i \in j.older
    \/ j.pc \in {"older", "newer"} /\ j.id = i
    \/ j.pc \in {"mark", "self"} /\ j.newer # {} /\ j.id = i
    \/ j.pc = "older" /\ j.id = k
CatchUp == history.restarts = 0 =>
    \A r, q \in facts : Lagging(r, q) => \E w \in Writers : Waits(writer[w], r.id, q.id)
BeliefInv ==
    /\ Believed /\ CatchUp
    /\ \A w \in Writers : MarksAreDue(writer[w]) /\ LatestOfItsInstant(writer[w])

LEMMA UnderFacts ==
    ASSUME NEW r, NEW q, NEW s, r.at \in Nat, q.at \in Nat, s.at \in Nat, r.id \in Nat, q.id \in Nat, s.id \in Nat
    PROVE  /\ ~Under(r, r)
           /\ Under(r, q) /\ Under(q, s) => Under(r, s)
           /\ Under(r, q) /\ Judged(r) => Judged(q)
  <1>1. ~Under(r, r)
    BY DEF Under
  <1>2. Under(r, q) /\ Under(q, s) => Under(r, s)
    BY DEF Under, SameChain
  <1>3. Under(r, q) /\ Judged(r) => Judged(q)
    BY DEF Under, SameChain, Judged, Untouched
  <1> QED
    BY <1>1, <1>2, <1>3

LEMMA UnderVersions ==
    ASSUME NEW r, NEW q, NEW d, NEW b, SameFact(r, d), SameFact(q, b), Under(r, q)
    PROVE  Under(d, b)
  BY DEF SameFact, Under, SameChain, Chain

(* What beats a row can be taken to be live. *)
LEMMA LiveWitness ==
    ASSUME FactScopeInv, Settled(facts), NEW r, r.at \in Nat, r.id \in Nat, Judged(r), Beaten(r, facts)
    PROVE  \E m \in facts : Under(r, m) /\ m.by = Live
  <1> DEFINE S == {q \in facts : Under(r, q)}
             R == {p \in S \X S : Under(p[1], p[2])}
  <1>1. IsFiniteSet(S) /\ S # {}
    BY FactsFinite, FS_Subset DEF Beaten
  <1>2. \A q \in facts : q.at \in Nat /\ q.id \in Nat
    BY DEF FactScopeInv, FactRow
  <1>3. \A x, y \in S : <<x, y>> \in R <=> Under(x, y)
    OBVIOUS
  <1>4. \A q \in S : q \in facts /\ Under(r, q)
    OBVIOUS
  <1>5. \A q \in facts : Under(r, q) => q \in S
    OBVIOUS
  <1> HIDE DEF R, S
  <1>6. \A x, y, z \in S : <<x, y>> \in R /\ <<y, z>> \in R => <<x, z>> \in R
    BY <1>2, <1>3, <1>4, UnderFacts
  <1>7. \A x \in S : <<x, x>> \notin R
    BY <1>2, <1>3, <1>4, UnderFacts
  <1>8. PICK m \in S : \A y \in S : <<m, y>> \notin R
    BY <1>1, <1>6, <1>7, HasMaximal
  <1>9. ~Beaten(m, facts)
    <2> SUFFICES ASSUME NEW q \in facts, Under(m, q) PROVE FALSE
      BY DEF Beaten
    <2>1. Under(r, q)
      BY <1>2, <1>4, UnderFacts
    <2> QED
      BY <2>1, <1>3, <1>5, <1>8
  <1>10. Judged(m)
    BY <1>2, <1>4, UnderFacts
  <1> QED
    BY <1>4, <1>9, <1>10 DEF Settled

(* No chain is judged again that was not. *)
JudgesFewer == history.touched \subseteq history'.touched /\ history.raced \subseteq history'.raced
(* No row is lost that something still rests on. *)
Persist ==
    /\ JudgesFewer /\ history.gone \subseteq history'.gone
    /\ \A d \in facts' : d.id \in Used => \E r \in facts : SameFact(r, d)
    /\ \A r, d : SameFact(r, d) /\ r.at \in Nat /\ r.id \in Nat /\ Judged(d)' /\ Beaten(r, facts) => Beaten(d, facts')

LEMMA PersistAll ==
    ASSUME JudgesFewer, history.gone \subseteq history'.gone,
           \A d \in facts' : d.id \in Used => \E r \in facts : SameFact(r, d),
           \A r \in facts : \E d \in facts' : SameFact(r, d)
    PROVE  Persist
  <1>1. \A r, d : SameFact(r, d) /\ r.at \in Nat /\ r.id \in Nat /\ Judged(d)' /\ Beaten(r, facts) => Beaten(d, facts')
    <2> SUFFICES ASSUME NEW r, NEW d, SameFact(r, d), Beaten(r, facts) PROVE Beaten(d, facts')
      OBVIOUS
    <2>1. PICK q \in facts : Under(r, q)
      BY DEF Beaten
    <2>2. PICK b \in facts' : SameFact(q, b)
      OBVIOUS
    <2> QED
      BY <2>1, <2>2, UnderVersions DEF Beaten
  <1> QED
    BY <1>1 DEF Persist

LEMMA JudgedBefore ==
    ASSUME Persist, NEW r, NEW d, SameFact(r, d), Judged(d)'
    PROVE  Judged(r) /\ Judged(d)
  BY DEF Persist, SameFact, Judged, Untouched, JudgesFewer, Chain

LEMMA BelievedFrame ==
    ASSUME FactScopeInv, FactScopeInv', Believed, Persist,
           kept' = kept \/ kept' = facts',
           \A r \in history'.pruned : \/ r \in history.pruned
                                      \/ /\ r.at \in Nat /\ r.id \in Nat /\ r.id \in history'.gone
                                         /\ \A q \in facts' \cup kept' : q.id # r.id
                                         /\ Judged(r)' => Beaten(r, facts') /\ Beaten(r, kept'),
           \A d \in facts' : Judged(d)' /\ d.by # Live => \E r \in facts : SameFact(r, d) /\ Beaten(r, facts)
    PROVE  Believed'
  <1>1. \A r \in facts : r.at \in Nat /\ r.id \in Nat
    BY DEF FactScopeInv, FactRow
  <1>2. Settled(facts)'
    BY <1>1 DEF Settled, Persist
  <1>3. Settled(kept)'
    <2>1. CASE kept' = facts'
      BY <1>2, <2>1 DEF Settled
    <2>2. CASE kept' = kept
      BY <2>2 DEF Settled, Believed, Persist, Judged, Untouched, JudgesFewer, Beaten
    <2> QED
      BY <2>1, <2>2
  <1>4. ASSUME NEW r \in history'.pruned
        PROVE  /\ r.at \in Nat /\ r.id \in Nat /\ r.id \in history'.gone
               /\ \A q \in facts' \cup kept' : q.id # r.id
               /\ Judged(r)' => Beaten(r, facts') /\ Beaten(r, kept')
    <2> SUFFICES ASSUME r \in history.pruned
                 PROVE  /\ \A q \in facts' \cup kept' : q.id # r.id
                        /\ Judged(r)' => Beaten(r, facts') /\ Beaten(r, kept')
      BY <1>4 DEF Believed, Persist
    <2>3. \A q \in facts' : q.id # r.id
      <3>1. r.id \in Used /\ \A q \in facts : q.id # r.id
        BY DEF Believed, Used
      <3> QED
        BY <3>1 DEF Persist, SameFact
    <2>4. \A q \in kept' : q.id # r.id
      BY <2>3 DEF Believed
    <2>1. r.at \in Nat /\ r.id \in Nat /\ (Judged(r) => Beaten(r, facts) /\ Beaten(r, kept)) /\ SameFact(r, r)
      BY DEF Believed, SameFact
    <2>2. Judged(r)' => Judged(r)
      BY DEF Persist, Judged, Untouched, JudgesFewer
    <2> QED
      BY <2>1, <2>2, <2>3, <2>4 DEF Persist
  <1> QED
    BY <1>2, <1>3, <1>4 DEF Believed

LEMMA MarksFrame ==
    ASSUME FactScopeInv, Persist, NEW j, WriterOK(j), MarksAreDue(j)
    PROVE  MarksAreDue(j)'
  <1> SUFFICES ASSUME j # Idle, NEW d \in facts', Judged(d)', ToMark(j, d)
               PROVE  Beaten(d, facts')
    BY DEF MarksAreDue
  <1>1. d.id \in Used
    BY DEF ToMark, WriterOK, Chaining
  <1>2. PICK r \in facts : SameFact(r, d)
    BY <1>1 DEF Persist
  <1>3. Judged(r) /\ ToMark(j, r)
    BY <1>2, JudgedBefore DEF ToMark, SameFact
  <1>4. Beaten(r, facts)
    BY <1>3 DEF MarksAreDue
  <1>5. r.at \in Nat /\ r.id \in Nat
    BY DEF FactScopeInv, FactRow
  <1> QED
    BY <1>2, <1>4, <1>5 DEF Persist, JudgesFewer

LEMMA LatestFrame ==
    ASSUME NEW j, LatestOfItsInstant(j), JudgesFewer, \A d \in facts' : \E r \in facts : SameFact(r, d)
    PROVE  LatestOfItsInstant(j)'
  <1> SUFFICES ASSUME j # Idle, j.pc = "older", NEW d \in facts', NEW b \in facts', b.id = j.id, Judged(b)', Rival(d, b)
               PROVE  d.id <= b.id
    BY DEF LatestOfItsInstant
  <1>1. PICK r \in facts : SameFact(r, d)
    OBVIOUS
  <1>2. PICK n \in facts : SameFact(n, b)
    OBVIOUS
  <1>3. n.id = j.id /\ Judged(n) /\ Rival(r, n)
    BY <1>1, <1>2 DEF SameFact, Judged, Untouched, JudgesFewer, Rival, SameChain, Chain
  <1>4. r.id <= n.id
    BY <1>3 DEF LatestOfItsInstant
  <1> QED
    BY <1>1, <1>2, <1>4 DEF SameFact

LEMMA CatchUpFrame ==
    ASSUME CatchUp, JudgesFewer, history'.restarts = 0 => history.restarts = 0,
           \A d \in facts' : \E r \in facts : SameFact(r, d) /\ (d.by = Live => r.by = Live),
           \A d, b \in facts', w \in Writers :
               history'.restarts = 0 /\ Lagging(d, b)' /\ Waits(writer[w], d.id, b.id) => Waits(writer'[w], d.id, b.id)
    PROVE  CatchUp'
  <1> SUFFICES ASSUME history'.restarts = 0, NEW d \in facts', NEW b \in facts', Lagging(d, b)'
               PROVE  \E w \in Writers : Waits(writer'[w], d.id, b.id)
    BY DEF CatchUp
  <1>1. PICK r \in facts : SameFact(r, d) /\ (d.by = Live => r.by = Live)
    OBVIOUS
  <1>2. PICK q \in facts : SameFact(q, b) /\ (b.by = Live => q.by = Live)
    OBVIOUS
  <1>3. Lagging(r, q)
    BY <1>1, <1>2 DEF Lagging, SameFact, SameChain, Judged, Untouched, JudgesFewer, Chain
  <1>4. PICK w \in Writers : Waits(writer[w], r.id, q.id)
    BY <1>3 DEF CatchUp
  <1>5. r.id = d.id /\ q.id = b.id
    BY <1>1, <1>2 DEF SameFact
  <1>6. Waits(writer[w], d.id, b.id)
    BY <1>4, <1>5
  <1> QED
    BY <1>6

LEMMA SameRows ==
    ASSUME facts' = facts, JudgesFewer, history.gone \subseteq history'.gone
    PROVE  Persist /\ \A d \in facts' : \E r \in facts : SameFact(r, d) /\ d.by = r.by
  <1>1. \A d \in facts : SameFact(d, d)
    BY DEF SameFact
  <1> QED
    BY <1>1, PersistAll

(* A writer passes between two facts. *)
LEMMA BeliefBetween ==
    ASSUME FactScopeInv, FactScopeInv', BeliefInv, NEW w \in Writers,
           facts' = facts, kept' = kept \/ kept' = facts,
           history'.touched = history.touched, history'.raced = history.raced,
           history'.restarts = history.restarts, history'.pruned = history.pruned,
           history'.gone = history.gone,
           \A v \in Writers : v # w => writer'[v] = writer[v],
           writer[w] = Idle \/ writer[w].pc \in {"insert", "end", "commit"},
           writer'[w] = Idle \/ writer'[w].pc \in {"insert", "end"}
    PROVE  BeliefInv'
  <1>1. Persist /\ \A d \in facts' : \E r \in facts : SameFact(r, d) /\ d.by = r.by
    BY SameRows DEF JudgesFewer
  <1>2. Believed'
    <2>1. \A d \in facts' : Judged(d)' /\ d.by # Live => \E r \in facts : SameFact(r, d) /\ Beaten(r, facts)
      BY <1>1, JudgedBefore DEF BeliefInv, Believed, Settled
    <2> QED
      BY <1>1, <2>1, BelievedFrame DEF BeliefInv
  <1>3. ASSUME NEW v \in Writers PROVE MarksAreDue(writer[v])'
    <2>1. CASE v = w
      BY <2>1 DEF MarksAreDue, ToMark
    <2>2. CASE v # w
      <3>1. PICK j : j = writer[v]
        OBVIOUS
      <3>2. WriterOK(j) /\ MarksAreDue(j)
        BY <3>1 DEF FactScopeInv, FactTypes, BeliefInv
      <3>3. MarksAreDue(j)'
        BY <1>1, <3>2, MarksFrame
      <3> QED
        BY <2>2, <3>1, <3>3 DEF MarksAreDue
    <2> QED
      BY <2>1, <2>2
  <1>4. ASSUME NEW v \in Writers PROVE LatestOfItsInstant(writer[v])'
    <2>1. CASE v = w
      BY <2>1 DEF LatestOfItsInstant
    <2>2. CASE v # w
      BY <2>2 DEF LatestOfItsInstant, BeliefInv, Judged, Untouched
    <2> QED
      BY <2>1, <2>2
  <1>5. CatchUp'
    <2>1. \A i, k : ~Waits(writer[w], i, k)
      BY DEF Waits
    <2>2. \A d, b \in facts', v \in Writers :
            history'.restarts = 0 /\ Lagging(d, b)' /\ Waits(writer[v], d.id, b.id) => Waits(writer'[v], d.id, b.id)
      BY <2>1
    <2> QED
      BY <1>1, <2>2, CatchUpFrame DEF BeliefInv, JudgesFewer
  <1> QED
    BY <1>2, <1>3, <1>4, <1>5 DEF BeliefInv

LEMMA BeliefLook ==
    ASSUME FactScopeInv, FactScopeInv', BeliefInv, NEW w \in Writers,
           SkipFact(w) \/ InsertRaises(w) \/ CommitFact(w) \/ EndExtraction(w) \/ \E e \in history.due : Extract(w, e)
    PROVE  BeliefInv'
  <1>1. ASSUME SkipFact(w) PROVE BeliefInv'
    <2>1. facts' = facts /\ kept' = kept /\ history' = history
      BY <1>1 DEF SkipFact
    <2> QED
      BY <1>1, <2>1, SkipFactMoves, BeliefBetween DEF Moves
  <1>2. ASSUME InsertRaises(w) PROVE BeliefInv'
    <2>1. facts' = facts /\ kept' = kept /\ history' = history
      BY <1>2 DEF InsertRaises
    <2> QED
      BY <1>2, <2>1, InsertRaisesMoves, BeliefBetween DEF Moves
  <1>3. ASSUME CommitFact(w) PROVE BeliefInv'
    <2>1. facts' = facts /\ kept' = facts /\ history' = history
      BY <1>3 DEF CommitFact
    <2> QED
      BY <1>3, <2>1, CommitFactMoves, BeliefBetween DEF Moves
  <1>4. ASSUME EndExtraction(w) PROVE BeliefInv'
    <2>1. facts' = facts /\ kept' = kept /\ history' = history /\ writer[w].pc \in {"insert", "end"}
      BY <1>4 DEF EndExtraction, At
    <2>2. writer'[w] = Idle /\ \A v \in Writers : v # w => writer'[v] = writer[v]
      BY <1>4 DEF EndExtraction, FactScopeInv, FactTypes
    <2> QED
      BY <2>1, <2>2, BeliefBetween
  <1>5. ASSUME NEW e \in history.due, Extract(w, e) PROVE BeliefInv'
    <2>1. /\ facts' = facts /\ kept' = kept /\ history'.touched = history.touched /\ history'.raced = history.raced
          /\ history'.restarts = history.restarts /\ history'.pruned = history.pruned /\ history'.gone = history.gone
          /\ history'.due = history.due \ {e}
      BY <1>5 DEF Extract, FactScopeInv, FactTypes
    <2>2. writer[w] = Idle /\ writer'[w].e = e /\ writer'[w].pc \in {"insert", "end"}
          /\ \A v \in Writers : v # w => writer'[v] = writer[v]
      BY <1>5, ExtractMoves DEF Moves
    <2> QED
      BY <2>1, <2>2, BeliefBetween
  <1> QED
    BY <1>1, <1>2, <1>3, <1>4, <1>5

(* A writer looks something up: only its own part of the invariant moves. *)
LEMMA BeliefSelect ==
    ASSUME FactScopeInv, FactScopeInv', BeliefInv, NEW w \in Writers,
           facts' = facts, kept' = kept, history' = history,
           \A v \in Writers : v # w => writer'[v] = writer[v],
           writer'[w].pc # "older",
           \A r \in facts : Judged(r) /\ ToMark(writer'[w], r) => Beaten(r, facts),
           \A r, q \in facts : Lagging(r, q) /\ Waits(writer[w], r.id, q.id) => Waits(writer'[w], r.id, q.id)
    PROVE  BeliefInv'
  <1>1. Persist /\ \A d \in facts' : \E r \in facts : SameFact(r, d) /\ d.by = r.by
    BY SameRows DEF JudgesFewer
  <1>2. Believed'
    BY DEF BeliefInv, Believed, Settled, Beaten, Judged, Untouched, JudgesFewer
  <1>3. ASSUME NEW v \in Writers PROVE MarksAreDue(writer[v])'
    <2>1. CASE v = w
      BY <2>1 DEF MarksAreDue, Judged, Untouched, JudgesFewer
    <2>2. CASE v # w
      BY <2>2 DEF MarksAreDue, Judged, Untouched, JudgesFewer, BeliefInv
    <2> QED
      BY <2>1, <2>2
  <1>4. ASSUME NEW v \in Writers PROVE LatestOfItsInstant(writer[v])'
    <2>1. CASE v = w
      BY <2>1 DEF LatestOfItsInstant
    <2>2. CASE v # w
      BY <2>2 DEF LatestOfItsInstant, BeliefInv, Judged, Untouched
    <2> QED
      BY <2>1, <2>2
  <1>5. CatchUp'
    <2>1. \A d, b \in facts', v \in Writers :
            history'.restarts = 0 /\ Lagging(d, b)' /\ Waits(writer[v], d.id, b.id) => Waits(writer'[v], d.id, b.id)
      BY DEF Lagging, Judged, Untouched, JudgesFewer
    <2> QED
      BY <1>1, <2>1, CatchUpFrame DEF BeliefInv, JudgesFewer
  <1> QED
    BY <1>2, <1>3, <1>4, <1>5 DEF BeliefInv

(* The row a writer stored, while it is still there. *)
LEMMA RowIs ==
    ASSUME FactScopeInv, NEW w \in Writers
    PROVE  /\ Stored(w) => Row(w) \in facts /\ Row(w).id = writer[w].id
           /\ \A r \in facts : r.id = writer[w].id => Stored(w) /\ Row(w) = r
  BY DEF Stored, RowsOf, Row, FactScopeInv, FactNames

LEMMA BeliefSelectOlder ==
    ASSUME FactScopeInv, FactScopeInv', BeliefInv, NEW w \in Writers, SelectOlder(w)
    PROVE  BeliefInv'
  <1> DEFINE A == IF Stored(w) THEN {r.id : r \in Older(Row(w))} ELSE {}
  <1>1. facts' = facts /\ kept' = kept /\ history' = history
    BY DEF SelectOlder
  <1>2. writer[w] # Idle /\ writer[w].pc = "older" /\ writer[w].e \in Extractions
    BY SelectOlderMoves, WriterFacts
  <1>3. Moves(w, "newer", writer[w].e, writer[w].todo, writer[w].id, A, writer[w].newer)
    BY SelectOlderMoves
  <1>4. ASSUME NEW r \in facts, r.id \in A, Judged(r) PROVE Beaten(r, facts)
    <2>1. Stored(w) /\ Row(w) \in facts /\ Row(w).id = writer[w].id
      BY <1>4, RowIs
    <2>2. PICK q \in Older(Row(w)) : q.id = r.id
      BY <1>4, <2>1
    <2>3. r \in Older(Row(w))
      BY <2>2 DEF Older, FactScopeInv, FactNames
    <2> DEFINE n == Row(w)
    <2>4. /\ SameChain(r, n) /\ r.sess \in {n.sess, Legacy} /\ r.at <= n.at /\ r.id # n.id
      BY <2>3 DEF Older
    <2> HIDE DEF n
    <2>5. n \in facts /\ n.id = writer[w].id /\ r.at \in Nat /\ n.at \in Nat /\ r.id \in Nat /\ n.id \in Nat
      BY <2>1 DEF FactScopeInv, FactRow, n
    <2>6. r.at = n.at /\ r.sess = n.sess => r.id < n.id
      <3> HAVE r.at = n.at /\ r.sess = n.sess
      <3>1. LatestOfItsInstant(writer[w])
        BY DEF BeliefInv
      <3>2. Judged(n) /\ Rival(r, n)
        BY <1>4, <2>4 DEF Judged, Untouched, SameChain, Rival
      <3>3. r.id <= n.id
        BY <1>2, <2>5, <3>1, <3>2 DEF LatestOfItsInstant
      <3> QED
        BY <2>4, <2>5, <3>3
    <2>7. Under(r, n)
      BY <2>4, <2>5, <2>6 DEF Under
    <2> QED
      BY <2>5, <2>7 DEF Beaten
  <1>5. ASSUME NEW r \in facts, NEW q \in facts, Lagging(r, q), q.id = writer[w].id PROVE r.id \in A
    <2>1. Stored(w) /\ Row(w) = q
      BY <1>5, RowIs
    <2>2. r \in Older(q)
      <3>1. r.at \in Nat /\ q.at \in Nat /\ r.at < q.at
        BY <1>5 DEF Lagging, FactScopeInv, FactRow
      <3>2. r.id # q.id
        BY <3>1 DEF FactScopeInv, FactNames
      <3> QED
        BY <1>5, <3>1, <3>2 DEF Lagging, Older, SameChain, Together
    <2> QED
      BY <2>1, <2>2
  <1> HIDE DEF A
  <1>6. /\ writer'[w].pc = "newer" /\ writer'[w].e = writer[w].e /\ writer'[w].id = writer[w].id
        /\ writer'[w].older = A /\ writer'[w] # Idle
        /\ \A v \in Writers : v # w => writer'[v] = writer[v]
    BY <1>3 DEF Moves, Idle
  <1>7. \A r \in facts : Judged(r) /\ ToMark(writer'[w], r) => Beaten(r, facts)
    BY <1>4, <1>6 DEF ToMark
  <1>8. \A r, q \in facts : Lagging(r, q) /\ Waits(writer[w], r.id, q.id) => Waits(writer'[w], r.id, q.id)
    BY <1>2, <1>5, <1>6 DEF Waits
  <1> QED
    BY <1>1, <1>6, <1>7, <1>8, BeliefSelect

LEMMA BeliefSelectNewer ==
    ASSUME FactScopeInv, FactScopeInv', BeliefInv, NEW w \in Writers, SelectNewer(w)
    PROVE  BeliefInv'
  <1> DEFINE A == IF Stored(w) /\ NewerThan(Row(w)) # {} THEN {Newest(NewerThan(Row(w))).id} ELSE {}
  <1>1. facts' = facts /\ kept' = kept /\ history' = history
    BY DEF SelectNewer
  <1>2. writer[w] # Idle /\ writer[w].pc = "newer" /\ writer[w].e \in Extractions
    BY SelectNewerMoves, WriterFacts
  <1>3. Moves(w, "mark", writer[w].e, writer[w].todo, writer[w].id, writer[w].older, A)
    BY SelectNewerMoves
  <1>4. ASSUME NEW r \in facts, r.id = writer[w].id, A # {} PROVE Beaten(r, facts)
    <2>1. Row(w) = r
      BY <1>4, RowIs
    <2>2. PICK q \in NewerThan(r) : TRUE
      BY <1>4, <2>1
    <2> QED
      BY <2>2 DEF NewerThan, Beaten, Under, SameChain, FactScopeInv, FactRow
  <1>5. ASSUME NEW r \in facts, NEW q \in facts, Lagging(r, q), r.id = writer[w].id PROVE A # {}
    <2>1. Stored(w) /\ Row(w) = r
      BY <1>5, RowIs
    <2>2. NewerThan(r) # {}
      <3>1. r.at \in Nat /\ q.at \in Nat /\ q.id \in Nat
        BY DEF FactScopeInv, FactRow
      <3>2. CASE q.by = Live
        BY <1>5, <3>1, <3>2 DEF Lagging, NewerThan, SameChain
      <3>3. CASE q.by # Live
        <4>1. Judged(q) /\ r.sess # Legacy
          BY <1>5, <3>3 DEF Lagging, Judged, Untouched, JudgesFewer, SameChain
        <4>2. Beaten(q, facts)
          BY <3>3, <4>1 DEF BeliefInv, Believed, Settled
        <4>3. PICK m \in facts : Under(q, m) /\ m.by = Live
          BY <3>1, <4>1, <4>2, LiveWitness DEF BeliefInv, Believed
        <4>4. m.at \in Nat /\ m.sess = r.sess /\ SameChain(m, r) /\ m.at > r.at
          BY <1>5, <3>1, <4>1, <4>3 DEF Under, Lagging, SameChain, FactScopeInv, FactRow
        <4> QED
          BY <4>3, <4>4 DEF NewerThan
      <3> QED
        BY <3>2, <3>3
    <2> QED
      BY <2>1, <2>2
  <1> HIDE DEF A
  <1>6. /\ writer'[w].pc = "mark" /\ writer'[w].e = writer[w].e /\ writer'[w].id = writer[w].id
        /\ writer'[w].older = writer[w].older /\ writer'[w].newer = A /\ writer'[w] # Idle
        /\ \A v \in Writers : v # w => writer'[v] = writer[v]
    BY <1>3 DEF Moves, Idle
  <1>7. \A r \in facts : Judged(r) /\ ToMark(writer'[w], r) => Beaten(r, facts)
    BY <1>2, <1>4, <1>6 DEF ToMark, BeliefInv, MarksAreDue
  <1>8. \A r, q \in facts : Lagging(r, q) /\ Waits(writer[w], r.id, q.id) => Waits(writer'[w], r.id, q.id)
    BY <1>2, <1>5, <1>6 DEF Waits
  <1> QED
    BY <1>1, <1>6, <1>7, <1>8, BeliefSelect

(* Rows are marked, by the writer w or by nobody's write. *)
LEMMA BeliefMarked ==
    ASSUME FactScopeInv, FactScopeInv', BeliefInv, NEW S, NEW by \in Nat \ {0}, facts' = Marked(S, by),
           \A r \in S : r \in facts /\ Judged(r)' => Beaten(r, facts),
           kept' = kept \/ kept' = facts', JudgesFewer,
           history'.restarts = history.restarts, history'.pruned = history.pruned,
           history'.gone = history.gone,
           \A v \in Writers : writer'[v] # Idle =>
               /\ writer[v] # Idle /\ writer'[v].id = writer[v].id
               /\ writer'[v].pc = "older" => writer[v].pc = "older"
               /\ \A r \in facts : ToMark(writer'[v], r) => ToMark(writer[v], r),
           \A v \in Writers, r \in facts : \A k :
               r \notin S /\ Waits(writer[v], r.id, k) => Waits(writer'[v], r.id, k)
    PROVE  BeliefInv'
  <1>1. \A d \in facts' : \E r \in facts : SameFact(r, d) /\ d.by = IF r \in S THEN by ELSE r.by
    BY MarkedRows
  <1>2. Persist
    BY <1>1, MarkedRows, PersistAll
  <1>3. Believed'
    <2>1. \A d \in facts' : Judged(d)' /\ d.by # Live => \E r \in facts : SameFact(r, d) /\ Beaten(r, facts)
      <3> SUFFICES ASSUME NEW d \in facts', Judged(d)', d.by # Live
                   PROVE  \E r \in facts : SameFact(r, d) /\ Beaten(r, facts)
        OBVIOUS
      <3>1. PICK r \in facts : SameFact(r, d) /\ d.by = IF r \in S THEN by ELSE r.by
        BY <1>1
      <3>2. Judged(r) /\ Judged(r)'
        BY <1>2, <3>1, JudgedBefore DEF Judged, Untouched, JudgesFewer, SameFact, Chain
      <3> QED
        BY <3>1, <3>2 DEF BeliefInv, Believed, Settled
    <2> QED
      BY <1>2, <2>1, BelievedFrame DEF BeliefInv
  <1>4. ASSUME NEW v \in Writers PROVE MarksAreDue(writer[v])'
    <2> SUFFICES ASSUME writer'[v] # Idle, NEW d \in facts', Judged(d)', ToMark(writer'[v], d)
                 PROVE  Beaten(d, facts')
      BY DEF MarksAreDue
    <2>1. PICK r \in facts : SameFact(r, d)
      BY <1>1
    <2>2. ToMark(writer[v], r) /\ Judged(r) /\ writer[v] # Idle
      BY <1>2, <2>1, JudgedBefore DEF ToMark, SameFact
    <2>3. Beaten(r, facts)
      BY <2>2 DEF BeliefInv, MarksAreDue
    <2> QED
      BY <1>2, <2>1, <2>3 DEF Persist, FactScopeInv, FactRow
  <1>5. ASSUME NEW v \in Writers PROVE LatestOfItsInstant(writer[v])'
    <2>1. PICK j : j = writer[v]
      OBVIOUS
    <2>2. LatestOfItsInstant(j)'
      BY <1>1, <2>1, LatestFrame DEF BeliefInv
    <2> QED
      BY <2>1, <2>2 DEF LatestOfItsInstant
  <1>6. CatchUp'
    <2>1. \A d \in facts' : \E r \in facts : SameFact(r, d) /\ (d.by = Live => r.by = Live)
      BY <1>1 DEF Live
    <2>2. ASSUME NEW d \in facts', NEW b \in facts', NEW v \in Writers, Lagging(d, b)', Waits(writer[v], d.id, b.id)
          PROVE  Waits(writer'[v], d.id, b.id)
      <3>1. PICK r \in facts : SameFact(r, d) /\ d.by = IF r \in S THEN by ELSE r.by
        BY <1>1
      <3>2. r \notin S
        BY <2>2, <3>1 DEF Lagging, Live
      <3> QED
        BY <2>2, <3>1, <3>2 DEF SameFact
    <2> QED
      BY <2>1, <2>2, CatchUpFrame DEF BeliefInv
  <1> QED
    BY <1>3, <1>4, <1>5, <1>6 DEF BeliefInv

LEMMA BeliefMarkOlder ==
    ASSUME FactScopeInv, FactScopeInv', BeliefInv, NEW w \in Writers, MarkOlder(w)
    PROVE  BeliefInv'
  <1> DEFINE S == RowsOf(writer[w].older)
  <1>1. /\ facts' = Marked(S, writer[w].id)
        /\ UNCHANGED <<kept, recalled, sweeps, history>>
    BY DEF MarkOlder
  <1>2. writer[w] # Idle /\ writer[w].pc = "mark"
    BY MarkOlderMoves
  <1>3. writer[w].id \in Nat \ {0}
    <2>1. writer[w].id \in Used
      BY <1>2, WriterFacts DEF Chaining
    <2> QED
      BY <2>1 DEF FactScopeInv, FactNames
  <1>4. \A r \in S : r \in facts /\ r.id \in writer[w].older
    BY DEF RowsOf
  <1>5. \A r \in facts : r.id \in writer[w].older => r \in S
    BY DEF RowsOf
  <1> HIDE DEF S
  <1>6. \A r \in S : r \in facts /\ Judged(r)' => Beaten(r, facts)
    BY <1>1, <1>2, <1>4 DEF BeliefInv, MarksAreDue, ToMark, Judged, Untouched, JudgesFewer
  <1>7. /\ writer'[w].pc = "self" /\ writer'[w].e = writer[w].e /\ writer'[w].id = writer[w].id
        /\ writer'[w].older = writer[w].older /\ writer'[w].newer = writer[w].newer /\ writer'[w] # Idle
        /\ \A v \in Writers : v # w => writer'[v] = writer[v]
    BY MarkOlderMoves DEF Moves, Idle
  <1>8. \A v \in Writers : writer'[v] # Idle =>
               /\ writer[v] # Idle /\ writer'[v].id = writer[v].id
               /\ writer'[v].pc = "older" => writer[v].pc = "older"
               /\ \A r \in facts : ToMark(writer'[v], r) => ToMark(writer[v], r)
    BY <1>2, <1>7 DEF ToMark
  <1>9. \A v \in Writers, r \in facts : \A k :
               r \notin S /\ Waits(writer[v], r.id, k) => Waits(writer'[v], r.id, k)
    BY <1>2, <1>5, <1>7 DEF Waits
  <1> QED
    BY <1>1, <1>3, <1>6, <1>8, <1>9, BeliefMarked DEF JudgesFewer

LEMMA BeliefMarkSelf ==
    ASSUME FactScopeInv, FactScopeInv', BeliefInv, NEW w \in Writers, MarkSelf(w)
    PROVE  BeliefInv'
  <1>1. UNCHANGED <<kept, recalled, sweeps, history>>
    BY DEF MarkSelf
  <1>2. writer[w] # Idle /\ writer[w].pc = "self"
    BY MarkSelfMoves
  <1>3. writer[w].newer \subseteq Nat \ {0}
    <2>1. writer[w].newer \subseteq Used
      BY <1>2, WriterFacts
    <2> QED
      BY <2>1 DEF FactScopeInv, FactNames
  <1>4. /\ writer'[w].pc = "commit" /\ writer'[w].e = writer[w].e /\ writer'[w].id = writer[w].id
        /\ writer'[w].older = writer[w].older /\ writer'[w].newer = writer[w].newer /\ writer'[w] # Idle
        /\ \A v \in Writers : v # w => writer'[v] = writer[v]
    BY MarkSelfMoves DEF Moves, Idle
  <1>5. CASE writer[w].newer = {}
    <2>1. facts' = facts
      BY <1>5 DEF MarkSelf
    <2>2. \A r \in facts : Judged(r) /\ ToMark(writer'[w], r) => Beaten(r, facts)
      BY <1>4 DEF ToMark
    <2>3. \A r, q \in facts : Lagging(r, q) /\ Waits(writer[w], r.id, q.id) => Waits(writer'[w], r.id, q.id)
      BY <1>2, <1>5 DEF Waits
    <2> QED
      BY <1>1, <1>4, <2>1, <2>2, <2>3, BeliefSelect
  <1>6. CASE writer[w].newer # {}
    <2> DEFINE S == RowsOf({writer[w].id})
    <2>1. PICK b \in Nat \ {0} : b = CHOOSE id \in writer[w].newer : TRUE
      BY <1>3, <1>6
    <2>2. facts' = Marked(S, b)
      BY <1>6, <2>1 DEF MarkSelf
    <2>3. \A r \in facts : r \in S <=> r.id = writer[w].id
      BY DEF RowsOf
    <2>4. \A r \in S : r \in facts
      BY DEF RowsOf
    <2> HIDE DEF S
    <2>5. \A r \in S : r \in facts /\ Judged(r)' => Beaten(r, facts)
      BY <1>1, <1>2, <1>6, <2>3 DEF BeliefInv, MarksAreDue, ToMark, Judged, Untouched, JudgesFewer
    <2>6. \A v \in Writers : writer'[v] # Idle =>
               /\ writer[v] # Idle /\ writer'[v].id = writer[v].id
               /\ writer'[v].pc = "older" => writer[v].pc = "older"
               /\ \A r \in facts : ToMark(writer'[v], r) => ToMark(writer[v], r)
      BY <1>2, <1>4 DEF ToMark
    <2>7. \A v \in Writers, r \in facts : \A k :
               r \notin S /\ Waits(writer[v], r.id, k) => Waits(writer'[v], r.id, k)
      BY <1>2, <1>4, <2>3 DEF Waits
    <2> QED
      BY <1>1, <2>1, <2>2, <2>5, <2>6, <2>7, BeliefMarked DEF JudgesFewer
  <1> QED
    BY <1>5, <1>6

LEMMA BeliefRetract ==
    ASSUME FactScopeInv, FactScopeInv', BeliefInv, NEW r \in facts, NEW q \in facts, NEW c, Retract(r.id, q.id, c)
    PROVE  BeliefInv'
  <1>1. PICK S : /\ facts' = Marked(S, q.id)
                 /\ history' = [history EXCEPT !.touched = @ \cup {Chain(x) : x \in S}]
    BY DEF Retract
  <1>2. kept' = facts' /\ writer' = writer /\ recalled' = recalled
    BY DEF Retract, Sweep
  <1>3. q.id \in Nat \ {0}
    <2>1. q.id \in Used
      BY DEF Used, FactIds
    <2> QED
      BY <2>1 DEF FactScopeInv, FactNames
  <1>4. /\ history'.due = history.due /\ history'.restarts = history.restarts
        /\ history'.pruned = history.pruned /\ history'.gone = history.gone
        /\ history'.touched = history.touched \cup {Chain(x) : x \in S} /\ history'.raced = history.raced
    BY <1>1 DEF FactScopeInv, FactTypes
  <1>5. \A x \in S : x \in facts /\ Judged(x)' => Beaten(x, facts)
    BY <1>4 DEF Judged, Untouched, JudgesFewer
  <1> QED
    BY <1>1, <1>2, <1>3, <1>4, <1>5, BeliefMarked DEF JudgesFewer

LEMMA BeliefVersions ==
    ASSUME FactScopeInv, FactScopeInv', BeliefInv, Persist, writer' = writer,
           \A d \in facts' : \E r \in facts : SameFact(r, d) /\ d.by = r.by,
           kept' = kept \/ kept' = facts', history'.restarts = history.restarts,
           \A r \in history'.pruned : \/ r \in history.pruned
                                      \/ /\ r.at \in Nat /\ r.id \in Nat /\ r.id \in history'.gone
                                         /\ \A q \in facts' \cup kept' : q.id # r.id
                                         /\ Judged(r)' => Beaten(r, facts') /\ Beaten(r, kept')
    PROVE  BeliefInv'
  <1>1. Believed'
    <2>1. \A d \in facts' : Judged(d)' /\ d.by # Live => \E r \in facts : SameFact(r, d) /\ Beaten(r, facts)
      BY JudgedBefore DEF BeliefInv, Believed, Settled
    <2> QED
      BY <2>1, BelievedFrame DEF BeliefInv
  <1>2. ASSUME NEW v \in Writers PROVE MarksAreDue(writer[v])' /\ LatestOfItsInstant(writer[v])'
    <2>1. PICK j : j = writer[v]
      OBVIOUS
    <2>2. WriterOK(j) /\ MarksAreDue(j) /\ LatestOfItsInstant(j)
      BY <2>1 DEF FactScopeInv, FactTypes, BeliefInv
    <2>3. MarksAreDue(j)' /\ LatestOfItsInstant(j)'
      BY <2>2, MarksFrame, LatestFrame DEF Persist
    <2> QED
      BY <2>1, <2>3 DEF MarksAreDue, LatestOfItsInstant
  <1>3. CatchUp'
    BY CatchUpFrame DEF BeliefInv, Persist
  <1> QED
    BY <1>1, <1>2, <1>3 DEF BeliefInv

LEMMA BeliefRead ==
    ASSUME FactScopeInv, FactScopeInv', BeliefInv, facts' = facts, kept' = kept, writer' = writer, history' = history
    PROVE  BeliefInv'
  BY SameRows, BeliefVersions DEF JudgesFewer

LEMMA BeliefMarkRecalled ==
    ASSUME FactScopeInv, FactScopeInv', BeliefInv, NEW c \in Readers, MarkRecalled(c)
    PROVE  BeliefInv'
  <1> DEFINE F(r) == IF r.id \in recalled[c].ids 
                         THEN [r EXCEPT !.readers = @ \cup {[by |-> c, asked |-> recalled[c].asked]}] ELSE r
  <1>1. /\ facts' = {F(r) : r \in facts} /\ kept' = facts' /\ writer' = writer /\ history' = history
    BY DEF MarkRecalled
  <1>2. \A r \in facts : SameFact(r, F(r)) /\ F(r).by = r.by
    BY DEF FactScopeInv, FactRow, SameFact
  <1>3. \A d \in facts' : \E r \in facts : d = F(r)
    BY <1>1
  <1>4. \A r \in facts : F(r) \in facts'
    BY <1>1
  <1> HIDE DEF F
  <1>5. \A d \in facts' : \E r \in facts : SameFact(r, d) /\ d.by = r.by
    BY <1>2, <1>3
  <1>6. \A r \in facts : \E d \in facts' : SameFact(r, d)
    BY <1>2, <1>4
  <1>7. Persist
    BY <1>1, <1>5, <1>6, PersistAll DEF JudgesFewer
  <1> QED
    BY <1>1, <1>5, <1>7, BeliefVersions

(* Only superseded rows are pruned, and what beats them stays. *)
LEMMA BeliefPrune ==
    ASSUME FactScopeInv, FactScopeInv', BeliefInv, NEW before, Prune(before)
    PROVE  BeliefInv'
  <1> DEFINE P == {r \in facts : Prunable(r, before)}
  <1>1. facts' = facts \ P /\ kept' = facts' /\ writer' = writer
    BY DEF Prune, Sweep
  <1>2. /\ history'.raced = history.raced /\ history'.restarts = history.restarts /\ history'.touched = history.touched
        /\ history'.gone = history.gone \cup FactIds(facts \ facts')
        /\ history'.pruned = history.pruned \cup {[r EXCEPT !.readers = {}] : r \in facts \ facts'}
    BY DEF Prune, FactScopeInv, FactTypes, FactIds
  <1>3. \A r \in P : r \in facts /\ r.by # Live
    BY DEF Prunable
  <1> HIDE DEF P
  <1>4. \A d \in facts' : d \in facts /\ SameFact(d, d)
    BY <1>1 DEF SameFact
  <1>5. ASSUME NEW r, NEW d, SameFact(r, d), r.at \in Nat, r.id \in Nat, Judged(d)', Beaten(r, facts)
        PROVE  Beaten(d, facts')
    <2>1. Judged(r)
      BY <1>2, <1>5 DEF Judged, Untouched, JudgesFewer, SameFact, Chain
    <2>2. PICK m \in facts : Under(r, m) /\ m.by = Live
      BY <1>5, <2>1, LiveWitness DEF BeliefInv, Believed
    <2>3. m \in facts' /\ SameFact(m, m)
      BY <1>1, <1>3, <2>2 DEF SameFact
    <2> QED
      BY <1>5, <2>2, <2>3, UnderVersions DEF Beaten
  <1>6. Persist
    BY <1>2, <1>4, <1>5 DEF Persist, JudgesFewer
  <1>7. ASSUME NEW x \in history'.pruned, x \notin history.pruned
        PROVE  /\ x.at \in Nat /\ x.id \in Nat /\ x.id \in history'.gone /\ \A q \in facts' : q.id # x.id
               /\ Judged(x)' => Beaten(x, facts')
    <2>1. PICK r \in facts \ facts' : x = [r EXCEPT !.readers = {}]
      BY <1>2, <1>7
    <2>2. r \in P /\ FactRow(r) /\ r.by # Live /\ r \in facts
      BY <1>1, <1>3, <2>1 DEF FactScopeInv
    <2>3. SameFact(r, x)
      BY <2>1, <2>2 DEF FactRow, SameFact
    <2>4. Judged(x)' => Beaten(r, facts)
      BY <1>6, <2>2, <2>3, JudgedBefore DEF BeliefInv, Believed, Settled
    <2>5. x.id \in history'.gone /\ \A q \in facts' : q.id # x.id
      <3>1. x.id = r.id /\ r.id \in FactIds(facts \ facts')
        BY <2>1, <2>3 DEF SameFact, FactIds
      <3>2. \A q \in facts' : q.id # r.id
        BY <1>4, <2>1 DEF FactScopeInv, FactNames
      <3> QED
        BY <1>2, <3>1, <3>2
    <2> QED
      BY <1>6, <2>2, <2>3, <2>4, <2>5 DEF Persist, SameFact, FactRow
  <1> QED
    BY <1>1, <1>2, <1>4, <1>6, <1>7, BeliefVersions

LEMMA BeliefDelete ==
    ASSUME FactScopeInv, FactScopeInv', BeliefInv, NEW subject, NEW c, DeleteBySubject(subject, c)
    PROVE  BeliefInv'
  <1> DEFINE S == Erased(subject, ActivePrincipal(c, Snapshot))
  <1>1. facts' = facts \ S /\ kept' = facts' /\ writer' = writer
    BY DEF DeleteBySubject, Sweep
  <1>2. /\ history'.raced = history.raced /\ history'.restarts = history.restarts
        /\ history'.pruned = history.pruned /\ history'.touched = history.touched \cup {Chain(r) : r \in S}
        /\ history.gone \subseteq history'.gone
    BY DEF DeleteBySubject, FactScopeInv, FactTypes
  <1> HIDE DEF S
  <1>3. \A d \in facts' : d \in facts /\ SameFact(d, d)
    BY <1>1 DEF SameFact
  <1>4. ASSUME NEW r, NEW d, SameFact(r, d), Judged(d)', Beaten(r, facts)
        PROVE  Beaten(d, facts')
    <2>1. PICK q \in facts : Under(r, q)
      BY <1>4 DEF Beaten
    <2>2. Chain(q) = Chain(d)
      BY <1>4, <2>1 DEF Under, SameChain, SameFact, Chain
    <2>3. q \notin S
      BY <1>2, <1>4, <2>2 DEF Judged, Untouched, JudgesFewer
    <2>4. q \in facts' /\ SameFact(q, q)
      BY <1>1, <2>3 DEF SameFact
    <2> QED
      BY <1>4, <2>1, <2>4, UnderVersions DEF Beaten
  <1>5. Persist
    BY <1>2, <1>3, <1>4 DEF Persist, JudgesFewer
  <1> QED
    BY <1>1, <1>2, <1>3, <1>5, BeliefVersions

LEMMA BeliefRestart ==
    ASSUME FactScopeInv, FactScopeInv', BeliefInv, Restart
    PROVE  BeliefInv'
  <1>1. /\ facts' = kept /\ kept' = kept /\ writer' = [w \in Writers |-> Idle]
    BY DEF Restart
  <1>2. /\ history'.raced = history.raced /\ history'.restarts = history.restarts + 1
        /\ history'.pruned = history.pruned /\ history'.touched = history.touched /\ history.gone \subseteq history'.gone
    BY DEF Restart, FactScopeInv, FactTypes
  <1>3. Believed'
    BY <1>1, <1>2 DEF BeliefInv, Believed, Settled, Beaten, Judged, Untouched, JudgesFewer
  <1>4. \A w \in Writers : MarksAreDue(writer[w])' /\ LatestOfItsInstant(writer[w])'
    BY <1>1 DEF MarksAreDue, LatestOfItsInstant
  <1>5. CatchUp'
    BY <1>2 DEF CatchUp, FactScopeInv, FactTypes
  <1> QED
    BY <1>3, <1>4, <1>5 DEF BeliefInv

LEMMA BeliefInsert ==
    ASSUME FactScopeInv, FactScopeInv', BeliefInv, NEW w \in Writers, InsertFact(w)
    PROVE  BeliefInv'
  <1> DEFINE n == NewFact(NextId, writer[w].e, Next1(w))
  <1>1. /\ facts' = facts \cup {n} /\ UNCHANGED <<kept, recalled, sweeps>>
        /\ history'.touched = history.touched /\ history'.restarts = history.restarts
        /\ history'.gone = history.gone /\ history'.pruned = history.pruned
        /\ history'.raced = IF Races(w, n) THEN history.raced \cup {Chain(n)} ELSE history.raced
    BY DEF InsertFact, FactScopeInv, FactTypes
  <1>2. /\ n.id = NextId /\ n.by = Live /\ n.at = writer[w].e.at /\ n.world = World(writer[w].e)
        /\ n.sess = NormalSession(writer[w].e.sess)
    BY DEF NewFact
  <1> HIDE DEF n
  <1>3. \A r \in facts : r.id # n.id /\ r.id \in Used /\ r.id <= n.id /\ SameFact(r, r)
    BY <1>2, NextIdIsNew DEF Used, FactIds, SameFact
  <1>4. Persist
    <2>1. \A d \in facts' : d.id \in Used => \E r \in facts : SameFact(r, d)
      BY <1>1, <1>2, <1>3, NextIdIsNew
    <2> QED
      BY <1>1, <1>3, <2>1, PersistAll DEF JudgesFewer
  <1>5. /\ writer[w] # Idle /\ writer[w].pc = "insert"
        /\ writer'[w].pc = "older" /\ writer'[w].e = writer[w].e /\ writer'[w].id = NextId /\ writer'[w] # Idle
        /\ \A v \in Writers : v # w => writer'[v] = writer[v]
    BY InsertFactMoves DEF Moves, Idle
  <1>6. Believed'
    <2>1. \A d \in facts' : Judged(d)' /\ d.by # Live => \E r \in facts : SameFact(r, d) /\ Beaten(r, facts)
      BY <1>1, <1>2, <1>3, <1>4, JudgedBefore DEF BeliefInv, Believed, Settled
    <2> QED
      BY <1>1, <1>4, <2>1, BelievedFrame DEF BeliefInv
  <1>7. ASSUME NEW v \in Writers PROVE MarksAreDue(writer[v])'
    <2>1. CASE v = w
      BY <1>5, <2>1 DEF MarksAreDue, ToMark
    <2>2. CASE v # w
      <3>1. PICK j : j = writer[v]
        OBVIOUS
      <3>2. WriterOK(j) /\ MarksAreDue(j)
        BY <3>1 DEF FactScopeInv, FactTypes, BeliefInv
      <3>3. MarksAreDue(j)'
        BY <1>4, <3>2, MarksFrame
      <3> QED
        BY <1>5, <2>2, <3>1, <3>3 DEF MarksAreDue
    <2> QED
      BY <2>1, <2>2
  <1>8. ASSUME NEW v \in Writers PROVE LatestOfItsInstant(writer[v])'
    <2> SUFFICES ASSUME writer'[v] # Idle, writer'[v].pc = "older", NEW r \in facts', NEW m \in facts',
                        m.id = writer'[v].id, Judged(m)', Rival(r, m)
                 PROVE  r.id <= m.id
      BY DEF LatestOfItsInstant
    <2>1. CASE v = w
      BY <1>1, <1>2, <1>3, <1>5, <2>1, NextIdIsNew
    <2>2. CASE v # w
      <3>1. writer[v] # Idle /\ writer[v].pc = "older" /\ m.id = writer[v].id
        BY <1>5, <2>2
      <3>2. m \in facts
        <4>1. writer[v].id \in Used
          BY <3>1, WriterFacts DEF Chaining
        <4> QED
          BY <1>1, <1>2, <3>1, <4>1, NextIdIsNew
      <3>3. CASE r \in facts
        <4>1. Judged(m)
          BY <1>1 DEF Judged, Untouched
        <4> QED
          BY <3>1, <3>2, <3>3, <4>1 DEF BeliefInv, LatestOfItsInstant
      <3>4. CASE r = n
        <4>1. m \in RowsOf({writer[v].id}) /\ Rival(m, n)
          BY <3>1, <3>2, <3>4 DEF RowsOf, Rival, SameChain
        <4>2. Races(w, n)
          BY <2>2, <3>1, <4>1 DEF Races, At
        <4> QED
          BY <1>1, <4>1, <4>2 DEF Judged, Rival, SameChain
      <3> QED
        BY <1>1, <3>3, <3>4
    <2> QED
      BY <2>1, <2>2
  <1>9. CatchUp'
    <2> SUFFICES ASSUME history'.restarts = 0, NEW d \in facts', NEW b \in facts', Lagging(d, b)'
                 PROVE  \E v \in Writers : Waits(writer'[v], d.id, b.id)
      BY DEF CatchUp
    <2>1. CASE d = n \/ b = n
      BY <1>2, <1>5, <2>1 DEF Waits
    <2>2. CASE d \in facts /\ b \in facts
      <3>1. Lagging(d, b)
        BY <1>1 DEF Lagging, Judged, Untouched, JudgesFewer
      <3>2. PICK v \in Writers : Waits(writer[v], d.id, b.id)
        BY <1>1, <2>2, <3>1 DEF BeliefInv, CatchUp
      <3> QED
        BY <1>5, <3>2 DEF Waits
    <2> QED
      BY <1>1, <2>1, <2>2
  <1> QED
    BY <1>6, <1>7, <1>8, <1>9 DEF BeliefInv

LEMMA InitBeliefs == FactInit => BeliefInv
  <1> SUFFICES ASSUME FactInit PROVE BeliefInv
    OBVIOUS
  <1> PICK A \in Agendas : history = [due |-> A, gone |-> {}, touched |-> {}, raced |-> {}, pruned |-> {}, restarts |-> 0]
    BY DEF FactInit
  <1>1. Believed /\ CatchUp
    BY DEF FactInit, Believed, Settled, CatchUp
  <1> QED
    BY <1>1 DEF FactInit, BeliefInv, MarksAreDue, LatestOfItsInstant

LEMMA BeliefSteps ==
    FactScopeInv /\ FactScopeInv' /\ BeliefInv /\ [FactNext]_factVars => BeliefInv'
  <1> SUFFICES ASSUME FactScopeInv, FactScopeInv', BeliefInv, [FactNext]_factVars PROVE BeliefInv'
    OBVIOUS
  <1>1. CASE UNCHANGED factVars
    BY <1>1, BeliefRead DEF factVars
  <1>2. ASSUME NEW w \in Writers, WriterStep(w) PROVE BeliefInv'
    BY <1>2, BeliefLook, BeliefInsert, BeliefSelectOlder, BeliefSelectNewer, BeliefMarkOlder, BeliefMarkSelf
    DEF WriterStep
  <1>3. ASSUME NEW c \in Readers, ReaderStep(c) PROVE BeliefInv'
    <2>1. CASE MarkRecalled(c)
      BY <2>1, BeliefMarkRecalled
    <2>2. CASE \E s \in Subjects, asked \in {Here, SessionsAll} : RecallFacts(c, asked, s)
      BY <2>2, BeliefRead DEF RecallFacts
    <2> QED
      BY <1>3, <2>1, <2>2 DEF ReaderStep
  <1>4. ASSUME Maintain PROVE BeliefInv'
    BY <1>4, BeliefPrune, BeliefDelete, BeliefRetract, BeliefRestart DEF Maintain
  <1> QED
    BY <1>1, <1>2, <1>3, <1>4 DEF FactNext

LEMMA BeliefsFollow == FactScopeInv /\ BeliefInv => BeliefsAreCurrent
  <1> SUFFICES ASSUME FactScopeInv, BeliefInv PROVE BeliefsAreCurrent
    OBVIOUS
  <1>1. \A r \in facts : r.at \in Nat /\ r.id \in Nat
    BY DEF FactScopeInv, FactRow
  <1>2. SupersedersSurvive
    <2> SUFFICES ASSUME NEW r \in facts \cup history.pruned, Judged(r), r.by # Live \/ r \in history.pruned
                 PROVE  \E q \in facts : q.id # r.id /\ SameChain(q, r) /\ q.at >= r.at
      BY DEF SupersedersSurvive
    <2>1. Beaten(r, facts) /\ r.at \in Nat /\ r.id \in Nat
      BY <1>1 DEF BeliefInv, Believed, Settled
    <2>2. PICK m \in facts : Under(r, m) /\ m.by = Live
      BY <2>1, LiveWitness DEF BeliefInv, Believed
    <2>3. m.at \in Nat /\ m.id \in Nat /\ SameChain(m, r) /\ m.at >= r.at
      BY <1>1, <2>1, <2>2 DEF Under, SameChain
    <2>4. m.id # r.id
      <3>1. CASE r \in facts
        BY <2>2, <2>1, <3>1 DEF Under, FactScopeInv, FactNames
      <3>2. CASE r \in history.pruned
        BY <2>2, <3>2 DEF BeliefInv, Believed
      <3> QED
        BY <3>1, <3>2
    <2> QED
      BY <2>3, <2>4
  <1>3. LatestAssertionWins
    <2> SUFFICES ASSUME NEW r \in facts, Judged(r)
                 PROVE  /\ r.sess # Legacy /\ (\A q \in Group(r) : q.at <= r.at) =>
                               \E q \in Group(r) : q.at = r.at /\ q.by = Live
                        /\ Quiet /\ history.restarts = 0 /\ r.by = Live =>
                               \A q \in Group(r) : r.sess # Legacy \/ q.by = Live => q.at <= r.at
      BY DEF LatestAssertionWins
    <2>1. ASSUME r.sess # Legacy, \A q \in Group(r) : q.at <= r.at
          PROVE  \E q \in Group(r) : q.at = r.at /\ q.by = Live
      <3>1. CASE r.by = Live
        BY <3>1 DEF Group, SameChain
      <3>2. CASE r.by # Live
        <4>1. PICK m \in facts : Under(r, m) /\ m.by = Live
          BY <1>1, <3>2, LiveWitness DEF BeliefInv, Believed, Settled
        <4>2. m \in Group(r)
          BY <2>1, <4>1 DEF Under, Group, SameChain
        <4>3. m.at = r.at
          BY <1>1, <2>1, <4>1, <4>2 DEF Under
        <4> QED
          BY <4>1, <4>2, <4>3
      <3> QED
        BY <3>1, <3>2
    <2>2. ASSUME Quiet, history.restarts = 0, r.by = Live, NEW q \in Group(r), r.sess # Legacy \/ q.by = Live
          PROVE  q.at <= r.at
      <3> SUFFICES ASSUME ~(q.at <= r.at) PROVE FALSE
        OBVIOUS
      <3>1. q \in facts /\ SameChain(q, r) /\ q.sess = r.sess
        BY DEF Group
      <3>2. Lagging(r, q)
        BY <1>1, <2>2, <3>1 DEF Lagging
      <3>3. PICK w \in Writers : Waits(writer[w], r.id, q.id)
        BY <2>2, <3>1, <3>2 DEF BeliefInv, CatchUp
      <3> QED
        BY <2>2, <3>3 DEF Quiet, Waits
    <2> QED
      BY <2>1, <2>2
  <1> QED
    BY <1>2, <1>3 DEF BeliefsAreCurrent

(* Whatever order the statements of concurrent extractions, sweeps,        *)
(* retractions and restarts run in, in a chain no operator touched and no  *)
(* two extractions of one instant raced in: a row goes only for one        *)
(* asserted no earlier, the newest assertion of a room's chain is live,    *)
(* and between extractions nothing older is.                               *)
THEOREM BeliefsStayCurrent == FactSpec => []BeliefsAreCurrent
  <1>1. FactInit => FactScopeInv /\ BeliefInv
    BY InitScope, InitBeliefs
  <1>2. FactScopeInv /\ BeliefInv /\ [FactNext]_factVars => (FactScopeInv /\ BeliefInv)'
    BY ScopeSteps, BeliefSteps
  <1> QED
    BY <1>1, <1>2, BeliefsFollow, PTL DEF FactSpec

(* Of a strict order on a finite set at most k elements have fewer than k  *)
(* above them.                                                             *)
LEMMA RankBound ==
    ASSUME NEW S, IsFiniteSet(S), NEW R, NEW k \in Nat, NEW T \in SUBSET S,
           \A x, y, z \in S : <<x, y>> \in R /\ <<y, z>> \in R => <<x, z>> \in R,
           \A x \in S : <<x, x>> \notin R,
           \A x, y \in S : x # y => <<x, y>> \in R \/ <<y, x>> \in R,
           \A n \in T : Cardinality({m \in S : <<n, m>> \in R}) < k
    PROVE  IsFiniteSet(T) /\ Cardinality(T) <= k
  <1> DEFINE U(n) == {m \in S : <<n, m>> \in R}
             f == [n \in T |-> Cardinality(U(n))]
  <1>1. \A n \in S : U(n) \in SUBSET S /\ IsFiniteSet(U(n)) /\ Cardinality(U(n)) \in Nat
    BY FS_Subset, FS_CardinalityType
  <1>2. ASSUME NEW a \in S, NEW b \in S, <<a, b>> \in R PROVE Cardinality(U(b)) # Cardinality(U(a))
    <2>1. U(b) \in SUBSET U(a) /\ b \in U(a) /\ b \notin U(b)
      BY <1>2
    <2>2. IsFiniteSet(U(a))
      BY <1>1
    <2> HIDE DEF U
    <2> QED
      BY <2>1, <2>2, FS_Subset
  <1>3. f \in [T -> 0..(k-1)]
    <2>1. \A n \in T : Cardinality(U(n)) < k
      OBVIOUS
    <2> HIDE DEF U
    <2> QED
      BY <1>1, <2>1
  <1>4. \A a, b \in T : f[a] = f[b] => a = b
    <2>1. \A a \in T : a \in S /\ f[a] = Cardinality(U(a))
      OBVIOUS
    <2> HIDE DEF f, U
    <2> QED
      BY <1>2, <2>1
  <1>5. f \in Injection(T, 0..(k-1))
    <2> HIDE DEF f
    <2> QED
      BY <1>3, <1>4 DEF Injection, IsInjective
  <1>6. IsFiniteSet(0..(k-1)) /\ Cardinality(0..(k-1)) = k
    BY FS_Interval
  <1> QED
    <2> HIDE DEF f
    <2> QED
      BY <1>5, <1>6, FS_Injection

(***************************************************************************)
(* Records: the shape of the state.                                        *)
(***************************************************************************)
AllCalls == UNION Calls
Classes == {"public", "internal", "restricted", "secret"}
TaskOK(j) == j = Free \/ (DOMAIN j = {"pc", "call", "seen"} /\ j.call \in AllCalls)
RecordTypes ==
    /\ DOMAIN ledger = {"due", "told", "shown", "learnt", "gone", "crashes"}
    /\ ledger.due \subseteq AllCalls /\ ledger.crashes \in Nat
    /\ DOMAIN locks = {"turn", "identity"}
    /\ DOMAIN saved = {"notes", "pledges", "pairs", "talks"}
    /\ DOMAIN task = Tasks
    /\ \A t \in Tasks : TaskOK(task[t])

LEMMA CallFacts ==
    ASSUME NEW c \in AllCalls
    PROVE  /\ c.scope.session # Unset /\ NormalSession(c.scope.session) = c.scope.session
           /\ Stamp(c.acting) \in Classes
           /\ c.op = "close" => c.state \in {"fulfilled", "cancelled"}
  BY RecordAssumption DEF AllCalls, Stamp, Classes, Or, NormalSession

LEMMA Ranks == \A l \in Classes : Rank(l) \in 1..4
  <1>1. /\ DOMAIN Levels = 1..4 /\ Levels[1] = "public" /\ Levels[2] = "internal"
        /\ Levels[3] = "restricted" /\ Levels[4] = "secret"
    BY DEF Levels
  <1>2. Rank("public") = 1
    BY <1>1 DEF Rank
  <1>3. Rank("internal") = 2
    BY <1>1 DEF Rank
  <1>4. Rank("restricted") = 3
    BY <1>1 DEF Rank
  <1>5. Rank("secret") = 4
    BY <1>1 DEF Rank
  <1> QED
    BY <1>2, <1>3, <1>4, <1>5 DEF Classes

(* A step takes a task to here. *)
Turns(t, pc, call, seen) ==
    /\ DOMAIN task' = Tasks
    /\ \A u \in Tasks : u # t => task'[u] = task[u]
    /\ task'[t] # Free /\ DOMAIN task'[t] = {"pc", "call", "seen"}
    /\ task'[t].pc = pc /\ task'[t].call = call /\ task'[t].seen = seen
Ends(t) == /\ DOMAIN task' = Tasks /\ task'[t] = Free
           /\ \A u \in Tasks : u # t => task'[u] = task[u]

LEMMA TaskFacts ==
    ASSUME RecordTypes, NEW t \in Tasks
    PROVE  /\ task[t] # Free => DOMAIN task[t] = {"pc", "call", "seen"} /\ C(t) \in AllCalls
           /\ Return(t) => Ends(t)
           /\ task[t] # Free => \A pc : pc # "free" /\ Goto(t, pc) => Turns(t, pc, C(t), task[t].seen)
  BY DEF RecordTypes, TaskOK, C, Return, Ends, Goto, Turns, Free

LEMMA RecordTypesKept ==
    ASSUME RecordTypes, NEW t \in Tasks,
           Ends(t) \/ \E pc, c, seen : c \in AllCalls /\ Turns(t, pc, c, seen),
           DOMAIN ledger' = DOMAIN ledger, ledger'.due \subseteq ledger.due, ledger'.crashes = ledger.crashes,
           DOMAIN locks' = DOMAIN locks, DOMAIN saved' = DOMAIN saved
    PROVE  RecordTypes'
  <1>1. DOMAIN task' = Tasks /\ \A u \in Tasks : TaskOK(task[u])'
    BY DEF Ends, Turns, RecordTypes, TaskOK
  <1> QED
    BY <1>1 DEF RecordTypes

LEMMA InitRecordTypes == RecordInit => RecordTypes
  <1> SUFFICES ASSUME RecordInit PROVE RecordTypes
    OBVIOUS
  <1> PICK S \in Calls : ledger = [due |-> S, told |-> {}, shown |-> {}, learnt |-> {}, gone |-> {}, crashes |-> 0]
    BY DEF RecordInit
  <1> QED
    BY DEF RecordInit, RecordTypes, TaskOK, Tables, AllCalls

(* The way of each action's task. *)
LEMMA NoteMoves ==
    ASSUME RecordTypes, NEW t \in Tasks
    PROVE  /\ PruneNotes(t) => Turns(t, "insert", C(t), task[t].seen)
           /\ InsertNote(t) \/ UpdateNote(t) \/ DeleteNote(t) \/ CountRecall(t) => Ends(t)
           /\ RecallNotes(t) => Turns(t, "reinforce", C(t), {n.id : n \in
                  {m \in notes : Reachable(m, C(t)) /\ m.level \in Injectable(C(t).acting)}})
  <1>1. PruneNotes(t) => Turns(t, "insert", C(t), task[t].seen)
    BY TaskFacts DEF PruneNotes, Doing
  <1>2. InsertNote(t) \/ UpdateNote(t) \/ DeleteNote(t) \/ CountRecall(t) => Ends(t)
    BY TaskFacts DEF InsertNote, UpdateNote, DeleteNote, CountRecall
  <1>3. ASSUME RecallNotes(t)
        PROVE  Turns(t, "reinforce", C(t), {n.id : n \in
                  {m \in notes : Reachable(m, C(t)) /\ m.level \in Injectable(C(t).acting)}})
    <2> DEFINE A == {n.id : n \in {m \in notes : Reachable(m, C(t)) /\ m.level \in Injectable(C(t).acting)}}
    <2>1. task[t] # Free /\ task' = [task EXCEPT ![t].pc = "reinforce", ![t].seen = A]
      BY <1>3 DEF RecallNotes, Doing
    <2>2. DOMAIN task = Tasks /\ DOMAIN task[t] = {"pc", "call", "seen"}
      BY <2>1, TaskFacts DEF RecordTypes
    <2> HIDE DEF A
    <2>3. Turns(t, "reinforce", C(t), A)
      BY <2>1, <2>2 DEF Turns, Free, C
    <2> QED
      BY <2>3 DEF A
  <1> QED
    BY <1>1, <1>2, <1>3

LEMMA PledgeMoves ==
    ASSUME RecordTypes, NEW t \in Tasks
    PROVE  /\ Create(t) \/ CloseAnswer(t) \/ ListOpen(t) \/ SummaryCount(t) \/ UpdateTrust(t) \/ ApplyDecay(t)
                \/ RecordPair(t) \/ WriteIdentity(t) => Ends(t)
           /\ CloseUpdate(t) => Turns(t, "answer", C(t), {p.id : p \in {p \in pledges : Closable(p, C(t))}})
           /\ RecordTalk(t) => Turns(t, "pair", C(t), task[t].seen)
           /\ SummaryRow(t) => IF HasPair(C(t).peer) THEN Turns(t, "count", C(t), {PairOf(C(t).peer).trust}) ELSE Ends(t)
           /\ ReadIdentity(t) => Turns(t, "write", C(t), IF HasPair(C(t).about) THEN PairOf(C(t).about).fields ELSE {})
           /\ WriteIdentityRaises(t) => IF C(t).op = "store_note" THEN Turns(t, "note", C(t), task[t].seen) ELSE Ends(t)
  <1>1. Create(t) \/ CloseAnswer(t) \/ ListOpen(t) \/ SummaryCount(t) \/ UpdateTrust(t) \/ ApplyDecay(t)
                \/ RecordPair(t) \/ WriteIdentity(t) => Ends(t)
    BY TaskFacts DEF Create, CloseAnswer, ListOpen, SummaryCount, UpdateTrust, ApplyDecay, RecordPair, WriteIdentity
  <1>2. ASSUME NEW pc, pc # "free", NEW A, task[t] # Free, task' = [task EXCEPT ![t].pc = pc, ![t].seen = A]
        PROVE  Turns(t, pc, C(t), A)
    <2>2. DOMAIN task = Tasks /\ DOMAIN task[t] = {"pc", "call", "seen"}
      BY <1>2, TaskFacts DEF RecordTypes
    <2> QED
      BY <1>2, <2>2 DEF Turns, Free, C
  <1>3. CloseUpdate(t) => Turns(t, "answer", C(t), {p.id : p \in {p \in pledges : Closable(p, C(t))}})
    BY <1>2 DEF CloseUpdate, Doing
  <1>4. RecordTalk(t) => Turns(t, "pair", C(t), task[t].seen)
    BY TaskFacts DEF RecordTalk, Doing
  <1>5. SummaryRow(t) => IF HasPair(C(t).peer) THEN Turns(t, "count", C(t), {PairOf(C(t).peer).trust}) ELSE Ends(t)
    BY <1>2, TaskFacts DEF SummaryRow, Doing
  <1>6. ReadIdentity(t) => Turns(t, "write", C(t), IF HasPair(C(t).about) THEN PairOf(C(t).about).fields ELSE {})
    BY <1>2 DEF ReadIdentity, WritesIdentity, Doing
  <1>7. WriteIdentityRaises(t) => IF C(t).op = "store_note" THEN Turns(t, "note", C(t), task[t].seen) ELSE Ends(t)
    BY TaskFacts DEF WriteIdentityRaises
  <1> QED
    BY <1>1, <1>3, <1>4, <1>5, <1>6, <1>7

LEMMA CallMoves ==
    ASSUME RecordTypes, NEW t \in Tasks, NEW c \in ledger.due, Call(t, c)
    PROVE  c \in AllCalls /\ Turns(t, "start", c, {})
  BY DEF RecordTypes, Call, Turns, Free

LEMMA RecordTypeSteps == RecordTypes /\ [RecordNext]_recordVars => RecordTypes'
  <1> SUFFICES ASSUME RecordTypes, [RecordNext]_recordVars PROVE RecordTypes'
    OBVIOUS
  <1>1. CASE UNCHANGED recordVars
    BY <1>1 DEF recordVars, RecordTypes, TaskOK
  <1>2. CASE RecordCrash
    <2>1. task' = [t \in Tasks |-> Free] /\ locks' = [turn |-> {}, identity |-> {}] /\ saved' = saved
      BY <1>2 DEF RecordCrash
    <2>2. DOMAIN ledger' = DOMAIN ledger /\ ledger'.due = ledger.due /\ ledger'.crashes = ledger.crashes + 1
      BY <1>2 DEF RecordCrash, RecordTypes
    <2> QED
      BY <2>1, <2>2 DEF RecordTypes, TaskOK
  <1>3. CASE \E p \in pledges : FallsDue(p)
    BY <1>3 DEF FallsDue, RecordTypes, TaskOK, Commit
  <1>4. ASSUME NEW t \in Tasks, TaskStep(t) PROVE RecordTypes'
    <2>1. Ends(t) \/ \E pc, c, seen : c \in AllCalls /\ Turns(t, pc, c, seen)
      <3>1. ASSUME NEW c \in ledger.due, Call(t, c) PROVE \E pc, d, seen : d \in AllCalls /\ Turns(t, pc, d, seen)
        BY <3>1, CallMoves
      <3>2. ASSUME PruneNotes(t) \/ InsertNote(t) \/ UpdateNote(t) \/ DeleteNote(t) \/ RecallNotes(t) \/ CountRecall(t)
            PROVE  Ends(t) \/ \E pc, c, seen : c \in AllCalls /\ Turns(t, pc, c, seen)
        <4>1. task[t] # Free
          BY <3>2 DEF PruneNotes, InsertNote, UpdateNote, DeleteNote, RecallNotes, CountRecall, Doing
        <4> QED
          BY <3>2, <4>1, NoteMoves, TaskFacts
      <3>3. ASSUME \/ Create(t) \/ CloseUpdate(t) \/ CloseAnswer(t) \/ ListOpen(t) \/ SummaryRow(t) \/ SummaryCount(t)
                   \/ UpdateTrust(t) \/ ApplyDecay(t) \/ RecordTalk(t) \/ RecordPair(t)
                   \/ ReadIdentity(t) \/ WriteIdentity(t) \/ WriteIdentityRaises(t)
            PROVE  Ends(t) \/ \E pc, c, seen : c \in AllCalls /\ Turns(t, pc, c, seen)
        <4>1. CloseUpdate(t) \/ SummaryRow(t) \/ RecordTalk(t) \/ ReadIdentity(t) \/ WriteIdentityRaises(t) => task[t] # Free
          BY DEF CloseUpdate, SummaryRow, RecordTalk, ReadIdentity, WritesIdentity, WriteIdentityRaises, Doing
        <4>2. task[t] # Free => C(t) \in AllCalls
          BY TaskFacts, SMTT(30)
        <4> QED
          BY <3>3, <4>1, <4>2, PledgeMoves
      <3> QED
        BY <1>4, <3>1, <3>2, <3>3 DEF TaskStep
    <2>2. DOMAIN saved' = DOMAIN saved
      BY <1>4, ZenonT(60) DEF TaskStep, Call, PruneNotes, InsertNote, UpdateNote, DeleteNote, RecallNotes, CountRecall, Create,
         CloseUpdate, CloseAnswer, ListOpen, SummaryRow, SummaryCount, UpdateTrust, ApplyDecay, RecordTalk, RecordPair,
         ReadIdentity, WriteIdentity, WriteIdentityRaises, CommitRelations, Commit
    <2>3. DOMAIN locks' = DOMAIN locks
      BY <1>4, ZenonT(60) DEF TaskStep, Call, PruneNotes, InsertNote, UpdateNote, DeleteNote, RecallNotes, CountRecall, Create,
         CloseUpdate, CloseAnswer, ListOpen, SummaryRow, SummaryCount, UpdateTrust, ApplyDecay, RecordTalk, RecordPair,
         ReadIdentity, WriteIdentity, WriteIdentityRaises, EndTurn, RecordTypes
    <2>4. DOMAIN ledger' = DOMAIN ledger /\ ledger'.due \subseteq ledger.due /\ ledger'.crashes = ledger.crashes
      BY <1>4, ZenonT(60) DEF TaskStep, Call, PruneNotes, InsertNote, UpdateNote, DeleteNote, RecallNotes, CountRecall, Create,
         CloseUpdate, CloseAnswer, ListOpen, SummaryRow, SummaryCount, UpdateTrust, ApplyDecay, RecordTalk, RecordPair,
         ReadIdentity, WriteIdentity, WriteIdentityRaises, Tell, RecordTypes
    <2> QED
      BY <2>1, <2>2, <2>3, <2>4, RecordTypesKept
  <1> QED
    BY <1>1, <1>2, <1>3, <1>4 DEF RecordNext

(***************************************************************************)
(* Notes.                                                                  *)
(***************************************************************************)
NoteRow(n) ==
    /\ DOMAIN n = {"id", "used", "level", "peak", "sess", "world"}
    /\ n.id \in Nat /\ n.used \in Nat /\ n.level \in Classes /\ n.peak = n.level
SameNote(n, m) == n.id = m.id /\ n.sess = m.sess /\ n.world = m.world
NoteIds(S) == {n.id : n \in S}
NotesUsed == NoteIds(notes) \cup ledger.gone
RoomIds(S, sess, world) == {n.id : n \in {m \in S : m.sess = sess /\ m.world = world}}
Capped(S) == \A n \in S : Cardinality(RoomIds(S, n.sess, n.world)) <= MaxNotes
CallWorld(c) == [principal |-> c.scope.principal, epoch |-> c.scope.epoch]
HasRoom(c) == Cardinality(RoomIds(notes, c.scope.session, CallWorld(c))) < MaxNotes
NoteRows ==
    /\ \E K \in Nat : NotesUsed = 1..K
    /\ NoteIds(saved.notes) \subseteq NotesUsed
    /\ \A n \in notes \cup saved.notes : NoteRow(n)
    /\ \A n, m \in notes : n.id = m.id => n = m
    /\ \A n, m \in saved.notes : n.id = m.id => n = m
    /\ Capped(notes) /\ Capped(saved.notes)
TurnHeld == \A t \in Tasks : task[t] # Free /\ InTurn(C(t)) => locks.turn = {t}
NoteInv ==
    /\ NoteRows /\ TurnHeld
    /\ \A t \in Tasks : Doing(t, "store_note", "insert") => HasRoom(C(t))
    /\ \A s \in ledger.shown : Rank(s.level) <= ActingRank(s.acting)

LEMMA RoomIdsFinite ==
    ASSUME NoteRows, NEW S, S \subseteq notes, NEW sess, NEW world
    PROVE  /\ RoomIds(S, sess, world) \subseteq RoomIds(notes, sess, world)
           /\ IsFiniteSet(RoomIds(notes, sess, world)) /\ IsFiniteSet(RoomIds(S, sess, world))
  <1>1. PICK K \in Nat : NotesUsed = 1..K
    BY DEF NoteRows
  <1>2. IsFiniteSet(1..K)
    BY FS_Interval
  <1>3. RoomIds(S, sess, world) \in SUBSET RoomIds(notes, sess, world)
        /\ RoomIds(notes, sess, world) \in SUBSET (1..K)
    BY <1>1 DEF RoomIds, NotesUsed, NoteIds
  <1> QED
    BY <1>2, <1>3, FS_Subset

(* Rows change in place or go. *)
LEMMA NoteRowsKept ==
    ASSUME NoteRows, NotesUsed' = NotesUsed, saved'.notes = saved.notes \/ saved'.notes = notes',
           \A d \in notes' : NoteRow(d) /\ \E n \in notes : SameNote(n, d),
           \A d, b \in notes' : d.id = b.id => d = b
    PROVE  NoteRows'
  <1>1. ASSUME NEW d \in notes' PROVE Cardinality(RoomIds(notes', d.sess, d.world)) <= MaxNotes
    <2>1. PICK n \in notes : SameNote(n, d)
      BY <1>1
    <2>2. RoomIds(notes', d.sess, d.world) \in SUBSET RoomIds(notes, n.sess, n.world)
      BY <2>1 DEF RoomIds, SameNote
    <2>3. Cardinality(RoomIds(notes, n.sess, n.world)) <= MaxNotes /\ IsFiniteSet(RoomIds(notes, n.sess, n.world))
      BY RoomIdsFinite DEF NoteRows, Capped
    <2>4. /\ Cardinality(RoomIds(notes', d.sess, d.world)) <= Cardinality(RoomIds(notes, n.sess, n.world))
          /\ IsFiniteSet(RoomIds(notes', d.sess, d.world))
      BY <2>2, <2>3, FS_Subset
    <2> QED
      BY <2>3, <2>4, FS_CardinalityType, RecordAssumption
  <1>2. Capped(notes)'
    BY <1>1 DEF Capped
  <1>3. Capped(saved.notes)'
    BY <1>2 DEF Capped, NoteRows
  <1>4. NoteIds(notes') \subseteq NotesUsed
    BY DEF NoteIds, NotesUsed, SameNote
  <1>5. NoteIds(saved'.notes) \subseteq NotesUsed'
    BY <1>4 DEF NoteRows
  <1> QED
    BY <1>2, <1>3, <1>5 DEF NoteRows, NoteIds

LEMMA NotesSame ==
    ASSUME NoteRows, notes' = notes, saved'.notes = saved.notes, ledger'.gone = ledger.gone
    PROVE  NoteRows'
  BY DEF NoteRows, NotesUsed, NoteIds, Capped, RoomIds

(* Whoever changes notes is alone in its turn. *)
LEMMA NobodyInserts ==
    ASSUME NoteInv, NEW t \in Tasks, task[t] # Free, InTurn(C(t))
    PROVE  \A u \in Tasks : u # t => ~(task[u] # Free /\ InTurn(C(u)))
  BY DEF NoteInv, TurnHeld

LEMMA NoteTurnEnds ==
    ASSUME RecordTypes, NoteInv, NEW t \in Tasks, task[t] # Free, InTurn(C(t)), Ends(t), NoteRows',
           ledger'.shown = ledger.shown
    PROVE  NoteInv'
  <1>1. \A u \in Tasks : task'[u] # Free => ~InTurn(task'[u].call)
    BY NobodyInserts DEF Ends, C
  <1>2. TurnHeld'
    BY <1>1 DEF TurnHeld, C
  <1>3. \A u \in Tasks : ~Doing(u, "store_note", "insert")'
    BY <1>1 DEF Doing, InTurn
  <1> QED
    BY <1>2, <1>3 DEF NoteInv

(* The other tiers leave notes, and the turn of others, alone. *)
LEMMA NotesElsewhere ==
    ASSUME RecordTypes, NoteInv, NEW t \in Tasks, notes' = notes, saved'.notes = saved.notes,
           ledger'.gone = ledger.gone, ledger'.shown = ledger.shown,
           locks'.turn = locks.turn \/ (task'[t] = Free /\ locks'.turn = locks.turn \ {t}),
           \A u \in Tasks : u # t => task'[u] = task[u],
           task'[t] # Free => task'[t].pc # "insert" /\ task[t] # Free /\ task'[t].call = C(t)
    PROVE  NoteInv'
  <1>1. NoteRows'
    BY NotesSame DEF NoteInv
  <1>2. TurnHeld'
    <2> SUFFICES ASSUME NEW u \in Tasks, task'[u] # Free, InTurn(task'[u].call) PROVE locks'.turn = {u}
      BY DEF TurnHeld, C
    <2>1. task[u] # Free /\ InTurn(C(u))
      BY DEF C
    <2>2. locks.turn = {u}
      BY <2>1 DEF NoteInv, TurnHeld
    <2> QED
      BY <2>2
  <1>3. ASSUME NEW u \in Tasks, Doing(u, "store_note", "insert")' PROVE HasRoom(C(u))'
    <2>1. u # t /\ Doing(u, "store_note", "insert") /\ task'[u] = task[u]
      BY <1>3 DEF Doing
    <2>2. HasRoom(C(u))
      BY <2>1 DEF NoteInv
    <2> QED
      BY <2>1, <2>2 DEF HasRoom, RoomIds, CallWorld, C
  <1> QED
    BY <1>1, <1>2, <1>3 DEF NoteInv

LEMMA NotesCall ==
    ASSUME RecordTypes, NoteInv, NEW t \in Tasks, NEW c \in ledger.due, Call(t, c)
    PROVE  NoteInv'
  <1>1. notes' = notes /\ saved' = saved /\ ledger'.gone = ledger.gone /\ ledger'.shown = ledger.shown
    BY DEF Call, RecordTypes
  <1>2. Turns(t, "start", c, {})
    BY CallMoves
  <1>3. NoteRows'
    BY <1>1, NotesSame DEF NoteInv
  <1>4. TurnHeld'
    <2> SUFFICES ASSUME NEW u \in Tasks, task'[u] # Free, InTurn(task'[u].call) PROVE locks'.turn = {u}
      BY DEF TurnHeld, C
    <2>1. CASE u = t
      BY <1>2, <2>1 DEF Call, Turns, RecordTypes
    <2>2. CASE u # t
      <3>1. locks.turn = {u}
        BY <1>2, <2>2 DEF NoteInv, TurnHeld, Turns, C
      <3> QED
        BY <3>1 DEF Call
    <2> QED
      BY <2>1, <2>2
  <1>5. ASSUME NEW u \in Tasks, Doing(u, "store_note", "insert")' PROVE HasRoom(C(u))'
    <2>1. u # t /\ Doing(u, "store_note", "insert") /\ task'[u] = task[u]
      BY <1>2, <1>5 DEF Doing, Turns
    <2>2. HasRoom(C(u))
      BY <2>1 DEF NoteInv
    <2> QED
      BY <1>1, <2>1, <2>2 DEF HasRoom, RoomIds, CallWorld, C
  <1> QED
    BY <1>1, <1>3, <1>4, <1>5 DEF NoteInv

(* Ids name a set's rows: as many, and finitely many. *)
LEMMA IdsBound ==
    ASSUME NEW S, IsFiniteSet(S)
    PROVE  IsFiniteSet({r.id : r \in S}) /\ Cardinality({r.id : r \in S}) <= Cardinality(S)
  <1> DEFINE I == {r.id : r \in S}
             f == [r \in S |-> r.id]
  <1>1. f \in [S -> I] /\ \A i \in I : \E r \in S : f[r] = i
    OBVIOUS
  <1>2. f \in Surjection(S, I)
    <2> HIDE DEF f, I
    <2> QED
      BY <1>1 DEF Surjection
  <1> QED
    <2> HIDE DEF f, I
    <2>1. IsFiniteSet(I) /\ Cardinality(I) <= Cardinality(S)
      BY <1>2, FS_Surjection
    <2> QED
      BY <2>1 DEF I

LEMMA IdsName ==
    ASSUME NEW S, IsFiniteSet({r.id : r \in S}), \A r, s \in S : r.id = s.id => r = s
    PROVE  IsFiniteSet(S) /\ Cardinality(S) <= Cardinality({r.id : r \in S})
  <1> DEFINE I == {r.id : r \in S}
             f == [r \in S |-> r.id]
  <1>1. f \in [S -> I] /\ \A r, s \in S : f[r] = f[s] => r = s
    OBVIOUS
  <1>2. f \in Injection(S, I)
    <2> HIDE DEF f, I
    <2> QED
      BY <1>1 DEF Injection, IsInjective
  <1> QED
    <2> HIDE DEF f
    <2>1. IsFiniteSet(I)
      OBVIOUS
    <2> HIDE DEF I
    <2>2. IsFiniteSet(S) /\ Cardinality(S) <= Cardinality(I)
      BY <1>2, <2>1, FS_Injection
    <2> QED
      BY <2>2 DEF I

(* Deleting the Cardinality(S) + 1 - cap least leaves room for one more. *)
LEMMA PruningMakesRoom ==
    ASSUME NEW S, IsFiniteSet(S), NEW R, NEW cap \in Nat \ {0},
           \A x, y, z \in S : <<x, y>> \in R /\ <<y, z>> \in R => <<x, z>> \in R,
           \A x \in S : <<x, x>> \notin R,
           \A x, y \in S : x # y => <<x, y>> \in R \/ <<y, x>> \in R,
           NEW K \in SUBSET S,
           \A n \in K : ~(Cardinality({m \in S : <<m, n>> \in R}) < Cardinality(S) + 1 - cap)
    PROVE  IsFiniteSet(K) /\ Cardinality(K) < cap
  <1> DEFINE U(n) == {m \in S : <<n, m>> \in R}
             D(n) == {m \in S : <<m, n>> \in R}
             T == {n \in S : Cardinality(U(n)) < cap - 1}
  <1>1. cap - 1 \in Nat /\ Cardinality(S) \in Nat
    BY FS_CardinalityType
  <1>2. ASSUME NEW n \in S PROVE Cardinality(S) = Cardinality(U(n)) + Cardinality(D(n)) + 1
    <2>1. U(n) \in SUBSET S /\ D(n) \in SUBSET S /\ U(n) \cap D(n) = {}
          /\ (U(n) \cup D(n)) \cup {n} = S /\ n \notin U(n) \cup D(n)
      BY <1>2
    <2> HIDE DEF U, D
    <2>2. IsFiniteSet(U(n)) /\ IsFiniteSet(D(n))
      BY <2>1, FS_Subset
    <2>3. IsFiniteSet(U(n) \cup D(n)) /\ Cardinality(U(n) \cup D(n)) = Cardinality(U(n)) + Cardinality(D(n)) - Cardinality({})
      BY <2>1, <2>2, FS_Union
    <2>4. Cardinality(S) = Cardinality(U(n) \cup D(n)) + 1
      BY <2>1, <2>3, FS_AddElement
    <2>5. Cardinality(U(n)) \in Nat /\ Cardinality(D(n)) \in Nat
      BY <2>2, FS_CardinalityType
    <2> QED
      BY <2>3, <2>4, <2>5, FS_EmptySet
  <1>3. \A n \in S : Cardinality(U(n)) \in Nat /\ Cardinality(D(n)) \in Nat
    BY FS_Subset, FS_CardinalityType
  <1>4. K \in SUBSET T
    <2> SUFFICES ASSUME NEW n \in K PROVE n \in T
      OBVIOUS
    <2>1. n \in S /\ ~(Cardinality(D(n)) < Cardinality(S) + 1 - cap)
      OBVIOUS
    <2> HIDE DEF U, D
    <2>2. Cardinality(U(n)) < cap - 1
      BY <1>1, <1>2, <1>3, <2>1
    <2> QED
      BY <2>1, <2>2
  <1>5. IsFiniteSet(T) /\ Cardinality(T) <= cap - 1
    <2>1. T \in SUBSET S /\ \A n \in T : Cardinality({m \in S : <<n, m>> \in R}) < cap - 1
      OBVIOUS
    <2> HIDE DEF D, T, U
    <2> QED
      BY <1>1, <2>1, RankBound
  <1>6. IsFiniteSet(K) /\ Cardinality(K) <= Cardinality(T) /\ Cardinality(K) \in Nat /\ Cardinality(T) \in Nat
    <2> HIDE DEF T
    <2> QED
      BY <1>4, <1>5, FS_Subset, FS_CardinalityType
  <1> QED
    <2> HIDE DEF T
    <2> QED
      BY <1>5, <1>6

LEMMA NotesFinite == ASSUME NoteRows PROVE IsFiniteSet(notes)
  <1>1. PICK K \in Nat : NotesUsed = 1..K
    BY DEF NoteRows
  <1>2. IsFiniteSet(1..K) /\ {n.id : n \in notes} \in SUBSET (1..K)
    BY <1>1, FS_Interval DEF NotesUsed, NoteIds
  <1>3. IsFiniteSet({n.id : n \in notes})
    BY <1>2, FS_Subset
  <1> QED
    BY <1>3, IdsName DEF NoteRows

LEMMA NotesPruned ==
    ASSUME RecordTypes, NoteInv, NEW t \in Tasks, PruneNotes(t)
    PROVE  NoteInv'
  <1> DEFINE S == {n \in notes : Mine(n, C(t))}
             out == Pruned(S, MaxNotes)
             R == {q \in S \X S : Precedes(q[1], q[2])}
             D == {n \in S : n \notin out}
  <1>1. /\ notes' = notes \ out /\ saved' = saved /\ locks' = locks
        /\ ledger'.gone = ledger.gone \cup {n.id : n \in out} /\ ledger'.shown = ledger.shown
        /\ task[t] # Free /\ C(t).op = "store_note" /\ C(t) \in AllCalls
    BY TaskFacts DEF PruneNotes, Doing, C, RecordTypes
  <1>2. Turns(t, "insert", C(t), task[t].seen)
    BY NoteMoves
  <1>3. NoteRows /\ IsFiniteSet(notes) /\ IsFiniteSet(S) /\ out \subseteq S
    BY NotesFinite, FS_Subset DEF NoteInv, Pruned
  <1>4. NoteRows'
    <2>1. NotesUsed' = NotesUsed
      BY <1>1, <1>3 DEF NotesUsed, NoteIds
    <2>2. \A d \in notes' : NoteRow(d) /\ \E n \in notes : SameNote(n, d)
      BY <1>1, <1>3 DEF NoteRows, SameNote
    <2>3. \A d, b \in notes' : d.id = b.id => d = b
      BY <1>1, <1>3 DEF NoteRows
    <2> QED
      BY <1>1, <1>3, <2>1, <2>2, <2>3, NoteRowsKept
  <1>5. IsFiniteSet(D) /\ Cardinality(D) < MaxNotes
    <2>1. \A x, y \in S : <<x, y>> \in R <=> Precedes(x, y)
      OBVIOUS
    <2>2. \A x \in S : x.used \in Nat /\ x.id \in Nat
      BY <1>3 DEF NoteRows, NoteRow
    <2>3. \A x, y \in S : x # y => x.id # y.id
      BY <1>3 DEF NoteRows
    <2>4. D \in SUBSET S /\ \A n \in D : ~(Cardinality({m \in S : <<m, n>> \in R}) < Cardinality(S) + 1 - MaxNotes)
      <3>1. \A n \in S : {m \in S : <<m, n>> \in R} = {m \in S : Precedes(m, n)}
        BY <2>1
      <3> HIDE DEF R, S
      <3> QED
        BY <3>1 DEF Pruned
    <2> HIDE DEF R, S, D
    <2>5. \A x, y, z \in S : <<x, y>> \in R /\ <<y, z>> \in R => <<x, z>> \in R
      BY <2>1, <2>2 DEF Precedes
    <2>6. \A x \in S : <<x, x>> \notin R
      BY <2>1, <2>2 DEF Precedes
    <2>7. \A x, y \in S : x # y => <<x, y>> \in R \/ <<y, x>> \in R
      BY <2>1, <2>2, <2>3 DEF Precedes
    <2>8. MaxNotes \in Nat \ {0}
      BY RecordAssumption
    <2> QED
      BY <1>3, <2>4, <2>5, <2>6, <2>7, <2>8, PruningMakesRoom
  <1>6. HasRoom(C(t))'
    <2>1. RoomIds(notes', C(t).scope.session, CallWorld(C(t))) = {r.id : r \in D}
      BY <1>1, <1>3 DEF RoomIds, CallWorld, Mine, InScope
    <2>2. IsFiniteSet({r.id : r \in D}) /\ Cardinality({r.id : r \in D}) <= Cardinality(D)
      <3> HIDE DEF D
      <3> QED
        BY <1>5, IdsBound
    <2>3. Cardinality(D) \in Nat /\ Cardinality({r.id : r \in D}) \in Nat
      <3> HIDE DEF D
      <3> QED
        BY <1>5, <2>2, FS_CardinalityType
    <2>4. task'[t].call = C(t)
      BY <1>2 DEF Turns
    <2>5. Cardinality({r.id : r \in D}) < MaxNotes
      <3> HIDE DEF D
      <3> QED
        BY <1>5, <2>2, <2>3, RecordAssumption
    <2> HIDE DEF D
    <2> QED
      BY <2>1, <2>4, <2>5 DEF HasRoom, C, CallWorld
  <1>7. \A u \in Tasks : u # t => ~(task'[u] # Free /\ InTurn(task'[u].call))
    <2>1. InTurn(C(t))
      BY <1>1 DEF InTurn
    <2>2. \A u \in Tasks : u # t => ~(task[u] # Free /\ InTurn(task[u].call))
      BY <1>1, <2>1, NobodyInserts DEF C
    <2> QED
      BY <1>2, <2>2 DEF Turns
  <1>8. TurnHeld'
    <2>1. InTurn(C(t)) /\ locks.turn = {t}
      BY <1>1 DEF InTurn, NoteInv, TurnHeld
    <2> QED
      BY <1>1, <1>7, <2>1 DEF TurnHeld, C
  <1>9. \A u \in Tasks : Doing(u, "store_note", "insert")' => HasRoom(C(u))'
    BY <1>6, <1>7 DEF Doing, InTurn, C
  <1> QED
    BY <1>1, <1>4, <1>8, <1>9 DEF NoteInv

LEMMA NotesDeleted ==
    ASSUME RecordTypes, NoteInv, NEW t \in Tasks, DeleteNote(t)
    PROVE  NoteInv'
  <1>1. /\ notes' \subseteq notes /\ saved'.notes = notes' /\ ledger'.shown = ledger.shown
        /\ ledger'.gone = ledger.gone \cup {n.id : n \in notes \ notes'}
        /\ task[t] # Free /\ InTurn(C(t))
    BY DEF DeleteNote, Doing, InTurn, Commit, RecordTypes, C
  <1>2. NotesUsed' = NotesUsed
    BY <1>1 DEF NotesUsed, NoteIds
  <1>3. NoteRows'
    BY <1>1, <1>2, NoteRowsKept DEF NoteInv, NoteRows, SameNote
  <1> QED
    BY <1>1, <1>3, NoteMoves, NoteTurnEnds

(* Rewritten in place. *)
LEMMA NotesRewritten ==
    ASSUME RecordTypes, NoteInv, NEW t \in Tasks, task[t] # Free, InTurn(C(t)), Ends(t),
           ledger' = ledger, saved'.notes = notes', NEW f,
           notes' = {f[n] : n \in notes}, \A n \in notes : NoteRow(f[n]) /\ SameNote(n, f[n])
    PROVE  NoteInv'
  <1>1. NoteIds(notes') = NoteIds(notes)
    BY DEF NoteIds, SameNote
  <1>2. NotesUsed' = NotesUsed
    BY <1>1 DEF NotesUsed, NoteIds
  <1>3. \A d, b \in notes' : d.id = b.id => d = b
    BY DEF SameNote, NoteInv, NoteRows
  <1>4. NoteRows'
    BY <1>2, <1>3, NoteRowsKept DEF NoteInv
  <1> QED
    BY <1>4, NoteTurnEnds

LEMMA NotesUpdated ==
    ASSUME RecordTypes, NoteInv, NEW t \in Tasks, UpdateNote(t)
    PROVE  NoteInv'
  <1> DEFINE g(n) == [n EXCEPT !.level = Restamped(n, C(t).acting),
                         !.peak = IF Rank(Stamp(C(t).acting)) > Rank(@) THEN Stamp(C(t).acting) ELSE @]
             f == [n \in notes |-> IF n.id = C(t).id /\ Reachable(n, C(t)) THEN g(n) ELSE n]
  <1>1. task[t] # Free /\ InTurn(C(t)) /\ ledger' = ledger /\ saved'.notes = notes' /\ C(t) \in AllCalls
    BY TaskFacts DEF UpdateNote, Doing, InTurn, Commit, RecordTypes, C
  <1>2. notes' = {f[n] : n \in notes}
    BY Zenon DEF UpdateNote
  <1>3. ASSUME NEW n \in notes PROVE NoteRow(f[n]) /\ SameNote(n, f[n])
    <2>1. NoteRow(n) /\ Stamp(C(t).acting) \in Classes
      BY <1>1, <1>3, CallFacts DEF NoteInv, NoteRows
    <2>2. NoteRow(g(n)) /\ SameNote(n, g(n))
      <3>1. Rank(n.level) \in 1..4 /\ Rank(Stamp(C(t).acting)) \in 1..4
        BY <2>1, Ranks DEF NoteRow
      <3> QED
        BY <2>1, <3>1 DEF NoteRow, SameNote, Restamped
    <2>3. f[n] = g(n) \/ f[n] = n
      BY <1>3
    <2> HIDE DEF f, g
    <2> QED
      BY <2>1, <2>2, <2>3 DEF SameNote
  <1>4. Ends(t)
    BY NoteMoves
  <1> HIDE DEF f
  <1> QED
    BY <1>1, <1>2, <1>3, <1>4, NotesRewritten

LEMMA NotesCounted ==
    ASSUME RecordTypes, NoteInv, NEW t \in Tasks, CountRecall(t)
    PROVE  NoteInv'
  <1> DEFINE f == [n \in notes |-> IF n.id \in task[t].seen THEN [n EXCEPT !.used = @ + 1] ELSE n]
  <1>1. task[t] # Free /\ InTurn(C(t)) /\ ledger' = ledger /\ saved'.notes = notes'
    BY DEF CountRecall, Doing, InTurn, Commit, RecordTypes, C
  <1>2. notes' = {f[n] : n \in notes}
    BY Zenon DEF CountRecall
  <1>3. ASSUME NEW n \in notes PROVE NoteRow(f[n]) /\ SameNote(n, f[n])
    <2>1. NoteRow(n)
      BY <1>3 DEF NoteInv, NoteRows
    <2> QED
      BY <1>3, <2>1 DEF NoteRow, SameNote
  <1>4. Ends(t)
    BY NoteMoves
  <1> HIDE DEF f
  <1> QED
    BY <1>1, <1>2, <1>3, <1>4, NotesRewritten

LEMMA NotesInserted ==
    ASSUME RecordTypes, NoteInv, NEW t \in Tasks, InsertNote(t)
    PROVE  NoteInv'
  <1> DEFINE row == [id |-> Fresh(notes), used |-> 0, level |-> Stamp(C(t).acting), peak |-> Stamp(C(t).acting),
             sess |-> NormalSession(C(t).scope.session),
             world |-> [principal |-> C(t).scope.principal, epoch |-> C(t).scope.epoch]]
  <1>1. /\ task[t] # Free /\ InTurn(C(t)) /\ Doing(t, "store_note", "insert") /\ C(t) \in AllCalls
        /\ ledger' = ledger /\ saved'.notes = notes' /\ notes' = notes \cup {row}
    BY TaskFacts DEF InsertNote, Doing, InTurn, Commit, RecordTypes, C
  <1>2. PICK K \in Nat : NotesUsed = 1..K
    BY DEF NoteInv, NoteRows
  <1>3. Fresh(notes) = K + 1
    <2>1. Cardinality(1..K) = K
      BY FS_Interval
    <2> QED
      <3>1. {r.id : r \in notes} \cup ledger.gone = 1..K
        BY <1>2 DEF NotesUsed, NoteIds
      <3>2. Fresh(notes) = 1 + Cardinality({r.id : r \in notes} \cup ledger.gone)
        BY Zenon DEF Fresh
      <3>3. Fresh(notes) = 1 + Cardinality(1..K)
        BY <3>1, <3>2, Zenon
      <3> QED
        BY <2>1, <3>3
  <1>4. /\ row.id = K + 1 /\ row.sess = C(t).scope.session /\ row.world = CallWorld(C(t)) /\ NoteRow(row)
    BY <1>1, <1>3, CallFacts DEF CallWorld, NoteRow
  <1> HIDE DEF row
  <1>5. NotesUsed' = 1..(K+1)
    <2>1. NotesUsed' = NotesUsed \cup {K + 1}
      BY <1>1, <1>4 DEF NotesUsed, NoteIds
    <2> QED
      BY <1>2, <2>1
  <1>6. \A n \in notes : NoteRow(n) /\ n.id \in 1..K
    BY <1>2 DEF NoteInv, NoteRows, NotesUsed, NoteIds
  <1>7. \A n, m \in notes' : n.id = m.id => n = m
    BY <1>1, <1>4, <1>6 DEF NoteInv, NoteRows
  <1>8. ASSUME NEW d \in notes' PROVE Cardinality(RoomIds(notes', d.sess, d.world)) <= MaxNotes
    <2>1. CASE d.sess = row.sess /\ d.world = row.world
      <3> DEFINE Q == RoomIds(notes, row.sess, row.world)
      <3>1. RoomIds(notes', d.sess, d.world) = Q \cup {K + 1}
        BY <1>1, <1>4, <2>1 DEF RoomIds
      <3>2. IsFiniteSet(Q) /\ Cardinality(Q) < MaxNotes
        BY <1>1, <1>4, RoomIdsFinite DEF NoteInv, HasRoom
      <3> HIDE DEF Q
      <3>4. IsFiniteSet(Q \cup {K + 1}) /\ Cardinality(Q \cup {K + 1}) \in {Cardinality(Q), Cardinality(Q) + 1}
        BY <3>2, FS_AddElement
      <3>3. Cardinality(Q) \in Nat
        BY <3>2, FS_CardinalityType
      <3> QED
        BY <3>1, <3>2, <3>3, <3>4, RecordAssumption
    <2>2. CASE ~(d.sess = row.sess /\ d.world = row.world)
      <3>1. d \in notes /\ RoomIds(notes', d.sess, d.world) = RoomIds(notes, d.sess, d.world)
        BY <1>1, <1>8, <2>2 DEF RoomIds
      <3> QED
        BY <3>1 DEF NoteInv, NoteRows, Capped
    <2> QED
      BY <2>1, <2>2
  <1>9. Capped(notes')
    BY <1>8 DEF Capped
  <1>10. NoteRows'
    <2>1. NoteIds(saved'.notes) \subseteq NotesUsed'
      BY <1>1 DEF NotesUsed, NoteIds
    <2>2. Capped(notes)' /\ Capped(saved.notes)'
      BY <1>1, <1>9 DEF Capped
    <2>3. \A n \in notes' \cup saved'.notes : NoteRow(n)
      BY <1>1, <1>4, <1>6
    <2>4. \E L \in Nat : NotesUsed' = 1..L
      BY <1>5
    <2> QED
      BY <1>1, <1>7, <2>1, <2>2, <2>3, <2>4 DEF NoteRows, NoteIds
  <1> QED
    BY <1>1, <1>10, NoteMoves, NoteTurnEnds

LEMMA NotesRecalled ==
    ASSUME RecordTypes, NoteInv, NEW t \in Tasks, RecallNotes(t)
    PROVE  NoteInv'
  <1> DEFINE seen == {n.id : n \in {m \in notes : Reachable(m, C(t)) /\ m.level \in Injectable(C(t).acting)}}
             told == {[level |-> n.peak, acting |-> C(t).acting] : n \in {m \in notes : m.id \in seen}}
  <1>1. Turns(t, "reinforce", C(t), seen)
    BY NoteMoves
  <1>2. /\ notes' = notes /\ saved' = saved /\ locks' = locks /\ ledger'.gone = ledger.gone
        /\ task[t] # Free
    BY DEF RecallNotes, Doing, RecordTypes
  <1>3. ledger'.shown = ledger.shown \cup told
    <2>1. task'[t].seen = seen
      BY <1>1 DEF Turns
    <2> HIDE DEF seen
    <2> QED
      BY <2>1 DEF RecallNotes, RecordTypes
  <1>4. ASSUME NEW s \in told PROVE Rank(s.level) <= ActingRank(s.acting)
    <2>1. PICK n \in notes : n.id \in seen /\ s = [level |-> n.peak, acting |-> C(t).acting]
      BY <1>4
    <2>2. PICK m \in notes : m.id = n.id /\ m.level \in Injectable(C(t).acting)
      BY <2>1
    <2>3. m = n /\ n.peak = n.level
      BY <2>1, <2>2 DEF NoteInv, NoteRows, NoteRow
    <2>4. Rank(n.level) <= ActingRank(C(t).acting)
      BY <2>2, <2>3 DEF Injectable
    <2> QED
      BY <2>1, <2>3, <2>4
  <1>5. NoteRows'
    BY <1>2, NotesSame DEF NoteInv
  <1>6. TurnHeld'
    <2> SUFFICES ASSUME NEW u \in Tasks, task'[u] # Free, InTurn(task'[u].call) PROVE locks'.turn = {u}
      BY DEF TurnHeld, C
    <2>1. task[u] # Free /\ InTurn(C(u))
      BY <1>1, <1>2 DEF Turns, C
    <2> QED
      BY <1>2, <2>1 DEF NoteInv, TurnHeld
  <1>7. ASSUME NEW u \in Tasks, Doing(u, "store_note", "insert")' PROVE HasRoom(C(u))'
    <2>1. u # t /\ Doing(u, "store_note", "insert") /\ task'[u] = task[u]
      BY <1>1, <1>7 DEF Doing, Turns
    <2>2. HasRoom(C(u))
      BY <2>1 DEF NoteInv
    <2> QED
      BY <1>2, <2>1, <2>2 DEF HasRoom, RoomIds, CallWorld, C
  <1>8. \A s \in ledger'.shown : Rank(s.level) <= ActingRank(s.acting)
    <2> HIDE DEF told
    <2> QED
      BY <1>3, <1>4 DEF NoteInv
  <1> QED
    BY <1>5, <1>6, <1>7, <1>8 DEF NoteInv

LEMMA NotesCrash ==
    ASSUME RecordTypes, NoteInv, RecordCrash
    PROVE  NoteInv'
  <1>1. /\ notes' = saved.notes /\ saved' = saved /\ ledger'.shown = ledger.shown
        /\ ledger'.gone = ledger.gone \cup ({n.id : n \in notes} \ {n.id : n \in saved.notes})
        /\ \A t \in Tasks : task'[t] = Free
    BY DEF RecordCrash, RecordTypes
  <1>2. NotesUsed' = NotesUsed
    BY <1>1 DEF NotesUsed, NoteIds, NoteInv, NoteRows
  <1>3. Capped(notes)' /\ Capped(saved.notes)'
    BY <1>1 DEF NoteInv, NoteRows, Capped
  <1>4. NoteIds(saved'.notes) \subseteq NotesUsed'
    BY <1>1, <1>2 DEF NoteInv, NoteRows
  <1>5. NoteRows'
    BY <1>1, <1>2, <1>3, <1>4 DEF NoteInv, NoteRows, NoteIds
  <1> QED
    BY <1>1, <1>5 DEF NoteInv, TurnHeld, Doing

LEMMA NoteSteps == RecordTypes /\ NoteInv /\ [RecordNext]_recordVars => NoteInv'
  <1> SUFFICES ASSUME RecordTypes, NoteInv, [RecordNext]_recordVars PROVE NoteInv'
    OBVIOUS
  <1>1. ASSUME notes' = notes, saved'.notes = saved.notes, ledger' = ledger, task' = task, locks' = locks PROVE NoteInv'
    <2>1. NoteRows'
      BY <1>1, NotesSame DEF NoteInv
    <2> QED
      BY <1>1, <2>1 DEF NoteInv, TurnHeld, Doing, HasRoom, RoomIds, CallWorld, C
  <1>2. CASE UNCHANGED recordVars
    BY <1>1, <1>2 DEF recordVars
  <1>3. CASE \E p \in pledges : FallsDue(p)
    BY <1>1, <1>3 DEF FallsDue, Commit, RecordTypes
  <1>4. CASE RecordCrash
    BY <1>4, NotesCrash
  <1>5. ASSUME NEW t \in Tasks, TaskStep(t) PROVE NoteInv'
    <2>1. ASSUME \/ Create(t) \/ CloseUpdate(t) \/ CloseAnswer(t) \/ ListOpen(t) \/ SummaryRow(t) \/ SummaryCount(t)
                 \/ UpdateTrust(t) \/ ApplyDecay(t) \/ RecordTalk(t) \/ RecordPair(t)
                 \/ ReadIdentity(t) \/ WriteIdentity(t) \/ WriteIdentityRaises(t)
          PROVE  NoteInv'
      <3>1. task[t] # Free
        BY <2>1 DEF Create, CloseUpdate, CloseAnswer, ListOpen, SummaryRow, SummaryCount, UpdateTrust, ApplyDecay,
           RecordTalk, RecordPair, ReadIdentity, WritesIdentity, WriteIdentity, WriteIdentityRaises, Doing
      <3>2. Ends(t) \/ \E pc, seen : pc # "insert" /\ Turns(t, pc, C(t), seen)
        BY <2>1, PledgeMoves
      <3>3. notes' = notes
        BY <2>1 DEF Create, CloseUpdate, CloseAnswer, ListOpen, SummaryRow, SummaryCount, UpdateTrust, ApplyDecay,
           RecordTalk, RecordPair, ReadIdentity, WriteIdentity, WriteIdentityRaises
      <3>4. saved'.notes = saved.notes
        BY <2>1 DEF Create, CloseUpdate, CloseAnswer, ListOpen, SummaryRow, SummaryCount, UpdateTrust, ApplyDecay,
           RecordTalk, RecordPair, ReadIdentity, WriteIdentity, WriteIdentityRaises, Commit, CommitRelations, RecordTypes
      <3>5. ledger'.gone = ledger.gone /\ ledger'.shown = ledger.shown
        BY <2>1 DEF Create, CloseUpdate, CloseAnswer, ListOpen, SummaryRow, SummaryCount, UpdateTrust, ApplyDecay,
           RecordTalk, RecordPair, ReadIdentity, WriteIdentity, WriteIdentityRaises, Tell, RecordTypes
      <3>6. locks'.turn = locks.turn \/ (Ends(t) /\ locks'.turn = locks.turn \ {t})
        <4>1. CASE WriteIdentity(t)
          BY <4>1, PledgeMoves DEF WriteIdentity
        <4>2. CASE ~WriteIdentity(t)
          BY <2>1, <4>2 DEF Create, CloseUpdate, CloseAnswer, ListOpen, SummaryRow, SummaryCount, UpdateTrust, ApplyDecay,
             RecordTalk, RecordPair, ReadIdentity, WriteIdentityRaises, RecordTypes
        <4> QED
          BY <4>1, <4>2
      <3>7. /\ \A u \in Tasks : u # t => task'[u] = task[u]
            /\ task'[t] # Free => task'[t].pc # "insert" /\ task'[t].call = C(t)
        BY <3>2 DEF Ends, Turns
      <3>8. locks'.turn = locks.turn \/ (task'[t] = Free /\ locks'.turn = locks.turn \ {t})
        BY <3>6 DEF Ends
      <3> QED
        BY <3>1, <3>3, <3>4, <3>5, <3>7, <3>8, NotesElsewhere
    <2> QED
      BY <1>5, <2>1, NotesCall, NotesPruned, NotesInserted, NotesUpdated, NotesDeleted, NotesRecalled, NotesCounted
      DEF TaskStep
  <1> QED
    BY <1>2, <1>3, <1>4, <1>5 DEF RecordNext

LEMMA InitNotes == RecordInit => NoteInv
  <1> SUFFICES ASSUME RecordInit PROVE NoteInv
    OBVIOUS
  <1> PICK S \in Calls : ledger = [due |-> S, told |-> {}, shown |-> {}, learnt |-> {}, gone |-> {}, crashes |-> 0]
    BY DEF RecordInit
  <1>1. notes = {} /\ saved.notes = {} /\ ledger.gone = {} /\ ledger.shown = {} /\ \A t \in Tasks : task[t] = Free
    BY DEF RecordInit, Tables
  <1>2. NotesUsed = 1..0
    BY <1>1 DEF NotesUsed, NoteIds
  <1>3. NoteRows
    BY <1>1, <1>2 DEF NoteRows, NoteIds, Capped
  <1> QED
    BY <1>1, <1>3 DEF NoteInv, TurnHeld, Doing

(* No room ever holds more notes than its limit, and none is shown in a    *)
(* room less confidential than the most confidential one it was written    *)
(* or rewritten in: of any set of calls, tasks and limits, and through any *)
(* crash between the pruning of a note and the insert it makes room for.   *)
THEOREM NotesStaySecret == RecordSpec => []NotesKeepTheirSecrecy
  <1>1. RecordInit => RecordTypes /\ NoteInv
    BY InitRecordTypes, InitNotes
  <1>2. RecordTypes /\ NoteInv /\ [RecordNext]_recordVars => (RecordTypes /\ NoteInv)'
    BY RecordTypeSteps, NoteSteps
  <1>3. NoteInv => NotesKeepTheirSecrecy
    <2> SUFFICES ASSUME NoteInv, NEW n \in notes
                 PROVE  Cardinality({m \in notes : m.sess = n.sess /\ m.world = n.world}) <= MaxNotes
      BY DEF NoteInv, NotesKeepTheirSecrecy
    <2> DEFINE Q == {m \in notes : m.sess = n.sess /\ m.world = n.world}
    <2>1. {r.id : r \in Q} = RoomIds(notes, n.sess, n.world)
      BY DEF RoomIds
    <2>2. IsFiniteSet({r.id : r \in Q}) /\ Cardinality({r.id : r \in Q}) <= MaxNotes
      <3>1. IsFiniteSet(RoomIds(notes, n.sess, n.world))
        BY RoomIdsFinite DEF NoteInv
      <3>2. Cardinality(RoomIds(notes, n.sess, n.world)) <= MaxNotes
        BY DEF NoteInv, NoteRows, Capped
      <3> QED
        BY <2>1, <3>1, <3>2
    <2>3. \A r, s \in Q : r.id = s.id => r = s
      BY DEF NoteInv, NoteRows
    <2> HIDE DEF Q
    <2>4. IsFiniteSet(Q) /\ Cardinality(Q) <= Cardinality({r.id : r \in Q})
      BY <2>2, <2>3, IdsName
    <2>5. Cardinality(Q) \in Nat /\ Cardinality({r.id : r \in Q}) \in Nat
      BY <2>2, <2>4, FS_CardinalityType
    <2>6. Cardinality(Q) <= MaxNotes
      BY <2>2, <2>4, <2>5, RecordAssumption
    <2> QED
      BY <2>6 DEF Q
  <1> QED
    BY <1>1, <1>2, <1>3, PTL DEF RecordSpec

(***************************************************************************)
(* Ids drawn at random: whoever is about to insert under one, or may yet   *)
(* be called to, is the only one.                                          *)
(***************************************************************************)
Starts(j, op) == j # Free /\ j.pc = "start" /\ j.call.op = op
Drawn(op, I, due, tk) ==
    /\ \A c, d \in due : c.op = op /\ d.op = op /\ c.id = d.id => c = d
    /\ \A t \in Tasks : Starts(tk[t], op) => \A c \in due : c.op = op => c.id # tk[t].call.id
    /\ \A t, u \in Tasks : Starts(tk[t], op) /\ Starts(tk[u], op) /\ tk[t].call.id = tk[u].call.id => t = u
    /\ \A i \in I : /\ \A c \in due : c.op = op => c.id # i
                    /\ \A t \in Tasks : Starts(tk[t], op) => tk[t].call.id # i

LEMMA DrawnKept ==
    ASSUME NEW op, NEW I, NEW G, NEW D, NEW E, NEW f, NEW g, Drawn(op, I, D, f), E \subseteq D,
           \A u \in Tasks : Starts(g[u], op) => Starts(f[u], op) /\ g[u].call = f[u].call,
           \A i \in G : i \in I \/ \E t \in Tasks : Starts(f[t], op) /\ ~Starts(g[t], op) /\ i = f[t].call.id
    PROVE  Drawn(op, G, E, g)
  <1>1. ASSUME NEW i \in G, NEW c \in E, c.op = op PROVE c.id # i
    BY <1>1 DEF Drawn
  <1>2. ASSUME NEW i \in G, NEW u \in Tasks, Starts(g[u], op) PROVE g[u].call.id # i
    <2>1. Starts(f[u], op) /\ g[u].call = f[u].call
      BY <1>2
    <2>2. CASE i \in I
      BY <2>1, <2>2 DEF Drawn
    <2>3. ASSUME NEW t \in Tasks, Starts(f[t], op), ~Starts(g[t], op), i = f[t].call.id PROVE g[u].call.id # i
      <3>1. t # u
        BY <1>2, <2>3
      <3> QED
        BY <2>1, <2>3, <3>1 DEF Drawn
    <2> QED
      BY <2>2, <2>3, <1>2
  <1>3. \A t \in Tasks : Starts(g[t], op) => \A c \in E : c.op = op => c.id # g[t].call.id
    BY DEF Drawn
  <1>4. \A t, u \in Tasks : Starts(g[t], op) /\ Starts(g[u], op) /\ g[t].call.id = g[u].call.id => t = u
    BY DEF Drawn
  <1>5. \A c, d \in E : c.op = op /\ d.op = op /\ c.id = d.id => c = d
    BY DEF Drawn
  <1> QED
    BY <1>1, <1>2, <1>3, <1>4, <1>5 DEF Drawn

LEMMA DrawnCall ==
    ASSUME NEW op, NEW I, NEW D, NEW c \in D, NEW f, NEW g, NEW t \in Tasks, Drawn(op, I, D, f),
           \A u \in Tasks : u # t => g[u] = f[u], g[t].call = c
    PROVE  Drawn(op, I, D \ {c}, g)
  <1>1. \A i \in I : \A u \in Tasks : Starts(g[u], op) => g[u].call.id # i
    BY DEF Drawn, Starts
  <1>2. \A u \in Tasks : Starts(g[u], op) => \A d \in D \ {c} : d.op = op => d.id # g[u].call.id
    BY DEF Drawn, Starts
  <1>3. \A v, u \in Tasks : Starts(g[v], op) /\ Starts(g[u], op) /\ g[v].call.id = g[u].call.id => v = u
    <2> SUFFICES ASSUME NEW v \in Tasks, NEW u \in Tasks, Starts(g[v], op), Starts(g[u], op),
                        g[v].call.id = g[u].call.id, v # u
                 PROVE  FALSE
      OBVIOUS
    <2>1. CASE v = t
      BY <2>1 DEF Drawn, Starts
    <2>2. CASE u = t
      BY <2>2 DEF Drawn, Starts
    <2> QED
      BY <2>1, <2>2 DEF Drawn
  <1> QED
    BY <1>1, <1>2, <1>3 DEF Drawn

LEMMA InitDrawn ==
    ASSUME RecordInit, NEW op \in {"create", "record"}
    PROVE  Drawn(op, {}, ledger.due, task)
  <1> PICK S \in Calls : ledger = [due |-> S, told |-> {}, shown |-> {}, learnt |-> {}, gone |-> {}, crashes |-> 0]
    BY DEF RecordInit
  <1>1. ledger.due = S /\ \A t \in Tasks : task[t] = Free
    BY DEF RecordInit
  <1>2. \A c, d \in S : c.op = d.op /\ c.op \in {"create", "record"} /\ c.id = d.id => c = d
    BY RecordAssumption
  <1> QED
    BY <1>1, <1>2 DEF Drawn, Starts

(***************************************************************************)
(* Commitments.                                                            *)
(***************************************************************************)
Closers(told) == {a \in told : a.op = "close" /\ a.what \in {"fulfilled", "cancelled"}}
Won(j) == j # Free /\ j.pc = "answer" /\ j.call.op = "close" /\ j.seen # {}
PledgeRow(p) == DOMAIN p = {"id", "state", "overdue", "sess", "world"}
PledgeRows == /\ saved.pledges = pledges
              /\ \A p \in pledges : PledgeRow(p)
              /\ \A p, q \in pledges : p.id = q.id => p = q
PledgesDrawn == Drawn("create", {p.id : p \in pledges}, ledger.due, task)
ClosersKept ==
    /\ \A a \in Closers(ledger.told) : \E p \in pledges : p.id = a.id /\ p.state = a.what
    /\ \A a, b \in Closers(ledger.told) : a.id = b.id => a = b
WonOK(t) ==
    /\ \E p \in pledges : p.id = C(t).id /\ OwnedBy(p, C(t)) /\ p.state = C(t).state
    /\ \A a \in Closers(ledger.told) : a.id # C(t).id
    /\ \A u \in Tasks : Won(task[u]) /\ C(u).id = C(t).id => u = t
PledgeInv ==
    /\ PledgeRows /\ PledgesDrawn /\ ClosersKept
    /\ \A t \in Tasks : Won(task[t]) => WonOK(t)

(* The other tiers leave commitments alone. *)
LEMMA PledgesElsewhere ==
    ASSUME PledgeInv, pledges' = pledges, saved'.pledges = saved.pledges,
           ledger'.due = ledger.due, Closers(ledger'.told) = Closers(ledger.told),
           \A u \in Tasks : task'[u] = task[u] \/ task'[u] = Free \/ task'[u].pc \notin {"start", "answer"}
    PROVE  PledgeInv'
  <1>1. PledgeRows'
    BY DEF PledgeInv, PledgeRows, PledgeRow
  <1>2. PledgesDrawn'
    <2> DEFINE I == {p.id : p \in pledges}
               D == ledger.due
    <2>1. \A u \in Tasks : Starts(task'[u], "create") => Starts(task[u], "create") /\ task'[u].call = task[u].call
      BY DEF Starts
    <2>2. Drawn("create", I, D, task)
      BY DEF PledgeInv, PledgesDrawn
    <2>3. I = {p.id : p \in pledges'} /\ D = ledger'.due
      OBVIOUS
    <2> HIDE DEF I, D
    <2>4. Drawn("create", I, D, task')
      BY <2>1, <2>2, DrawnKept
    <2> QED
      BY <2>3, <2>4 DEF PledgesDrawn
  <1>3. ClosersKept'
    BY DEF PledgeInv, ClosersKept
  <1>4. ASSUME NEW t \in Tasks, Won(task'[t]) PROVE WonOK(t)'
    <2>1. \A u \in Tasks : Won(task'[u]) => task'[u] = task[u]
      BY DEF Won
    <2>2. Won(task[t]) /\ WonOK(t) /\ task'[t] = task[t]
      BY <1>4, <2>1 DEF PledgeInv
    <2> QED
      BY <2>1, <2>2 DEF WonOK, C, OwnedBy
  <1> QED
    BY <1>1, <1>2, <1>3, <1>4 DEF PledgeInv

LEMMA PledgesCall ==
    ASSUME RecordTypes, PledgeInv, NEW t \in Tasks, NEW c \in ledger.due, Call(t, c)
    PROVE  PledgeInv'
  <1>1. pledges' = pledges /\ saved' = saved /\ ledger'.due = ledger.due \ {c} /\ ledger'.told = ledger.told
    BY DEF Call, RecordTypes
  <1>2. Turns(t, "start", c, {})
    BY CallMoves
  <1>3. PledgeRows'
    BY <1>1 DEF PledgeInv, PledgeRows, PledgeRow
  <1>4. PledgesDrawn'
    <2> DEFINE I == {p.id : p \in pledges}
               D == ledger.due
    <2>1. Drawn("create", I, D, task)
      BY DEF PledgeInv, PledgesDrawn
    <2>2. \A u \in Tasks : u # t => task'[u] = task[u]
      BY <1>2 DEF Turns
    <2>3. task'[t].call = c
      BY <1>2 DEF Turns
    <2>4. I = {p.id : p \in pledges'} /\ ledger'.due = D \ {c} /\ c \in D
      BY <1>1
    <2> HIDE DEF I, D
    <2>5. Drawn("create", I, D \ {c}, task')
      BY <2>1, <2>2, <2>3, <2>4, DrawnCall
    <2> QED
      BY <2>4, <2>5 DEF PledgesDrawn
  <1>5. ClosersKept'
    BY <1>1 DEF PledgeInv, ClosersKept
  <1>6. ASSUME NEW v \in Tasks, Won(task'[v]) PROVE WonOK(v)'
    <2>1. \A u \in Tasks : Won(task'[u]) => task'[u] = task[u]
      BY <1>2 DEF Won, Turns
    <2>2. Won(task[v]) /\ WonOK(v) /\ task'[v] = task[v]
      BY <1>6, <2>1 DEF PledgeInv
    <2> QED
      BY <1>1, <2>1, <2>2 DEF WonOK, C, OwnedBy
  <1> QED
    BY <1>3, <1>4, <1>5, <1>6 DEF PledgeInv

SamePledge(p, q) == p.id = q.id /\ p.state = q.state /\ p.sess = q.sess /\ p.world = q.world
LEMMA PledgeFallsDue ==
    ASSUME RecordTypes, PledgeInv, NEW p \in pledges, FallsDue(p)
    PROVE  PledgeInv'
  <1> DEFINE r == [p EXCEPT !.overdue = TRUE]
  <1>1. /\ pledges' = (pledges \ {p}) \cup {r} /\ saved'.pledges = pledges' /\ task' = task /\ ledger' = ledger
    BY DEF FallsDue, Commit, RecordTypes
  <1>2. SamePledge(p, r) /\ PledgeRow(r)
    BY DEF PledgeInv, PledgeRows, PledgeRow, SamePledge
  <1> HIDE DEF r
  <1>3. PledgeRows'
    BY <1>1, <1>2 DEF PledgeInv, PledgeRows, PledgeRow, SamePledge
  <1>4. \A q \in pledges : \E d \in pledges' : SamePledge(q, d)
    BY <1>1, <1>2 DEF SamePledge
  <1>5. {q.id : q \in pledges'} = {q.id : q \in pledges}
    BY <1>1, <1>2 DEF SamePledge
  <1>6. PledgesDrawn'
    BY <1>1, <1>5 DEF PledgeInv, PledgesDrawn
  <1>7. ClosersKept'
    BY <1>1, <1>4 DEF PledgeInv, ClosersKept, SamePledge
  <1>8. ASSUME NEW t \in Tasks, Won(task'[t]) PROVE WonOK(t)'
    <2>1. WonOK(t)
      BY <1>1, <1>8 DEF PledgeInv
    <2>2. PICK q \in pledges : q.id = C(t).id /\ OwnedBy(q, C(t)) /\ q.state = C(t).state
      BY <2>1 DEF WonOK
    <2>3. PICK d \in pledges' : SamePledge(q, d)
      BY <1>4
    <2>4. d.id = C(t).id /\ OwnedBy(d, C(t)) /\ d.state = C(t).state
      BY <2>2, <2>3 DEF SamePledge, OwnedBy
    <2> QED
      BY <1>1, <2>1, <2>4 DEF WonOK, C, OwnedBy
  <1> QED
    BY <1>3, <1>6, <1>7, <1>8 DEF PledgeInv

LEMMA PledgeCreated ==
    ASSUME RecordTypes, PledgeInv, NEW t \in Tasks, Create(t)
    PROVE  PledgeInv'
  <1> DEFINE r == [id |-> C(t).id, state |-> "open", overdue |-> FALSE,
                   sess |-> NormalSession(C(t).scope.session),
                   world |-> [principal |-> C(t).scope.principal, epoch |-> C(t).scope.epoch]]
  <1>1. /\ saved'.pledges = pledges' /\ ledger' = ledger /\ Starts(task[t], "create")
        /\ pledges' = pledges \cup {r} \/ pledges' = pledges
    BY DEF Create, Commit, RecordTypes, Doing, Starts, C
  <1>2. Ends(t)
    BY PledgeMoves
  <1>3. PledgeRow(r) /\ r.id = C(t).id
    BY DEF PledgeRow
  <1> HIDE DEF r
  <1>4. \A q \in pledges : q.id # C(t).id
    BY <1>1 DEF PledgeInv, PledgesDrawn, Drawn, C
  <1>5. PledgeRows'
    BY <1>1, <1>3, <1>4 DEF PledgeInv, PledgeRows, PledgeRow
  <1>6. PledgesDrawn'
    <2> DEFINE I == {p.id : p \in pledges}
               G == {p.id : p \in pledges'}
               D == ledger.due
    <2>1. Drawn("create", I, D, task)
      BY DEF PledgeInv, PledgesDrawn
    <2>2. \A u \in Tasks : Starts(task'[u], "create") => Starts(task[u], "create") /\ task'[u].call = task[u].call
      BY <1>2 DEF Starts, Ends
    <2>3. ~Starts(task'[t], "create")
      BY <1>2 DEF Starts, Ends
    <2>4. \A i \in G : i \in I \/ i = task[t].call.id
      BY <1>1, <1>3 DEF C
    <2>5. D = ledger'.due
      BY <1>1
    <2> HIDE DEF I, G, D
    <2>6. \A i \in G : i \in I \/ \E u \in Tasks : Starts(task[u], "create") /\ ~Starts(task'[u], "create") /\ i = task[u].call.id
      BY <1>1, <2>3, <2>4
    <2>7. Drawn("create", G, D, task')
      BY <2>1, <2>2, <2>6, DrawnKept
    <2> QED
      BY <2>5, <2>7 DEF PledgesDrawn, G
  <1>7. pledges \subseteq pledges'
    BY <1>1
  <1>8. ClosersKept'
    BY <1>1, <1>7 DEF PledgeInv, ClosersKept
  <1>9. ASSUME NEW v \in Tasks, Won(task'[v]) PROVE WonOK(v)'
    <2>1. \A u \in Tasks : Won(task'[u]) => task'[u] = task[u]
      BY <1>2 DEF Won, Ends
    <2>2. Won(task[v]) /\ WonOK(v) /\ task'[v] = task[v]
      BY <1>9, <2>1 DEF PledgeInv
    <2> QED
      BY <1>1, <1>7, <2>1, <2>2 DEF WonOK, C, OwnedBy
  <1> QED
    BY <1>5, <1>6, <1>8, <1>9 DEF PledgeInv

LEMMA PledgeClosing ==
    ASSUME RecordTypes, PledgeInv, NEW t \in Tasks, CloseUpdate(t)
    PROVE  PledgeInv'
  <1> DEFINE S == {p \in pledges : Closable(p, C(t))}
             r(p) == [p EXCEPT !.state = C(t).state]
  <1>1. /\ saved'.pledges = pledges' /\ ledger' = ledger /\ task[t] # Free /\ task[t].pc = "start" /\ C(t).op = "close"
        /\ pledges' = (pledges \ S) \cup {r(p) : p \in S} /\ C(t) \in AllCalls
    BY TaskFacts DEF CloseUpdate, Commit, RecordTypes, Doing, C
  <1>2. Turns(t, "answer", C(t), {p.id : p \in S})
    BY PledgeMoves
  <1>3. C(t).state \in {"fulfilled", "cancelled"}
    BY <1>1, CallFacts
  <1>4. CASE S = {}
    <2>1. pledges' = pledges /\ {p.id : p \in S} = {}
      BY <1>1, <1>4
    <2>2. task'[t].seen = {} /\ task'[t].pc = "answer"
      BY <1>2, <2>1 DEF Turns
    <2>3. PledgeRows'
      BY <1>1, <2>1 DEF PledgeInv, PledgeRows, PledgeRow
    <2>4. PledgesDrawn'
      <3> DEFINE I == {p.id : p \in pledges}
                 D == ledger.due
      <3>1. \A u \in Tasks : Starts(task'[u], "create") => Starts(task[u], "create") /\ task'[u].call = task[u].call
        BY <1>2, <2>2 DEF Starts, Turns
      <3>2. Drawn("create", I, D, task)
        BY DEF PledgeInv, PledgesDrawn
      <3>3. I = {p.id : p \in pledges'} /\ D = ledger'.due
        BY <1>1, <2>1
      <3> HIDE DEF I, D
      <3>4. Drawn("create", I, D, task')
        BY <3>1, <3>2, DrawnKept
      <3> QED
        BY <3>3, <3>4 DEF PledgesDrawn
    <2>5. ClosersKept'
      BY <1>1, <2>1 DEF PledgeInv, ClosersKept
    <2>6. ASSUME NEW v \in Tasks, Won(task'[v]) PROVE WonOK(v)'
      <3>1. \A u \in Tasks : Won(task'[u]) => task'[u] = task[u]
        BY <1>2, <2>2 DEF Won, Turns
      <3>2. Won(task[v]) /\ WonOK(v) /\ task'[v] = task[v]
        BY <2>6, <3>1 DEF PledgeInv
      <3> QED
        BY <1>1, <2>1, <3>1, <3>2 DEF WonOK, C, OwnedBy
    <2> QED
      BY <2>3, <2>4, <2>5, <2>6 DEF PledgeInv
  <1>5. ASSUME NEW p \in S PROVE PledgeInv'
    <2>1. p \in pledges /\ p.id = C(t).id /\ OwnedBy(p, C(t)) /\ p.state = "open" /\ PledgeRow(p)
      BY <1>5 DEF Closable, PledgeInv, PledgeRows
    <2>2. S = {p}
      BY <1>5, <2>1 DEF Closable, PledgeInv, PledgeRows
    <2>3. /\ PledgeRow(r(p)) /\ r(p).id = C(t).id /\ OwnedBy(r(p), C(t)) /\ r(p).state = C(t).state
      BY <2>1 DEF PledgeRow, OwnedBy
    <2>4. pledges' = (pledges \ {p}) \cup {r(p)}
      BY <1>1, <2>2
    <2> HIDE DEF r, S
    <2>5. PledgeRows'
      BY <1>1, <2>1, <2>3, <2>4 DEF PledgeInv, PledgeRows, PledgeRow
    <2>6. PledgesDrawn'
      <3> DEFINE I == {q.id : q \in pledges}
                 D == ledger.due
      <3>1. \A u \in Tasks : Starts(task'[u], "create") => Starts(task[u], "create") /\ task'[u].call = task[u].call
        BY <1>2 DEF Starts, Turns
      <3>2. Drawn("create", I, D, task)
        BY DEF PledgeInv, PledgesDrawn
      <3>3. I = {q.id : q \in pledges'} /\ D = ledger'.due
        BY <1>1, <2>1, <2>3, <2>4
      <3> HIDE DEF I, D
      <3>4. Drawn("create", I, D, task')
        BY <3>1, <3>2, DrawnKept
      <3> QED
        BY <3>3, <3>4 DEF PledgesDrawn
    <2>7. \A q \in pledges : q.state # "open" => q \in pledges' /\ q.id # C(t).id
      BY <2>1, <2>4 DEF PledgeInv, PledgeRows
    <2>8. \A a \in Closers(ledger.told) : a.id # C(t).id /\ \E q \in pledges' : q.id = a.id /\ q.state = a.what
      <3> SUFFICES ASSUME NEW a \in Closers(ledger.told)
                   PROVE  a.id # C(t).id /\ \E q \in pledges' : q.id = a.id /\ q.state = a.what
        OBVIOUS
      <3>1. PICK q \in pledges : q.id = a.id /\ q.state = a.what
        BY DEF PledgeInv, ClosersKept
      <3>2. q.state # "open"
        BY <3>1 DEF Closers
      <3> QED
        BY <2>7, <3>1, <3>2
    <2>9. ClosersKept'
      BY <1>1, <2>8 DEF PledgeInv, ClosersKept
    <2>10. \A u \in Tasks : Won(task[u]) => C(u).id # C(t).id /\ \E q \in pledges' : q.id = C(u).id /\ OwnedBy(q, C(u)) /\ q.state = C(u).state
      <3> SUFFICES ASSUME NEW u \in Tasks, Won(task[u])
                   PROVE  C(u).id # C(t).id /\ \E q \in pledges' : q.id = C(u).id /\ OwnedBy(q, C(u)) /\ q.state = C(u).state
        OBVIOUS
      <3>1. PICK q \in pledges : q.id = C(u).id /\ OwnedBy(q, C(u)) /\ q.state = C(u).state
        BY DEF PledgeInv, WonOK
      <3>2. C(u).state \in {"fulfilled", "cancelled"}
        BY TaskFacts, CallFacts DEF Won, C
      <3> QED
        BY <2>7, <3>1, <3>2
    <2>11. ASSUME NEW v \in Tasks, Won(task'[v]) PROVE WonOK(v)'
      <3>1. CASE v = t
        <4>1. task'[v].call = C(t) /\ \A u \in Tasks : u # t => task'[u] = task[u]
          BY <1>2, <3>1 DEF Turns
        <4>2. \A u \in Tasks : Won(task'[u]) /\ task'[u].call.id = C(t).id => u = t
          BY <2>10, <4>1 DEF C
        <4> QED
          BY <1>1, <2>3, <2>4, <2>8, <3>1, <4>1, <4>2 DEF WonOK, C, OwnedBy
      <3>2. CASE v # t
        <4>1. task'[v] = task[v] /\ task'[t].call = C(t) /\ \A u \in Tasks : u # t => task'[u] = task[u]
          BY <1>2, <3>2 DEF Turns
        <4>2. Won(task[v]) /\ WonOK(v) /\ C(v).id # C(t).id
          BY <2>10, <2>11, <4>1 DEF PledgeInv
        <4>3. \A u \in Tasks : Won(task'[u]) /\ task'[u].call.id = C(v).id => u = v
          BY <4>1, <4>2 DEF WonOK, C
        <4> QED
          BY <1>1, <2>10, <4>1, <4>2, <4>3 DEF WonOK, C, OwnedBy
      <3> QED
        BY <3>1, <3>2
    <2> QED
      BY <2>5, <2>6, <2>9, <2>11 DEF PledgeInv
  <1> QED
    BY <1>4, <1>5

(* What a call that is not a close is told makes it no closer. *)
LEMMA TellOther ==
    ASSUME RecordTypes, NEW t \in Tasks, NEW what, Tell(t, what), C(t).op # "close"
    PROVE  Closers(ledger'.told) = Closers(ledger.told)
  BY DEF Tell, RecordTypes, Closers

LEMMA PledgeAnswered ==
    ASSUME RecordTypes, PledgeInv, NEW t \in Tasks, CloseAnswer(t)
    PROVE  PledgeInv'
  <1> DEFINE row == {p \in pledges : p.id = C(t).id /\ OwnedBy(p, C(t))}
             what == IF row = {} THEN "not found"
                     ELSE IF task[t].seen = {} THEN "already closed"
                     ELSE (CHOOSE p \in row : TRUE).state
             a == [op |-> C(t).op, id |-> C(t).id, by |-> t, what |-> what]
  <1>1. /\ pledges' = pledges /\ saved' = saved /\ ledger'.due = ledger.due
        /\ ledger'.told = ledger.told \cup {a}
        /\ task[t] # Free /\ task[t].pc = "answer" /\ C(t).op = "close"
    BY DEF CloseAnswer, Tell, Doing, C, RecordTypes
  <1>2. Ends(t)
    BY PledgeMoves
  <1>3. \A u \in Tasks : task'[u] = task[u] \/ task'[u] = Free \/ task'[u].pc \notin {"start", "answer"}
    BY <1>2 DEF Ends
  <1>4. CASE task[t].seen = {}
    <2>1. what \in {"not found", "already closed"}
      BY <1>4
    <2>2. a.what = what
      OBVIOUS
    <2> HIDE DEF what, a
    <2>3. Closers(ledger'.told) = Closers(ledger.told)
      BY <1>1, <2>1, <2>2 DEF Closers
    <2> QED
      BY <1>1, <1>3, <2>3, PledgesElsewhere
  <1>5. CASE task[t].seen # {}
    <2>1. Won(task[t]) /\ WonOK(t)
      BY <1>1, <1>5 DEF Won, PledgeInv, C
    <2>2. PICK p \in pledges : p.id = C(t).id /\ OwnedBy(p, C(t)) /\ p.state = C(t).state
      BY <2>1 DEF WonOK
    <2>3. row = {p}
      BY <2>2 DEF PledgeInv, PledgeRows
    <2>4. a.what = p.state /\ a.id = C(t).id /\ a.op = "close"
      BY <1>1, <1>5, <2>3
    <2> HIDE DEF what, a, row
    <2>5. \A b \in Closers(ledger'.told) : b \in Closers(ledger.told) \/ b = a
      BY <1>1 DEF Closers
    <2>6. \A b \in Closers(ledger.told) : b.id # a.id
      BY <2>1, <2>4 DEF WonOK
    <2>7. ClosersKept'
      BY <1>1, <2>2, <2>4, <2>5, <2>6 DEF PledgeInv, ClosersKept
    <2>8. PledgeRows'
      BY <1>1 DEF PledgeInv, PledgeRows, PledgeRow
    <2>9. PledgesDrawn'
      <3> DEFINE I == {q.id : q \in pledges}
                 D == ledger.due
      <3>1. \A u \in Tasks : Starts(task'[u], "create") => Starts(task[u], "create") /\ task'[u].call = task[u].call
        BY <1>2 DEF Starts, Ends
      <3>2. Drawn("create", I, D, task)
        BY DEF PledgeInv, PledgesDrawn
      <3>3. I = {q.id : q \in pledges'} /\ D = ledger'.due
        BY <1>1
      <3> HIDE DEF I, D
      <3>4. Drawn("create", I, D, task')
        BY <3>1, <3>2, DrawnKept
      <3> QED
        BY <3>3, <3>4 DEF PledgesDrawn
    <2>10. ASSUME NEW v \in Tasks, Won(task'[v]) PROVE WonOK(v)'
      <3>1. \A u \in Tasks : Won(task'[u]) => task'[u] = task[u] /\ u # t
        BY <1>2 DEF Won, Ends
      <3>2. Won(task[v]) /\ WonOK(v) /\ task'[v] = task[v] /\ v # t
        BY <2>10, <3>1 DEF PledgeInv
      <3>3. C(v).id # C(t).id
        BY <2>1, <3>2 DEF WonOK
      <3>4. \A b \in Closers(ledger'.told) : b.id # C(v).id
        BY <2>4, <2>5, <3>2, <3>3 DEF WonOK
      <3> QED
        BY <1>1, <3>1, <3>2, <3>4 DEF WonOK, C, OwnedBy
    <2> QED
      BY <2>7, <2>8, <2>9, <2>10 DEF PledgeInv
  <1> QED
    BY <1>4, <1>5

LEMMA PledgeCrash ==
    ASSUME RecordTypes, PledgeInv, RecordCrash
    PROVE  PledgeInv'
  <1>1. /\ pledges' = pledges /\ saved' = saved /\ ledger'.due = ledger.due /\ ledger'.told = ledger.told
        /\ \A t \in Tasks : task'[t] = Free
    BY DEF RecordCrash, RecordTypes, PledgeInv, PledgeRows
  <1> QED
    BY <1>1, PledgesElsewhere

LEMMA PledgeSteps == RecordTypes /\ PledgeInv /\ [RecordNext]_recordVars => PledgeInv'
  <1> SUFFICES ASSUME RecordTypes, PledgeInv, [RecordNext]_recordVars PROVE PledgeInv'
    OBVIOUS
  <1>1. CASE UNCHANGED recordVars
    BY <1>1, PledgesElsewhere DEF recordVars
  <1>2. CASE \E p \in pledges : FallsDue(p)
    BY <1>2, PledgeFallsDue
  <1>3. CASE RecordCrash
    BY <1>3, PledgeCrash
  <1>4. ASSUME NEW t \in Tasks, TaskStep(t) PROVE PledgeInv'
    <2>1. ASSUME PruneNotes(t) \/ InsertNote(t) \/ UpdateNote(t) \/ DeleteNote(t) \/ RecallNotes(t) \/ CountRecall(t)
          PROVE  PledgeInv'
      <3>1. \A u \in Tasks : task'[u] = task[u] \/ task'[u] = Free \/ task'[u].pc \notin {"start", "answer"}
        BY <2>1, NoteMoves DEF Ends, Turns
      <3>2. pledges' = pledges
        BY <2>1 DEF PruneNotes, InsertNote, UpdateNote, DeleteNote, RecallNotes, CountRecall
      <3>3. saved'.pledges = saved.pledges
        BY <2>1 DEF PruneNotes, InsertNote, UpdateNote, DeleteNote, RecallNotes, CountRecall, Commit, RecordTypes
      <3>4. ledger'.due = ledger.due /\ ledger'.told = ledger.told
        BY <2>1 DEF PruneNotes, InsertNote, UpdateNote, DeleteNote, RecallNotes, CountRecall, RecordTypes
      <3> QED
        BY <3>1, <3>2, <3>3, <3>4, PledgesElsewhere
    <2>2. ASSUME ListOpen(t) \/ SummaryRow(t) \/ SummaryCount(t) PROVE PledgeInv'
      <3>1. \A u \in Tasks : task'[u] = task[u] \/ task'[u] = Free \/ task'[u].pc \notin {"start", "answer"}
        BY <2>2, PledgeMoves DEF Ends, Turns
      <3>2. pledges' = pledges /\ saved' = saved
        BY <2>2 DEF ListOpen, SummaryRow, SummaryCount
      <3>3. C(t).op # "close" /\ (ledger' = ledger \/ \E what : Tell(t, what))
        BY <2>2 DEF ListOpen, SummaryRow, SummaryCount, Doing, C
      <3>4. ledger'.due = ledger.due
        BY <3>3 DEF Tell, RecordTypes
      <3>5. Closers(ledger'.told) = Closers(ledger.told)
        BY <3>3, TellOther
      <3> QED
        BY <3>1, <3>2, <3>4, <3>5, PledgesElsewhere
    <2>3. ASSUME UpdateTrust(t) \/ ApplyDecay(t) \/ RecordTalk(t) \/ RecordPair(t) \/ ReadIdentity(t) \/ WriteIdentity(t)
                 \/ WriteIdentityRaises(t)
          PROVE  PledgeInv'
      <3>1. \A u \in Tasks : task'[u] = task[u] \/ task'[u] = Free \/ task'[u].pc \notin {"start", "answer"}
        BY <2>3, PledgeMoves DEF Ends, Turns
      <3>2. pledges' = pledges
        BY <2>3 DEF UpdateTrust, ApplyDecay, RecordTalk, RecordPair, ReadIdentity, WriteIdentity, WriteIdentityRaises
      <3>3. saved'.pledges = saved.pledges
        BY <2>3 DEF UpdateTrust, ApplyDecay, RecordTalk, RecordPair, ReadIdentity, WriteIdentity, WriteIdentityRaises, Commit,
           CommitRelations, RecordTypes
      <3>4. ledger'.due = ledger.due /\ ledger'.told = ledger.told
        BY <2>3 DEF UpdateTrust, ApplyDecay, RecordTalk, RecordPair, ReadIdentity, WriteIdentity, WriteIdentityRaises, RecordTypes
      <3> QED
        BY <3>1, <3>2, <3>3, <3>4, PledgesElsewhere
    <2> QED
      BY <1>4, <2>1, <2>2, <2>3, PledgesCall, PledgeCreated, PledgeClosing, PledgeAnswered DEF TaskStep
  <1> QED
    BY <1>1, <1>2, <1>3, <1>4 DEF RecordNext

LEMMA InitPledges == RecordInit => PledgeInv
  <1> SUFFICES ASSUME RecordInit PROVE PledgeInv
    OBVIOUS
  <1> PICK S \in Calls : ledger = [due |-> S, told |-> {}, shown |-> {}, learnt |-> {}, gone |-> {}, crashes |-> 0]
    BY DEF RecordInit
  <1>1. pledges = {} /\ saved.pledges = {} /\ ledger.told = {} /\ \A t \in Tasks : task[t] = Free
    BY DEF RecordInit, Tables
  <1>2. Drawn("create", {}, ledger.due, task)
    BY InitDrawn
  <1>3. PledgesDrawn
    <2>1. {p.id : p \in pledges} = {}
      BY <1>1
    <2> QED
      BY <1>2, <2>1 DEF PledgesDrawn
  <1> QED
    BY <1>1, <1>3 DEF PledgeInv, PledgeRows, ClosersKept, Closers, Won

LEMMA PledgeInvMeans == PledgeInv => OneCloserWins
  <1> SUFFICES ASSUME PledgeInv, NEW a \in Closers(ledger.told), NEW b \in Closers(ledger.told), a.id = b.id
               PROVE  a = b /\ \A p \in pledges : p.id = a.id => p.state = a.what
    BY DEF OneCloserWins, Closers
  <1> QED
    BY DEF PledgeInv, ClosersKept, PledgeRows

(***************************************************************************)
(* Relationships.                                                          *)
(***************************************************************************)
PairRow(p) == DOMAIN p = {"peer", "trust", "n", "fields"} /\ p.n \in Nat
PairRows == /\ \A p \in pairs : PairRow(p)
            /\ \A p, q \in pairs : p.peer = q.peer => p = q
Known(peer) == IF HasPair(peer) THEN PairOf(peer).n ELSE 0
TalksWith(peer) == {k \in talks : k.peer = peer}
Pairing(peer) == {t \in Tasks : Doing(t, "record", "pair") /\ C(t).peer = peer}
TalkRows == /\ IsFiniteSet(talks) /\ saved.talks \subseteq talks
            /\ Drawn("record", {k.id : k \in talks}, ledger.due, task)
PairsCounted == ledger.crashes = 0 =>
    \A peer \in Peers : Cardinality(TalksWith(peer)) = Known(peer) + Cardinality(Pairing(peer))
Learnt == \A l \in ledger.learnt : \E p \in pairs : p.peer = l.peer /\ l.field \in p.fields
Writing(j) == j # Free /\ j.pc = "write"
OneWriter == \A t \in Tasks : Writing(task[t]) =>
    /\ locks.identity = {t}
    /\ \A p \in pairs : p.peer = C(t).about => p.fields \subseteq task[t].seen
PairInv == saved.pairs = pairs /\ PairRows /\ TalkRows /\ PairsCounted /\ Learnt /\ OneWriter

LEMMA PairOfIs ==
    ASSUME PairRows
    PROVE  /\ \A p \in pairs : HasPair(p.peer) /\ PairOf(p.peer) = p
           /\ \A peer : HasPair(peer) => PairOf(peer) \in pairs /\ PairOf(peer).peer = peer
  BY DEF PairRows, HasPair, PairOf

LEMMA UpsertIs ==
    ASSUME PairRows, NEW peer, NEW new, NEW changed, Upsert(peer, new, changed),
           ~HasPair(peer) => PairRow(new) /\ new.peer = peer,
           HasPair(peer) => PairRow(changed) /\ changed.peer = peer
    PROVE  LET r == IF HasPair(peer) THEN changed ELSE new IN
           /\ PairRows' /\ r \in pairs'
           /\ \A p \in pairs' : p = r \/ (p \in pairs /\ p.peer # peer)
           /\ \A p \in pairs : p.peer # peer => p \in pairs'
  <1>1. CASE HasPair(peer)
    <2>1. pairs' = (pairs \ {PairOf(peer)}) \cup {changed}
      BY <1>1 DEF Upsert
    <2>2. \A p \in pairs : p.peer = peer <=> p = PairOf(peer)
      BY <1>1, PairOfIs
    <2> QED
      BY <1>1, <2>1, <2>2 DEF PairRows, PairRow
  <1>2. CASE ~HasPair(peer)
    <2>1. pairs' = pairs \cup {new}
      BY <1>2 DEF Upsert
    <2>2. \A p \in pairs : p.peer # peer
      BY <1>2 DEF HasPair
    <2> QED
      BY <1>2, <2>1, <2>2 DEF PairRows, PairRow
  <1> QED
    BY <1>1, <1>2

(* What a peer's count becomes, given the peer's row. *)
LEMMA KnownIs ==
    ASSUME PairRows
    PROVE  /\ \A p \in pairs : Known(p.peer) = p.n
           /\ \A peer : (\A p \in pairs : p.peer # peer) => Known(peer) = 0
           /\ \A peer : Known(peer) \in Nat
  <1>1. \A p \in pairs : Known(p.peer) = p.n
    BY PairOfIs DEF Known
  <1>2. \A peer : (\A p \in pairs : p.peer # peer) => Known(peer) = 0
    BY DEF Known, HasPair
  <1>3. \A peer : Known(peer) \in Nat
    BY PairOfIs DEF Known, PairRows, PairRow
  <1> QED
    BY <1>1, <1>2, <1>3

LEMMA KnownStays ==
    ASSUME PairRows, PairRows', NEW peer,
           \/ \E p \in pairs, q \in pairs' : p.peer = peer /\ q.peer = peer /\ p.n = q.n
           \/ (\A p \in pairs : p.peer # peer) /\ (\A p \in pairs' : p.peer # peer)
           \/ (\A p \in pairs : p.peer # peer) /\ (\E p \in pairs' : p.peer = peer /\ p.n = 0)
    PROVE  Known(peer)' = Known(peer)
  <1>1. /\ \A p \in pairs' : Known(p.peer)' = p.n
        /\ (\A p \in pairs' : p.peer # peer) => Known(peer)' = 0
    <2>1. \A p \in pairs' : HasPair(p.peer)' /\ PairOf(p.peer)' = p
      BY DEF PairRows, HasPair, PairOf
    <2> QED
      BY <2>1 DEF Known, HasPair
  <1> QED
    BY <1>1, KnownIs

LEMMA PairingFinite ==
    ASSUME NEW peer
    PROVE  IsFiniteSet(Pairing(peer)) /\ Cardinality(Pairing(peer)) \in Nat
  <1>1. Pairing(peer) \in SUBSET Tasks /\ IsFiniteSet(Tasks)
    BY RecordAssumption DEF Pairing
  <1> QED
    BY <1>1, FS_Subset, FS_CardinalityType

(* Nobody starts anew and rows stay: the ids on record stay drawn. *)
LEMMA TalkRowsKept ==
    ASSUME TalkRows, talks' = talks, saved'.talks = talks \/ saved'.talks = saved.talks,
           ledger'.due = ledger.due,
           \A u \in Tasks : task'[u] = task[u] \/ task'[u] = Free \/ task'[u].pc # "start"
    PROVE  TalkRows'
  <1> DEFINE I == {k.id : k \in talks}
             D == ledger.due
  <1>1. \A u \in Tasks : Starts(task'[u], "record") => Starts(task[u], "record") /\ task'[u].call = task[u].call
    BY DEF Starts
  <1>2. Drawn("record", I, D, task)
    BY DEF TalkRows
  <1>3. I = {k.id : k \in talks'} /\ D = ledger'.due
    OBVIOUS
  <1> HIDE DEF I, D
  <1>4. Drawn("record", I, D, task')
    BY <1>1, <1>2, DrawnKept
  <1> QED
    BY <1>3, <1>4 DEF TalkRows

(* Counts stay where conversations, counts and recording tasks do. *)
LEMMA PairsCountedKept ==
    ASSUME PairsCounted, talks' = talks, ledger'.crashes = ledger.crashes,
           \A peer : Known(peer)' = Known(peer),
           \A u \in Tasks : Doing(u, "record", "pair")' <=> Doing(u, "record", "pair"),
           \A u \in Tasks : Doing(u, "record", "pair") => task'[u].call = task[u].call
    PROVE  PairsCounted'
  <1>1. ASSUME NEW peer \in Peers PROVE Pairing(peer)' = Pairing(peer) /\ TalksWith(peer)' = TalksWith(peer)
    BY DEF Pairing, TalksWith, C
  <1> QED
    BY <1>1 DEF PairsCounted

(* What pairs know stays or grows; nobody being written grows unseen. *)
LEMMA FieldsKept ==
    ASSUME Learnt, OneWriter, ledger'.learnt = ledger.learnt, locks'.identity = locks.identity,
           \A p \in pairs : \E q \in pairs' : q.peer = p.peer /\ p.fields \subseteq q.fields,
           \A q \in pairs' : q.fields = {} \/ \E p \in pairs : p.peer = q.peer /\ q.fields = p.fields,
           \A u \in Tasks : task'[u] = task[u] \/ task'[u] = Free \/ task'[u].pc # "write"
    PROVE  Learnt' /\ OneWriter'
  <1>1. ASSUME NEW l \in ledger.learnt PROVE \E q \in pairs' : q.peer = l.peer /\ l.field \in q.fields
    <2>1. PICK p \in pairs : p.peer = l.peer /\ l.field \in p.fields
      BY <1>1 DEF Learnt
    <2> QED
      BY <2>1
  <1>2. ASSUME NEW u \in Tasks, Writing(task'[u])
        PROVE  locks'.identity = {u} /\ \A q \in pairs' : q.peer = task'[u].call.about => q.fields \subseteq task'[u].seen
    <2>1. task'[u] = task[u] /\ Writing(task[u])
      BY <1>2 DEF Writing
    <2> QED
      BY <2>1 DEF OneWriter, C
  <1> QED
    BY <1>1, <1>2 DEF Learnt, OneWriter, C

LEMMA PairsElsewhere ==
    ASSUME PairInv, pairs' = pairs, saved'.pairs = saved.pairs, talks' = talks, saved'.talks = saved.talks,
           ledger'.due = ledger.due, ledger'.learnt = ledger.learnt, ledger'.crashes = ledger.crashes,
           locks'.identity = locks.identity,
           \A u \in Tasks : \/ task'[u] = task[u]
                            \/ /\ task[u] # Free => C(u).op # "record"
                               /\ task'[u] = Free \/ task'[u].pc \notin {"start", "pair", "write"}
    PROVE  PairInv'
  <1>1. PairRows'
    BY DEF PairInv, PairRows, PairRow
  <1>2. TalkRows'
    BY TalkRowsKept DEF PairInv
  <1>3. \A peer : Known(peer)' = Known(peer)
    BY DEF Known, HasPair, PairOf
  <1>4. \A u \in Tasks : Doing(u, "record", "pair")' <=> Doing(u, "record", "pair")
    BY DEF Doing, C
  <1>5. \A u \in Tasks : Doing(u, "record", "pair") => task'[u].call = task[u].call
    BY DEF Doing, C
  <1>6. PairsCounted'
    BY <1>3, <1>4, <1>5, PairsCountedKept DEF PairInv
  <1>7. Learnt' /\ OneWriter'
    BY FieldsKept DEF PairInv
  <1> QED
    BY <1>1, <1>2, <1>6, <1>7 DEF PairInv

LEMMA PairsCall ==
    ASSUME RecordTypes, PairInv, NEW t \in Tasks, NEW c \in ledger.due, Call(t, c)
    PROVE  PairInv'
  <1>1. /\ pairs' = pairs /\ talks' = talks /\ saved' = saved /\ ledger'.due = ledger.due \ {c}
        /\ ledger'.learnt = ledger.learnt /\ ledger'.crashes = ledger.crashes /\ locks'.identity = locks.identity
        /\ task[t] = Free
    BY DEF Call, RecordTypes
  <1>2. Turns(t, "start", c, {})
    BY CallMoves
  <1>3. PairRows'
    BY <1>1 DEF PairInv, PairRows, PairRow
  <1>4. TalkRows'
    <2> DEFINE I == {k.id : k \in talks}
               D == ledger.due
    <2>1. Drawn("record", I, D, task)
      BY DEF PairInv, TalkRows
    <2>2. task'[t].call = c /\ \A u \in Tasks : u # t => task'[u] = task[u]
      BY <1>2 DEF Turns
    <2>4. I = {k.id : k \in talks'} /\ ledger'.due = D \ {c} /\ c \in D
      BY <1>1
    <2> HIDE DEF I, D
    <2>5. Drawn("record", I, D \ {c}, task')
      BY <2>1, <2>2, <2>4, DrawnCall
    <2> QED
      BY <1>1, <2>4, <2>5 DEF PairInv, TalkRows
  <1>5. PairsCounted'
    <2>1. \A peer : Known(peer)' = Known(peer)
      BY <1>1 DEF Known, HasPair, PairOf
    <2>2. \A u \in Tasks : Doing(u, "record", "pair")' <=> Doing(u, "record", "pair")
      BY <1>1, <1>2 DEF Doing, C, Turns
    <2>3. \A u \in Tasks : Doing(u, "record", "pair") => task'[u].call = task[u].call
      BY <1>1, <1>2 DEF Doing, C, Turns
    <2> QED
      BY <1>1, <2>1, <2>2, <2>3, PairsCountedKept DEF PairInv
  <1>6. \A u \in Tasks : task'[u] = task[u] \/ task'[u] = Free \/ task'[u].pc # "write"
    BY <1>2 DEF Turns
  <1>7. Learnt' /\ OneWriter'
    BY <1>1, <1>6, FieldsKept DEF PairInv
  <1> QED
    BY <1>1, <1>3, <1>4, <1>5, <1>7 DEF PairInv

(* A committed change of pairs by a task that is then done. *)
LEMMA PairsCommitted ==
    ASSUME RecordTypes, PairInv, NEW t \in Tasks, Ends(t), talks' = talks, PairRows',
           (saved'.pairs = pairs' /\ saved'.talks = talks') \/ (pairs' = pairs /\ saved' = saved),
           ledger'.due = ledger.due, PairsCounted', Learnt', OneWriter'
    PROVE  PairInv'
  <1>1. \A u \in Tasks : task'[u] = task[u] \/ task'[u] = Free \/ task'[u].pc # "start"
    BY DEF Ends
  <1>2. TalkRows'
    BY <1>1, TalkRowsKept DEF PairInv
  <1> QED
    BY <1>2 DEF PairInv

LEMMA PairsTrusted ==
    ASSUME RecordTypes, PairInv, NEW t \in Tasks, UpdateTrust(t)
    PROVE  PairInv'
  <1> DEFINE peer == C(t).peer
             new == NewPair(C(t).peer, Clamp(1 + C(t).delta), 0, {})
             changed == [PairOf(C(t).peer) EXCEPT !.trust = Clamp(@ + C(t).delta)]
             r == IF HasPair(peer) THEN changed ELSE new
  <1>1. /\ Upsert(peer, new, changed) /\ talks' = talks /\ saved'.pairs = pairs' /\ saved'.talks = talks'
        /\ ledger' = ledger /\ locks' = locks /\ task[t] # Free /\ C(t).op = "trust"
    BY DEF UpdateTrust, CommitRelations, Commit, RecordTypes, Doing, C
  <1>2. Ends(t)
    BY PledgeMoves
  <1>3. PairRow(new) /\ new.peer = peer /\ new.n = 0 /\ new.fields = {}
    BY DEF NewPair, PairRow
  <1>4. HasPair(peer) => /\ PairOf(peer) \in pairs /\ PairOf(peer).peer = peer
                         /\ PairRow(changed) /\ changed.peer = peer /\ changed.n = PairOf(peer).n
                         /\ changed.fields = PairOf(peer).fields
    BY PairOfIs DEF PairInv, PairRows, PairRow
  <1> HIDE DEF peer, new, changed
  <1>5. /\ PairRows' /\ r \in pairs' /\ r.peer = peer
        /\ \A p \in pairs' : p = r \/ (p \in pairs /\ p.peer # peer)
        /\ \A p \in pairs : p.peer # peer => p \in pairs'
    BY <1>1, <1>3, <1>4, UpsertIs DEF PairInv
  <1>6. \A p \in pairs : p.peer = peer => p.n = r.n /\ p.fields = r.fields
    BY <1>4 DEF PairInv, PairRows, HasPair
  <1>7. (\A p \in pairs : p.peer # peer) => r.n = 0 /\ r.fields = {}
    BY <1>3, <1>4
  <1> HIDE DEF r
  <1>8. ASSUME NEW q PROVE Known(q)' = Known(q)
    <2>1. \/ \E p \in pairs, d \in pairs' : p.peer = q /\ d.peer = q /\ p.n = d.n
          \/ (\A p \in pairs : p.peer # q) /\ (\A p \in pairs' : p.peer # q)
          \/ (\A p \in pairs : p.peer # q) /\ (\E p \in pairs' : p.peer = q /\ p.n = 0)
      BY <1>5, <1>6, <1>7
    <2> QED
      BY <1>5, <2>1, KnownStays DEF PairInv
  <1>9. PairsCounted'
    <2>1. \A u \in Tasks : Doing(u, "record", "pair")' <=> Doing(u, "record", "pair")
      BY <1>1, <1>2 DEF Doing, C, Ends
    <2>2. \A u \in Tasks : Doing(u, "record", "pair") => task'[u].call = task[u].call
      BY <1>1, <1>2 DEF Doing, C, Ends
    <2> QED
      BY <1>1, <1>8, <2>1, <2>2, PairsCountedKept DEF PairInv
  <1>10. Learnt' /\ OneWriter'
    <2>1. \A p \in pairs : \E q \in pairs' : q.peer = p.peer /\ p.fields \subseteq q.fields
      BY <1>5, <1>6
    <2>2. \A q \in pairs' : q.fields = {} \/ \E p \in pairs : p.peer = q.peer /\ q.fields = p.fields
      BY <1>5, <1>6, <1>7
    <2>3. \A u \in Tasks : task'[u] = task[u] \/ task'[u] = Free \/ task'[u].pc # "write"
      BY <1>2 DEF Ends
    <2> QED
      BY <1>1, <2>1, <2>2, <2>3, FieldsKept DEF PairInv
  <1> QED
    BY <1>1, <1>2, <1>5, <1>9, <1>10, PairsCommitted

LEMMA PairsDecay ==
    ASSUME RecordTypes, PairInv, NEW t \in Tasks, ApplyDecay(t)
    PROVE  PairInv'
  <1> DEFINE f(p) == IF p.trust > 1 THEN [p EXCEPT !.trust = @ - 1]
                     ELSE IF p.trust < 1 THEN [p EXCEPT !.trust = @ + 1] ELSE p
  <1>1. /\ pairs' = {f(p) : p \in pairs} /\ talks' = talks
        /\ ledger' = ledger /\ locks' = locks /\ task[t] # Free /\ C(t).op = "decay"
    BY DEF ApplyDecay, Doing, C
  <1>2. (saved'.pairs = pairs' /\ saved'.talks = talks') \/ (pairs' = pairs /\ saved' = saved)
    BY DEF ApplyDecay, CommitRelations, Commit, RecordTypes
  <1>3. Ends(t)
    BY PledgeMoves
  <1>4. \A p \in pairs : PairRow(f(p)) /\ f(p).peer = p.peer /\ f(p).n = p.n /\ f(p).fields = p.fields
    BY DEF PairInv, PairRows, PairRow
  <1> HIDE DEF f
  <1>5. /\ PairRows'
        /\ \A p \in pairs : \E d \in pairs' : d.peer = p.peer /\ p.n = d.n /\ p.fields = d.fields
        /\ \A d \in pairs' : \E p \in pairs : p.peer = d.peer /\ p.fields = d.fields
    <2>1. PairRows'
      <3>1. \A d \in pairs' : PairRow(d)
        BY <1>1, <1>4
      <3>2. ASSUME NEW d \in pairs', NEW b \in pairs', d.peer = b.peer PROVE d = b
        <4>1. PICK p \in pairs : d = f(p)
          BY <1>1
        <4>2. PICK q \in pairs : b = f(q)
          BY <1>1
        <4>3. p = q
          BY <1>4, <3>2, <4>1, <4>2 DEF PairInv, PairRows
        <4> QED
          BY <4>1, <4>2, <4>3
      <3> QED
        BY <3>1, <3>2 DEF PairRows, PairRow
    <2> QED
      BY <1>1, <1>4, <2>1
  <1>6. ASSUME NEW q PROVE Known(q)' = Known(q)
    <2>1. \/ \E p \in pairs, d \in pairs' : p.peer = q /\ d.peer = q /\ p.n = d.n
          \/ (\A p \in pairs : p.peer # q) /\ (\A p \in pairs' : p.peer # q)
      BY <1>5
    <2> QED
      BY <1>5, <2>1, KnownStays DEF PairInv
  <1>7. PairsCounted'
    <2>1. \A u \in Tasks : Doing(u, "record", "pair")' <=> Doing(u, "record", "pair")
      BY <1>1, <1>3 DEF Doing, C, Ends
    <2>2. \A u \in Tasks : Doing(u, "record", "pair") => task'[u].call = task[u].call
      BY <1>1, <1>3 DEF Doing, C, Ends
    <2> QED
      BY <1>1, <1>6, <2>1, <2>2, PairsCountedKept DEF PairInv
  <1>8. Learnt' /\ OneWriter'
    <2>1. \A p \in pairs : \E q \in pairs' : q.peer = p.peer /\ p.fields \subseteq q.fields
      BY <1>5
    <2>2. \A q \in pairs' : q.fields = {} \/ \E p \in pairs : p.peer = q.peer /\ q.fields = p.fields
      BY <1>5
    <2>3. \A u \in Tasks : task'[u] = task[u] \/ task'[u] = Free \/ task'[u].pc # "write"
      BY <1>3 DEF Ends
    <2> QED
      BY <1>1, <2>1, <2>2, <2>3, FieldsKept DEF PairInv
  <1> QED
    BY <1>1, <1>2, <1>3, <1>5, <1>7, <1>8, PairsCommitted

LEMMA PairsTalk ==
    ASSUME RecordTypes, PairInv, NEW t \in Tasks, RecordTalk(t)
    PROVE  PairInv'
  <1> DEFINE k == [id |-> C(t).id, peer |-> C(t).peer, sess |-> NormalSession(C(t).scope.session)]
  <1>1. /\ talks' = talks \cup {k} /\ pairs' = pairs /\ saved' = saved /\ locks' = locks /\ ledger' = ledger
        /\ Starts(task[t], "record")
    BY DEF RecordTalk, Doing, Starts, C
  <1>2. Turns(t, "pair", C(t), task[t].seen)
    BY PledgeMoves
  <1>3. k.id = C(t).id /\ k.peer = C(t).peer
    OBVIOUS
  <1> HIDE DEF k
  <1>4. k \notin talks
    BY <1>1, <1>3 DEF PairInv, TalkRows, Drawn, C
  <1>5. PairRows'
    BY <1>1 DEF PairInv, PairRows, PairRow
  <1>6. TalkRows'
    <2> DEFINE I == {m.id : m \in talks}
               G == {m.id : m \in talks'}
               D == ledger.due
    <2>1. Drawn("record", I, D, task)
      BY DEF PairInv, TalkRows
    <2>2. \A u \in Tasks : Starts(task'[u], "record") => Starts(task[u], "record") /\ task'[u].call = task[u].call
      BY <1>2 DEF Starts, Turns
    <2>3. ~Starts(task'[t], "record")
      BY <1>2 DEF Starts, Turns
    <2>4. \A i \in G : i \in I \/ i = task[t].call.id
      BY <1>1, <1>3 DEF C
    <2>5. D = ledger'.due
      BY <1>1
    <2> HIDE DEF I, G, D
    <2>6. \A i \in G : i \in I \/ \E u \in Tasks : Starts(task[u], "record") /\ ~Starts(task'[u], "record") /\ i = task[u].call.id
      BY <1>1, <2>3, <2>4
    <2>7. Drawn("record", G, D, task')
      BY <2>1, <2>2, <2>6, DrawnKept
    <2>8. IsFiniteSet(talks') /\ saved'.talks \subseteq talks'
      BY <1>1, FS_AddElement DEF PairInv, TalkRows
    <2> QED
      BY <2>5, <2>7, <2>8 DEF TalkRows, G
  <1>7. \A peer : Known(peer)' = Known(peer)
    BY <1>1 DEF Known, HasPair, PairOf
  <1>8. ASSUME ledger'.crashes = 0, NEW peer \in Peers
        PROVE  Cardinality(TalksWith(peer)') = Known(peer) + Cardinality(Pairing(peer)')
    <2>1. Cardinality(TalksWith(peer)) = Known(peer) + Cardinality(Pairing(peer))
      BY <1>1, <1>8 DEF PairInv, PairsCounted
    <2>2. ~Doing(t, "record", "pair")
      BY <1>1 DEF Doing, Starts
    <2>3. /\ Doing(t, "record", "pair")' /\ task'[t].call = C(t) /\ \A u \in Tasks : u # t => task'[u] = task[u]
      BY <1>1, <1>2 DEF Doing, Starts, Turns, C
    <2>4. CASE peer = C(t).peer
      <3>1. TalksWith(peer)' = TalksWith(peer) \cup {k} /\ k \notin TalksWith(peer)
        BY <1>1, <1>3, <1>4, <2>4 DEF TalksWith
      <3>2. Pairing(peer)' = Pairing(peer) \cup {t} /\ t \notin Pairing(peer)
        BY <2>2, <2>3, <2>4 DEF Pairing, Doing, C
      <3>3. IsFiniteSet(TalksWith(peer))
        <4>1. TalksWith(peer) \in SUBSET talks /\ IsFiniteSet(talks)
          BY DEF TalksWith, PairInv, TalkRows
        <4> QED
          BY <4>1, FS_Subset
      <3>4. Cardinality(TalksWith(peer)') = Cardinality(TalksWith(peer)) + 1
        BY <3>1, <3>3, FS_AddElement
      <3>5. Cardinality(Pairing(peer)') = Cardinality(Pairing(peer)) + 1
        BY <3>2, PairingFinite, FS_AddElement
      <3>6. Known(peer) \in Nat /\ Cardinality(Pairing(peer)) \in Nat
        BY KnownIs, PairingFinite DEF PairInv
      <3> QED
        BY <2>1, <3>4, <3>5, <3>6
    <2>5. CASE peer # C(t).peer
      <3>1. TalksWith(peer)' = TalksWith(peer)
        BY <1>1, <1>3, <2>5 DEF TalksWith
      <3>2. Pairing(peer)' = Pairing(peer)
        BY <2>2, <2>3, <2>5 DEF Pairing, Doing, C
      <3> QED
        BY <2>1, <3>1, <3>2
    <2> QED
      BY <2>4, <2>5
  <1>9. PairsCounted'
    BY <1>7, <1>8 DEF PairsCounted
  <1>10. \A u \in Tasks : task'[u] = task[u] \/ task'[u] = Free \/ task'[u].pc # "write"
    BY <1>2 DEF Turns
  <1>11. Learnt' /\ OneWriter'
    BY <1>1, <1>10, FieldsKept DEF PairInv
  <1> QED
    BY <1>1, <1>5, <1>6, <1>9, <1>11 DEF PairInv

LEMMA PairsRecorded ==
    ASSUME RecordTypes, PairInv, NEW t \in Tasks, RecordPair(t)
    PROVE  PairInv'
  <1>0. PICK who : who = C(t).peer
    OBVIOUS
  <1> DEFINE new == NewPair(C(t).peer, 1, 1, {})
             changed == [PairOf(C(t).peer) EXCEPT !.n = @ + 1]
             r == IF HasPair(who) THEN changed ELSE new
  <1>1. /\ Upsert(who, new, changed) /\ talks' = talks /\ saved'.pairs = pairs' /\ saved'.talks = talks'
        /\ ledger' = ledger /\ locks' = locks /\ Doing(t, "record", "pair")
    BY <1>0 DEF RecordPair, CommitRelations, Commit, RecordTypes
  <1>2. Ends(t)
    BY PledgeMoves
  <1>3. PairRow(new) /\ new.peer = who /\ new.n = 1 /\ new.fields = {}
    BY <1>0 DEF NewPair, PairRow
  <1>4. HasPair(who) => /\ PairOf(who) \in pairs /\ PairOf(who).peer = who
                         /\ PairRow(changed) /\ changed.peer = who /\ changed.n = PairOf(who).n + 1
                         /\ changed.fields = PairOf(who).fields
    BY <1>0, PairOfIs DEF PairInv, PairRows, PairRow
  <1>5. Known(who) = IF HasPair(who) THEN PairOf(who).n ELSE 0
    BY DEF Known
  <1>6. who = C(t).peer
    BY <1>0
  <1> HIDE DEF new, changed
  <1>7. /\ PairRows' /\ r \in pairs' /\ r.peer = who
        /\ \A p \in pairs' : p = r \/ (p \in pairs /\ p.peer # who)
        /\ \A p \in pairs : p.peer # who => p \in pairs'
    BY <1>1, <1>3, <1>4, UpsertIs DEF PairInv
  <1>8. \A p \in pairs : p.peer = who => p.fields = r.fields
    BY <1>4 DEF PairInv, PairRows, HasPair
  <1>9. (\A p \in pairs : p.peer # who) => r.fields = {}
    BY <1>3, <1>4
  <1>10. r.n = Known(who) + 1
    BY <1>3, <1>4, <1>5
  <1> HIDE DEF r
  <1>11. Known(who)' = Known(who) + 1
    <2>1. \A p \in pairs' : Known(p.peer)' = p.n
      <3>1. \A p \in pairs' : HasPair(p.peer)' /\ PairOf(p.peer)' = p
        BY <1>7 DEF PairRows, HasPair, PairOf
      <3> QED
        BY <3>1 DEF Known
    <2> QED
      BY <1>7, <1>10, <2>1
  <1>12. ASSUME NEW q, q # who PROVE Known(q)' = Known(q)
    <2>1. \/ \E p \in pairs, d \in pairs' : p.peer = q /\ d.peer = q /\ p.n = d.n
          \/ (\A p \in pairs : p.peer # q) /\ (\A p \in pairs' : p.peer # q)
      BY <1>7, <1>12
    <2> QED
      BY <1>7, <2>1, KnownStays DEF PairInv
  <1>13. ASSUME ledger'.crashes = 0, NEW peer \in Peers
        PROVE  Cardinality(TalksWith(peer)') = Known(peer)' + Cardinality(Pairing(peer)')
    <2>1. Cardinality(TalksWith(peer)) = Known(peer) + Cardinality(Pairing(peer)) /\ TalksWith(peer)' = TalksWith(peer)
      BY <1>1, <1>13 DEF PairInv, PairsCounted, TalksWith
    <2>2. ~Doing(t, "record", "pair")' /\ \A u \in Tasks : u # t => task'[u] = task[u]
      BY <1>2 DEF Doing, Ends
    <2>3. CASE peer = who
      <3>1. Pairing(peer)' = Pairing(peer) \ {t} /\ t \in Pairing(peer)
        BY <1>1, <1>6, <2>2, <2>3 DEF Pairing, Doing, C
      <3>2. Cardinality(Pairing(peer)') = Cardinality(Pairing(peer)) - 1
        BY <3>1, PairingFinite, FS_RemoveElement
      <3>3. Known(peer) \in Nat /\ Cardinality(Pairing(peer)) \in Nat
        BY KnownIs, PairingFinite DEF PairInv
      <3> QED
        BY <1>11, <2>1, <2>3, <3>2, <3>3
    <2>4. CASE peer # who
      <3>1. Pairing(peer)' = Pairing(peer)
        BY <1>1, <1>6, <2>2, <2>4 DEF Pairing, Doing, C
      <3> QED
        BY <1>12, <2>1, <2>4, <3>1
    <2> QED
      BY <2>3, <2>4
  <1>14. PairsCounted'
    BY <1>13 DEF PairsCounted
  <1>15. Learnt' /\ OneWriter'
    <2>1. \A p \in pairs : \E q \in pairs' : q.peer = p.peer /\ p.fields \subseteq q.fields
      BY <1>7, <1>8
    <2>2. \A q \in pairs' : q.fields = {} \/ \E p \in pairs : p.peer = q.peer /\ q.fields = p.fields
      BY <1>7, <1>8, <1>9
    <2>3. \A u \in Tasks : task'[u] = task[u] \/ task'[u] = Free \/ task'[u].pc # "write"
      BY <1>2 DEF Ends
    <2> QED
      BY <1>1, <2>1, <2>2, <2>3, FieldsKept DEF PairInv
  <1> QED
    BY <1>1, <1>2, <1>7, <1>14, <1>15, PairsCommitted

LEMMA IdentityRead ==
    ASSUME RecordTypes, PairInv, NEW t \in Tasks, ReadIdentity(t)
    PROVE  PairInv'
  <1>1. /\ pairs' = pairs /\ talks' = talks /\ saved' = saved /\ ledger' = ledger
        /\ locks.identity = {} /\ locks'.identity = {t} /\ task[t] # Free /\ task[t].pc = "start"
    BY DEF ReadIdentity, WritesIdentity, IdentityFree, RecordTypes, Doing
  <1>2. Turns(t, "write", C(t), IF HasPair(C(t).about) THEN PairOf(C(t).about).fields ELSE {})
    BY PledgeMoves
  <1>3. PairRows'
    BY <1>1 DEF PairInv, PairRows, PairRow
  <1>4. \A u \in Tasks : task'[u] = task[u] \/ task'[u] = Free \/ task'[u].pc # "start"
    BY <1>2 DEF Turns
  <1>5. TalkRows'
    BY <1>1, <1>4, TalkRowsKept DEF PairInv
  <1>6. PairsCounted'
    <2>1. \A peer : Known(peer)' = Known(peer)
      BY <1>1 DEF Known, HasPair, PairOf
    <2>2. \A u \in Tasks : Doing(u, "record", "pair")' <=> Doing(u, "record", "pair")
      BY <1>1, <1>2 DEF Doing, C, Turns
    <2>3. \A u \in Tasks : Doing(u, "record", "pair") => task'[u].call = task[u].call
      BY <1>2 DEF Doing, C, Turns
    <2> QED
      BY <1>1, <2>1, <2>2, <2>3, PairsCountedKept DEF PairInv
  <1>7. Learnt'
    BY <1>1 DEF PairInv, Learnt
  <1>8. ASSUME NEW u \in Tasks, Writing(task'[u])
        PROVE  u = t
    <2>1. u # t => Writing(task[u])
      BY <1>2, <1>8 DEF Turns
    <2> QED
      BY <1>1, <2>1 DEF PairInv, OneWriter
  <1>9. ASSUME NEW p \in pairs, p.peer = task'[t].call.about PROVE p.fields \subseteq task'[t].seen
    <2>1. p.peer = C(t).about /\ task'[t].seen = IF HasPair(C(t).about) THEN PairOf(C(t).about).fields ELSE {}
      BY <1>2, <1>9 DEF Turns
    <2>2. HasPair(p.peer) /\ PairOf(p.peer) = p
      BY PairOfIs DEF PairInv
    <2> QED
      BY <2>1, <2>2
  <1>10. OneWriter'
    BY <1>1, <1>8, <1>9 DEF OneWriter, C
  <1> QED
    BY <1>1, <1>3, <1>5, <1>6, <1>7, <1>10 DEF PairInv

LEMMA IdentityWritten ==
    ASSUME RecordTypes, PairInv, NEW t \in Tasks, WriteIdentity(t)
    PROVE  PairInv'
  <1>0. PICK who : who = C(t).about
    OBVIOUS
  <1> DEFINE merged == MergeIdentity(task[t].seen, C(t).fields)
             new == NewPair(who, 1, 0, merged)
             changed == [PairOf(who) EXCEPT !.fields = merged]
             r == IF HasPair(who) THEN changed ELSE new
  <1>1. /\ Upsert(who, new, changed) /\ talks' = talks /\ saved'.pairs = pairs' /\ saved'.talks = talks'
        /\ ledger'.due = ledger.due /\ ledger'.crashes = ledger.crashes
        /\ ledger'.learnt = ledger.learnt \cup {[peer |-> who, field |-> f] : f \in C(t).fields}
        /\ locks'.identity = {} /\ task[t] # Free /\ task[t].pc = "write" /\ Writing(task[t])
    BY <1>0 DEF WriteIdentity, CommitRelations, Commit, RecordTypes, Writing
  <1>2. Ends(t)
    BY PledgeMoves
  <1>3. PairRow(new) /\ new.peer = who /\ new.n = 0 /\ new.fields = merged
    BY DEF NewPair, PairRow
  <1>4. HasPair(who) => /\ PairOf(who) \in pairs /\ PairOf(who).peer = who
                         /\ PairRow(changed) /\ changed.peer = who /\ changed.n = PairOf(who).n
                         /\ changed.fields = merged
    BY PairOfIs DEF PairInv, PairRows, PairRow
  <1>5. merged = task[t].seen \cup C(t).fields
    BY DEF MergeIdentity
  <1>6. \A p \in pairs : p.peer = who => p.fields \subseteq task[t].seen
    BY <1>0, <1>1 DEF PairInv, OneWriter
  <1> HIDE DEF new, changed, merged
  <1>7. /\ PairRows' /\ r \in pairs' /\ r.peer = who /\ r.fields = merged
        /\ \A p \in pairs' : p = r \/ (p \in pairs /\ p.peer # who)
        /\ \A p \in pairs : p.peer # who => p \in pairs'
    BY <1>1, <1>3, <1>4, UpsertIs DEF PairInv
  <1>8. \A p \in pairs : p.peer = who => p.n = r.n
    BY <1>4 DEF PairInv, PairRows, HasPair
  <1>9. (\A p \in pairs : p.peer # who) => r.n = 0
    BY <1>3, <1>4
  <1> HIDE DEF r
  <1>10. ASSUME NEW q PROVE Known(q)' = Known(q)
    <2>1. \/ \E p \in pairs, d \in pairs' : p.peer = q /\ d.peer = q /\ p.n = d.n
          \/ (\A p \in pairs : p.peer # q) /\ (\A p \in pairs' : p.peer # q)
          \/ (\A p \in pairs : p.peer # q) /\ (\E p \in pairs' : p.peer = q /\ p.n = 0)
      BY <1>7, <1>8, <1>9
    <2> QED
      BY <1>7, <2>1, KnownStays DEF PairInv
  <1>11. PairsCounted'
    <2>1. \A u \in Tasks : Doing(u, "record", "pair")' <=> Doing(u, "record", "pair")
      BY <1>1, <1>2 DEF Doing, C, Ends
    <2>2. \A u \in Tasks : Doing(u, "record", "pair") => task'[u].call = task[u].call
      BY <1>1, <1>2 DEF Doing, C, Ends
    <2> QED
      BY <1>1, <1>10, <2>1, <2>2, PairsCountedKept DEF PairInv
  <1>12. Learnt'
    <2>1. ASSUME NEW l \in ledger'.learnt PROVE \E q \in pairs' : q.peer = l.peer /\ l.field \in q.fields
      <3>1. CASE l \in ledger.learnt
        <4>1. PICK p \in pairs : p.peer = l.peer /\ l.field \in p.fields
          BY <3>1 DEF PairInv, Learnt
        <4> QED
          BY <1>5, <1>6, <1>7, <4>1
      <3>2. CASE l \notin ledger.learnt
        <4>1. l.peer = who /\ l.field \in C(t).fields
          BY <1>1, <2>1, <3>2
        <4> QED
          BY <1>5, <1>7, <4>1
      <3> QED
        BY <3>1, <3>2
    <2> QED
      BY <2>1 DEF Learnt
  <1>13. OneWriter'
    <2>1. \A u \in Tasks : ~Writing(task'[u])
      BY <1>1, <1>2 DEF PairInv, OneWriter, Ends, Writing
    <2> QED
      BY <2>1 DEF OneWriter
  <1> QED
    BY <1>1, <1>2, <1>7, <1>11, <1>12, <1>13, PairsCommitted

LEMMA IdentityLost ==
    ASSUME RecordTypes, PairInv, NEW t \in Tasks, WriteIdentityRaises(t)
    PROVE  PairInv'
  <1>1. /\ pairs' = pairs /\ talks' = talks /\ saved' = saved /\ ledger' = ledger
        /\ locks'.identity = {} /\ task[t] # Free /\ task[t].pc = "write" /\ Writing(task[t])
    BY DEF WriteIdentityRaises, RecordTypes, Writing
  <1>2. /\ \A u \in Tasks : u # t => task'[u] = task[u]
        /\ task'[t] = Free \/ task'[t].pc = "note"
    BY PledgeMoves DEF Ends, Turns
  <1>3. PairRows'
    BY <1>1 DEF PairInv, PairRows, PairRow
  <1>4. TalkRows'
    BY <1>1, <1>2, TalkRowsKept DEF PairInv
  <1>5. PairsCounted'
    <2>1. \A peer : Known(peer)' = Known(peer)
      BY <1>1 DEF Known, HasPair, PairOf
    <2>2. \A u \in Tasks : Doing(u, "record", "pair")' <=> Doing(u, "record", "pair")
      BY <1>1, <1>2 DEF Doing, C
    <2>3. \A u \in Tasks : Doing(u, "record", "pair") => task'[u].call = task[u].call
      BY <1>1, <1>2 DEF Doing, C
    <2> QED
      BY <1>1, <2>1, <2>2, <2>3, PairsCountedKept DEF PairInv
  <1>6. Learnt'
    BY <1>1 DEF PairInv, Learnt
  <1>7. OneWriter'
    <2>1. \A u \in Tasks : ~Writing(task'[u])
      BY <1>1, <1>2 DEF PairInv, OneWriter, Writing
    <2> QED
      BY <2>1 DEF OneWriter
  <1> QED
    BY <1>1, <1>3, <1>4, <1>5, <1>6, <1>7 DEF PairInv

LEMMA PairCrash ==
    ASSUME RecordTypes, PairInv, RecordCrash
    PROVE  PairInv'
  <1>1. /\ pairs' = pairs /\ talks' = saved.talks /\ saved' = saved /\ ledger'.due = ledger.due
        /\ ledger'.learnt = ledger.learnt /\ ledger'.crashes = ledger.crashes + 1
        /\ \A t \in Tasks : task'[t] = Free
    BY DEF RecordCrash, RecordTypes, PairInv
  <1>2. PairRows'
    BY <1>1 DEF PairInv, PairRows, PairRow
  <1>3. TalkRows'
    <2> DEFINE I == {m.id : m \in talks}
               G == {m.id : m \in talks'}
               D == ledger.due
    <2>1. Drawn("record", I, D, task)
      BY DEF PairInv, TalkRows
    <2>2. \A u \in Tasks : ~Starts(task'[u], "record")
      BY <1>1 DEF Starts
    <2>3. talks' \in SUBSET talks
      BY <1>1 DEF PairInv, TalkRows
    <2>4. \A i \in G : i \in I
      BY <2>3
    <2>5. D = ledger'.due
      BY <1>1
    <2> HIDE DEF I, G, D
    <2>6. Drawn("record", G, D, task')
      BY <2>1, <2>2, <2>4, DrawnKept
    <2>7. IsFiniteSet(talks')
      BY <2>3, FS_Subset DEF PairInv, TalkRows
    <2> QED
      BY <1>1, <2>5, <2>6, <2>7 DEF TalkRows, G
  <1>4. PairsCounted'
    BY <1>1 DEF PairsCounted, RecordTypes
  <1>5. Learnt' /\ OneWriter'
    BY <1>1 DEF PairInv, Learnt, OneWriter, Writing
  <1> QED
    BY <1>1, <1>2, <1>3, <1>4, <1>5 DEF PairInv

LEMMA PairSteps == RecordTypes /\ PairInv /\ [RecordNext]_recordVars => PairInv'
  <1> SUFFICES ASSUME RecordTypes, PairInv, [RecordNext]_recordVars PROVE PairInv'
    OBVIOUS
  <1>1. CASE UNCHANGED recordVars
    BY <1>1, PairsElsewhere DEF recordVars
  <1>2. CASE \E p \in pledges : FallsDue(p)
    <2>1. /\ pairs' = pairs /\ talks' = talks /\ ledger' = ledger /\ locks' = locks /\ task' = task
          /\ saved'.pairs = saved.pairs /\ saved'.talks = saved.talks
      BY <1>2 DEF FallsDue, Commit, RecordTypes
    <2> QED
      BY <2>1, PairsElsewhere
  <1>3. CASE RecordCrash
    BY <1>3, PairCrash
  <1>4. ASSUME NEW t \in Tasks, TaskStep(t) PROVE PairInv'
    <2>1. ASSUME PruneNotes(t) \/ InsertNote(t) \/ UpdateNote(t) \/ DeleteNote(t) \/ RecallNotes(t) \/ CountRecall(t)
          PROVE  PairInv'
      <3>1. /\ \A u \in Tasks : u # t => task'[u] = task[u]
            /\ task'[t] = Free \/ task'[t].pc \notin {"start", "pair", "write"}
        BY <2>1, NoteMoves, SMTT(30) DEF Ends, Turns
      <3>2. pairs' = pairs /\ talks' = talks /\ C(t).op # "record"
        BY <2>1, ZenonT(40) DEF PruneNotes, InsertNote, UpdateNote, DeleteNote, RecallNotes, CountRecall, Doing, C
      <3>3. saved'.pairs = saved.pairs /\ saved'.talks = saved.talks
        BY <2>1 DEF PruneNotes, InsertNote, UpdateNote, DeleteNote, RecallNotes, CountRecall, Commit, RecordTypes
      <3>4. ledger'.due = ledger.due /\ ledger'.learnt = ledger.learnt /\ ledger'.crashes = ledger.crashes
        BY <2>1 DEF PruneNotes, InsertNote, UpdateNote, DeleteNote, RecallNotes, CountRecall, RecordTypes
      <3>5. locks'.identity = locks.identity
        BY <2>1 DEF PruneNotes, InsertNote, UpdateNote, DeleteNote, RecallNotes, CountRecall, EndTurn, RecordTypes
      <3> QED
        BY <3>1, <3>2, <3>3, <3>4, <3>5, PairsElsewhere
    <2>2. ASSUME Create(t) \/ CloseUpdate(t) \/ CloseAnswer(t) \/ ListOpen(t) \/ SummaryRow(t) \/ SummaryCount(t)
          PROVE  PairInv'
      <3>1. /\ \A u \in Tasks : u # t => task'[u] = task[u]
            /\ task'[t] = Free \/ task'[t].pc \notin {"start", "pair", "write"}
        BY <2>2, PledgeMoves DEF Ends, Turns
      <3>2. pairs' = pairs /\ talks' = talks /\ locks' = locks /\ C(t).op # "record"
        BY <2>2 DEF Create, CloseUpdate, CloseAnswer, ListOpen, SummaryRow, SummaryCount, Doing, C
      <3>3. saved'.pairs = saved.pairs /\ saved'.talks = saved.talks
        BY <2>2 DEF Create, CloseUpdate, CloseAnswer, ListOpen, SummaryRow, SummaryCount, Commit, RecordTypes
      <3>4. ledger'.due = ledger.due /\ ledger'.learnt = ledger.learnt /\ ledger'.crashes = ledger.crashes
        BY <2>2 DEF Create, CloseUpdate, CloseAnswer, ListOpen, SummaryRow, SummaryCount, Tell, RecordTypes
      <3> QED
        BY <3>1, <3>2, <3>3, <3>4, PairsElsewhere
    <2> QED
      BY <1>4, <2>1, <2>2, PairsCall, PairsTrusted, PairsDecay, PairsTalk, PairsRecorded, IdentityRead, IdentityWritten,
         IdentityLost DEF TaskStep
  <1> QED
    BY <1>1, <1>2, <1>3, <1>4 DEF RecordNext

LEMMA InitPairs == RecordInit => PairInv
  <1> SUFFICES ASSUME RecordInit PROVE PairInv
    OBVIOUS
  <1> PICK S \in Calls : ledger = [due |-> S, told |-> {}, shown |-> {}, learnt |-> {}, gone |-> {}, crashes |-> 0]
    BY DEF RecordInit
  <1> PICK P \in SUBSET Peers : pairs = {SeedTrust(p) : p \in P}
    BY DEF RecordInit
  <1>1. /\ talks = {} /\ saved.talks = {} /\ saved.pairs = pairs /\ ledger.learnt = {}
        /\ \A t \in Tasks : task[t] = Free
    BY DEF RecordInit, Tables
  <1>2. \A p \in pairs : PairRow(p) /\ p.n = 0 /\ p = SeedTrust(p.peer)
    BY DEF SeedTrust, NewPair, PairRow
  <1>3. PairRows
    BY <1>2 DEF PairRows
  <1>4. TalkRows
    <2>1. Drawn("record", {}, ledger.due, task)
      BY InitDrawn
    <2>2. {k.id : k \in talks} = {}
      BY <1>1
    <2> QED
      BY <1>1, <2>1, <2>2, FS_EmptySet DEF TalkRows
  <1>5. PairsCounted
    <2> SUFFICES ASSUME NEW peer \in Peers
                 PROVE  Cardinality(TalksWith(peer)) = Known(peer) + Cardinality(Pairing(peer))
      BY DEF PairsCounted
    <2>1. TalksWith(peer) = {} /\ Pairing(peer) = {}
      BY <1>1 DEF TalksWith, Pairing, Doing
    <2>2. Known(peer) = 0
      BY <1>2, <1>3, PairOfIs DEF Known
    <2> QED
      BY <2>1, <2>2, FS_EmptySet
  <1> QED
    BY <1>1, <1>3, <1>4, <1>5 DEF PairInv, Learnt, OneWriter, Writing

LEMMA PairInvMeans == PairInv => NothingLearntIsLost
  <1> SUFFICES ASSUME PairInv PROVE NothingLearntIsLost
    OBVIOUS
  <1>1. ASSUME NEW l \in ledger.learnt PROVE HasPair(l.peer) /\ l.field \in PairOf(l.peer).fields
    <2>1. PICK p \in pairs : p.peer = l.peer /\ l.field \in p.fields
      BY <1>1 DEF PairInv, Learnt
    <2> QED
      BY <2>1, PairOfIs DEF PairInv
  <1>2. ASSUME \A t \in Tasks : task[t] = Free, ledger.crashes = 0, NEW peer \in Peers
        PROVE  Cardinality({k \in talks : k.peer = peer}) = IF HasPair(peer) THEN PairOf(peer).n ELSE 0
    <2>1. Cardinality(TalksWith(peer)) = Known(peer) + Cardinality(Pairing(peer))
      BY <1>2 DEF PairInv, PairsCounted
    <2>2. Pairing(peer) = {}
      BY <1>2 DEF Pairing, Doing
    <2>3. Known(peer) \in Nat
      BY KnownIs DEF PairInv
    <2>4. Cardinality(TalksWith(peer)) = Known(peer)
      BY <2>1, <2>2, <2>3, FS_EmptySet
    <2> QED
      BY <2>4 DEF TalksWith, Known
  <1> QED
    BY <1>1, <1>2 DEF NothingLearntIsLost

(* Of racing closes one is told it did it and the commitment stays that    *)
(* way; nothing learnt of a person is lost to another call's               *)
(* read-merge-write; and a pair's count is the number of its conversations *)
(* whenever no call is under way and the process never died.               *)
THEOREM RecordsStayWhole == RecordSpec => []NothingIsOverwritten
  <1>1. RecordInit => RecordTypes /\ PledgeInv /\ PairInv
    BY InitRecordTypes, InitPledges, InitPairs
  <1>2. RecordTypes /\ PledgeInv /\ PairInv /\ [RecordNext]_recordVars => (RecordTypes /\ PledgeInv /\ PairInv)'
    BY RecordTypeSteps, PledgeSteps, PairSteps
  <1>3. PledgeInv /\ PairInv => NothingIsOverwritten
    BY PledgeInvMeans, PairInvMeans DEF NothingIsOverwritten
  <1> QED
    BY <1>1, <1>2, <1>3, PTL DEF RecordSpec

(***************************************************************************)
(* Episodes: rows and what the workers plan on them.                       *)
(***************************************************************************)
AllJobs == UNION Jobs
JobFields == {"pc", "call", "now", "ids", "n"}
JobOK(j) == j = Off \/ (DOMAIN j = JobFields /\ j.call \in AllJobs)
BookFields == {"due", "next", "shown", "evicted", "fifo", "read", "kills", "stranded"}
EpisodeTypes ==
    /\ DOMAIN book = BookFields /\ book.due \subseteq AllJobs
    /\ book.next \in Nat /\ book.stranded \in Nat /\ clock \in Nat
    /\ DOMAIN job = Workers /\ \A w \in Workers : JobOK(job[w])
EpisodeFields == {"id", "key", "imp", "conf", "val", "at", "used", "level", "text", "words", "said", "sess", "world"}
EpisodeRow(e) ==
    /\ DOMAIN e = EpisodeFields
    /\ e.id \in Nat /\ e.imp \in Nat /\ e.conf \in Nat /\ e.at \in Nat /\ e.val \in Nat \cup {Unset}
    /\ e.said = e.imp /\ (e.val = Unset => e.conf = Full)
    /\ IsProcedure(e) => e.text # "pending"

(* A row rewritten in place: validated now, or as confident as before. *)
Rewrites(e, d, now) ==
    /\ d.id = e.id /\ d.key = e.key /\ d.sess = e.sess /\ d.world = e.world /\ d.imp = e.imp /\ d.at = e.at
    /\ (d.conf = e.conf /\ d.val = e.val) \/ d.val = now
EpisodeRows ==
    /\ \A e \in eps : EpisodeRow(e) /\ e.id < book.next
    /\ \A e, f \in eps : e.id = f.id => e = f
    /\ \A a, b \in eps : IsProcedure(a) /\ a.key = b.key /\ a.sess = b.sess /\ a.world = b.world => a = b

(* What a worker that yielded relies on. *)
Inserting(j) == j # Off /\ j.call.op = "procedure" /\ j.pc = "insert"
Holding(j) == j # Off /\ j.call.op = "procedure" /\ j.pc \in {"insert", "stamp"}
PlanOK(j, S, now, next) ==
    /\ Inserting(j) => \A e \in S : ~SameProcedure(e, j.call)
    /\ j # Off /\ j.call.op = "evict" /\ j.pc = "delete" =>
         \A i \in j.ids : i \in Nat /\ i < next /\ \A e \in S : e.id = i => ~IsProcedure(e)
    /\ j # Off /\ j.call.op = "evict" /\ j.pc = "forget" =>
         /\ j.now \in Nat /\ j.now <= now
         /\ \A i \in j.ids : i \in Nat /\ i < next
         /\ \A e \in S : e.id \in j.ids /\ Forgettable(e, j.now) => Decayed(e, now) < CMin
ProcedureLocked == \A w \in Workers : Holding(job[w]) => procLock = {w}
PlansOK == \A w \in Workers : PlanOK(job[w], eps, clock, book.next)
ShownOK(s) ==
    /\ s.row.val = Unset => s.conf <= s.row.said
    /\ s.row.world = [principal |-> s.to.principal, epoch |-> s.to.epoch] /\ s.row.text # "pending"
EvictedOK(e, now) == IsProcedure(e) => EpisodeRow(e) /\ Decayed(e, now) < CMin
EpisodeInv ==
    /\ EpisodeTypes /\ EpisodeRows /\ ProcedureLocked /\ PlansOK
    /\ \A s \in book.shown : ShownOK(s)
    /\ \A e \in book.evicted : EvictedOK(e, clock)

LEMMA JobFacts ==
    ASSUME NEW c \in AllJobs
    PROVE  c.imp \in Nat /\ (c.op = "observe" => c.key = Unset) /\ (c.op = "procedure" => c.key # Unset)
  BY EpisodeAssumption DEF AllJobs

LEMMA BaseIsNat ==
    ASSUME NEW e, EpisodeRow(e)
    PROVE  ResolveBase(e) \in Nat /\ Anchor(e) \in Nat /\ \A now \in Nat : Decayed(e, now) \in Nat
  <1>1. ResolveBase(e) \in Nat
    BY DEF EpisodeRow, ResolveBase
  <1>2. Anchor(e) \in Nat
    BY DEF EpisodeRow, Anchor
  <1> QED
    BY <1>1, <1>2 DEF Decayed

(* Confidence only decays as time goes by. *)
LEMMA DecayGoesOn ==
    ASSUME NEW e, EpisodeRow(e), NEW now \in Nat, NEW after \in Nat, now <= after
    PROVE  Decayed(e, after) <= Decayed(e, now)
  <1>1. PICK b \in Nat : b = ResolveBase(e)
    BY BaseIsNat
  <1>2. PICK a \in Nat : a = Anchor(e)
    BY BaseIsNat
  <1> QED
    BY <1>1, <1>2 DEF Decayed

LEMMA DecayBelow ==
    ASSUME NEW e, EpisodeRow(e), NEW now \in Nat, NEW after \in Nat, now <= after, Decayed(e, now) < CMin
    PROVE  Decayed(e, after) < CMin
  BY DecayGoesOn, BaseIsNat, EpisodeAssumption

LEMMA RewriteKeepsPlans ==
    ASSUME NEW j, NEW S, NEW T, NEW now \in Nat, NEW next, PlanOK(j, S, now, next),
           \A d \in T : EpisodeRow(d) /\ \E e \in S : EpisodeRow(e) /\ Rewrites(e, d, now)
    PROVE  PlanOK(j, T, now, next)
  <1>1. ASSUME Inserting(j), NEW d \in T PROVE ~SameProcedure(d, j.call)
    <2>1. PICK e \in S : Rewrites(e, d, now)
      BY <1>1
    <2> QED
      BY <1>1, <2>1 DEF PlanOK, SameProcedure, InScope, Rewrites
  <1>2. ASSUME j # Off, j.call.op = "evict", j.pc = "delete", NEW i \in j.ids, NEW d \in T, d.id = i PROVE ~IsProcedure(d)
    <2>1. PICK e \in S : Rewrites(e, d, now)
      BY <1>2
    <2> QED
      BY <1>2, <2>1 DEF PlanOK, IsProcedure, Rewrites
  <1>3. ASSUME j # Off, j.call.op = "evict", j.pc = "forget", NEW d \in T, d.id \in j.ids, Forgettable(d, j.now)
        PROVE  Decayed(d, now) < CMin
    <2>1. PICK e \in S : EpisodeRow(e) /\ Rewrites(e, d, now)
      BY <1>3
    <2>2. j.now \in Nat /\ j.now <= now
      BY <1>3 DEF PlanOK
    <2>3. d.val # now
      BY <1>3, <2>2, EpisodeAssumption DEF Forgettable
    <2>4. d.conf = e.conf /\ d.val = e.val /\ d.imp = e.imp /\ d.at = e.at /\ d.id = e.id
      BY <2>1, <2>3 DEF Rewrites
    <2>5. Decayed(d, now) = Decayed(e, now)
      BY <2>4 DEF Decayed, ResolveBase, Anchor
    <2>6. Forgettable(e, j.now)
      BY <1>3, <2>4 DEF Forgettable
    <2> QED
      BY <1>3, <2>4, <2>5, <2>6 DEF PlanOK
  <1> QED
    BY <1>1, <1>2, <1>3 DEF PlanOK

LEMMA InsertKeepsPlans ==
    ASSUME NEW j, NEW S, NEW now, NEW next \in Nat, NEW r, PlanOK(j, S, now, next), r.id = next,
           Inserting(j) => r.key = Unset /\ j.call.key # Unset
    PROVE  PlanOK(j, S \cup {r}, now, next + 1)
  <1>1. Inserting(j) => ~SameProcedure(r, j.call)
    BY DEF SameProcedure
  <1>2. j # Off /\ j.call.op = "evict" /\ j.pc \in {"delete", "forget"} => r.id \notin j.ids /\ \A i \in j.ids : i \in Nat /\ i < next
    BY DEF PlanOK
  <1> QED
    BY <1>1, <1>2 DEF PlanOK

LEMMA TimeKeepsPlans ==
    ASSUME NEW j, NEW S, NEW now \in Nat, NEW next, PlanOK(j, S, now, next), \A e \in S : EpisodeRow(e)
    PROVE  PlanOK(j, S, now + 1, next)
  <1>1. ASSUME j # Off, j.call.op = "evict", j.pc = "forget", NEW d \in S, d.id \in j.ids, Forgettable(d, j.now)
        PROVE  Decayed(d, now + 1) < CMin
    <2>1. Decayed(d, now) < CMin
      BY <1>1 DEF PlanOK
    <2> QED
      BY <2>1, DecayBelow
  <1>2. j # Off /\ j.call.op = "evict" /\ j.pc = "forget" => j.now \in Nat /\ j.now <= now + 1
    BY DEF PlanOK
  <1> QED
    BY <1>1, <1>2 DEF PlanOK

JobQuits(w) == DOMAIN job' = Workers /\ job'[w] = Off /\ \A u \in Workers : u # w => job'[u] = job[u]
JobMoves(w, pc, call, now, ids) ==
    /\ DOMAIN job' = Workers /\ \A u \in Workers : u # w => job'[u] = job[u]
    /\ job'[w] # Off /\ DOMAIN job'[w] = JobFields
    /\ job'[w].pc = pc /\ job'[w].call = call /\ job'[w].now = now /\ job'[w].ids = ids

LEMMA JobShape ==
    ASSUME EpisodeTypes, NEW w \in Workers
    PROVE  /\ job[w] # Off => DOMAIN job[w] = JobFields /\ J(w) \in AllJobs
           /\ Done(w) => JobQuits(w)
           /\ job[w] # Off => \A pc : pc # "off" /\ Then(w, pc) => JobMoves(w, pc, J(w), job[w].now, job[w].ids)
           /\ job[w] # Off => \A pc, ids : pc # "off" /\ job' = [job EXCEPT ![w].pc = pc, ![w].ids = ids]
                => JobMoves(w, pc, J(w), job[w].now, ids)
  <1>1. job[w] # Off => DOMAIN job[w] = JobFields /\ J(w) \in AllJobs
    BY DEF EpisodeTypes, JobOK, J
  <1>2. Done(w) => JobQuits(w)
    BY DEF Done, JobQuits, EpisodeTypes
  <1>3. ASSUME job[w] # Off, NEW pc, pc # "off", Then(w, pc) PROVE JobMoves(w, pc, J(w), job[w].now, job[w].ids)
    BY <1>1, <1>3 DEF Then, JobMoves, EpisodeTypes, J, Off, JobFields
  <1>4. ASSUME job[w] # Off, NEW pc, NEW ids, pc # "off", job' = [job EXCEPT ![w].pc = pc, ![w].ids = ids]
        PROVE  JobMoves(w, pc, J(w), job[w].now, ids)
    BY <1>1, <1>4 DEF JobMoves, EpisodeTypes, J, Off, JobFields
  <1> QED
    BY <1>1, <1>2, <1>3, <1>4

LEMMA StartMoves ==
    ASSUME EpisodeTypes, NEW w \in Workers, NEW c \in book.due, Start(w, c)
    PROVE  c \in AllJobs /\ JobMoves(w, "start", c, clock, {})
  BY DEF EpisodeTypes, Start, JobMoves, Off, JobFields

(* The workers that yield after the step, by where they then stand. *)
LEMMA EpisodeMoves ==
    ASSUME EpisodeTypes, NEW w \in Workers
    PROVE  /\ \/ StoreEpisode(w) \/ UpdateSummary(w) \/ Reinforce(w) \/ StampProcedure(w) \/ RetrieveProcedures(w)
              \/ DeleteForgotten(w) \/ EndSummaries(w) \/ DeleteOld(w) \/ DeleteEpisode(w)
              \/ EnforceFifoCap(w) \/ ReadPool(w)
              => JobQuits(w)
           /\ Recalled(w) => \E ids : JobMoves(w, "reinforce", J(w), job[w].now, ids)
           /\ InsertProcedure(w) => JobMoves(w, "stamp", J(w), job[w].now, {book.next})
           /\ EvictTtl(w) => JobMoves(w, "count", J(w), job[w].now, job[w].ids)
           /\ CountPlain(w) => \E pc \in {"select", "procedures"} : JobMoves(w, pc, J(w), job[w].now, job[w].ids)
           /\ DeleteVictims(w) => JobMoves(w, "procedures", J(w), job[w].now, job[w].ids)
           /\ SelectOld(w) => \E ids : JobMoves(w, "ask", J(w), job[w].now, ids)
           /\ SummarizeOne(w) => \E ids : JobMoves(w, "ask", J(w), job[w].now, ids)
           /\ Publish(w) => JobQuits(w) \/ JobMoves(w, "cap", J(w), job[w].now, job[w].ids)
           /\ RefreshProcedure(w) => \/ JobQuits(w) /\ procLock' = procLock
                                     \/ JobMoves(w, "insert", J(w), job[w].now, job[w].ids) /\ procLock' = {w}
  <1>1. \/ StoreEpisode(w) \/ UpdateSummary(w) \/ Reinforce(w) \/ StampProcedure(w) \/ RetrieveProcedures(w)
        \/ DeleteForgotten(w) \/ EndSummaries(w) \/ DeleteOld(w) \/ DeleteEpisode(w)
        \/ EnforceFifoCap(w) \/ ReadPool(w)
        => JobQuits(w)
    BY JobShape DEF StoreEpisode, UpdateSummary, Reinforce, StampProcedure, RetrieveProcedures, DeleteForgotten,
       EndSummaries, DeleteOld, DeleteEpisode, EnforceFifoCap, ReadPool
  <1>2. ASSUME Recalled(w) PROVE \E ids : JobMoves(w, "reinforce", J(w), job[w].now, ids)
    <2>1. job[w] # Off /\ \E ids : job' = [job EXCEPT ![w].pc = "reinforce", ![w].ids = ids]
      BY <1>2, Zenon DEF Recalled, On
    <2> QED
      BY <2>1, JobShape
  <1>3. InsertProcedure(w) => JobMoves(w, "stamp", J(w), job[w].now, {book.next})
    BY JobShape DEF InsertProcedure, On
  <1>4. EvictTtl(w) => JobMoves(w, "count", J(w), job[w].now, job[w].ids)
    BY JobShape DEF EvictTtl, On
  <1>5. ASSUME CountPlain(w) PROVE \E pc \in {"select", "procedures"} : JobMoves(w, pc, J(w), job[w].now, job[w].ids)
    <2>1. job[w] # Off /\ \E pc \in {"select", "procedures"} : \E n : job' = [job EXCEPT ![w].pc = pc, ![w].n = n]
      BY <1>5 DEF CountPlain, On
    <2>2. PICK pc \in {"select", "procedures"} : \E n : job' = [job EXCEPT ![w].pc = pc, ![w].n = n]
      BY <2>1
    <2>3. PICK n : job' = [job EXCEPT ![w].pc = pc, ![w].n = n]
      BY <2>2
    <2>4. DOMAIN job[w] = JobFields /\ DOMAIN job = Workers
      BY <2>1, JobShape DEF EpisodeTypes
    <2>5. JobMoves(w, pc, J(w), job[w].now, job[w].ids)
      BY <2>1, <2>2, <2>3, <2>4 DEF JobMoves, J, Off, JobFields
    <2> QED
      BY <2>5
  <1>6. DeleteVictims(w) => JobMoves(w, "procedures", J(w), job[w].now, job[w].ids)
    BY JobShape DEF DeleteVictims, On
  <1>7. ASSUME SelectOld(w) PROVE \E ids : JobMoves(w, "ask", J(w), job[w].now, ids)
    <2>1. job[w] # Off /\ \E ids : job' = [job EXCEPT ![w].pc = "ask", ![w].ids = ids]
      BY <1>7, Zenon DEF SelectOld, On
    <2> QED
      BY <2>1, JobShape
  <1>8. ASSUME SummarizeOne(w) PROVE \E ids : JobMoves(w, "ask", J(w), job[w].now, ids)
    <2>1. job[w] # Off /\ job[w].pc = "ask" /\ \E ids : job' = [job EXCEPT ![w].ids = @ \ ids]
      BY <1>8 DEF SummarizeOne, On
    <2>2. PICK ids : job' = [job EXCEPT ![w].ids = @ \ ids]
      BY <2>1
    <2>3. DOMAIN job[w] = JobFields /\ DOMAIN job = Workers
      BY <2>1, JobShape DEF EpisodeTypes
    <2>4. JobMoves(w, "ask", J(w), job[w].now, job[w].ids \ ids)
      BY <2>1, <2>2, <2>3 DEF JobMoves, J, Off, JobFields
    <2> QED
      BY <2>4
  <1>9. Publish(w) => JobQuits(w) \/ JobMoves(w, "cap", J(w), job[w].now, job[w].ids)
    BY JobShape DEF Publish, On
  <1>10. RefreshProcedure(w) => \/ JobQuits(w) /\ procLock' = procLock
                                \/ JobMoves(w, "insert", J(w), job[w].now, job[w].ids) /\ procLock' = {w}
    BY JobShape DEF RefreshProcedure, On
  <1> QED
    BY <1>1, <1>2, <1>3, <1>4, <1>5, <1>6, <1>7, <1>8, <1>9, <1>10

LEMMA EpisodeSelects ==
    ASSUME EpisodeTypes, NEW w \in Workers
    PROVE  /\ SelectVictims(w) => \E ids : ids \subseteq {e.id : e \in Plain} /\ JobMoves(w, "delete", J(w), job[w].now, ids)
           /\ SelectForgotten(w) => JobMoves(w, "forget", J(w), clock,
                                      {e.id : e \in {r \in eps : IsProcedure(r) /\ Decayed(r, clock) < CMin}})
  <1>1. ASSUME SelectVictims(w)
        PROVE  \E ids : ids \subseteq {e.id : e \in Plain} /\ JobMoves(w, "delete", J(w), job[w].now, ids)
    <2>1. job[w] # Off /\ \E ids : ids \subseteq {e.id : e \in Plain} /\ job' = [job EXCEPT ![w].pc = "delete", ![w].ids = ids]
      BY <1>1 DEF SelectVictims, On, Lowest
    <2> QED
      BY <2>1, JobShape
  <1>2. ASSUME SelectForgotten(w)
        PROVE  JobMoves(w, "forget", J(w), clock, {e.id : e \in {r \in eps : IsProcedure(r) /\ Decayed(r, clock) < CMin}})
    <2> DEFINE A == {e.id : e \in {r \in eps : IsProcedure(r) /\ Decayed(r, clock) < CMin}}
    <2>1. job[w] # Off /\ job' = [job EXCEPT ![w].pc = "forget", ![w].now = clock, ![w].ids = A]
      BY <1>2 DEF SelectForgotten, On
    <2>2. DOMAIN job[w] = JobFields /\ DOMAIN job = Workers
      BY <2>1, JobShape DEF EpisodeTypes
    <2> HIDE DEF A
    <2>3. JobMoves(w, "forget", J(w), clock, A)
      BY <2>1, <2>2 DEF JobMoves, J, Off, JobFields
    <2> QED
      BY <2>3 DEF A
  <1> QED
    BY <1>1, <1>2

LEMMA EpisodeTypesKept ==
    ASSUME EpisodeTypes, NEW w \in Workers,
           JobQuits(w) \/ \E pc, c, now, ids : c \in AllJobs /\ JobMoves(w, pc, c, now, ids),
           DOMAIN book' = DOMAIN book, book'.due \subseteq book.due, book'.next \in Nat,
           book'.stranded = book.stranded, clock' = clock
    PROVE  EpisodeTypes'
  <1>1. DOMAIN job' = Workers /\ \A u \in Workers : JobOK(job[u])'
    BY DEF JobQuits, JobMoves, EpisodeTypes, JobOK
  <1> QED
    BY <1>1 DEF EpisodeTypes

LEMMA EpisodeTypeSteps ==
    ASSUME EpisodeTypes, NEW w \in Workers, WorkerStep(w)
    PROVE  EpisodeTypes'
  <1>1. JobQuits(w) \/ \E pc, c, now, ids : c \in AllJobs /\ JobMoves(w, pc, c, now, ids)
    <2>1. ASSUME NEW c \in book.due, Start(w, c) PROVE \E pc, d, now, ids : d \in AllJobs /\ JobMoves(w, pc, d, now, ids)
      BY <2>1, StartMoves
    <2>2. ASSUME ~\E c \in book.due : Start(w, c)
          PROVE JobQuits(w) \/ \E pc, c, now, ids : c \in AllJobs /\ JobMoves(w, pc, c, now, ids)
      <3>1. job[w] # Off
        BY <2>2, Zenon DEF WorkerStep, StoreEpisode, UpdateSummary, Recalled, Reinforce, RefreshProcedure, InsertProcedure,
           StampProcedure, RetrieveProcedures, EvictTtl, CountPlain, SelectVictims, DeleteVictims, SelectForgotten,
           DeleteForgotten, SelectOld, SummarizeOne, EndSummaries, DeleteOld, DeleteEpisode, Publish, EnforceFifoCap,
           ReadPool, On
      <3>2. J(w) \in AllJobs
        BY <3>1, JobShape
      <3>3. JobQuits(w) \/ \E pc, now, ids : JobMoves(w, pc, J(w), now, ids)
        BY <2>2, EpisodeMoves, EpisodeSelects DEF WorkerStep
      <3> QED
        BY <3>2, <3>3, SMTT(30)
    <2> QED
      BY <2>1, <2>2
  <1>2. /\ DOMAIN book' = DOMAIN book /\ book'.due \subseteq book.due /\ book'.next \in Nat
        /\ book'.stranded = book.stranded /\ clock' = clock
    <2>1. ASSUME NEW c \in book.due, Start(w, c)
          PROVE  /\ DOMAIN book' = DOMAIN book /\ book'.due \subseteq book.due /\ book'.next = book.next
                 /\ book'.stranded = book.stranded /\ clock' = clock
      BY <2>1 DEF Start, EpisodeTypes, BookFields
    <2>2. ASSUME \/ StoreEpisode(w) \/ InsertProcedure(w) \/ Publish(w)
          PROVE  /\ DOMAIN book' = DOMAIN book /\ book'.due = book.due /\ book'.next \in {book.next, book.next + 1}
                 /\ book'.stranded = book.stranded /\ clock' = clock
      BY <2>2 DEF StoreEpisode, InsertProcedure, Publish, Insert, EpisodeTypes, BookFields
    <2>3. ASSUME \/ Recalled(w) \/ RetrieveProcedures(w) \/ EvictTtl(w) \/ DeleteVictims(w) \/ DeleteForgotten(w)
                 \/ EnforceFifoCap(w) \/ ReadPool(w)
          PROVE  /\ DOMAIN book' = DOMAIN book /\ book'.due = book.due /\ book'.next = book.next
                 /\ book'.stranded = book.stranded /\ clock' = clock
      <3>1. /\ clock' = clock
            /\ \/ book' = book
               \/ \E x : book' = [book EXCEPT !.shown = @ \cup x]
               \/ \E x : book' = [book EXCEPT !.evicted = @ \cup x]
               \/ \E x : book' = [book EXCEPT !.fifo = @ \cup x]
               \/ \E x : book' = [book EXCEPT !.read = @ \cup x]
        <4>1. clock' = clock
          BY <2>3 DEF Recalled, RetrieveProcedures, EvictTtl, DeleteVictims, DeleteForgotten, EnforceFifoCap, ReadPool
        <4>2. Recalled(w) \/ RetrieveProcedures(w) => \E x : book' = [book EXCEPT !.shown = @ \cup x]
          BY Zenon DEF Recalled, RetrieveProcedures
        <4>3. EvictTtl(w) \/ DeleteVictims(w) \/ DeleteForgotten(w) => \E x : book' = [book EXCEPT !.evicted = @ \cup x]
          BY Zenon DEF EvictTtl, DeleteVictims, DeleteForgotten, Evict
        <4>4. EnforceFifoCap(w) => \E x : book' = [book EXCEPT !.fifo = @ \cup x]
          BY Zenon DEF EnforceFifoCap
        <4>5. ReadPool(w) => book' = book \/ \E x : book' = [book EXCEPT !.read = @ \cup x]
          BY ZenonT(40) DEF ReadPool
        <4> QED
          BY <2>3, <4>1, <4>2, <4>3, <4>4, <4>5
      <3> QED
        BY <3>1 DEF EpisodeTypes, BookFields
    <2>4. ASSUME \/ UpdateSummary(w) \/ Reinforce(w) \/ RefreshProcedure(w) \/ StampProcedure(w) \/ CountPlain(w)
                 \/ SelectVictims(w) \/ SelectForgotten(w) \/ SelectOld(w) \/ SummarizeOne(w) \/ EndSummaries(w)
                 \/ DeleteOld(w) \/ DeleteEpisode(w)
          PROVE  book' = book /\ clock' = clock
      BY <2>4, Zenon DEF UpdateSummary, Reinforce, RefreshProcedure, StampProcedure, CountPlain, SelectVictims,
         SelectForgotten, SelectOld, SummarizeOne, EndSummaries, DeleteOld, DeleteEpisode
    <2>5. book.next \in Nat
      BY DEF EpisodeTypes
    <2> QED
      BY <2>1, <2>2, <2>3, <2>4, <2>5 DEF WorkerStep
  <1> QED
    BY <1>1, <1>2, EpisodeTypesKept

(* Rows change in place or go, in a step of one worker. *)
QuietJob(j) == j = Off \/ j.pc \notin {"insert", "stamp", "delete", "forget"}
LEMMA QuietPlan ==
    ASSUME NEW j, QuietJob(j), NEW S, NEW now, NEW next
    PROVE  PlanOK(j, S, now, next) /\ ~Holding(j)
  BY DEF QuietJob, PlanOK, Inserting, Holding

LEMMA EpisodesRewritten ==
    ASSUME EpisodeInv, EpisodeTypes', NEW w \in Workers, clock' = clock, book'.next = book.next,
           \A d \in eps' : EpisodeRow(d) /\ \E e \in eps : Rewrites(e, d, clock),
           \A d, b \in eps' : d.id = b.id => d = b,
           \A u \in Workers : u # w => job'[u] = job[u],
           QuietJob(job'[w]),
           procLock' = procLock \/ Holding(job[w]),
           \A s \in book'.shown : s \in book.shown \/ ShownOK(s),
           \A e \in book'.evicted : e \in book.evicted \/ EvictedOK(e, clock)
    PROVE  EpisodeInv'
  <1>1. EpisodeRows'
    <2>1. ASSUME NEW d \in eps' PROVE EpisodeRow(d) /\ d.id < book'.next
      <3>1. PICK e \in eps : Rewrites(e, d, clock)
        BY <2>1
      <3> QED
        BY <2>1, <3>1 DEF Rewrites, EpisodeInv, EpisodeRows
    <2>2. ASSUME NEW a \in eps', NEW b \in eps', IsProcedure(a), a.key = b.key, a.sess = b.sess, a.world = b.world
          PROVE  a = b
      <3>1. PICK e \in eps : Rewrites(e, a, clock)
        BY <2>2
      <3>2. PICK f \in eps : Rewrites(f, b, clock)
        BY <2>2
      <3>3. e = f
        <4>1. IsProcedure(e) /\ e.key = f.key /\ e.sess = f.sess /\ e.world = f.world
          BY <2>2, <3>1, <3>2 DEF Rewrites, IsProcedure
        <4>2. \A x, y \in eps : IsProcedure(x) /\ x.key = y.key /\ x.sess = y.sess /\ x.world = y.world => x = y
          BY DEF EpisodeInv, EpisodeRows
        <4> QED
          BY <4>1, <4>2
      <3>4. a.id = b.id
        BY <3>1, <3>2, <3>3 DEF Rewrites
      <3> QED
        BY <3>4
    <2> QED
      BY <2>1, <2>2 DEF EpisodeRows
  <1>2. ASSUME NEW u \in Workers PROVE PlanOK(job'[u], eps', clock, book.next)
    <2>1. CASE u = w
      BY <2>1, QuietPlan
    <2>2. CASE u # w
      <3>1. PlanOK(job[u], eps, clock, book.next) /\ clock \in Nat
        BY DEF EpisodeInv, PlansOK, EpisodeTypes
      <3>2. \A d \in eps' : EpisodeRow(d) /\ \E e \in eps : EpisodeRow(e) /\ Rewrites(e, d, clock)
        BY DEF EpisodeInv, EpisodeRows
      <3> QED
        BY <2>2, <3>1, <3>2, RewriteKeepsPlans
    <2> QED
      BY <2>1, <2>2
  <1>3. PlansOK'
    BY <1>2 DEF PlansOK
  <1>4. ProcedureLocked'
    <2> SUFFICES ASSUME NEW u \in Workers, Holding(job'[u]) PROVE procLock' = {u}
      BY DEF ProcedureLocked
    <2>1. u # w /\ Holding(job[u])
      BY QuietPlan
    <2>2. procLock = {u}
      BY <2>1 DEF EpisodeInv, ProcedureLocked
    <2> QED
      BY <2>1, <2>2 DEF EpisodeInv, ProcedureLocked
  <1>5. \A s \in book'.shown : ShownOK(s)
    BY DEF EpisodeInv
  <1>6. \A e \in book'.evicted : EvictedOK(e, clock')
    BY DEF EpisodeInv
  <1> QED
    BY <1>1, <1>3, <1>4, <1>5, <1>6 DEF EpisodeInv

LEMMA EpisodesDropped ==
    ASSUME EpisodeInv, EpisodeTypes', NEW w \in Workers, clock' = clock, book'.next = book.next, eps' \subseteq eps,
           \A u \in Workers : u # w => job'[u] = job[u], QuietJob(job'[w]), procLock' = procLock,
           \A s \in book'.shown : s \in book.shown \/ ShownOK(s),
           \A e \in book'.evicted : e \in book.evicted \/ EvictedOK(e, clock)
    PROVE  EpisodeInv'
  <1>1. \A d \in eps' : EpisodeRow(d) /\ \E e \in eps : Rewrites(e, d, clock)
    BY DEF EpisodeInv, EpisodeRows, Rewrites
  <1>2. \A d, b \in eps' : d.id = b.id => d = b
    BY DEF EpisodeInv, EpisodeRows
  <1> QED
    BY <1>1, <1>2, EpisodesRewritten

LEMMA EpisodesImage ==
    ASSUME EpisodeInv, EpisodeTypes', NEW w \in Workers, clock' = clock, book' = book,
           NEW f, eps' = {f[e] : e \in eps}, \A e \in eps : EpisodeRow(f[e]) /\ Rewrites(e, f[e], clock),
           \A u \in Workers : u # w => job'[u] = job[u], QuietJob(job'[w]), procLock' = procLock \/ Holding(job[w])
    PROVE  EpisodeInv'
  <1>1. \A d \in eps' : EpisodeRow(d) /\ \E e \in eps : Rewrites(e, d, clock)
    OBVIOUS
  <1>2. ASSUME NEW d \in eps', NEW b \in eps', d.id = b.id PROVE d = b
    <2>1. PICK e \in eps : d = f[e]
      OBVIOUS
    <2>2. PICK g \in eps : b = f[g]
      OBVIOUS
    <2>3. e.id = g.id
      BY <1>2, <2>1, <2>2 DEF Rewrites
    <2>4. e = g
      BY <2>3 DEF EpisodeInv, EpisodeRows
    <2> QED
      BY <2>1, <2>2, <2>4
  <1> QED
    BY <1>1, <1>2, EpisodesRewritten

LEMMA EpisodeStarts ==
    ASSUME EpisodeInv, NEW w \in Workers, NEW c \in book.due, Start(w, c)
    PROVE  EpisodeInv'
  <1>1. EpisodeTypes /\ EpisodeTypes'
    BY EpisodeTypeSteps DEF EpisodeInv, WorkerStep
  <1>2. /\ eps' = eps /\ procLock' = procLock /\ clock' = clock
        /\ book'.next = book.next /\ book'.shown = book.shown /\ book'.evicted = book.evicted
    BY <1>1 DEF Start, EpisodeTypes, BookFields
  <1>3. QuietJob(job'[w]) /\ \A u \in Workers : u # w => job'[u] = job[u]
    BY <1>1, StartMoves DEF JobMoves, QuietJob
  <1> QED
    BY <1>1, <1>2, <1>3, EpisodesDropped

LEMMA EpisodesDeleted ==
    ASSUME EpisodeInv, NEW w \in Workers, DeleteOld(w) \/ DeleteEpisode(w) \/ CountPlain(w) \/ SelectOld(w) \/ EndSummaries(w)
    PROVE  EpisodeInv'
  <1>1. EpisodeTypes /\ EpisodeTypes'
    BY EpisodeTypeSteps DEF EpisodeInv, WorkerStep
  <1>2. eps' \subseteq eps /\ procLock' = procLock /\ clock' = clock /\ book' = book
    BY DEF DeleteOld, DeleteEpisode, CountPlain, SelectOld, EndSummaries
  <1>3. QuietJob(job'[w]) /\ \A u \in Workers : u # w => job'[u] = job[u]
    BY <1>1, EpisodeMoves DEF JobMoves, JobQuits, QuietJob
  <1> QED
    BY <1>1, <1>2, <1>3, EpisodesDropped

LEMMA EpisodesSummarized ==
    ASSUME EpisodeInv, NEW w \in Workers, UpdateSummary(w) \/ Reinforce(w) \/ SummarizeOne(w)
    PROVE  EpisodeInv'
  <1>1. EpisodeTypes /\ EpisodeTypes' /\ clock \in Nat
    BY EpisodeTypeSteps DEF EpisodeInv, WorkerStep, EpisodeTypes
  <1>2. procLock' = procLock /\ clock' = clock /\ book' = book
    BY DEF UpdateSummary, Reinforce, SummarizeOne
  <1>3. QuietJob(job'[w]) /\ \A u \in Workers : u # w => job'[u] = job[u]
    BY <1>1, EpisodeMoves DEF JobMoves, JobQuits, QuietJob
  <1>4. \A e \in eps : EpisodeRow(e)
    BY DEF EpisodeInv, EpisodeRows
  <1>5. CASE UpdateSummary(w)
    <2> DEFINE f == [e \in eps |-> IF e.id = J(w).id /\ e.text = "pending" THEN [e EXCEPT !.text = "said"] ELSE e]
    <2>1. eps' = {f[e] : e \in eps}
      BY <1>5, Zenon DEF UpdateSummary
    <2>2. \A e \in eps : EpisodeRow(f[e]) /\ Rewrites(e, f[e], clock)
      BY <1>4 DEF EpisodeRow, Rewrites, IsProcedure, EpisodeFields
    <2> HIDE DEF f
    <2> QED
      BY <1>1, <1>2, <1>3, <2>1, <2>2, EpisodesImage
  <1>6. CASE Reinforce(w)
    <2> DEFINE f == [e \in eps |-> IF e.id \in job[w].ids THEN [e EXCEPT !.used = @ + 1] ELSE e]
    <2>1. eps' = {f[e] : e \in eps}
      BY <1>6, Zenon DEF Reinforce
    <2>2. \A e \in eps : EpisodeRow(f[e]) /\ Rewrites(e, f[e], clock)
      BY <1>4 DEF EpisodeRow, Rewrites, IsProcedure, EpisodeFields
    <2> HIDE DEF f
    <2> QED
      BY <1>1, <1>2, <1>3, <2>1, <2>2, EpisodesImage
  <1>7. CASE SummarizeOne(w)
    <2> DEFINE id == CHOOSE x \in job[w].ids : \A y \in job[w].ids : x <= y
    <2>1. eps' = eps \/ eps' = {IF e.id = id THEN [e EXCEPT !.text = "gist", !.level = 1] ELSE e : e \in eps}
      BY <1>7 DEF SummarizeOne
    <2> HIDE DEF id
    <2> DEFINE f == [e \in eps |-> IF e.id = id THEN [e EXCEPT !.text = "gist", !.level = 1] ELSE e]
    <2>2. eps' = eps \/ eps' = {f[e] : e \in eps}
      BY <2>1, Zenon
    <2>3. \A e \in eps : EpisodeRow(f[e]) /\ Rewrites(e, f[e], clock)
      BY <1>4 DEF EpisodeRow, Rewrites, IsProcedure, EpisodeFields
    <2> HIDE DEF f
    <2> QED
      BY <1>1, <1>2, <1>3, <2>2, <2>3, EpisodesImage, EpisodesDropped, SMTT(30)
  <1> QED
    BY <1>5, <1>6, <1>7

LEMMA ProcedureStamped ==
    ASSUME EpisodeInv, NEW w \in Workers, StampProcedure(w)
    PROVE  EpisodeInv'
  <1>1. EpisodeTypes /\ EpisodeTypes' /\ clock \in Nat
    BY EpisodeTypeSteps DEF EpisodeInv, WorkerStep, EpisodeTypes
  <1>2. clock' = clock /\ book' = book /\ Holding(job[w]) /\ J(w).imp \in Nat
    BY <1>1, JobShape, JobFacts DEF StampProcedure, On, Holding, J
  <1>3. QuietJob(job'[w]) /\ \A u \in Workers : u # w => job'[u] = job[u]
    BY <1>1, EpisodeMoves DEF JobQuits, QuietJob
  <1>4. \A e \in eps : EpisodeRow(e)
    BY DEF EpisodeInv, EpisodeRows
  <1> DEFINE f == [e \in eps |-> IF e.id \in job[w].ids THEN [e EXCEPT !.conf = J(w).imp, !.val = clock] ELSE e]
  <1>5. eps' = {f[e] : e \in eps}
    BY Zenon DEF StampProcedure
  <1>6. \A e \in eps : EpisodeRow(f[e]) /\ Rewrites(e, f[e], clock)
    BY <1>1, <1>2, <1>4, EpisodeAssumption DEF EpisodeRow, Rewrites, IsProcedure, EpisodeFields
  <1> HIDE DEF f
  <1> QED
    BY <1>1, <1>2, <1>3, <1>5, <1>6, EpisodesImage

LEMMA ProcedureRefreshed ==
    ASSUME EpisodeInv, NEW w \in Workers, RefreshProcedure(w)
    PROVE  EpisodeInv'
  <1> DEFINE known == {e \in eps : SameProcedure(e, J(w))}
  <1>1. EpisodeTypes /\ EpisodeTypes' /\ clock \in Nat
    BY EpisodeTypeSteps DEF EpisodeInv, WorkerStep, EpisodeTypes
  <1>2. clock' = clock /\ book' = book /\ procLock = {} /\ job[w] # Off
    BY DEF RefreshProcedure, ProcedureFree, On
  <1>3. eps' = (eps \ known) \cup {[e EXCEPT !.conf = Full, !.val = clock] : e \in known}
    BY DEF RefreshProcedure
  <1>4. \A e \in eps : EpisodeRow(e)
    BY DEF EpisodeInv, EpisodeRows
  <1>5. CASE known # {}
    <2>1. JobQuits(w) /\ procLock' = procLock
      BY <1>1, <1>5, JobShape DEF RefreshProcedure
    <2> DEFINE f == [e \in eps |-> IF e \in known THEN [e EXCEPT !.conf = Full, !.val = clock] ELSE e]
    <2>2. eps' = {f[e] : e \in eps}
      <3>1. known \subseteq eps
        OBVIOUS
      <3> HIDE DEF known
      <3> QED
        BY <1>3, <3>1
    <2>3. \A e \in eps : EpisodeRow(f[e]) /\ Rewrites(e, f[e], clock)
      <3> HIDE DEF known
      <3> QED
        BY <1>1, <1>4, EpisodeAssumption DEF EpisodeRow, Rewrites, IsProcedure, EpisodeFields
    <2>4. QuietJob(job'[w]) /\ \A u \in Workers : u # w => job'[u] = job[u]
      BY <2>1 DEF JobQuits, QuietJob
    <2> HIDE DEF f
    <2> QED
      BY <1>1, <1>2, <2>1, <2>2, <2>3, <2>4, EpisodesImage
  <1>6. CASE known = {}
    <2>1. eps' = eps
      BY <1>3, <1>6
    <2>2. JobMoves(w, "insert", J(w), job[w].now, job[w].ids) /\ procLock' = {w}
      BY <1>1, <1>2, <1>6, JobShape DEF RefreshProcedure
    <2>3. EpisodeRows'
      BY <1>2, <2>1 DEF EpisodeInv, EpisodeRows
    <2>4. ASSUME NEW u \in Workers PROVE PlanOK(job'[u], eps, clock, book.next)
      <3>1. CASE u = w
        <4>1. job'[w].pc = "insert" /\ job'[w].call = J(w)
          BY <2>2 DEF JobMoves
        <4>2. \A e \in eps : ~SameProcedure(e, J(w))
          BY <1>6
        <4> HIDE DEF known
        <4> QED
          BY <3>1, <4>1, <4>2 DEF PlanOK
      <3>2. CASE u # w
        BY <2>2, <3>2 DEF JobMoves, EpisodeInv, PlansOK
      <3> QED
        BY <3>1, <3>2
    <2>5. PlansOK'
      BY <1>2, <2>1, <2>4 DEF PlansOK
    <2>6. ProcedureLocked'
      BY <1>2, <2>2 DEF ProcedureLocked, EpisodeInv, JobMoves
    <2> QED
      BY <1>1, <1>2, <2>3, <2>5, <2>6 DEF EpisodeInv
  <1> QED
    BY <1>5, <1>6

LEMMA NewRow ==
    ASSUME EpisodeInv, NEW c \in AllJobs, NEW text, c.op = "procedure" => text # "pending",
           c.op \in {"observe", "procedure"}
    PROVE  LET r == NewEpisode(book.next, c, text) IN
           /\ EpisodeRow(r) /\ r.id = book.next /\ r.key = c.key
           /\ r.sess = NormalSession(c.scope.session) /\ r.world = WorldOf(c)
  BY JobFacts, EpisodeAssumption DEF NewEpisode, EpisodeRow, EpisodeFields, EpisodeInv, EpisodeTypes, IsProcedure

LEMMA EpisodesInserted ==
    ASSUME EpisodeInv, EpisodeTypes', NEW w \in Workers, NEW r, EpisodeRow(r), r.id = book.next,
           eps' = eps \cup {r}, book'.next = book.next + 1, book'.shown = book.shown, book'.evicted = book.evicted,
           clock' = clock, procLock' = procLock,
           \A u \in Workers : u # w => job'[u] = job[u],
           Holding(job'[w]) => Holding(job[w]),
           PlanOK(job'[w], eps', clock, book.next + 1),
           r.key = Unset \/ (Holding(job[w]) /\ \A e \in eps : ~(e.key = r.key /\ e.sess = r.sess /\ e.world = r.world))
    PROVE  EpisodeInv'
  <1>1. book.next \in Nat
    BY DEF EpisodeInv, EpisodeTypes
  <1>2. EpisodeRows'
    <2>1. \A e \in eps' : EpisodeRow(e) /\ e.id < book'.next
      BY <1>1 DEF EpisodeInv, EpisodeRows, EpisodeRow
    <2>2. \A e, f \in eps' : e.id = f.id => e = f
      BY <1>1 DEF EpisodeInv, EpisodeRows, EpisodeRow
    <2>3. \A a, b \in eps' : IsProcedure(a) /\ a.key = b.key /\ a.sess = b.sess /\ a.world = b.world => a = b
      <3> SUFFICES ASSUME NEW a \in eps', NEW b \in eps', IsProcedure(a), a.key = b.key, a.sess = b.sess, a.world = b.world
                   PROVE  a = b
        OBVIOUS
      <3>1. CASE a \in eps /\ b \in eps
        BY <3>1 DEF EpisodeInv, EpisodeRows
      <3>2. CASE a = r /\ b \in eps
        BY <3>2 DEF IsProcedure
      <3>3. CASE b = r /\ a \in eps
        BY <3>3 DEF IsProcedure
      <3> QED
        BY <3>1, <3>2, <3>3
    <2> QED
      BY <2>1, <2>2, <2>3 DEF EpisodeRows
  <1>3. ProcedureLocked'
    BY DEF EpisodeInv, ProcedureLocked
  <1>4. ASSUME NEW u \in Workers, u # w PROVE PlanOK(job'[u], eps', clock, book.next + 1)
    <2>1. PlanOK(job[u], eps, clock, book.next)
      BY DEF EpisodeInv, PlansOK
    <2>2. Inserting(job[u]) => r.key = Unset /\ job[u].call.key # Unset
      <3> SUFFICES ASSUME Inserting(job[u]) PROVE r.key = Unset /\ job[u].call.key # Unset
        OBVIOUS
      <3>1. procLock = {u}
        BY DEF EpisodeInv, ProcedureLocked, Inserting, Holding
      <3>2. ~Holding(job[w])
        BY <1>4, <3>1 DEF EpisodeInv, ProcedureLocked
      <3>3. job[u] # Off /\ job[u].call.op = "procedure" /\ job[u].call \in AllJobs
        BY JobShape DEF Inserting, J, EpisodeInv
      <3> QED
        BY <3>2, <3>3, JobFacts
    <2> QED
      BY <1>1, <1>4, <2>1, <2>2, InsertKeepsPlans
  <1>5. PlansOK'
    BY <1>4 DEF PlansOK
  <1> QED
    BY <1>2, <1>3, <1>5 DEF EpisodeInv

LEMMA EpisodeStored ==
    ASSUME EpisodeInv, NEW w \in Workers, StoreEpisode(w)
    PROVE  EpisodeInv'
  <1>1. EpisodeTypes /\ EpisodeTypes'
    BY EpisodeTypeSteps DEF EpisodeInv, WorkerStep
  <1>2. job[w] # Off /\ J(w) \in AllJobs /\ J(w).op = "observe" /\ J(w).key = Unset
    BY <1>1, JobShape, JobFacts DEF StoreEpisode, On, J
  <1> DEFINE r == NewEpisode(book.next, J(w), J(w).text)
  <1>3. /\ eps' = eps \cup {r} /\ clock' = clock /\ procLock' = procLock
        /\ book'.next = book.next + 1 /\ book'.shown = book.shown /\ book'.evicted = book.evicted
    BY <1>1 DEF StoreEpisode, Insert, EpisodeTypes, BookFields
  <1>4. EpisodeRow(r) /\ r.id = book.next /\ r.key = Unset
    BY <1>2, NewRow
  <1> HIDE DEF r
  <1>5. QuietJob(job'[w]) /\ \A u \in Workers : u # w => job'[u] = job[u]
    BY <1>1, EpisodeMoves DEF JobQuits, QuietJob
  <1>6. PlanOK(job'[w], eps', clock, book.next + 1) /\ ~Holding(job'[w])
    BY <1>5, QuietPlan
  <1> QED
    BY <1>1, <1>3, <1>4, <1>5, <1>6, EpisodesInserted

LEMMA ProcedureInserted ==
    ASSUME EpisodeInv, NEW w \in Workers, InsertProcedure(w)
    PROVE  EpisodeInv'
  <1>1. EpisodeTypes /\ EpisodeTypes'
    BY EpisodeTypeSteps DEF EpisodeInv, WorkerStep
  <1>2. job[w] # Off /\ J(w) \in AllJobs /\ J(w).op = "procedure" /\ Inserting(job[w]) /\ Holding(job[w])
    BY <1>1, JobShape DEF InsertProcedure, On, J, Inserting, Holding
  <1> DEFINE r == NewEpisode(book.next, J(w), "said")
  <1>3. /\ eps' = eps \cup {r} /\ clock' = clock /\ procLock' = procLock
        /\ book'.next = book.next + 1 /\ book'.shown = book.shown /\ book'.evicted = book.evicted
    BY <1>1 DEF InsertProcedure, Insert, EpisodeTypes, BookFields
  <1>4. /\ EpisodeRow(r) /\ r.id = book.next /\ r.key = J(w).key
        /\ r.sess = NormalSession(J(w).scope.session) /\ r.world = WorldOf(J(w))
    BY <1>2, NewRow
  <1> HIDE DEF r
  <1>5. \A e \in eps : ~(e.key = r.key /\ e.sess = r.sess /\ e.world = r.world)
    <2>1. \A e \in eps : ~SameProcedure(e, J(w))
      BY <1>2 DEF EpisodeInv, PlansOK, PlanOK, J
    <2> QED
      BY <1>4, <2>1 DEF SameProcedure, InScope, SessionsOf, WorldOf, NormalSession, Or
  <1>6. JobMoves(w, "stamp", J(w), job[w].now, {book.next})
    BY <1>1, EpisodeMoves
  <1>7. PlanOK(job'[w], eps', clock, book.next + 1)
    BY <1>6 DEF JobMoves, PlanOK, Inserting
  <1>8. \A u \in Workers : u # w => job'[u] = job[u]
    BY <1>6 DEF JobMoves
  <1> QED
    BY <1>1, <1>2, <1>3, <1>4, <1>5, <1>7, <1>8, EpisodesInserted

LEMMA EpisodesShown ==
    ASSUME EpisodeInv, NEW w \in Workers, RetrieveProcedures(w) \/ Recalled(w)
    PROVE  EpisodeInv'
  <1>1. EpisodeTypes /\ EpisodeTypes'
    BY EpisodeTypeSteps DEF EpisodeInv, WorkerStep
  <1>2. QuietJob(job'[w]) /\ \A u \in Workers : u # w => job'[u] = job[u]
    BY <1>1, EpisodeMoves DEF JobQuits, JobMoves, QuietJob
  <1>3. eps' = eps /\ clock' = clock /\ procLock' = procLock
    BY DEF RetrieveProcedures, Recalled
  <1>4. ASSUME NEW out, out \subseteq {e \in eps : e.text # "pending" /\ e.world = WorldOf(J(w))}, NEW f,
               book' = [book EXCEPT !.shown = @ \cup {[row |-> e, conf |-> f[e], to |-> J(w).scope] : e \in out}],
               \A e \in out : e.val = Unset => f[e] <= e.said
        PROVE  EpisodeInv'
    <2> DEFINE N == {[row |-> e, conf |-> f[e], to |-> J(w).scope] : e \in out}
    <2>1. /\ book'.next = book.next /\ book'.shown = book.shown \cup N /\ book'.evicted = book.evicted
      BY <1>1, <1>4 DEF EpisodeTypes, BookFields
    <2>2. \A s \in N : ShownOK(s)
      BY <1>4 DEF ShownOK, WorldOf
    <2> HIDE DEF N
    <2> QED
      BY <1>1, <1>2, <1>3, <2>1, <2>2, EpisodesDropped
  <1>5. ASSUME NEW e \in eps PROVE /\ e.said \in Nat /\ (e.val = Unset => ResolveBase(e) <= e.said)
                                   /\ IsProcedure(e) => e.text # "pending"
    <2>1. EpisodeRow(e)
      BY <1>5 DEF EpisodeInv, EpisodeRows
    <2> QED
      BY <2>1 DEF EpisodeRow, ResolveBase
  <1>6. CASE RetrieveProcedures(w)
    <2> DEFINE f == [e \in eps |-> ResolveBase(e)]
    <2>1. \E out : /\ out \subseteq {e \in eps : IsProcedure(e) /\ e.world = WorldOf(J(w))}
                   /\ book' = [book EXCEPT !.shown = @ \cup {[row |-> e, conf |-> ResolveBase(e), to |-> J(w).scope] : e \in out}]
      BY <1>6 DEF RetrieveProcedures, Lowest, InScope, WorldOf
    <2>2. PICK out : /\ out \subseteq {e \in eps : IsProcedure(e) /\ e.world = WorldOf(J(w))}
                     /\ book' = [book EXCEPT !.shown = @ \cup {[row |-> e, conf |-> ResolveBase(e), to |-> J(w).scope] : e \in out}]
      BY <2>1
    <2>3. {[row |-> e, conf |-> ResolveBase(e), to |-> J(w).scope] : e \in out}
            = {[row |-> e, conf |-> f[e], to |-> J(w).scope] : e \in out}
      BY <2>2
    <2>4. \A e \in out : e.val = Unset => f[e] <= e.said
      BY <1>5, <2>2
    <2>5. out \subseteq {e \in eps : e.text # "pending" /\ e.world = WorldOf(J(w))}
      BY <1>5, <2>2
    <2> HIDE DEF f
    <2> QED
      BY <1>4, <2>2, <2>3, <2>4, <2>5
  <1>7. CASE Recalled(w)
    <2> DEFINE f == [e \in eps |-> 0]
    <2>1. PICK broken \in BOOLEAN : book' = [book EXCEPT !.shown = @ \cup
             {[row |-> e, conf |-> 0, to |-> J(w).scope] : e \in {d \in RecallFts(J(w), broken) : d.text # "pending"}}]
      BY <1>7 DEF Recalled
    <2>2. RecallFts(J(w), broken) \subseteq Candidates(J(w))
      BY DEF RecallFts, RecallRecency, RecallLike, Best, Lowest
    <2> DEFINE out == {d \in RecallFts(J(w), broken) : d.text # "pending"}
    <2>3. out \subseteq {e \in eps : e.text # "pending" /\ e.world = WorldOf(J(w))}
      BY <2>2 DEF Candidates, InScope, WorldOf
    <2>4. book' = [book EXCEPT !.shown = @ \cup {[row |-> e, conf |-> 0, to |-> J(w).scope] : e \in out}]
      BY <2>1
    <2> HIDE DEF out
    <2>5. {[row |-> e, conf |-> 0, to |-> J(w).scope] : e \in out} = {[row |-> e, conf |-> f[e], to |-> J(w).scope] : e \in out}
      BY <2>3
    <2>6. \A e \in out : e.val = Unset => f[e] <= e.said
      BY <1>5, <2>3
    <2> HIDE DEF f
    <2> QED
      BY <1>4, <2>3, <2>4, <2>5, <2>6
  <1> QED
    BY <1>6, <1>7

LEMMA EpisodesEvicted ==
    ASSUME EpisodeInv, NEW w \in Workers, EvictTtl(w) \/ DeleteVictims(w) \/ DeleteForgotten(w)
    PROVE  EpisodeInv'
  <1>1. EpisodeTypes /\ EpisodeTypes'
    BY EpisodeTypeSteps DEF EpisodeInv, WorkerStep
  <1>2. QuietJob(job'[w]) /\ \A u \in Workers : u # w => job'[u] = job[u]
    BY <1>1, EpisodeMoves DEF JobQuits, JobMoves, QuietJob
  <1>3. clock' = clock /\ procLock' = procLock
    BY DEF EvictTtl, DeleteVictims, DeleteForgotten
  <1>4. ASSUME NEW S, Evict(S), \A e \in S : e \in eps /\ EvictedOK(e, clock) PROVE EpisodeInv'
    <2>1. eps' \subseteq eps /\ book'.next = book.next /\ book'.shown = book.shown /\ book'.evicted = book.evicted \cup S
      BY <1>1, <1>4 DEF Evict, EpisodeTypes, BookFields
    <2> QED
      BY <1>1, <1>2, <1>3, <1>4, <2>1, EpisodesDropped
  <1>5. CASE EvictTtl(w)
    <2> DEFINE S == {e \in Plain : e.imp < LowImportance /\ e.at + Ttl < clock}
    <2>1. Evict(S) /\ \A e \in S : e \in eps /\ EvictedOK(e, clock)
      BY <1>5 DEF EvictTtl, Plain, EvictedOK
    <2> HIDE DEF S
    <2> QED
      BY <1>4, <2>1
  <1>6. CASE DeleteVictims(w)
    <2> DEFINE S == Taken(job[w].ids, eps)
    <2>1. Evict(S) /\ On(w, "evict", "delete")
      BY <1>6 DEF DeleteVictims
    <2>2. PlanOK(job[w], eps, clock, book.next)
      BY DEF EpisodeInv, PlansOK
    <2>3. \A e \in S : e \in eps /\ EvictedOK(e, clock)
      BY <2>1, <2>2 DEF Taken, On, PlanOK, EvictedOK
    <2> HIDE DEF S
    <2> QED
      BY <1>4, <2>1, <2>3
  <1>7. CASE DeleteForgotten(w)
    <2> DEFINE S == {e \in Taken(job[w].ids, eps) : Forgettable(e, job[w].now)}
    <2>1. Evict(S) /\ On(w, "evict", "forget")
      BY <1>7 DEF DeleteForgotten
    <2>2. PlanOK(job[w], eps, clock, book.next) /\ \A e \in eps : EpisodeRow(e)
      BY DEF EpisodeInv, PlansOK, EpisodeRows
    <2>3. \A e \in S : e \in eps /\ EvictedOK(e, clock)
      BY <2>1, <2>2 DEF Taken, On, PlanOK, EvictedOK
    <2> HIDE DEF S
    <2> QED
      BY <1>4, <2>1, <2>3
  <1> QED
    BY <1>5, <1>6, <1>7

(* A worker settles on what it will delete. *)
LEMMA EpisodesChosen ==
    ASSUME EpisodeInv, EpisodeTypes', NEW w \in Workers, eps' = eps, clock' = clock, book' = book, procLock' = procLock,
           \A u \in Workers : u # w => job'[u] = job[u], ~Holding(job'[w]), PlanOK(job'[w], eps, clock, book.next)
    PROVE  EpisodeInv'
  <1>1. EpisodeRows'
    BY DEF EpisodeInv, EpisodeRows
  <1>2. PlansOK'
    BY DEF EpisodeInv, PlansOK
  <1>3. ProcedureLocked'
    BY DEF EpisodeInv, ProcedureLocked
  <1> QED
    BY <1>1, <1>2, <1>3 DEF EpisodeInv

LEMMA EpisodesSelected ==
    ASSUME EpisodeInv, NEW w \in Workers, SelectVictims(w) \/ SelectForgotten(w)
    PROVE  EpisodeInv'
  <1>1. EpisodeTypes /\ EpisodeTypes' /\ clock \in Nat
    BY EpisodeTypeSteps DEF EpisodeInv, WorkerStep, EpisodeTypes
  <1>2. eps' = eps /\ clock' = clock /\ procLock' = procLock /\ book' = book
    BY DEF SelectVictims, SelectForgotten
  <1>3. \A e \in eps : EpisodeRow(e) /\ e.id \in Nat /\ e.id < book.next
    BY DEF EpisodeInv, EpisodeRows, EpisodeRow
  <1>4. \A e, f \in eps : e.id = f.id => e = f
    BY DEF EpisodeInv, EpisodeRows
  <1>5. CASE SelectVictims(w)
    <2>1. PICK ids : ids \subseteq {e.id : e \in Plain} /\ JobMoves(w, "delete", J(w), job[w].now, ids)
      BY <1>1, <1>5, EpisodeSelects
    <2>2. \A i \in ids : i \in Nat /\ i < book.next /\ \A e \in eps : e.id = i => ~IsProcedure(e)
      BY <1>3, <1>4, <2>1 DEF Plain
    <2>3. job'[w].pc = "delete" /\ job'[w].ids = ids /\ \A u \in Workers : u # w => job'[u] = job[u]
      BY <2>1 DEF JobMoves
    <2>4. PlanOK(job'[w], eps, clock, book.next) /\ ~Holding(job'[w])
      BY <2>2, <2>3 DEF PlanOK, Inserting, Holding
    <2> QED
      BY <1>1, <1>2, <2>3, <2>4, EpisodesChosen
  <1>6. CASE SelectForgotten(w)
    <2> DEFINE ids == {e.id : e \in {r \in eps : IsProcedure(r) /\ Decayed(r, clock) < CMin}}
    <2>1. JobMoves(w, "forget", J(w), clock, ids)
      BY <1>1, <1>6, EpisodeSelects
    <2>2. \A i \in ids : i \in Nat /\ i < book.next
      BY <1>3
    <2>3. \A e \in eps : e.id \in ids => Decayed(e, clock) < CMin
      BY <1>4
    <2> HIDE DEF ids
    <2>4. job'[w].pc = "forget" /\ job'[w].ids = ids /\ job'[w].now = clock /\ \A u \in Workers : u # w => job'[u] = job[u]
      BY <2>1 DEF JobMoves
    <2>5. PlanOK(job'[w], eps, clock, book.next) /\ ~Holding(job'[w])
      BY <1>1, <2>2, <2>3, <2>4 DEF PlanOK, Inserting, Holding
    <2> QED
      BY <1>1, <1>2, <2>4, <2>5, EpisodesChosen
  <1> QED
    BY <1>5, <1>6

LEMMA EpisodesAndPool ==
    ASSUME EpisodeInv, NEW w \in Workers, Publish(w) \/ EnforceFifoCap(w) \/ ReadPool(w)
    PROVE  EpisodeInv'
  <1>1. EpisodeTypes /\ EpisodeTypes'
    BY EpisodeTypeSteps DEF EpisodeInv, WorkerStep
  <1>2. QuietJob(job'[w]) /\ \A u \in Workers : u # w => job'[u] = job[u]
    BY <1>1, EpisodeMoves DEF JobQuits, JobMoves, QuietJob
  <1>3. /\ eps' = eps /\ clock' = clock /\ procLock' = procLock /\ book'.shown = book.shown /\ book'.evicted = book.evicted
        /\ book'.next \in {book.next, book.next + 1}
    <2>1. Publish(w) => /\ eps' = eps /\ clock' = clock /\ procLock' = procLock /\ book'.shown = book.shown
                        /\ book'.evicted = book.evicted /\ book'.next \in {book.next, book.next + 1}
      BY <1>1 DEF Publish, EpisodeTypes, BookFields
    <2>2. EnforceFifoCap(w) => /\ eps' = eps /\ clock' = clock /\ procLock' = procLock /\ book'.shown = book.shown
                               /\ book'.evicted = book.evicted /\ book'.next = book.next
      BY <1>1 DEF EnforceFifoCap, EpisodeTypes, BookFields
    <2>3. ReadPool(w) => /\ eps' = eps /\ clock' = clock /\ procLock' = procLock /\ book'.shown = book.shown
                         /\ book'.evicted = book.evicted /\ book'.next = book.next
      BY <1>1 DEF ReadPool, EpisodeTypes, BookFields
    <2> QED
      BY <2>1, <2>2, <2>3
  <1>4. book.next \in Nat
    BY <1>1 DEF EpisodeTypes
  <1>5. EpisodeRows'
    BY <1>3, <1>4 DEF EpisodeInv, EpisodeRows, EpisodeRow
  <1>6. ProcedureLocked'
    BY <1>2, <1>3, QuietPlan DEF EpisodeInv, ProcedureLocked
  <1>7. ASSUME NEW u \in Workers PROVE PlanOK(job'[u], eps, clock, book'.next)
    <2>1. CASE u = w
      BY <1>2, <2>1, QuietPlan
    <2>2. CASE u # w
      <3>1. PlanOK(job[u], eps, clock, book.next)
        BY DEF EpisodeInv, PlansOK
      <3> QED
        BY <1>2, <1>3, <1>4, <2>2, <3>1 DEF PlanOK
    <2> QED
      BY <2>1, <2>2
  <1>8. PlansOK'
    BY <1>3, <1>7 DEF PlansOK
  <1> QED
    BY <1>1, <1>3, <1>5, <1>6, <1>8 DEF EpisodeInv

LEMMA EpisodesTick ==
    ASSUME EpisodeInv, TickClock
    PROVE  EpisodeInv'
  <1>1. clock' = clock + 1 /\ eps' = eps /\ job' = job /\ procLock' = procLock /\ book' = book /\ clock \in Nat
    BY DEF TickClock, EpisodeInv, EpisodeTypes
  <1>2. EpisodeTypes'
    BY <1>1 DEF EpisodeInv, EpisodeTypes
  <1>3. EpisodeRows' /\ ProcedureLocked'
    BY <1>1 DEF EpisodeInv, EpisodeRows, ProcedureLocked
  <1>4. ASSUME NEW u \in Workers PROVE PlanOK(job[u], eps, clock + 1, book.next)
    <2>1. PlanOK(job[u], eps, clock, book.next) /\ \A e \in eps : EpisodeRow(e)
      BY DEF EpisodeInv, PlansOK, EpisodeRows
    <2> QED
      BY <1>1, <2>1, TimeKeepsPlans
  <1>5. PlansOK'
    BY <1>1, <1>4 DEF PlansOK
  <1>6. \A e \in book.evicted : EvictedOK(e, clock + 1)
    BY <1>1, DecayBelow DEF EpisodeInv, EvictedOK
  <1> QED
    BY <1>1, <1>2, <1>3, <1>5, <1>6 DEF EpisodeInv

LEMMA EpisodesKilled ==
    ASSUME EpisodeInv, Kill
    PROVE  EpisodeInv'
  <1>1. /\ clock' = clock /\ eps' = eps /\ job' = [w \in Workers |-> Off]
        /\ book'.next = book.next /\ book'.shown = book.shown /\ book'.evicted = book.evicted
        /\ book'.due = book.due /\ DOMAIN book' = DOMAIN book /\ book'.stranded = book.stranded + Cardinality(Capping)
    BY DEF Kill, EpisodeInv, EpisodeTypes, BookFields
  <1>2. Cardinality(Capping) \in Nat
    <2>1. Capping \in SUBSET Workers
      BY DEF Capping
    <2> QED
      BY <2>1, FS_Subset, FS_CardinalityType, EpisodeAssumption
  <1>3. EpisodeTypes'
    BY <1>1, <1>2 DEF EpisodeInv, EpisodeTypes, JobOK
  <1>4. EpisodeRows'
    BY <1>1 DEF EpisodeInv, EpisodeRows
  <1>5. PlansOK' /\ ProcedureLocked'
    BY <1>1, QuietPlan DEF PlansOK, ProcedureLocked, QuietJob
  <1> QED
    BY <1>1, <1>3, <1>4, <1>5 DEF EpisodeInv

LEMMA EpisodeSteps == EpisodeInv /\ [EpisodeNext]_episodeVars => EpisodeInv'
  <1> SUFFICES ASSUME EpisodeInv, [EpisodeNext]_episodeVars PROVE EpisodeInv'
    OBVIOUS
  <1>1. CASE UNCHANGED episodeVars
    BY <1>1 DEF episodeVars, EpisodeInv, EpisodeTypes, EpisodeRows, ProcedureLocked, PlansOK
  <1>2. ASSUME NEW w \in Workers, WorkerStep(w) PROVE EpisodeInv'
    BY <1>2, EpisodeStarts, EpisodesDeleted, EpisodesSummarized, ProcedureStamped, ProcedureRefreshed, EpisodeStored,
       ProcedureInserted, EpisodesShown, EpisodesEvicted, EpisodesSelected, EpisodesAndPool DEF WorkerStep
  <1> QED
    BY <1>1, <1>2, EpisodesTick, EpisodesKilled DEF EpisodeNext

LEMMA InitEpisodes == EpisodeInit => EpisodeInv
  <1> SUFFICES ASSUME EpisodeInit PROVE EpisodeInv
    OBVIOUS
  <1> PICK S \in Jobs : book = [due |-> S, next |-> 1, shown |-> {}, evicted |-> {}, fifo |-> {}, read |-> {}, kills |-> 0, stranded |-> 0]
    BY DEF EpisodeInit
  <1>1. /\ eps = {} /\ clock = 0 /\ job = [w \in Workers |-> Off]
        /\ book.next = 1 /\ book.shown = {} /\ book.evicted = {} /\ book.due = S /\ book.stranded = 0
    BY DEF EpisodeInit
  <1>2. EpisodeTypes
    BY <1>1 DEF EpisodeTypes, BookFields, AllJobs, JobOK
  <1>3. EpisodeRows
    BY <1>1 DEF EpisodeRows
  <1>4. PlansOK /\ ProcedureLocked
    BY <1>1, QuietPlan DEF PlansOK, ProcedureLocked, QuietJob
  <1> QED
    BY <1>1, <1>2, <1>3, <1>4 DEF EpisodeInv

(***************************************************************************)
(* The shared pool: entries are stamped in order, so what the limit drops  *)
(* is older than whatever is kept, or will ever be written.                *)
(***************************************************************************)
PoolEntry(e) == e.id \in Nat /\ e.at \in Nat
Written(e, next, now) == PoolEntry(e) /\ e.id < next /\ e.at <= now
PoolInv ==
    /\ IsFiniteSet(pool)
    /\ \A e \in pool : Written(e, book.next, clock) /\ e.by \in PoolWriters /\ e.conf >= PoolConfidence
    /\ \A e, f \in pool : e.id = f.id => e = f
    /\ \A e \in book.fifo : Written(e, book.next, clock) /\ \A r \in pool : Newer(r, e)
    /\ \A r \in book.read : r.who \in PoolReaders
    /\ Cardinality(pool) <= PoolCap + Cardinality(Capping) + book.stranded
AtCap(j) == j # Off /\ j.call.op = "publish" /\ j.pc = "cap"
LEMMA CappingIsFinite == IsFiniteSet(Capping) /\ Cardinality(Capping) \in Nat
  <1>1. Capping \in SUBSET Workers
    BY DEF Capping
  <1> QED
    BY <1>1, FS_Subset, FS_CardinalityType, EpisodeAssumption

LEMMA CappingKept ==
    ASSUME NEW w \in Workers, \A u \in Workers : u # w => job'[u] = job[u], ~AtCap(job[w]), ~AtCap(job'[w])
    PROVE  Capping' = Capping
  BY DEF Capping, On, AtCap, J

LEMMA PoolElsewhere ==
    ASSUME EpisodeTypes, EpisodeTypes', PoolInv, pool' = pool, book'.fifo = book.fifo, book'.read = book.read,
           book'.stranded = book.stranded, clock <= clock', book.next <= book'.next, Capping' = Capping
    PROVE  PoolInv'
  <1>1. book.next \in Nat /\ book'.next \in Nat /\ clock \in Nat /\ clock' \in Nat
    BY DEF EpisodeTypes
  <1>2. ASSUME NEW e, Written(e, book.next, clock) PROVE Written(e, book'.next, clock')
    BY <1>1, <1>2 DEF Written, PoolEntry
  <1> QED
    BY <1>2 DEF PoolInv

LEMMA EpisodeFrame ==
    ASSUME EpisodeTypes, NEW w \in Workers, WorkerStep(w)
    PROVE  \/ Publish(w) \/ EnforceFifoCap(w) \/ ReadPool(w)
           \/ /\ pool' = pool /\ clock' = clock /\ book'.fifo = book.fifo /\ book'.read = book.read
              /\ book'.stranded = book.stranded /\ book.next <= book'.next
              /\ ~AtCap(job[w]) /\ ~AtCap(job'[w]) /\ \A u \in Workers : u # w => job'[u] = job[u]
  <1> DEFINE Same == /\ pool' = pool /\ clock' = clock /\ book'.fifo = book.fifo /\ book'.read = book.read
                     /\ book'.stranded = book.stranded /\ book.next <= book'.next
             Away == ~AtCap(job[w]) /\ ~AtCap(job'[w]) /\ \A u \in Workers : u # w => job'[u] = job[u]
  <1>0. DOMAIN book = BookFields /\ book.next \in Nat
    BY DEF EpisodeTypes
  <1>1. ASSUME NEW c \in book.due, Start(w, c) PROVE Same /\ Away
    <2>1. JobMoves(w, "start", c, clock, {}) /\ job[w] = Off
      BY <1>1, StartMoves DEF Start
    <2>2. Away
      BY <2>1 DEF JobMoves, AtCap
    <2>3. Same
      BY <1>0, <1>1 DEF Start, BookFields
    <2> QED
      BY <2>2, <2>3
  <1>2. StoreEpisode(w) \/ InsertProcedure(w) => Same
    BY <1>0, SMTT(30) DEF StoreEpisode, InsertProcedure, Insert, BookFields
  <1>3. UpdateSummary(w) \/ Reinforce(w) \/ RefreshProcedure(w) \/ StampProcedure(w) \/ CountPlain(w) \/ SelectVictims(w)
        \/ SelectForgotten(w) \/ SelectOld(w) \/ SummarizeOne(w) \/ EndSummaries(w) \/ DeleteOld(w) \/ DeleteEpisode(w)
        => pool' = pool /\ clock' = clock /\ book' = book
    BY Zenon DEF UpdateSummary, Reinforce, RefreshProcedure, StampProcedure, CountPlain, SelectVictims, SelectForgotten,
       SelectOld, SummarizeOne, EndSummaries, DeleteOld, DeleteEpisode
  <1>4. ASSUME Recalled(w) \/ RetrieveProcedures(w) PROVE Same
    <2>1. pool' = pool /\ clock' = clock /\ \E S : book' = [book EXCEPT !.shown = S]
      BY <1>4 DEF Recalled, RetrieveProcedures
    <2> QED
      BY <1>0, <2>1 DEF BookFields
  <1>5. ASSUME EvictTtl(w) \/ DeleteVictims(w) \/ DeleteForgotten(w) PROVE Same
    <2>1. pool' = pool /\ clock' = clock /\ \E S : book' = [book EXCEPT !.evicted = S]
      BY <1>5 DEF EvictTtl, DeleteVictims, DeleteForgotten, Evict
    <2> QED
      BY <1>0, <2>1 DEF BookFields
  <1>6. ASSUME NEW op, op # "publish", job[w].call.op = op, JobQuits(w) \/ \E pc, now, ids : JobMoves(w, pc, J(w), now, ids)
        PROVE  Away
    BY <1>6 DEF JobQuits, JobMoves, AtCap, J
  <1>7. \/ StoreEpisode(w) \/ UpdateSummary(w) \/ Reinforce(w) \/ StampProcedure(w) \/ RetrieveProcedures(w)
        \/ DeleteForgotten(w) \/ EndSummaries(w) \/ DeleteOld(w) \/ DeleteEpisode(w)
        => Away
    <2>1. \/ StoreEpisode(w) \/ UpdateSummary(w) \/ Reinforce(w) \/ StampProcedure(w) \/ RetrieveProcedures(w)
          \/ DeleteForgotten(w) \/ EndSummaries(w) \/ DeleteOld(w) \/ DeleteEpisode(w)
          => JobQuits(w)
      BY EpisodeMoves, SMTT(30)
    <2>2. \/ StoreEpisode(w) \/ UpdateSummary(w) \/ Reinforce(w) \/ StampProcedure(w) \/ RetrieveProcedures(w)
          \/ DeleteForgotten(w) \/ EndSummaries(w) \/ DeleteOld(w) \/ DeleteEpisode(w)
          => job[w].call.op # "publish"
      BY Zenon DEF StoreEpisode, UpdateSummary, Reinforce, StampProcedure, RetrieveProcedures, DeleteForgotten,
         EndSummaries, DeleteOld, DeleteEpisode, On, J
    <2> QED
      BY <1>6, <2>1, <2>2
  <1>8. \/ Recalled(w) \/ InsertProcedure(w) \/ EvictTtl(w) \/ CountPlain(w) \/ DeleteVictims(w) \/ SelectOld(w)
        \/ SummarizeOne(w) \/ RefreshProcedure(w) \/ SelectVictims(w) \/ SelectForgotten(w)
        => Away
    <2>1. \/ Recalled(w) \/ InsertProcedure(w) \/ EvictTtl(w) \/ CountPlain(w) \/ DeleteVictims(w) \/ SelectOld(w)
          \/ SummarizeOne(w) \/ RefreshProcedure(w) \/ SelectVictims(w) \/ SelectForgotten(w)
          => JobQuits(w) \/ \E pc, now, ids : JobMoves(w, pc, J(w), now, ids)
      BY EpisodeMoves, EpisodeSelects, Zenon
    <2>2. \/ Recalled(w) \/ InsertProcedure(w) \/ EvictTtl(w) \/ CountPlain(w) \/ DeleteVictims(w) \/ SelectOld(w)
          \/ SummarizeOne(w) \/ RefreshProcedure(w) \/ SelectVictims(w) \/ SelectForgotten(w)
          => job[w].call.op # "publish"
      BY Zenon DEF Recalled, InsertProcedure, EvictTtl, CountPlain, DeleteVictims, SelectOld, SummarizeOne, RefreshProcedure,
         SelectVictims, SelectForgotten, On, J
    <2> QED
      BY <1>6, <2>1, <2>2
  <1>9. UpdateSummary(w) \/ Reinforce(w) \/ RefreshProcedure(w) \/ StampProcedure(w) \/ CountPlain(w) \/ SelectVictims(w)
        \/ SelectForgotten(w) \/ SelectOld(w) \/ SummarizeOne(w) \/ EndSummaries(w) \/ DeleteOld(w) \/ DeleteEpisode(w) => Same
    BY <1>0, <1>3
  <1> HIDE DEF Same, Away
  <1>10. Publish(w) \/ EnforceFifoCap(w) \/ ReadPool(w) \/ Same
    BY <1>1, <1>2, <1>4, <1>5, <1>9 DEF WorkerStep
  <1>11. Publish(w) \/ EnforceFifoCap(w) \/ ReadPool(w) \/ Away
    BY <1>1, <1>7, <1>8 DEF WorkerStep
  <1> QED
    BY <1>10, <1>11 DEF Same, Away

LEMMA PoolPublished ==
    ASSUME EpisodeTypes, EpisodeTypes', PoolInv, NEW w \in Workers, Publish(w)
    PROVE  PoolInv'
  <1>1. On(w, "publish", "start") /\ clock' = clock
    BY DEF Publish
  <1>2. book.next \in Nat /\ clock \in Nat /\ DOMAIN book = BookFields /\ book.stranded \in Nat
    BY DEF EpisodeTypes
  <1>3. CASE ~Publishable(J(w))
    <2>1. pool' = pool /\ book' = book /\ JobQuits(w)
      BY <1>3, JobShape DEF Publish
    <2>2. Capping' = Capping
      BY <1>1, <2>1, CappingKept DEF JobQuits, AtCap, On
    <2> QED
      BY <1>1, <1>2, <2>1, <2>2, PoolElsewhere
  <1>4. CASE Publishable(J(w))
    <2> DEFINE r == [id |-> book.next, at |-> clock, by |-> J(w).agent, conf |-> J(w).imp]
    <2>1. pool' = pool \cup {r} /\ book' = [book EXCEPT !.next = @ + 1] /\ Then(w, "cap")
      BY <1>4 DEF Publish
    <2>2. r.id = book.next /\ r.at = clock /\ r.by \in PoolWriters /\ r.conf >= PoolConfidence
      BY <1>4 DEF Publishable
    <2> HIDE DEF r
    <2>3. book'.next = book.next + 1 /\ book'.fifo = book.fifo /\ book'.read = book.read /\ book'.stranded = book.stranded
      BY <1>2, <2>1 DEF BookFields
    <2>4. JobMoves(w, "cap", J(w), job[w].now, job[w].ids)
      BY <1>1, <2>1, JobShape DEF On
    <2>5. Capping' = Capping \cup {w} /\ w \notin Capping
      BY <1>1, <2>4 DEF Capping, On, J, JobMoves
    <2>6. Cardinality(Capping') = Cardinality(Capping) + 1
      BY <2>5, CappingIsFinite, FS_AddElement
    <2>7. r \notin pool /\ IsFiniteSet(pool)
      BY <1>2, <2>2 DEF PoolInv, Written, PoolEntry
    <2>8. IsFiniteSet(pool') /\ Cardinality(pool') = Cardinality(pool) + 1
      BY <2>1, <2>7, FS_AddElement
    <2>9. Cardinality(pool) \in Nat /\ Cardinality(Capping) \in Nat
      BY <2>7, FS_CardinalityType, CappingIsFinite
    <2>10. Cardinality(pool') <= PoolCap + Cardinality(Capping') + book'.stranded
      <3>1. Cardinality(pool) <= PoolCap + Cardinality(Capping) + book.stranded
        BY DEF PoolInv
      <3> QED
        BY <1>2, <2>3, <2>6, <2>8, <2>9, <3>1, EpisodeAssumption
    <2>11. ASSUME NEW e, Written(e, book.next, clock) PROVE Written(e, book'.next, clock') /\ Newer(r, e)
      BY <1>1, <1>2, <2>2, <2>3, <2>11 DEF Written, PoolEntry, Newer
    <2>12. \A e \in pool' : Written(e, book'.next, clock') /\ e.by \in PoolWriters /\ e.conf >= PoolConfidence
      <3>1. Written(r, book'.next, clock')
        BY <1>1, <1>2, <2>2, <2>3 DEF Written, PoolEntry
      <3> QED
        BY <2>1, <2>2, <2>11, <3>1 DEF PoolInv
    <2>13. \A e, f \in pool' : e.id = f.id => e = f
      <3>1. \A e \in pool : e.id # r.id
        BY <1>2, <2>2 DEF PoolInv, Written, PoolEntry
      <3> QED
        BY <2>1, <3>1 DEF PoolInv
    <2>14. \A e \in book'.fifo : Written(e, book'.next, clock') /\ \A q \in pool' : Newer(q, e)
      BY <2>1, <2>3, <2>11 DEF PoolInv
    <2> QED
      BY <2>3, <2>8, <2>10, <2>12, <2>13, <2>14 DEF PoolInv
  <1> QED
    BY <1>3, <1>4

(* What the limit keeps is no more than the limit, and newer than the rest. *)
LEMMA NewerIsAnOrder ==
    ASSUME NEW S, \A e \in S : PoolEntry(e), \A e, f \in S : e.id = f.id => e = f
    PROVE  /\ \A x, y, z \in S : Newer(x, y) /\ Newer(y, z) => Newer(x, z)
           /\ \A x \in S : ~Newer(x, x)
           /\ \A x, y \in S : x # y => Newer(x, y) \/ Newer(y, x)
  <1>1. \A e \in S : e.id \in Nat /\ e.at \in Nat
    BY DEF PoolEntry
  <1>2. ASSUME NEW x \in S, NEW y \in S, NEW z \in S, Newer(x, y), Newer(y, z) PROVE Newer(x, z)
    BY <1>1, <1>2 DEF Newer
  <1>3. ASSUME NEW x \in S PROVE ~Newer(x, x)
    BY <1>1 DEF Newer
  <1>4. ASSUME NEW x \in S, NEW y \in S, x # y PROVE Newer(x, y) \/ Newer(y, x)
    BY <1>1, <1>4 DEF Newer
  <1> QED
    BY <1>2, <1>3, <1>4
Orders(R, S) ==
    /\ \A x, y, z \in S : <<x, y>> \in R /\ <<y, z>> \in R => <<x, z>> \in R
    /\ \A x \in S : <<x, x>> \notin R
    /\ \A x, y \in S : x # y => <<x, y>> \in R \/ <<y, x>> \in R
FewAbove(R, S, T, k) == \A n \in T : Cardinality({m \in S : <<n, m>> \in R}) < k
LEMMA FewAreHigh ==
    ASSUME NEW S, IsFiniteSet(S), NEW R, NEW k \in Nat, NEW T \in SUBSET S, Orders(R, S), FewAbove(R, S, T, k)
    PROVE  IsFiniteSet(T) /\ Cardinality(T) <= k
  BY RankBound, ZenonT(40) DEF Orders, FewAbove

LEMMA NewestAreFew ==
    ASSUME NEW S, IsFiniteSet(S), NEW K \in SUBSET S,
           \A x, y, z \in S : Newer(x, y) /\ Newer(y, z) => Newer(x, z),
           \A x \in S : ~Newer(x, x),
           \A x, y \in S : x # y => Newer(x, y) \/ Newer(y, x),
           \A e \in K : Cardinality({m \in S : Newer(m, e)}) < PoolCap
    PROVE  IsFiniteSet(K) /\ Cardinality(K) <= PoolCap
  <1>1. PICK R : \A x, y \in S : <<x, y>> \in R <=> Newer(y, x)
    <2> DEFINE R == {p \in S \X S : Newer(p[2], p[1])}
    <2>1. \A x, y \in S : <<x, y>> \in R <=> Newer(y, x)
      OBVIOUS
    <2> QED
      BY <2>1
  <1>2. \A e \in S : {m \in S : <<e, m>> \in R} = {m \in S : Newer(m, e)}
    BY <1>1
  <1>3. FewAbove(R, S, K, PoolCap)
    BY <1>2 DEF FewAbove
  <1>4. PoolCap \in Nat
    BY EpisodeAssumption
  <1>5. Orders(R, S)
    BY <1>1 DEF Orders
  <1> QED
    BY <1>3, <1>4, <1>5, FewAreHigh

LEMMA CapKeepsTheNewest ==
    ASSUME NEW S, IsFiniteSet(S), \A e \in S : PoolEntry(e), \A e, f \in S : e.id = f.id => e = f
    PROVE  /\ Kept(S) \in SUBSET S /\ IsFiniteSet(Kept(S)) /\ Cardinality(Kept(S)) <= PoolCap
           /\ \A e \in S \ Kept(S) : \A r \in Kept(S) : Newer(r, e)
  <1> DEFINE Above(e) == {q \in S : Newer(q, e)}
  <1>1. Kept(S) = {e \in S : Cardinality(Above(e)) < PoolCap}
    BY Zenon DEF Kept, Lowest
  <1>2. \A e \in S : Above(e) \in SUBSET S /\ IsFiniteSet(Above(e)) /\ Cardinality(Above(e)) \in Nat
    BY FS_Subset, FS_CardinalityType
  <1>3. PICK K : K = Kept(S)
    OBVIOUS
  <1>4. K \in SUBSET S
    BY <1>1, <1>3
  <1>5. \A e \in K : Cardinality({m \in S : Newer(m, e)}) < PoolCap
    BY <1>1, <1>3
  <1>6. IsFiniteSet(K) /\ Cardinality(K) <= PoolCap
    BY <1>4, <1>5, NewerIsAnOrder, NewestAreFew
  <1>7. ASSUME NEW e \in S, e \notin K, NEW r \in K PROVE Newer(r, e)
    <2> SUFFICES ASSUME Newer(e, r) PROVE FALSE
      BY <1>4, <1>7, NewerIsAnOrder
    <2>1. r \in S
      BY <1>4
    <2>2. \A q \in S : Newer(q, e) => Newer(q, r)
      BY <2>1, NewerIsAnOrder
    <2>3. Above(e) \in SUBSET Above(r)
      BY <2>2
    <2>4. Cardinality(Above(r)) < PoolCap
      BY <1>1, <1>3
    <2>5. ~(Cardinality(Above(e)) < PoolCap)
      BY <1>1, <1>3, <1>7
    <2> HIDE DEF Above
    <2>6. Cardinality(Above(e)) <= Cardinality(Above(r))
      BY <1>2, <2>1, <2>3, FS_Subset
    <2> QED
      BY <1>2, <2>1, <2>4, <2>5, <2>6, EpisodeAssumption
  <1> QED
    BY <1>3, <1>4, <1>6, <1>7

LEMMA PoolCapped ==
    ASSUME EpisodeTypes, EpisodeTypes', PoolInv, NEW w \in Workers, EnforceFifoCap(w)
    PROVE  PoolInv'
  <1>1. /\ pool' = Kept(pool) /\ clock' = clock
        /\ book'.next = book.next /\ book'.read = book.read /\ book'.stranded = book.stranded
        /\ book'.fifo = book.fifo \cup (pool \ pool')
    BY DEF EnforceFifoCap, EpisodeTypes, BookFields
  <1>2. /\ pool' \in SUBSET pool /\ IsFiniteSet(pool') /\ Cardinality(pool') <= PoolCap
        /\ \A e \in pool \ pool' : \A r \in pool' : Newer(r, e)
    <2>1. IsFiniteSet(pool) /\ (\A e \in pool : PoolEntry(e)) /\ \A e, f \in pool : e.id = f.id => e = f
      BY DEF PoolInv, Written
    <2> QED
      BY <1>1, <2>1, CapKeepsTheNewest
  <1>3. book.stranded \in Nat /\ Cardinality(Capping') \in Nat /\ Cardinality(pool') \in Nat
    <2>1. Cardinality(Capping') \in Nat
      <3>1. Capping' \in SUBSET Workers
        BY DEF Capping
      <3> QED
        BY <3>1, FS_Subset, FS_CardinalityType, EpisodeAssumption
    <2> QED
      BY <1>2, <2>1, FS_CardinalityType DEF EpisodeTypes
  <1>4. Cardinality(pool') <= PoolCap + Cardinality(Capping') + book'.stranded
    BY <1>1, <1>2, <1>3, EpisodeAssumption
  <1>5. \A e \in book'.fifo : Written(e, book'.next, clock') /\ \A r \in pool' : Newer(r, e)
    BY <1>1, <1>2 DEF PoolInv
  <1> QED
    BY <1>1, <1>2, <1>4, <1>5 DEF PoolInv

LEMMA PoolRead ==
    ASSUME EpisodeTypes, EpisodeTypes', PoolInv, NEW w \in Workers, ReadPool(w)
    PROVE  PoolInv'
  <1>1. On(w, "read_pool", "start") /\ pool' = pool /\ clock' = clock /\ JobQuits(w)
    BY EpisodeMoves DEF ReadPool
  <1>2. Capping' = Capping
    BY <1>1, CappingKept DEF JobQuits, AtCap, On, J
  <1>3. /\ book'.next = book.next /\ book'.fifo = book.fifo /\ book'.stranded = book.stranded
        /\ \A r \in book'.read : r \in book.read \/ r.who \in PoolReaders
    <2>1. \/ book' = book
          \/ J(w).agent \in PoolReaders /\ \E x : book' = [book EXCEPT !.read = @ \cup {[who |-> J(w).agent, ids |-> x]}]
      BY Zenon DEF ReadPool
    <2> QED
      BY <2>1 DEF EpisodeTypes, BookFields
  <1> QED
    BY <1>1, <1>2, <1>3 DEF PoolInv

LEMMA PoolKilled ==
    ASSUME EpisodeTypes, EpisodeTypes', PoolInv, Kill
    PROVE  PoolInv'
  <1>1. /\ pool' = pool /\ clock' = clock /\ job' = [w \in Workers |-> Off]
        /\ book'.next = book.next /\ book'.fifo = book.fifo /\ book'.read = book.read
        /\ book'.stranded = book.stranded + Cardinality(Capping)
    BY DEF Kill, EpisodeTypes, BookFields
  <1>2. Cardinality(Capping') = 0
    <2>1. Capping' = {}
      BY <1>1 DEF Capping, On
    <2> QED
      BY <2>1, FS_EmptySet
  <1>3. book.stranded \in Nat /\ Cardinality(Capping) \in Nat /\ PoolCap \in Nat
    BY CappingIsFinite, EpisodeAssumption DEF EpisodeTypes
  <1>4. PoolCap + Cardinality(Capping') + book'.stranded = PoolCap + Cardinality(Capping) + book.stranded
    BY <1>1, <1>2, <1>3
  <1> QED
    BY <1>1, <1>4 DEF PoolInv

LEMMA PoolSteps == EpisodeInv /\ PoolInv /\ [EpisodeNext]_episodeVars => PoolInv'
  <1> SUFFICES ASSUME EpisodeInv, PoolInv, [EpisodeNext]_episodeVars PROVE PoolInv'
    OBVIOUS
  <1>1. EpisodeTypes /\ EpisodeTypes'
    BY EpisodeSteps DEF EpisodeInv
  <1>2. CASE UNCHANGED episodeVars
    BY <1>2 DEF episodeVars, PoolInv, Capping, On, J
  <1>3. ASSUME NEW w \in Workers, WorkerStep(w) PROVE PoolInv'
    <2>1. CASE Publish(w) \/ EnforceFifoCap(w) \/ ReadPool(w)
      BY <1>1, <2>1, PoolPublished, PoolCapped, PoolRead
    <2>2. CASE ~(Publish(w) \/ EnforceFifoCap(w) \/ ReadPool(w))
      <3>1. /\ pool' = pool /\ clock' = clock /\ book'.fifo = book.fifo /\ book'.read = book.read
            /\ book'.stranded = book.stranded /\ book.next <= book'.next
            /\ ~AtCap(job[w]) /\ ~AtCap(job'[w]) /\ \A u \in Workers : u # w => job'[u] = job[u]
        BY <1>1, <1>3, <2>2, EpisodeFrame
      <3>2. Capping' = Capping
        BY <3>1, CappingKept
      <3>3. clock <= clock'
        BY <1>1, <3>1 DEF EpisodeTypes
      <3> QED
        BY <1>1, <3>1, <3>2, <3>3, PoolElsewhere
    <2> QED
      BY <2>1, <2>2
  <1>4. CASE TickClock
    <2>1. pool' = pool /\ book' = book /\ job' = job /\ clock' = clock + 1
      BY <1>4 DEF TickClock
    <2>2. Capping' = Capping
      BY <2>1 DEF Capping, On, J
    <2>3. clock <= clock' /\ book.next <= book'.next
      BY <1>1, <2>1 DEF EpisodeTypes
    <2> QED
      BY <1>1, <2>1, <2>2, <2>3, PoolElsewhere
  <1>5. CASE Kill
    BY <1>1, <1>5, PoolKilled
  <1> QED
    BY <1>2, <1>3, <1>4, <1>5 DEF EpisodeNext

LEMMA InitPool == EpisodeInit => PoolInv
  <1> SUFFICES ASSUME EpisodeInit PROVE PoolInv
    OBVIOUS
  <1>1. pool = {} /\ book.fifo = {} /\ book.read = {} /\ book.stranded = 0
    BY DEF EpisodeInit
  <1>2. IsFiniteSet(pool) /\ Cardinality(pool) = 0
    BY <1>1, FS_EmptySet
  <1>3. Cardinality(pool) <= PoolCap + Cardinality(Capping) + book.stranded
    BY <1>1, <1>2, CappingIsFinite, EpisodeAssumption
  <1> QED
    BY <1>1, <1>2, <1>3 DEF PoolInv

LEMMA EpisodesHold == EpisodeInv /\ PoolInv => ForgettingIsSafe /\ EpisodesStayWithTheirPrincipal
  <1> SUFFICES ASSUME EpisodeInv, PoolInv PROVE ForgettingIsSafe /\ EpisodesStayWithTheirPrincipal
    OBVIOUS
  <1>1. OneProcedurePerKey
    BY DEF EpisodeInv, EpisodeRows, ShownOK, OneProcedurePerKey
  <1>2. EvictionSparesTheValidated
    BY DEF EpisodeInv, EvictedOK, EvictionSparesTheValidated
  <1>3. PoolIsBounded
    BY DEF PoolInv, PoolIsBounded
  <1>4. EpisodesStayWithTheirPrincipal
    BY DEF EpisodeInv, ShownOK, EpisodesStayWithTheirPrincipal
  <1> QED
    BY <1>1, <1>2, <1>3, <1>4 DEF ForgettingIsSafe

(* However stores, evictions, publications and crashes interleave, a room  *)
(* keeps one row per procedure, an eviction spares what was validated in   *)
(* the meantime, and the pool exceeds its limit only by the writes that    *)
(* have not yet enforced it, or died before they could                     *)
(* (facade_procedural.py, eviction.py, shared_pool.py).                    *)
THEOREM ForgettingStaysSafe == EpisodeSpec => []ForgettingIsSafe
  <1>1. EpisodeInit => EpisodeInv /\ PoolInv
    BY InitEpisodes, InitPool
  <1>2. EpisodeInv /\ PoolInv /\ [EpisodeNext]_episodeVars => EpisodeInv' /\ PoolInv'
    BY EpisodeSteps, PoolSteps
  <1>3. EpisodeInv /\ PoolInv => ForgettingIsSafe
    BY EpisodesHold
  <1> QED
    BY <1>1, <1>2, <1>3, PTL DEF EpisodeSpec

(* An episode or a procedure is shown only to the principal and the epoch  *)
(* it was stored under, and never before its summary has arrived           *)
(* (_principal_filter.py, episodic_store.py).                              *)
THEOREM EpisodesKeepTheirPrincipal == EpisodeSpec => []EpisodesStayWithTheirPrincipal
  <1>1. EpisodeInit => EpisodeInv /\ PoolInv
    BY InitEpisodes, InitPool
  <1>2. EpisodeInv /\ PoolInv /\ [EpisodeNext]_episodeVars => EpisodeInv' /\ PoolInv'
    BY EpisodeSteps, PoolSteps
  <1>3. EpisodeInv /\ PoolInv => EpisodesStayWithTheirPrincipal
    BY EpisodesHold
  <1> QED
    BY <1>1, <1>2, <1>3, PTL DEF EpisodeSpec

(***************************************************************************)
(* The tiers together.                                                     *)
(***************************************************************************)
LEMMA MemoryStarts == Init => FactInit /\ RecordInit /\ EpisodeInit
  BY DEF Init

LEMMA MemoryMoves ==
    [Next]_memoryVars => [FactNext]_factVars /\ [RecordNext]_recordVars /\ [EpisodeNext]_episodeVars
  BY DEF Next, memoryVars

LEMMA MemoryIsItsTiers == Spec => FactSpec /\ RecordSpec /\ EpisodeSpec
  BY MemoryStarts, MemoryMoves, PTL DEF Spec, FactSpec, RecordSpec, EpisodeSpec

(* Whatever a run of the memory does in any of its tiers, a fact, an       *)
(* episode and a procedure are read only under the principal and epoch     *)
(* they were stamped with, and a note never below the secrecy it was       *)
(* written or rewritten at (_principal_filter.py, _notes_mutations.py).    *)
THEOREM MemoryStaysInScope == Spec => []MemoryKeepsItsScope
  <1>1. FactsStayWithTheirPrincipal /\ EpisodesStayWithTheirPrincipal /\ NotesKeepTheirSecrecy => MemoryKeepsItsScope
    BY DEF MemoryKeepsItsScope, MemoryStaysWithItsPrincipal
  <1> QED
    BY <1>1, MemoryIsItsTiers, FactsKeepTheirPrincipal, EpisodesKeepTheirPrincipal, NotesStaySecret, PTL
=============================================================================
