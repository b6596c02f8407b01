----------------------------- MODULE Migrations -----------------------------
(***************************************************************************)
(* The schema migrations of the agents' SQLite file, statement by          *)
(* statement, under the driver's transactions: a data statement opens one, *)
(* a schema statement joins the one that is open or commits at once, and a *)
(* handler's commit also makes the version record before it durable.  The  *)
(* process may die between any two statements and start again, possibly    *)
(* with another value of the notes backfill flag.                          *)
(***************************************************************************)
EXTENDS Naturals, Sequences, FiniteSets, FiniteSetsExt, SequencesExt

CONSTANTS
    StartVersions,  \* versions an older release may have left behind
    Flags,          \* values of the backfill flag: "unset", levels, "bad"
    MaxCrashes

VARIABLES
    disk,    \* what is durable
    work,    \* what the connection sees
    open,    \* a transaction is open
    at,      \* <<version, next statement>>, or Ready, or Down
    added,   \* notes_column_added
    flag,    \* the environment of this start
    crashes,
    release, \* the newest version the running release knows
    origin   \* ghost: the rows the older release left

migrationVars == <<disk, work, open, at, added, flag, crashes, release, origin>>

Newest == 20
Levels == {"public", "internal", "restricted", "secret"}
None == "none"
Down == <<0, 0>>
Ready == <<Newest + 1, 0>>

(***************************************************************************)
(* A database: tables with columns, a key, indexes and rows.               *)
(***************************************************************************)
Table(cols) == [cols |-> cols, key |-> {}, idx |-> {}, rows |-> {}]
Has(db, t) == t \in DOMAIN db.tables
HasCol(db, t, c) == Has(db, t) /\ c \in db.tables[t].cols
Put(db, t, tbl) ==
    [db EXCEPT !.tables = [u \in DOMAIN db.tables \cup {t} |-> IF u = t THEN tbl ELSE db.tables[u]]]
Drop(db, t) == [db EXCEPT !.tables = [u \in DOMAIN db.tables \ {t} |-> db.tables[u]]]

(* Statements. *)
Create(t, cols) == [op |-> "create", t |-> t, cols |-> cols]
Add(t, cols) == [op |-> "add", t |-> t, cols |-> cols]
Index(t, i) == [op |-> "index", t |-> t, i |-> i]
DropIndex(t, i) == [op |-> "unindex", t |-> t, i |-> i]
Data(name) == [op |-> name]
Commit == [op |-> "commit"]
LeaveUnless(t, c) == [op |-> "leave", t |-> t, c |-> c]

(* A table with a new key is copied; one statement each, so that a crash   *)
(* may leave the copy behind.  done names what a table already rebuilt has.*)
Temp(t) == IF t = "relationships" THEN "relationships_new" ELSE "interactions_new"

(* Mutant: the copy left behind is taken for the table. *)
RecoverCopy(t) == [op |-> "recover", t |-> t, keep |-> "copy"]

Recover(t) == [op |-> "recover", t |-> t, keep |-> "table"]
Rebuild(t, done, cols, key) ==
    <<Recover(t),
      [op |-> "copytable", t |-> t, done |-> done, cols |-> cols, key |-> key],
      [op |-> "copyrows", t |-> t, done |-> done],
      [op |-> "dropold", t |-> t, done |-> done],
      [op |-> "rename", t |-> t, done |-> done]>>

(***************************************************************************)
(* The migrations.                                                         *)
(***************************************************************************)
V1 == <<Commit, Create("episodes", {"agent_id"}), Index("episodes", "agent"), Create("agent_state", {"agent_id"})>>
V2 == <<Commit, Create("notes", {"agent_id"}), Index("notes", "agent")>>
V3 == <<Commit, Create("relationships", {"agent_id"}), Create("interactions", {"agent_id"}),
        Index("relationships", "agent"), Index("interactions", "lookup")>>
V4 == <<Create("users", {"participant_id"})>>
      \o Rebuild("relationships", [in |-> "cols", c |-> "participant_id"], {"participant_id"}, {"participant_id"})
      \o <<DropIndex("relationships", "agent"), Index("relationships", "participant")>>
      \o Rebuild("interactions", [in |-> "cols", c |-> "participant_id"], {"participant_id"}, {})
      \o <<DropIndex("interactions", "lookup"), Index("interactions", "participant"), Commit>>
V5 == <<LeaveUnless("episodes", "agent_id"), Add("episodes", {"interaction_id"}), Add("episodes", {"scope"}),
        Index("episodes", "scope"), Commit>>
V6 == <<LeaveUnless("episodes", "agent_id"), Add("episodes", {"confidence"}), Add("episodes", {"last_validated_at"}), Commit>>
V7 == <<Add("episodes", {"session_id"}), Index("episodes", "session"),
        Add("relationships", {"session_id"}), Index("relationships", "session"), Commit>>
V8 == <<Create("facts", {"agent_id", "session_id"}), Index("facts", "subject"), Index("facts", "session"), Commit>>
V9 == <<Add("notes", {"session_id"}), Index("notes", "session"), Commit>>
V10 == <<Add("interactions", {"session_id"}), Index("interactions", "session"), Commit>>
ByTable(Stmts(_), ts) == FlattenSeq([i \in DOMAIN ts |-> Stmts(ts[i])])
FourTables == <<"episodes", "facts", "notes", "interactions">>
V11Table(t) == <<Add(t, {"principal_id"}), Index(t, "principal")>>
V11 == Rebuild("relationships", [in |-> "key", c |-> "principal_id"],
               {"participant_id", "session_id", "principal_id"}, {"participant_id", "principal_id"})
       \o [i \in 1..3 |-> Index("relationships", <<"participant", "session", "principal">>[i])]
       \o ByTable(V11Table, FourTables) \o <<Commit>>
V12Table(t) == <<Add(t, {"epoch_id"}), Index(t, "epoch")>>
V12 == Rebuild("relationships", [in |-> "key", c |-> "epoch_id"],
               {"participant_id", "session_id", "principal_id", "epoch_id"}, {"participant_id", "principal_id", "epoch_id"})
       \o [i \in 1..4 |-> Index("relationships", <<"participant", "session", "principal", "epoch">>[i])]
       \o ByTable(V12Table, FourTables) \o <<Commit>>
V13 == <<Add("relationships", {"identity"}), Commit>>
V14 == <<LeaveUnless("notes", "agent_id"), LeaveUnless("relationships", "identity"), Data("identity"), Commit>>
V15 == <<LeaveUnless("episodes", "agent_id"), Add("episodes", {"governance_interaction_id"}), Data("governance"), Commit>>
V16Table(t) == <<Add(t, {"protection_level"}), Add(t, {"source_channel_id"}), Add(t, {"provenance_json"})>>
V16 == ByTable(V16Table, <<"episodes", "facts", "notes">>)
       \o <<Data("override"), Create("memory_projections", {"agent_id"}), Index("memory_projections", "agent"), Commit>>
V17 == <<LeaveUnless("relationships", "identity"), Data("fold"), Commit>>
V18 == <<Add("episodes", {"speaker_id"}), Add("facts", {"speaker_id"}), Commit>>
V19 == <<LeaveUnless("episodes", "agent_id"), Index("episodes", "interaction"), DropIndex("episodes", "agent"), Commit>>
V20 == <<Create("commitments", {"agent_id"}), Index("commitments", "due"), Commit>>

Handler(v) ==
    <<V1, V2, V3, V4, V5, V6, V7, V8, V9, V10, V11, V12, V13, V14, V15, V16, V17, V18, V19, V20>>[v]
(* The version is recorded when the handler has returned.                  *)
Script(v) == Handler(v) \o <<[op |-> "record", v |-> v]>>

(***************************************************************************)
(* What a statement does to the rows.                                      *)
(***************************************************************************)
Total(f(_), S) == MapThenSumSet(f, S)
CountOf(r) == r.count
ScoreOf(r) == r.score
MergedName(older, newer) == IF newer # None THEN newer ELSE older

(* v14: what the contact notes say of a person goes to each of the rows    *)
(* for that person, or to a new row.                                       *)
NewRow(name) == [typ |-> "agent", count |-> 0, score |-> 0, last |-> 0, name |-> name]
Backfilled(notes, rel) ==
    LET said == {n.says : n \in notes} \ {None}
        name == CHOOSE x \in said : TRUE
    IN IF said = {} THEN rel
       ELSE IF rel = {} THEN {NewRow(name)}
       ELSE {[r EXCEPT !.name = MergedName(@, name)] : r \in rel}

(* v17: a person with a row of each type is one person.  score is trust    *)
(* times interactions, so the weighted average adds it up.                 *)
FoldPair(u, a) ==
    LET agentNewer == a.last > u.last IN
    [typ |-> "user", count |-> u.count + a.count, score |-> u.score + a.score,
     last |-> IF agentNewer THEN a.last ELSE u.last,
     name |-> IF agentNewer THEN MergedName(u.name, a.name) ELSE MergedName(a.name, u.name)]
Folded(rel) ==
    LET Typed(t) == {r \in rel : r.typ = t} IN
    IF Typed("user") = {} \/ Typed("agent") = {} THEN rel
    ELSE {FoldPair(u, a) : u \in Typed("user"), a \in Typed("agent")}

(* v16: the flag speaks for the notes there when the column is made.       *)
OverrideApplies == flag # "unset" /\ added

(* A note's level is what the column holds once there is one. *)
WithColumn(rows) == {[n EXCEPT !.level = "internal"] : n \in rows}

NeedsRebuild(db, s) ==
    /\ Has(db, s.t)
    /\ s.done.c \notin (IF s.done.in = "key" THEN db.tables[s.t].key ELSE db.tables[s.t].cols)

Effect(db, s) ==
    CASE s.op = "create" -> IF Has(db, s.t) THEN db ELSE Put(db, s.t, Table(s.cols))
      [] s.op = "add" ->
           IF ~Has(db, s.t) \/ s.cols \subseteq db.tables[s.t].cols THEN db
           ELSE Put(db, s.t, [db.tables[s.t] EXCEPT !.cols = @ \cup s.cols,
                    !.rows = IF s.t = "notes" /\ s.cols = {"protection_level"} THEN WithColumn(@) ELSE @])
      [] s.op = "index" -> IF Has(db, s.t) THEN [db EXCEPT !.tables[s.t].idx = @ \cup {s.i}] ELSE db
      [] s.op = "unindex" -> IF Has(db, s.t) THEN [db EXCEPT !.tables[s.t].idx = @ \ {s.i}] ELSE db
      [] s.op = "recover" ->
           IF ~Has(db, Temp(s.t)) THEN db
           ELSE IF Has(db, s.t) /\ s.keep = "table" THEN Drop(db, Temp(s.t))
           ELSE Drop(Put(db, s.t, db.tables[Temp(s.t)]), Temp(s.t))
      [] s.op = "copytable" ->
           IF NeedsRebuild(db, s) THEN Put(db, Temp(s.t), [Table(s.cols) EXCEPT !.key = s.key])
           ELSE IF ~Has(db, s.t) /\ s.done.in = "cols" THEN Put(db, s.t, [Table(s.cols) EXCEPT !.key = s.key])
           ELSE db
      [] s.op = "copyrows" -> IF NeedsRebuild(db, s) THEN [db EXCEPT !.tables[Temp(s.t)].rows = db.tables[s.t].rows] ELSE db
      [] s.op = "dropold" -> IF NeedsRebuild(db, s) THEN Drop(db, s.t) ELSE db
      [] s.op = "rename" -> IF Has(db, Temp(s.t)) THEN Drop(Put(db, s.t, db.tables[Temp(s.t)]), Temp(s.t)) ELSE db
      [] s.op = "identity" ->
           [db EXCEPT !.tables["relationships"].rows = Backfilled(db.tables["notes"].rows, @)]
      [] s.op = "governance" -> [db EXCEPT !.tables["episodes"].rows = {[e EXCEPT !.column = e.context] : e \in @}]
      [] s.op = "override" ->
           IF OverrideApplies THEN [db EXCEPT !.tables["notes"].rows = {[n EXCEPT !.level = flag] : n \in @}] ELSE db
      [] s.op = "fold" -> [db EXCEPT !.tables["relationships"].rows = Folded(@)]
      [] s.op = "record" -> [db EXCEPT !.recorded = @ \cup {s.v}]
      [] OTHER -> db

(* The statements that open a transaction: those that write rows. *)
WritesRows(db, s) ==
    \/ s.op = "record"
    \/ s.op = "copyrows" /\ NeedsRebuild(db, s)
    \/ s.op \in {"identity", "governance", "fold"} /\ Effect(db, s) # db
    \/ s.op = "override" /\ OverrideApplies

Current(db) == IF db.recorded = {} THEN 0 ELSE Max(db.recorded)
First(v) == IF v > release THEN Ready ELSE <<v, 1>>

(***************************************************************************)
(* Actions.                                                                *)
(***************************************************************************)
Statement == Script(at[1])[at[2]]
Running == at[1] \in 1..Newest
After == IF at[2] < Len(Script(at[1])) THEN <<at[1], at[2] + 1>> ELSE First(at[1] + 1)
(* An out-of-vocabulary flag fails the migration. *)
BadFlag == Statement.op = "override" /\ OverrideApplies /\ flag \notin Levels

Step ==
    /\ Running /\ ~BadFlag
    /\ LET s == Statement
           left == s.op = "leave" /\ ~HasCol(work, s.t, s.c)
           next == IF left THEN <<at[1], Len(Script(at[1]))>> ELSE After
           commits == s.op = "commit" \/ next = Ready
       IN /\ work' = Effect(work, s)
          /\ open' = (~commits /\ (open \/ WritesRows(work, s)))
          /\ disk' = IF open' THEN disk ELSE work'
          /\ added' = \/ s.op = "add" /\ s.t = "notes" /\ s.cols = {"protection_level"} /\ work' # work
                      \/ s.op # "record" /\ added
          /\ at' = next
    /\ UNCHANGED <<flag, crashes, release, origin>>

(* The process dies, or the migration raises: the open transaction is gone. *)
Die ==
    /\ Running
    /\ \/ BadFlag /\ UNCHANGED crashes
       \/ release = Newest /\ crashes < MaxCrashes /\ crashes' = crashes + 1
    /\ work' = disk /\ open' = FALSE /\ at' = Down /\ added' = FALSE
    /\ UNCHANGED <<disk, flag, release, origin>>

Start ==
    /\ at = Down
    /\ \E f \in Flags : flag' = f /\ (release < Newest => f = "unset")
    /\ at' = First(Current(disk) + 1)
    /\ UNCHANGED <<disk, work, open, added, crashes, release, origin>>

(* The process stops, and may start again on the migrated file. *)
Stop ==
    /\ at = Ready /\ release = Newest /\ crashes < MaxCrashes
    /\ crashes' = crashes + 1 /\ at' = Down
    /\ UNCHANGED <<disk, work, open, added, flag, release, origin>>

(***************************************************************************)
(* An older release ran its own migrations and left rows; this one takes   *)
(* over.                                                                   *)
(***************************************************************************)
Row(t, n) == [typ |-> t, count |-> n, score |-> n, last |-> n, name |-> IF t = "user" THEN "u" ELSE None]
People(v) == IF v < 4 THEN {{}, {Row("agent", 2)}}
             ELSE IF v < 17 THEN {{Row("agent", 2)}, {Row("user", 1), Row("agent", 2)}, {Row("user", 3), Row("agent", 2)}}
             ELSE {{Row("user", 1)}}
OldNotes(v) == {[id |-> "contact", says |-> "n", level |-> IF v < 16 THEN None ELSE "restricted"]}
OldEpisodes(v) == {[context |-> "g", column |-> IF v < 15 THEN None ELSE "g"]}
Fill(db, t, rows) == IF Has(db, t) THEN [db EXCEPT !.tables[t].rows = rows] ELSE db

Upgrade ==
    /\ at = Ready /\ release < Newest
    /\ \E people \in People(release) :
         /\ disk' = Fill(Fill(Fill(work, "relationships", people), "notes", OldNotes(release)), "episodes", OldEpisodes(release))
         /\ origin' = [version |-> release, people |-> IF release < 3 THEN {} ELSE people,
                       notes |-> IF release < 2 THEN {} ELSE OldNotes(release)]
    /\ work' = disk' /\ at' = Down /\ release' = Newest
    /\ UNCHANGED <<open, added, flag, crashes>>

MigrationInit ==
    /\ disk = [tables |-> [t \in {} |-> Table({})], recorded |-> {}]
    /\ release \in StartVersions
    /\ origin = [version |-> 0, people |-> {}, notes |-> {}]
    /\ work = disk
    /\ open = FALSE /\ at = Down /\ added = FALSE /\ flag = "unset" /\ crashes = 0

MigrationNext == Step \/ Die \/ Start \/ Stop \/ Upgrade

(***************************************************************************)
(* Properties.                                                             *)
(***************************************************************************)
Scoped == {"agent_id", "session_id", "principal_id", "epoch_id"}
Guarded == {"protection_level", "source_channel_id", "provenance_json"}
NeededColumns == [
    episodes |-> Scoped \cup Guarded \cup {"interaction_id", "scope", "confidence", "last_validated_at",
                                           "governance_interaction_id", "speaker_id"},
    agent_state |-> {"agent_id"}, users |-> {"participant_id"},
    notes |-> Scoped \cup Guarded,
    facts |-> Scoped \cup Guarded \cup {"speaker_id"},
    interactions |-> (Scoped \ {"agent_id"}) \cup {"participant_id"},
    relationships |-> (Scoped \ {"agent_id"}) \cup {"participant_id", "identity"},
    memory_projections |-> {"agent_id"}, commitments |-> {"agent_id"}]
NeededIndexes == [
    episodes |-> {"scope", "session", "principal", "epoch", "interaction"},
    agent_state |-> {}, users |-> {},
    notes |-> {"agent", "session", "principal", "epoch"},
    facts |-> {"subject", "session", "principal", "epoch"},
    interactions |-> {"participant", "session", "principal", "epoch"},
    relationships |-> {"participant", "session", "principal", "epoch"},
    memory_projections |-> {"agent"}, commitments |-> {"due"}]

(* Whatever release left the file, and however often the process died on   *)
(* the way, the stores open on the schema they are written for: its        *)
(* tables, columns and indexes and no copy left behind, and relationships  *)
(* keyed by tenant and epoch.                                              *)
UpgradeEndsInTheSchema == at = Ready /\ release = Newest =>
    /\ DOMAIN work.tables = DOMAIN NeededColumns
    /\ \A t \in DOMAIN work.tables :
         work.tables[t].cols = NeededColumns[t] /\ work.tables[t].idx = NeededIndexes[t]
    /\ work.tables["relationships"].key = {"participant_id", "principal_id", "epoch_id"}

(* A version that is durably recorded has durably been applied: a start    *)
(* that skips it skips nothing.                                            *)
Made(v) == {<<s.t, s.cols>> : s \in {x \in Range(Handler(v)) : x.op \in {"add", "create"}}}
RecordedIsApplied == \A v \in disk.recorded : \A m \in Made(v) :
    Has(disk, m[1]) /\ (m[2] \subseteq disk.tables[m[1]].cols \/ m[2] = {"agent_id"})

(* No crash or replay loses a person, a name or a note, or counts an       *)
(* interaction twice: what is durable adds up to what the older release    *)
(* had.                                                                    *)
NothingLostOrCountedTwice ==
    /\ Has(disk, "relationships") =>
         LET rel == disk.tables["relationships"].rows IN
         /\ Total(CountOf, rel) = Total(CountOf, origin.people)
         /\ Total(ScoreOf, rel) = Total(ScoreOf, origin.people)
         /\ (\E r \in origin.people : r.name # None) => \E r \in rel : r.name # None
    /\ Has(disk, "notes") => {n.id : n \in origin.notes} \subseteq {n.id : n \in disk.tables["notes"].rows}

(* A flag set to a level at the start that migrates the notes leaves no    *)
(* older note at the default it was to replace.                            *)
FlagIsHonoured ==
    at = Ready /\ release = Newest /\ origin.version < 16 /\ "secret" = flag /\ crashes = 0
    => \A n \in work.tables["notes"].rows : n.id = "contact" => n.level = "secret"

(* An upgrade is whole: the schema is complete, nothing is marked done     *)
(* that is not, and the people and notes of the older release are there    *)
(* once each, after any number of crashes on the way.                      *)
UpgradesAreWhole == UpgradeEndsInTheSchema /\ RecordedIsApplied /\ NothingLostOrCountedTwice
=============================================================================
