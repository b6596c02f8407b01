------------------------------ MODULE MCMemory ------------------------------
EXTENDS FactStore, RecordTiers, EpisodeTier, TLC
VARIABLE focus   \* the tier this behaviour is about

NoScope == [session |-> Unset, principal |-> Unset, epoch |-> Unset]
SnapshotDef == [session |-> SessionSnapshot(Unset, Unset),
                principal |-> PrincipalSnapshot(Unset, Unset),
                epoch |-> EpochSnapshot(Unset, "live2")]
In(room, who) == RequestScope(NoScope, [session |-> room, principal |-> who, epoch |-> Unset])
Fact(p, o) == [key |-> <<"ann", p>>, obj |-> o, valid |-> TRUE]
Bad == [key |-> <<"ann", "invented">>, obj |-> 1, valid |-> FALSE]
Said(src, at, room, who, fs) ==
    [src |-> src, at |-> at, sess |-> room, principal |-> who, ambient |-> In(room, "p1"),
     facts |-> fs, parsed |-> fs # <<>>]
Before1 == Said("i1", 1, Unset, "p1", <<Fact("has_name", 1)>>)
Revised == Said("i2", 2, "r1", "p1", <<Bad, Fact("has_name", 2), Fact("has_name", 3)>>)
Recounted == Said("i6", 2, Unset, "p1", <<Fact("has_name", 2)>>)
Renamed == Said("i3", 3, "r1", "p1", <<Fact("has_name", 1)>>)
Others == Said("i4", 3, "r1", "p2", <<Fact("has_name", 1), Fact("prefers", 1), Fact("prefers", 2)>>)
Garbled == Said("i5", 4, "r1", "p1", <<>>)
(* One speaker of a room repeats what another said, and the room closes at *)
(* one instant.                                                            *)
Repeated == Said("i7", 3, "r1", "p1", <<Fact("has_name", 1)>>)
AgendasDef == {{Before1, Revised}, {Revised, Renamed}, {Renamed, Others}, {Renamed, Repeated}, {Before1, Recounted}, {Recounted, Renamed}, {Garbled}, {}}
ReadersDef == {In("r1", "p1"), In("r2", "p2")}

(* Calls of turns and of background closes against the record tiers. *)
Do(op, id, room, acting) ==
    [op |-> op, id |-> id, scope |-> [session |-> room, principal |-> "p1", epoch |-> "live2"],
     acting |-> acting, about |-> Unset, fields |-> {}, peer |-> "ann", delta |-> 0, state |-> "none"]
Note(id, room, acting) == Do("store_note", id, room, acting)
About(id, f) == [Note(id, "r1", Unset) EXCEPT !.about = "ann", !.fields = {f}]
Learn(id, f) == [Do("identity", id, "r1", Unset) EXCEPT !.about = "ann", !.fields = {f}]
Close(id, room, how) == [Do("close", id, room, Unset) EXCEPT !.state = how]
NoCalls == {{}}
CallsDef ==
    {{},
     {Note(1, "r1", "public"), Note(2, "r1", Unset), Note(3, "r1", "restricted"), Note(4, "r2", Unset)},
     {Note(1, "r1", "public"), Do("update_note", 1, "r1", "secret"), Do("update_note", 1, "r1", "public"),
      Do("recall_notes", 1, "r1", "public"), Do("delete_note", 1, "r2", Unset)},
     {Note(1, "r1", Unset), Do("recall_notes", 1, "r1", "restricted"), Note(2, "r1", Unset),
      Note(3, "r1", Unset), Do("delete_note", 1, "r1", Unset), Do("recall_notes", 2, "r1", Unset)},
     {Do("create", 1, "r1", Unset), Do("create", 2, "r2", Unset), Do("create", 3, "r1", Unset),
      Close(1, "r1", "fulfilled"), Close(1, "r1", "cancelled"), Close(2, "r1", "cancelled"), Do("list", 9, "r1", Unset)},
     {Learn(1, "name"), Learn(2, "role"), About(3, "likes"),
      [Note(4, "r1", "restricted") EXCEPT !.about = "ann", !.fields = {"secret"}]},
     {Do("record", 1, "r1", Unset), Do("record", 2, "r2", Unset), Learn(3, "name"), Do("summary", 6, "r1", Unset),
      [Do("trust", 4, "r1", Unset) EXCEPT !.delta = 2], Do("decay", 5, "r1", Unset)}}

(* Calls against the episodes table and the pool. *)
Ep(op, id, room) ==
    [op |-> op, id |-> id, key |-> Unset, imp |-> 2, words |-> {"plan"}, text |-> "said",
     scope |-> [session |-> room, principal |-> "p1", epoch |-> "live2"], limit |-> 1,
     ranked |-> FALSE, query |-> "", age |-> 0, agent |-> "a1"]
Proc(id, room, conf) == [Ep("procedure", id, room) EXCEPT !.key = "deploy", !.imp = conf]
Evict1 == Ep("evict", 9, "r1")
Retrieve == Ep("retrieve", 8, "r1")
Look(id, q, ranked) == [Ep("recall", id, "r1") EXCEPT !.query = q, !.ranked = ranked]
Pub(id, agent, conf) == [Ep("publish", id, "r1") EXCEPT !.agent = agent, !.imp = conf]
JobsDef ==
    {{},
     {Proc(1, "r1", 2), Proc(2, "r1", 2), Evict1, Retrieve},
     {Proc(1, "r1", 2), Proc(2, "r2", 1), Proc(3, "legacy", 1), Retrieve},
     {[Ep("observe", 1, "r1") EXCEPT !.imp = 0], Ep("observe", 2, "r1"), [Ep("observe", 3, "r2") EXCEPT !.imp = 3],
      Evict1, Look(5, "plan", TRUE)},
     {[Ep("observe", 1, "r1") EXCEPT !.text = "pending"], Ep("settle", 1, "r1"), Look(5, "", FALSE),
      [Ep("observe", 2, "r1") EXCEPT !.scope.principal = "p2"], Ep("delete", 1, "r1")},
     {Ep("observe", 1, "r1"), Ep("observe", 2, "r1"), Ep("summarize", 3, "r1"), Ep("delete_old", 4, "r1"),
      Look(5, "plan", FALSE)},
     {Pub(1, "a1", 2), Pub(2, "a2", 3), Pub(3, "a3", 3), Pub(4, "a1", 0), [Ep("read_pool", 5, "r1") EXCEPT !.agent = "a2"],
      Ep("read_pool", 6, "r1")}}

(* In every tier the same two coroutines call. *)
Symmetry == Permutations(Writers)

memoryVars == <<factVars, recordVars, episodeVars, focus>>
Init ==
    /\ focus \in {"facts", "records", "episodes"}
    /\ FactInit /\ RecordInit /\ EpisodeInit
    /\ focus = "facts" <=> history.due # {}
    /\ focus = "records" <=> ledger.due # {}
    /\ focus = "episodes" <=> book.due # {}
    /\ focus # "records" => pairs = {}
Next ==
    \/ focus = "facts" /\ FactNext /\ UNCHANGED <<recordVars, episodeVars, focus>>
    \/ focus = "records" /\ RecordNext /\ UNCHANGED <<factVars, episodeVars, focus>>
    \/ focus = "episodes" /\ EpisodeNext /\ UNCHANGED <<factVars, recordVars, focus>>
Spec == Init /\ [][Next]_memoryVars

(* A memory is stamped with the principal it is about, and only ever read  *)
(* under that principal and that epoch (and, for a fact a persona keeps to *)
(* its rooms, that room).                                                  *)
MemoryStaysWithItsPrincipal == FactsStayWithTheirPrincipal /\ EpisodesStayWithTheirPrincipal

(* Neither a tenant's memory nor a room's secret is shown elsewhere        *)
(* (_principal_filter.py, _notes_mutations.py).                            *)
MemoryKeepsItsScope == MemoryStaysWithItsPrincipal /\ NotesKeepTheirSecrecy
=============================================================================
