-------------------------- MODULE MemoryInjection --------------------------
(***************************************************************************)
(* How memory reaches a persona's prompt (persona_runtime/memory_context,  *)
(* injection_gate, audience, projection_branch, memory_assembly) and what  *)
(* the recall tools add to it while the turn composes (tools/recall.py,    *)
(* tools/memory_tools.py, internal/channels/sqlite_search.go).             *)
(*                                                                         *)
(* Every row of memory carries a protection level and the room it came     *)
(* from.  A row may enter the prompt of a turn that acts in room C only if *)
(* its level is at most C's classification and, in `live' audience mode,   *)
(* C adds nobody to the room the row came from.  The rosters the second    *)
(* test reads are fetched while the turn waits and people come and go      *)
(* meanwhile; every recall and fetch may fail; a turn may be cancelled at  *)
(* any wait by its timeout, and the next one starts from what it left.     *)
(*                                                                         *)
(* A row is [id, kind, level, room, prov, size, inter, proj, subject,      *)
(* long]: prov says whether source_channel_id was stored, inter whether an *)
(* interaction id was, proj the levels a declassified projection exists    *)
(* at, long whether its text has the eight words a tripwire span needs.    *)
(* A room's session is the room.  Sizes are tokens.                        *)
(***************************************************************************)
EXTENDS Integers, Sequences, FiniteSets, SequencesExt

CONSTANTS Stores,        \* sequences of rows, best match first
          Gatherings,    \* who may be in the rooms to begin with
          Agenda,        \* sequences of events, one per turn
          Settings,      \* [audience, facts, episodic, enabled]: MemoryKnobs
          Persona,       \* agent_id
          Class,         \* the classification of each room
          Groups,        \* the rooms that are group channels
          Described,     \* subjects each room's description names, in order
          Budget, FactsBudget, ContextTokens, HeaderTokens, MinTokens,
          RelationSize, RecallLimit,
          MaxMoves, MaxFaults

VARIABLES store, knobs, members, todo, evt,
          at,        \* the wait the turn is at
          roster,    \* [state, who, named]: the acting room's roster task
          got,       \* recalled rows by tier
          view,      \* TurnAudience: [on, known, due]
          decided,   \* the gate's decision on each recalled row, by tier
          serve,     \* the rows handed to the renderers, by tier
          watch,     \* the tripwire watch stamped on the event
          sections,  \* WorkingMemory: items and tokens by section
          left,      \* MemoryBudget.remaining
          admitted,  \* MemoryBudget._admissions: <<tier, id>>
          prompt,    \* the memory the compose call was made with
          heard,     \* what the recall tools answered
          steady,    \* [in, out]: who was in, and out of, which room all turn
          moves, faults, spoiled

injectVars == <<store, knobs, members, todo, evt, at, roster, got, view, decided, serve, watch,
                sections, left, admitted, prompt, heard, steady, moves, faults, spoiled>>

NoRoom == "none"
Unknown == {"unknown"}
Tiers == {"channel_history", "facts", "episodic", "notes"}
AudienceTiers == {"channel_history", "facts", "episodic"}
SectionNames == Tiers \cup {"relationship", "roster"}
Rooms == DOMAIN Class
People == UNION {UNION {g[r] : r \in Rooms} : g \in Gatherings}

-----------------------------------------------------------------------------
(* classification.py *)
Rank == [public |-> 0, internal |-> 1, restricted |-> 2, secret |-> 3]
Levels == DOMAIN Rank
ActingRank(l) == IF l \in Levels THEN Rank[l] ELSE Rank["public"]
Injectable(l) == {x \in Levels : Rank[x] <= ActingRank(l)}
(* Only a turn that answers a channel acts at a channel's level. *)
Acting(e) == IF e.kind \in {"message", "mention"} THEN e.level ELSE NoRoom
Source(row) == IF row.prov THEN row.room ELSE NoRoom

-----------------------------------------------------------------------------
(* Recall. *)
Take(s, n) == SubSeq(s, 1, IF Len(s) < n THEN Len(s) ELSE n)
OfTheRoom(row) == row.room = evt.room
(* Rows of the acting room's own scope; only a channel message asks. *)
ChannelHistory ==
    IF evt.kind # "message" THEN <<>>
    ELSE Take(SelectSeq(store, LAMBDA r : r.kind = "episode" /\ OfTheRoom(r)), RecallLimit)
Episodic ==
    Take(SelectSeq(store, LAMBDA r : r.kind = "episode" /\ (knobs.episodic = "live" \/ OfTheRoom(r))), RecallLimit)
NotesUpTo(level) ==
    Take(SelectSeq(store, LAMBDA r : r.kind = "note" /\ OfTheRoom(r) /\ r.level \in Injectable(level)), RecallLimit)

NotesForEvent == NotesUpTo(Acting(evt))

Person(e) == IF e.sender = NoRoom THEN <<>> ELSE <<"self", e.sender>>
(* The subjects the room's description and the message name: three seats,  *)
(* of which the description may keep two.                                  *)
TopicSeeds(named, said) ==
    LET kept == Take(named, 2)
        message == Take(SelectSeq(said, LAMBDA s : ~ Contains(kept, s)), 3 - Len(kept))
        room == Take(named, 3 - Len(message))
    IN  Take(room, 1) \o message \o SubSeq(room, 2, Len(room))
Seeds(e, named) ==
    LET fresh(s) == SelectSeq(s, LAMBDA x : ~ Contains(Person(e), x))
    IN  IF e.sender = NoRoom THEN <<>> ELSE Person(e) \o TopicSeeds(fresh(named), fresh(e.said))
Facts ==
    LET of(s) == Take(SelectSeq(store, LAMBDA r : r.kind = "fact" /\ r.subject = s
                                              /\ (knobs.facts = "live" \/ OfTheRoom(r))), RecallLimit)
    IN  FoldLeft(LAMBDA acc, s : acc \o SelectSeq(of(s), LAMBDA r : ~ Contains(acc, r)),
                 <<>>, Seeds(evt, roster.named))
Recalled(tier) ==
    CASE tier = "channel_history" -> ChannelHistory
      [] tier = "facts" -> IF knobs.enabled THEN Facts ELSE <<>>
      [] tier = "episodic" -> Episodic
      [] tier = "notes" -> NotesForEvent

-----------------------------------------------------------------------------
(* The gate. *)
Known(who) == IF who = {} THEN Unknown ELSE who
MembersOf(r) == IF r \in DOMAIN view.known THEN view.known[r] ELSE Unknown

\* Mutant: one common member is enough.
VerdictOverlap(tier, level, src) ==
    CASE tier \notin AudienceTiers \/ level = "public" -> "exempt"
      [] src = NoRoom -> "no_provenance"
      [] MembersOf(src) = Unknown \/ MembersOf(evt.room) = Unknown -> "fetch_failed"
      [] (MembersOf(evt.room) \cap MembersOf(src)) # {} -> "admit"
      [] OTHER -> "disjoint"

Verdict(tier, level, src) ==
    CASE tier \notin AudienceTiers \/ level = "public" -> "exempt"
      [] src = NoRoom -> "no_provenance"
      [] MembersOf(src) = Unknown \/ MembersOf(evt.room) = Unknown -> "fetch_failed"
      [] MembersOf(evt.room) \subseteq MembersOf(src) -> "admit"
      [] OTHER -> "disjoint"
AudienceAdmits(tier, level, src) ==
    ~ (view.on /\ knobs.audience = "live" /\ Verdict(tier, level, src) = "disjoint")
AdmitRow(tier, row) ==
    CASE row.level \notin Injectable(Acting(evt)) -> "withheld"
      [] ~ AudienceAdmits(tier, row.level, Source(row)) -> "terminal"
      [] OTHER -> "passed"
(* Only the rooms of rows the gate will judge are worth a fetch. *)
SourceRooms ==
    UNION {{Source(got[t][i]) : i \in {j \in DOMAIN got[t] : got[t][j].level \in Injectable(Acting(evt)) \ {"public"}}}
           : t \in AudienceTiers} \ {NoRoom}

(* The best projection at or below the acting level stands in for a row    *)
(* the classification withheld, if its audience admits it.                 *)
Best(row) == {l \in row.proj \cap Injectable(Acting(evt)) :
                 \A k \in row.proj \cap Injectable(Acting(evt)) : Rank[k] <= Rank[l]}
StandIn(tier, row) ==
    {[row EXCEPT !.level = l] : l \in {b \in Best(row) :
        /\ tier \in {"channel_history", "episodic"}
        /\ row.inter
        /\ AudienceAdmits(tier, b, Source(row))}}
ServedRows(tier, projecting) ==
    LET serves(i) == IF decided[tier][i] = "passed" THEN {got[tier][i]}
                     ELSE IF decided[tier][i] = "withheld" /\ projecting THEN StandIn(tier, got[tier][i])
                     ELSE {}
    IN  FoldLeft(LAMBDA acc, i : IF serves(i) = {} THEN acc ELSE Append(acc, CHOOSE r \in serves(i) : TRUE),
                 <<>>, [i \in DOMAIN got[tier] |-> i])
(* The verbatim text of a withheld row is watched for in what the turn     *)
(* says; an audience withhold is not.                                      *)
BuildWatch ==
    UNION {{<<t, got[t][i].id>> : i \in {j \in DOMAIN got[t] : decided[t][j] = "withheld" /\ got[t][j].long}}
           : t \in Tiers}

-----------------------------------------------------------------------------
(* The budget. *)
Truncated(n, least) == IF n >= least THEN n ELSE 0
TryAdd(n, size, least) ==
    CASE n <= 0 -> 0
      [] n > 0 /\ size <= n -> size
      [] n > 0 /\ size > n -> Truncated(n, least)
Item(tier, row, n) == [tier |-> tier, id |-> row.id, level |-> row.level, size |-> n]
AddLine(tier, acc, row) ==
    LET n == TryAdd(acc.left, row.size, MinTokens[tier])
    IN  IF n = 0 THEN acc
        ELSE [acc EXCEPT !.left = @ - n, !.items = Append(@, Item(tier, row, n)), !.used = @ + n,
                         !.ids = @ \cup {<<tier, row.id>>}]
Spent(n) == [left |-> n, items |-> <<>>, used |-> 0, ids |-> {}]
Render(tier, n) == FoldLeft(LAMBDA acc, r : AddLine(tier, acc, r), Spent(n), serve[tier])

RenderHistory(n) == Render("channel_history", n)
RenderEpisodes(n) == Render("episodic", n)
RenderNotes(n) == Render("notes", n)
RenderRelationship(n) ==
    IF got["relationship"] = <<>> THEN 0 ELSE TryAdd(n, RelationSize, MinTokens["relationship"])

(* Facts are rendered by subject: the lines are charged first, then the    *)
(* heading; a group whose heading no longer fits is dropped, tokens spent. *)
FactLine(acc, row) == IF acc.used >= FactsBudget \/ acc.left <= 0 THEN acc ELSE AddLine("facts", acc, row)
GroupLines(acc, subject) ==
    FoldLeft(FactLine, [acc EXCEPT !.items = <<>>], SelectSeq(serve["facts"], LAMBDA r : r.subject = subject))
HeadTokens(n) == TryAdd(n, HeaderTokens, MinTokens["facts"])
SepTokens(n) == IF HeadTokens(n) = 0 THEN 0 ELSE TryAdd(n - HeadTokens(n), 1, 1)
FactGroup(acc, subject) ==
    LET lines == GroupLines(acc, subject)
        fits == SepTokens(lines.left) > 0
    IN  IF acc.used >= FactsBudget \/ acc.left <= 0 \/ lines.items = <<>> THEN acc
        ELSE [left |-> lines.left - HeadTokens(lines.left) - SepTokens(lines.left), used |-> lines.used,
              items |-> acc.items \o (IF fits THEN lines.items ELSE <<>>),
              ids |-> IF fits THEN lines.ids ELSE acc.ids]
RenderFacts(n) ==
    LET subjects == FoldLeft(LAMBDA acc, r : IF Contains(acc, r.subject) THEN acc ELSE Append(acc, r.subject),
                             <<>>, serve["facts"])
    IN  FoldLeft(FactGroup, Spent(n), subjects)

Tokens(items) == FoldLeft(LAMBDA acc, x : acc + x.size, 0, items)
NoSection == [items |-> <<>>, tokens |-> 0]
Section(name, items) ==
    IF items = <<>> THEN sections[name] ELSE [items |-> items, tokens |-> Tokens(items) + HeaderTokens]

(* A group room's roster, once its directory is resolved. *)
RosterSection ==
    IF roster.state = "known" /\ roster.directory
    THEN [items |-> <<>>, tokens |-> Cardinality(roster.who)] ELSE NoSection

(* WorkingMemory.build_context: by priority, what still fits. *)
BuildContext ==
    LET order == <<"roster", "relationship", "channel_history", "facts", "episodic", "notes">>
        add(acc, name) ==
            IF acc.total + sections[name].tokens > ContextTokens THEN acc
            ELSE [total |-> acc.total + sections[name].tokens, items |-> acc.items \o sections[name].items]
    IN  FoldLeft(add, [total |-> 0, items |-> <<>>], order).items
(* gate.manifest: what the budget admitted, at the level it passed at. *)
Manifest ==
    UNION {{<<t, serve[t][i].id, serve[t][i].level>> :
              i \in {j \in DOMAIN serve[t] : <<t, serve[t][j].id>> \in admitted}} : t \in Tiers}

-----------------------------------------------------------------------------
NoRoster == [state |-> "pending", who |-> {}, named |-> <<>>, directory |-> FALSE]
NoView == [on |-> FALSE, known |-> <<>>, due |-> {}]
Empty == [t \in Tiers |-> <<>>]
NothingRecalled == [t \in Tiers \cup {"relationship"} |-> <<>>]
Idle == [kind |-> "idle", room |-> NoRoom, level |-> NoRoom, sender |-> NoRoom, said |-> <<>>, met |-> FALSE]

InjectInit ==
    /\ store \in Stores /\ knobs \in Settings /\ members \in Gatherings /\ todo \in Agenda
    /\ evt = Idle /\ at = "idle" /\ roster = NoRoster /\ got = NothingRecalled /\ view = NoView
    /\ decided = Empty /\ serve = Empty /\ watch = {} /\ sections = [n \in SectionNames |-> NoSection]
    /\ left = Budget /\ admitted = {} /\ prompt = <<>> /\ heard = {}
    /\ steady = [in |-> {}, out |-> {}] /\ moves = 0 /\ faults = 0 /\ spoiled = FALSE

World == <<store, knobs, members, moves, faults, spoiled>>
Kept(S) == sections' = [n \in SectionNames |-> IF n \in S THEN sections[n] ELSE NoSection]
Fails == faults < MaxFaults /\ faults' = faults + 1
Works == UNCHANGED <<faults, spoiled>>

(* _inject_memory_context removes what the last turn left, but the roster. *)
Begin ==
    /\ at = "idle" /\ todo # <<>>
    /\ evt' = Head(todo) /\ todo' = Tail(todo)
    /\ Kept({"roster"})
    /\ steady' = [in |-> {p \in People \X Rooms : p[1] \in members[p[2]]},
                  out |-> {p \in People \X Rooms : p[1] \notin members[p[2]]}]
    /\ at' = "relationship" /\ roster' = NoRoster /\ got' = NothingRecalled /\ view' = NoView /\ decided' = Empty
    /\ serve' = Empty /\ watch' = {} /\ left' = Budget /\ admitted' = {} /\ prompt' = <<>> /\ heard' = {}
    /\ spoiled' = FALSE
    /\ UNCHANGED <<store, knobs, members, moves, faults>>

(* The roster is fetched by a task of its own beside the recalls; a group  *)
(* room also asks for the directory, which only the roster section needs.  *)
NoMembers == [NoRoster EXCEPT !.state = "none"]
RosterOf(r, directory) ==
    IF members[r] = {} THEN NoMembers
    ELSE [state |-> "known", who |-> members[r], named |-> Described[r], directory |-> directory]
FetchRoster ==
    /\ at \notin {"idle", "composed"} /\ roster.state = "pending"
    /\ \/ evt.room = NoRoom /\ Works /\ roster' = NoMembers
       \/ evt.room # NoRoom /\ Works /\ roster' = RosterOf(evt.room, evt.room \in Groups)
       \/ /\ evt.room # NoRoom /\ Fails /\ spoiled' = TRUE
          /\ roster' \in {NoMembers} \cup {RosterOf(r, FALSE) : r \in {evt.room} \cap Groups}
    /\ UNCHANGED <<store, knobs, members, todo, evt, at, got, view, decided, serve, watch, sections, left,
                   admitted, prompt, heard, steady, moves>>

(* Who the sender is to the persona: never gated, rendered first. *)
RecallRelationship ==
    /\ at = "relationship"
    /\ \/ Works /\ got' = [got EXCEPT !["relationship"] = IF evt.sender # NoRoom /\ evt.met THEN <<evt.sender>> ELSE <<>>]
       \/ Fails /\ UNCHANGED <<got, spoiled>>
    /\ at' = "channel_history"
    /\ UNCHANGED <<store, knobs, members, todo, evt, roster, view, decided, serve, watch, sections, left, admitted,
                   prompt, heard, steady, moves>>

Recall(tier) ==
    /\ at = tier
    /\ tier = "facts" /\ knobs.enabled => roster.state # "pending"
    /\ \/ got' = [got EXCEPT ![tier] = Recalled(tier)] /\ Works
       \/ got' = [got EXCEPT ![tier] = <<>>] /\ Fails /\ UNCHANGED spoiled
    /\ at' = CASE tier = "channel_history" -> "facts" [] tier = "facts" -> "episodic"
               [] tier = "episodic" -> "notes" [] tier = "notes" -> "audience"
    /\ UNCHANGED <<store, knobs, members, todo, evt, roster, view, decided, serve, watch, sections, left,
                   admitted, prompt, heard, steady, moves>>

ResolveAudience ==
    /\ at = "audience" /\ roster.state # "pending"
    /\ view' = IF knobs.audience = "off" \/ ActingRank(Acting(evt)) = 0 THEN NoView
               ELSE LET acting == IF roster.state = "known" THEN Known(roster.who) ELSE Unknown
                    IN  [on |-> TRUE, known |-> [r \in {evt.room} |-> acting],
                         due |-> IF acting = Unknown THEN {} ELSE SourceRooms \ {evt.room}]
    /\ at' = "fetching"
    /\ UNCHANGED <<todo, evt, roster, got, decided, serve, watch, sections, left, admitted, prompt, heard, steady>>
    /\ UNCHANGED World

FetchSource(r) ==
    /\ at = "fetching" /\ r \in view.due
    /\ \/ Works /\ view' = [view EXCEPT !.due = @ \ {r}, !.known = [x \in DOMAIN @ \cup {r} |->
                                IF x = r THEN Known(members[r]) ELSE @[x]]]
       \/ Fails /\ spoiled' = TRUE /\ view' = [view EXCEPT !.due = @ \ {r}]
    /\ UNCHANGED <<store, knobs, members, todo, evt, at, roster, got, decided, serve, watch, sections, left,
                   admitted, prompt, heard, steady, moves>>

RunGate ==
    /\ at = "fetching" /\ view.due = {}
    /\ decided' = [t \in Tiers |-> [i \in DOMAIN got[t] |-> AdmitRow(t, got[t][i])]]
    /\ at' = "projecting"
    /\ UNCHANGED <<todo, evt, roster, got, view, serve, watch, sections, left, admitted, prompt, heard, steady>>
    /\ UNCHANGED World

(* A failed projection read degrades to the plain withhold. *)
Project ==
    /\ at = "projecting"
    /\ \/ Works /\ serve' = [t \in Tiers |-> ServedRows(t, TRUE)]
       \/ Fails /\ UNCHANGED spoiled /\ serve' = [t \in Tiers |-> ServedRows(t, FALSE)]
    /\ watch' = BuildWatch
    /\ at' = "assembling"
    /\ UNCHANGED <<store, knobs, members, todo, evt, roster, got, view, decided, sections, left, admitted,
                   prompt, heard, steady, moves>>

(* Up to the wait in mark_recalled. *)
AssembleFacts ==
    /\ at = "assembling"
    /\ LET relation == RenderRelationship(left)
           history == RenderHistory(left - relation)
           facts == RenderFacts(history.left)
       IN  /\ sections' = [sections EXCEPT !["relationship"] = IF relation = 0 THEN @ ELSE [items |-> <<>>, tokens |-> relation],
                                           !["channel_history"] = Section("channel_history", history.items),
                                           !["facts"] = Section("facts", facts.items)]
           /\ left' = facts.left
           /\ admitted' = admitted \cup history.ids \cup facts.ids
    /\ at' = "marking"
    /\ UNCHANGED <<todo, evt, roster, got, view, decided, serve, watch, prompt, heard, steady>>
    /\ UNCHANGED World

AssembleRest ==
    /\ at = "marking"
    /\ LET episodes == RenderEpisodes(left)
           notes == RenderNotes(episodes.left)
       IN  /\ sections' = [sections EXCEPT
                 !["episodic"] = Section("episodic", episodes.items), !["notes"] = Section("notes", notes.items),
                 !["roster"] = RosterSection]
           /\ left' = notes.left
           /\ admitted' = admitted \cup episodes.ids \cup notes.ids
    /\ at' = "ready"
    /\ UNCHANGED <<todo, evt, roster, got, view, decided, serve, watch, prompt, heard, steady>>
    /\ UNCHANGED World

Compose ==
    /\ at = "ready"
    /\ prompt' = BuildContext
    /\ at' = "composed"
    /\ UNCHANGED <<todo, evt, roster, got, view, decided, serve, watch, sections, left, admitted, heard, steady>>
    /\ UNCHANGED World

(* The recall tools, under the acting level and room of the turn. *)
AmbientLevel(e) == Acting(e)
AmbientRoom(e) == e.room
MessagesFor(level, room) ==
    {r \in Rooms :
        /\ Persona \in members[r]
        /\ Class[r] \in Injectable(level)
        /\ room # NoRoom => Class[r] = "public" \/ members[room] = {} \/ members[room] \subseteq members[r]}
SearchMessages(e) == MessagesFor(AmbientLevel(e), IF knobs.audience = "live" THEN AmbientRoom(e) ELSE NoRoom)
RecallMessages ==
    /\ at = "composed"
    /\ heard' = heard \cup {[tier |-> "messages", id |-> r, level |-> Class[r], size |-> 0] : r \in SearchMessages(evt)}
    /\ UNCHANGED <<todo, evt, at, roster, got, view, decided, serve, watch, sections, left, admitted, prompt, steady>>
    /\ UNCHANGED World
RecallNotes ==
    /\ at = "composed"
    /\ heard' = heard \cup {Item("notes", NotesUpTo(AmbientLevel(evt))[i], 0) : i \in DOMAIN NotesUpTo(AmbientLevel(evt))}
    /\ UNCHANGED <<todo, evt, at, roster, got, view, decided, serve, watch, sections, left, admitted, prompt, steady>>
    /\ UNCHANGED World

(* The turn ends, or its timeout cancels it where it waits. *)
EndTurn ==
    /\ at # "idle" /\ todo # <<>>
    /\ at' = "idle"
    /\ UNCHANGED <<todo, evt, roster, got, view, decided, serve, watch, sections, left, admitted, prompt, heard, steady>>
    /\ UNCHANGED World

(* Someone joins or leaves a room; the persona stays where it is. *)
Move(p, r) ==
    /\ moves < MaxMoves /\ p # Persona /\ at # "idle"
    /\ members' = [members EXCEPT ![r] = IF p \in @ THEN @ \ {p} ELSE @ \cup {p}]
    /\ steady' = [in |-> steady.in \ {<<p, r>>}, out |-> steady.out \ {<<p, r>>}]
    /\ moves' = moves + 1
    /\ UNCHANGED <<store, knobs, todo, evt, at, roster, got, view, decided, serve, watch, sections, left,
                   admitted, prompt, heard, faults, spoiled>>

InjectNext ==
    \/ Begin \/ FetchRoster \/ RecallRelationship \/ \E t \in Tiers : Recall(t)
    \/ ResolveAudience \/ (\E r \in Rooms : FetchSource(r)) \/ RunGate \/ Project
    \/ AssembleFacts \/ AssembleRest \/ Compose \/ RecallMessages \/ RecallNotes \/ EndTurn
    \/ \E p \in People, r \in Rooms : Move(p, r)

-----------------------------------------------------------------------------
Shown == {prompt[i] : i \in DOMAIN prompt} \cup heard
RowOf(x) == CHOOSE r \in {store[i] : i \in DOMAIN store} : r.id = x.id

(* No text above the classification of the room a turn answers in reaches  *)
(* the model: not through the sections, whatever an earlier turn in a more *)
(* secret room left behind when it was cut off, not as a projection, not   *)
(* through a recall tool (injection_gate.py admit, memory_context.py       *)
(* remove_section, tools/recall.py).                                       *)
NothingAboveTheRoom ==
    at = "composed" => \A x \in Shown : x.level \in Levels /\ Rank[x.level] <= ActingRank(Acting(evt))

(* Somebody in the acting room for the whole turn, and out of the room a   *)
(* row or message came from for the whole turn, never brings it into the   *)
(* prompt verbatim in `live' mode, unless a fetch failed (audience.py      *)
(* verdict, sqlite_search.go audienceScope).                               *)
Outsiders(room) == {p \in People : <<p, evt.room>> \in steady.in /\ <<p, room>> \in steady.out}
AudienceHolds ==
    at = "composed" /\ knobs.audience = "live" /\ evt.room # NoRoom /\ ~ spoiled =>
        /\ \A x \in Shown : (x.tier \in AudienceTiers /\ x.level # "public"
                               /\ x.level = RowOf(x).level /\ RowOf(x).prov)
                              => Outsiders(RowOf(x).room) = {}
        /\ \A x \in heard : x.tier = "messages" /\ x.level # "public" => Outsiders(x.id) = {}

(* The same of the declassified stand-ins, which injection_gate.py's       *)
(* audience_admits_projection is there for.                                *)
ProjectionsKeepTheirAudience ==
    at = "composed" /\ knobs.audience = "live" /\ evt.room # NoRoom /\ ~ spoiled =>
        \A x \in Shown : (x.tier \in AudienceTiers /\ x.level # "public"
                            /\ x.level # RowOf(x).level /\ RowOf(x).prov)
                           => Outsiders(RowOf(x).room) = {}

(* The manifest the turn reports names exactly the memory in the sections, *)
(* at the level of the text shown, within the budget, although a group of  *)
(* facts may be dropped after it was paid for (memory_budget.py,           *)
(* facts_section.py, injection_gate.py manifest).                          *)
ManifestIsThePrompt ==
    at = "ready" =>
        /\ Manifest = UNION {{<<t, sections[t].items[i].id, sections[t].items[i].level>> :
                                i \in DOMAIN sections[t].items} : t \in Tiers}
        /\ left >= 0
        /\ Tokens(sections["channel_history"].items \o sections["facts"].items
                  \o sections["episodic"].items \o sections["notes"].items) <= Budget - left

(* Every recalled text withheld for its classification is watched for in   *)
(* what the turn publishes, also when a projection of it was shown, and    *)
(* nothing shown verbatim is (tripwire_watch.py).                          *)
WithheldIsWatched ==
    at \in {"assembling", "marking", "ready", "composed"} =>
        \A t \in Tiers : \A i \in DOMAIN got[t] :
            LET row == got[t][i]
                verbatim == \E j \in DOMAIN serve[t] : serve[t][j] = row
            IN  /\ row.level \notin Injectable(Acting(evt)) /\ row.long => <<t, row.id>> \in watch
                /\ verbatim => <<t, row.id>> \notin watch

(* What memory brings into a prompt is fit for the room and the people in  *)
(* it, is what the manifest says, and what was held back is watched for    *)
(* (injection_gate.py, audience.py, memory_budget.py, tripwire_watch.py).  *)
InjectionIsGuarded ==
    NothingAboveTheRoom /\ AudienceHolds /\ ManifestIsThePrompt /\ WithheldIsWatched
=============================================================================
